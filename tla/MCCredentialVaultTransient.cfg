CONSTANTS
    Activations = {TRUE}
    Unreliable = {}
    MaxKey = 2
    MaxTodo = 2
SPECIFICATION OutageSpec
PROPERTY OnlyRefusedIsDeleted
CHECK_DEADLOCK FALSE
