CONSTANTS
    Activations = {TRUE}
    Unreliable = {"stage", "publish"}
    MaxKey = 2
    MaxTodo = 1
SPECIFICATION FairSpec
PROPERTY StageConverges
CHECK_DEADLOCK FALSE
