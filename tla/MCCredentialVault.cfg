CONSTANTS
    Activations = {TRUE, FALSE}
    Unreliable = {"stage", "publish", "replace"}
    MaxKey = 3
    MaxTodo = 2
SPECIFICATION BoundedSpec
INVARIANTS LogoutLeavesNothing StoredIsTheSession
CHECK_DEADLOCK FALSE
