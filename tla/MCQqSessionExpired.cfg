\* A locally expired credential, restored and refreshed; nothing else happens.
SPECIFICATION EverybodySpec
CONSTANTS
    a1 = a1
    c1 = c1
    v1 = v1
    Account = {a1}
    Refreshable = {a1}
    Caller = {c1}
    Reader = {}
    Attempt = {}
    Login = {}
    MaxGeneration = 2
    MaxKey = 2
PROPERTIES OnlySupersededIsReplaced
CHECK_DEADLOCK FALSE
