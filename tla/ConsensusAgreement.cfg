SPECIFICATION Spec
CONSTANTS
    N = 3
    Value = {0}
    NoOp = noop
    Window = 2
    Slack = 1
    InstSpace = 100
    InitRequests = {0}
    FastPath = FALSE
    SlowPath = TRUE
    LazyVerify = FALSE
    Timeouts = {1, 2}
    MaxView = 1
    MaxInst = 1
INVARIANT Agreement
CHECK_DEADLOCK FALSE
