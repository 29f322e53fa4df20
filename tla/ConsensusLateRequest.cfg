SPECIFICATION Spec
CONSTANTS
    N = 3
    Value = {0, 1}
    NoOp = noop
    Window = 2
    Slack = 1
    InstSpace = 100
    InitRequests = {}
    FastPath = FALSE
    SlowPath = TRUE
    LazyVerify = FALSE
    Timeouts = {}
    MaxView = 0
    MaxInst = 2
INVARIANT EventuallyValidAccepted
CHECK_DEADLOCK FALSE
