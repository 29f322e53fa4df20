SPECIFICATION Spec
CONSTANTS
    N = 3
    Value = {0}
    NoOp = noop
    Window = 2
    Slack = 1
    InstSpace = 100
    InitRequests = {0}
    FastPath = FALSE
    SlowPath = TRUE
    LazyVerify = TRUE
    Timeouts = {}
    MaxView = 0
    MaxInst = 1
INVARIANT OutstandingIsExact
CHECK_DEADLOCK FALSE
