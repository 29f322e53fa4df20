SPECIFICATION Spec
CONSTANTS
    N = 3
    Value = {0, 1}
    NoOp = noop
    Window = 2
    Slack = 1
    InstSpace = 100
    InitRequests = {0, 1}
    FastPath = TRUE
    SlowPath = FALSE
    LazyVerify = FALSE
    Timeouts = {}
    MaxView = 0
    MaxInst = 2
INVARIANTS
    FastCommitUsable
    CheckpointIsPrefix
PROPERTIES
    ImplementsLog
CHECK_DEADLOCK FALSE
