SPECIFICATION Spec
CONSTANTS
    N = 2
    Value = {0, 1, 2, 3}
    NoOp = noop
    Window = 2
    Slack = 1
    InstSpace = 100
    InitRequests = {0, 1, 2, 3}
    FastPath = FALSE
    SlowPath = TRUE
    LazyVerify = TRUE
    Timeouts = {0, 1}
    MaxView = 1
    MaxInst = 4
INVARIANTS
    NeverThrows
    CommitsFitPool
    OneProposal
PROPERTIES
    ImplementsLog
CONSTRAINT FewPerView
CHECK_DEADLOCK FALSE
