SPECIFICATION Spec
CONSTANTS
    N = 3
    Value = {0, 1}
    NoOp = noop
    Window = 2
    Slack = 1
    InstSpace = 100
    InitRequests = {1}
    FastPath = TRUE
    SlowPath = TRUE
    LazyVerify = FALSE
    Timeouts = {1, 2}
    MaxView = 1
    MaxInst = 1
INVARIANTS
    TypeOK
    ChosenValueSurvives
    FastCommitsSealed
    SealedStatesAgree
CONSTRAINT UntilNewProposal
CHECK_DEADLOCK FALSE
