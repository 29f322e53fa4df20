SPECIFICATION Spec
CONSTANTS
    N = 1
    TailSize = 2
    Workers = 2
    Leader = 0
    Message = {a}
    Expected = a
    Dissenters = {}
    MaxIndex = 3
INVARIANT NoShareLost
CHECK_DEADLOCK FALSE
