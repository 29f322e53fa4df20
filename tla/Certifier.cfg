SPECIFICATION MCSpec
CONSTANTS
    N = 3
    TailSize = 1
    Workers = 2
    Leader = 0
    Message = {a, b}
    Expected = a
    Dissenters = {1}
    MaxIndex = 7
INVARIANTS
    TypeOK
    CertificateSound
    PromiseSound
    AlarmsAreReal
    PromisesKept
    SharesKept
PROPERTY
    BuffersSuffice
CHECK_DEADLOCK FALSE
