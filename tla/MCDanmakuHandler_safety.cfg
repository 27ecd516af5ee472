\* Two partitions, a skipped and a rejected message, a rebalance, a restart.
SPECIFICATION Spec
CONSTANTS
    p1 = p1  p2 = p2
    Partitions <- MCPartitions
    Kind <- MCKind
    LogLen <- MCLongLog
    ChannelBufferSize = 1
    BatchSize = 2
    MaxDBRetries = 2
    MaxSessions = 2
    MaxRestarts = 1
    MaxLostAcks = 1
INVARIANTS
    TypeOK
    MarkedIsAccounted
    CrashLossBounded
    SavedWithoutGaps
    SavedOrDropped
    WorkerInSession
\* The process may exit, or be down with no restart left.
CHECK_DEADLOCK FALSE
