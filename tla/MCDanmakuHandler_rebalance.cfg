\* A second session of the same process.
SPECIFICATION Spec
CONSTANTS
    p1 = p1  p2 = p2
    Partitions <- MCOnePartition
    Kind <- MCDanmaku
    LogLen <- MCLogLen
    ChannelBufferSize = 1
    BatchSize = 2
    MaxDBRetries = 1
    MaxSessions = 2
    MaxRestarts = 0
    MaxLostAcks = 0
INVARIANT RebalanceContinues
\* The process may exit, or be down with no restart left.
CHECK_DEADLOCK FALSE
