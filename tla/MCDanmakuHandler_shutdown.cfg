\* A session ends while msgChan holds a message.
SPECIFICATION Spec
CONSTANTS
    p1 = p1  p2 = p2
    Partitions <- MCOnePartition
    Kind <- MCDanmaku
    LogLen <- MCLogLen
    ChannelBufferSize = 1
    BatchSize = 2
    MaxDBRetries = 1
    MaxSessions = 1
    MaxRestarts = 0
    MaxLostAcks = 0
INVARIANT CleanupFlushesQueue
\* The process may exit, or be down with no restart left.
CHECK_DEADLOCK FALSE
