\* Two claims and one slot in msgChan; shutdown and rebalance at any moment.
SPECIFICATION FairSpec
CONSTANTS
    p1 = p1  p2 = p2
    Partitions <- MCPartitions
    Kind <- MCKind
    LogLen <- MCLogLen
    ChannelBufferSize = 1
    BatchSize = 3
    MaxDBRetries = 2
    MaxSessions = 2
    MaxRestarts = 0
    MaxLostAcks = 0
PROPERTIES
    ShutdownTerminates
    BatchesSettle
\* The process may exit, or be down with no restart left.
CHECK_DEADLOCK FALSE
