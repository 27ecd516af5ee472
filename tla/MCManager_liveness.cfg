\* Liveness of the connection manager: two clients sharing r1.
SPECIFICATION FairSpec
CONSTANTS
    c1 = c1  c2 = c2  c3 = c3  r1 = r1  r2 = r2
    Clients <- MCRoommates
    RoomIDs <- MCOneRoom
    RoomOf <- MCRoomOf
    None = None
    BroadcastChanSize = 1
    ProducerChanBufSize = 1
    MaxDanmaku <- MCMaxDanmaku
PROPERTIES
    DeadConnectionsLeave
    EmptyRoomsFallSilent
    DanmakuReachKafka
CHECK_DEADLOCK FALSE
