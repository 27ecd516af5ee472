\* The select loop waits in producer.Input() <- msg while the producer is full.
SPECIFICATION Spec
CONSTANTS
    c1 = c1  c2 = c2  c3 = c3  r1 = r1  r2 = r2
    Clients <- MCRoommates
    RoomIDs <- MCOneRoom
    RoomOf <- MCRoomOf
    None = None
    BroadcastChanSize = 1
    ProducerChanBufSize = 1
    MaxDanmaku <- MCMaxDanmaku
INVARIANT KafkaNeverBlocksLoop
CHECK_DEADLOCK FALSE
