\* Safety of the connection manager: two clients in r1, one in r2.
SPECIFICATION Spec
CONSTANTS
    c1 = c1  c2 = c2  c3 = c3  r1 = r1  r2 = r2
    Clients <- MCClients
    RoomIDs <- MCRoomIDs
    RoomOf <- MCRoomOf
    None = None
    BroadcastChanSize = 1
    ProducerChanBufSize = 1
    MaxDanmaku <- MCMaxDanmaku
INVARIANTS
    TypeOK
    OneSubscriptionPerRoom
    MembershipMatchesConnection
    NoDanmakuLost
PROPERTIES
    PersistedInOrder
    ImplementsPresence
\* A connection is used once: when all are closed the model has nothing to do.
CHECK_DEADLOCK FALSE
