\* One room, one message: two subscriptions of the room overlap.
SPECIFICATION FSpec
CONSTANTS
    c1 = c1  c2 = c2  c3 = c3  r1 = r1  r2 = r2  m1 = m1  m2 = m2
    w1 = w1  s1 = s1  s2 = s2  s3 = s3  g1 = g1
    Clients <- MCRoommates
    RoomIDs <- MCOneRoom
    RoomOf <- MCRoomOf
    Messages <- MCOneMessage
    Stats <- MCStats
    MsgRoom <- MCMsgRoom
    StatsCalls = {g1}
    Workers = {w1}
    Slices = {s1, s2}
    BroadcastJobChanSize = 1
    SendChanSize = 2
    None = None
INVARIANT SeenOnce
CHECK_DEADLOCK FALSE
