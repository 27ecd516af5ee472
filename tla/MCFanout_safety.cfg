\* Two rooms share the pool, one worker, a job queue of one.
SPECIFICATION FairFSpec
CONSTANTS
    c1 = c1  c2 = c2  c3 = c3  r1 = r1  r2 = r2  m1 = m1  m2 = m2
    w1 = w1  s1 = s1  s2 = s2  s3 = s3  g1 = g1
    Clients <- MCClients
    RoomIDs <- MCRoomIDs
    RoomOf <- MCRoomOf
    Messages <- MCMessages
    Stats <- MCStats
    MsgRoom <- MCMsgRoom
    StatsCalls = {g1}
    Workers = {w1}
    Slices = {s1, s2, s3}
    BroadcastJobChanSize = 1
    SendChanSize = 1
    None = None
INVARIANTS
    TypeOK
    RoomIsolation
    SliceHasOneOwner
    OncePerCaller
PROPERTY JobsComplete
\* Every client leaves, every message is sent: the model has nothing to do.
CHECK_DEADLOCK FALSE
