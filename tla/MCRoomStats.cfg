\* Two rooms, two likes, calls that overlap, two failed or repeated commands.
SPECIFICATION FairSSpec
CONSTANTS
    c1 = c1  c2 = c2  r1 = r1  r2 = r2
    l1 = l1  l2 = l2  g1 = g1  g2 = g2
    Clients = {c1, c2}
    RoomIDs = {r1, r2}
    RoomOf <- MCRoomOf
    Likes = {l1, l2}
    LikeBy <- MCLikeBy
    Count <- MCCount
    Calls = {g1, g2}
    Word = 2
    MaxFailures = 2
    None = None
INVARIANTS
    TypeOK
    NoSilentLoss
PROPERTIES
    ImplementsLedger
    CounterFallsOnlyOnHugeBatch
    ShownFallsOnlyOnOverlap
    LikesSettle
    StatsCatchUp
\* The ticker never stops: deadlock is checked.
