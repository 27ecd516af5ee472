------------------------------ MODULE RoomStats ------------------------------
(***************************************************************************)
(* Likes and statistics of one server: the like handler (ws/router.go),    *)
(* the broadcastStats goroutines the manager's ticker starts (ws/manager.go)*)
(* and the Redis counter of each room (infra/redis.go: IncrRoomLikes,      *)
(* GetRoomLikes).  The online counts of the same goroutines are in         *)
(* OnlineHeartbeat.tla, the delivery of the statistics in Fanout.tla.      *)
(*                                                                         *)
(* Who is in a room is taken from Presence, which Manager implements.      *)
(* localLikes holds the likes themselves; what the code keeps is their sum.*)
(***************************************************************************)
EXTENDS Presence, Integers, FiniteSets, FiniteSetsExt

CONSTANTS
    Likes,        \* the like frames
    LikeBy,       \* LikeBy[l]: the client that sends l
    Count,        \* Count[l]: the count in the frame, a uint64
    Calls,        \* bound: the broadcastStats goroutines alive at a time
    Word,         \* 2^63: int64 is -Word..Word-1, uint64 is 0..2*Word-1
    MaxFailures,  \* bound: Redis calls that fail
    None          \* no room

RoomOfLike == [l \in Likes |-> RoomOf[LikeBy[l]]]

(* The handler defends from a frontend that sends no count, or zero. *)
Clicks == [l \in Likes |-> IF Count[l] <= 0 THEN 1 ELSE Count[l]]

Sum(S) == MapThenSumSet(LAMBDA l : Clicks[l], S)

(* What the uint64 of m.localLikes is after a += of each like of S: counts  *)
(* are not validated, so the sum may wrap.                                  *)
LikesDelta(S) == Sum(S) % (2 * Word)

ASSUME LikeAssumption == /\ RoomOf \in [Clients -> RoomIDs]
                         /\ LikeBy \in [Likes -> Clients]
                         /\ IsFiniteSet(Likes)
                         /\ Count \in [Likes -> 0..(2 * Word - 1)]
                         /\ Word \in Nat \ {0} /\ MaxFailures \in Nat
                         /\ None \notin RoomIDs

VARIABLES
    localLikes, \* localLikes[r]: the likes in m.localLikes[r]
    call,       \* call[g]: a broadcastStats goroutine and its locals
    incrs,      \* the IncrRoomLikes goroutines under way
    redis,      \* redis[r]: the counter of KeyRoomLikes
    shown,      \* shown[r]: the likes in the last statistics sent in r
    failures,   \* counter for the bound
    pressed, counted, recounted, failed, exposed  \* history, see below

(* History: the likes sent, added to the counter, added more than once,     *)
(* whose INCRBY failed, and whose room had no entry at some moment since    *)
(* they were sent.                                                          *)
history == <<pressed, counted, recounted, failed, exposed>>
svars == <<vars, localLikes, call, incrs, redis, shown, failures, history>>

NoLikes == [r \in RoomIDs |-> {}]

(* batch: currentBatchLikes; todo: the rooms of localStats not yet reported; *)
(* room, likes: the loop's roomID and totalLikes; unread: GetRoomLikes got   *)
(* an error; overlapped: another call ran during this one.                   *)
Call == [pc : {"idle", "swapped", "loop", "get", "show"},
         batch : [RoomIDs -> SUBSET Likes], todo : SUBSET RoomIDs,
         room : RoomIDs \cup {None}, likes : 0..(Word - 1),
         unread : BOOLEAN, overlapped : BOOLEAN]
Idle == [pc |-> "idle", batch |-> NoLikes, todo |-> {}, room |-> None,
         likes |-> 0, unread |-> FALSE, overlapped |-> FALSE]
Incr == [room : RoomIDs, likes : SUBSET Likes, again : BOOLEAN]

TypeOK ==
    /\ presence \in [Clients -> {"outside", "inside", "left"}]
    /\ listening \in SUBSET RoomIDs
    /\ localLikes \in [RoomIDs -> SUBSET Likes]
    /\ call \in [Calls -> Call]
    /\ incrs \in SUBSET Incr
    /\ redis \in [RoomIDs -> -Word..(Word - 1)]
    /\ shown \in [RoomIDs -> 0..(Word - 1)]
    /\ failures \in 0..MaxFailures
    /\ {pressed, counted, recounted, failed, exposed} \subseteq SUBSET Likes

SInit ==
    /\ Init
    /\ localLikes = NoLikes
    /\ call = [g \in Calls |-> Idle]
    /\ incrs = {}
    /\ redis = [r \in RoomIDs |-> 0]
    /\ shown = [r \in RoomIDs |-> 0]
    /\ failures = 0
    /\ pressed = {} /\ counted = {} /\ recounted = {} /\ failed = {} /\ exposed = {}

OfRoom(r) == {l \in Likes : RoomOfLike[l] = r}

----------------------------------------------------------------------------
(* The connections: handleRegister, handleUnregister and the like handler. *)

JoinRoom(c) ==
    /\ Enter(c)
    /\ UNCHANGED <<localLikes, call, incrs, redis, shown, failures, history>>

LeaveRoom(c) ==
    /\ Leave(c)
    /\ exposed' = IF RoomOf[c] \in listening' THEN exposed
                  ELSE exposed \cup (pressed \cap OfRoom(RoomOf[c]))
    /\ UNCHANGED <<localLikes, call, incrs, redis, shown, failures,
                   pressed, counted, recounted, failed>>

(* Mutant of AddLike: the sum is assigned where it should be increased. *)
AddLike_Assigns(r, l) == {l}

(* m.localLikes[c.RoomID] += likes.Count, under likesMu. *)
AddLike(r, l) == localLikes[r] \cup {l}

(* ReadPump runs from before handleRegister to before handleUnregister, so  *)
(* the room of a like may not have its entry yet.                           *)
Like(l) ==
    /\ l \notin pressed
    /\ presence[LikeBy[l]] # "left"
    /\ LET r == RoomOfLike[l]
       IN /\ localLikes' = [localLikes EXCEPT ![r] = AddLike(r, l)]
          /\ exposed' = IF r \in listening THEN exposed ELSE exposed \cup {l}
    /\ pressed' = pressed \cup {l}
    /\ UNCHANGED <<vars, call, incrs, redis, shown, failures,
                   counted, recounted, failed>>

----------------------------------------------------------------------------
(* broadcastStats. *)

(* Mutant of AfterSwap: m.localLikes is not made anew. *)
AfterSwap_Kept == localLikes

AfterSwap == NoLikes

(* The ticker starts a call, which takes localLikes under likesMu.  Nothing *)
(* waits for the call of the tick before.                                   *)
Swap(g) ==
    /\ call[g].pc = "idle"
    /\ LET others == {h \in Calls : call[h].pc # "idle"}
       IN call' = [h \in Calls |->
             IF h = g THEN [Idle EXCEPT !.pc = "swapped", !.batch = localLikes,
                                        !.overlapped = others # {}]
             ELSE [call[h] EXCEPT !.overlapped = @ \/ h \in others]]
    /\ localLikes' = AfterSwap
    /\ UNCHANGED <<vars, incrs, redis, shown, failures, history>>

(* Under RLock: localStats gets the rooms with an entry.  The likes of any  *)
(* other room are not looked at again.                                      *)
LocalStats(g) ==
    /\ call[g].pc = "swapped"
    /\ LET kept == [r \in RoomIDs |-> IF r \in listening THEN call[g].batch[r] ELSE {}]
       IN call' = [call EXCEPT ![g] =
             IF listening = {} THEN Idle
             ELSE [@ EXCEPT !.pc = "loop", !.todo = listening, !.batch = kept]]
    /\ UNCHANGED <<vars, localLikes, incrs, redis, shown, failures, history>>

(* The loop body up to go infra.IncrRoomLikes, for a room the map iteration *)
(* yields.  A batch whose sum is 0, or has wrapped to 0, is not reported.   *)
Report(g, r) ==
    /\ call[g].pc = "loop"
    /\ r \in call[g].todo
    /\ incrs' = IF LikesDelta(call[g].batch[r]) > 0
                THEN incrs \cup {[room |-> r, likes |-> call[g].batch[r], again |-> FALSE]}
                ELSE incrs
    /\ call' = [call EXCEPT ![g].pc = "get", ![g].room = r, ![g].todo = @ \ {r},
                            ![g].batch[r] = {}]
    /\ UNCHANGED <<vars, localLikes, redis, shown, failures, history>>

(* Mutant of ParseUint: the counter is used as it is. *)
ParseUint_Raw(n) == n

(* GetRoomLikes: ParseUint makes 0 of a negative counter, an error is 0 too. *)
ParseUint(n) == IF n < 0 THEN 0 ELSE n

(* Mutant of TotalLikes: the statistics get the likes being reported. *)
TotalLikes_Delta(r) == LikesDelta(UNION {i.likes : i \in {j \in incrs : j.room = r}})

TotalLikes(r) == ParseUint(redis[r])

Get(g) ==
    /\ call[g].pc = "get"
    /\ call' = [call EXCEPT ![g].pc = "show", ![g].unread = FALSE,
                            ![g].likes = TotalLikes(call[g].room)]
    /\ UNCHANGED <<vars, localLikes, incrs, redis, shown, failures, history>>

GetFails(g) ==
    /\ call[g].pc = "get"
    /\ failures < MaxFailures
    /\ failures' = failures + 1
    /\ call' = [call EXCEPT ![g].pc = "show", ![g].unread = TRUE, ![g].likes = 0]
    /\ UNCHANGED <<vars, localLikes, incrs, redis, shown, history>>

(* broadcastToLocalClients ignores a room that has lost its entry since.    *)
(* After the last room the call returns.                                    *)
Show(g) ==
    /\ call[g].pc = "show"
    /\ shown' = IF call[g].room \in listening
                THEN [shown EXCEPT ![call[g].room] = call[g].likes]
                ELSE shown
    /\ call' = [call EXCEPT ![g] =
          IF @.todo = {} THEN Idle
          ELSE [@ EXCEPT !.pc = "loop", !.room = None, !.likes = 0, !.unread = FALSE]]
    /\ UNCHANGED <<vars, localLikes, incrs, redis, failures, history>>

----------------------------------------------------------------------------
(* IncrRoomLikes, one goroutine per report. *)

(* Mutant of ToInt64: the count goes through a narrower integer. *)
ToInt64_Narrow(n) == LET m == n % Word IN IF 2 * m < Word THEN m ELSE m - Word

(* int64(count) of a uint64 *)
ToInt64(n) == IF n < Word THEN n ELSE n - 2 * Word

Worth(S) == ToInt64(LikesDelta(S))

Incremented(i) == redis[i.room] + Worth(i.likes)

(* External: INCRBY takes effect. *)
Apply(i) ==
    /\ Incremented(i) \in -Word..(Word - 1)
    /\ redis' = [redis EXCEPT ![i.room] = Incremented(i)]
    /\ IF i.again
       THEN recounted' = recounted \cup i.likes /\ UNCHANGED counted
       ELSE counted' = counted \cup i.likes /\ UNCHANGED recounted
    /\ UNCHANGED <<vars, localLikes, call, shown, pressed, failed, exposed>>

IncrBy(i) ==
    /\ Apply(i)
    /\ incrs' = incrs \ {i}
    /\ UNCHANGED failures

(* The answer is lost, and the Redis client sends the command again: up to  *)
(* three times by its default MaxRetries, here as often as failures allow.  *)
IncrByAgain(i) ==
    /\ failures < MaxFailures
    /\ failures' = failures + 1
    /\ Apply(i)
    /\ incrs' = (incrs \ {i}) \cup {[i EXCEPT !.again = TRUE]}

(* An error, which is logged and no more: Redis cannot be reached within    *)
(* RedisCancelTimeout, or the counter would overflow.                       *)
IncrFails(i) ==
    /\ \/ /\ failures < MaxFailures
          /\ failures' = failures + 1
       \/ /\ Incremented(i) \notin -Word..(Word - 1)
          /\ UNCHANGED failures
    /\ incrs' = incrs \ {i}
    /\ failed' = failed \cup i.likes
    /\ UNCHANGED <<vars, localLikes, call, redis, shown,
                   pressed, counted, recounted, exposed>>

----------------------------------------------------------------------------
CallStep(g) == LocalStats(g) \/ (\E r \in RoomIDs : Report(g, r)) \/ Get(g) \/ GetFails(g) \/ Show(g)
IncrStep(i) == IncrBy(i) \/ IncrByAgain(i) \/ IncrFails(i)

SNext == \/ \E c \in Clients : JoinRoom(c) \/ LeaveRoom(c)
         \/ \E l \in Likes : Like(l)
         \/ \E g \in Calls : Swap(g) \/ CallStep(g)
         \/ \E i \in incrs : IncrStep(i)

SSpec == SInit /\ [][SNext]_svars

(***************************************************************************)
(* Fairness: the ticker keeps ticking, a call's Redis reads return, with   *)
(* whatever result, and so does an INCRBY, within RedisCancelTimeout.  For *)
(* each g either Swap or CallStep is enabled, and only g can change which. *)
(***************************************************************************)
FairSSpec == /\ SSpec
             /\ \A g \in Calls : WF_svars(Swap(g) \/ CallStep(g))
             /\ WF_svars(\E i \in incrs : IncrStep(i))

----------------------------------------------------------------------------
(* Properties. *)

Held == UNION ({localLikes[r] : r \in RoomIDs}
               \cup {call[g].batch[r] : g \in Calls, r \in RoomIDs}
               \cup {i.likes : i \in {j \in incrs : ~j.again}})

Ledger == INSTANCE LikeLedger WITH
    fate <- [l \in Likes |-> IF l \notin pressed THEN "unpressed"
                             ELSE IF l \in recounted THEN "recounted"
                             ELSE IF l \in counted THEN "counted"
                             ELSE IF l \in Held THEN "held" ELSE "lost"],
    total <- redis

(* The map swapped out under likesMu, the calls that overlap and the INCRBY *)
(* goroutines never count a like twice on their own, and never count part   *)
(* of a batch: the counter moves by the worth of whole batches of its room. *)
ImplementsLedger == Ledger!Spec

Gone == pressed \ (Held \cup counted)

(* A like disappears without having been counted only if the INCRBY of its  *)
(* batch failed, if its room had no entry at some moment since it was sent, *)
(* or together with likes of its room whose uint64 sum with it is 0: likes  *)
(* that arrive while a batch is being reported go into the next.            *)
NoSilentLoss ==
    \A l \in Gone \ (failed \cup exposed) :
        \E B \in SUBSET (Gone \cap OfRoom(RoomOfLike[l])) : l \in B /\ LikesDelta(B) = 0

(* The counter falls only when a single batch is above the largest int64,   *)
(* which int64(count) makes negative: no sum below it ever lowers a total.  *)
CounterFallsOnlyOnHugeBatch ==
    [][\A r \in RoomIDs : redis'[r] < redis[r] =>
          \E i \in incrs : i.room = r /\ LikesDelta(i.likes) >= Word]_svars

(* The total a room sees falls only when two calls overlapped, so that the  *)
(* older one spoke last, when a read failed and was shown as 0, or when the *)
(* likes counted are more than an int64 holds.                              *)
ShownFallsOnlyOnOverlap ==
    [][\A r \in RoomIDs : shown'[r] < shown[r] =>
          \/ Sum(counted \cap OfRoom(r)) >= Word
          \/ \E g \in Calls : /\ call[g].pc = "show" /\ call[g].room = r
                              /\ call[g].unread \/ call[g].overlapped]_svars

(* Every like is counted or lost in the end, none waits for ever in a map   *)
(* or a batch.                                                              *)
LikesSettle == \A l \in Likes : []<>(l \notin Held)

(* In a room that stays inhabited the statistics end up at the counter,     *)
(* although each call reads it while its own INCRBY may be under way.       *)
StatsCatchUp ==
    \A r \in RoomIDs : <>[](r \in listening) => <>[](shown[r] = ParseUint(redis[r]))
=============================================================================
