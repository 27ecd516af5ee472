------------------------------- MODULE Fanout -------------------------------
(***************************************************************************)
(* How a message published on a room's Redis channel reaches the sockets   *)
(* of one server: the subscription goroutines (subscribeToRoom), the       *)
(* snapshot of the room and the job queue (broadcastToLocalClients), the   *)
(* workers and the pooled slices they share (broadcastWorker, safeSend).   *)
(* The statistics of broadcastStats take the same way from the snapshot on.*)
(*                                                                         *)
(* Who is in a room is taken from Presence, which Manager implements: a    *)
(* registration is Enter, an unregistration Leave, each with what it does  *)
(* to the room's subscription.  Redis is external: it delivers a message   *)
(* at most once to each subscription that is up when it is published.      *)
(***************************************************************************)
EXTENDS Presence, Integers, Sequences, SequencesExt

CONSTANTS
    Messages,             \* danmaku of any server, statistics of this one
    Stats,                \* the messages that are statistics
    MsgRoom,              \* MsgRoom[m]: the room m is for
    StatsCalls,           \* the broadcastStats goroutines
    Workers,              \* the broadcastWorker goroutines
    Slices,               \* bound: the []*Client slices clientPool hands out
    BroadcastJobChanSize, \* capacity of broadcastJobChan
    SendChanSize,         \* capacity of a client's Send
    None

ASSUME RoomAssumption == /\ RoomOf \in [Clients -> RoomIDs]
                         /\ MsgRoom \in [Messages -> RoomIDs]
                         /\ Stats \subseteq Messages
                         /\ IsFiniteSet(Clients)
ASSUME ChanAssumption == {BroadcastJobChanSize, SendChanSize} \subseteq Nat \ {0}
ASSUME NameAssumption == None \notin Clients /\ StatsCalls \cap Clients = {}

VARIABLES
    cancelSub,  \* cancelSub[r]: the subscription m.cancelSub[r] cancels
    subs,       \* subs[c]: the subscription goroutine c's registration started
    canceled,   \* the subscriptions whose context is cancelled
    published,  \* the messages already published, or made
    inbox,      \* inbox[c]: what Redis has delivered to subscription c
    dispatch,   \* dispatch[b]: the job caller b is about to enqueue
    pool,       \* the slices in m.clientPool
    array,      \* array[s]: the backing array of slice s
    jobs,       \* m.broadcastJobChan
    task,       \* task[w]: the job worker w is sending, and its position in it
    sent,       \* sent[c]: all that was accepted by c.Send, in order
    unread      \* unread[c]: how much of it WritePump has not taken yet

roomVars == <<vars, cancelSub, subs, canceled>>
pubVars == <<published, inbox>>
jobVars == <<dispatch, pool, array, jobs, task>>
sendVars == <<sent, unread>>
fvars == <<roomVars, pubVars, jobVars, sendVars>>

(* Who calls broadcastToLocalClients. *)
Callers == Clients \cup StatsCalls

(* A delivery: a message and the caller it came through.  A job adds the    *)
(* slice of clients and its length.                                         *)
Delivery == [msg : Messages, via : Callers]
Job == [msg : Messages, via : Callers, slice : Slices, len : Nat]
NoJob == [len |-> 0]

TypeOK ==
    /\ presence \in [Clients -> {"outside", "inside", "left"}]
    /\ listening \in SUBSET RoomIDs
    /\ cancelSub \in [RoomIDs -> Clients \cup {None}]
    /\ subs \in [Clients -> {"none", "starting", "live", "exited"}]
    /\ canceled \in SUBSET Clients
    /\ published \in SUBSET Messages
    /\ inbox \in [Clients -> Seq(Messages)]
    /\ dispatch \in [Callers -> Job \cup {NoJob}]
    /\ pool \in SUBSET Slices
    /\ array \in [Slices -> Seq(Clients)]
    /\ jobs \in Seq(Job) /\ Len(jobs) <= BroadcastJobChanSize
    /\ task \in [Workers -> [job : Job \cup {NoJob}, at : Nat]]
    /\ sent \in [Clients -> Seq(Delivery)]
    /\ unread \in [Clients -> 0..SendChanSize]

FInit ==
    /\ Init
    /\ cancelSub = [r \in RoomIDs |-> None]
    /\ subs = [c \in Clients |-> "none"]
    /\ canceled = {}
    /\ published = {}
    /\ inbox = [c \in Clients |-> <<>>]
    /\ dispatch = [b \in Callers |-> NoJob]
    /\ pool = Slices
    /\ array = [s \in Slices |-> <<>>]
    /\ jobs = <<>>
    /\ task = [w \in Workers |-> [job |-> NoJob, at |-> 0]]
    /\ sent = [c \in Clients |-> <<>>]
    /\ unread = [c \in Clients |-> 0]

----------------------------------------------------------------------------
(* handleRegister and handleUnregister, as far as they concern delivery. *)

JoinRoom(c) ==
    /\ Enter(c)
    /\ LET r == RoomOf[c]
       IN IF r \in listening
          THEN UNCHANGED <<cancelSub, subs>>
          ELSE /\ cancelSub' = [cancelSub EXCEPT ![r] = c]
               /\ subs' = [subs EXCEPT ![c] = "starting"]
    /\ UNCHANGED <<canceled, pubVars, jobVars, sendVars>>

LeaveRoom(c) ==
    /\ Leave(c)
    /\ LET r == RoomOf[c]
       IN IF Members(r) = {c}
          THEN /\ canceled' = canceled \cup {cancelSub[r]}
               /\ cancelSub' = [cancelSub EXCEPT ![r] = None]
          ELSE UNCHANGED <<canceled, cancelSub>>
    /\ UNCHANGED <<subs, pubVars, jobVars, sendVars>>

(* RedisClient.Subscribe takes effect. *)
SubStart(c) ==
    /\ subs[c] = "starting"
    /\ subs' = [subs EXCEPT ![c] = "live"]
    /\ UNCHANGED <<vars, cancelSub, canceled, pubVars, jobVars, sendVars>>

(* case <-ctx.Done(): the goroutine returns, pubsub.Close() drops the rest. *)
SubExit(c) ==
    /\ subs[c] = "live" /\ c \in canceled
    /\ dispatch[c] = NoJob
    /\ subs' = [subs EXCEPT ![c] = "exited"]
    /\ inbox' = [inbox EXCEPT ![c] = <<>>]
    /\ UNCHANGED <<vars, cancelSub, canceled, published, jobVars, sendVars>>

(* External: some server publishes m; Redis hands it to each subscription   *)
(* of the room that is up, also to one already cancelled here, or loses it. *)
Publish(m) ==
    /\ m \notin Stats \cup published
    /\ published' = published \cup {m}
    /\ \E reached \in SUBSET {c \in Clients : subs[c] = "live" /\ RoomOf[c] = MsgRoom[m]} :
          inbox' = [c \in Clients |-> IF c \in reached THEN Append(inbox[c], m) ELSE inbox[c]]
    /\ UNCHANGED <<roomVars, jobVars, sendVars>>

----------------------------------------------------------------------------
(* broadcastToLocalClients. *)

(* append to targetClients[:0]: what the array held beyond stays there. *)
Overwrite(old, new) == new \o SubSeq(old, Len(new) + 1, Len(old))

(* Mutant of Collect: the length is not reset, targetClients[:0] is missing. *)
Collect_NoReset(old, new) == [array |-> old \o new, len |-> Len(old \o new)]

Collect(old, new) == [array |-> Overwrite(old, new), len |-> Len(new)]

(* Under RLock: a room without entry is ignored, otherwise its members are  *)
(* copied into a slice of the pool.                                         *)
TakeSnapshot(b, r, m) ==
    /\ dispatch[b] = NoJob
    /\ \/ /\ r \notin listening
          /\ UNCHANGED <<dispatch, pool, array>>
       \/ /\ r \in listening
          /\ \E s \in pool, order \in SetToSeqs(Members(r)) :
                LET targets == Collect(array[s], order)
                IN /\ pool' = pool \ {s}
                   /\ array' = [array EXCEPT ![s] = targets.array]
                   /\ dispatch' = [dispatch EXCEPT ![b] =
                         [msg |-> m, via |-> b, slice |-> s, len |-> targets.len]]
    /\ UNCHANGED <<roomVars, jobs, task, sendVars>>

(* A subscription goroutine got a message.  The select may prefer it to     *)
(* ctx.Done(), so a cancelled one still gets here.                          *)
Snapshot(c) ==
    /\ subs[c] = "live"
    /\ inbox[c] # <<>>
    /\ inbox' = [inbox EXCEPT ![c] = Tail(@)]
    /\ TakeSnapshot(c, RoomOf[c], Head(inbox[c]))
    /\ UNCHANGED published

(* broadcastStats has put the statistics of a room together.  The room had  *)
(* an entry when the call began, and may have none any more.                *)
StatsSnapshot(g, m) ==
    /\ m \in Stats \ published
    /\ \E c \in Clients : RoomOf[c] = MsgRoom[m] /\ presence[c] # "outside"
    /\ published' = published \cup {m}
    /\ TakeSnapshot(g, MsgRoom[m], m)
    /\ UNCHANGED inbox

(* Mutant of JobQueueHasRoom: the queue grows without bound. *)
JobQueueHasRoom_Unbounded == TRUE

JobQueueHasRoom == Len(jobs) < BroadcastJobChanSize

(* Mutants of GivenBack: the slice goes back to the pool also when a worker *)
(* will walk it; it is not given back when the job is dropped.              *)
GivenBack_Always(s, queued) == pool \cup {s}

GivenBack_Never(s, queued) == pool

GivenBack(s, queued) == IF queued THEN pool ELSE pool \cup {s}

(* The non-blocking send of the job: queued, or dropped and its slice given *)
(* back.                                                                    *)
Dispatch(b) ==
    /\ dispatch[b] # NoJob
    /\ dispatch' = [dispatch EXCEPT ![b] = NoJob]
    /\ jobs' = IF JobQueueHasRoom THEN Append(jobs, dispatch[b]) ELSE jobs
    /\ pool' = GivenBack(dispatch[b].slice, JobQueueHasRoom)
    /\ UNCHANGED <<roomVars, pubVars, array, task, sendVars>>

----------------------------------------------------------------------------
(* broadcastWorker. *)

WorkerTake(w) ==
    /\ task[w].job = NoJob
    /\ jobs # <<>>
    /\ task' = [task EXCEPT ![w] = [job |-> Head(jobs), at |-> 1]]
    /\ jobs' = Tail(jobs)
    /\ UNCHANGED <<roomVars, pubVars, dispatch, pool, array, sendVars>>

(* The client at the worker's position in the backing array. *)
Target(w) == array[task[w].job.slice][task[w].at]

(* Mutant of Skips: the send has no default branch. *)
Skips_Never(c) == FALSE

Skips(c) == unread[c] = SendChanSize

(* safeSend: a full channel loses the message for this client only. *)
SafeSend(w) ==
    /\ task[w].at \in 1..task[w].job.len
    /\ LET job == task[w].job
           c == Target(w)
       IN \/ /\ unread[c] < SendChanSize
             /\ sent' = [sent EXCEPT ![c] = Append(@, [msg |-> job.msg, via |-> job.via])]
             /\ unread' = [unread EXCEPT ![c] = @ + 1]
          \/ /\ Skips(c)
             /\ UNCHANGED <<sent, unread>>
    /\ task' = [task EXCEPT ![w] = [job |-> @.job, at |-> @.at + 1]]
    /\ UNCHANGED <<roomVars, pubVars, dispatch, pool, array, jobs>>

(* m.clientPool.Put(job.Clients), after the last client. *)
WorkerPut(w) ==
    /\ task[w].job # NoJob
    /\ task[w].at > task[w].job.len
    /\ pool' = pool \cup {task[w].job.slice}
    /\ task' = [task EXCEPT ![w] = [job |-> NoJob, at |-> 0]]
    /\ UNCHANGED <<roomVars, pubVars, dispatch, array, jobs, sendVars>>

(* WritePump takes a message; nothing obliges a slow peer to let it. *)
WritePump(c) ==
    /\ unread[c] > 0
    /\ unread' = [unread EXCEPT ![c] = @ - 1]
    /\ UNCHANGED <<roomVars, pubVars, jobVars, sent>>

----------------------------------------------------------------------------
SubStep(c) == SubStart(c) \/ SubExit(c) \/ Snapshot(c) \/ Dispatch(c)
StatsStep(g) == (\E m \in Messages : StatsSnapshot(g, m)) \/ Dispatch(g)
WorkerStep(w) == WorkerTake(w) \/ SafeSend(w) \/ WorkerPut(w)

FNext == \/ \E c \in Clients : JoinRoom(c) \/ LeaveRoom(c) \/ SubStep(c) \/ WritePump(c)
         \/ \E m \in Messages : Publish(m)
         \/ \E g \in StatsCalls : StatsStep(g)
         \/ \E w \in Workers : WorkerStep(w)

FSpec == FInit /\ [][FNext]_fvars

(* The goroutines run.  WritePump is left out: it waits for the peer. *)
FairFSpec == /\ FSpec
             /\ \A c \in Clients : WF_fvars(SubStep(c))
             /\ \A g \in StatsCalls : WF_fvars(Dispatch(g))
             /\ \A w \in Workers : WF_fvars(WorkerStep(w))

----------------------------------------------------------------------------
(* Properties. *)

(* A message goes only to clients of the room it was published on, although *)
(* the snapshot is sent from outside the lock, from an array that later     *)
(* snapshots of other rooms reuse.                                          *)
RoomIsolation ==
    \A c \in Clients : \A i \in 1..Len(sent[c]) : MsgRoom[sent[c][i].msg] = RoomOf[c]

(* The jobs that hold a slice: about to be queued, queued, or being sent.   *)
Holders(s) ==
    {<<"dispatch", b>> : b \in {d \in Callers : dispatch[d] # NoJob /\ dispatch[d].slice = s}}
    \cup {<<"job", i>> : i \in {j \in 1..Len(jobs) : jobs[j].slice = s}}
    \cup {<<"task", w>> : w \in {v \in Workers : task[v].job # NoJob /\ task[v].job.slice = s}}

(* Each slice is in the pool or held by one job, never both, never neither: *)
(* no array is overwritten while a worker walks it, and none is leaked when *)
(* the queue is full.                                                       *)
SliceHasOneOwner ==
    \A s \in Slices : IF s \in pool THEN Holders(s) = {}
                      ELSE \E h \in Holders(s) : Holders(s) = {h}

(* Through one caller a client is sent a message at most once, and          *)
(* only a client that was in the room when a snapshot was taken.            *)
OncePerCaller ==
    \A c \in Clients :
        /\ \A i, j \in 1..Len(sent[c]) : i # j => sent[c][i] # sent[c][j]
        /\ sent[c] # <<>> => presence[c] # "outside"

(* manager.go:250, "the local user will see the message twice!" is what the *)
(* single path through Redis is there to prevent.                           *)
SeenOnce ==
    \A c \in Clients : \A i, j \in 1..Len(sent[c]) :
        i # j => sent[c][i].msg # sent[c][j].msg

(* README.md:113: a full Send is skipped, it does not block the worker.     *)
(* Every queued job is sent and its slice returned, also when no client     *)
(* ever reads.                                                              *)
JobsComplete ==
    \A s \in Slices : (s \notin pool) ~> (s \in pool)
=============================================================================
