---------------------------- MODULE FanoutProofs ----------------------------
(***************************************************************************)
(* Proofs about Fanout, for any sets of clients, rooms, messages, workers  *)
(* and slices and any channel capacities.                                  *)
(***************************************************************************)
EXTENDS Fanout, SequenceTheorems, FiniteSetTheorems, TLAPS

USE RoomAssumption, ChanAssumption, NameAssumption

----------------------------------------------------------------------------
(* The inductive invariant. *)

(* The jobs whose clients have not been sent anything yet, and all jobs     *)
(* from their snapshot until their slice is given back.                     *)
Waiting == {dispatch[b] : b \in {d \in Callers : dispatch[d] # NoJob}}
           \cup {jobs[i] : i \in 1..Len(jobs)}
Live == Waiting \cup {task[w].job : w \in {v \in Workers : task[v].job # NoJob}}

(* A room is listened to while it has members, by a subscription that can   *)
(* be cancelled.                                                            *)
RoomInv ==
    /\ \A r \in RoomIDs : r \in listening <=> Members(r) # {}
    /\ \A r \in listening : cancelSub[r] \in Clients

(* No two places hold the same slice. *)
Exclusive ==
    /\ \A j \in Live : j.slice \notin pool
    /\ \A b, d \in Callers : dispatch[b] # NoJob /\ dispatch[d] # NoJob
                             /\ dispatch[b].slice = dispatch[d].slice => b = d
    /\ \A i, k \in 1..Len(jobs) : jobs[i].slice = jobs[k].slice => i = k
    /\ \A v, w \in Workers : task[v].job # NoJob /\ task[w].job # NoJob
                             /\ task[v].job.slice = task[w].job.slice => v = w
    /\ \A b \in Callers, i \in 1..Len(jobs) :
          dispatch[b] # NoJob => dispatch[b].slice # jobs[i].slice
    /\ \A b \in Callers, w \in Workers :
          dispatch[b] # NoJob /\ task[w].job # NoJob => dispatch[b].slice # task[w].job.slice
    /\ \A i \in 1..Len(jobs), w \in Workers :
          task[w].job # NoJob => jobs[i].slice # task[w].job.slice

Covered == \A s \in Slices \ pool : \E j \in Live : j.slice = s

(* What a job is to send is in its slice: clients of the room of its        *)
(* message that have entered it, each once.                                 *)
SnapshotOK(j) ==
    /\ j.len <= Len(array[j.slice])
    /\ \A i \in 1..j.len : LET c == array[j.slice][i]
                           IN RoomOf[c] = MsgRoom[j.msg] /\ presence[c] # "outside"
    /\ \A i, k \in 1..j.len : array[j.slice][i] = array[j.slice][k] => i = k

SnapshotInv == /\ \A j \in Live : SnapshotOK(j)
               /\ \A w \in Workers : task[w].job # NoJob => task[w].at >= 1

(* Redis delivers a published danmaku once to a subscription of its room. *)
InboxInv ==
    \A c \in Clients :
       /\ \A i \in 1..Len(inbox[c]) : /\ MsgRoom[inbox[c][i]] = RoomOf[c]
                                      /\ inbox[c][i] \in published \ Stats
       /\ \A i, k \in 1..Len(inbox[c]) : inbox[c][i] = inbox[c][k] => i = k

(* Caller b has taken m, and will not be given it again. *)
Passed(m, b) ==
    /\ m \in published
    /\ IF b \in Clients THEN m \notin Stats /\ \A i \in 1..Len(inbox[b]) : inbox[b][i] # m
                        ELSE m \in Stats

SameDelivery(j, k) == j.msg = k.msg /\ j.via = k.via

PassInv == /\ \A j \in Live : Passed(j.msg, j.via)
           /\ \A j, k \in Live : SameDelivery(j, k) => j = k

(* What c was sent is not sent to it again, by a job that waits or by the   *)
(* rest of one under way.                                                   *)
SentOK(c, d) ==
    /\ Passed(d.msg, d.via)
    /\ \A j \in Waiting : ~SameDelivery(j, d)
    /\ \A w \in Workers : task[w].job # NoJob /\ SameDelivery(task[w].job, d) =>
          \A k \in task[w].at..task[w].job.len : array[task[w].job.slice][k] # c

SentInv == \A c \in Clients : \A i \in 1..Len(sent[c]) : SentOK(c, sent[c][i])

FInv == /\ TypeOK /\ RoomInv
        /\ Exclusive /\ Covered
        /\ SnapshotInv
        /\ InboxInv /\ PassInv /\ SentInv
        /\ RoomIsolation /\ OncePerCaller

----------------------------------------------------------------------------
(* Lemmas about the operators. *)

(* "No job" is not taken for a job. *)
LEMMA ChanSizes == BroadcastJobChanSize \in Nat \ {0} /\ SendChanSize \in Nat \ {0}
OBVIOUS

LEMMA NoJobIsNone == NoJob \notin Job
BY DEF NoJob, Job

(* The range over a room's map yields each of its members once. *)
LEMMA MembersOrder ==
    ASSUME NEW r, NEW order \in SetToSeqs(Members(r))
    PROVE  /\ order \in Seq(Clients)
           /\ \A i \in 1..Len(order) : order[i] \in Members(r)
           /\ \A i, k \in 1..Len(order) : order[i] = order[k] => i = k
<1>1. IsFiniteSet(Members(r))
    BY FS_Subset DEF Members
<1>2. Cardinality(Members(r)) \in Nat
    BY <1>1, FS_CardinalityType
<1>3. /\ order \in [1..Cardinality(Members(r)) -> Members(r)]
      /\ \A i, k \in 1..Cardinality(Members(r)) : i # k => order[i] # order[k]
    BY DEF SetToSeqs
<1>4. order \in Seq(Members(r)) /\ Len(order) = Cardinality(Members(r))
    BY <1>2, <1>3
<1>5. order \in Seq(Clients)
    BY <1>4, SeqMonotonic DEF Members
<1> QED
    BY <1>3, <1>4, <1>5

(* Filling a reused slice from its start: the clients collected come first, *)
(* whatever the array held before.                                          *)
LEMMA CollectFromStart ==
    ASSUME NEW old \in Seq(Clients), NEW new \in Seq(Clients)
    PROVE  LET t == Collect(old, new)
           IN /\ t.array \in Seq(Clients)
              /\ t.len = Len(new)
              /\ t.len <= Len(t.array)
              /\ \A i \in 1..t.len : t.array[i] = new[i]
<1> DEFINE rest == SubSeq(old, Len(new) + 1, Len(old))
<1>1. rest \in Seq(Clients)
  <2>1. Len(old) \in Nat /\ Len(new) \in Nat
      BY LenProperties
  <2>2. \A i \in (Len(new) + 1)..Len(old) : old[i] \in Clients
      BY <2>1, ElementOfSeq
  <2> HIDE DEF rest
  <2> QED
      BY <2>1, <2>2, SubSeqProperties DEF rest
<1> HIDE DEF rest
<1>2. /\ new \o rest \in Seq(Clients)
      /\ Len(new \o rest) = Len(new) + Len(rest)
      /\ \A i \in 1..(Len(new) + Len(rest)) :
            (new \o rest)[i] = IF i <= Len(new) THEN new[i] ELSE rest[i - Len(new)]
    BY <1>1, ConcatProperties
<1>3. Len(new) \in Nat /\ Len(rest) \in Nat
    BY <1>1, LenProperties
<1>4. Collect(old, new) = [array |-> new \o rest, len |-> Len(new)]
    BY DEF Collect, Overwrite, rest
<1> QED
    BY <1>2, <1>3, <1>4

(* What broadcastToLocalClients has done when it has a job to enqueue. *)
JobMade(b, r, m, s) ==
    /\ s \in pool
    /\ pool' = pool \ {s}
    /\ \E n \in Nat :
          /\ dispatch' = [dispatch EXCEPT ![b] = [msg |-> m, via |-> b, slice |-> s, len |-> n]]
          /\ n <= Len(array'[s])
          /\ \A i \in 1..n : array'[s][i] \in Members(r)
          /\ \A i, k \in 1..n : array'[s][i] = array'[s][k] => i = k
    /\ array' \in [Slices -> Seq(Clients)]
    /\ \A t \in Slices \ {s} : array'[t] = array[t]

LEMMA SnapshotTaken ==
    ASSUME TypeOK, NEW b, NEW r, NEW m, TakeSnapshot(b, r, m)
    PROVE  /\ dispatch[b] = NoJob
           /\ \/ UNCHANGED <<dispatch, pool, array>>
              \/ r \in listening /\ \E s \in Slices : JobMade(b, r, m, s)
<1>1. dispatch[b] = NoJob
    BY DEF TakeSnapshot
<1>2. CASE UNCHANGED <<dispatch, pool, array>>
    BY <1>1, <1>2
<1>3. CASE r \in listening /\ ~UNCHANGED <<dispatch, pool, array>>
  <2>1. PICK s \in pool, order \in SetToSeqs(Members(r)) :
           /\ pool' = pool \ {s}
           /\ array' = [array EXCEPT ![s] = Collect(array[s], order).array]
           /\ dispatch' = [dispatch EXCEPT ![b] =
                  [msg |-> m, via |-> b, slice |-> s, len |-> Collect(array[s], order).len]]
      BY <1>3 DEF TakeSnapshot
  <2>2. s \in Slices /\ array[s] \in Seq(Clients) /\ array \in [Slices -> Seq(Clients)]
      BY DEF TypeOK
  <2>3. /\ order \in Seq(Clients)
        /\ \A i \in 1..Len(order) : order[i] \in Members(r)
        /\ \A i, k \in 1..Len(order) : order[i] = order[k] => i = k
      BY MembersOrder
  <2> DEFINE t == Collect(array[s], order)
  <2>4. /\ t.array \in Seq(Clients)
        /\ t.len = Len(order)
        /\ t.len <= Len(t.array)
        /\ \A i \in 1..t.len : t.array[i] = order[i]
      BY <2>2, <2>3, CollectFromStart
  <2>5. t.len \in Nat
      BY <2>3, <2>4, LenProperties
  <2> HIDE DEF t
  <2>6. array' = [array EXCEPT ![s] = t.array] /\ array'[s] = t.array
      BY <2>1, <2>2 DEF t
  <2>7. JobMade(b, r, m, s)
    <3>1. /\ dispatch' = [dispatch EXCEPT ![b] = [msg |-> m, via |-> b, slice |-> s, len |-> t.len]]
          /\ t.len <= Len(array'[s])
          /\ \A i \in 1..t.len : array'[s][i] \in Members(r)
          /\ \A i, k \in 1..t.len : array'[s][i] = array'[s][k] => i = k
        BY <2>1, <2>3, <2>4, <2>6 DEF t
    <3>2. /\ array' \in [Slices -> Seq(Clients)]
          /\ \A q \in Slices \ {s} : array'[q] = array[q]
        BY <2>2, <2>4, <2>6
    <3> QED
        BY <2>1, <2>5, <3>1, <3>2 DEF JobMade
  <2> QED
      BY <1>1, <1>3, <2>2, <2>7
<1> QED
    BY <1>2, <1>3 DEF TakeSnapshot

----------------------------------------------------------------------------
(* Types and rooms. *)

(* Every step keeps every variable in its type: the client cancelSub names  *)
(* when a room empties is one, and a worker never reads past its slice.     *)
LEMMA TypeStep == FInv /\ [FNext]_fvars => TypeOK'
<1> SUFFICES ASSUME FInv, [FNext]_fvars PROVE TypeOK'
    OBVIOUS
<1>0. TypeOK
    BY DEF FInv
<1> USE DEF TypeOK, fvars, roomVars, pubVars, jobVars, sendVars, vars
<1>1. ASSUME NEW c \in Clients, JoinRoom(c) PROVE TypeOK'
  <2>1. /\ presence' \in [Clients -> {"outside", "inside", "left"}]
        /\ listening' \in SUBSET RoomIDs
      BY <1>0, <1>1 DEF JoinRoom, Enter
  <2>2. /\ cancelSub' \in [RoomIDs -> Clients \cup {None}]
        /\ subs' \in [Clients -> {"none", "starting", "live", "exited"}]
    <3>1. /\ RoomOf[c] \in RoomIDs
          /\ cancelSub \in [RoomIDs -> Clients \cup {None}]
          /\ subs \in [Clients -> {"none", "starting", "live", "exited"}]
        BY <1>0
    <3> HIDE DEF TypeOK
    <3>2. CASE RoomOf[c] \in listening
        BY <1>1, <3>1, <3>2 DEF JoinRoom
    <3>3. CASE RoomOf[c] \notin listening
        BY <1>1, <3>1, <3>3 DEF JoinRoom
    <3> QED
        BY <3>2, <3>3
  <2> QED
      BY <1>0, <1>1, <2>1, <2>2 DEF JoinRoom
<1>2. ASSUME NEW c \in Clients, LeaveRoom(c) PROVE TypeOK'
  <2>1. Members(RoomOf[c]) = {c} => cancelSub[RoomOf[c]] \in Clients
      BY <1>0, <1>2 DEF LeaveRoom, Leave, FInv, RoomInv, Members
  <2> QED
      BY <1>0, <1>2, <2>1 DEF LeaveRoom, Leave
<1>3. ASSUME NEW c \in Clients, SubStart(c) PROVE TypeOK'
    BY <1>0, <1>3 DEF SubStart
<1>4. ASSUME NEW c \in Clients, SubExit(c) PROVE TypeOK'
    BY <1>0, <1>4 DEF SubExit
<1>5. ASSUME NEW c \in Clients, WritePump(c) PROVE TypeOK'
    BY <1>0, <1>5 DEF WritePump
<1>6. ASSUME NEW m \in Messages, Publish(m) PROVE TypeOK'
  <2>1. \A c \in Clients : Append(inbox[c], m) \in Seq(Messages)
      BY <1>0, AppendProperties
  <2>2. inbox' \in [Clients -> Seq(Messages)]
      BY <1>0, <1>6, <2>1 DEF Publish
  <2> QED
      BY <1>0, <1>6, <2>2 DEF Publish
<1>7. ASSUME NEW b \in Callers, NEW r \in RoomIDs, NEW m \in Messages, TakeSnapshot(b, r, m)
      PROVE  /\ dispatch' \in [Callers -> Job \cup {NoJob}]
             /\ pool' \in SUBSET Slices
             /\ array' \in [Slices -> Seq(Clients)]
             /\ UNCHANGED <<roomVars, jobs, task, sendVars>>
  <2>1. UNCHANGED <<roomVars, jobs, task, sendVars>>
      BY <1>7 DEF TakeSnapshot
  <2>2. CASE UNCHANGED <<dispatch, pool, array>>
      BY <1>0, <2>1, <2>2
  <2>3. ASSUME NEW s \in Slices, JobMade(b, r, m, s)
        PROVE  /\ dispatch' \in [Callers -> Job \cup {NoJob}]
               /\ pool' \in SUBSET Slices
               /\ array' \in [Slices -> Seq(Clients)]
      BY <1>0, <2>3 DEF JobMade, Job
  <2> QED
      BY <1>0, <1>7, <2>1, <2>2, <2>3, SnapshotTaken
<1>8. ASSUME NEW c \in Clients, Snapshot(c) PROVE TypeOK'
  <2>1. /\ Head(inbox[c]) \in Messages
        /\ Tail(inbox[c]) \in Seq(Messages)
      BY <1>0, <1>8, HeadTailProperties DEF Snapshot
  <2>2. RoomOf[c] \in RoomIDs /\ c \in Callers
      BY DEF Callers
  <2> QED
      BY <1>0, <1>7, <1>8, <2>1, <2>2 DEF Snapshot
<1>9. ASSUME NEW g \in StatsCalls, NEW m \in Messages, StatsSnapshot(g, m) PROVE TypeOK'
  <2>1. MsgRoom[m] \in RoomIDs /\ g \in Callers
      BY DEF Callers
  <2> QED
      BY <1>0, <1>7, <1>9, <2>1 DEF StatsSnapshot
<1>10. ASSUME NEW b \in Callers, Dispatch(b) PROVE TypeOK'
  <2>1. dispatch[b] \in Job
      BY <1>0, <1>10 DEF Dispatch
  <2>2. dispatch[b].slice \in Slices
      BY <2>1 DEF Job
  <2>3. /\ jobs' \in Seq(Job)
        /\ Len(jobs') <= BroadcastJobChanSize
      BY <1>0, <1>10, <2>1 DEF Dispatch, JobQueueHasRoom
  <2> QED
      BY <1>0, <1>10, <2>2, <2>3 DEF Dispatch, GivenBack
<1>11. ASSUME NEW w \in Workers, WorkerTake(w) PROVE TypeOK'
  <2>1. /\ Head(jobs) \in Job
        /\ Tail(jobs) \in Seq(Job)
        /\ Len(Tail(jobs)) = Len(jobs) - 1
        /\ Len(jobs) \in Nat
      BY <1>0, <1>11, HeadTailProperties, LenProperties DEF WorkerTake
  <2>2. [job |-> Head(jobs), at |-> 1] \in [job : Job \cup {NoJob}, at : Nat]
      BY <2>1
  <2>3. task' \in [Workers -> [job : Job \cup {NoJob}, at : Nat]]
      BY <1>0, <1>11, <2>2 DEF WorkerTake
  <2>4. jobs' \in Seq(Job) /\ Len(jobs') <= BroadcastJobChanSize
    <3>1. Len(jobs) <= BroadcastJobChanSize
        BY <1>0
    <3> HIDE DEF TypeOK
    <3>2. jobs' = Tail(jobs)
        BY <1>11 DEF WorkerTake
    <3>3. Len(Tail(jobs)) <= BroadcastJobChanSize
        BY <2>1, <3>1, ChanSizes
    <3> QED
        BY <2>1, <3>2, <3>3
  <2> QED
      BY <1>0, <1>11, <2>3, <2>4 DEF WorkerTake
<1>12. ASSUME NEW w \in Workers, SafeSend(w) PROVE TypeOK'
  <2> DEFINE job == task[w].job
  <2>1. /\ task[w].at \in 1..job.len
        /\ job # NoJob
      BY <1>0, <1>12 DEF SafeSend, NoJob
  <2>2. job \in Job /\ job \in Live
      BY <1>0, <2>1 DEF Live
  <2>3. Target(w) \in Clients
      BY <1>0, <2>1, <2>2, ElementOfSeq DEF FInv, SnapshotInv, SnapshotOK, Target, Job
  <2>4. [msg |-> job.msg, via |-> job.via] \in Delivery
      BY <2>2 DEF Job, Delivery
  <2> HIDE DEF job
  <2>5. Append(sent[Target(w)], [msg |-> job.msg, via |-> job.via]) \in Seq(Delivery)
      BY <1>0, <2>3, <2>4, AppendProperties
  <2>6. sent' \in [Clients -> Seq(Delivery)] /\ unread' \in [Clients -> 0..SendChanSize]
    <3>1. CASE UNCHANGED <<sent, unread>>
        BY <1>0, <3>1
    <3>2. CASE /\ unread[Target(w)] < SendChanSize
               /\ sent' = [sent EXCEPT ![Target(w)] =
                              Append(@, [msg |-> job.msg, via |-> job.via])]
               /\ unread' = [unread EXCEPT ![Target(w)] = @ + 1]
        BY <1>0, <2>3, <2>5, <3>2
    <3> QED
        BY <1>12, <3>1, <3>2 DEF SafeSend, job
  <2>7. [job |-> task[w].job, at |-> task[w].at + 1] \in [job : Job \cup {NoJob}, at : Nat]
      BY <1>0
  <2>8. task' \in [Workers -> [job : Job \cup {NoJob}, at : Nat]]
      BY <1>0, <1>12, <2>7 DEF SafeSend
  <2> QED
      BY <1>0, <1>12, <2>6, <2>8 DEF SafeSend
<1>13. ASSUME NEW w \in Workers, WorkerPut(w) PROVE TypeOK'
  <2>1. task[w].job.slice \in Slices
      BY <1>0, <1>13 DEF WorkerPut, Job
  <2> QED
      BY <1>0, <1>13, <2>1 DEF WorkerPut
<1>14. CASE UNCHANGED fvars
    BY <1>0, <1>14
<1> QED
    BY <1>1, <1>2, <1>3, <1>4, <1>5, <1>6, <1>8, <1>9, <1>10, <1>11, <1>12, <1>13, <1>14
    DEF FNext, SubStep, StatsStep, WorkerStep, Callers

(* Who is in a room, and which subscription serves it, is changed by the    *)
(* manager's two handlers only.                                             *)
LEMMA OnlyHandlersMove ==
    [FNext]_fvars => \/ \E c \in Clients : JoinRoom(c) \/ LeaveRoom(c)
                     \/ UNCHANGED <<presence, listening, cancelSub>>
BY DEF FNext, SubStep, StatsStep, WorkerStep, SubStart, SubExit, Publish, Snapshot,
       StatsSnapshot, TakeSnapshot, Dispatch, WorkerTake, SafeSend, WorkerPut, WritePump,
       fvars, roomVars, vars

LEMMA RoomStep == FInv /\ [FNext]_fvars => RoomInv'
<1> SUFFICES ASSUME FInv, [FNext]_fvars PROVE RoomInv'
    OBVIOUS
<1>0. /\ RoomInv
      /\ presence \in [Clients -> {"outside", "inside", "left"}]
      /\ listening \in SUBSET RoomIDs
      /\ cancelSub \in [RoomIDs -> Clients \cup {None}]
    BY DEF FInv, TypeOK
<1>1. ASSUME NEW c \in Clients, JoinRoom(c) PROVE RoomInv'
  <2> DEFINE r == RoomOf[c]
  <2>1. /\ presence' = [presence EXCEPT ![c] = "inside"]
        /\ listening' = listening \cup {r}
        /\ presence[c] = "outside"
        /\ r \in RoomIDs
      BY <1>1 DEF JoinRoom, Enter
  <2>2. cancelSub' = IF r \in listening THEN cancelSub ELSE [cancelSub EXCEPT ![r] = c]
      BY <1>1 DEF JoinRoom
  <2>3. c \in Members(r)' /\ \A q \in RoomIDs \ {r} : Members(q)' = Members(q)
      BY <1>0, <2>1 DEF Members
  <2>4. \A q \in RoomIDs : q \in listening' <=> Members(q)' # {}
      BY <1>0, <2>1, <2>3 DEF RoomInv
  <2>5. \A q \in listening' : cancelSub'[q] \in Clients
      BY <1>0, <2>1, <2>2 DEF RoomInv
  <2> QED
      BY <2>4, <2>5 DEF RoomInv
<1>2. ASSUME NEW c \in Clients, LeaveRoom(c) PROVE RoomInv'
  <2> DEFINE r == RoomOf[c]
  <2>1. /\ presence' = [presence EXCEPT ![c] = "left"]
        /\ listening' = IF Members(r) = {c} THEN listening \ {r} ELSE listening
        /\ presence[c] = "inside"
        /\ r \in RoomIDs
      BY <1>2 DEF LeaveRoom, Leave
  <2>2. cancelSub' = IF Members(r) = {c} THEN [cancelSub EXCEPT ![r] = None] ELSE cancelSub
      BY <1>2 DEF LeaveRoom
  <2>3. /\ Members(r)' = Members(r) \ {c}
        /\ c \in Members(r)
        /\ \A q \in RoomIDs \ {r} : Members(q)' = Members(q)
      BY <1>0, <2>1 DEF Members
  <2>4. \A q \in RoomIDs : q \in listening' <=> Members(q)' # {}
      BY <1>0, <2>1, <2>3 DEF RoomInv
  <2>5. \A q \in listening' : cancelSub'[q] \in Clients
      BY <1>0, <2>1, <2>2 DEF RoomInv
  <2> QED
      BY <2>4, <2>5 DEF RoomInv
<1>3. CASE UNCHANGED <<presence, listening, cancelSub>>
    BY <1>0, <1>3 DEF RoomInv, Members
<1> QED
    BY <1>1, <1>2, <1>3, OnlyHandlersMove

(* A client that has entered a room does not become one that has not. *)
LEMMA PresenceMoves ==
    ASSUME TypeOK, [FNext]_fvars, NEW c \in Clients, presence[c] # "outside"
    PROVE  presence'[c] # "outside"
<1>0. presence \in [Clients -> {"outside", "inside", "left"}]
    BY DEF TypeOK
<1>1. ASSUME NEW d \in Clients, JoinRoom(d) \/ LeaveRoom(d) PROVE presence'[c] # "outside"
  <2>1. \/ presence' = [presence EXCEPT ![d] = "inside"]
        \/ presence' = [presence EXCEPT ![d] = "left"]
      BY <1>1 DEF JoinRoom, Enter, LeaveRoom, Leave
  <2> QED
      BY <1>0, <2>1
<1>2. CASE UNCHANGED presence
    BY <1>2
<1> QED
    BY <1>1, <1>2, OnlyHandlersMove

----------------------------------------------------------------------------
(* The slices. *)

(* Caller b makes a job of m, which it has not had before. *)
JobTaken(b, m) == /\ dispatch[b] = NoJob
                  /\ ~Passed(m, b) /\ Passed(m, b)'
                  /\ \E s \in Slices : JobMade(b, MsgRoom[m], m, s)
                  /\ UNCHANGED <<jobs, task>>

(* The steps that concern jobs. *)
LEMMA JobSteps ==
    ASSUME FInv, [FNext]_fvars
    PROVE  \/ UNCHANGED jobVars
           \/ \E b \in Callers, m \in Messages : JobTaken(b, m)
           \/ \E b \in Callers : Dispatch(b)
           \/ \E w \in Workers : WorkerStep(w)
<1>0. TypeOK /\ InboxInv
    BY DEF FInv
<1>1. CASE UNCHANGED fvars
    BY <1>1 DEF fvars, jobVars
<1>2. ASSUME NEW c \in Clients, JoinRoom(c) \/ LeaveRoom(c) \/ WritePump(c)
      PROVE  UNCHANGED jobVars
    BY <1>2 DEF JoinRoom, LeaveRoom, WritePump, jobVars
<1>3. ASSUME NEW m \in Messages, Publish(m) PROVE UNCHANGED jobVars
    BY <1>3 DEF Publish, jobVars
<1>4. ASSUME NEW c \in Clients, SubStart(c) \/ SubExit(c) PROVE UNCHANGED jobVars
    BY <1>4 DEF SubStart, SubExit, jobVars
<1>5. ASSUME NEW b \in Callers, NEW m \in Messages, TakeSnapshot(b, MsgRoom[m], m),
             ~Passed(m, b), Passed(m, b)'
      PROVE  UNCHANGED jobVars \/ JobTaken(b, m)
    BY <1>0, <1>5, SnapshotTaken DEF TakeSnapshot, JobTaken, jobVars
<1>6. ASSUME NEW c \in Clients, Snapshot(c)
      PROVE  UNCHANGED jobVars \/ \E m \in Messages : JobTaken(c, m)
  <2>1. inbox[c] \in Seq(Messages) /\ inbox[c] # <<>>
      BY <1>0, <1>6 DEF Snapshot, TypeOK
  <2> PICK m \in Messages : m = Head(inbox[c])
      BY <2>1, HeadTailProperties
  <2>2. /\ m = inbox[c][1] /\ 1 \in 1..Len(inbox[c])
        /\ Len(inbox[c]) \in Nat /\ Len(Tail(inbox[c])) = Len(inbox[c]) - 1
        /\ \A i \in 1..Len(Tail(inbox[c])) : Tail(inbox[c])[i] = inbox[c][i + 1]
      BY <2>1, HeadTailProperties, EmptySeq
  <2>3. MsgRoom[m] = RoomOf[c] /\ m \in published \ Stats
      BY <1>0, <2>2 DEF InboxInv
  <2>4. ~Passed(m, c)
      BY <2>2 DEF Passed
  <2>5. inbox'[c] = Tail(inbox[c]) /\ published' = published
      BY <1>0, <1>6 DEF Snapshot, TypeOK
  <2>6. \A i \in 1..Len(inbox'[c]) : inbox'[c][i] # m
    <3> TAKE i \in 1..Len(inbox'[c])
    <3>1. i + 1 \in 1..Len(inbox[c]) /\ inbox'[c][i] = inbox[c][i + 1]
        BY <2>2, <2>5
    <3>2. inbox[c][i + 1] = inbox[c][1] => i + 1 = 1
        BY <1>0, <2>2, <3>1 DEF InboxInv
    <3> QED
        BY <2>2, <3>1, <3>2
  <2>7. Passed(m, c)'
      BY <2>3, <2>5, <2>6 DEF Passed
  <2>8. TakeSnapshot(c, MsgRoom[m], m)
      BY <1>6, <2>3 DEF Snapshot
  <2> QED
      BY <1>5, <2>2, <2>4, <2>7, <2>8 DEF Callers
<1>7. ASSUME NEW g \in StatsCalls, NEW m \in Messages, StatsSnapshot(g, m)
      PROVE  UNCHANGED jobVars \/ JobTaken(g, m)
  <2>1. ~Passed(m, g) /\ Passed(m, g)'
      BY <1>7 DEF StatsSnapshot, Passed
  <2> QED
      BY <1>5, <1>7, <2>1 DEF StatsSnapshot, Callers
<1> QED
    BY <1>1, <1>2, <1>3, <1>4, <1>6, <1>7 DEF FNext, SubStep, StatsStep, Callers

(* What is known of a new job: it has a slice of its own, and in it the     *)
(* members of its message's room.                                           *)
NewJob(b, m, job) ==
    /\ job \in Job /\ job # NoJob
    /\ job.msg = m /\ job.via = b /\ job.slice \in pool
    /\ pool' = pool \ {job.slice}
    /\ dispatch'[b] = job
    /\ \A d \in Callers \ {b} : dispatch'[d] = dispatch[d]
    /\ Waiting' = Waiting \cup {job}
    /\ Live' = Live \cup {job}
    /\ job.len <= Len(array'[job.slice])
    /\ \A i \in 1..job.len : array'[job.slice][i] \in Members(MsgRoom[m])
    /\ \A i, k \in 1..job.len : array'[job.slice][i] = array'[job.slice][k] => i = k
    /\ \A j \in Live : j.slice # job.slice /\ array'[j.slice] = array[j.slice]

LEMMA JobTakenIsNew ==
    ASSUME FInv, NEW b \in Callers, NEW m \in Messages, JobTaken(b, m)
    PROVE  \E job \in Job : NewJob(b, m, job)
<1>0. TypeOK /\ Exclusive
    BY DEF FInv
<1>1. PICK s \in Slices : JobMade(b, MsgRoom[m], m, s)
    BY DEF JobTaken
<1>2. PICK n \in Nat :
         /\ dispatch' = [dispatch EXCEPT ![b] = [msg |-> m, via |-> b, slice |-> s, len |-> n]]
         /\ n <= Len(array'[s])
         /\ \A i \in 1..n : array'[s][i] \in Members(MsgRoom[m])
         /\ \A i, k \in 1..n : array'[s][i] = array'[s][k] => i = k
    BY <1>1 DEF JobMade
<1> DEFINE job == [msg |-> m, via |-> b, slice |-> s, len |-> n]
<1>3. /\ job \in Job /\ job # NoJob
      /\ job.msg = m /\ job.via = b /\ job.slice = s /\ job.len = n
    BY NoJobIsNone DEF Job
<1> HIDE DEF job
<1>4. /\ dispatch'[b] = job
      /\ \A d \in Callers \ {b} : dispatch'[d] = dispatch[d]
      /\ dispatch[b] = NoJob
    BY <1>0, <1>2 DEF TypeOK, JobTaken, job
<1>5. s \in pool /\ pool' = pool \ {s} /\ jobs' = jobs /\ task' = task
    BY <1>1 DEF JobMade, JobTaken
<1>6. Waiting' = Waiting \cup {job} /\ Live' = Live \cup {job}
    BY <1>3, <1>4, <1>5 DEF Live, Waiting
<1>7. ASSUME NEW j \in Live PROVE j.slice # s /\ array'[j.slice] = array[j.slice]
  <2>1. j \in Job
      BY <1>0 DEF Live, Waiting, TypeOK
  <2>2. j.slice \in Slices \ {s}
      BY <1>0, <1>5, <2>1 DEF Exclusive, Job
  <2> QED
      BY <1>1, <2>2 DEF JobMade
<1>8. NewJob(b, m, job)
    BY <1>2, <1>3, <1>4, <1>5, <1>6, <1>7 DEF NewJob
<1> QED
    BY <1>3, <1>8

(* A new job has a slice of its own. *)
LEMMA OwnerJobTaken ==
    ASSUME FInv, NEW b \in Callers, NEW m \in Messages, JobTaken(b, m)
    PROVE  Exclusive' /\ Covered'
<1>0. Exclusive /\ Covered
    BY DEF FInv
<1>1. PICK job \in Job : NewJob(b, m, job)
    BY JobTakenIsNew
<1>2. /\ job # NoJob /\ dispatch'[b] = job /\ job.slice \in pool
      /\ \A d \in Callers \ {b} : dispatch'[d] = dispatch[d]
      /\ pool' = pool \ {job.slice} /\ Live' = Live \cup {job}
      /\ jobs' = jobs /\ task' = task
    BY <1>1 DEF NewJob, JobTaken
<1>3. /\ \A d \in Callers : dispatch[d] # NoJob => dispatch[d].slice # job.slice
      /\ \A i \in 1..Len(jobs) : jobs[i].slice # job.slice
      /\ \A w \in Workers : task[w].job # NoJob => task[w].job.slice # job.slice
    BY <1>1 DEF NewJob, Live, Waiting
<1>4. \A j \in Live' : j.slice \notin pool'
    BY <1>0, <1>2 DEF Exclusive
<1>5. Exclusive'
    BY <1>0, <1>2, <1>3, <1>4 DEF Exclusive
<1>6. Covered'
    BY <1>0, <1>2 DEF Covered
<1> QED
    BY <1>5, <1>6

(* The job of b is queued, or its slice is given back. *)
LEMMA OwnerDispatch ==
    ASSUME FInv, NEW b \in Callers, Dispatch(b)
    PROVE  /\ Exclusive' /\ Covered'
           /\ Waiting' \subseteq Waiting /\ Live' \subseteq Live
<1>0. TypeOK /\ Exclusive /\ Covered
    BY DEF FInv
<1> DEFINE job == dispatch[b]
<1>1. /\ job # NoJob /\ job \in Job /\ jobs \in Seq(Job) /\ Len(jobs) \in Nat
      /\ dispatch \in [Callers -> Job \cup {NoJob}]
      /\ pool \subseteq Slices /\ job.slice \in Slices
    BY <1>0, LenProperties DEF Dispatch, TypeOK, Job
<1>2. dispatch' = [dispatch EXCEPT ![b] = NoJob] /\ task' = task
    BY DEF Dispatch
<1>3. /\ dispatch'[b] = NoJob
      /\ \A d \in Callers \ {b} : dispatch'[d] = dispatch[d]
    BY <1>1, <1>2
<1> HIDE DEF job
<1>4. CASE jobs' = jobs /\ pool' = pool \cup {job.slice}
  <2>1. Waiting' \subseteq Waiting /\ Live' \subseteq Live
      BY <1>2, <1>3, <1>4 DEF Waiting, Live
  <2>2. \A j \in Live : j # job => j \in Live'
      BY <1>2, <1>3, <1>4 DEF Waiting, Live, job
  <2>3. \A j \in Live' : j.slice # job.slice
      BY <1>0, <1>1, <1>2, <1>3, <1>4 DEF Waiting, Live, Exclusive, job
  <2>4. \A j \in Live' : j.slice \notin pool'
      BY <1>0, <1>4, <2>1, <2>3 DEF Exclusive
  <2>5. Exclusive'
      BY <1>0, <1>2, <1>3, <1>4, <2>4 DEF Exclusive
  <2>6. Covered'
      BY <1>0, <1>4, <2>2 DEF Covered
  <2> QED
      BY <2>1, <2>5, <2>6
<1>5. CASE jobs' = Append(jobs, job) /\ pool' = pool
  <2>1. /\ Len(jobs') = Len(jobs) + 1
        /\ \A i \in 1..Len(jobs) : jobs'[i] = jobs[i]
        /\ jobs'[Len(jobs) + 1] = job
      BY <1>1, <1>5, AppendProperties
  <2>2. \A i \in 1..Len(jobs') : i \in 1..Len(jobs) \/ i = Len(jobs) + 1
      BY <1>1, <2>1
  <2>3. job \in Waiting /\ job \in Live
      BY <1>1 DEF Waiting, Live, job
  <2>4. Waiting' \subseteq Waiting /\ Live' \subseteq Live
      BY <1>2, <1>3, <2>1, <2>2, <2>3 DEF Waiting, Live
  <2>5. Live \subseteq Live'
    <3>1. job \in Waiting'
        BY <1>1, <2>1 DEF Waiting
    <3>2. \A i \in 1..Len(jobs) : jobs[i] \in Waiting'
        BY <1>1, <2>1 DEF Waiting
    <3>3. \A d \in Callers : dispatch[d] # NoJob => dispatch[d] \in Waiting'
        BY <1>3, <3>1 DEF Waiting, job
    <3> QED
        BY <1>2, <3>2, <3>3 DEF Live, Waiting
  <2>6. \A d \in Callers \ {b} : dispatch[d] # NoJob => dispatch[d].slice # job.slice
      BY <1>0, <1>1 DEF Exclusive, job
  <2>7. \A i \in 1..Len(jobs) : jobs[i].slice # job.slice
      BY <1>0, <1>1 DEF Exclusive, job
  <2>8. \A w \in Workers : task[w].job # NoJob => task[w].job.slice # job.slice
      BY <1>0, <1>1 DEF Exclusive, job
  <2>9. \A j \in Live' : j.slice \notin pool'
      BY <1>0, <1>5, <2>4 DEF Exclusive
  <2>10. /\ \A i, k \in 1..Len(jobs') : jobs'[i].slice = jobs'[k].slice => i = k
         /\ \A d \in Callers, i \in 1..Len(jobs') :
               dispatch'[d] # NoJob => dispatch'[d].slice # jobs'[i].slice
         /\ \A i \in 1..Len(jobs'), w \in Workers :
               task'[w].job # NoJob => jobs'[i].slice # task'[w].job.slice
      BY <1>0, <1>2, <1>3, <2>1, <2>2, <2>6, <2>7, <2>8 DEF Exclusive
  <2>11. Exclusive'
      BY <1>0, <1>2, <1>3, <2>9, <2>10 DEF Exclusive
  <2>12. Covered'
      BY <1>0, <1>5, <2>5 DEF Covered
  <2> QED
      BY <2>4, <2>11, <2>12
<1> QED
    BY <1>4, <1>5 DEF Dispatch, GivenBack, job

(* A worker takes the first job, and with it its slice. *)
LEMMA OwnerWorkerTake ==
    ASSUME FInv, NEW w \in Workers, WorkerTake(w)
    PROVE  /\ Exclusive' /\ Covered'
           /\ Waiting' \subseteq Waiting /\ Live' \subseteq Live
<1>0. TypeOK /\ Exclusive /\ Covered
    BY DEF FInv
<1> DEFINE job == Head(jobs)
<1>1. /\ jobs \in Seq(Job) /\ jobs # <<>> /\ Len(jobs) \in Nat
      /\ task \in [Workers -> [job : Job \cup {NoJob}, at : Nat]]
      /\ task[w].job = NoJob
    BY <1>0, LenProperties DEF WorkerTake, TypeOK
<1>2. /\ job \in Job /\ job = jobs[1] /\ 1 \in 1..Len(jobs)
      /\ Len(Tail(jobs)) = Len(jobs) - 1
      /\ \A i \in 1..Len(Tail(jobs)) : Tail(jobs)[i] = jobs[i + 1]
    BY <1>1, HeadTailProperties, EmptySeq
<1> HIDE DEF job
<1>3. /\ task' = [task EXCEPT ![w] = [job |-> job, at |-> 1]]
      /\ jobs' = Tail(jobs)
      /\ dispatch' = dispatch /\ pool' = pool
    BY DEF WorkerTake, job
<1>4. /\ Len(jobs') = Len(jobs) - 1
      /\ \A i \in 1..Len(jobs') : jobs'[i] = jobs[i + 1] /\ i + 1 \in 1..Len(jobs)
    BY <1>1, <1>2, <1>3
<1>5. /\ task'[w].job = job /\ job # NoJob
      /\ \A v \in Workers \ {w} : task'[v] = task[v]
    BY <1>1, <1>2, <1>3, NoJobIsNone
<1>6. job \in Waiting
    BY <1>2 DEF Waiting
<1>7. Waiting' \subseteq Waiting
    BY <1>3, <1>4 DEF Waiting
<1>8. Live' \subseteq Live
    BY <1>5, <1>6, <1>7 DEF Live
<1>9. Live \subseteq Live'
  <2>1. job \in Live'
      BY <1>5 DEF Live
  <2>2. \A i \in 1..Len(jobs) : jobs[i] \in Live'
    <3> SUFFICES ASSUME NEW i \in 1..Len(jobs), i # 1 PROVE jobs[i] \in Waiting'
        BY <1>2, <2>1 DEF Live
    <3>1. i - 1 \in 1..Len(jobs') /\ jobs'[i - 1] = jobs[i]
        BY <1>1, <1>4
    <3> QED
        BY <3>1 DEF Waiting
  <2>3. \A b \in Callers : dispatch[b] # NoJob => dispatch[b] \in Live'
      BY <1>3 DEF Live, Waiting
  <2>4. \A v \in Workers : task[v].job # NoJob => task[v].job \in Live'
      BY <1>1, <1>5 DEF Live
  <2> QED
      BY <2>2, <2>3, <2>4 DEF Live, Waiting
<1>10. \A j \in Live' : j.slice \notin pool'
    BY <1>0, <1>3, <1>8 DEF Exclusive
<1>11. \A i, k \in 1..Len(jobs') : jobs'[i].slice = jobs'[k].slice => i = k
  <2> TAKE i, k \in 1..Len(jobs')
  <2>1. jobs[i + 1].slice = jobs[k + 1].slice => i + 1 = k + 1
      BY <1>0, <1>4 DEF Exclusive
  <2> QED
      BY <1>4, <2>1
<1>12. \A i \in 1..Len(jobs') : jobs'[i].slice # job.slice
  <2> TAKE i \in 1..Len(jobs')
  <2>1. jobs[i + 1].slice = jobs[1].slice => i + 1 = 1
      BY <1>0, <1>2, <1>4 DEF Exclusive
  <2> QED
      BY <1>2, <1>4, <2>1
<1>13. \A b \in Callers : dispatch[b] # NoJob => dispatch[b].slice # job.slice
    BY <1>0, <1>2 DEF Exclusive
<1>14. \A v \in Workers \ {w} : task[v].job # NoJob => task[v].job.slice # job.slice
    BY <1>0, <1>2 DEF Exclusive
<1>15. Exclusive'
    BY <1>0, <1>3, <1>4, <1>5, <1>10, <1>11, <1>12, <1>13, <1>14 DEF Exclusive
<1>16. Covered'
    BY <1>0, <1>3, <1>9 DEF Covered
<1> QED
    BY <1>7, <1>8, <1>15, <1>16

(* A worker moves on in its slice. *)
LEMMA OwnerSafeSend ==
    ASSUME FInv, NEW w \in Workers, SafeSend(w)
    PROVE  /\ Exclusive' /\ Covered'
           /\ Waiting' = Waiting /\ Live' = Live
<1>0. TypeOK /\ Exclusive /\ Covered
    BY DEF FInv
<1>1. task \in [Workers -> [job : Job \cup {NoJob}, at : Nat]]
    BY <1>0 DEF TypeOK
<1>2. /\ dispatch' = dispatch /\ jobs' = jobs /\ pool' = pool
      /\ task' = [task EXCEPT ![w] = [job |-> @.job, at |-> @.at + 1]]
    BY DEF SafeSend
<1>3. \A v \in Workers : task'[v].job = task[v].job
    BY <1>1, <1>2
<1>4. Waiting' = Waiting /\ Live' = Live
    BY <1>2, <1>3 DEF Waiting, Live
<1> QED
    BY <1>0, <1>2, <1>3, <1>4 DEF Exclusive, Covered

(* A worker gives its slice back. *)
LEMMA OwnerWorkerPut ==
    ASSUME FInv, NEW w \in Workers, WorkerPut(w)
    PROVE  /\ Exclusive' /\ Covered'
           /\ Waiting' = Waiting /\ Live' \subseteq Live
<1>0. TypeOK /\ Exclusive /\ Covered
    BY DEF FInv
<1>1. task \in [Workers -> [job : Job \cup {NoJob}, at : Nat]]
    BY <1>0 DEF TypeOK
<1> DEFINE job == task[w].job
<1>2. /\ dispatch' = dispatch /\ jobs' = jobs
      /\ pool' = pool \cup {job.slice} /\ job # NoJob
      /\ task' = [task EXCEPT ![w] = [job |-> NoJob, at |-> 0]]
    BY DEF WorkerPut
<1>3. /\ task'[w].job = NoJob
      /\ \A v \in Workers \ {w} : task'[v] = task[v]
    BY <1>1, <1>2
<1>4. Waiting' = Waiting
    BY <1>2 DEF Waiting
<1>5. Live' \subseteq Live /\ \A j \in Live : j # job => j \in Live'
    BY <1>3, <1>4 DEF Live
<1>6. \A j \in Live' : j.slice # job.slice
    BY <1>0, <1>2, <1>3, <1>4 DEF Live, Waiting, Exclusive
<1> HIDE DEF job
<1>7. \A j \in Live' : j.slice \notin pool'
    BY <1>0, <1>2, <1>5, <1>6 DEF Exclusive
<1>8. Exclusive'
    BY <1>0, <1>2, <1>3, <1>7 DEF Exclusive
<1>9. Covered'
    BY <1>0, <1>2, <1>5 DEF Covered
<1> QED
    BY <1>4, <1>5, <1>8, <1>9

(* Every step leaves every slice with one owner. *)
LEMMA OwnerStep == FInv /\ [FNext]_fvars => Exclusive' /\ Covered'
<1> SUFFICES ASSUME FInv, [FNext]_fvars PROVE Exclusive' /\ Covered'
    OBVIOUS
<1>1. CASE UNCHANGED jobVars
  <2>1. Exclusive /\ Covered
      BY DEF FInv
  <2>2. /\ dispatch' = dispatch /\ jobs' = jobs /\ task' = task /\ pool' = pool
      BY <1>1 DEF jobVars
  <2>3. Live' = Live
      BY <2>2 DEF Live, Waiting
  <2> QED
      BY <2>1, <2>2, <2>3 DEF Exclusive, Covered
<1> QED
    BY <1>1, JobSteps, OwnerJobTaken, OwnerDispatch, OwnerWorkerTake, OwnerSafeSend,
       OwnerWorkerPut DEF WorkerStep

----------------------------------------------------------------------------
(* The snapshots. *)

(* A job stays good while nobody writes to its slice. *)
LEMMA SnapshotKept ==
    ASSUME FInv, [FNext]_fvars, NEW j \in Live, array'[j.slice] = array[j.slice]
    PROVE  SnapshotOK(j)'
<1>1. SnapshotOK(j) /\ TypeOK
    BY DEF FInv, SnapshotInv
<1>2. j \in Job
    BY <1>1 DEF Live, Waiting, TypeOK
<1>3. array[j.slice] \in Seq(Clients) /\ j.len \in Nat
    BY <1>1, <1>2 DEF TypeOK, Job
<1>4. \A i \in 1..j.len : /\ array[j.slice][i] \in Clients
                          /\ presence[array[j.slice][i]] # "outside"
    BY <1>1, <1>3 DEF SnapshotOK
<1>5. \A i \in 1..j.len : presence'[array[j.slice][i]] # "outside"
    BY <1>1, <1>4, PresenceMoves
<1> QED
    BY <1>1, <1>5 DEF SnapshotOK

LEMMA SnapshotStep == FInv /\ [FNext]_fvars => SnapshotInv'
<1> SUFFICES ASSUME FInv, [FNext]_fvars PROVE SnapshotInv'
    OBVIOUS
<1>0. TypeOK /\ SnapshotInv /\ Exclusive
    BY DEF FInv
<1>1. task \in [Workers -> [job : Job \cup {NoJob}, at : Nat]]
    BY <1>0 DEF TypeOK
<1>2. ASSUME array' = array, Live' \subseteq Live PROVE \A j \in Live' : SnapshotOK(j)'
    BY <1>2, SnapshotKept
<1>3. CASE UNCHANGED jobVars
  <2>1. Live' = Live /\ array' = array /\ task' = task
      BY <1>3 DEF Live, Waiting, jobVars
  <2> QED
      BY <1>0, <1>2, <2>1 DEF SnapshotInv
<1>4. ASSUME NEW b \in Callers, NEW m \in Messages, JobTaken(b, m) PROVE SnapshotInv'
  <2>1. PICK job \in Job : NewJob(b, m, job)
      BY <1>4, JobTakenIsNew
  <2>2. \A j \in Live : SnapshotOK(j)'
      BY <2>1, SnapshotKept DEF NewJob
  <2>3. SnapshotOK(job)'
    <3>1. \A i \in 1..job.len : LET c == array'[job.slice][i]
                                IN /\ c \in Clients /\ RoomOf[c] = MsgRoom[job.msg]
                                   /\ presence[c] # "outside"
        BY <2>1 DEF NewJob, Members
    <3>2. \A i \in 1..job.len : presence'[array'[job.slice][i]] # "outside"
        BY <1>0, <3>1, PresenceMoves
    <3> QED
        BY <2>1, <3>1, <3>2 DEF SnapshotOK, NewJob
  <2> QED
      BY <1>0, <1>4, <2>1, <2>2, <2>3 DEF SnapshotInv, JobTaken, NewJob
<1>5. ASSUME NEW b \in Callers, Dispatch(b) PROVE SnapshotInv'
    BY <1>0, <1>2, <1>5, OwnerDispatch DEF SnapshotInv, Dispatch
<1>6. ASSUME NEW w \in Workers, WorkerTake(w) PROVE SnapshotInv'
  <2>1. \A j \in Live' : SnapshotOK(j)'
      BY <1>2, <1>6, OwnerWorkerTake DEF WorkerTake
  <2>2. task' = [task EXCEPT ![w] = [job |-> Head(jobs), at |-> 1]]
      BY <1>6 DEF WorkerTake
  <2> QED
      BY <1>0, <1>1, <2>1, <2>2 DEF SnapshotInv
<1>7. ASSUME NEW w \in Workers, SafeSend(w) PROVE SnapshotInv'
  <2>1. \A j \in Live' : SnapshotOK(j)'
      BY <1>2, <1>7, OwnerSafeSend DEF SafeSend
  <2>2. task' = [task EXCEPT ![w] = [job |-> @.job, at |-> @.at + 1]]
      BY <1>7 DEF SafeSend
  <2> QED
      BY <1>0, <1>1, <2>1, <2>2 DEF SnapshotInv
<1>8. ASSUME NEW w \in Workers, WorkerPut(w) PROVE SnapshotInv'
  <2>1. \A j \in Live' : SnapshotOK(j)'
      BY <1>2, <1>8, OwnerWorkerPut DEF WorkerPut
  <2>2. task' = [task EXCEPT ![w] = [job |-> NoJob, at |-> 0]]
      BY <1>8 DEF WorkerPut
  <2> QED
      BY <1>0, <1>1, <2>1, <2>2 DEF SnapshotInv
<1> QED
    BY <1>3, <1>4, <1>5, <1>6, <1>7, <1>8, JobSteps DEF WorkerStep

----------------------------------------------------------------------------
(* Deliveries. *)

(* The steps that concern what Redis has delivered. *)
LEMMA InboxSteps ==
    ASSUME [FNext]_fvars
    PROVE  \/ UNCHANGED pubVars
           \/ \E c \in Clients : SubExit(c) \/ Snapshot(c)
           \/ \E m \in Messages : Publish(m)
           \/ \E m \in Stats : published' = published \cup {m} /\ inbox' = inbox
BY DEF FNext, SubStep, StatsStep, WorkerStep, JoinRoom, LeaveRoom, SubStart, StatsSnapshot,
       Dispatch, WorkerTake, SafeSend, WorkerPut, WritePump, fvars, pubVars

(* A subscription keeps messages in order, loses them, or gets one that was *)
(* never published before.                                                  *)
InboxKept(c) ==
    \/ inbox'[c] = inbox[c]
    \/ inbox'[c] = <<>>
    \/ inbox[c] # <<>> /\ inbox'[c] = Tail(inbox[c])
    \/ \E m \in Messages \ (Stats \cup published) :
          /\ MsgRoom[m] = RoomOf[c] /\ m \in published'
          /\ inbox'[c] = Append(inbox[c], m)

LEMMA InboxMoves ==
    ASSUME TypeOK, [FNext]_fvars
    PROVE  /\ published \subseteq published'
           /\ \A c \in Clients : InboxKept(c)
<1>0. inbox \in [Clients -> Seq(Messages)]
    BY DEF TypeOK
<1>1. CASE UNCHANGED pubVars
    BY <1>1 DEF pubVars, InboxKept
<1>2. ASSUME NEW d \in Clients, SubExit(d)
      PROVE  published \subseteq published' /\ \A c \in Clients : InboxKept(c)
  <2>1. published' = published /\ inbox' = [inbox EXCEPT ![d] = <<>>]
      BY <1>2 DEF SubExit
  <2> QED
      BY <1>0, <2>1 DEF InboxKept
<1>3. ASSUME NEW d \in Clients, Snapshot(d)
      PROVE  published \subseteq published' /\ \A c \in Clients : InboxKept(c)
  <2>1. /\ published' = published
        /\ inbox[d] # <<>> /\ inbox' = [inbox EXCEPT ![d] = Tail(@)]
      BY <1>3 DEF Snapshot
  <2> QED
      BY <1>0, <2>1 DEF InboxKept
<1>4. ASSUME NEW m \in Messages, Publish(m)
      PROVE  published \subseteq published' /\ \A c \in Clients : InboxKept(c)
  <2>1. PICK reached \in SUBSET {c \in Clients : subs[c] = "live" /\ RoomOf[c] = MsgRoom[m]} :
           inbox' = [c \in Clients |-> IF c \in reached THEN Append(inbox[c], m) ELSE inbox[c]]
      BY <1>4 DEF Publish
  <2>2. m \notin Stats \cup published /\ published' = published \cup {m}
      BY <1>4 DEF Publish
  <2> QED
      BY <2>1, <2>2 DEF InboxKept
<1>5. ASSUME NEW m \in Stats, published' = published \cup {m}, inbox' = inbox
      PROVE  published \subseteq published' /\ \A c \in Clients : InboxKept(c)
    BY <1>5 DEF InboxKept
<1> QED
    BY <1>1, <1>2, <1>3, <1>4, <1>5, InboxSteps

(* What is in a subscription's inbox was there before, or is new. *)
LEMMA InboxElements ==
    ASSUME TypeOK, NEW c \in Clients, InboxKept(c), NEW i \in 1..Len(inbox'[c])
    PROVE  \/ \E k \in 1..Len(inbox[c]) : inbox'[c][i] = inbox[c][k]
           \/ /\ inbox'[c][i] \in published' \ (Stats \cup published)
              /\ MsgRoom[inbox'[c][i]] = RoomOf[c]
<1>0. inbox[c] \in Seq(Messages) /\ Len(inbox[c]) \in Nat
    BY LenProperties DEF TypeOK
<1>1. CASE inbox'[c] = inbox[c]
    BY <1>1
<1>2. CASE inbox'[c] = <<>>
    BY <1>2
<1>3. CASE inbox[c] # <<>> /\ inbox'[c] = Tail(inbox[c])
  <2>1. inbox'[c][i] = inbox[c][i + 1] /\ i + 1 \in 1..Len(inbox[c])
      BY <1>0, <1>3, HeadTailProperties
  <2> QED
      BY <2>1
<1>4. ASSUME NEW m \in Messages \ (Stats \cup published),
             MsgRoom[m] = RoomOf[c], m \in published', inbox'[c] = Append(inbox[c], m)
      PROVE  \/ \E k \in 1..Len(inbox[c]) : inbox'[c][i] = inbox[c][k]
             \/ /\ inbox'[c][i] \in published' \ (Stats \cup published)
                /\ MsgRoom[inbox'[c][i]] = RoomOf[c]
  <2>1. i \in 1..Len(inbox[c]) \/ i = Len(inbox[c]) + 1
      BY <1>0, <1>4, AppendProperties
  <2> QED
      BY <1>0, <1>4, <2>1, AppendProperties
<1> QED
    BY <1>1, <1>2, <1>3, <1>4 DEF InboxKept

LEMMA InboxStep == FInv /\ [FNext]_fvars => InboxInv'
<1> SUFFICES ASSUME FInv, [FNext]_fvars, NEW c \in Clients
             PROVE  /\ \A i \in 1..Len(inbox'[c]) : /\ MsgRoom[inbox'[c][i]] = RoomOf[c]
                                                    /\ inbox'[c][i] \in published' \ Stats
                    /\ \A i, k \in 1..Len(inbox'[c]) : inbox'[c][i] = inbox'[c][k] => i = k
    BY DEF InboxInv
<1>0. TypeOK /\ published \subseteq published' /\ InboxKept(c)
    BY InboxMoves DEF FInv
<1>1. /\ \A i \in 1..Len(inbox[c]) : /\ MsgRoom[inbox[c][i]] = RoomOf[c]
                                     /\ inbox[c][i] \in published \ Stats
      /\ \A i, k \in 1..Len(inbox[c]) : inbox[c][i] = inbox[c][k] => i = k
    BY DEF FInv, InboxInv
<1>2. \A i \in 1..Len(inbox'[c]) : /\ MsgRoom[inbox'[c][i]] = RoomOf[c]
                                   /\ inbox'[c][i] \in published' \ Stats
    BY <1>0, <1>1, InboxElements
<1>3. inbox[c] \in Seq(Messages) /\ Len(inbox[c]) \in Nat
    BY <1>0, LenProperties DEF TypeOK
<1>4. CASE inbox'[c] = inbox[c] \/ inbox'[c] = <<>>
    BY <1>1, <1>2, <1>4
<1>5. CASE inbox[c] # <<>> /\ inbox'[c] = Tail(inbox[c])
  <2>1. \A i \in 1..Len(inbox'[c]) : inbox'[c][i] = inbox[c][i + 1] /\ i + 1 \in 1..Len(inbox[c])
      BY <1>3, <1>5, HeadTailProperties
  <2>2. \A i, k \in 1..Len(inbox'[c]) : inbox'[c][i] = inbox'[c][k] => i + 1 = k + 1
      BY <1>1, <2>1
  <2> QED
      BY <1>2, <2>2
<1>6. ASSUME NEW m \in Messages \ (Stats \cup published), inbox'[c] = Append(inbox[c], m)
      PROVE  \A i, k \in 1..Len(inbox'[c]) : inbox'[c][i] = inbox'[c][k] => i = k
  <2>1. /\ Len(inbox'[c]) = Len(inbox[c]) + 1
        /\ \A i \in 1..Len(inbox[c]) : inbox'[c][i] = inbox[c][i]
        /\ inbox'[c][Len(inbox[c]) + 1] = m
      BY <1>3, <1>6, AppendProperties
  <2>2. \A i \in 1..Len(inbox'[c]) : i \in 1..Len(inbox[c]) \/ i = Len(inbox[c]) + 1
      BY <1>3, <2>1
  <2> QED
      BY <1>1, <2>1, <2>2
<1> QED
    BY <1>0, <1>2, <1>4, <1>5, <1>6 DEF InboxKept

(* What a caller has taken, it does not get again. *)
LEMMA PassedStays ==
    ASSUME TypeOK, [FNext]_fvars, NEW m, NEW b, Passed(m, b)
    PROVE  Passed(m, b)'
<1>1. published \subseteq published' /\ \A c \in Clients : InboxKept(c)
    BY InboxMoves
<1>2. CASE b \in Clients
  <2>1. \A i \in 1..Len(inbox'[b]) : inbox'[b][i] # m
      BY <1>1, <1>2, InboxElements DEF Passed
  <2> QED
      BY <1>1, <1>2, <2>1 DEF Passed
<1> QED
    BY <1>1, <1>2 DEF Passed

LEMMA PassStep == FInv /\ [FNext]_fvars => PassInv'
<1> SUFFICES ASSUME FInv, [FNext]_fvars PROVE PassInv'
    OBVIOUS
<1>0. TypeOK /\ PassInv
    BY DEF FInv
<1>1. \A j \in Live : Passed(j.msg, j.via)'
    BY <1>0, PassedStays DEF PassInv
<1>2. CASE Live' \subseteq Live
    BY <1>0, <1>1, <1>2 DEF PassInv
<1>3. CASE UNCHANGED jobVars
    BY <1>2, <1>3 DEF Live, Waiting, jobVars
<1>4. ASSUME NEW b \in Callers, NEW m \in Messages, JobTaken(b, m) PROVE PassInv'
  <2>1. PICK job \in Job : NewJob(b, m, job)
      BY <1>4, JobTakenIsNew
  <2>2. job.msg = m /\ job.via = b /\ Live' = Live \cup {job}
      BY <2>1 DEF NewJob
  <2>3. ~Passed(m, b) /\ Passed(m, b)'
      BY <1>4 DEF JobTaken
  <2>4. \A j \in Live : ~SameDelivery(j, job) /\ ~SameDelivery(job, j)
      BY <1>0, <2>2, <2>3 DEF PassInv, SameDelivery
  <2>5. \A j \in Live' : Passed(j.msg, j.via)'
      BY <1>1, <2>2, <2>3
  <2>6. \A j, k \in Live' : SameDelivery(j, k) => j = k
      BY <1>0, <2>2, <2>4 DEF PassInv
  <2> QED
      BY <2>5, <2>6 DEF PassInv, SameDelivery
<1> QED
    BY <1>2, <1>3, <1>4, JobSteps, OwnerDispatch, OwnerWorkerTake, OwnerSafeSend,
       OwnerWorkerPut DEF WorkerStep

----------------------------------------------------------------------------
(* What the clients are sent. *)

LEMMA OnlyWorkersSend ==
    ASSUME [FNext]_fvars
    PROVE  sent' = sent \/ \E w \in Workers : SafeSend(w)
BY DEF FNext, SubStep, StatsStep, WorkerStep, JoinRoom, LeaveRoom, SubStart, SubExit,
       Publish, Snapshot, StatsSnapshot, TakeSnapshot, Dispatch, WorkerTake, WorkerPut,
       WritePump, fvars, sendVars

(* A delivery stays good as long as no job comes to wait with it again and  *)
(* no worker goes back.                                                     *)
LEMMA SentKept ==
    ASSUME FInv, [FNext]_fvars, NEW c \in Clients, NEW d \in Delivery, SentOK(c, d)
    PROVE  SentOK(c, d)'
<1>0. TypeOK /\ Exclusive
    BY DEF FInv
<1>1. Passed(d.msg, d.via)'
    BY <1>0, PassedStays DEF SentOK
<1> DEFINE Done(w) == task[w].job # NoJob /\ SameDelivery(task[w].job, d) =>
               \A k \in task[w].at..task[w].job.len : array[task[w].job.slice][k] # c
<1>2. \A w \in Workers : Done(w)
    BY DEF SentOK
<1>3. \A j \in Waiting : ~SameDelivery(j, d)
    BY DEF SentOK
<1>4. task \in [Workers -> [job : Job \cup {NoJob}, at : Nat]]
    BY <1>0 DEF TypeOK
<1>5. SUFFICES (\A j \in Waiting' : ~SameDelivery(j, d)) /\ \A w \in Workers : Done(w)'
    BY <1>1 DEF SentOK, SameDelivery
<1>6. CASE UNCHANGED jobVars
  <2>1. task' = task /\ array' = array /\ Waiting' = Waiting
      BY <1>6 DEF jobVars, Waiting
  <2> QED
      BY <1>2, <1>3, <2>1 DEF SameDelivery
<1>7. ASSUME NEW b \in Callers, NEW m \in Messages, JobTaken(b, m)
      PROVE  (\A j \in Waiting' : ~SameDelivery(j, d)) /\ \A w \in Workers : Done(w)'
  <2>1. PICK job \in Job : NewJob(b, m, job)
      BY <1>7, JobTakenIsNew
  <2>2. ~SameDelivery(job, d)
      BY <1>7, <2>1 DEF SentOK, JobTaken, NewJob, SameDelivery
  <2>3. \A j \in Waiting' : ~SameDelivery(j, d)
      BY <1>3, <2>1, <2>2 DEF NewJob
  <2>4. task' = task
      BY <1>7 DEF JobTaken
  <2>5. \A w \in Workers : task[w].job # NoJob =>
             array'[task[w].job.slice] = array[task[w].job.slice]
      BY <2>1 DEF NewJob, Live
  <2>6. \A w \in Workers : Done(w)'
      BY <1>2, <2>4, <2>5 DEF SameDelivery
  <2> QED
      BY <2>3, <2>6
<1>8. ASSUME NEW b \in Callers, Dispatch(b)
      PROVE  (\A j \in Waiting' : ~SameDelivery(j, d)) /\ \A w \in Workers : Done(w)'
  <2>1. task' = task /\ array' = array /\ Waiting' \subseteq Waiting
      BY <1>8, OwnerDispatch DEF Dispatch
  <2> QED
      BY <1>2, <1>3, <2>1 DEF SameDelivery
<1>9. ASSUME NEW w \in Workers, WorkerTake(w)
      PROVE  (\A j \in Waiting' : ~SameDelivery(j, d)) /\ \A v \in Workers : Done(v)'
  <2>1. /\ array' = array /\ Waiting' \subseteq Waiting
        /\ task' = [task EXCEPT ![w] = [job |-> Head(jobs), at |-> 1]]
      BY <1>9, OwnerWorkerTake DEF WorkerTake
  <2>2. Head(jobs) \in Waiting
    <3>1. jobs \in Seq(Job) /\ jobs # <<>>
        BY <1>0, <1>9 DEF TypeOK, WorkerTake
    <3>2. Head(jobs) = jobs[1] /\ 1 \in 1..Len(jobs)
        BY <3>1, HeadTailProperties, EmptySeq
    <3> QED
        BY <3>2 DEF Waiting
  <2>3. /\ task'[w].job = Head(jobs)
        /\ \A v \in Workers \ {w} : task'[v] = task[v]
      BY <1>4, <2>1
  <2>4. Done(w)'
      BY <1>3, <2>2, <2>3 DEF SameDelivery
  <2>5. \A v \in Workers \ {w} : Done(v)'
      BY <1>2, <2>1, <2>3 DEF SameDelivery
  <2> QED
      BY <1>3, <2>1, <2>4, <2>5
<1>10. ASSUME NEW w \in Workers, SafeSend(w)
       PROVE  (\A j \in Waiting' : ~SameDelivery(j, d)) /\ \A v \in Workers : Done(v)'
  <2>1. /\ array' = array /\ Waiting' = Waiting
        /\ task' = [task EXCEPT ![w] = [job |-> @.job, at |-> @.at + 1]]
      BY <1>10, OwnerSafeSend DEF SafeSend
  <2>2. \A v \in Workers : /\ task'[v].job = task[v].job
                           /\ task'[v].at \in {task[v].at, task[v].at + 1}
                           /\ task[v].at \in Nat
      BY <1>4, <2>1
  <2>3. \A v \in Workers : Done(v)'
    <3> SUFFICES ASSUME NEW v \in Workers, task[v].job # NoJob, SameDelivery(task[v].job, d),
                        NEW k \in (task'[v].at)..(task[v].job.len)
                 PROVE  array[task[v].job.slice][k] # c
        BY <2>1, <2>2 DEF SameDelivery
    <3>1. task[v].job.len \in Nat
        BY <1>4 DEF Job
    <3>2. k \in (task[v].at)..(task[v].job.len)
        BY <2>2, <3>1
    <3> QED
        BY <1>2, <3>2
  <2> QED
      BY <1>3, <2>1, <2>3
<1>11. ASSUME NEW w \in Workers, WorkerPut(w)
       PROVE  (\A j \in Waiting' : ~SameDelivery(j, d)) /\ \A v \in Workers : Done(v)'
  <2>1. /\ array' = array /\ Waiting' = Waiting
        /\ task' = [task EXCEPT ![w] = [job |-> NoJob, at |-> 0]]
      BY <1>11, OwnerWorkerPut DEF WorkerPut
  <2>2. /\ task'[w].job = NoJob
        /\ \A v \in Workers \ {w} : task'[v] = task[v]
      BY <1>4, <2>1
  <2> QED
      BY <1>2, <1>3, <2>1, <2>2 DEF SameDelivery
<1> QED
    BY <1>6, <1>7, <1>8, <1>9, <1>10, <1>11, JobSteps DEF WorkerStep

(* What a worker sends, and to whom: a client of the message's room that    *)
(* has entered it and was not sent this delivery before.                    *)
LEMMA SendIsNew ==
    ASSUME FInv, [FNext]_fvars, NEW w \in Workers, SafeSend(w)
    PROVE  \/ sent' = sent
           \/ \E t \in Clients, d \in Delivery :
                 /\ sent' = [sent EXCEPT ![t] = Append(@, d)]
                 /\ MsgRoom[d.msg] = RoomOf[t]
                 /\ presence[t] # "outside"
                 /\ \A i \in 1..Len(sent[t]) : sent[t][i] # d
                 /\ SentOK(t, d)'
<1>0. TypeOK /\ Exclusive /\ SnapshotInv /\ PassInv /\ SentInv
    BY DEF FInv
<1>1. task \in [Workers -> [job : Job \cup {NoJob}, at : Nat]]
    BY <1>0 DEF TypeOK
<1>2. PICK job \in Job, at \in Nat : job = task[w].job /\ at = task[w].at /\ at \in 1..job.len
    BY <1>1 DEF SafeSend, NoJob
<1>3. job # NoJob /\ job \in Live /\ SnapshotOK(job)
    BY <1>0, <1>2, NoJobIsNone DEF Live, SnapshotInv
<1>4. array[job.slice] \in Seq(Clients) /\ job.len \in Nat
    BY <1>0 DEF TypeOK, Job
<1>5. PICK t \in Clients : t = array[job.slice][at]
    BY <1>2, <1>3, <1>4, ElementOfSeq DEF SnapshotOK
<1>6. PICK d \in Delivery : d = [msg |-> job.msg, via |-> job.via]
    BY DEF Job, Delivery
<1>7. d.msg = job.msg /\ d.via = job.via
    BY <1>6
<1>8. sent' = sent \/ sent' = [sent EXCEPT ![t] = Append(@, d)]
    BY <1>2, <1>5, <1>6 DEF SafeSend, Target
<1>9. MsgRoom[d.msg] = RoomOf[t] /\ presence[t] # "outside"
    BY <1>2, <1>3, <1>5, <1>7 DEF SnapshotOK
<1>10. \A i \in 1..Len(sent[t]) : sent[t][i] # d
  <2> SUFFICES ASSUME NEW i \in 1..Len(sent[t]), sent[t][i] = d PROVE FALSE
      OBVIOUS
  <2>1. SentOK(t, d)
      BY <1>0 DEF SentInv
  <2>2. SameDelivery(task[w].job, d)
      BY <1>2, <1>7 DEF SameDelivery
  <2> QED
      BY <1>2, <1>3, <1>5, <2>1, <2>2 DEF SentOK
<1>11. SentOK(t, d)'
  <2>1. Passed(d.msg, d.via)'
      BY <1>0, <1>3, <1>7, PassedStays DEF PassInv
  <2>2. Waiting' = Waiting /\ array' = array
      BY OwnerSafeSend DEF SafeSend
  <2>3. \A j \in Waiting : ~SameDelivery(j, d)
    <3> SUFFICES ASSUME NEW j \in Waiting, SameDelivery(j, d) PROVE FALSE
        OBVIOUS
    <3>1. j = job
        BY <1>0, <1>3, <1>7 DEF PassInv, SameDelivery, Live
    <3> QED
        BY <1>0, <1>2, <1>3, <3>1 DEF Exclusive, Waiting
  <2>4. task' = [task EXCEPT ![w] = [job |-> @.job, at |-> @.at + 1]]
      BY DEF SafeSend
  <2>5. /\ task'[w].job = job /\ task'[w].at = at + 1
        /\ \A v \in Workers \ {w} : task'[v] = task[v]
      BY <1>1, <1>2, <2>4
  <2>6. \A v \in Workers \ {w} : task[v].job # NoJob => ~SameDelivery(task[v].job, d)
    <3> SUFFICES ASSUME NEW v \in Workers \ {w}, task[v].job # NoJob,
                        SameDelivery(task[v].job, d)
                 PROVE  FALSE
        OBVIOUS
    <3>1. task[v].job = job
        BY <1>0, <1>3, <1>7 DEF PassInv, SameDelivery, Live
    <3> QED
        BY <1>0, <1>2, <1>3, <3>1 DEF Exclusive
  <2>7. \A k \in (at + 1)..job.len : array[job.slice][k] # t
      BY <1>2, <1>3, <1>4, <1>5 DEF SnapshotOK
  <2> QED
      BY <2>1, <2>2, <2>3, <2>5, <2>6, <2>7 DEF SentOK, SameDelivery
<1> QED
    BY <1>8, <1>9, <1>10, <1>11

LEMMA SentStep == FInv /\ [FNext]_fvars => SentInv' /\ RoomIsolation' /\ OncePerCaller'
<1> SUFFICES ASSUME FInv, [FNext]_fvars, NEW c \in Clients
             PROVE  /\ \A i \in 1..Len(sent'[c]) : /\ SentOK(c, sent[c][i])'
                                                   /\ MsgRoom[sent'[c][i].msg] = RoomOf[c]
                    /\ \A i, k \in 1..Len(sent'[c]) : i # k => sent'[c][i] # sent'[c][k]
                    /\ sent'[c] # <<>> => presence'[c] # "outside"
    BY DEF SentInv, RoomIsolation, OncePerCaller
<1>0. TypeOK
    BY DEF FInv
<1>1. sent[c] \in Seq(Delivery) /\ Len(sent[c]) \in Nat
    BY <1>0, LenProperties DEF TypeOK
<1>2. /\ \A i \in 1..Len(sent[c]) : /\ SentOK(c, sent[c][i])
                                    /\ MsgRoom[sent[c][i].msg] = RoomOf[c]
      /\ \A i, k \in 1..Len(sent[c]) : i # k => sent[c][i] # sent[c][k]
      /\ sent[c] # <<>> => presence[c] # "outside"
    BY DEF FInv, SentInv, RoomIsolation, OncePerCaller
<1>3. ASSUME NEW d \in Delivery, \E i \in 1..Len(sent[c]) : d = sent[c][i]
      PROVE  SentOK(c, d)'
    BY <1>2, <1>3, SentKept
<1>4. CASE sent'[c] = sent[c]
  <2>1. ASSUME NEW i \in 1..Len(sent'[c]) PROVE SentOK(c, sent[c][i])'
    <3>1. PICK d \in Delivery : d = sent[c][i]
        BY <1>1, <1>4, ElementOfSeq
    <3>2. SentOK(c, d)' /\ d = sent'[c][i]
        BY <1>3, <1>4, <3>1
    <3> QED
        BY <3>2 DEF SentOK, Passed, Waiting, SameDelivery
  <2> QED
      BY <1>0, <1>2, <1>4, <2>1, PresenceMoves
<1>5. ASSUME NEW e \in Delivery, sent'[c] = Append(sent[c], e),
             MsgRoom[e.msg] = RoomOf[c], presence[c] # "outside",
             \A i \in 1..Len(sent[c]) : sent[c][i] # e, SentOK(c, e)'
      PROVE  /\ \A i \in 1..Len(sent'[c]) : /\ SentOK(c, sent[c][i])'
                                            /\ MsgRoom[sent'[c][i].msg] = RoomOf[c]
             /\ \A i, k \in 1..Len(sent'[c]) : i # k => sent'[c][i] # sent'[c][k]
             /\ sent'[c] # <<>> => presence'[c] # "outside"
  <2>1. /\ Len(sent'[c]) = Len(sent[c]) + 1
        /\ \A i \in 1..Len(sent[c]) : sent'[c][i] = sent[c][i]
        /\ sent'[c][Len(sent[c]) + 1] = e
      BY <1>1, <1>5, AppendProperties
  <2>2. \A i \in 1..Len(sent'[c]) : i \in 1..Len(sent[c]) \/ i = Len(sent[c]) + 1
      BY <1>1, <2>1
  <2>3. ASSUME NEW i \in 1..Len(sent'[c]) PROVE SentOK(c, sent[c][i])'
    <3>1. PICK d \in Delivery : d = sent'[c][i]
        BY <1>1, <2>1, <2>2, ElementOfSeq
    <3>2. SentOK(c, d)'
        BY <1>3, <1>5, <2>1, <2>2, <3>1
    <3> QED
        BY <3>1, <3>2 DEF SentOK, Passed, Waiting, SameDelivery
  <2>4. \A i \in 1..Len(sent'[c]) : MsgRoom[sent'[c][i].msg] = RoomOf[c]
      BY <1>2, <1>5, <2>1, <2>2
  <2>5. \A i, k \in 1..Len(sent'[c]) : i # k => sent'[c][i] # sent'[c][k]
      BY <1>2, <1>5, <2>1, <2>2
  <2> QED
      BY <1>0, <1>5, <2>3, <2>4, <2>5, PresenceMoves
<1>6. ASSUME NEW t \in Clients, NEW e \in Delivery, sent' = [sent EXCEPT ![t] = Append(@, e)]
      PROVE  sent'[c] = sent[c] \/ (t = c /\ sent'[c] = Append(sent[c], e))
    BY <1>0, <1>6 DEF TypeOK
<1>7. ASSUME NEW w \in Workers, SafeSend(w)
      PROVE  \/ sent'[c] = sent[c]
             \/ \E e \in Delivery : /\ sent'[c] = Append(sent[c], e)
                                    /\ MsgRoom[e.msg] = RoomOf[c] /\ presence[c] # "outside"
                                    /\ \A i \in 1..Len(sent[c]) : sent[c][i] # e
                                    /\ SentOK(c, e)'
    BY <1>6, <1>7, SendIsNew
<1> QED
    BY <1>4, <1>5, <1>7, OnlyWorkersSend

----------------------------------------------------------------------------
(* The theorems. *)

LEMMA FInvHolds == FSpec => []FInv
<1>1. FInit => FInv
  <2> SUFFICES ASSUME FInit PROVE FInv
      OBVIOUS
  <2>1. TypeOK
      BY ChanSizes DEF FInit, Init, TypeOK
  <2>2. Live = {} /\ Waiting = {}
      BY DEF FInit, Live, Waiting
  <2>3. RoomInv
      BY DEF FInit, Init, RoomInv, Members
  <2>4. Exclusive /\ Covered
      BY <2>2 DEF FInit, Exclusive, Covered
  <2>5. SnapshotInv /\ InboxInv /\ PassInv
      BY <2>2 DEF FInit, SnapshotInv, InboxInv, PassInv
  <2>6. SentInv /\ RoomIsolation /\ OncePerCaller
      BY DEF FInit, SentInv, RoomIsolation, OncePerCaller
  <2> QED
      BY <2>1, <2>3, <2>4, <2>5, <2>6 DEF FInv
<1>2. FInv /\ [FNext]_fvars => FInv'
    BY TypeStep, RoomStep, OwnerStep, SnapshotStep, InboxStep, PassStep, SentStep DEF FInv
<1> QED
    BY <1>1, <1>2, PTL DEF FSpec

(* Type correctness of the fan-out: no worker reads past its slice, and the *)
(* job queue and the send channels stay within their capacities.            *)
THEOREM FanoutTypeCorrect == FSpec => []TypeOK
BY FInvHolds, PTL DEF FInv

(* A message reaches clients of its own room only, whatever slices are      *)
(* reused by whom.                                                          *)
THEOREM FanoutRoomIsolation == FSpec => []RoomIsolation
BY FInvHolds, PTL DEF FInv

(* No caller and no worker makes a client get a delivery twice, and none    *)
(* goes to a client that never entered the room.                            *)
THEOREM FanoutOncePerCaller == FSpec => []OncePerCaller
BY FInvHolds, PTL DEF FInv

(* Every pooled slice is in the pool or held by exactly one job: none is    *)
(* shared, none is lost.                                                    *)
THEOREM FanoutSliceHasOneOwner == FSpec => []SliceHasOneOwner
<1>1. FInv => SliceHasOneOwner
  <2> SUFFICES ASSUME FInv, NEW s \in Slices
               PROVE  IF s \in pool THEN Holders(s) = {}
                      ELSE \E h \in Holders(s) : Holders(s) = {h}
      BY DEF SliceHasOneOwner
  <2>0. Exclusive /\ Covered
      BY DEF FInv
  <2>1. CASE s \in pool
    <3>1. /\ \A d \in Callers : dispatch[d] # NoJob => dispatch[d].slice # s
          /\ \A i \in 1..Len(jobs) : jobs[i].slice # s
          /\ \A w \in Workers : task[w].job # NoJob => task[w].job.slice # s
        BY <2>0, <2>1 DEF Exclusive, Live, Waiting
    <3> QED
        BY <2>1, <3>1 DEF Holders
  <2>2. CASE s \notin pool
    <3>1. PICK j \in Live : j.slice = s
        BY <2>0, <2>2 DEF Covered
    <3>2. ASSUME NEW b \in Callers, dispatch[b] # NoJob, j = dispatch[b]
          PROVE  Holders(s) = {<<"dispatch", b>>}
        BY <2>0, <3>1, <3>2 DEF Holders, Exclusive
    <3>3. ASSUME NEW i \in 1..Len(jobs), j = jobs[i]
          PROVE  Holders(s) = {<<"job", i>>}
        BY <2>0, <3>1, <3>3 DEF Holders, Exclusive
    <3>4. ASSUME NEW w \in Workers, task[w].job # NoJob, j = task[w].job
          PROVE  Holders(s) = {<<"task", w>>}
        BY <2>0, <3>1, <3>4 DEF Holders, Exclusive
    <3>5. \E h : Holders(s) = {h}
        BY <3>2, <3>3, <3>4 DEF Live, Waiting
    <3> QED
        BY <2>2, <3>5
  <2> QED
      BY <2>1, <2>2
<1> QED
    BY <1>1, FInvHolds, PTL
=============================================================================
