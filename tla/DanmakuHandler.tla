--------------------------- MODULE DanmakuHandler ---------------------------
(***************************************************************************)
(* The Kafka consumer process: main's Consume loop (cmd/consumer/main.go), *)
(* the sessions and claims of a DanmakuHandler, its msgChan and its        *)
(* database worker (internal/consumer/handler.go), and the table it fills  *)
(* (internal/repo, internal/infra/db.go).                                  *)
(*                                                                         *)
(* What sarama does is external and modelled from its use: a session's     *)
(* context is cancelled by a rebalance or by main's context; Cleanup runs  *)
(* when every ConsumeClaim has returned; marked offsets are committed now  *)
(* and then and after Cleanup; the next session resumes at the committed   *)
(* offsets.  Every session claims every partition.                         *)
(***************************************************************************)
EXTENDS Integers, Sequences, FiniteSets, SequencesExt

CONSTANTS
    Partitions,        \* the partitions of danmaku_save_topic
    LogLen,            \* bound: LogLen[p] messages in partition p
    Kind,              \* Kind[m]: what parseMessage makes of m
    ChannelBufferSize, \* capacity of msgChan
    BatchSize,         \* batchSize
    MaxDBRetries,      \* attempts per batch
    MaxSessions,       \* bound: sessions of one process
    MaxRestarts,       \* bound: process starts after the first
    MaxLostAcks        \* bound: inserts that commit and report an error

(* A message is its partition and its offset. *)
Msgs == UNION {{p} \X (1..LogLen[p]) : p \in Partitions}

ASSUME SizeAssumption ==
    /\ LogLen \in [Partitions -> Nat]
    /\ {MaxSessions, MaxRestarts, MaxLostAcks} \subseteq Nat
    /\ {ChannelBufferSize, BatchSize, MaxDBRetries} \subseteq Nat \ {0}
ASSUME KindAssumption == Kind \in [Msgs -> {"danmaku", "other", "bad"}]

VARIABLES
    proc,      \* the process: running, exited by itself, or down
    stopping,  \* main's context is cancelled
    session,   \* where main is: before Consume, in a session, in Cleanup
    ctxDone,   \* the session's context is cancelled
    claim,     \* claim[p]: where ConsumeClaim of partition p is
    next,      \* next[p]: the offset ConsumeClaim has in hand or gets next
    marked,    \* marked[p]: the offset after the last marked message
    committed, \* committed[p]: the offset the group resumes at
    first,     \* first[p]: the offset this process began at
    msgChan,   \* the messages in the channel, a skipped one being nil
    chanOpen,  \* msgChan has not been closed
    worker,    \* where the dbWorker goroutine is
    buffer,    \* the worker's batch
    attempt,   \* flushBuffer's attempt in progress
    flush,     \* what the flush in progress is: its context, and what follows
    table,     \* the messages with a row, inserted since this process's InitDB
    dropped,   \* messages flushBuffer gave up on in this process
    sessions, restarts, lostAcks  \* counters for the bounds

groupVars == <<committed, first>>
sessionVars == <<session, ctxDone, claim, next, marked>>
chanVars == <<msgChan, chanOpen>>
workerVars == <<worker, buffer, attempt, flush>>
dbVars == <<table, dropped, lostAcks>>
mainVars == <<proc, stopping, sessions, restarts>>
vars == <<groupVars, sessionVars, chanVars, workerVars, dbVars, mainVars>>

(* What no ConsumeClaim touches, and what the worker does not. *)
claimEnv == <<groupVars, session, ctxDone, chanOpen, workerVars, dbVars, mainVars>>
workerEnv == <<groupVars, sessionVars, chanOpen, mainVars>>

(* A flush under way: does its backoff watch the session's context, and     *)
(* does the worker return after it.                                         *)
NoFlush == [watchCtx |-> FALSE, last |-> FALSE]

(* One offset per partition, at most the one after its last message. *)
Offsets == {f \in [Partitions -> Nat] : \A p \in Partitions : f[p] \in 1..(LogLen[p] + 1)}

TypeOK ==
    /\ proc \in {"running", "exited", "down"}
    /\ stopping \in BOOLEAN
    /\ session \in {"idle", "active", "cleanup"}
    /\ ctxDone \in BOOLEAN
    /\ claim \in [Partitions -> {"off", "select", "push", "mark"}]
    /\ {next, marked, committed, first} \subseteq Offsets
    /\ msgChan \in Seq(Msgs) /\ Len(msgChan) <= ChannelBufferSize
    /\ chanOpen \in BOOLEAN
    /\ worker \in {"off", "select", "insert", "backoff"}
    /\ buffer \in Seq(Msgs) /\ Len(buffer) <= BatchSize
    /\ attempt \in 0..MaxDBRetries
    /\ flush \in [watchCtx : BOOLEAN, last : BOOLEAN]
    /\ table \in SUBSET Msgs
    /\ dropped \in SUBSET Msgs
    /\ sessions \in 0..MaxSessions
    /\ restarts \in 0..MaxRestarts
    /\ lostAcks \in 0..MaxLostAcks

(* What a process has in memory when it starts, and an empty table. *)
Fresh ==
    /\ stopping' = FALSE
    /\ session' = "idle"
    /\ ctxDone' = FALSE
    /\ claim' = [p \in Partitions |-> "off"]
    /\ msgChan' = <<>>
    /\ chanOpen' = TRUE
    /\ worker' = "off"
    /\ buffer' = <<>>
    /\ attempt' = 0
    /\ flush' = NoFlush
    /\ sessions' = 0

Init ==
    /\ proc = "running"
    /\ stopping = FALSE
    /\ session = "idle"
    /\ ctxDone = FALSE
    /\ claim = [p \in Partitions |-> "off"]
    /\ next = [p \in Partitions |-> 1]
    /\ marked = next /\ committed = next /\ first = next
    /\ msgChan = <<>>
    /\ chanOpen = TRUE
    /\ worker = "off"
    /\ buffer = <<>>
    /\ attempt = 0
    /\ flush = NoFlush
    /\ table = {}
    /\ dropped = {}
    /\ sessions = 0 /\ restarts = 0 /\ lostAcks = 0

Up == proc = "running"

----------------------------------------------------------------------------
(* main: the signal handler and the Consume loop. *)

(* SIGINT or SIGTERM: cancel(), which cancels the session's context too. *)
Signal ==
    /\ Up /\ ~stopping
    /\ stopping' = TRUE
    /\ ctxDone' = (session # "idle")
    /\ UNCHANGED <<groupVars, chanVars, workerVars, dbVars, session, claim,
                   next, marked, proc, sessions, restarts>>

(* group.Consume joins the group: Setup starts the worker, and one          *)
(* ConsumeClaim per partition starts at the committed offset.               *)
StartSession ==
    /\ Up /\ session = "idle" /\ ~stopping
    /\ sessions < MaxSessions
    /\ session' = "active"
    /\ ctxDone' = FALSE
    /\ claim' = [p \in Partitions |-> "select"]
    /\ next' = committed
    /\ marked' = committed
    /\ worker' = "select"
    /\ sessions' = sessions + 1
    /\ UNCHANGED <<groupVars, chanVars, dbVars, buffer, attempt, flush,
                   proc, stopping, restarts>>

(* External: the group rebalances, and the session's context is cancelled. *)
Rebalance ==
    /\ Up /\ session = "active" /\ ~ctxDone
    /\ ctxDone' = TRUE
    /\ UNCHANGED <<groupVars, chanVars, workerVars, dbVars, mainVars,
                   session, claim, next, marked>>

(* External: sarama commits the marked offsets at intervals. *)
AutoCommit ==
    /\ Up /\ session = "active"
    /\ committed # marked
    /\ committed' = marked
    /\ UNCHANGED <<sessionVars, chanVars, workerVars, dbVars, mainVars, first>>

(* A panic or a crash: what the process had in memory is gone. *)
Die ==
    /\ proc' = "down"
    /\ Fresh
    /\ next' = committed /\ marked' = committed
    /\ UNCHANGED <<groupVars, dbVars, restarts>>

Crash == Up /\ restarts < MaxRestarts /\ Die

(* The process is started again.  InitDB drops and recreates the table. *)
Restart ==
    /\ ~Up
    /\ restarts < MaxRestarts
    /\ restarts' = restarts + 1
    /\ proc' = "running"
    /\ Fresh
    /\ next' = committed /\ marked' = committed /\ first' = committed
    /\ table' = {}
    /\ dropped' = {}
    /\ UNCHANGED <<committed, lostAcks>>

AllClaimsReturned == \A p \in Partitions : claim[p] = "off"

(* Cleanup: close(h.msgChan), then wg.Wait(). *)
CleanupClose ==
    /\ Up /\ session = "active" /\ ctxDone /\ AllClaimsReturned
    /\ chanOpen
    /\ chanOpen' = FALSE
    /\ session' = "cleanup"
    /\ UNCHANGED <<groupVars, workerVars, dbVars, mainVars, ctxDone, claim,
                   next, marked, msgChan>>

(* The channel is never made again: the next session's Cleanup closes it    *)
(* twice, and the process panics.                                           *)
CleanupPanic ==
    /\ Up /\ session = "active" /\ ctxDone /\ AllClaimsReturned
    /\ ~chanOpen
    /\ Die

(* Mutant of WorkerDone: Cleanup does not call wg.Wait(). *)
WorkerDone_NoWait == TRUE

(* What wg.Wait() waits for. *)
WorkerDone == worker = "off"

(* wg.Wait() returned; sarama commits what is marked and Consume returns. *)
CleanupDone ==
    /\ Up /\ session = "cleanup" /\ WorkerDone
    /\ session' = "idle"
    /\ committed' = marked
    /\ UNCHANGED <<chanVars, workerVars, dbVars, mainVars, first, ctxDone,
                   claim, next, marked>>

(* ctx.Err() != nil after Consume: the loop breaks and main returns. *)
Exit ==
    /\ Up /\ session = "idle" /\ stopping
    /\ proc' = "exited"
    /\ UNCHANGED <<groupVars, sessionVars, chanVars, workerVars, dbVars,
                   stopping, sessions, restarts>>

----------------------------------------------------------------------------
(* ConsumeClaim, one goroutine per partition. *)

(* parseMessage returns an error for the message in hand: its JSON, or that *)
(* of its data, does not parse.  A packet that is not a danmaku is none.    *)
ParseError(p) == Kind[p, next[p]] = "bad"

(* Mutant of ReceiveMark: a message is marked before it is sent. *)
ReceiveMark_First(p) == next[p] + 1

(* What is marked as soon as a message is received: one that parseMessage   *)
(* rejects.                                                                 *)
ReceiveMark(p) == IF ParseError(p) THEN next[p] + 1 ELSE marked[p]

(* A message is received (also after cancellation: it may be buffered in    *)
(* claim.Messages()).                                                      *)
ClaimReceive(p) ==
    /\ Up /\ claim[p] = "select"
    /\ next[p] <= LogLen[p]
    /\ marked' = [marked EXCEPT ![p] = ReceiveMark(p)]
    /\ IF ParseError(p)
       THEN next' = [next EXCEPT ![p] = @ + 1] /\ UNCHANGED claim
       ELSE claim' = [claim EXCEPT ![p] = "push"] /\ UNCHANGED next
    /\ UNCHANGED <<claimEnv, msgChan>>

(* Mutant of ChanHasRoom: the channel grows without bound. *)
ChanHasRoom_Unbounded == TRUE

ChanHasRoom == Len(msgChan) < ChannelBufferSize

(* h.msgChan <- danmaku, once there is room.  A message that parseMessage   *)
(* "skips" is sent as well, as nil.                                         *)
ClaimPush(p) ==
    /\ Up /\ claim[p] = "push"
    /\ chanOpen /\ ChanHasRoom
    /\ msgChan' = Append(msgChan, <<p, next[p]>>)
    /\ claim' = [claim EXCEPT ![p] = "mark"]
    /\ UNCHANGED <<claimEnv, next, marked>>

(* A send on the channel an earlier session's Cleanup closed. *)
ClaimPanic(p) ==
    /\ Up /\ claim[p] = "push"
    /\ ~chanOpen
    /\ Die

(* session.MarkMessage, after the send. *)
ClaimMark(p) ==
    /\ Up /\ claim[p] = "mark"
    /\ marked' = [marked EXCEPT ![p] = next[p] + 1]
    /\ next' = [next EXCEPT ![p] = @ + 1]
    /\ claim' = [claim EXCEPT ![p] = "select"]
    /\ UNCHANGED <<claimEnv, msgChan>>

(* Mutant of Cancellable: the send of msgChan has no ctx.Done() case. *)
Cancellable_OuterOnly == {"select"}

(* Where ConsumeClaim watches the session's context. *)
Cancellable == {"select", "push"}

(* ctx.Done(), or claim.Messages() closed; a message in hand is left        *)
(* unmarked.                                                                *)
ClaimReturn(p) ==
    /\ Up /\ ctxDone
    /\ claim[p] \in Cancellable
    /\ claim' = [claim EXCEPT ![p] = "off"]
    /\ UNCHANGED <<claimEnv, next, marked, msgChan>>

----------------------------------------------------------------------------
(* dbWorker and flushBuffer. *)

(* flushBuffer(ctx, buffer), entered with a batch to insert. *)
BeginFlush(watchCtx, last) ==
    /\ worker' = "insert"
    /\ attempt' = 1
    /\ flush' = [watchCtx |-> watchCtx, last |-> last]

WorkerReturns ==
    /\ worker' = "off"
    /\ buffer' = <<>>
    /\ UNCHANGED <<attempt, flush>>

(* Mutant of Buffered: the message that fills the batch is not in it. *)
Buffered_LosesLast(m) == IF Len(buffer) + 1 < BatchSize THEN Append(buffer, m) ELSE buffer

Buffered(m) == Append(buffer, m)

(* A message arrives; a full batch is flushed. *)
WorkerReceive ==
    /\ Up /\ worker = "select"
    /\ msgChan # <<>>
    /\ msgChan' = Tail(msgChan)
    /\ buffer' = Buffered(Head(msgChan))
    /\ IF Len(buffer') >= BatchSize THEN BeginFlush(TRUE, FALSE)
                                    ELSE UNCHANGED <<worker, attempt, flush>>
    /\ UNCHANGED <<workerEnv, dbVars>>

(* The channel is closed and empty: flush with the session's context, exit. *)
WorkerClosed ==
    /\ Up /\ worker = "select"
    /\ ~chanOpen /\ msgChan = <<>>
    /\ IF buffer = <<>> THEN WorkerReturns
                        ELSE BeginFlush(TRUE, TRUE) /\ UNCHANGED buffer
    /\ UNCHANGED <<workerEnv, dbVars, msgChan>>

(* Mutant of TickFlushes: the ticker flushes full batches only. *)
TickFlushes_FullOnly == Len(buffer) >= BatchSize

TickFlushes == buffer # <<>>

(* FlushInterval elapsed. *)
WorkerTick ==
    /\ Up /\ worker = "select"
    /\ TickFlushes
    /\ BeginFlush(TRUE, FALSE)
    /\ UNCHANGED <<workerEnv, dbVars, msgChan, buffer>>

(* The session's context is cancelled: flush with a background context, and *)
(* return without looking at what is left in msgChan.                       *)
WorkerCtxDone ==
    /\ Up /\ worker = "select"
    /\ ctxDone
    /\ IF buffer = <<>> THEN WorkerReturns
                        ELSE BeginFlush(FALSE, TRUE) /\ UNCHANGED buffer
    /\ UNCHANGED <<workerEnv, dbVars, msgChan>>

(* The rows of the batch, committed by one INSERT in a transaction. *)
Insert == table' = table \cup ToSet(buffer)

(* gorm refuses a batch with a nil in it.  It also writes the generated     *)
(* primary keys into the batch it inserts, so MySQL refuses, as duplicates, *)
(* rows that are inserted again from the same buffer after they committed.  *)
Insertable == \A m \in ToSet(buffer) : Kind[m] = "danmaku" /\ m \notin table

(* Mutant of AfterFlush: buffer = buffer[:0] is forgotten. *)
AfterFlush_Keeps == buffer

AfterFlush == <<>>

(* flushBuffer returns; buffer = buffer[:0], or the worker returns. *)
EndFlush ==
    /\ buffer' = AfterFlush
    /\ attempt' = 0
    /\ flush' = NoFlush
    /\ worker' = IF flush.last THEN "off" ELSE "select"

InsertOK ==
    /\ Up /\ worker = "insert"
    /\ Insertable
    /\ Insert
    /\ EndFlush
    /\ UNCHANGED <<workerEnv, msgChan, dropped, lostAcks>>

(* CreateInBatches returned an error; nothing was inserted. *)
InsertFail ==
    /\ Up /\ worker = "insert"
    /\ worker' = "backoff"
    /\ UNCHANGED <<workerEnv, dbVars, msgChan, buffer, attempt, flush>>

(* The connection broke after the commit: an error, and the rows are there. *)
InsertAckLost ==
    /\ Up /\ worker = "insert"
    /\ Insertable
    /\ lostAcks < MaxLostAcks
    /\ lostAcks' = lostAcks + 1
    /\ Insert
    /\ worker' = "backoff"
    /\ UNCHANGED <<workerEnv, msgChan, buffer, attempt, flush, dropped>>

Drop == dropped' = dropped \cup ToSet(buffer)

(* BackoffDuration elapsed: another attempt, or the batch is dropped. *)
BackoffElapsed ==
    /\ Up /\ worker = "backoff"
    /\ IF attempt < MaxDBRetries
       THEN /\ worker' = "insert"
            /\ attempt' = attempt + 1
            /\ UNCHANGED <<buffer, flush, dropped>>
       ELSE Drop /\ EndFlush
    /\ UNCHANGED <<workerEnv, msgChan, table, lostAcks>>

(* The session's context ends the backoff: the batch is dropped. *)
BackoffCancelled ==
    /\ Up /\ worker = "backoff"
    /\ flush.watchCtx /\ ctxDone
    /\ Drop /\ EndFlush
    /\ UNCHANGED <<workerEnv, msgChan, table, lostAcks>>

----------------------------------------------------------------------------
MainStep == StartSession \/ CleanupClose \/ CleanupPanic \/ CleanupDone \/ Exit

ClaimStep(p) == \/ ClaimReceive(p) \/ ClaimPush(p) \/ ClaimPanic(p)
                \/ ClaimMark(p) \/ ClaimReturn(p)

FlushStep == InsertOK \/ InsertFail \/ InsertAckLost \/ BackoffElapsed \/ BackoffCancelled

WorkerStep == WorkerReceive \/ WorkerClosed \/ WorkerTick \/ WorkerCtxDone \/ FlushStep

Environment == Signal \/ Rebalance \/ AutoCommit \/ Crash \/ Restart

Next == \/ MainStep
        \/ \E p \in Partitions : ClaimStep(p)
        \/ WorkerStep
        \/ Environment

Spec == Init /\ [][Next]_vars

(***************************************************************************)
(* Fairness: every goroutine that can run runs, the ticker ticks, and a    *)
(* database call returns, with whatever result.  Signals, rebalances,      *)
(* commits and crashes are free to happen or not.                          *)
(***************************************************************************)
FairSpec == /\ Spec
            /\ WF_vars(MainStep)
            /\ \A p \in Partitions : WF_vars(ClaimStep(p))
            /\ WF_vars(WorkerStep)

----------------------------------------------------------------------------
(* Safety. *)

Queued == ToSet(msgChan) \cup ToSet(buffer)

(* A danmaku this process has marked as consumed, and so will not be given  *)
(* again, is still on its way, or saved, or was given up on after the       *)
(* retries: the hand-over from ConsumeClaim to the worker loses nothing     *)
(* while the process lives, at whatever moment the session is cancelled.    *)
MarkedIsAccounted ==
    Up => \A p \in Partitions : \A n \in first[p]..(marked[p] - 1) :
             LET m == <<p, n>>
             IN \/ Kind[m] # "danmaku"
                \/ m \in Queued \cup dropped
                \/ m \in table

(* What a crash costs: of the danmaku whose offsets are committed, and that *)
(* no later process is given again, at most a full channel and a full batch *)
(* are neither saved nor reported as dropped, also while the process is     *)
(* down or after it has exited.                                             *)
CrashLossBounded ==
    Cardinality({m \in Msgs : /\ Kind[m] = "danmaku"
                              /\ m[2] \in first[m[1]]..(committed[m[1]] - 1)
                              /\ m \notin table \cup dropped})
        <= ChannelBufferSize + BatchSize

(* A danmaku is saved only when every earlier one of its partition that     *)
(* this process consumed is saved or given up on: the channel, the batches  *)
(* and their retries never overtake or skip.                                *)
SavedWithoutGaps ==
    Up => \A p \in Partitions : \A n \in first[p]..LogLen[p] : <<p, n>> \in table =>
             \A k \in first[p]..(n - 1) :
                LET m == <<p, k>>
                IN \/ Kind[m] # "danmaku"
                   \/ m \in dropped \cup table

(* Each danmaku has one outcome: what flushBuffer reports as dropped is not *)
(* in the table, unless the acknowledgement of its commit was lost.  A      *)
(* batch leaves the buffer when it is flushed and is not flushed again,     *)
(* where its rows would be refused as duplicates.                           *)
SavedOrDropped == lostAcks = 0 => dropped \cap table = {}

(* Each session has its own worker: none runs outside a session, and none   *)
(* of an ended session's flushes is still under way.                        *)
WorkerInSession == session = "idle" => worker = "off" /\ buffer = <<>>

(* cmd/consumer/main.go:62, "A rebalance occurs -> Loop continues": no      *)
(* session pushes to, or closes, a channel that is already closed.          *)
RebalanceContinues ==
    Up => /\ \A p \in Partitions : claim[p] = "push" => chanOpen
          /\ (session = "active" /\ ctxDone /\ AllClaimsReturned) => chanOpen

(* handler.go:287, "Wait for the worker to flush remaining data and exit",  *)
(* and README.md:296: nothing is left in msgChan once Cleanup returns.      *)
CleanupFlushesQueue == (session = "idle" /\ sessions > 0) => msgChan = <<>>

(* handler.go:400, "signal 'skip this message'": a message that is not a    *)
(* danmaku does not end up in a batch.                                      *)
SkippedNotQueued == \A m \in Queued : Kind[m] = "danmaku"

----------------------------------------------------------------------------
(* Liveness. *)

(* After a signal the process ends: no ConsumeClaim stays blocked on a full *)
(* msgChan whose worker has returned, and Cleanup's Wait returns.           *)
ShutdownTerminates == stopping ~> ~Up

(* A batch leaves the buffer (saved or given up on) without waiting for     *)
(* more messages, whatever the database answers.                            *)
BatchesSettle == (buffer # <<>>) ~> (buffer = <<>>)
=============================================================================
