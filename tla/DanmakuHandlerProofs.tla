------------------------ MODULE DanmakuHandlerProofs ------------------------
(***************************************************************************)
(* Proofs about DanmakuHandler, for any partitions and logs, any sizes of  *)
(* channel and batch and any number of retries, sessions and restarts.     *)
(***************************************************************************)
EXTENDS DanmakuHandler, SequenceTheorems, FiniteSetTheorems, TLAPS

USE SizeAssumption, KindAssumption

----------------------------------------------------------------------------
(* The inductive invariant. *)

(* Where the goroutines are, relative to each other and to the offsets.     *)
(* What is marked is what the claim is past; between sessions all of it is  *)
(* committed.                                                               *)
Shape ==
    /\ worker = "off" => buffer = <<>>
    /\ worker = "select" => Len(buffer) < BatchSize
    /\ session = "idle" => worker = "off" /\ committed = marked
    /\ session # "active" => AllClaimsReturned
    /\ marked = next
    /\ \A p \in Partitions : /\ claim[p] \in {"push", "mark"} => next[p] <= LogLen[p]
                             /\ committed[p] <= marked[p]

(* The first offset of p that this process has not put into msgChan. *)
Ahead(p) == IF claim[p] = "mark" THEN next[p] + 1 ELSE next[p]

Settled(m) == Kind[m] # "danmaku" \/ m \in dropped \/ m \in table

InBuffer(m) == m \in ToSet(buffer)
InChan(m) == m \in ToSet(msgChan)

(* Nothing before the front is lost. *)
Accounted ==
    Up => \A p \in Partitions : \A n \in first[p]..(Ahead(p) - 1) :
             Settled(<<p, n>>) \/ InBuffer(<<p, n>>) \/ InChan(<<p, n>>)

(* Nothing comes from beyond the front. *)
BehindFront ==
    Up => \A p \in Partitions : \A n \in 1..LogLen[p] :
             (InBuffer(<<p, n>>) \/ InChan(<<p, n>>) \/ <<p, n>> \in table \cup dropped)
                => n < Ahead(p)

(* A message is in one place, unless the acknowledgement of its commit was  *)
(* lost.                                                                    *)
OnePlace ==
    Up => /\ \A i, k \in 1..Len(msgChan) : msgChan[i] = msgChan[k] => i = k
          /\ \A i \in 1..Len(msgChan) : /\ ~InBuffer(msgChan[i])
                                        /\ msgChan[i] \notin table \cup dropped
          /\ ToSet(buffer) \cap dropped = {}
          /\ lostAcks = 0 => ToSet(buffer) \cap table = {}

(* Each message is preceded by the earlier ones of its partition: in the    *)
(* table, in the batch and in the channel.                                  *)
TableInOrder ==
    Up => \A p \in Partitions : \A n \in 1..LogLen[p] : \A k \in first[p]..(n - 1) :
             <<p, n>> \in table => Settled(<<p, k>>)

BatchInOrder ==
    Up => \A p \in Partitions : \A n \in 1..LogLen[p] : \A k \in first[p]..(n - 1) :
             InBuffer(<<p, n>>) => Settled(<<p, k>>) \/ InBuffer(<<p, k>>)

ChanInOrder ==
    Up => \A p \in Partitions : \A n \in 1..LogLen[p] : \A k \in first[p]..(n - 1) :
             \A i \in 1..Len(msgChan) : msgChan[i] = <<p, n>> =>
                \/ Settled(<<p, k>>) \/ InBuffer(<<p, k>>)
                \/ \E j \in 1..(i - 1) : msgChan[j] = <<p, k>>

InOrder == TableInOrder /\ BatchInOrder /\ ChanInOrder

HInv == /\ TypeOK /\ Shape
        /\ Accounted /\ BehindFront /\ OnePlace /\ InOrder
        /\ SavedOrDropped /\ CrashLossBounded

----------------------------------------------------------------------------
(* Lemmas about the operators. *)

LEMMA Sizes ==
    /\ ChannelBufferSize \in Nat \ {0} /\ BatchSize \in Nat \ {0} /\ MaxDBRetries \in Nat \ {0}
    /\ MaxSessions \in Nat /\ MaxRestarts \in Nat /\ MaxLostAcks \in Nat
    /\ \A p \in Partitions : LogLen[p] \in Nat
OBVIOUS

LEMMA MsgsAreOffsets ==
    /\ \A p \in Partitions : \A n \in 1..LogLen[p] : <<p, n>> \in Msgs
    /\ \A m \in Msgs : \E p \in Partitions : \E n \in 1..LogLen[p] : m = <<p, n>>
BY DEF Msgs

(* The elements of a sequence, and how a channel's operations change them. *)
LEMMA ToSetEmpty == ToSet(<<>>) = {}
BY DEF ToSet

LEMMA ToSetIndex ==
    ASSUME NEW S, NEW s \in Seq(S)
    PROVE  ToSet(s) = {s[i] : i \in 1..Len(s)} /\ ToSet(s) \subseteq S
BY LenProperties DEF ToSet

LEMMA ToSetAppend ==
    ASSUME NEW S, NEW s \in Seq(S), NEW e \in S
    PROVE  ToSet(Append(s, e)) = ToSet(s) \cup {e}
<1>1. /\ Append(s, e) \in Seq(S) /\ Len(Append(s, e)) = Len(s) + 1 /\ Len(s) \in Nat
      /\ \A i \in 1..Len(s) : Append(s, e)[i] = s[i]
      /\ Append(s, e)[Len(s) + 1] = e
    BY AppendProperties, LenProperties
<1>2. \A i \in 1..Len(Append(s, e)) : i \in 1..Len(s) \/ i = Len(s) + 1
    BY <1>1
<1>3. \A i \in 1..Len(s) : i \in 1..Len(Append(s, e))
    BY <1>1
<1>4. Len(s) + 1 \in 1..Len(Append(s, e))
    BY <1>1
<1>5. ToSet(Append(s, e)) = {Append(s, e)[i] : i \in 1..Len(Append(s, e))}
    BY <1>1, ToSetIndex
<1>6. ToSet(s) = {s[i] : i \in 1..Len(s)}
    BY ToSetIndex
<1>7. ToSet(Append(s, e)) \subseteq ToSet(s) \cup {e}
    BY <1>1, <1>2, <1>5, <1>6
<1>8. ToSet(s) \cup {e} \subseteq ToSet(Append(s, e))
    BY <1>1, <1>3, <1>4, <1>5, <1>6
<1> QED
    BY <1>7, <1>8

LEMMA ToSetHeadTail ==
    ASSUME NEW S, NEW s \in Seq(S), s # <<>>
    PROVE  ToSet(s) = {Head(s)} \cup ToSet(Tail(s))
<1>1. /\ Tail(s) \in Seq(S) /\ Len(Tail(s)) = Len(s) - 1 /\ Len(s) \in Nat \ {0}
      /\ \A i \in 1..Len(Tail(s)) : Tail(s)[i] = s[i + 1]
      /\ Head(s) = s[1]
    BY HeadTailProperties, EmptySeq
<1>2. ToSet(Tail(s)) = {Tail(s)[i] : i \in 1..Len(Tail(s))}
    BY <1>1, ToSetIndex
<1>3. ToSet(s) = {s[i] : i \in 1..Len(s)}
    BY ToSetIndex
<1>4. \A i \in 1..Len(Tail(s)) : i + 1 \in 1..Len(s)
    BY <1>1
<1>5. \A i \in 1..Len(s) : i = 1 \/ (i - 1 \in 1..Len(Tail(s)) /\ Tail(s)[i - 1] = s[i])
    BY <1>1
<1>6. {Head(s)} \cup ToSet(Tail(s)) \subseteq ToSet(s)
  <2>1. 1 \in 1..Len(s)
      BY <1>1
  <2> QED
      BY <1>1, <1>2, <1>3, <1>4, <2>1
<1>7. ToSet(s) \subseteq {Head(s)} \cup ToSet(Tail(s))
  <2> SUFFICES ASSUME NEW i \in 1..Len(s), i # 1 PROVE s[i] \in ToSet(Tail(s))
      BY <1>1, <1>3
  <2> QED
      BY <1>2, <1>5
<1> QED
    BY <1>6, <1>7

(* A sequence has no more elements than positions. *)
LEMMA ToSetCardinality ==
    ASSUME NEW S, NEW s \in Seq(S)
    PROVE  IsFiniteSet(ToSet(s)) /\ Cardinality(ToSet(s)) <= Len(s)
<1>1. Len(s) \in Nat /\ s \in [1..Len(s) -> S]
    BY LenProperties
<1>2. s \in Surjection(1..Len(s), ToSet(s))
    BY <1>1, ToSetIndex DEF Surjection
<1>3. ExistsSurjection(1..Len(s), ToSet(s))
    BY <1>2 DEF ExistsSurjection
<1> QED
    BY <1>1, <1>3, FS_NatSurjection, FS_SurjCardinalityBound

----------------------------------------------------------------------------
(* Types, and where the goroutines are. *)

LEMMA OffsetsExcept ==
    ASSUME NEW f \in Offsets, NEW p \in Partitions, NEW n \in 1..(LogLen[p] + 1)
    PROVE  [f EXCEPT ![p] = n] \in Offsets
BY Sizes DEF Offsets

LEMMA OffsetsAre ==
    ASSUME NEW f \in Offsets
    PROVE  f \in [Partitions -> Nat] /\ \A p \in Partitions : f[p] \in 1..(LogLen[p] + 1)
BY DEF Offsets

LEMMA TypeParts ==
    TypeOK <=>
    /\ proc \in {"running", "exited", "down"}
    /\ stopping \in BOOLEAN
    /\ session \in {"idle", "active", "cleanup"}
    /\ ctxDone \in BOOLEAN
    /\ claim \in [Partitions -> {"off", "select", "push", "mark"}]
    /\ next \in Offsets /\ marked \in Offsets /\ committed \in Offsets /\ first \in Offsets
    /\ msgChan \in Seq(Msgs) /\ Len(msgChan) <= ChannelBufferSize
    /\ chanOpen \in BOOLEAN
    /\ worker \in {"off", "select", "insert", "backoff"}
    /\ buffer \in Seq(Msgs) /\ Len(buffer) <= BatchSize
    /\ attempt \in 0..MaxDBRetries
    /\ flush \in [watchCtx : BOOLEAN, last : BOOLEAN]
    /\ table \in SUBSET Msgs
    /\ dropped \in SUBSET Msgs
    /\ sessions \in 0..MaxSessions
    /\ restarts \in 0..MaxRestarts
    /\ lostAcks \in 0..MaxLostAcks
BY DEF TypeOK

LEMMA OffsetFacts ==
    ASSUME TypeOK
    PROVE  /\ next \in [Partitions -> Nat] /\ marked \in [Partitions -> Nat]
           /\ committed \in [Partitions -> Nat] /\ first \in [Partitions -> Nat]
           /\ claim \in [Partitions -> {"off", "select", "push", "mark"}]
           /\ \A p \in Partitions : /\ LogLen[p] \in Nat
                                    /\ next[p] \in 1..(LogLen[p] + 1)
                                    /\ committed[p] \in Nat /\ marked[p] \in Nat
                                    /\ first[p] \in 1..(LogLen[p] + 1)
BY Sizes, OffsetsAre, TypeParts

(* A process that starts, or is gone, has nothing in memory. *)
LEMMA FreshIsTyped ==
    ASSUME TypeOK, Fresh, next' = committed, marked' = committed, committed' = committed,
           first' \in {first, committed}, proc' \in {"running", "down"},
           table' \in {table, {}}, dropped' \in {dropped, {}},
           restarts' \in 0..MaxRestarts, lostAcks' = lostAcks
    PROVE  TypeOK' /\ Shape'
<1>1. /\ session' = "idle" /\ worker' = "off" /\ buffer' = <<>> /\ msgChan' = <<>>
      /\ claim' = [p \in Partitions |-> "off"] /\ attempt' = 0 /\ sessions' = 0
      /\ stopping' = FALSE /\ ctxDone' = FALSE /\ chanOpen' = TRUE /\ flush' = NoFlush
    BY DEF Fresh
<1>2. committed \in Offsets /\ first \in Offsets
    BY TypeParts
<1>3. flush' \in [watchCtx : BOOLEAN, last : BOOLEAN]
    BY <1>1 DEF NoFlush
<1>4. /\ msgChan' \in Seq(Msgs) /\ Len(msgChan') <= ChannelBufferSize
      /\ buffer' \in Seq(Msgs) /\ Len(buffer') <= BatchSize
    BY <1>1, Sizes
<1>5. 0 \in 0..MaxDBRetries /\ 0 \in 0..MaxSessions
    BY Sizes
<1>6. /\ next' \in Offsets /\ marked' \in Offsets /\ committed' \in Offsets /\ first' \in Offsets
      /\ table' \in SUBSET Msgs /\ dropped' \in SUBSET Msgs /\ lostAcks' \in 0..MaxLostAcks
    BY <1>2, TypeParts
<1>7. TypeOK'
    BY <1>1, <1>3, <1>4, <1>5, <1>6 DEF TypeOK
<1>8. Shape'
    BY <1>1, <1>2 DEF Shape, AllClaimsReturned, Offsets
<1> QED
    BY <1>7, <1>8

LEMMA DieIsTyped == TypeOK /\ Die => TypeOK' /\ Shape'
<1> SUFFICES ASSUME TypeOK, Die PROVE TypeOK' /\ Shape'
    OBVIOUS
<1>1. restarts \in 0..MaxRestarts
    BY TypeParts
<1> QED
    BY <1>1, FreshIsTyped DEF Die, groupVars, dbVars

(* main, and what happens to it from outside. *)
LEMMA MainTyped ==
    ASSUME TypeOK, Shape, MainStep \/ Environment
    PROVE  TypeOK' /\ Shape'
<1> USE DEF groupVars, sessionVars, chanVars, workerVars, dbVars, mainVars
<1>1. CASE StartSession
  <2>1. sessions' \in 0..MaxSessions
      BY <1>1, Sizes DEF StartSession, TypeOK
  <2>2. claim' \in [Partitions -> {"off", "select", "push", "mark"}]
      BY <1>1 DEF StartSession
  <2>3. TypeOK'
      BY <1>1, <2>1, <2>2 DEF StartSession, TypeOK
  <2>4. Len(buffer) = 0
      BY <1>1, EmptySeq DEF StartSession, Shape
  <2>5. Shape'
      BY <1>1, <2>4, Sizes DEF StartSession, Shape, TypeOK
  <2> QED
      BY <2>3, <2>5
<1>2. CASE CleanupClose
    BY <1>2 DEF CleanupClose, TypeOK, Shape, AllClaimsReturned
<1>3. CASE CleanupPanic
    BY <1>3, DieIsTyped DEF CleanupPanic
<1>4. CASE CleanupDone
  <2>1. TypeOK'
      BY <1>4 DEF CleanupDone, TypeOK
  <2>2. Shape'
    <3>1. /\ UNCHANGED <<worker, buffer, claim, next, marked>>
          /\ committed' = marked /\ session = "cleanup" /\ worker = "off"
        BY <1>4 DEF CleanupDone, WorkerDone
    <3>2. \A p \in Partitions : marked[p] <= marked[p]
        BY OffsetFacts
    <3> QED
        BY <3>1, <3>2 DEF Shape, AllClaimsReturned
  <2> QED
      BY <2>1, <2>2
<1>5. CASE Exit
    BY <1>5 DEF Exit, TypeOK, Shape, AllClaimsReturned
<1>6. CASE Signal
    BY <1>6 DEF Signal, TypeOK, Shape, AllClaimsReturned
<1>7. CASE Rebalance
  <2>1. TypeOK'
      BY <1>7 DEF Rebalance, TypeOK
  <2>2. Shape'
      BY <1>7 DEF Rebalance, Shape, AllClaimsReturned
  <2> QED
      BY <2>1, <2>2
<1>8. CASE AutoCommit
  <2>1. TypeOK'
      BY <1>8 DEF AutoCommit, TypeOK
  <2>2. Shape'
    <3>1. /\ UNCHANGED <<worker, buffer, session, claim, next, marked>>
          /\ committed' = marked /\ session = "active"
        BY <1>8 DEF AutoCommit
    <3>2. \A p \in Partitions : marked[p] <= marked[p]
        BY OffsetFacts
    <3> QED
        BY <3>1, <3>2 DEF Shape
  <2> QED
      BY <2>1, <2>2
<1>9. CASE Crash
    BY <1>9, DieIsTyped DEF Crash
<1>10. CASE Restart
  <2>1. restarts' \in 0..MaxRestarts
      BY <1>10, Sizes DEF Restart, TypeOK
  <2> QED
      BY <1>10, <2>1, FreshIsTyped DEF Restart
<1> QED
    BY <1>1, <1>2, <1>3, <1>4, <1>5, <1>6, <1>7, <1>8, <1>9, <1>10 DEF MainStep, Environment

(* ConsumeClaim: an offset in hand is one of the log. *)
LEMMA ClaimTyped ==
    ASSUME TypeOK, Shape, NEW p \in Partitions, ClaimStep(p)
    PROVE  TypeOK' /\ Shape'
<1>0. LogLen[p] \in Nat /\ next[p] \in 1..(LogLen[p] + 1)
    BY OffsetFacts
<1> USE DEF claimEnv, groupVars, workerVars, dbVars, mainVars
<1>1. CASE ClaimReceive(p)
  <2>1. next[p] <= LogLen[p] /\ claim[p] = "select" /\ session = "active"
      BY <1>1 DEF ClaimReceive, Shape, AllClaimsReturned
  <2>2. next[p] + 1 \in 1..(LogLen[p] + 1) /\ next[p] + 1 \in Nat
      BY <1>0, <2>1
  <2>3. \/ /\ next' = [next EXCEPT ![p] = @ + 1] /\ marked' = [marked EXCEPT ![p] = next[p] + 1]
           /\ claim' = claim
        \/ /\ next' = next /\ marked' = [marked EXCEPT ![p] = marked[p]]
           /\ claim' = [claim EXCEPT ![p] = "push"]
      BY <1>1 DEF ClaimReceive, ReceiveMark
  <2>4. next' \in Offsets /\ marked' \in Offsets /\ marked' = next'
    <3>1. next \in Offsets /\ marked = next
        BY DEF Shape, TypeOK
    <3>2. [next EXCEPT ![p] = next[p] + 1] \in Offsets /\ [next EXCEPT ![p] = next[p]] = next
        BY <2>2, <3>1, OffsetsExcept, OffsetsAre
    <3> QED
        BY <2>3, <3>1, <3>2
  <2>5. TypeOK'
      BY <1>1, <2>3, <2>4 DEF ClaimReceive, TypeOK
  <2>6. Shape'
    <3>1. /\ UNCHANGED <<worker, buffer, session, committed>>
        BY <1>1 DEF ClaimReceive
    <3>2. \A q \in Partitions : claim'[q] \in {"push", "mark"} => next'[q] <= LogLen[q]
        BY <2>1, <2>3, OffsetFacts DEF Shape
    <3>3. \A q \in Partitions : committed[q] <= marked'[q]
      <4> TAKE q \in Partitions
      <4>1. marked'[q] = marked[q] \/ (q = p /\ marked'[q] = next[q] + 1)
          BY <2>3, OffsetFacts
      <4>2. committed[q] <= next[q] /\ marked[q] = next[q] /\ committed[q] \in Nat /\ next[q] \in Nat
          BY OffsetFacts DEF Shape
      <4> QED
          BY <4>1, <4>2
    <3> QED
        BY <2>1, <2>4, <3>1, <3>2, <3>3 DEF Shape
  <2> QED
      BY <2>5, <2>6
<1>2. CASE ClaimPush(p)
  <2>1. next[p] <= LogLen[p] /\ session = "active"
      BY <1>2 DEF ClaimPush, Shape, AllClaimsReturned
  <2>2. <<p, next[p]>> \in Msgs
      BY <1>0, <2>1, MsgsAreOffsets
  <2>3. msgChan' \in Seq(Msgs) /\ Len(msgChan') <= ChannelBufferSize
      BY <1>2, <2>2, Sizes, AppendProperties, LenProperties DEF ClaimPush, ChanHasRoom, TypeOK
  <2>4. TypeOK'
      BY <1>2, <2>3 DEF ClaimPush, TypeOK
  <2>5. Shape'
      BY <1>2, <2>1 DEF ClaimPush, Shape, TypeOK
  <2> QED
      BY <2>4, <2>5
<1>3. CASE ClaimPanic(p)
    BY <1>3, DieIsTyped DEF ClaimPanic
<1>4. CASE ClaimMark(p)
  <2>1. next[p] <= LogLen[p] /\ session = "active"
      BY <1>4 DEF ClaimMark, Shape, AllClaimsReturned
  <2>2. next[p] + 1 \in 1..(LogLen[p] + 1) /\ next[p] + 1 \in Nat
      BY <1>0, <2>1
  <2>3. /\ next' = [next EXCEPT ![p] = next[p] + 1] /\ marked' = next'
        /\ claim' = [claim EXCEPT ![p] = "select"]
      BY <1>4 DEF ClaimMark, Shape
  <2>4. TypeOK'
    <3>1. next \in Offsets
        BY TypeParts
    <3>2. next' \in Offsets
        BY <2>2, <2>3, <3>1, OffsetsExcept
    <3>3. claim' \in [Partitions -> {"off", "select", "push", "mark"}]
        BY <2>3, OffsetFacts
    <3>4. marked' \in Offsets
        BY <2>3, <3>2
    <3>5. UNCHANGED <<claimEnv, msgChan>>
        BY <1>4 DEF ClaimMark
    <3> QED
        BY <3>2, <3>3, <3>4, <3>5 DEF TypeOK
  <2>5. Shape'
    <3>1. /\ UNCHANGED <<worker, buffer, session, committed>>
        BY <1>4 DEF ClaimMark
    <3>2. \A q \in Partitions : claim'[q] \in {"push", "mark"} => next'[q] <= LogLen[q]
        BY <2>3, OffsetFacts DEF Shape
    <3>3. \A q \in Partitions : committed[q] <= marked'[q]
      <4> TAKE q \in Partitions
      <4>1. marked'[q] = next[q] \/ (q = p /\ marked'[q] = next[q] + 1)
          BY <2>3, OffsetFacts
      <4>2. committed[q] <= next[q] /\ committed[q] \in Nat /\ next[q] \in Nat
          BY OffsetFacts DEF Shape
      <4> QED
          BY <4>1, <4>2
    <3> QED
        BY <2>1, <2>3, <3>1, <3>2, <3>3 DEF Shape
  <2> QED
      BY <2>4, <2>5
<1>5. CASE ClaimReturn(p)
  <2>1. TypeOK'
      BY <1>5 DEF ClaimReturn, TypeOK
  <2>2. Shape'
      BY <1>5 DEF ClaimReturn, Shape, TypeOK, AllClaimsReturned
  <2> QED
      BY <2>1, <2>2
<1> QED
    BY <1>1, <1>2, <1>3, <1>4, <1>5 DEF ClaimStep

(* The worker: a batch that is being filled is not full, and one that is    *)
(* gone is empty.                                                           *)
LEMMA WorkerStepTyped ==
    ASSUME TypeOK, Shape, worker # "off", UNCHANGED workerEnv,
           worker' \in {"off", "select", "insert", "backoff"},
           msgChan' \in Seq(Msgs), Len(msgChan') <= ChannelBufferSize,
           buffer' \in Seq(Msgs), Len(buffer') <= BatchSize,
           attempt' \in 0..MaxDBRetries, flush' \in [watchCtx : BOOLEAN, last : BOOLEAN],
           table' \in SUBSET Msgs, dropped' \in SUBSET Msgs, lostAcks' \in 0..MaxLostAcks,
           worker' = "off" => buffer' = <<>>,
           worker' = "select" => Len(buffer') < BatchSize
    PROVE  TypeOK' /\ Shape'
<1> USE DEF workerEnv, groupVars, sessionVars, mainVars
<1>1. TypeOK'
    BY DEF TypeOK
<1>2. Shape'
  <2>1. session # "idle"
      BY DEF Shape
  <2> QED
      BY <2>1 DEF Shape, AllClaimsReturned
<1> QED
    BY <1>1, <1>2

LEMMA WorkerFacts ==
    ASSUME TypeOK
    PROVE  /\ msgChan \in Seq(Msgs) /\ Len(msgChan) <= ChannelBufferSize
           /\ buffer \in Seq(Msgs) /\ Len(buffer) <= BatchSize
           /\ ToSet(buffer) \subseteq Msgs /\ ToSet(msgChan) \subseteq Msgs
           /\ table \in SUBSET Msgs /\ dropped \in SUBSET Msgs
           /\ lostAcks \in 0..MaxLostAcks
           /\ attempt \in 0..MaxDBRetries /\ flush \in [watchCtx : BOOLEAN, last : BOOLEAN]
           /\ <<>> \in Seq(Msgs) /\ Len(<<>>) = 0
           /\ NoFlush \in [watchCtx : BOOLEAN, last : BOOLEAN]
           /\ 0 \in 0..MaxDBRetries /\ 1 \in 0..MaxDBRetries /\ 0 < BatchSize /\ 0 <= BatchSize
<1>1. msgChan \in Seq(Msgs) /\ buffer \in Seq(Msgs)
    BY TypeParts
<1>2. ToSet(buffer) \subseteq Msgs /\ ToSet(msgChan) \subseteq Msgs
    BY <1>1, ToSetIndex
<1>3. <<>> \in Seq(Msgs) /\ Len(<<>>) = 0
    OBVIOUS
<1>4. 0 \in 0..MaxDBRetries /\ 1 \in 0..MaxDBRetries /\ 0 < BatchSize /\ 0 <= BatchSize
    BY Sizes
<1>5. NoFlush \in [watchCtx : BOOLEAN, last : BOOLEAN]
    BY DEF NoFlush
<1> QED
    BY <1>1, <1>2, <1>3, <1>4, <1>5, TypeParts

(* What is received from the channel is a message. *)
LEMMA ReceiveTyped ==
    ASSUME TypeOK, msgChan # <<>>
    PROVE  /\ Head(msgChan) \in Msgs /\ Tail(msgChan) \in Seq(Msgs)
           /\ Len(Tail(msgChan)) = Len(msgChan) - 1 /\ Len(msgChan) \in Nat \ {0}
           /\ \A i \in 1..Len(Tail(msgChan)) : Tail(msgChan)[i] = msgChan[i + 1]
           /\ Head(msgChan) = msgChan[1]
           /\ Append(buffer, Head(msgChan)) \in Seq(Msgs)
           /\ Len(Append(buffer, Head(msgChan))) = Len(buffer) + 1
           /\ Len(buffer) \in Nat
<1>1. msgChan \in Seq(Msgs) /\ buffer \in Seq(Msgs)
    BY WorkerFacts
<1>2. /\ Head(msgChan) \in Msgs /\ Tail(msgChan) \in Seq(Msgs)
      /\ Len(Tail(msgChan)) = Len(msgChan) - 1 /\ Len(msgChan) \in Nat \ {0}
      /\ \A i \in 1..Len(Tail(msgChan)) : Tail(msgChan)[i] = msgChan[i + 1]
      /\ Head(msgChan) = msgChan[1]
    BY <1>1, HeadTailProperties, EmptySeq
<1> QED
    BY <1>1, <1>2, AppendProperties, LenProperties

LEMMA WorkerTyped ==
    ASSUME TypeOK, Shape, WorkerStep
    PROVE  TypeOK' /\ Shape'
<1> USE DEF dbVars
<1>1. CASE WorkerReceive
  <2>1. /\ msgChan # <<>> /\ msgChan' = Tail(msgChan) /\ buffer' = Append(buffer, Head(msgChan))
        /\ UNCHANGED <<workerEnv, table, dropped, lostAcks>>
        /\ worker = "select"
      BY <1>1 DEF WorkerReceive, Buffered
  <2>2. \/ /\ Len(buffer') >= BatchSize
           /\ worker' = "insert" /\ attempt' = 1 /\ flush' = [watchCtx |-> TRUE, last |-> FALSE]
        \/ ~(Len(buffer') >= BatchSize) /\ UNCHANGED <<worker, attempt, flush>>
      BY <1>1 DEF WorkerReceive, BeginFlush
  <2>3. /\ msgChan' \in Seq(Msgs) /\ Len(msgChan') = Len(msgChan) - 1 /\ Len(msgChan) \in Nat
        /\ buffer' \in Seq(Msgs) /\ Len(buffer') = Len(buffer) + 1 /\ Len(buffer) \in Nat
      BY <2>1, ReceiveTyped
  <2>4. Len(buffer) < BatchSize
      BY <2>1 DEF Shape
  <2>5. Len(msgChan') <= ChannelBufferSize /\ Len(buffer') <= BatchSize
      BY <2>3, <2>4, Sizes, WorkerFacts
  <2>6. ~(Len(buffer') >= BatchSize) => Len(buffer') < BatchSize
      BY <2>3, Sizes
  <2>7. flush' \in [watchCtx : BOOLEAN, last : BOOLEAN] /\ attempt' \in 0..MaxDBRetries
        /\ worker' \in {"select", "insert"}
    <3>1. [watchCtx |-> TRUE, last |-> FALSE] \in [watchCtx : BOOLEAN, last : BOOLEAN]
        OBVIOUS
    <3> QED
        BY <2>1, <2>2, <3>1, WorkerFacts
  <2>8. worker' = "select" => Len(buffer') < BatchSize
      BY <2>2, <2>6
  <2> QED
      BY <2>1, <2>3, <2>5, <2>7, <2>8, WorkerFacts, WorkerStepTyped
<1>2. CASE WorkerClosed \/ WorkerTick \/ WorkerCtxDone
  <2>1. /\ UNCHANGED <<workerEnv, msgChan, table, dropped, lostAcks>> /\ worker = "select"
        /\ \/ worker' = "off" /\ buffer' = <<>> /\ UNCHANGED <<attempt, flush>>
           \/ /\ worker' = "insert" /\ buffer' = buffer /\ attempt' = 1
              /\ flush' \in [watchCtx : BOOLEAN, last : BOOLEAN]
    <3>1. \A c, l \in BOOLEAN :
             [watchCtx |-> c, last |-> l] \in [watchCtx : BOOLEAN, last : BOOLEAN]
        OBVIOUS
    <3>2. CASE WorkerClosed
        BY <3>1, <3>2 DEF WorkerClosed, WorkerReturns, BeginFlush
    <3>3. CASE WorkerTick
        BY <3>1, <3>3 DEF WorkerTick, BeginFlush
    <3>4. CASE WorkerCtxDone
        BY <3>1, <3>4 DEF WorkerCtxDone, WorkerReturns, BeginFlush
    <3> QED
        BY <1>2, <3>2, <3>3, <3>4
  <2> QED
      BY <2>1, WorkerFacts, WorkerStepTyped
<1>3. CASE InsertOK
  <2>1. /\ UNCHANGED <<workerEnv, msgChan, dropped, lostAcks>> /\ worker = "insert"
        /\ buffer' = <<>> /\ attempt' = 0 /\ flush' = NoFlush /\ worker' \in {"off", "select"}
        /\ table' = table \cup ToSet(buffer)
      BY <1>3 DEF InsertOK, EndFlush, AfterFlush, Insert
  <2> QED
      BY <2>1, WorkerFacts, WorkerStepTyped
<1>4. CASE InsertFail
    BY <1>4, WorkerFacts, WorkerStepTyped DEF InsertFail
<1>5. CASE InsertAckLost
  <2>1. lostAcks' \in 0..MaxLostAcks
      BY <1>5, Sizes, WorkerFacts DEF InsertAckLost
  <2> QED
      BY <1>5, <2>1, WorkerFacts, WorkerStepTyped DEF InsertAckLost, Insert
<1>6. CASE BackoffElapsed \/ BackoffCancelled
  <2>1. CASE worker' = "insert" /\ attempt' = attempt + 1 /\ attempt < MaxDBRetries
             /\ UNCHANGED <<buffer, flush, dropped>>
    <3>1. attempt' \in 0..MaxDBRetries
        BY <2>1, Sizes, WorkerFacts
    <3> QED
        BY <1>6, <2>1, <3>1, WorkerFacts, WorkerStepTyped DEF BackoffElapsed, BackoffCancelled
  <2>2. CASE Drop /\ EndFlush
    <3>1. /\ UNCHANGED <<workerEnv, msgChan, table, lostAcks>> /\ worker = "backoff"
          /\ buffer' = <<>> /\ attempt' = 0 /\ flush' = NoFlush /\ worker' \in {"off", "select"}
          /\ dropped' = dropped \cup ToSet(buffer)
        BY <1>6, <2>2 DEF BackoffElapsed, BackoffCancelled, Drop, EndFlush, AfterFlush
    <3> QED
        BY <3>1, WorkerFacts, WorkerStepTyped
  <2> QED
      BY <1>6, <2>1, <2>2 DEF BackoffElapsed, BackoffCancelled
<1> QED
    BY <1>1, <1>2, <1>3, <1>4, <1>5, <1>6 DEF WorkerStep, FlushStep

LEMMA TypeInit == Init => TypeOK /\ Shape
<1> SUFFICES ASSUME Init PROVE TypeOK /\ Shape
    OBVIOUS
<1>1. next \in Offsets
    BY Sizes DEF Init, Offsets
<1>2. 0 \in 0..MaxDBRetries /\ 0 \in 0..MaxSessions /\ 0 \in 0..MaxRestarts /\ 0 \in 0..MaxLostAcks
    BY Sizes
<1>3. NoFlush \in [watchCtx : BOOLEAN, last : BOOLEAN]
    BY DEF NoFlush
<1>4. /\ msgChan \in Seq(Msgs) /\ Len(msgChan) <= ChannelBufferSize
      /\ buffer \in Seq(Msgs) /\ Len(buffer) <= BatchSize
    BY Sizes DEF Init
<1>5. TypeOK
    BY <1>1, <1>2, <1>3, <1>4 DEF Init, TypeOK
<1>6. Shape
    BY <1>5, OffsetFacts DEF Init, Shape, AllClaimsReturned
<1> QED
    BY <1>5, <1>6

LEMMA TypeStep ==
    ASSUME TypeOK, Shape, [Next]_vars
    PROVE  TypeOK' /\ Shape'
<1>1. CASE UNCHANGED vars
  <2> USE <1>1 DEF vars, groupVars, sessionVars, chanVars, workerVars, dbVars, mainVars
  <2>1. TypeOK'
      BY DEF TypeOK
  <2>2. Shape'
      BY DEF Shape, AllClaimsReturned
  <2> QED
      BY <2>1, <2>2
<1> QED
    BY <1>1, MainTyped, ClaimTyped, WorkerTyped DEF Next

----------------------------------------------------------------------------
(* What a step of a running process does to the messages it holds. *)

AheadKept == \A q \in Partitions : Ahead(q)' = Ahead(q)

AheadMoves(p) ==
    /\ Ahead(p) \in 1..LogLen[p] /\ Ahead(p)' = Ahead(p) + 1
    /\ \A q \in Partitions : q # p => Ahead(q)' = Ahead(q)

Stays == AheadKept /\ UNCHANGED <<msgChan, buffer, dbVars>>

Skips(p) ==
    /\ AheadMoves(p) /\ Kind[<<p, Ahead(p)>>] = "bad"
    /\ UNCHANGED <<msgChan, buffer, dbVars>>

Pushes(p) ==
    /\ AheadMoves(p) /\ msgChan' = Append(msgChan, <<p, Ahead(p)>>)
    /\ UNCHANGED <<buffer, dbVars>>

Receives ==
    /\ AheadKept /\ msgChan # <<>>
    /\ msgChan' = Tail(msgChan) /\ buffer' = Append(buffer, Head(msgChan))
    /\ UNCHANGED dbVars

Saves ==
    /\ AheadKept /\ table' = table \cup ToSet(buffer) /\ buffer' = <<>>
    /\ UNCHANGED <<msgChan, dropped, lostAcks>>

GivesUp ==
    /\ AheadKept /\ dropped' = dropped \cup ToSet(buffer) /\ buffer' = <<>>
    /\ UNCHANGED <<msgChan, table, lostAcks>>

LosesAck ==
    /\ AheadKept /\ table' = table \cup ToSet(buffer) /\ lostAcks' = lostAcks + 1
    /\ UNCHANGED <<msgChan, buffer, dropped>>

DataStep ==
    /\ first' = first
    /\ \/ Stays \/ Receives \/ Saves \/ GivesUp \/ LosesAck
       \/ \E p \in Partitions : Skips(p) \/ Pushes(p)

LEMMA MainData ==
    ASSUME TypeOK, Shape, Up, Up', MainStep \/ Environment
    PROVE  first' = first /\ Stays
<1> USE DEF groupVars, sessionVars, chanVars, workerVars, dbVars, mainVars
<1>1. CASE StartSession
  <2>1. next' = next /\ session = "idle"
      BY <1>1 DEF StartSession, Shape
  <2>2. \A q \in Partitions : claim[q] = "off" /\ claim'[q] = "select"
      BY <1>1, <2>1 DEF StartSession, Shape, AllClaimsReturned
  <2>3. AheadKept
      BY <2>1, <2>2 DEF AheadKept, Ahead
  <2>4. UNCHANGED <<msgChan, buffer, dbVars, first>>
    <3>1. buffer' = buffer
        BY <1>1 DEF StartSession, Shape
    <3> QED
        BY <1>1, <3>1 DEF StartSession
  <2> QED
      BY <2>3, <2>4 DEF Stays
<1>2. CASE CleanupClose \/ CleanupDone \/ Exit \/ Signal \/ Rebalance \/ AutoCommit
  <2>1. UNCHANGED <<first, claim, next, msgChan, buffer, dbVars>>
      BY <1>2 DEF CleanupClose, CleanupDone, Exit, Signal, Rebalance, AutoCommit
  <2> QED
      BY <2>1 DEF Stays, AheadKept, Ahead
<1>3. CASE CleanupPanic \/ Crash
    BY <1>3 DEF CleanupPanic, Crash, Die, Up
<1>4. CASE Restart
    BY <1>4 DEF Restart
<1> QED
    BY <1>1, <1>2, <1>3, <1>4 DEF MainStep, Environment

LEMMA ClaimData ==
    ASSUME TypeOK, Shape, Up, Up', NEW p \in Partitions, ClaimStep(p)
    PROVE  first' = first /\ (Stays \/ Skips(p) \/ Pushes(p))
<1>0. /\ LogLen[p] \in Nat /\ next[p] \in 1..(LogLen[p] + 1)
      /\ next \in [Partitions -> Nat]
      /\ claim \in [Partitions -> {"off", "select", "push", "mark"}]
    BY OffsetFacts
<1> USE DEF claimEnv, groupVars, workerVars
<1>1. CASE ClaimReceive(p)
  <2>1. UNCHANGED <<first, msgChan, buffer, dbVars>> /\ claim[p] = "select" /\ next[p] <= LogLen[p]
      BY <1>1 DEF ClaimReceive
  <2>2. CASE ParseError(p)
    <3>1. next' = [next EXCEPT ![p] = @ + 1] /\ claim' = claim
        BY <1>1, <2>2 DEF ClaimReceive
    <3>2. Ahead(p) = next[p] /\ Ahead(p)' = next[p] + 1
        BY <1>0, <2>1, <3>1 DEF Ahead
    <3>3. \A q \in Partitions : q # p => Ahead(q)' = Ahead(q)
        BY <1>0, <3>1 DEF Ahead
    <3>4. Kind[<<p, next[p]>>] = "bad"
        BY <2>2 DEF ParseError
    <3>5. next[p] \in 1..LogLen[p]
        BY <1>0, <2>1
    <3> QED
        BY <2>1, <3>2, <3>3, <3>4, <3>5 DEF Skips, AheadMoves
  <2>3. CASE ~ParseError(p)
    <3>1. claim' = [claim EXCEPT ![p] = "push"] /\ next' = next
        BY <1>1, <2>3 DEF ClaimReceive
    <3>2. AheadKept
        BY <1>0, <2>1, <3>1 DEF AheadKept, Ahead
    <3> QED
        BY <2>1, <3>2 DEF Stays
  <2> QED
      BY <2>2, <2>3
<1>2. CASE ClaimPush(p)
  <2>1. /\ UNCHANGED <<first, buffer, dbVars, next>> /\ claim[p] = "push"
        /\ msgChan' = Append(msgChan, <<p, next[p]>>)
        /\ claim' = [claim EXCEPT ![p] = "mark"]
      BY <1>2 DEF ClaimPush
  <2>2. next[p] \in 1..LogLen[p]
      BY <1>0, <2>1 DEF Shape
  <2>3. Ahead(p) = next[p] /\ Ahead(p)' = next[p] + 1
      BY <1>0, <2>1 DEF Ahead
  <2>4. \A q \in Partitions : q # p => Ahead(q)' = Ahead(q)
      BY <1>0, <2>1 DEF Ahead
  <2> QED
      BY <2>1, <2>2, <2>3, <2>4 DEF Pushes, AheadMoves
<1>3. CASE ClaimPanic(p)
    BY <1>3 DEF ClaimPanic, Die, Up
<1>4. CASE ClaimMark(p)
  <2>1. /\ UNCHANGED <<first, msgChan, buffer, dbVars>> /\ claim[p] = "mark"
        /\ next' = [next EXCEPT ![p] = @ + 1] /\ claim' = [claim EXCEPT ![p] = "select"]
      BY <1>4 DEF ClaimMark
  <2>2. AheadKept
      BY <1>0, <2>1 DEF AheadKept, Ahead
  <2> QED
      BY <2>1, <2>2 DEF Stays
<1>5. CASE ClaimReturn(p)
  <2>1. /\ UNCHANGED <<first, msgChan, buffer, dbVars, next>> /\ claim[p] \in {"select", "push"}
        /\ claim' = [claim EXCEPT ![p] = "off"]
      BY <1>5 DEF ClaimReturn, Cancellable
  <2>2. AheadKept
      BY <1>0, <2>1 DEF AheadKept, Ahead
  <2> QED
      BY <2>1, <2>2 DEF Stays
<1> QED
    BY <1>1, <1>2, <1>3, <1>4, <1>5 DEF ClaimStep

LEMMA WorkerData ==
    ASSUME TypeOK, Shape, WorkerStep
    PROVE  first' = first /\ (Stays \/ Receives \/ Saves \/ GivesUp \/ LosesAck)
<1> USE DEF dbVars
<1>0. WorkerStep => UNCHANGED <<first, next, claim>>
    BY DEF WorkerStep, FlushStep, WorkerReceive, WorkerClosed, WorkerTick, WorkerCtxDone, InsertOK,
           InsertFail, InsertAckLost, BackoffElapsed, BackoffCancelled,
           workerEnv, groupVars, sessionVars
<1>1. AheadKept /\ first' = first
    BY <1>0 DEF AheadKept, Ahead
<1>2. CASE WorkerReceive
    BY <1>1, <1>2 DEF WorkerReceive, Buffered, Receives
<1>3. CASE WorkerClosed \/ WorkerTick \/ WorkerCtxDone
    BY <1>1, <1>3 DEF WorkerClosed, WorkerTick, WorkerCtxDone, WorkerReturns, Stays
<1>4. CASE InsertOK
    BY <1>1, <1>4 DEF InsertOK, Insert, EndFlush, AfterFlush, Saves
<1>5. CASE InsertFail
    BY <1>1, <1>5 DEF InsertFail, Stays
<1>6. CASE InsertAckLost
    BY <1>1, <1>6 DEF InsertAckLost, Insert, LosesAck
<1>7. CASE BackoffElapsed \/ BackoffCancelled
    BY <1>1, <1>7 DEF BackoffElapsed, BackoffCancelled, Drop, EndFlush, AfterFlush, Stays, GivesUp
<1> QED
    BY <1>2, <1>3, <1>4, <1>5, <1>6, <1>7 DEF WorkerStep, FlushStep

LEMMA LiveStep ==
    ASSUME TypeOK, Shape, Up, Up', [Next]_vars
    PROVE  DataStep
<1>1. CASE UNCHANGED vars
    BY <1>1 DEF DataStep, Stays, AheadKept, Ahead, vars, groupVars, sessionVars, chanVars,
                workerVars, dbVars
<1>2. CASE MainStep \/ Environment
    BY <1>2, MainData DEF DataStep
<1>3. ASSUME NEW p \in Partitions, ClaimStep(p) PROVE DataStep
    BY <1>3, ClaimData DEF DataStep
<1>4. CASE WorkerStep
    BY <1>4, WorkerData DEF DataStep
<1> QED
    BY <1>1, <1>2, <1>3, <1>4 DEF Next

----------------------------------------------------------------------------
(* Each kind of step keeps track of the messages. *)

Tracked == Accounted /\ BehindFront /\ OnePlace /\ InOrder /\ SavedOrDropped

LEMMA AheadIsOffset ==
    ASSUME TypeOK, Shape, NEW p \in Partitions
    PROVE  Ahead(p) \in 1..(LogLen[p] + 1) /\ LogLen[p] \in Nat /\ first[p] \in Nat \ {0}
<1>1. /\ LogLen[p] \in Nat /\ next[p] \in 1..(LogLen[p] + 1) /\ first[p] \in 1..(LogLen[p] + 1)
      /\ claim[p] = "mark" => next[p] <= LogLen[p]
    BY OffsetFacts DEF Shape
<1> QED
    BY <1>1 DEF Ahead

LEMMA OrderKept ==
    ASSUME Up, InOrder, UNCHANGED <<first, msgChan, buffer, table, dropped>>
    PROVE  InOrder'
<1>1. TableInOrder' /\ BatchInOrder'
    BY DEF InOrder, TableInOrder, BatchInOrder, Settled, InBuffer
<1>2. ASSUME NEW q \in Partitions, NEW n \in 1..LogLen[q], NEW k \in first'[q]..(n - 1),
             NEW i \in 1..Len(msgChan'), msgChan'[i] = <<q, n>>
      PROVE  \/ Settled(<<q, k>>)' \/ InBuffer(<<q, k>>)'
             \/ \E j \in 1..(i - 1) : msgChan'[j] = <<q, k>>
  <2>1. k \in first[q]..(n - 1) /\ i \in 1..Len(msgChan) /\ msgChan[i] = <<q, n>>
      BY <1>2
  <2>2. \/ Settled(<<q, k>>) \/ InBuffer(<<q, k>>)
        \/ \E j \in 1..(i - 1) : msgChan[j] = <<q, k>>
      BY <2>1 DEF InOrder, ChanInOrder
  <2>3. (Settled(<<q, k>>)' <=> Settled(<<q, k>>)) /\ (InBuffer(<<q, k>>)' <=> InBuffer(<<q, k>>))
      BY DEF Settled, InBuffer
  <2> QED
      BY <2>2, <2>3
<1>3. ChanInOrder'
    BY <1>2 DEF ChanInOrder
<1> QED
    BY <1>1, <1>3 DEF InOrder

LEMMA StaysTracked ==
    ASSUME TypeOK, Shape, Tracked, Up, Up', first' = first, Stays
    PROVE  Tracked'
<1>1. /\ UNCHANGED <<first, msgChan, buffer, table, dropped, lostAcks>>
      /\ \A q \in Partitions : Ahead(q)' = Ahead(q)
    BY DEF Stays, AheadKept, dbVars
<1>2. Accounted'
    BY <1>1 DEF Tracked, Accounted, Settled, InBuffer, InChan
<1>3. BehindFront'
    BY <1>1 DEF Tracked, BehindFront, InBuffer, InChan
<1>4. OnePlace'
    BY <1>1 DEF Tracked, OnePlace, InBuffer
<1>5. InOrder'
    BY <1>1, OrderKept DEF Tracked
<1>6. SavedOrDropped'
    BY <1>1 DEF Tracked, SavedOrDropped
<1> QED
    BY <1>2, <1>3, <1>4, <1>5, <1>6 DEF Tracked

(* A message that parseMessage rejects is no danmaku. *)
LEMMA SkipsTracked ==
    ASSUME TypeOK, Shape, Tracked, Up, Up', first' = first, NEW p \in Partitions, Skips(p)
    PROVE  Tracked'
<1>1. /\ UNCHANGED <<first, msgChan, buffer, table, dropped, lostAcks>>
      /\ Ahead(p) \in 1..LogLen[p] /\ Ahead(p)' = Ahead(p) + 1
      /\ \A q \in Partitions : q # p => Ahead(q)' = Ahead(q)
      /\ Kind[<<p, Ahead(p)>>] = "bad"
    BY DEF Skips, AheadMoves, dbVars
<1>2. Accounted'
  <2> SUFFICES ASSUME NEW q \in Partitions, NEW n \in first[q]..(Ahead(q)' - 1)
               PROVE  Settled(<<q, n>>) \/ InBuffer(<<q, n>>) \/ InChan(<<q, n>>)
      BY <1>1 DEF Accounted, Settled, InBuffer, InChan
  <2>1. CASE q = p /\ n = Ahead(p)
      BY <1>1, <2>1 DEF Settled
  <2>2. CASE ~(q = p /\ n = Ahead(p))
    <3>1. n \in first[q]..(Ahead(q) - 1)
      <4>1. Ahead(q) \in Nat /\ first[q] \in Nat
          BY AheadIsOffset
      <4>2. Ahead(q)' = Ahead(q) \/ (q = p /\ Ahead(q)' = Ahead(q) + 1)
          BY <1>1
      <4> QED
          BY <2>2, <4>1, <4>2
    <3> QED
        BY <3>1 DEF Tracked, Accounted
  <2> QED
      BY <2>1, <2>2
<1>3. BehindFront'
  <2> SUFFICES ASSUME NEW q \in Partitions, NEW n \in 1..LogLen[q],
                      InBuffer(<<q, n>>) \/ InChan(<<q, n>>) \/ <<q, n>> \in table \cup dropped
               PROVE  n < Ahead(q)'
      BY <1>1 DEF BehindFront, InBuffer, InChan
  <2>1. n < Ahead(q)
      BY DEF Tracked, BehindFront
  <2>2. Ahead(q)' = Ahead(q) \/ Ahead(q)' = Ahead(q) + 1
      BY <1>1
  <2> QED
      BY <2>1, <2>2, AheadIsOffset
<1>4. OnePlace'
    BY <1>1 DEF Tracked, OnePlace, InBuffer
<1>5. InOrder'
    BY <1>1, OrderKept DEF Tracked
<1>6. SavedOrDropped'
    BY <1>1 DEF Tracked, SavedOrDropped
<1> QED
    BY <1>2, <1>3, <1>4, <1>5, <1>6 DEF Tracked

(* What is sent is new to this process, and everything before it is         *)
(* accounted for.                                                           *)
LEMMA PushesTracked ==
    ASSUME TypeOK, Shape, Tracked, Up, Up', first' = first, NEW p \in Partitions, Pushes(p)
    PROVE  Tracked'
<1> PICK m : m = <<p, Ahead(p)>>
    OBVIOUS
<1>1. /\ UNCHANGED <<first, buffer, table, dropped, lostAcks>>
      /\ Ahead(p) \in 1..LogLen[p] /\ Ahead(p)' = Ahead(p) + 1
      /\ \A q \in Partitions : q # p => Ahead(q)' = Ahead(q)
      /\ msgChan' = Append(msgChan, m)
    BY DEF Pushes, AheadMoves, dbVars
<1>2. m \in Msgs /\ msgChan \in Seq(Msgs)
    BY <1>1, MsgsAreOffsets, WorkerFacts
<1>3. ToSet(msgChan') = ToSet(msgChan) \cup {m} /\ ToSet(msgChan) = {msgChan[i] : i \in 1..Len(msgChan)}
  <2>1. ToSet(Append(msgChan, m)) = ToSet(msgChan) \cup {m}
      BY <1>2, ToSetAppend
  <2>2. ToSet(msgChan) = {msgChan[i] : i \in 1..Len(msgChan)}
      BY <1>2, ToSetIndex
  <2> QED
      BY <1>1, <2>1, <2>2
<1>4. /\ Len(msgChan) \in Nat /\ Len(msgChan') = Len(msgChan) + 1
      /\ \A i \in 1..Len(msgChan) : msgChan'[i] = msgChan[i]
      /\ msgChan'[Len(msgChan) + 1] = m
    BY <1>1, <1>2, AppendProperties, LenProperties
<1>5. \A i \in 1..Len(msgChan') : i \in 1..Len(msgChan) \/ i = Len(msgChan) + 1
    BY <1>4
<1>6. m \notin ToSet(msgChan) /\ m \notin ToSet(buffer) /\ m \notin table \cup dropped
  <2>1. Ahead(p) \in Nat /\ ~(Ahead(p) < Ahead(p))
      BY <1>1
  <2> QED
      BY <1>1, <2>1 DEF Tracked, BehindFront, InBuffer, InChan
<1>7. Accounted'
  <2> SUFFICES ASSUME NEW q \in Partitions, NEW n \in first[q]..(Ahead(q)' - 1)
               PROVE  Settled(<<q, n>>) \/ InBuffer(<<q, n>>) \/ <<q, n>> \in ToSet(msgChan')
      BY <1>1 DEF Accounted, Settled, InBuffer, InChan
  <2>1. CASE q = p /\ n = Ahead(p)
      BY <1>3, <2>1
  <2>2. CASE ~(q = p /\ n = Ahead(p))
    <3>1. n \in first[q]..(Ahead(q) - 1)
      <4>1. Ahead(q) \in Nat /\ first[q] \in Nat
          BY AheadIsOffset
      <4>2. Ahead(q)' = Ahead(q) \/ (q = p /\ Ahead(q)' = Ahead(q) + 1)
          BY <1>1
      <4> QED
          BY <2>2, <4>1, <4>2
    <3> QED
        BY <1>3, <3>1 DEF Tracked, Accounted, InChan
  <2> QED
      BY <2>1, <2>2
<1>8. BehindFront'
  <2> SUFFICES ASSUME NEW q \in Partitions, NEW n \in 1..LogLen[q],
                      \/ InBuffer(<<q, n>>) \/ <<q, n>> \in table \cup dropped
                      \/ <<q, n>> \in ToSet(msgChan')
               PROVE  n < Ahead(q)'
      BY <1>1 DEF BehindFront, InBuffer, InChan
  <2>1. n < Ahead(q) \/ (q = p /\ n = Ahead(p))
      BY <1>3 DEF Tracked, BehindFront, InChan
  <2>2. Ahead(q)' = Ahead(q) \/ Ahead(q)' = Ahead(q) + 1
      BY <1>1
  <2> QED
      BY <1>1, <2>1, <2>2, AheadIsOffset
<1>9. OnePlace'
  <2>1. \A i, k \in 1..Len(msgChan') : msgChan'[i] = msgChan'[k] => i = k
    <3> TAKE i, k \in 1..Len(msgChan')
    <3>1. \A j \in 1..Len(msgChan) : msgChan[j] # m
        BY <1>3, <1>6
    <3> QED
        BY <1>4, <1>5, <3>1 DEF Tracked, OnePlace
  <2>2. \A i \in 1..Len(msgChan') : msgChan'[i] \notin ToSet(buffer) /\ msgChan'[i] \notin table \cup dropped
      BY <1>4, <1>5, <1>6 DEF Tracked, OnePlace, InBuffer
  <2> QED
      BY <1>1, <2>1, <2>2 DEF Tracked, OnePlace, InBuffer
<1>10. InOrder'
  <2>1. UNCHANGED <<first, buffer, table, dropped>>
      BY <1>1
  <2>2. TableInOrder' /\ BatchInOrder'
      BY <2>1 DEF Tracked, InOrder, TableInOrder, BatchInOrder, Settled, InBuffer
  <2>3. ASSUME NEW q \in Partitions, NEW n \in 1..LogLen[q], NEW k \in first'[q]..(n - 1),
               NEW i \in 1..Len(msgChan'), msgChan'[i] = <<q, n>>
        PROVE  \/ Settled(<<q, k>>)' \/ InBuffer(<<q, k>>)'
               \/ \E j \in 1..(i - 1) : msgChan'[j] = <<q, k>>
    <3>0. /\ k \in first[q]..(n - 1)
          /\ (Settled(<<q, k>>)' <=> Settled(<<q, k>>))
          /\ (InBuffer(<<q, k>>)' <=> InBuffer(<<q, k>>))
        BY <2>1 DEF Settled, InBuffer
    <3>1. CASE i \in 1..Len(msgChan)
      <4>1. msgChan[i] = <<q, n>>
          BY <1>4, <2>3, <3>1
      <4>2. \/ Settled(<<q, k>>) \/ InBuffer(<<q, k>>)
            \/ \E j \in 1..(i - 1) : msgChan[j] = <<q, k>>
        <5>1. ChanInOrder /\ k \in first[q]..(n - 1)
            BY <3>0 DEF Tracked, InOrder
        <5> QED
            BY <3>1, <4>1, <5>1 DEF ChanInOrder
      <4>3. \A j \in 1..(i - 1) : msgChan'[j] = msgChan[j]
        <5> TAKE j \in 1..(i - 1)
        <5>1. Len(msgChan) \in Nat
            BY <1>4
        <5>2. j \in 1..Len(msgChan)
            BY <3>1, <5>1
        <5> QED
            BY <1>4, <5>2
      <4> QED
          BY <3>0, <4>2, <4>3
    <3>2. CASE i = Len(msgChan) + 1
      <4>1. q = p /\ n = Ahead(p)
          BY <1>4, <2>3, <3>2
      <4>2. Settled(<<q, k>>) \/ InBuffer(<<q, k>>) \/ InChan(<<q, k>>)
          BY <3>0, <4>1 DEF Tracked, Accounted
      <4>3. InChan(<<q, k>>) => \E j \in 1..Len(msgChan) : msgChan'[j] = <<q, k>>
          BY <1>3, <1>4 DEF InChan
      <4>4. i - 1 = Len(msgChan)
          BY <1>4, <3>2
      <4> QED
          BY <3>0, <4>2, <4>3, <4>4
    <3> QED
        BY <1>5, <3>1, <3>2
  <2>4. ChanInOrder'
      BY <2>3 DEF ChanInOrder
  <2> QED
      BY <2>2, <2>4 DEF InOrder
<1>11. SavedOrDropped'
    BY <1>1 DEF Tracked, SavedOrDropped
<1> QED
    BY <1>7, <1>8, <1>9, <1>10, <1>11 DEF Tracked

(* The worker takes the oldest message of the channel: what precedes it is  *)
(* in the batch or settled.                                                 *)
LEMMA ReceivesTracked ==
    ASSUME TypeOK, Shape, Tracked, Up, Up', first' = first, Receives
    PROVE  Tracked'
<1> PICK h : h = Head(msgChan)
    OBVIOUS
<1>1. /\ UNCHANGED <<first, table, dropped, lostAcks>>
      /\ \A q \in Partitions : Ahead(q)' = Ahead(q)
      /\ msgChan # <<>> /\ msgChan' = Tail(msgChan) /\ buffer' = Append(buffer, h)
    BY DEF Receives, AheadKept, dbVars
<1>2. /\ h \in Msgs /\ h = msgChan[1] /\ Len(msgChan) \in Nat \ {0}
      /\ Len(msgChan') = Len(msgChan) - 1
      /\ \A i \in 1..Len(msgChan') : msgChan'[i] = msgChan[i + 1]
      /\ msgChan' \in Seq(Msgs)
    BY <1>1, ReceiveTyped
<1>3. /\ ToSet(buffer') = ToSet(buffer) \cup {h}
      /\ ToSet(msgChan) = {h} \cup ToSet(msgChan')
  <2>1. msgChan \in Seq(Msgs) /\ buffer \in Seq(Msgs)
      BY WorkerFacts
  <2>2. ToSet(Append(buffer, h)) = ToSet(buffer) \cup {h}
      BY <1>2, <2>1, ToSetAppend
  <2>3. ToSet(msgChan) = {Head(msgChan)} \cup ToSet(Tail(msgChan))
      BY <1>1, <2>1, ToSetHeadTail
  <2> QED
      BY <1>1, <2>2, <2>3
<1>4. \A i \in 1..Len(msgChan') : i + 1 \in 1..Len(msgChan) /\ i + 1 # 1
    BY <1>2
<1>5. 1 \in 1..Len(msgChan)
    BY <1>2
<1>6. \A m : /\ Settled(m)' <=> Settled(m)
             /\ InBuffer(m)' <=> InBuffer(m) \/ m = h
             /\ InChan(m) <=> m = h \/ InChan(m)'
    BY <1>1, <1>3 DEF Settled, InBuffer, InChan
<1>7. Accounted' /\ BehindFront'
  <2>1. Accounted'
      BY <1>1, <1>6 DEF Tracked, Accounted
  <2>2. BehindFront'
      BY <1>1, <1>6 DEF Tracked, BehindFront
  <2> QED
      BY <2>1, <2>2
<1>8. OnePlace'
  <2>0. OnePlace
      BY DEF Tracked
  <2>1. \A i, k \in 1..Len(msgChan') : msgChan'[i] = msgChan'[k] => i = k
    <3> TAKE i, k \in 1..Len(msgChan')
    <3> HAVE msgChan'[i] = msgChan'[k]
    <3>1. i + 1 \in 1..Len(msgChan) /\ k + 1 \in 1..Len(msgChan) /\ msgChan[i + 1] = msgChan[k + 1]
        BY <1>2, <1>4
    <3>2. i + 1 = k + 1
        BY <2>0, <3>1 DEF OnePlace
    <3> QED
        BY <3>2
  <2>2. \A i \in 1..Len(msgChan') : /\ msgChan'[i] \notin ToSet(buffer')
                                    /\ msgChan'[i] \notin table \cup dropped
    <3> TAKE i \in 1..Len(msgChan')
    <3>1. msgChan'[i] = msgChan[i + 1] /\ i + 1 \in 1..Len(msgChan) /\ i + 1 # 1
        BY <1>2, <1>4
    <3>2. msgChan[i + 1] # h
        BY <1>2, <1>5, <2>0, <3>1 DEF OnePlace
    <3>3. ~InBuffer(msgChan[i + 1]) /\ msgChan[i + 1] \notin table \cup dropped
        BY <2>0, <3>1 DEF OnePlace
    <3> QED
        BY <1>3, <3>1, <3>2, <3>3 DEF InBuffer
  <2>3. h \notin table \cup dropped
      BY <1>2, <1>5, <2>0 DEF OnePlace
  <2>4. ToSet(buffer') \cap dropped = {} /\ (lostAcks = 0 => ToSet(buffer') \cap table = {})
      BY <1>3, <2>0, <2>3 DEF OnePlace
  <2>5. \A i \in 1..Len(msgChan') : /\ msgChan'[i] \notin ToSet(buffer')
                                    /\ msgChan'[i] \notin table' \cup dropped'
      BY <1>1, <2>2
  <2>6. ToSet(buffer') \cap dropped' = {} /\ (lostAcks' = 0 => ToSet(buffer') \cap table' = {})
      BY <1>1, <2>4
  <2> QED
      BY <2>1, <2>5, <2>6 DEF OnePlace, InBuffer
<1>9. InOrder'
  <2>0. TableInOrder /\ BatchInOrder /\ ChanInOrder
      BY DEF Tracked, InOrder
  <2>1. TableInOrder'
      BY <1>1, <1>6, <2>0 DEF TableInOrder
  <2>2. ASSUME NEW q \in Partitions, NEW n \in 1..LogLen[q], NEW k \in first'[q]..(n - 1),
               InBuffer(<<q, n>>)'
        PROVE  Settled(<<q, k>>)' \/ InBuffer(<<q, k>>)'
    <3>1. k \in first[q]..(n - 1)
        BY <1>1
    <3>2. CASE InBuffer(<<q, n>>)
      <4>1. Settled(<<q, k>>) \/ InBuffer(<<q, k>>)
          BY <2>0, <3>1, <3>2 DEF BatchInOrder
      <4> QED
          BY <1>6, <4>1
    <3>3. CASE msgChan[1] = <<q, n>>
      <4>1. \/ Settled(<<q, k>>) \/ InBuffer(<<q, k>>)
            \/ \E j \in 1..(1 - 1) : msgChan[j] = <<q, k>>
          BY <1>5, <2>0, <3>1, <3>3 DEF ChanInOrder
      <4>2. 1..(1 - 1) = {}
          OBVIOUS
      <4> QED
          BY <1>6, <4>1, <4>2
    <3> QED
        BY <1>2, <1>6, <2>2, <3>2, <3>3
  <2>3. BatchInOrder'
      BY <2>2 DEF BatchInOrder
  <2>4. ASSUME NEW q \in Partitions, NEW n \in 1..LogLen[q], NEW k \in first'[q]..(n - 1),
               NEW i \in 1..Len(msgChan'), msgChan'[i] = <<q, n>>
        PROVE  \/ Settled(<<q, k>>)' \/ InBuffer(<<q, k>>)'
               \/ \E j \in 1..(i - 1) : msgChan'[j] = <<q, k>>
    <3>1. k \in first[q]..(n - 1) /\ i + 1 \in 1..Len(msgChan) /\ msgChan[i + 1] = <<q, n>>
        BY <1>1, <1>2, <1>4, <2>4
    <3>2. \/ Settled(<<q, k>>) \/ InBuffer(<<q, k>>)
          \/ \E j \in 1..((i + 1) - 1) : msgChan[j] = <<q, k>>
        BY <2>0, <3>1 DEF ChanInOrder
    <3>3. ASSUME NEW j \in 1..((i + 1) - 1), msgChan[j] = <<q, k>>, j # 1
          PROVE  \E l \in 1..(i - 1) : msgChan'[l] = <<q, k>>
      <4>1. j - 1 \in 1..(i - 1) /\ j - 1 \in 1..Len(msgChan') /\ (j - 1) + 1 = j
          BY <1>2, <3>3
      <4>2. msgChan'[j - 1] = msgChan[j]
          BY <1>2, <4>1
      <4> QED
          BY <3>3, <4>1, <4>2
    <3>4. msgChan[1] = <<q, k>> => InBuffer(<<q, k>>)'
        BY <1>2, <1>6
    <3> QED
        BY <1>6, <3>2, <3>3, <3>4
  <2>5. ChanInOrder'
      BY <2>4 DEF ChanInOrder
  <2> QED
      BY <2>1, <2>3, <2>5 DEF InOrder
<1>10. SavedOrDropped'
    BY <1>1 DEF Tracked, SavedOrDropped
<1> QED
    BY <1>7, <1>8, <1>9, <1>10 DEF Tracked

(* A batch that ends, saved or given up on, or whose rows are in the table  *)
(* already, settles its messages.                                           *)
LEMMA FlushOrder ==
    ASSUME InOrder, Up, Up', first' = first, msgChan' = msgChan,
           ToSet(buffer') \in {{}, ToSet(buffer)},
           table' \in {table, table \cup ToSet(buffer)},
           \A m : InBuffer(m) \/ Settled(m) => InBuffer(m)' \/ Settled(m)',
           \A m : Settled(m) => Settled(m)',
           table' # table => \A m \in ToSet(buffer) : Settled(m)'
    PROVE  InOrder'
<1>0. TableInOrder /\ BatchInOrder /\ ChanInOrder
    BY DEF InOrder
<1>1. ASSUME NEW q \in Partitions, NEW n \in 1..LogLen[q], NEW k \in first'[q]..(n - 1),
             <<q, n>> \in table'
      PROVE  Settled(<<q, k>>)'
  <2>1. k \in first[q]..(n - 1)
      OBVIOUS
  <2>2. CASE <<q, n>> \in table
      BY <1>0, <2>1, <2>2 DEF TableInOrder
  <2>3. CASE table' # table /\ InBuffer(<<q, n>>)
    <3>1. Settled(<<q, k>>) \/ InBuffer(<<q, k>>)
        BY <1>0, <2>1, <2>3 DEF BatchInOrder
    <3> QED
        BY <2>3, <3>1 DEF InBuffer
  <2> QED
      BY <1>1, <2>2, <2>3 DEF InBuffer
<1>2. ASSUME NEW q \in Partitions, NEW n \in 1..LogLen[q], NEW k \in first'[q]..(n - 1),
             InBuffer(<<q, n>>)'
      PROVE  Settled(<<q, k>>)' \/ InBuffer(<<q, k>>)'
  <2>1. k \in first[q]..(n - 1) /\ InBuffer(<<q, n>>)
      BY <1>2 DEF InBuffer
  <2>2. Settled(<<q, k>>) \/ InBuffer(<<q, k>>)
      BY <1>0, <2>1 DEF BatchInOrder
  <2> QED
      BY <2>2
<1>3. ASSUME NEW q \in Partitions, NEW n \in 1..LogLen[q], NEW k \in first'[q]..(n - 1),
             NEW i \in 1..Len(msgChan'), msgChan'[i] = <<q, n>>
      PROVE  \/ Settled(<<q, k>>)' \/ InBuffer(<<q, k>>)'
             \/ \E j \in 1..(i - 1) : msgChan'[j] = <<q, k>>
  <2>1. k \in first[q]..(n - 1) /\ i \in 1..Len(msgChan) /\ msgChan[i] = <<q, n>>
      BY <1>3
  <2>2. \/ Settled(<<q, k>>) \/ InBuffer(<<q, k>>)
        \/ \E j \in 1..(i - 1) : msgChan[j] = <<q, k>>
      BY <1>0, <2>1 DEF ChanInOrder
  <2> QED
      BY <2>2
<1>4. TableInOrder'
    BY <1>1 DEF TableInOrder
<1>5. BatchInOrder'
    BY <1>2 DEF BatchInOrder
<1>6. ChanInOrder'
    BY <1>3 DEF ChanInOrder
<1> QED
    BY <1>4, <1>5, <1>6 DEF InOrder

LEMMA FlushTracked ==
    ASSUME TypeOK, Shape, Tracked, Up, Up', first' = first, Saves \/ GivesUp \/ LosesAck
    PROVE  Tracked'
<1>1. /\ first' = first /\ msgChan' = msgChan
      /\ \A q \in Partitions : Ahead(q)' = Ahead(q)
      /\ \/ /\ table' = table \cup ToSet(buffer) /\ dropped' = dropped
            /\ buffer' = <<>> /\ lostAcks' = lostAcks
         \/ /\ dropped' = dropped \cup ToSet(buffer) /\ table' = table
            /\ buffer' = <<>> /\ lostAcks' = lostAcks
         \/ /\ table' = table \cup ToSet(buffer) /\ dropped' = dropped
            /\ buffer' = buffer /\ lostAcks' = lostAcks + 1
    BY DEF Saves, GivesUp, LosesAck, AheadKept
<1>2. ToSet(buffer') \in {{}, ToSet(buffer)} /\ table' \in {table, table \cup ToSet(buffer)}
    BY <1>1, ToSetEmpty
<1>3. /\ \A m : InBuffer(m) \/ Settled(m) => InBuffer(m)' \/ Settled(m)'
      /\ \A m : Settled(m) => Settled(m)'
      /\ table' # table => \A m \in ToSet(buffer) : Settled(m)'
    BY <1>1 DEF InBuffer, Settled
<1>4. InOrder'
    BY <1>1, <1>2, <1>3, FlushOrder DEF Tracked
<1>5. Accounted'
    BY <1>1, <1>3 DEF Tracked, Accounted, InChan
<1>6. BehindFront'
  <2>1. \A m : InBuffer(m)' \/ InChan(m)' \/ m \in table' \cup dropped'
                 => InBuffer(m) \/ InChan(m) \/ m \in table \cup dropped
      BY <1>1, <1>2 DEF InBuffer, InChan
  <2> QED
      BY <1>1, <2>1 DEF Tracked, BehindFront
<1>7. OnePlace'
  <2>0. OnePlace /\ lostAcks \in Nat
    <3>1. lostAcks \in 0..MaxLostAcks
        BY WorkerFacts
    <3> QED
        BY <3>1, Sizes DEF Tracked
  <2>1. \A i, k \in 1..Len(msgChan') : msgChan'[i] = msgChan'[k] => i = k
      BY <1>1, <2>0 DEF OnePlace
  <2>2. \A i \in 1..Len(msgChan') : /\ msgChan'[i] \notin ToSet(buffer')
                                    /\ msgChan'[i] \notin table' \cup dropped'
      BY <1>1, <1>2, <2>0 DEF OnePlace, InBuffer
  <2>3. ToSet(buffer') \cap dropped' = {}
      BY <1>1, <2>0, ToSetEmpty DEF OnePlace
  <2>4. lostAcks' = 0 => ToSet(buffer') \cap table' = {}
      BY <1>1, <2>0, ToSetEmpty DEF OnePlace
  <2> QED
      BY <2>1, <2>2, <2>3, <2>4 DEF OnePlace, InBuffer
<1>8. SavedOrDropped'
  <2>1. lostAcks \in Nat
    <3>1. lostAcks \in 0..MaxLostAcks
        BY WorkerFacts
    <3> QED
        BY <3>1, Sizes
  <2>2. lostAcks' = 0 => lostAcks = 0 /\ lostAcks' # lostAcks + 1
      BY <1>1, <2>1
  <2> QED
      BY <1>1, <2>2 DEF Tracked, SavedOrDropped, OnePlace
<1> QED
    BY <1>4, <1>5, <1>6, <1>7, <1>8 DEF Tracked

LEMMA LiveTracked ==
    ASSUME TypeOK, Shape, Tracked, Up, Up', [Next]_vars
    PROVE  Tracked'
<1>1. first' = first
    BY LiveStep DEF DataStep
<1> QED
    BY <1>1, LiveStep, StaysTracked, SkipsTracked, PushesTracked, ReceivesTracked, FlushTracked
       DEF DataStep

----------------------------------------------------------------------------
(* The end of a process, and the start of the next. *)

LEMMA DownStep ==
    ASSUME [Next]_vars, ~Up'
    PROVE  UNCHANGED <<table, dropped, lostAcks, committed, first>>
<1>1. CASE UNCHANGED vars
    BY <1>1 DEF vars, groupVars, dbVars
<1>2. CASE Die
    BY <1>2 DEF Die, groupVars, dbVars
<1>3. CASE Exit
    BY <1>3 DEF Exit, groupVars, dbVars
<1>4. CASE StartSession \/ CleanupClose \/ CleanupDone \/ Signal \/ Rebalance \/ AutoCommit
    BY <1>4 DEF StartSession, CleanupClose, CleanupDone, Signal, Rebalance, AutoCommit, Up, mainVars
<1>5. CASE Restart
    BY <1>5 DEF Restart, Up
<1>6. ASSUME NEW p \in Partitions, ClaimReceive(p) \/ ClaimPush(p) \/ ClaimMark(p) \/ ClaimReturn(p)
      PROVE  FALSE
    BY <1>6 DEF ClaimReceive, ClaimPush, ClaimMark, ClaimReturn, Up, claimEnv, mainVars
<1>7. CASE WorkerStep
    BY <1>7 DEF WorkerStep, FlushStep, WorkerReceive, WorkerClosed, WorkerTick, WorkerCtxDone,
                InsertOK, InsertFail, InsertAckLost, BackoffElapsed, BackoffCancelled,
                workerEnv, mainVars, Up
<1>8. MainStep => StartSession \/ CleanupClose \/ CleanupDone \/ Exit \/ Die
    BY DEF MainStep, CleanupPanic
<1>9. Environment => Signal \/ Rebalance \/ AutoCommit \/ Die \/ Restart
    BY DEF Environment, Crash
<1>10. ASSUME NEW p \in Partitions, ClaimStep(p)
       PROVE  ClaimReceive(p) \/ ClaimPush(p) \/ ClaimMark(p) \/ ClaimReturn(p) \/ Die
    BY <1>10 DEF ClaimStep, ClaimPanic
<1> QED
    BY <1>1, <1>2, <1>3, <1>4, <1>5, <1>6, <1>7, <1>8, <1>9, <1>10 DEF Next

LEMMA UpStep ==
    ASSUME [Next]_vars, ~Up, Up'
    PROVE  Restart
<1>1. CASE UNCHANGED vars
    BY <1>1 DEF vars, mainVars, Up
<1>2. CASE MainStep
    BY <1>2 DEF MainStep, StartSession, CleanupClose, CleanupPanic, CleanupDone, Exit
<1>3. ASSUME NEW p \in Partitions, ClaimStep(p) PROVE FALSE
    BY <1>3 DEF ClaimStep, ClaimReceive, ClaimPush, ClaimPanic, ClaimMark, ClaimReturn
<1>4. CASE WorkerStep
    BY <1>4 DEF WorkerStep, FlushStep, WorkerReceive, WorkerClosed, WorkerTick, WorkerCtxDone,
                InsertOK, InsertFail, InsertAckLost, BackoffElapsed, BackoffCancelled
<1>5. CASE Environment
    BY <1>5 DEF Environment, Signal, Rebalance, AutoCommit, Crash
<1> QED
    BY <1>1, <1>2, <1>3, <1>4, <1>5 DEF Next

(* A process that has nothing in memory and has consumed nothing. *)
LEMMA EmptyTracked ==
    ASSUME Restart, TypeOK
    PROVE  Tracked'
<1>1. /\ table' = {} /\ dropped' = {} /\ msgChan' = <<>> /\ buffer' = <<>>
      /\ claim' = [p \in Partitions |-> "off"] /\ next' = committed /\ first' = committed
    BY DEF Restart, Fresh
<1>2. /\ ToSet(msgChan') = {} /\ ToSet(buffer') = {} /\ 1..Len(msgChan') = {}
    BY <1>1, ToSetEmpty
<1>3. \A p \in Partitions : committed[p] \in Nat /\ Ahead(p)' = committed[p]
    BY <1>1, OffsetFacts DEF Ahead
<1>4. \A p \in Partitions : first'[p]..(Ahead(p)' - 1) = {}
    BY <1>1, <1>3
<1>5. Accounted'
    BY <1>4 DEF Accounted
<1>6. BehindFront'
    BY <1>1, <1>2 DEF BehindFront, InBuffer, InChan
<1>7. OnePlace'
    BY <1>1, <1>2 DEF OnePlace
<1>8. TableInOrder' /\ BatchInOrder' /\ ChanInOrder'
    BY <1>1, <1>2 DEF TableInOrder, BatchInOrder, ChanInOrder, InBuffer
<1>9. SavedOrDropped'
    BY <1>1 DEF SavedOrDropped
<1> QED
    BY <1>5, <1>6, <1>7, <1>8, <1>9 DEF Tracked, InOrder

LEMMA InitTracked == Init => Tracked
<1> SUFFICES ASSUME Init PROVE Tracked
    OBVIOUS
<1>1. /\ table = {} /\ dropped = {} /\ msgChan = <<>> /\ buffer = <<>>
      /\ claim = [p \in Partitions |-> "off"] /\ next = [p \in Partitions |-> 1] /\ first = next
    BY DEF Init
<1>2. /\ ToSet(msgChan) = {} /\ ToSet(buffer) = {} /\ 1..Len(msgChan) = {}
    BY <1>1, ToSetEmpty
<1>3. \A p \in Partitions : first[p]..(Ahead(p) - 1) = {}
    BY <1>1 DEF Ahead
<1>4. Accounted
    BY <1>3 DEF Accounted
<1>5. BehindFront
    BY <1>1, <1>2 DEF BehindFront, InBuffer, InChan
<1>6. OnePlace
    BY <1>1, <1>2 DEF OnePlace
<1>7. TableInOrder /\ BatchInOrder /\ ChanInOrder
    BY <1>1, <1>2 DEF TableInOrder, BatchInOrder, ChanInOrder, InBuffer
<1>8. SavedOrDropped
    BY <1>1 DEF SavedOrDropped
<1> QED
    BY <1>4, <1>5, <1>6, <1>7, <1>8 DEF Tracked, InOrder

LEMMA TrackedStep ==
    ASSUME TypeOK, Shape, Tracked, [Next]_vars
    PROVE  Tracked'
<1>1. CASE Up /\ Up'
    BY <1>1, LiveTracked
<1>2. CASE ~Up /\ Up'
    BY <1>2, UpStep, EmptyTracked
<1>3. CASE ~Up'
  <2>1. SavedOrDropped'
      BY <1>3, DownStep DEF Tracked, SavedOrDropped
  <2> QED
      BY <1>3, <2>1 DEF Tracked, Accounted, BehindFront, OnePlace, InOrder,
                        TableInOrder, BatchInOrder, ChanInOrder
<1> QED
    BY <1>1, <1>2, <1>3

----------------------------------------------------------------------------
(* What a crash can cost. *)

LEMMA LossBound ==
    ASSUME NEW C \in Seq(Msgs), Len(C) <= ChannelBufferSize,
           NEW B \in Seq(Msgs), Len(B) <= BatchSize,
           NEW L, L \subseteq ToSet(C) \cup ToSet(B)
    PROVE  IsFiniteSet(L) /\ Cardinality(L) <= ChannelBufferSize + BatchSize
<1>1. /\ IsFiniteSet(ToSet(C)) /\ Cardinality(ToSet(C)) <= Len(C)
      /\ IsFiniteSet(ToSet(B)) /\ Cardinality(ToSet(B)) <= Len(B)
    BY ToSetCardinality
<1>2. /\ IsFiniteSet(ToSet(C) \cup ToSet(B))
      /\ Cardinality(ToSet(C) \cup ToSet(B))
           = Cardinality(ToSet(C)) + Cardinality(ToSet(B)) - Cardinality(ToSet(C) \cap ToSet(B))
    BY <1>1, FS_Union
<1>3. IsFiniteSet(L) /\ Cardinality(L) <= Cardinality(ToSet(C) \cup ToSet(B))
    BY <1>2, FS_Subset
<1>4. IsFiniteSet(ToSet(C) \cap ToSet(B))
    BY <1>1, FS_Subset
<1>5. /\ Cardinality(L) \in Nat /\ Cardinality(ToSet(C)) \in Nat /\ Cardinality(ToSet(B)) \in Nat
      /\ Cardinality(ToSet(C) \cap ToSet(B)) \in Nat
    BY <1>1, <1>3, <1>4, FS_CardinalityType
<1>6. Len(C) \in Nat /\ Len(B) \in Nat
    BY LenProperties
<1> QED
    BY <1>1, <1>2, <1>3, <1>5, <1>6, Sizes

LEMMA LossInit == Init => CrashLossBounded
<1> SUFFICES ASSUME Init PROVE CrashLossBounded
    OBVIOUS
<1>1. \A m \in Msgs : first[m[1]]..(committed[m[1]] - 1) = {}
  <2> TAKE m \in Msgs
  <2>1. m[1] \in Partitions
      BY MsgsAreOffsets
  <2>2. first[m[1]] = 1 /\ committed[m[1]] = 1
      BY <2>1 DEF Init
  <2> QED
      BY <2>2
<1>2. {m \in Msgs : /\ Kind[m] = "danmaku"
                    /\ m[2] \in first[m[1]]..(committed[m[1]] - 1)
                    /\ m \notin table \cup dropped} = {}
    BY <1>1
<1>3. Cardinality({}) = 0
    BY FS_EmptySet
<1>4. 0 <= ChannelBufferSize + BatchSize
    BY Sizes
<1> QED
    BY <1>2, <1>3, <1>4 DEF CrashLossBounded

LEMMA LossStep ==
    ASSUME TypeOK, TypeOK', Shape', Tracked', CrashLossBounded, [Next]_vars
    PROVE  CrashLossBounded'
<1>1. CASE ~Up'
    BY <1>1, DownStep DEF CrashLossBounded
<1>2. CASE Up'
  <2>1. /\ msgChan' \in Seq(Msgs) /\ Len(msgChan') <= ChannelBufferSize
        /\ buffer' \in Seq(Msgs) /\ Len(buffer') <= BatchSize
        /\ first' \in Offsets /\ committed' \in Offsets /\ next' \in Offsets
      BY DEF TypeOK
  <2>2. ASSUME NEW m \in Msgs, Kind[m] = "danmaku",
               m[2] \in first'[m[1]]..(committed'[m[1]] - 1), m \notin table' \cup dropped'
        PROVE  m \in ToSet(msgChan') \cup ToSet(buffer')
    <3>0. PICK p \in Partitions : \E k \in 1..LogLen[p] : m = <<p, k>>
        BY MsgsAreOffsets
    <3>1. PICK n \in 1..LogLen[p] : m = <<p, n>>
        BY <3>0
    <3>2. /\ first'[p] \in Nat /\ committed'[p] \in Nat /\ next'[p] \in Nat
        BY <2>1, OffsetsAre
    <3>3. committed'[p] <= next'[p]
        BY DEF Shape
    <3>4. Ahead(p)' = next'[p] \/ Ahead(p)' = next'[p] + 1
        BY DEF Ahead
    <3>5. n \in first'[p]..(committed'[p] - 1)
        BY <2>2, <3>1
    <3>6. n \in first'[p]..(Ahead(p)' - 1)
        BY <3>2, <3>3, <3>4, <3>5
    <3>7. Settled(m)' \/ InBuffer(m)' \/ InChan(m)'
        BY <1>2, <3>1, <3>6 DEF Tracked, Accounted
    <3> QED
        BY <2>2, <3>7 DEF Settled, InBuffer, InChan
  <2>3. {m \in Msgs : /\ Kind[m] = "danmaku"
                      /\ m[2] \in first'[m[1]]..(committed'[m[1]] - 1)
                      /\ m \notin table' \cup dropped'} \subseteq ToSet(msgChan') \cup ToSet(buffer')
      BY <2>2
  <2> QED
      BY <2>1, <2>3, LossBound DEF CrashLossBounded
<1> QED
    BY <1>1, <1>2

----------------------------------------------------------------------------
(* The theorems. *)

LEMMA HInvHolds == Spec => []HInv
<1>1. Init => HInv
    BY TypeInit, InitTracked, LossInit DEF HInv, Tracked
<1>2. HInv /\ [Next]_vars => HInv'
  <2> SUFFICES ASSUME HInv, [Next]_vars PROVE HInv'
      OBVIOUS
  <2>1. TypeOK' /\ Shape'
      BY TypeStep DEF HInv
  <2>2. Tracked'
      BY TrackedStep DEF HInv, Tracked
  <2>3. CrashLossBounded'
      BY <2>1, <2>2, LossStep DEF HInv
  <2> QED
      BY <2>1, <2>2, <2>3 DEF HInv, Tracked
<1> QED
    BY <1>1, <1>2, PTL DEF Spec

(* Every variable of the consumer stays in its type: the channel and the    *)
(* batch within their capacities, every offset within its log.              *)
THEOREM HandlerTypeCorrect == Spec => []TypeOK
<1>1. HInv => TypeOK
    BY DEF HInv
<1> QED
    BY <1>1, HInvHolds, PTL

(* ConsumeClaim marks a danmaku only when it is in msgChan or further on:   *)
(* while the process lives, each marked one is on its way, saved or given   *)
(* up on after the retries.                                                 *)
THEOREM HandlerMarkedIsAccounted == Spec => []MarkedIsAccounted
<1>1. HInv => MarkedIsAccounted
  <2> SUFFICES ASSUME HInv, Up, NEW p \in Partitions, NEW n \in first[p]..(marked[p] - 1)
               PROVE  Kind[<<p, n>>] # "danmaku" \/ <<p, n>> \in Queued \cup dropped \/ <<p, n>> \in table
      BY DEF MarkedIsAccounted
  <2>1. next[p] \in Nat /\ first[p] \in Nat /\ marked[p] = next[p]
      BY OffsetFacts DEF HInv, Shape
  <2>2. Ahead(p) = next[p] \/ Ahead(p) = next[p] + 1
      BY DEF Ahead
  <2>3. n \in first[p]..(Ahead(p) - 1)
      BY <2>1, <2>2
  <2>4. Settled(<<p, n>>) \/ InBuffer(<<p, n>>) \/ InChan(<<p, n>>)
      BY <2>3 DEF HInv, Accounted
  <2> QED
      BY <2>4 DEF Settled, InBuffer, InChan, Queued
<1> QED
    BY <1>1, HInvHolds, PTL

(* Of the danmaku whose offsets are committed, a crash of the process costs *)
(* at most ChannelBufferSize + BatchSize.                                   *)
THEOREM HandlerCrashLossBounded == Spec => []CrashLossBounded
<1>1. HInv => CrashLossBounded
    BY DEF HInv
<1> QED
    BY <1>1, HInvHolds, PTL

(* msgChan, the batches and their retries keep the order of a partition: no *)
(* danmaku is in the table while an earlier one is still under way.         *)
THEOREM HandlerSavedWithoutGaps == Spec => []SavedWithoutGaps
<1>1. HInv => SavedWithoutGaps
  <2> SUFFICES ASSUME HInv, Up, NEW p \in Partitions, NEW n \in first[p]..LogLen[p],
                      <<p, n>> \in table, NEW k \in first[p]..(n - 1)
               PROVE  Kind[<<p, k>>] # "danmaku" \/ <<p, k>> \in dropped \cup table
      BY DEF SavedWithoutGaps
  <2>1. first[p] \in Nat \ {0} /\ LogLen[p] \in Nat
      BY OffsetFacts DEF HInv
  <2>2. n \in 1..LogLen[p]
      BY <2>1
  <2>3. Settled(<<p, k>>)
      BY <2>2 DEF HInv, InOrder, TableInOrder
  <2> QED
      BY <2>3 DEF Settled
<1> QED
    BY <1>1, HInvHolds, PTL

(* flushBuffer reports a batch as dropped only when none of its rows is in  *)
(* the table, unless an acknowledgement was lost.                           *)
THEOREM HandlerSavedOrDropped == Spec => []SavedOrDropped
<1>1. HInv => SavedOrDropped
    BY DEF HInv
<1> QED
    BY <1>1, HInvHolds, PTL

(* Cleanup's wg.Wait() keeps the worker, and its last flush, inside the     *)
(* session that started it.                                                 *)
THEOREM HandlerWorkerInSession == Spec => []WorkerInSession
<1>1. HInv => WorkerInSession
    BY DEF HInv, Shape, WorkerInSession
<1> QED
    BY <1>1, HInvHolds, PTL
=============================================================================
