--------------------------- MODULE RoomStatsProofs ---------------------------
(***************************************************************************)
(* Proofs about RoomStats, for any clients, rooms and likes, any number of *)
(* broadcastStats calls that overlap and any width of the integers.        *)
(***************************************************************************)
EXTENDS RoomStats, SumLemmas

USE LikeAssumption

----------------------------------------------------------------------------
(* The inductive invariant: where each like is. *)

InMap(l) == l \in localLikes[RoomOfLike[l]]
InBatch(g, l) == l \in call[g].batch[RoomOfLike[l]]
InIncr(l) == \E i \in incrs : ~i.again /\ l \in i.likes
IsHeld(l) == InMap(l) \/ (\E g \in Calls : InBatch(g, l)) \/ InIncr(l)

(* Every map, batch and report has the likes of its own room. *)
RoomsKept ==
    /\ \A r \in RoomIDs : localLikes[r] \subseteq OfRoom(r)
    /\ \A g \in Calls : \A r \in RoomIDs : call[g].batch[r] \subseteq OfRoom(r)
    /\ \A i \in incrs : i.likes \subseteq OfRoom(i.room) /\ i.likes # {}

(* A call has likes only between its swap and its last room. *)
CallShape(g) ==
    /\ call[g].pc = "idle" => \A r \in RoomIDs : call[g].batch[r] = {}
    /\ call[g].pc \in {"loop", "get", "show"} =>
          \A r \in RoomIDs : call[g].batch[r] # {} => r \in call[g].todo
    /\ call[g].pc \in {"get", "show"} => call[g].room \in RoomIDs

(* A like that was never sent is nowhere, and one that was is in one place. *)
OnePlace(l) ==
    /\ l \notin pressed => ~IsHeld(l) /\ l \notin counted /\ \A i \in incrs : l \notin i.likes
    /\ InMap(l) => /\ \A g \in Calls : ~InBatch(g, l)
                   /\ \A i \in incrs : l \notin i.likes
                   /\ l \notin counted
    /\ \A g \in Calls : InBatch(g, l) => /\ \A h \in Calls : InBatch(h, l) => h = g
                                         /\ \A i \in incrs : l \notin i.likes
                                         /\ l \notin counted
    /\ \A i \in incrs : l \in i.likes => /\ \A j \in incrs : l \in j.likes => j = i
                                         /\ i.again <=> l \in counted
    /\ l \in recounted => l \in counted

LikeInv == \A l \in Likes : OnePlace(l)

(* The likes of a report have been added equally often: never, once, again. *)
Together == \A i \in incrs : i.likes \subseteq recounted \/ i.likes \cap recounted = {}

(* A like is lost for a reason: the last one is a batch that wrapped to 0.  *)
IsGone(l) == l \in pressed /\ ~IsHeld(l) /\ l \notin counted
Wiped(l) == \E B \in SUBSET OfRoom(RoomOfLike[l]) :
               l \in B /\ LikesDelta(B) = 0 /\ \A k \in B : IsGone(k)

Reason(l) ==
    /\ l \in pressed => IsHeld(l) \/ l \in counted \cup failed \cup exposed \/ Wiped(l)
    /\ (l \in pressed /\ RoomOfLike[l] \notin listening) => l \in exposed

Reasons == \A l \in Likes : Reason(l)

(* Calls that are under way together know it. *)
Overlap ==
    \A g, h \in Calls : (g # h /\ call[g].pc # "idle" /\ call[h].pc # "idle") => call[g].overlapped

(* While the likes counted fit in the counter it has only grown: what was   *)
(* shown and what was read is not above it, and what a call without company *)
(* has read is not below what is shown.                                     *)
Fits(r) == Sum(counted \cap OfRoom(r)) < Word

Growing ==
    \A r \in RoomIDs : Fits(r) =>
        /\ 0 <= redis[r] /\ shown[r] <= redis[r]
        /\ \A g \in Calls : (call[g].pc = "show" /\ call[g].room = r) =>
              /\ call[g].likes <= redis[r]
              /\ call[g].unread \/ call[g].overlapped \/ shown[r] <= call[g].likes

RInv == /\ TypeOK /\ RoomsKept /\ \A g \in Calls : CallShape(g)
        /\ LikeInv /\ Together /\ Reasons /\ Overlap /\ Growing

----------------------------------------------------------------------------
(* Lemmas about the operators. *)

LEMMA Consts ==
    /\ Word \in Nat \ {0} /\ MaxFailures \in Nat
    /\ \A l \in Likes : RoomOfLike[l] \in RoomIDs
    /\ \A l \in Likes : Clicks[l] \in Nat \ {0}
    /\ \A r \in RoomIDs : OfRoom(r) \in SUBSET Likes
    /\ \A l \in Likes : \A r \in RoomIDs : l \in OfRoom(r) <=> RoomOfLike[l] = r
<1>1. \A l \in Likes : RoomOfLike[l] \in RoomIDs
    BY DEF RoomOfLike
<1>2. \A l \in Likes : Clicks[l] \in Nat \ {0}
  <2> TAKE l \in Likes
  <2>1. Count[l] \in 0..(2 * Word - 1)
      OBVIOUS
  <2> QED
      BY <2>1 DEF Clicks
<1>3. /\ \A r \in RoomIDs : OfRoom(r) \in SUBSET Likes
      /\ \A l \in Likes : \A r \in RoomIDs : l \in OfRoom(r) <=> RoomOfLike[l] = r
    BY DEF OfRoom
<1> QED
    BY <1>1, <1>2, <1>3

(* The sum of a batch, 0 only for the empty one, grows with the batch. *)
LEMMA SumFacts ==
    ASSUME NEW S \in SUBSET Likes
    PROVE  /\ Sum(S) \in Nat /\ (S # {} => Sum(S) > 0)
           /\ \A T \in SUBSET S : Sum(T) <= Sum(S)
<1>1. IsFiniteSet(S) /\ \A l \in S : Clicks[l] \in Nat /\ Clicks[l] \in Nat \ {0}
    BY Consts, FS_Subset
<1>2. \A T : Sum(T) = Total(Clicks, T)
    BY DEF Sum, Total
<1>3. Total(Clicks, S) \in Nat
    BY <1>1, TotalIsNat
<1>4. S # {} => Total(Clicks, S) > 0
    BY <1>1, TotalPositive
<1>5. \A T \in SUBSET S : Total(Clicks, T) <= Total(Clicks, S)
    BY <1>1, TotalMonotone
<1> QED
    BY <1>2, <1>3, <1>4, <1>5

(* The uint64 of a batch is in its range, and is the sum if that fits. *)
LEMMA DeltaFacts ==
    ASSUME NEW S \in SUBSET Likes
    PROVE  /\ LikesDelta(S) \in 0..(2 * Word - 1)
           /\ Sum(S) < 2 * Word => LikesDelta(S) = Sum(S)
<1>1. Sum(S) \in Nat /\ Word \in Nat \ {0}
    BY Consts, SumFacts
<1>2. \A n \in Nat : \A m \in Nat \ {0} : n % m \in 0..(m - 1) /\ (n < m => n % m = n)
    OBVIOUS
<1>3. 2 * Word \in Nat \ {0}
    BY <1>1
<1> QED
    BY <1>1, <1>2, <1>3 DEF LikesDelta

(* int64(count) keeps a count that an int64 holds. *)
LEMMA WorthFacts ==
    ASSUME NEW S \in SUBSET Likes
    PROVE  /\ Worth(S) \in Int
           /\ LikesDelta(S) < Word => Worth(S) = LikesDelta(S)
           /\ Sum(S) < Word => Worth(S) = Sum(S)
<1>1. Sum(S) \in Nat /\ Word \in Nat \ {0}
    BY Consts, SumFacts
<1>2. LikesDelta(S) \in 0..(2 * Word - 1) /\ (Sum(S) < 2 * Word => LikesDelta(S) = Sum(S))
    BY DeltaFacts
<1> QED
    BY <1>1, <1>2 DEF Worth, ToInt64

LEMMA CallFields ==
    ASSUME NEW x \in Call
    PROVE  /\ x.pc \in {"idle", "swapped", "loop", "get", "show"}
           /\ x.batch \in [RoomIDs -> SUBSET Likes] /\ x.todo \in SUBSET RoomIDs
           /\ x.room \in RoomIDs \cup {None} /\ x.likes \in 0..(Word - 1)
           /\ x.unread \in BOOLEAN /\ x.overlapped \in BOOLEAN
BY DEF Call

LEMMA IdleFields ==
    /\ Idle \in Call /\ Idle.pc = "idle" /\ Idle.todo = {} /\ Idle.room = None
    /\ Idle.batch = NoLikes /\ \A r \in RoomIDs : Idle.batch[r] = {}
<1>1. NoLikes \in [RoomIDs -> SUBSET Likes] /\ \A r \in RoomIDs : NoLikes[r] = {}
    BY DEF NoLikes
<1>2. 0 \in 0..(Word - 1)
    BY Consts
<1>3. Idle \in Call
    BY <1>1, <1>2 DEF Idle, Call
<1> QED
    BY <1>1, <1>3 DEF Idle

----------------------------------------------------------------------------
(* What each step of a call does to the calls. *)

LEMMA SwapCall ==
    ASSUME TypeOK, NEW g \in Calls, Swap(g)
    PROVE  /\ call' \in [Calls -> Call]
           /\ call'[g].pc = "swapped" /\ call'[g].batch = localLikes
           /\ call'[g].overlapped <=> \E h \in Calls : call[h].pc # "idle"
           /\ \A h \in Calls : h # g =>
                 /\ call'[h].pc = call[h].pc /\ call'[h].batch = call[h].batch
                 /\ call'[h].todo = call[h].todo /\ call'[h].room = call[h].room
                 /\ call'[h].likes = call[h].likes /\ call'[h].unread = call[h].unread
                 /\ call'[h].overlapped <=> call[h].overlapped \/ call[h].pc # "idle"
<1>1. PICK others : others = {h \in Calls : call[h].pc # "idle"}
    OBVIOUS
<1>2. call' = [h \in Calls |->
             IF h = g THEN [Idle EXCEPT !.pc = "swapped", !.batch = localLikes,
                                        !.overlapped = others # {}]
             ELSE [call[h] EXCEPT !.overlapped = @ \/ h \in others]]
    BY <1>1 DEF Swap
<1>3. localLikes \in [RoomIDs -> SUBSET Likes] /\ call \in [Calls -> Call]
    BY DEF TypeOK
<1>4. Idle \in Call
    BY IdleFields
<1>6. /\ call'[g] \in Call /\ call'[g].pc = "swapped" /\ call'[g].batch = localLikes
      /\ call'[g].overlapped <=> others # {}
  <2>0. PICK y : y = call'[g]
      OBVIOUS
  <2>1. PICK x \in Call, m \in [RoomIDs -> SUBSET Likes], o \in BOOLEAN :
           x = Idle /\ m = localLikes /\ o = (others # {})
      BY <1>3, <1>4
  <2>2. y = [x EXCEPT !.pc = "swapped", !.batch = m, !.overlapped = o]
      BY <1>2, <2>0, <2>1, Zenon
  <2>3. y \in Call /\ y.pc = "swapped" /\ y.batch = m /\ (y.overlapped <=> o)
      BY <2>2 DEF Call
  <2> QED
      BY <2>0, <2>1, <2>3
<1>7. ASSUME NEW h \in Calls, h # g
      PROVE  /\ call'[h] \in Call
             /\ call'[h].pc = call[h].pc /\ call'[h].batch = call[h].batch
             /\ call'[h].todo = call[h].todo /\ call'[h].room = call[h].room
             /\ call'[h].likes = call[h].likes /\ call'[h].unread = call[h].unread
             /\ call'[h].overlapped <=> call[h].overlapped \/ h \in others
  <2>1. call[h] \in Call /\ (h \in others) \in BOOLEAN
      BY <1>3
  <2>2. PICK x \in Call, o \in BOOLEAN : x = call[h] /\ o = (h \in others)
      BY <2>1, Zenon
  <2>3. PICK y : y = call'[h]
      OBVIOUS
  <2>4. call'[h] = [call[h] EXCEPT !.overlapped = call[h].overlapped \/ h \in others]
      BY <1>2, <1>7, Zenon
  <2>5. y = [x EXCEPT !.overlapped = x.overlapped \/ o]
      BY <2>2, <2>3, <2>4, Zenon
  <2>6. /\ y \in Call /\ y.pc = x.pc /\ y.batch = x.batch /\ y.todo = x.todo
        /\ y.room = x.room /\ y.likes = x.likes /\ y.unread = x.unread
        /\ y.overlapped <=> x.overlapped \/ o
      BY <2>5 DEF Call
  <2> QED
      BY <2>2, <2>3, <2>6
<1>8. call' \in [Calls -> Call]
  <2>1. \A h \in Calls : call'[h] \in Call
      BY <1>6, <1>7
  <2> QED
      BY <1>2, <2>1, Zenon
<1> QED
    BY <1>1, <1>6, <1>7, <1>8

(* The other calls are left alone. *)
Others(g) == \A h \in Calls : h # g => call'[h] = call[h]

LEMMA OneCall ==
    ASSUME NEW f \in [Calls -> Call], NEW g \in Calls, NEW y \in Call,
           NEW k, k = [f EXCEPT ![g] = y]
    PROVE  k \in [Calls -> Call] /\ k[g] = y /\ \A h \in Calls : h # g => k[h] = f[h]
OBVIOUS

LEMMA LocalStatsCall ==
    ASSUME TypeOK, NEW g \in Calls, LocalStats(g)
    PROVE  /\ call' \in [Calls -> Call] /\ Others(g)
           /\ call'[g].pc \in {"idle", "loop"}
           /\ call'[g].pc = "loop" => call'[g].todo = listening
           /\ call'[g].pc = "idle" => \A r \in RoomIDs : call'[g].batch[r] = {}
           /\ call'[g].pc # "idle" => (call'[g].overlapped <=> call[g].overlapped)
           /\ \A r \in RoomIDs : call'[g].batch[r] = IF r \in listening THEN call[g].batch[r] ELSE {}
<1>1. call \in [Calls -> Call] /\ listening \in SUBSET RoomIDs
    BY DEF TypeOK
<1>2. PICK x \in Call : x = call[g]
    BY <1>1
<1>3. x.batch \in [RoomIDs -> SUBSET Likes]
    BY CallFields
<1>4. PICK b \in [RoomIDs -> SUBSET Likes] : b = [r \in RoomIDs |-> IF r \in listening THEN x.batch[r] ELSE {}]
    BY <1>3
<1>5. PICK y : y = IF listening = {} THEN Idle ELSE [x EXCEPT !.pc = "loop", !.todo = listening, !.batch = b]
    OBVIOUS
<1>6. call' = [call EXCEPT ![g] = y]
  <2>1. call' = [call EXCEPT ![g] = IF listening = {} THEN Idle
                   ELSE [call[g] EXCEPT !.pc = "loop", !.todo = listening,
                           !.batch = [r \in RoomIDs |-> IF r \in listening THEN call[g].batch[r] ELSE {}]]]
      BY <1>1, <1>2 DEF LocalStats
  <2> QED
      BY <1>2, <1>4, <1>5, <2>1, Zenon
<1>7. /\ y \in Call /\ y.pc \in {"idle", "loop"} /\ (y.pc = "loop" => y.todo = listening)
      /\ y.pc = "idle" => \A r \in RoomIDs : y.batch[r] = {}
      /\ y.pc # "idle" => (y.overlapped <=> x.overlapped)
      /\ \A r \in RoomIDs : y.batch[r] = IF r \in listening THEN x.batch[r] ELSE {}
  <2>1. CASE listening = {}
      BY <1>5, <2>1, IdleFields
  <2>2. CASE listening # {}
    <3>1. y = [x EXCEPT !.pc = "loop", !.todo = listening, !.batch = b]
        BY <1>5, <2>2
    <3>2. y \in Call /\ y.pc = "loop" /\ y.todo = listening /\ y.batch = b /\ y.overlapped = x.overlapped
        BY <1>1, <3>1 DEF Call
    <3> QED
        BY <3>2, <1>4
  <2> QED
      BY <2>1, <2>2
<1>8. call' \in [Calls -> Call] /\ call'[g] = y /\ \A h \in Calls : h # g => call'[h] = call[h]
    BY <1>1, <1>6, <1>7, OneCall
<1> QED
    BY <1>2, <1>7, <1>8 DEF Others

LEMMA ReportCall ==
    ASSUME TypeOK, NEW g \in Calls, NEW r \in RoomIDs, Report(g, r)
    PROVE  /\ call' \in [Calls -> Call] /\ Others(g)
           /\ call'[g].pc = "get" /\ call'[g].room = r /\ call'[g].todo = call[g].todo \ {r}
           /\ call'[g].overlapped <=> call[g].overlapped
           /\ call'[g].batch[r] = {}
           /\ \A q \in RoomIDs : q # r => call'[g].batch[q] = call[g].batch[q]
<1>1. call \in [Calls -> Call]
    BY DEF TypeOK
<1>2. PICK x \in Call : x = call[g]
    BY <1>1
<1>3. x.batch \in [RoomIDs -> SUBSET Likes] /\ x.todo \in SUBSET RoomIDs
    BY CallFields
<1>4. PICK b \in [RoomIDs -> SUBSET Likes] : b = [x.batch EXCEPT ![r] = {}]
    BY <1>3
<1>5. PICK y : y = [x EXCEPT !.pc = "get", !.room = r, !.todo = x.todo \ {r}, !.batch = b]
    OBVIOUS
<1>6. call' = [call EXCEPT ![g] = y]
  <2>1. call' = [call EXCEPT ![g] = [call[g] EXCEPT !.pc = "get", !.room = r, !.todo = call[g].todo \ {r},
                                                    !.batch = [call[g].batch EXCEPT ![r] = {}]]]
      BY <1>1, <1>2 DEF Report
  <2> QED
      BY <1>2, <1>4, <1>5, <2>1, Zenon
<1>7. /\ y \in Call /\ y.pc = "get" /\ y.room = r /\ y.todo = x.todo \ {r}
      /\ y.overlapped = x.overlapped /\ y.batch = b
    BY <1>3, <1>5 DEF Call
<1>8. call' \in [Calls -> Call] /\ call'[g] = y /\ \A h \in Calls : h # g => call'[h] = call[h]
    BY <1>1, <1>6, <1>7, OneCall
<1> QED
    BY <1>2, <1>3, <1>4, <1>7, <1>8 DEF Others

LEMMA ParseUintRange ==
    ASSUME TypeOK, NEW r \in RoomIDs
    PROVE  TotalLikes(r) \in 0..(Word - 1) /\ (0 <= redis[r] => TotalLikes(r) = redis[r])
<1>1. redis[r] \in -Word..(Word - 1) /\ Word \in Nat \ {0}
    BY Consts DEF TypeOK
<1> QED
    BY <1>1 DEF TotalLikes, ParseUint

(* Get and GetFails: the call has a total, from the counter or 0. *)
LEMMA GetCall ==
    ASSUME TypeOK, NEW g \in Calls, CallShape(g), Get(g) \/ GetFails(g)
    PROVE  /\ call' \in [Calls -> Call] /\ Others(g)
           /\ call[g].pc = "get" /\ call'[g].pc = "show"
           /\ call'[g].room = call[g].room /\ call'[g].todo = call[g].todo
           /\ call'[g].batch = call[g].batch /\ (call'[g].overlapped <=> call[g].overlapped)
           /\ \/ call'[g].likes = TotalLikes(call[g].room)
              \/ call'[g].likes = 0 /\ call'[g].unread
<1>1. call \in [Calls -> Call]
    BY DEF TypeOK
<1>2. PICK x \in Call : x = call[g]
    BY <1>1
<1>3. x.pc = "get"
    BY <1>2 DEF Get, GetFails
<1>4. x.room \in RoomIDs
    BY <1>2, <1>3 DEF CallShape
<1>5. TotalLikes(x.room) \in 0..(Word - 1) /\ 0 \in 0..(Word - 1)
    BY <1>4, ParseUintRange, Consts
<1>6. PICK u \in BOOLEAN, n \in 0..(Word - 1) :
         /\ call' = [call EXCEPT ![g] = [x EXCEPT !.pc = "show", !.unread = u, !.likes = n]]
         /\ n = TotalLikes(x.room) \/ (n = 0 /\ u = TRUE)
  <2>1. CASE Get(g)
    <3>1. call' = [call EXCEPT ![g] = [x EXCEPT !.pc = "show", !.unread = FALSE, !.likes = TotalLikes(x.room)]]
        BY <1>1, <1>2, <2>1 DEF Get
    <3> QED
        BY <3>1, <1>5, Zenon
  <2>2. CASE GetFails(g)
    <3>1. call' = [call EXCEPT ![g] = [x EXCEPT !.pc = "show", !.unread = TRUE, !.likes = 0]]
        BY <1>1, <1>2, <2>2 DEF GetFails
    <3> QED
        BY <3>1, <1>5, Zenon
  <2> QED
      BY <2>1, <2>2
<1>7. PICK y : y = [x EXCEPT !.pc = "show", !.unread = u, !.likes = n]
    OBVIOUS
<1>8. /\ y \in Call /\ y.pc = "show" /\ y.room = x.room /\ y.todo = x.todo /\ y.batch = x.batch
      /\ y.overlapped = x.overlapped /\ y.unread = u /\ y.likes = n
    BY <1>7 DEF Call
<1>9. call' \in [Calls -> Call] /\ call'[g] = y /\ \A h \in Calls : h # g => call'[h] = call[h]
    BY <1>1, <1>6, <1>7, <1>8, OneCall
<1> QED
    BY <1>2, <1>3, <1>6, <1>8, <1>9 DEF Others

LEMMA ShowCall ==
    ASSUME TypeOK, NEW g \in Calls, CallShape(g), Show(g)
    PROVE  /\ call' \in [Calls -> Call] /\ Others(g)
           /\ call[g].pc = "show" /\ call[g].room \in RoomIDs /\ call'[g].pc \in {"idle", "loop"}
           /\ call'[g].pc = "loop" => call'[g].todo = call[g].todo
           /\ call'[g].pc = "idle" => \A r \in RoomIDs : call'[g].batch[r] = {}
           /\ call'[g].pc # "idle" => (call'[g].overlapped <=> call[g].overlapped)
           /\ \A r \in RoomIDs : call'[g].batch[r] = call[g].batch[r]
<1>1. call \in [Calls -> Call]
    BY DEF TypeOK
<1>2. PICK x \in Call : x = call[g]
    BY <1>1
<1>3. x.pc = "show" /\ x.room \in RoomIDs /\ \A r \in RoomIDs : x.batch[r] # {} => r \in x.todo
    BY <1>2 DEF Show, CallShape
<1>4. PICK y : y = IF x.todo = {} THEN Idle
                   ELSE [x EXCEPT !.pc = "loop", !.room = None, !.likes = 0, !.unread = FALSE]
    OBVIOUS
<1>5. call' = [call EXCEPT ![g] = y]
    BY <1>1, <1>2, <1>4 DEF Show
<1>6. /\ y \in Call /\ y.pc \in {"idle", "loop"} /\ (y.pc = "loop" => y.todo = x.todo)
      /\ y.pc = "idle" => \A r \in RoomIDs : y.batch[r] = {}
      /\ y.pc # "idle" => (y.overlapped <=> x.overlapped)
      /\ \A r \in RoomIDs : y.batch[r] = x.batch[r]
  <2>1. CASE x.todo = {}
      BY <1>3, <1>4, <2>1, IdleFields
  <2>2. CASE x.todo # {}
    <3>1. y = [x EXCEPT !.pc = "loop", !.room = None, !.likes = 0, !.unread = FALSE]
        BY <1>4, <2>2
    <3>2. 0 \in 0..(Word - 1)
        BY Consts
    <3> QED
        BY <3>1, <3>2 DEF Call
  <2> QED
      BY <2>1, <2>2
<1>7. call' \in [Calls -> Call] /\ call'[g] = y /\ \A h \in Calls : h # g => call'[h] = call[h]
    BY <1>1, <1>5, <1>6, OneCall
<1> QED
    BY <1>2, <1>3, <1>6, <1>7 DEF Others

----------------------------------------------------------------------------
(* What each step does to the reports under way. *)

LEMMA SumOfNone == Sum({}) = 0
<1>1. Total(Clicks, {}) = 0
    BY TotalStep, FS_EmptySet
<1> QED
    BY <1>1 DEF Sum, Total

(* The likes of a batch whose uint64 is 0, which is not reported. *)
Discarded(g, r) == IF LikesDelta(call[g].batch[r]) = 0 THEN call[g].batch[r] ELSE {}

(* A call reports a batch or discards it. *)
LEMMA ReportIncr ==
    ASSUME TypeOK, NEW g \in Calls, NEW r \in RoomIDs, Report(g, r)
    PROVE  \/ LikesDelta(call[g].batch[r]) = 0 /\ incrs' = incrs
           \/ \E n \in Incr : /\ incrs' = incrs \cup {n} /\ call[g].batch[r] # {}
                              /\ LikesDelta(call[g].batch[r]) # 0
                              /\ n.room = r /\ n.likes = call[g].batch[r] /\ ~n.again
<1>1. call[g].batch[r] \in SUBSET Likes
    BY CallFields DEF TypeOK
<1>2. /\ LikesDelta(call[g].batch[r]) > 0 <=> LikesDelta(call[g].batch[r]) # 0
      /\ LikesDelta({}) = 0
    BY <1>1, DeltaFacts, SumOfNone, Consts
<1>3. CASE LikesDelta(call[g].batch[r]) = 0
    BY <1>2, <1>3 DEF Report
<1>4. CASE LikesDelta(call[g].batch[r]) # 0
  <2>1. PICK b \in SUBSET Likes : b = call[g].batch[r]
      BY <1>1
  <2>2. PICK n : n = [room |-> r, likes |-> b, again |-> FALSE]
      OBVIOUS
  <2>3. incrs' = incrs \cup {n}
      BY <1>2, <1>4, <2>1, <2>2 DEF Report
  <2>4. n \in Incr /\ n.room = r /\ n.likes = b /\ ~n.again
      BY <2>2 DEF Incr
  <2> QED
      BY <1>2, <1>4, <2>1, <2>3, <2>4
<1> QED
    BY <1>3, <1>4

LEMMA IncrFields ==
    ASSUME NEW i \in Incr
    PROVE  i.room \in RoomIDs /\ i.likes \in SUBSET Likes /\ i.again \in BOOLEAN
BY DEF Incr

(* A report leaves, or stays to be sent again. *)
LEMMA AgainIncr ==
    ASSUME NEW i \in incrs, incrs \in SUBSET Incr, IncrByAgain(i)
    PROVE  \E n \in Incr : /\ incrs' = (incrs \ {i}) \cup {n}
                           /\ n.room = i.room /\ n.likes = i.likes /\ n.again
<1>1. PICK j \in Incr : j = i
    OBVIOUS
<1>2. PICK n : n = [j EXCEPT !.again = TRUE]
    OBVIOUS
<1>3. n \in Incr /\ n.room = j.room /\ n.likes = j.likes /\ n.again
    BY <1>2 DEF Incr
<1>4. incrs' = (incrs \ {i}) \cup {n}
    BY <1>1, <1>2, Zenon DEF IncrByAgain
<1> QED
    BY <1>1, <1>3, <1>4

----------------------------------------------------------------------------
(* Types. *)

(* The parts of the state but the calls and the reports. *)
Plain == /\ presence \in [Clients -> {"outside", "inside", "left"}]
         /\ listening \in SUBSET RoomIDs
         /\ localLikes \in [RoomIDs -> SUBSET Likes]
         /\ redis \in [RoomIDs -> -Word..(Word - 1)]
         /\ shown \in [RoomIDs -> 0..(Word - 1)]
         /\ failures \in 0..MaxFailures
         /\ {pressed, counted, recounted, failed, exposed} \subseteq SUBSET Likes

LEMMA TypeParts == TypeOK <=> Plain /\ call \in [Calls -> Call] /\ incrs \in SUBSET Incr
BY DEF TypeOK, Plain

LEMMA PlainStep ==
    ASSUME TypeOK, \A g \in Calls : CallShape(g), SNext
    PROVE  Plain'
<1> USE TypeParts
<1>1. ASSUME NEW c \in Clients, JoinRoom(c) PROVE Plain'
    BY <1>1 DEF JoinRoom, Enter, Plain, history
<1>2. ASSUME NEW c \in Clients, LeaveRoom(c) PROVE Plain'
    BY <1>2, Consts DEF LeaveRoom, Leave, Plain
<1>3. ASSUME NEW l \in Likes, Like(l) PROVE Plain'
    BY <1>3, Consts DEF Like, AddLike, Plain, vars
<1>4. ASSUME NEW g \in Calls, Swap(g) PROVE Plain'
    BY <1>4 DEF Swap, AfterSwap, NoLikes, Plain, vars, history
<1>5. ASSUME NEW g \in Calls, LocalStats(g) \/ (\E r \in RoomIDs : Report(g, r)) \/ Get(g) PROVE Plain'
    BY <1>5 DEF LocalStats, Report, Get, Plain, vars, history
<1>6. ASSUME NEW g \in Calls, GetFails(g) PROVE Plain'
    BY <1>6, Consts DEF GetFails, Plain, vars, history
<1>7. ASSUME NEW g \in Calls, Show(g) PROVE Plain'
  <2>1. call[g].room \in RoomIDs /\ call[g].likes \in 0..(Word - 1)
      BY <1>7, ShowCall, CallFields DEF TypeOK
  <2> QED
      BY <1>7, <2>1 DEF Show, Plain, vars, history
<1>8. ASSUME NEW i \in incrs, IncrStep(i) PROVE Plain'
  <2>1. i.room \in RoomIDs /\ i.likes \in SUBSET Likes
      BY IncrFields DEF TypeOK
  <2>2. CASE IncrBy(i) \/ IncrByAgain(i)
    <3>1. Apply(i) /\ failures' \in 0..MaxFailures
        BY <2>2, Consts DEF IncrBy, IncrByAgain, TypeOK
    <3> QED
        BY <3>1, <2>1 DEF Apply, Plain, vars
  <2>3. CASE IncrFails(i)
      BY <2>3, <2>1, Consts DEF IncrFails, Plain, vars
  <2> QED
      BY <1>8, <2>2, <2>3 DEF IncrStep
<1> QED
    BY <1>1, <1>2, <1>3, <1>4, <1>5, <1>6, <1>7, <1>8 DEF SNext, CallStep

(* The steps of the connections and of the reports leave the calls alone. *)
Elsewhere == \/ \E c \in Clients : JoinRoom(c) \/ LeaveRoom(c)
             \/ \E l \in Likes : Like(l)
             \/ \E i \in incrs : IncrStep(i)

LEMMA CallsKept == Elsewhere => call' = call
<1>1. \A c \in Clients : JoinRoom(c) \/ LeaveRoom(c) => call' = call
    BY DEF JoinRoom, LeaveRoom
<1>2. \A l \in Likes : Like(l) => call' = call
    BY DEF Like
<1>3. \A i \in incrs : IncrStep(i) => call' = call
    BY DEF IncrStep, IncrBy, IncrByAgain, IncrFails, Apply
<1> QED
    BY <1>1, <1>2, <1>3 DEF Elsewhere

LEMMA SplitNext ==
    SNext <=> \/ Elsewhere
              \/ \E g \in Calls : \/ Swap(g) \/ LocalStats(g) \/ \E r \in RoomIDs : Report(g, r)
                                  \/ Get(g) \/ GetFails(g) \/ Show(g)
BY DEF SNext, Elsewhere, CallStep

LEMMA TypeStep ==
    ASSUME TypeOK, \A g \in Calls : CallShape(g), SNext
    PROVE  TypeOK'
<1>1. Plain'
    BY PlainStep
<1>2. call' \in [Calls -> Call]
  <2>1. call \in [Calls -> Call]
      BY DEF TypeOK
  <2> QED
      BY <2>1, SplitNext, CallsKept, SwapCall, LocalStatsCall, ReportCall, GetCall, ShowCall
<1>3. incrs' \in SUBSET Incr
  <2>0. incrs \in SUBSET Incr
      BY DEF TypeOK
  <2>1. ASSUME NEW c \in Clients, JoinRoom(c) \/ LeaveRoom(c) PROVE incrs' \in SUBSET Incr
      BY <2>0, <2>1 DEF JoinRoom, LeaveRoom
  <2>2. ASSUME NEW l \in Likes, Like(l) PROVE incrs' \in SUBSET Incr
      BY <2>0, <2>2 DEF Like
  <2>3. ASSUME NEW g \in Calls, Swap(g) \/ LocalStats(g) \/ Get(g) \/ GetFails(g) \/ Show(g)
        PROVE  incrs' \in SUBSET Incr
      BY <2>0, <2>3 DEF Swap, LocalStats, Get, GetFails, Show
  <2>4. ASSUME NEW g \in Calls, NEW r \in RoomIDs, Report(g, r) PROVE incrs' \in SUBSET Incr
      BY <2>0, <2>4, ReportIncr
  <2>5. ASSUME NEW i \in incrs, IncrStep(i) PROVE incrs' \in SUBSET Incr
      BY <2>0, <2>5, AgainIncr DEF IncrStep, IncrBy, IncrFails
  <2> QED
      BY <2>1, <2>2, <2>3, <2>4, <2>5 DEF SNext, CallStep
<1> QED
    BY <1>1, <1>2, <1>3 DEF TypeOK, Plain

(* A step of a call keeps the shape of every call. *)
LEMMA ShapeStep ==
    ASSUME TypeOK, \A g \in Calls : CallShape(g), SNext
    PROVE  \A g \in Calls : CallShape(g)'
<1>1. CASE Elsewhere
    BY <1>1, CallsKept DEF CallShape
<1>2. ASSUME NEW g \in Calls, Swap(g) PROVE \A h \in Calls : CallShape(h)'
    BY <1>2, SwapCall DEF CallShape
<1>3. ASSUME NEW g \in Calls, LocalStats(g) PROVE \A h \in Calls : CallShape(h)'
  <2>1. CallShape(g)'
      BY <1>3, LocalStatsCall DEF CallShape
  <2> QED
      BY <1>3, <2>1, LocalStatsCall DEF CallShape, Others
<1>4. ASSUME NEW g \in Calls, NEW r \in RoomIDs, Report(g, r) PROVE \A h \in Calls : CallShape(h)'
  <2>1. CallShape(g)'
    <3>1. /\ call[g].pc = "loop" /\ call'[g].pc = "get" /\ call'[g].room = r
          /\ call'[g].todo = call[g].todo \ {r} /\ call'[g].batch[r] = {}
          /\ \A q \in RoomIDs : q # r => call'[g].batch[q] = call[g].batch[q]
        BY <1>4, ReportCall DEF Report
    <3>2. \A q \in RoomIDs : call[g].batch[q] # {} => q \in call[g].todo
        BY <3>1 DEF CallShape
    <3>3. \A q \in RoomIDs : call'[g].batch[q] # {} => q \in call'[g].todo
        BY <3>1, <3>2
    <3> QED
        BY <3>1, <3>3 DEF CallShape
  <2> QED
      BY <1>4, <2>1, ReportCall DEF CallShape, Others
<1>5. ASSUME NEW g \in Calls, Get(g) \/ GetFails(g) PROVE \A h \in Calls : CallShape(h)'
  <2>1. CallShape(g)'
      BY <1>5, GetCall DEF CallShape
  <2> QED
      BY <1>5, <2>1, GetCall DEF CallShape, Others
<1>6. ASSUME NEW g \in Calls, Show(g) PROVE \A h \in Calls : CallShape(h)'
  <2>1. CallShape(g)'
    <3>1. /\ call[g].pc = "show" /\ call'[g].pc \in {"idle", "loop"}
          /\ call'[g].pc = "loop" => call'[g].todo = call[g].todo
          /\ call'[g].pc = "idle" => \A r \in RoomIDs : call'[g].batch[r] = {}
          /\ \A r \in RoomIDs : call'[g].batch[r] = call[g].batch[r]
        BY <1>6, ShowCall
    <3>2. \A r \in RoomIDs : call[g].batch[r] # {} => r \in call[g].todo
        BY <3>1 DEF CallShape
    <3> QED
        BY <3>1, <3>2 DEF CallShape
  <2> QED
      BY <1>6, <2>1, ShowCall DEF CallShape, Others
<1> QED
    BY <1>1, <1>2, <1>3, <1>4, <1>5, <1>6, SplitNext

LEMMA RoomsStep ==
    ASSUME TypeOK, RoomsKept, \A g \in Calls : CallShape(g), SNext
    PROVE  RoomsKept'
<1>1. ASSUME NEW r \in RoomIDs PROVE localLikes'[r] \subseteq OfRoom(r)
  <2>0. localLikes \in [RoomIDs -> SUBSET Likes] /\ localLikes[r] \subseteq OfRoom(r)
      BY DEF TypeOK, RoomsKept
  <2>1. ASSUME NEW l \in Likes, Like(l) PROVE localLikes'[r] \subseteq OfRoom(r)
    <3>1. localLikes'[r] = localLikes[r] \/ (r = RoomOfLike[l] /\ localLikes'[r] = localLikes[r] \cup {l})
        BY <2>0, <2>1, Consts DEF Like, AddLike
    <3> QED
        BY <2>0, <3>1, Consts
  <2>2. ASSUME NEW g \in Calls, Swap(g) PROVE localLikes'[r] \subseteq OfRoom(r)
      BY <2>2 DEF Swap, AfterSwap, NoLikes
  <2>3. CASE UNCHANGED localLikes
      BY <2>0, <2>3
  <2> QED
      BY <2>1, <2>2, <2>3 DEF SNext, JoinRoom, LeaveRoom, CallStep, LocalStats, Report, Get, GetFails, Show,
                              IncrStep, IncrBy, IncrByAgain, IncrFails, Apply
<1>2. ASSUME NEW g \in Calls, NEW r \in RoomIDs PROVE call'[g].batch[r] \subseteq OfRoom(r)
  <2>0. \A h \in Calls : call[h].batch[r] \subseteq OfRoom(r)
      BY DEF RoomsKept
  <2>1. CASE Elsewhere
      BY <2>0, <2>1, CallsKept
  <2>2. ASSUME NEW h \in Calls, Swap(h) PROVE call'[g].batch[r] \subseteq OfRoom(r)
    <3>1. localLikes[r] \subseteq OfRoom(r)
        BY DEF RoomsKept
    <3> QED
        BY <2>0, <2>2, <3>1, SwapCall
  <2>3. ASSUME NEW h \in Calls, LocalStats(h) PROVE call'[g].batch[r] \subseteq OfRoom(r)
      BY <2>0, <2>3, LocalStatsCall DEF Others
  <2>4. ASSUME NEW h \in Calls, NEW q \in RoomIDs, Report(h, q) PROVE call'[g].batch[r] \subseteq OfRoom(r)
      BY <2>0, <2>4, ReportCall DEF Others
  <2>5. ASSUME NEW h \in Calls, Get(h) \/ GetFails(h) PROVE call'[g].batch[r] \subseteq OfRoom(r)
      BY <2>0, <2>5, GetCall DEF Others
  <2>6. ASSUME NEW h \in Calls, Show(h) PROVE call'[g].batch[r] \subseteq OfRoom(r)
      BY <2>0, <2>6, ShowCall DEF Others
  <2> QED
      BY <2>1, <2>2, <2>3, <2>4, <2>5, <2>6, SplitNext
<1>3. ASSUME NEW i \in incrs' PROVE i.likes \subseteq OfRoom(i.room) /\ i.likes # {}
  <2>0. \A j \in incrs : j.likes \subseteq OfRoom(j.room) /\ j.likes # {}
      BY DEF RoomsKept
  <2>1. ASSUME NEW g \in Calls, NEW r \in RoomIDs, Report(g, r)
        PROVE  i.likes \subseteq OfRoom(i.room) /\ i.likes # {}
    <3>1. call[g].batch[r] \subseteq OfRoom(r)
        BY DEF RoomsKept
    <3> QED
        BY <1>3, <2>0, <2>1, <3>1, ReportIncr
  <2>2. ASSUME NEW j \in incrs, IncrByAgain(j) PROVE i.likes \subseteq OfRoom(i.room) /\ i.likes # {}
    <3>1. incrs \in SUBSET Incr
        BY DEF TypeOK
    <3> QED
        BY <1>3, <2>0, <2>2, <3>1, AgainIncr
  <2>3. CASE incrs' \subseteq incrs
      BY <1>3, <2>0, <2>3
  <2> QED
      BY <2>1, <2>2, <2>3 DEF SNext, JoinRoom, LeaveRoom, Like, CallStep, Swap, LocalStats, Get, GetFails, Show,
                              IncrStep, IncrBy, IncrFails, Apply
<1> QED
    BY <1>1, <1>2, <1>3 DEF RoomsKept

----------------------------------------------------------------------------
(* Where each like is. *)

SameBatches == \A h \in Calls : \A r \in RoomIDs : call'[h].batch[r] = call[h].batch[r]

LEMMA BatchSame ==
    ASSUME SameBatches, NEW l \in Likes
    PROVE  \A g \in Calls : InBatch(g, l)' <=> InBatch(g, l)
BY Consts DEF SameBatches, InBatch

(* The likes held are those held before but S. *)
HeldBut(S) == \A l \in Likes : IsHeld(l)' <=> IsHeld(l) /\ l \notin S

(* No like moves. *)
LEMMA LikesStay ==
    ASSUME LikeInv, SameBatches, UNCHANGED <<localLikes, incrs, pressed, counted, recounted>>
    PROVE  LikeInv' /\ HeldBut({})
<1>1. ASSUME NEW l \in Likes PROVE OnePlace(l)' /\ (IsHeld(l)' <=> IsHeld(l))
  <2>1. OnePlace(l)
      BY DEF LikeInv
  <2>2. /\ \A g \in Calls : InBatch(g, l)' <=> InBatch(g, l)
        /\ InMap(l)' <=> InMap(l)
        /\ InIncr(l)' <=> InIncr(l)
      BY BatchSame DEF InMap, InIncr
  <2>3. IsHeld(l)' <=> IsHeld(l)
      BY <2>2 DEF IsHeld
  <2>4. OnePlace(l)'
      BY <2>1, <2>2, <2>3 DEF OnePlace
  <2> QED
      BY <2>3, <2>4
<1> QED
    BY <1>1 DEF LikeInv, HeldBut

LEMMA LikePressed ==
    ASSUME TypeOK, LikeInv, NEW k \in Likes, Like(k)
    PROVE  /\ LikeInv'
           /\ \A l \in Likes : IsHeld(l)' <=> IsHeld(l) \/ l = k
<1>1. ASSUME NEW l \in Likes PROVE OnePlace(l)' /\ (IsHeld(l)' <=> IsHeld(l) \/ l = k)
  <2>1. OnePlace(l)
      BY DEF LikeInv
  <2>2. /\ UNCHANGED <<listening, call, incrs, counted, recounted, failed>>
        /\ k \notin pressed /\ pressed' = pressed \cup {k}
        /\ exposed \subseteq exposed' /\ (RoomOfLike[k] \notin listening => k \in exposed')
      BY DEF Like, vars
  <2>3. localLikes' = [localLikes EXCEPT ![RoomOfLike[k]] = @ \cup {k}] /\ localLikes \in [RoomIDs -> SUBSET Likes]
      BY DEF Like, AddLike, TypeOK
  <2>4. InMap(l)' <=> InMap(l) \/ l = k
      BY <2>3, Consts DEF InMap
  <2>5. /\ \A g \in Calls : InBatch(g, l)' <=> InBatch(g, l)
        /\ InIncr(l)' <=> InIncr(l)
      BY <2>2 DEF InBatch, InIncr
  <2>6. IsHeld(l)' <=> IsHeld(l) \/ l = k
      BY <2>4, <2>5 DEF IsHeld
  <2>7. OnePlace(l)'
    <3>1. CASE l = k
      <4>1. /\ ~IsHeld(l) /\ l \notin counted /\ l \notin recounted
            /\ \A i \in incrs : l \notin i.likes
          BY <2>1, <2>2, <3>1 DEF OnePlace
      <4>2. \A g \in Calls : ~InBatch(g, l)
          BY <4>1 DEF IsHeld
      <4> QED
          BY <4>1, <4>2, <2>2, <2>5, <3>1 DEF OnePlace
    <3>2. CASE l # k
        BY <2>1, <2>2, <2>4, <2>5, <2>6, <3>2 DEF OnePlace
    <3> QED
        BY <3>1, <3>2
  <2> QED
      BY <2>6, <2>7
<1> QED
    BY <1>1 DEF LikeInv

LEMMA LikeSwapped ==
    ASSUME TypeOK, LikeInv, NEW g \in Calls, CallShape(g), Swap(g)
    PROVE  LikeInv' /\ HeldBut({})
<1>1. ASSUME NEW l \in Likes PROVE OnePlace(l)' /\ (IsHeld(l)' <=> IsHeld(l))
  <2>1. OnePlace(l)
      BY DEF LikeInv
  <2>2. UNCHANGED <<listening, incrs, pressed, counted, recounted, failed, exposed>>
      BY DEF Swap, vars, history
  <2>3. ~InMap(l)'
      BY Consts DEF InMap, Swap, AfterSwap, NoLikes
  <2>4. /\ ~InBatch(g, l)
        /\ InBatch(g, l)' <=> InMap(l)
        /\ \A h \in Calls : h # g => (InBatch(h, l)' <=> InBatch(h, l))
        /\ InIncr(l)' <=> InIncr(l)
    <3>1. call[g].pc = "idle"
        BY DEF Swap
    <3> QED
        BY <2>2, <3>1, SwapCall, Consts DEF InBatch, InMap, InIncr, CallShape
  <2>5. IsHeld(l)' <=> IsHeld(l)
      BY <2>3, <2>4 DEF IsHeld
  <2>6. OnePlace(l)'
      BY <2>1, <2>2, <2>3, <2>4, <2>5 DEF OnePlace
  <2> QED
      BY <2>5, <2>6
<1> QED
    BY <1>1 DEF LikeInv, HeldBut

(* The likes of a room without an entry are dropped. *)
Dropped(g) == {l \in Likes : InBatch(g, l) /\ RoomOfLike[l] \notin listening}

LEMMA LikeDropped ==
    ASSUME TypeOK, LikeInv, NEW g \in Calls, LocalStats(g)
    PROVE  LikeInv' /\ HeldBut(Dropped(g))
<1>1. ASSUME NEW l \in Likes PROVE OnePlace(l)' /\ (IsHeld(l)' <=> IsHeld(l) /\ l \notin Dropped(g))
  <2>1. OnePlace(l)
      BY DEF LikeInv
  <2>2. UNCHANGED <<listening, localLikes, incrs, pressed, counted, recounted, failed, exposed>>
      BY DEF LocalStats, vars, history
  <2>3. /\ InBatch(g, l)' <=> InBatch(g, l) /\ RoomOfLike[l] \in listening
        /\ \A h \in Calls : h # g => (InBatch(h, l)' <=> InBatch(h, l))
      BY LocalStatsCall, Consts DEF InBatch, Others
  <2>4. (InMap(l)' <=> InMap(l)) /\ (InIncr(l)' <=> InIncr(l))
      BY <2>2 DEF InMap, InIncr
  <2>5. /\ IsHeld(l)' => IsHeld(l)
        /\ (IsHeld(l) /\ ~IsHeld(l)') => RoomOfLike[l] \notin listening
      BY <2>3, <2>4 DEF IsHeld
  <2>6. IsHeld(l)' <=> IsHeld(l) /\ l \notin Dropped(g)
    <3>1. l \in Dropped(g) <=> InBatch(g, l) /\ RoomOfLike[l] \notin listening
        BY DEF Dropped
    <3>2. InBatch(g, l) => /\ ~InMap(l) /\ ~InIncr(l)
                           /\ \A h \in Calls : InBatch(h, l) => h = g
        BY <2>1 DEF OnePlace, InIncr
    <3> QED
        BY <2>3, <2>4, <3>1, <3>2 DEF IsHeld
  <2>7. OnePlace(l)'
      BY <2>1, <2>2, <2>3, <2>4, <2>5 DEF OnePlace
  <2> QED
      BY <2>6, <2>7
<1> QED
    BY <1>1 DEF LikeInv, HeldBut

(* A batch becomes a report, or is discarded. *)
LEMMA LikeReported ==
    ASSUME TypeOK, RoomsKept, LikeInv, NEW g \in Calls, NEW r \in RoomIDs, Report(g, r)
    PROVE  LikeInv' /\ HeldBut(Discarded(g, r))
<1>0. UNCHANGED <<localLikes, pressed, counted, recounted>>
    BY DEF Report, history
<1>1. PICK b \in SUBSET Likes : b = call[g].batch[r]
    BY CallFields DEF TypeOK
<1>2. \A l \in Likes : l \in b <=> InBatch(g, l) /\ RoomOfLike[l] = r
    BY <1>1, Consts DEF RoomsKept, InBatch
<1>3. ASSUME NEW l \in Likes
      PROVE  /\ InMap(l)' <=> InMap(l)
             /\ InBatch(g, l)' <=> InBatch(g, l) /\ l \notin b
             /\ \A h \in Calls : h # g => (InBatch(h, l)' <=> InBatch(h, l))
    BY <1>0, <1>2, ReportCall, Consts DEF InMap, InBatch, Others
<1>4. ASSUME NEW l \in Likes, l \in b
      PROVE  /\ ~InMap(l) /\ l \in pressed /\ l \notin counted /\ l \notin recounted
             /\ \A h \in Calls : ~InBatch(h, l)'
             /\ \A i \in incrs : l \notin i.likes
  <2>1. InBatch(g, l) /\ OnePlace(l)
      BY <1>2, <1>4 DEF LikeInv
  <2>2. l \in pressed
      BY <2>1 DEF OnePlace, IsHeld
  <2>3. \A h \in Calls : InBatch(h, l) => h = g
      BY <2>1 DEF OnePlace
  <2> QED
      BY <1>3, <1>4, <2>1, <2>2, <2>3 DEF OnePlace
<1>5. ASSUME LikesDelta(b) = 0, incrs' = incrs PROVE LikeInv' /\ HeldBut(b)
  <2>1. ASSUME NEW l \in Likes PROVE OnePlace(l)' /\ (IsHeld(l)' <=> IsHeld(l) /\ l \notin b)
    <3>1. OnePlace(l)
        BY DEF LikeInv
    <3>2. InIncr(l)' <=> InIncr(l)
        BY <1>5 DEF InIncr
    <3>3. IsHeld(l)' <=> IsHeld(l) /\ l \notin b
      <4>1. CASE l \in b
          BY <1>3, <1>4, <3>2, <4>1 DEF IsHeld, InIncr
      <4>2. CASE l \notin b
          BY <1>3, <3>2, <4>2 DEF IsHeld
      <4> QED
          BY <4>1, <4>2
    <3>4. OnePlace(l)'
      <4>1. CASE l \in b
          BY <1>0, <1>3, <1>4, <1>5, <3>1, <4>1 DEF OnePlace
      <4>2. CASE l \notin b
          BY <1>0, <1>3, <1>5, <3>1, <3>3, <4>2 DEF OnePlace
      <4> QED
          BY <4>1, <4>2
    <3> QED
        BY <3>3, <3>4
  <2> QED
      BY <2>1 DEF LikeInv, HeldBut
<1>6. ASSUME NEW n \in Incr, incrs' = incrs \cup {n}, n.likes = b, ~n.again
      PROVE  LikeInv' /\ HeldBut({})
  <2>1. ASSUME NEW l \in Likes PROVE OnePlace(l)' /\ (IsHeld(l)' <=> IsHeld(l))
    <3>1. OnePlace(l)
        BY DEF LikeInv
    <3>2. InIncr(l)' <=> InIncr(l) \/ l \in b
        BY <1>6 DEF InIncr
    <3>3. IsHeld(l)' <=> IsHeld(l)
        BY <1>2, <1>3, <3>2 DEF IsHeld
    <3>4. OnePlace(l)'
      <4>1. CASE l \in b
        <5>1. \A i \in incrs' : l \in i.likes => i = n
            BY <1>4, <1>6, <4>1
        <5> QED
            BY <1>0, <1>3, <1>4, <1>6, <4>1, <5>1 DEF OnePlace
      <4>2. CASE l \notin b
        <5>1. \A i \in incrs' : l \in i.likes => i \in incrs
            BY <1>6, <4>2
        <5> QED
            BY <1>0, <1>3, <3>1, <3>3, <4>2, <5>1 DEF OnePlace
      <4> QED
          BY <4>1, <4>2
    <3> QED
        BY <3>3, <3>4
  <2> QED
      BY <2>1 DEF LikeInv, HeldBut
<1>7. Discarded(g, r) = IF LikesDelta(b) = 0 THEN b ELSE {}
    BY <1>1 DEF Discarded
<1> QED
    BY <1>1, <1>5, <1>6, <1>7, ReportIncr

(* A report is applied, and is sent again, or fails. *)
LEMMA LikeIncremented ==
    ASSUME TypeOK, LikeInv, NEW i \in incrs, IncrStep(i)
    PROVE  LikeInv' /\ HeldBut(i.likes)
<1>0. /\ UNCHANGED <<listening, localLikes, call, pressed, exposed>>
      /\ incrs \in SUBSET Incr /\ i.again \in BOOLEAN
    BY IncrFields DEF IncrStep, IncrBy, IncrByAgain, IncrFails, Apply, vars, TypeOK
<1>1. ASSUME NEW l \in Likes PROVE OnePlace(l)' /\ (IsHeld(l)' <=> IsHeld(l) /\ l \notin i.likes)
  <2>1. OnePlace(l)
      BY DEF LikeInv
  <2>2. /\ InMap(l)' <=> InMap(l)
        /\ \A g \in Calls : InBatch(g, l)' <=> InBatch(g, l)
      BY <1>0 DEF InMap, InBatch
  <2>3. ASSUME l \notin i.likes
        PROVE  OnePlace(l)' /\ (IsHeld(l)' <=> IsHeld(l))
    <3>1. /\ \A j \in incrs' : l \in j.likes => j \in incrs
          /\ \A j \in incrs : l \in j.likes => j \in incrs'
        BY <1>0, <2>3, AgainIncr DEF IncrStep, IncrBy, IncrFails
    <3>2. /\ l \in counted' <=> l \in counted
          /\ l \in recounted' <=> l \in recounted
          /\ l \in failed' <=> l \in failed
        BY <2>3 DEF IncrStep, IncrBy, IncrByAgain, IncrFails, Apply
    <3>3. InIncr(l)' <=> InIncr(l)
        BY <3>1 DEF InIncr
    <3>4. IsHeld(l)' <=> IsHeld(l)
        BY <2>2, <3>3 DEF IsHeld
    <3>5. OnePlace(l)'
        BY <1>0, <2>1, <2>2, <3>1, <3>2, <3>4 DEF OnePlace
    <3> QED
        BY <3>4, <3>5
  <2>4. ASSUME l \in i.likes
        PROVE  OnePlace(l)' /\ ~IsHeld(l)'
    <3>1. /\ ~InMap(l) /\ \A g \in Calls : ~InBatch(g, l)
          /\ \A j \in incrs : l \in j.likes => j = i
          /\ i.again <=> l \in counted
          /\ l \in pressed /\ (l \in recounted => l \in counted)
        BY <2>1, <2>4 DEF OnePlace
    <3>2. CASE IncrBy(i)
      <4>1. incrs' = incrs \ {i} /\ l \in counted'
            BY <2>4, <3>1, <3>2 DEF IncrBy, Apply
      <4>2. \A j \in incrs' : l \notin j.likes
          BY <3>1, <4>1
      <4>3. OnePlace(l)'
          BY <1>0, <2>2, <3>1, <4>1, <4>2 DEF OnePlace
      <4>4. ~IsHeld(l)'
          BY <2>2, <3>1, <4>2 DEF IsHeld, InIncr
      <4> QED
          BY <4>3, <4>4
    <3>3. CASE IncrByAgain(i)
      <4>1. PICK n \in Incr : incrs' = (incrs \ {i}) \cup {n} /\ n.likes = i.likes /\ n.again
          BY <1>0, <3>3, AgainIncr
      <4>2. l \in counted'
            BY <2>4, <3>1, <3>3 DEF IncrByAgain, Apply
      <4>3. \A j \in incrs' : l \in j.likes => j = n
          BY <3>1, <4>1
      <4>4. OnePlace(l)'
          BY <1>0, <2>2, <3>1, <4>1, <4>2, <4>3 DEF OnePlace
      <4>5. ~IsHeld(l)'
          BY <2>2, <3>1, <4>1, <4>3 DEF IsHeld, InIncr
      <4> QED
          BY <4>4, <4>5
    <3>4. CASE IncrFails(i)
      <4>1. incrs' = incrs \ {i} /\ UNCHANGED <<counted, recounted>>
          BY <3>4 DEF IncrFails
      <4>2. \A j \in incrs' : l \notin j.likes
          BY <3>1, <4>1
      <4>3. OnePlace(l)'
          BY <1>0, <2>2, <3>1, <4>1, <4>2 DEF OnePlace
      <4>4. ~IsHeld(l)'
          BY <2>2, <3>1, <4>2 DEF IsHeld, InIncr
      <4> QED
          BY <4>3, <4>4
    <3> QED
        BY <3>2, <3>3, <3>4 DEF IncrStep
  <2> QED
      BY <2>3, <2>4
<1> QED
    BY <1>1 DEF LikeInv, HeldBut

(* The steps that move no like. *)
Looks == \/ \E c \in Clients : JoinRoom(c) \/ LeaveRoom(c)
         \/ \E g \in Calls : Get(g) \/ GetFails(g) \/ Show(g)

LEMMA LikeLookedAt ==
    ASSUME TypeOK, \A g \in Calls : CallShape(g), LikeInv, Looks
    PROVE  LikeInv' /\ HeldBut({})
<1>1. UNCHANGED <<localLikes, incrs, pressed, counted, recounted>>
    BY DEF Looks, JoinRoom, LeaveRoom, Get, GetFails, Show, history
<1>2. SameBatches
  <2>1. ASSUME NEW c \in Clients, JoinRoom(c) \/ LeaveRoom(c) PROVE SameBatches
      BY <2>1 DEF JoinRoom, LeaveRoom, SameBatches
  <2>2. ASSUME NEW g \in Calls, Get(g) \/ GetFails(g) \/ Show(g) PROVE SameBatches
      BY <2>2, GetCall, ShowCall DEF SameBatches, Others
  <2> QED
      BY <2>1, <2>2 DEF Looks
<1> QED
    BY <1>1, <1>2, LikesStay

LEMMA LikeStep ==
    ASSUME TypeOK, RoomsKept, \A g \in Calls : CallShape(g), LikeInv, SNext
    PROVE  LikeInv'
<1>1. Looks => LikeInv'
    BY LikeLookedAt
<1> QED
    BY <1>1, LikePressed, LikeSwapped, LikeDropped, LikeReported, LikeIncremented DEF SNext, CallStep, Looks

(* The likes of every report have been added equally often. *)
LEMMA TogetherStep ==
    ASSUME TypeOK, RoomsKept, LikeInv, Together, SNext
    PROVE  Together'
<1>0. incrs \in SUBSET Incr /\ \A i \in incrs : i.likes \in SUBSET Likes /\ i.again \in BOOLEAN
    BY IncrFields DEF TypeOK
<1>1. ASSUME NEW g \in Calls, NEW r \in RoomIDs, Report(g, r) PROVE Together'
  <2>1. UNCHANGED recounted
      BY <1>1 DEF Report, history
  <2>2. call[g].batch[r] \cap recounted = {}
    <3>1. ASSUME NEW l \in call[g].batch[r] PROVE l \notin recounted
      <4>1. l \in Likes /\ RoomOfLike[l] = r
          BY CallFields, Consts DEF TypeOK, RoomsKept
      <4>2. InBatch(g, l) /\ OnePlace(l)
          BY <4>1 DEF InBatch, LikeInv
      <4> QED
          BY <4>2 DEF OnePlace
    <3> QED
        BY <3>1
  <2> QED
      BY <1>1, <2>1, <2>2, ReportIncr DEF Together
<1>2. ASSUME NEW i \in incrs, Apply(i), NEW j \in incrs
      PROVE  \/ j.likes \subseteq recounted' \/ j.likes \cap recounted' = {}
             \/ j # i /\ i.likes \cap j.likes # {}
  <2>1. recounted' = IF i.again THEN recounted \cup i.likes ELSE recounted
      BY <1>2 DEF Apply
  <2>2. j.likes \subseteq recounted \/ j.likes \cap recounted = {}
      BY DEF Together
  <2> QED
      BY <2>1, <2>2
<1>3. ASSUME NEW i \in incrs, NEW j \in incrs, j # i PROVE i.likes \cap j.likes = {}
  <2>1. \A l \in Likes : l \in i.likes /\ l \in j.likes => i = j
      BY DEF LikeInv, OnePlace
  <2> QED
      BY <1>0, <1>3, <2>1
<1>4. ASSUME NEW i \in incrs, IncrStep(i) PROVE Together'
  <2>1. CASE IncrBy(i)
    <3>1. Apply(i) /\ incrs' \subseteq incrs
        BY <2>1 DEF IncrBy
    <3> QED
        BY <1>2, <1>3, <3>1 DEF Together
  <2>2. CASE IncrByAgain(i)
    <3>1. PICK n \in Incr : incrs' = (incrs \ {i}) \cup {n} /\ n.likes = i.likes
        BY <1>0, <2>2, AgainIncr
    <3>2. Apply(i)
        BY <2>2 DEF IncrByAgain
    <3> QED
        BY <1>2, <1>3, <3>1, <3>2 DEF Together
  <2>3. CASE IncrFails(i)
      BY <2>3 DEF IncrFails, Together
  <2> QED
      BY <1>4, <2>1, <2>2, <2>3 DEF IncrStep
<1>5. CASE UNCHANGED <<incrs, recounted>>
    BY <1>5 DEF Together
<1> QED
    BY <1>1, <1>4, <1>5 DEF SNext, JoinRoom, LeaveRoom, Like, CallStep, Swap, LocalStats, Get, GetFails, Show, history

(* What keeps the reasons: a like that is gone stays gone, and one that is   *)
(* held no more has been counted, has failed, was exposed or is wiped out.   *)
LEMMA ReasonKept ==
    ASSUME Reasons,
           pressed \subseteq pressed', counted \subseteq counted',
           failed \subseteq failed', exposed \subseteq exposed',
           \A l \in Likes : (l \in pressed /\ IsHeld(l)') => IsHeld(l),
           \A l \in Likes : l \in counted' => l \in counted \/ IsHeld(l),
           \A l \in Likes : l \in pressed' => l \in pressed \/ IsHeld(l)',
           \A l \in Likes : (IsHeld(l) /\ ~IsHeld(l)') =>
                               l \in counted' \cup failed' \cup exposed' \/ Wiped(l)',
           \A l \in Likes : (l \in pressed' /\ RoomOfLike[l] \notin listening') => l \in exposed'
    PROVE  Reasons'
<1>1. \A l \in Likes : IsGone(l) => IsGone(l)'
    BY DEF IsGone
<1>2. ASSUME NEW l \in Likes, Wiped(l) PROVE Wiped(l)'
  <2>1. PICK B \in SUBSET OfRoom(RoomOfLike[l]) :
           l \in B /\ LikesDelta(B) = 0 /\ \A k \in B : IsGone(k)
      BY <1>2 DEF Wiped
  <2>2. \A k \in B : IsGone(k)'
      BY <1>1, <2>1 DEF OfRoom
  <2> QED
      BY <2>1, <2>2 DEF Wiped
<1>3. ASSUME NEW l \in Likes PROVE Reason(l)'
  <2>1. Reason(l)
      BY DEF Reasons
  <2> QED
      BY <1>2, <2>1 DEF Reason
<1> QED
    BY <1>3 DEF Reasons

LEMMA ExposedNow ==
    ASSUME Reasons
    PROVE  \A l \in Likes : (l \in pressed /\ RoomOfLike[l] \notin listening) => l \in exposed
BY DEF Reasons, Reason

LEMMA ReasonStep ==
    ASSUME TypeOK, RoomsKept, \A g \in Calls : CallShape(g), LikeInv, LikeInv', Reasons, SNext
    PROVE  Reasons'
<1>0. \A l \in Likes : (l \in pressed /\ RoomOfLike[l] \notin listening) => l \in exposed
    BY ExposedNow
<1>1. ASSUME NEW c \in Clients, JoinRoom(c) PROVE Reasons'
  <2>1. UNCHANGED <<pressed, counted, failed, exposed>> /\ listening \subseteq listening'
      BY <1>1 DEF JoinRoom, Enter, history
  <2>2. HeldBut({})
      BY <1>1, LikeLookedAt DEF Looks
  <2> QED
      BY <1>0, <2>1, <2>2, ReasonKept DEF HeldBut
<1>2. ASSUME NEW c \in Clients, LeaveRoom(c) PROVE Reasons'
  <2>1. /\ UNCHANGED <<pressed, counted, failed>>
        /\ exposed \subseteq exposed' /\ listening \ {RoomOf[c]} \subseteq listening'
        /\ RoomOf[c] \notin listening' => pressed \cap OfRoom(RoomOf[c]) \subseteq exposed'
      BY <1>2 DEF LeaveRoom, Leave
  <2>2. HeldBut({})
      BY <1>2, LikeLookedAt DEF Looks
  <2>3. \A l \in Likes : (l \in pressed /\ RoomOfLike[l] \notin listening') => l \in exposed'
    <3>1. RoomOf[c] \in RoomIDs
        OBVIOUS
    <3> QED
        BY <1>0, <2>1, <3>1, Consts
  <2> QED
      BY <2>1, <2>2, <2>3, ReasonKept DEF HeldBut
<1>3. ASSUME NEW k \in Likes, Like(k) PROVE Reasons'
  <2>1. /\ UNCHANGED <<listening, counted, failed>>
        /\ k \notin pressed /\ pressed' = pressed \cup {k}
        /\ exposed \subseteq exposed' /\ (RoomOfLike[k] \notin listening => k \in exposed')
      BY <1>3 DEF Like, vars
  <2>2. \A l \in Likes : IsHeld(l)' <=> IsHeld(l) \/ l = k
      BY <1>3, LikePressed
  <2> QED
      BY <1>0, <2>1, <2>2, ReasonKept
<1>4. ASSUME NEW g \in Calls, Swap(g) \/ Get(g) \/ GetFails(g) \/ Show(g) PROVE Reasons'
  <2>1. UNCHANGED <<listening, pressed, counted, failed, exposed>>
      BY <1>4 DEF Swap, Get, GetFails, Show, vars, history
  <2>2. HeldBut({})
      BY <1>4, LikeSwapped, LikeLookedAt DEF Looks
  <2> QED
      BY <1>0, <2>1, <2>2, ReasonKept DEF HeldBut
<1>5. ASSUME NEW g \in Calls, LocalStats(g) PROVE Reasons'
  <2>1. UNCHANGED <<listening, pressed, counted, failed, exposed>>
      BY <1>5 DEF LocalStats, vars, history
  <2>2. HeldBut(Dropped(g))
      BY <1>5, LikeDropped
  <2>3. \A l \in Likes : l \in Dropped(g) => l \in exposed'
    <3>1. \A l \in Likes : OnePlace(l)
        BY DEF LikeInv
    <3>2. \A l \in Likes : l \in Dropped(g) => l \in pressed /\ RoomOfLike[l] \notin listening
        BY <1>5, <3>1 DEF Dropped, OnePlace, IsHeld
    <3> QED
        BY <1>0, <2>1, <3>2
  <2> QED
      BY <1>0, <2>1, <2>2, <2>3, ReasonKept DEF HeldBut
<1>6. ASSUME NEW g \in Calls, NEW r \in RoomIDs, Report(g, r) PROVE Reasons'
  <2>1. UNCHANGED <<listening, pressed, counted, failed, exposed>>
      BY <1>6 DEF Report, vars, history
  <2>2. HeldBut(Discarded(g, r))
      BY <1>6, LikeReported
  <2>3. \A l \in Likes : l \in Discarded(g, r) => Wiped(l)'
    <3> SUFFICES ASSUME NEW l \in Likes, l \in Discarded(g, r) PROVE Wiped(l)'
        OBVIOUS
    <3>1. PICK B \in SUBSET Likes : B = call[g].batch[r] /\ LikesDelta(B) = 0 /\ B = Discarded(g, r)
        BY CallFields DEF Discarded, TypeOK
    <3>2. B \subseteq OfRoom(r) /\ RoomOfLike[l] = r /\ l \in B
      <4>1. B \subseteq OfRoom(r) /\ l \in B
          BY <3>1 DEF RoomsKept
      <4> QED
          BY <4>1, Consts
    <3>3. ASSUME NEW k \in B PROVE IsGone(k)'
      <4>1. k \in Likes /\ InBatch(g, k) /\ OnePlace(k)
          BY <3>1, <3>2, Consts DEF InBatch, LikeInv
      <4>2. k \in pressed /\ k \notin counted
          BY <4>1 DEF OnePlace, IsHeld
      <4>3. ~IsHeld(k)'
          BY <2>2, <3>1, <4>1 DEF HeldBut
      <4> QED
          BY <2>1, <4>2, <4>3 DEF IsGone
    <3> QED
        BY <3>1, <3>2, <3>3 DEF Wiped
  <2> QED
      BY <1>0, <2>1, <2>2, <2>3, ReasonKept DEF HeldBut
<1>7. ASSUME NEW i \in incrs, IncrStep(i) PROVE Reasons'
  <2>1. /\ UNCHANGED <<listening, pressed, exposed>> /\ failed \subseteq failed'
        /\ counted \subseteq counted' /\ i.likes \in SUBSET Likes /\ i.again \in BOOLEAN
      BY <1>7, IncrFields DEF IncrStep, IncrBy, IncrByAgain, IncrFails, Apply, vars, TypeOK
  <2>2. HeldBut(i.likes)
      BY <1>7, LikeIncremented
  <2>3. \A l \in Likes : (l \in i.likes /\ IsHeld(l)) => l \in counted' \cup failed'
    <3>1. CASE IncrFails(i)
        BY <3>1 DEF IncrFails
    <3>2. CASE Apply(i)
      <4>1. \A l \in Likes : l \in i.likes => (i.again <=> l \in counted)
          BY DEF LikeInv, OnePlace
      <4> QED
          BY <2>1, <3>2, <4>1 DEF Apply
    <3> QED
        BY <1>7, <3>1, <3>2 DEF IncrStep, IncrBy, IncrByAgain
  <2>4. \A l \in Likes : l \in counted' => l \in counted \/ IsHeld(l)
    <3>1. counted' = counted \/ (~i.again /\ counted' = counted \cup i.likes)
        BY <1>7 DEF IncrStep, IncrBy, IncrByAgain, IncrFails, Apply
    <3> QED
        BY <3>1 DEF IsHeld, InIncr
  <2> QED
      BY <1>0, <2>1, <2>2, <2>3, <2>4, ReasonKept DEF HeldBut
<1> QED
    BY <1>1, <1>2, <1>3, <1>4, <1>5, <1>6, <1>7 DEF SNext, CallStep

----------------------------------------------------------------------------
(* The totals. *)

(* A call ends, or keeps the mark of the company it has had. *)
LEMMA MarkKept ==
    ASSUME TypeOK, NEW g \in Calls, CallShape(g),
           LocalStats(g) \/ (\E r \in RoomIDs : Report(g, r)) \/ Get(g) \/ GetFails(g) \/ Show(g)
    PROVE  /\ Others(g) /\ call[g].pc # "idle"
           /\ call'[g].pc # "idle" => (call'[g].overlapped <=> call[g].overlapped)
<1>1. CASE LocalStats(g)
    BY <1>1, LocalStatsCall DEF LocalStats
<1>2. CASE \E r \in RoomIDs : Report(g, r)
    BY <1>2, ReportCall DEF Report
<1>3. CASE Get(g) \/ GetFails(g)
    BY <1>3, GetCall
<1>4. CASE Show(g)
    BY <1>4, ShowCall
<1> QED
    BY <1>1, <1>2, <1>3, <1>4

LEMMA OverlapStep ==
    ASSUME TypeOK, \A g \in Calls : CallShape(g), Overlap, SNext
    PROVE  Overlap'
<1>1. CASE Elsewhere
    BY <1>1, CallsKept DEF Overlap
<1>2. ASSUME NEW g \in Calls, Swap(g) PROVE Overlap'
  <2>1. ASSUME NEW a \in Calls, NEW b \in Calls, a # b, call'[a].pc # "idle", call'[b].pc # "idle"
        PROVE  call'[a].overlapped
    <3>1. CASE a = g
      <4>1. call[b].pc # "idle"
          BY <1>2, <2>1, <3>1, SwapCall
      <4> QED
          BY <1>2, <3>1, <4>1, SwapCall
    <3>2. CASE a # g
        BY <1>2, <2>1, <3>2, SwapCall
    <3> QED
        BY <3>1, <3>2
  <2> QED
      BY <2>1 DEF Overlap
<1>3. ASSUME NEW g \in Calls,
             LocalStats(g) \/ (\E r \in RoomIDs : Report(g, r)) \/ Get(g) \/ GetFails(g) \/ Show(g)
      PROVE  Overlap'
  <2>1. /\ \A h \in Calls : h # g => call'[h] = call[h]
        /\ call[g].pc # "idle"
        /\ call'[g].pc # "idle" => (call'[g].overlapped <=> call[g].overlapped)
      BY <1>3, MarkKept DEF Others
  <2> QED
      BY <2>1 DEF Overlap
<1> QED
    BY <1>1, <1>2, <1>3, SplitNext

(* An INCRBY that keeps the likes counted in an int64 raises the counter. *)
LEMMA Raises ==
    ASSUME TypeOK, RoomsKept, LikeInv, NEW i \in incrs, Apply(i)
    PROVE  /\ counted \subseteq counted' /\ counted' \in SUBSET Likes
           /\ \A r \in RoomIDs : r # i.room => redis'[r] = redis[r]
           /\ Sum(counted' \cap OfRoom(i.room)) < Word => redis'[i.room] >= redis[i.room]
<1>1. /\ i.room \in RoomIDs /\ i.likes \in SUBSET Likes /\ i.likes \subseteq OfRoom(i.room)
      /\ i.again \in BOOLEAN
    BY IncrFields DEF TypeOK, RoomsKept
<1>2. redis \in [RoomIDs -> -Word..(Word - 1)] /\ counted \in SUBSET Likes
    BY DEF TypeOK
<1>3. counted \subseteq counted' /\ counted' \in SUBSET Likes
    BY <1>1, <1>2 DEF Apply
<1>4. i.likes \subseteq counted'
  <2>1. CASE i.again
    <3>1. \A l \in i.likes : OnePlace(l)
        BY <1>1 DEF LikeInv
    <3>2. \A l \in i.likes : l \in counted
        BY <2>1, <3>1 DEF OnePlace
    <3> QED
        BY <1>3, <3>2
  <2>2. CASE ~i.again
      BY <2>2 DEF Apply
  <2> QED
      BY <2>1, <2>2
<1>5. redis' = [redis EXCEPT ![i.room] = redis[i.room] + Worth(i.likes)]
    BY DEF Apply, Incremented
<1>6. ASSUME Sum(counted' \cap OfRoom(i.room)) < Word PROVE redis'[i.room] >= redis[i.room]
  <2>1. PICK S \in SUBSET Likes : S = counted' \cap OfRoom(i.room)
      BY <1>3
  <2>2. i.likes \in SUBSET S
      BY <1>1, <1>4, <2>1
  <2>3. Sum(i.likes) <= Sum(S) /\ Sum(i.likes) \in Nat /\ Sum(S) \in Nat /\ Sum(S) < Word /\ Word \in Nat
      BY <1>1, <1>6, <2>1, <2>2, SumFacts, Consts
  <2>4. Worth(i.likes) = Sum(i.likes)
      BY <1>1, <2>3, WorthFacts
  <2>5. redis[i.room] \in Int /\ redis'[i.room] = redis[i.room] + Sum(i.likes)
      BY <1>1, <1>2, <1>5, <2>4, Consts
  <2> QED
      BY <2>3, <2>5
<1> QED
    BY <1>1, <1>2, <1>3, <1>5, <1>6

(* Growing, of one room. *)
Grows(r) == /\ 0 <= redis[r] /\ shown[r] <= redis[r]
            /\ \A g \in Calls : (call[g].pc = "show" /\ call[g].room = r) =>
                  /\ call[g].likes <= redis[r]
                  /\ call[g].unread \/ call[g].overlapped \/ shown[r] <= call[g].likes

LEMMA GrowingStep ==
    ASSUME RInv, SNext
    PROVE  Growing'
<1> USE DEF RInv
<1>1. ASSUME NEW r \in RoomIDs, Fits(r)' PROVE Grows(r)'
  <2>0. /\ Fits(r) => Grows(r)
        /\ redis[r] \in Int /\ shown[r] \in 0..(Word - 1)
        /\ \A g \in Calls : call[g].likes \in 0..(Word - 1)
      BY Consts, CallFields DEF Growing, Grows, TypeOK
  <2>1. ASSUME NEW i \in incrs, Apply(i) PROVE Grows(r)'
    <3>1. /\ counted \cap OfRoom(r) \in SUBSET (counted' \cap OfRoom(r))
          /\ counted' \cap OfRoom(r) \in SUBSET Likes
        BY <2>1, Raises
    <3>2. Fits(r)
      <4>1. PICK S \in SUBSET Likes, T \in SUBSET Likes :
               S = counted' \cap OfRoom(r) /\ T = counted \cap OfRoom(r) /\ T \in SUBSET S
          BY <3>1
      <4>2. Sum(T) <= Sum(S) /\ Sum(S) \in Nat
          BY <4>1, SumFacts
      <4>3. Sum(S) < Word /\ Sum(T) \in Nat /\ Word \in Nat
          BY <1>1, <4>1, <4>2, SumFacts, Consts DEF Fits
      <4> QED
          BY <4>1, <4>2, <4>3 DEF Fits
    <3>3. Grows(r) /\ UNCHANGED <<call, shown>>
        BY <2>0, <2>1, <3>2 DEF Apply
    <3>4. redis'[r] >= redis[r] /\ redis'[r] \in Int
      <4>1. redis' \in [RoomIDs -> -Word..(Word - 1)]
          BY TypeStep DEF TypeOK
      <4>2. redis'[r] \in Int
          BY <4>1, Consts
      <4>3. CASE r = i.room
          BY <1>1, <2>1, <4>2, <4>3, Raises DEF Fits
      <4>4. CASE r # i.room
        <5>1. redis'[r] = redis[r]
            BY <2>1, <4>4, Raises
        <5> QED
            BY <2>0, <5>1
      <4> QED
          BY <4>2, <4>3, <4>4
    <3>5. 0 <= redis'[r] /\ shown'[r] <= redis'[r]
        BY <2>0, <3>3, <3>4, Consts DEF Grows
    <3>6. \A g \in Calls : (call[g].pc = "show" /\ call[g].room = r) => call[g].likes <= redis'[r]
        BY <2>0, <3>3, <3>4, Consts DEF Grows
    <3> QED
        BY <3>3, <3>5, <3>6 DEF Grows
  <2>2. ASSUME UNCHANGED <<redis, shown, counted>>,
               NEW g \in Calls, call'[g].pc = "show" => call[g].pc = "show" /\ call'[g] = call[g],
               Others(g)
        PROVE  Grows(r)'
    <3>1. Grows(r)
        BY <1>1, <2>0, <2>2 DEF Fits
    <3> QED
        BY <2>2, <3>1 DEF Grows, Others
  <2>3. ASSUME NEW g \in Calls, Swap(g) PROVE Grows(r)'
    <3>1. UNCHANGED <<redis, shown, counted>>
        BY <2>3 DEF Swap, history
    <3>2. Grows(r)
        BY <1>1, <2>0, <3>1 DEF Fits
    <3> QED
        BY <2>3, <3>1, <3>2, SwapCall DEF Grows
  <2>4. ASSUME NEW g \in Calls, LocalStats(g) PROVE Grows(r)'
    <3>1. UNCHANGED <<redis, shown, counted>> /\ call'[g].pc # "show" /\ Others(g)
        BY <2>4, LocalStatsCall DEF LocalStats, history
    <3> QED
        BY <2>2, <3>1
  <2>5. ASSUME NEW g \in Calls, NEW q \in RoomIDs, Report(g, q) PROVE Grows(r)'
    <3>1. UNCHANGED <<redis, shown, counted>> /\ call'[g].pc # "show" /\ Others(g)
        BY <2>5, ReportCall DEF Report, history
    <3> QED
        BY <2>2, <3>1
  <2>6. ASSUME NEW g \in Calls, Get(g) \/ GetFails(g) PROVE Grows(r)'
    <3>1. UNCHANGED <<redis, shown, counted>>
        BY <2>6 DEF Get, GetFails, history
    <3>2. Grows(r)
        BY <1>1, <2>0, <3>1 DEF Fits
    <3>3. /\ \A h \in Calls : h # g => call'[h] = call[h]
          /\ call'[g].room = call[g].room
          /\ \/ call'[g].likes = TotalLikes(call[g].room)
             \/ call'[g].likes = 0 /\ call'[g].unread
        BY <2>6, GetCall DEF Others
    <3>4. TotalLikes(r) = redis[r] /\ 0 <= redis[r] /\ shown[r] <= redis[r]
        BY <3>2, ParseUintRange DEF Grows
    <3>5. call'[g].room = r => /\ call'[g].likes <= redis[r]
                               /\ call'[g].unread \/ shown[r] <= call'[g].likes
        BY <2>0, <3>3, <3>4
    <3> QED
        BY <3>1, <3>2, <3>3, <3>5 DEF Grows
  <2>7. ASSUME NEW g \in Calls, Show(g) PROVE Grows(r)'
    <3>1. /\ UNCHANGED <<redis, counted>>
          /\ shown'[r] = shown[r] \/ (call[g].room = r /\ shown'[r] = call[g].likes)
        BY <2>7 DEF Show, history, TypeOK
    <3>2. Grows(r)
        BY <1>1, <2>0, <3>1 DEF Fits
    <3>3. /\ \A h \in Calls : h # g => call'[h] = call[h]
          /\ call[g].pc = "show" /\ call'[g].pc # "show"
        BY <2>7, ShowCall DEF Others
    <3>4. \A h \in Calls : (h # g /\ call[h].pc = "show") => call[h].overlapped
        BY <3>3 DEF Overlap
    <3>5. shown'[r] <= redis[r]
        BY <3>1, <3>2, <3>3 DEF Grows
    <3> QED
        BY <3>1, <3>2, <3>3, <3>4, <3>5 DEF Grows
  <2>8. CASE Elsewhere
    <3>1. CASE UNCHANGED <<redis, shown, counted>>
      <4>1. Grows(r) /\ call' = call
          BY <1>1, <2>0, <2>8, <3>1, CallsKept DEF Fits
      <4> QED
          BY <3>1, <4>1 DEF Grows
    <3>2. (\E i \in incrs : Apply(i)) \/ UNCHANGED <<redis, shown, counted>>
        BY <2>8 DEF Elsewhere, JoinRoom, LeaveRoom, Like, IncrStep, IncrBy, IncrByAgain, IncrFails, history
    <3> QED
        BY <2>1, <3>1, <3>2
  <2> QED
      BY <2>3, <2>4, <2>5, <2>6, <2>7, <2>8, SplitNext
<1> QED
    BY <1>1 DEF Growing, Grows

----------------------------------------------------------------------------
(* The theorems. *)

LEMMA RInvInit == SInit => RInv
<1> SUFFICES ASSUME SInit PROVE RInv
    OBVIOUS
<1>1. /\ NoLikes \in [RoomIDs -> SUBSET Likes] /\ \A r \in RoomIDs : NoLikes[r] = {}
      /\ 0 \in 0..(Word - 1) /\ 0 \in -Word..(Word - 1) /\ 0 \in 0..MaxFailures
    BY Consts DEF NoLikes
<1>2. TypeOK
  <2>1. call \in [Calls -> Call]
      BY IdleFields DEF SInit
  <2> QED
      BY <1>1, <2>1 DEF SInit, Init, TypeOK
<1>3. \A g \in Calls : call[g].pc = "idle" /\ \A r \in RoomIDs : call[g].batch[r] = {}
    BY IdleFields DEF SInit
<1>4. RoomsKept /\ \A g \in Calls : CallShape(g)
    BY <1>1, <1>3 DEF RoomsKept, CallShape, SInit
<1>5. LikeInv
    BY <1>1, <1>3, Consts DEF LikeInv, OnePlace, IsHeld, InMap, InBatch, InIncr, SInit
<1>6. Together /\ Reasons /\ Overlap /\ Growing
    BY <1>3 DEF Together, Reasons, Reason, Overlap, Growing, SInit
<1> QED
    BY <1>2, <1>4, <1>5, <1>6 DEF RInv

LEMMA RInvStep == RInv /\ [SNext]_svars => RInv'
<1>1. ASSUME RInv, SNext PROVE RInv'
    BY <1>1, TypeStep, RoomsStep, ShapeStep, LikeStep, TogetherStep, ReasonStep, OverlapStep,
       GrowingStep DEF RInv
<1>2. ASSUME RInv, UNCHANGED svars PROVE RInv'
  <2>1. UNCHANGED <<presence, listening, localLikes, call, incrs, redis, shown, failures,
                    pressed, counted, recounted, failed, exposed>>
      BY <1>2 DEF svars, vars, history
  <2> QED
      BY <1>2, <2>1 DEF RInv, TypeOK, RoomsKept, CallShape, LikeInv, OnePlace, Together, Reasons, Reason,
                        Wiped, IsGone, IsHeld, InMap, InBatch, InIncr, Overlap, Growing, Fits
<1> QED
    BY <1>1, <1>2

LEMMA RInvariant == SSpec => []RInv
BY RInvInit, RInvStep, PTL DEF SSpec

(* Every field keeps its type; in particular no like count, read from Redis  *)
(* or shown, leaves the range of its integer.                                *)
THEOREM StatsTypeCorrect == SSpec => []TypeOK
<1>1. RInv => TypeOK
    BY DEF RInv
<1> QED
    BY <1>1, RInvariant, PTL

(* Held says where a like is, in one formula. *)
LEMMA HeldIs ==
    ASSUME RInv, NEW l \in Likes
    PROVE  l \in Held <=> IsHeld(l)
<1>1. /\ \A r \in RoomIDs : l \in localLikes[r] => r = RoomOfLike[l]
      /\ \A g \in Calls : \A r \in RoomIDs : l \in call[g].batch[r] => r = RoomOfLike[l]
    BY Consts DEF RInv, RoomsKept
<1>2. l \in Held <=> \/ \E r \in RoomIDs : l \in localLikes[r]
                     \/ \E g \in Calls : \E r \in RoomIDs : l \in call[g].batch[r]
                     \/ \E i \in incrs : ~i.again /\ l \in i.likes
    BY DEF Held
<1>3. (\E r \in RoomIDs : l \in localLikes[r]) <=> InMap(l)
    BY <1>1, Consts DEF InMap
<1>4. ASSUME NEW g \in Calls PROVE (\E r \in RoomIDs : l \in call[g].batch[r]) <=> InBatch(g, l)
    BY <1>1, Consts DEF InBatch
<1> QED
    BY <1>2, <1>3, <1>4 DEF IsHeld, InIncr

(* A like that is gone uncounted was in a batch whose INCRBY failed, or its  *)
(* room has had no entry since it was sent, or it was in a batch of its room *)
(* whose uint64 had wrapped to 0: broadcastStats and the like handler lose   *)
(* nothing else between them, whatever counts the clients send.              *)
THEOREM StatsNoSilentLoss == SSpec => []NoSilentLoss
<1>1. RInv => NoSilentLoss
  <2> SUFFICES ASSUME RInv, NEW l \in Gone \ (failed \cup exposed)
               PROVE  \E B \in SUBSET (Gone \cap OfRoom(RoomOfLike[l])) : l \in B /\ LikesDelta(B) = 0
      BY DEF NoSilentLoss
  <2>1. l \in Likes /\ l \in pressed /\ l \notin Held /\ l \notin counted
      BY DEF Gone, RInv, TypeOK
  <2>2. Reason(l)
      BY <2>1 DEF RInv, Reasons
  <2>3. Wiped(l)
      BY <2>1, <2>2, HeldIs DEF Reason
  <2>4. PICK B \in SUBSET OfRoom(RoomOfLike[l]) :
           l \in B /\ LikesDelta(B) = 0 /\ \A k \in B : IsGone(k)
      BY <2>3 DEF Wiped
  <2>5. B \subseteq Gone
    <3>1. \A k \in B : k \in Likes /\ IsGone(k)
        BY <2>4 DEF OfRoom
    <3> QED
        BY <3>1, HeldIs DEF Gone, IsGone
  <2> QED
      BY <2>4, <2>5
<1> QED
    BY <1>1, RInvariant, PTL

(* Only an INCRBY moves a counter, and only Show what a room sees. *)
LEMMA WhoWrites ==
    ASSUME SNext
    PROVE  /\ UNCHANGED redis \/ \E i \in incrs : Apply(i)
           /\ UNCHANGED shown \/ \E g \in Calls : Show(g)
BY DEF SNext, JoinRoom, LeaveRoom, Like, Swap, CallStep, LocalStats, Report, Get, GetFails, Show,
       IncrStep, IncrBy, IncrByAgain, IncrFails, Apply

(* A room's counter falls only by a batch above the largest int64.           *)
THEOREM StatsCounterFalls == SSpec => CounterFallsOnlyOnHugeBatch
<1> DEFINE Falls == \A r \in RoomIDs : redis'[r] < redis[r] =>
                       \E i \in incrs : i.room = r /\ LikesDelta(i.likes) >= Word
<1>1. ASSUME RInv, SNext PROVE Falls
  <2> SUFFICES ASSUME NEW r \in RoomIDs, redis'[r] < redis[r]
               PROVE  \E i \in incrs : i.room = r /\ LikesDelta(i.likes) >= Word
      OBVIOUS
  <2>0. redis \in [RoomIDs -> -Word..(Word - 1)] /\ redis[r] \in Int
      BY <1>1, Consts DEF RInv, TypeOK
  <2>1. PICK i \in incrs : Apply(i)
      BY <1>1, <2>0, WhoWrites
  <2>2. i.room \in RoomIDs /\ i.likes \in SUBSET Likes
      BY <1>1, IncrFields DEF RInv, TypeOK
  <2>3. redis' = [redis EXCEPT ![i.room] = redis[i.room] + Worth(i.likes)]
      BY <2>1 DEF Apply, Incremented
  <2>4. i.room = r
      BY <2>0, <2>2, <2>3
  <2>5. redis'[r] = redis[r] + Worth(i.likes)
      BY <2>0, <2>3, <2>4
  <2>6. /\ LikesDelta(i.likes) \in 0..(2 * Word - 1) /\ Word \in Nat
        /\ LikesDelta(i.likes) < Word => Worth(i.likes) = LikesDelta(i.likes)
      BY <2>2, DeltaFacts, WorthFacts, Consts
  <2>7. LikesDelta(i.likes) >= Word
    <3> SUFFICES ASSUME LikesDelta(i.likes) < Word PROVE FALSE
        BY <2>6
    <3>1. redis'[r] = redis[r] + LikesDelta(i.likes)
        BY <2>5, <2>6
    <3> QED
        BY <2>0, <2>6, <3>1
  <2> QED
      BY <2>4, <2>7
<1>2. RInv /\ [SNext]_svars => [Falls]_svars
    BY <1>1
<1> QED
    BY <1>2, RInvariant, PTL DEF SSpec, CounterFallsOnlyOnHugeBatch

(* The total a room sees falls only when calls of broadcastStats overlapped, *)
(* a read failed, or the likes counted are more than an int64 holds.         *)
THEOREM StatsShownFalls == SSpec => ShownFallsOnlyOnOverlap
<1> DEFINE Falls == \A r \in RoomIDs : shown'[r] < shown[r] =>
                       \/ Sum(counted \cap OfRoom(r)) >= Word
                       \/ \E g \in Calls : /\ call[g].pc = "show" /\ call[g].room = r
                                           /\ call[g].unread \/ call[g].overlapped
<1>1. ASSUME RInv, SNext PROVE Falls
  <2> SUFFICES ASSUME NEW r \in RoomIDs, shown'[r] < shown[r], ~(Sum(counted \cap OfRoom(r)) >= Word)
               PROVE  \E g \in Calls : /\ call[g].pc = "show" /\ call[g].room = r
                                       /\ call[g].unread \/ call[g].overlapped
      OBVIOUS
  <2>0. shown \in [RoomIDs -> 0..(Word - 1)] /\ shown[r] \in Int /\ counted \in SUBSET Likes
      BY <1>1, Consts DEF RInv, TypeOK
  <2>1. Fits(r)
    <3>1. Sum(counted \cap OfRoom(r)) \in Nat /\ Word \in Nat
        BY <2>0, SumFacts, Consts
    <3> QED
        BY <3>1 DEF Fits
  <2>2. PICK g \in Calls : Show(g)
      BY <1>1, <2>0, WhoWrites
  <2>3. call[g].pc = "show" /\ call[g].room \in RoomIDs /\ call[g].likes \in Int
      BY <1>1, <2>2, ShowCall, CallFields, Consts DEF RInv, TypeOK
  <2>4. call[g].room = r /\ shown'[r] = call[g].likes
      BY <2>0, <2>2, <2>3 DEF Show
  <2>5. call[g].unread \/ call[g].overlapped \/ shown[r] <= call[g].likes
      BY <1>1, <2>1, <2>3, <2>4 DEF RInv, Growing
  <2> QED
      BY <2>0, <2>3, <2>4, <2>5
<1>2. RInv /\ [SNext]_svars => [Falls]_svars
    BY <1>1
<1> QED
    BY <1>2, RInvariant, PTL DEF SSpec, ShownFallsOnlyOnOverlap

----------------------------------------------------------------------------
(* The refinement.  The expression RoomStats substitutes for fate.          *)
FateOf(l) == IF l \notin pressed THEN "unpressed"
             ELSE IF l \in recounted THEN "recounted"
             ELSE IF l \in counted THEN "counted"
             ELSE IF l \in Held THEN "held" ELSE "lost"
Fate == [l \in Likes |-> FateOf(l)]

(* The likes of S go from one fate to another, the others keep theirs. *)
Moved(S, from, to) ==
    \A l \in Likes : IF l \in S THEN FateOf(l) = from /\ FateOf(l)' = to ELSE FateOf(l)' = FateOf(l)

LEMMA HeldAll == RInv => \A l \in Likes : l \in Held <=> IsHeld(l)
BY HeldIs

LEMMA HeldNext ==
    ASSUME RInv'
    PROVE  \A l \in Likes : l \in Held' <=> IsHeld(l)'
<1>1. (RInv => \A l \in Likes : l \in Held <=> IsHeld(l))'
    BY HeldAll, PTL
<1> QED
    BY <1>1

(* A step that changes neither history nor what is held changes no fate. *)
LEMMA FateKept ==
    ASSUME RInv, RInv', HeldBut({}), UNCHANGED <<pressed, counted, recounted>>
    PROVE  Fate' = Fate
<1>1. \A l \in Likes : l \in Held' <=> l \in Held
    BY HeldIs, HeldNext DEF HeldBut
<1>2. \A l \in Likes : FateOf(l)' = FateOf(l)
    BY <1>1 DEF FateOf
<1> QED
    BY <1>2 DEF Fate

LEMMA FatePressed ==
    ASSUME RInv, RInv', NEW k \in Likes, Like(k)
    PROVE  Moved({k}, "unpressed", "held") /\ UNCHANGED redis
<1>1. /\ k \notin pressed /\ pressed' = pressed \cup {k}
      /\ UNCHANGED <<counted, recounted, redis>>
    BY DEF Like
<1>2. \A l \in Likes : l \in Held' <=> l \in Held \/ l = k
    BY HeldIs, HeldNext, LikePressed DEF RInv
<1>3. k \notin counted /\ k \notin recounted
    BY <1>1 DEF RInv, LikeInv, OnePlace
<1> QED
    BY <1>1, <1>2, <1>3 DEF Moved, FateOf

LEMMA FateDropped ==
    ASSUME RInv, RInv', NEW g \in Calls, LocalStats(g)
    PROVE  Moved(Dropped(g), "held", "lost") /\ UNCHANGED redis
<1>1. UNCHANGED <<pressed, counted, recounted, redis>>
    BY DEF LocalStats, history
<1>2. \A l \in Likes : l \in Held' <=> l \in Held /\ l \notin Dropped(g)
    BY HeldIs, HeldNext, LikeDropped DEF RInv, HeldBut
<1>3. ASSUME NEW l \in Dropped(g)
      PROVE  l \in pressed /\ l \notin counted /\ l \notin recounted /\ l \in Held
  <2>1. l \in Likes /\ InBatch(g, l)
      BY DEF Dropped
  <2>2. OnePlace(l)
      BY <2>1 DEF RInv, LikeInv
  <2>3. IsHeld(l)
      BY <2>1 DEF IsHeld
  <2> QED
      BY <2>1, <2>2, <2>3, HeldIs DEF OnePlace
<1> QED
    BY <1>1, <1>2, <1>3 DEF Moved, FateOf

LEMMA FateDiscarded ==
    ASSUME RInv, RInv', NEW g \in Calls, NEW r \in RoomIDs, Report(g, r)
    PROVE  /\ Discarded(g, r) \in SUBSET Likes
           /\ Moved(Discarded(g, r), "held", "lost") /\ UNCHANGED redis
<1>0. UNCHANGED <<pressed, counted, recounted, redis>>
    BY DEF Report, history
<1>1. PICK D \in SUBSET Likes : D = Discarded(g, r) /\ D \subseteq call[g].batch[r]
  <2>1. TypeOK
      BY DEF RInv
  <2>2. call[g].batch[r] \in SUBSET Likes
      BY <2>1, CallFields DEF TypeOK
  <2>3. Discarded(g, r) = call[g].batch[r] \/ Discarded(g, r) = {}
      BY DEF Discarded
  <2> QED
      BY <2>2, <2>3
<1>2. \A l \in Likes : l \in Held' <=> l \in Held /\ l \notin D
    BY <1>1, HeldIs, HeldNext, LikeReported DEF RInv, HeldBut
<1>3. ASSUME NEW l \in D
      PROVE  l \in pressed /\ l \notin counted /\ l \notin recounted /\ l \in Held
  <2>1. l \in OfRoom(r)
      BY <1>1 DEF RInv, RoomsKept
  <2>2. l \in Likes /\ InBatch(g, l) /\ OnePlace(l)
      BY <1>1, <2>1, Consts DEF InBatch, RInv, LikeInv
  <2>3. IsHeld(l)
      BY <2>2 DEF IsHeld
  <2> QED
      BY <2>2, <2>3, HeldIs DEF OnePlace
<1>4. Moved(D, "held", "lost")
    BY <1>0, <1>2, <1>3 DEF Moved, FateOf
<1> QED
    BY <1>0, <1>1, <1>4

LEMMA FateIncremented ==
    ASSUME RInv, RInv', NEW i \in incrs, IncrStep(i)
    PROVE  /\ Apply(i) => \/ Moved(i.likes, "held", "counted")
                          \/ \E from \in {"counted", "recounted"} : Moved(i.likes, from, "recounted")
           /\ IncrFails(i) => Fate' = Fate \/ Moved(i.likes, "held", "lost")
<1>0. i.likes \in SUBSET Likes /\ i.again \in BOOLEAN
    BY IncrFields DEF RInv, TypeOK
<1>1. \A l \in Likes : l \in Held' <=> l \in Held /\ l \notin i.likes
    BY HeldIs, HeldNext, LikeIncremented DEF RInv, HeldBut
<1>2. ASSUME NEW l \in i.likes
      PROVE  /\ l \in pressed /\ (i.again <=> l \in counted) /\ (l \in recounted => l \in counted)
             /\ ~i.again => l \in Held
  <2>1. l \in Likes /\ OnePlace(l)
      BY <1>0 DEF RInv, LikeInv
  <2>2. ~i.again => IsHeld(l)
      BY DEF IsHeld, InIncr
  <2> QED
      BY <2>1, <2>2, HeldIs DEF OnePlace
<1>3. ASSUME Apply(i), ~i.again PROVE Moved(i.likes, "held", "counted")
  <2>1. UNCHANGED <<pressed, recounted>> /\ counted' = counted \cup i.likes
      BY <1>3 DEF Apply
  <2> QED
      BY <1>1, <1>2, <1>3, <2>1 DEF Moved, FateOf
<1>4. ASSUME Apply(i), i.again
      PROVE  \E from \in {"counted", "recounted"} : Moved(i.likes, from, "recounted")
  <2>1. UNCHANGED <<pressed, counted>> /\ recounted' = recounted \cup i.likes
      BY <1>4 DEF Apply
  <2>2. CASE i.likes \cap recounted = {}
    <3>1. Moved(i.likes, "counted", "recounted")
        BY <1>1, <1>2, <1>4, <2>1, <2>2 DEF Moved, FateOf
    <3> QED
        BY <3>1
  <2>3. CASE i.likes \subseteq recounted
    <3>1. Moved(i.likes, "recounted", "recounted")
        BY <1>1, <1>2, <1>4, <2>1, <2>3 DEF Moved, FateOf
    <3> QED
        BY <3>1
  <2> QED
      BY <2>2, <2>3 DEF RInv, Together
<1>5. ASSUME IncrFails(i), ~i.again PROVE Moved(i.likes, "held", "lost")
  <2>1. UNCHANGED <<pressed, counted, recounted>>
      BY <1>5 DEF IncrFails
  <2> QED
      BY <1>1, <1>2, <1>5, <2>1 DEF Moved, FateOf
<1>6. ASSUME IncrFails(i), i.again PROVE Fate' = Fate
  <2>1. UNCHANGED <<pressed, counted, recounted>>
      BY <1>6 DEF IncrFails
  <2>2. \A l \in Likes : FateOf(l)' = FateOf(l)
      BY <1>1, <1>2, <1>6, <2>1 DEF FateOf
  <2> QED
      BY <2>2 DEF Fate
<1> QED
    BY <1>0, <1>3, <1>4, <1>5, <1>6

(* What a move of fates is to the ledger. *)
LEMMA LedgerMove ==
    ASSUME NEW S \in SUBSET Likes, NEW from, NEW to, Moved(S, from, to)
    PROVE  Ledger!Move(S, from, to)
<1>1. /\ \A l \in S : Fate[l] = from
      /\ Fate' = [l \in Likes |-> IF l \in S THEN to ELSE Fate[l]]
    BY DEF Moved, Fate
<1> QED
    BY <1>1 DEF Ledger!Move, Fate, FateOf

(* Like is Press; LocalStats, a report discarded and a failed INCRBY are     *)
(* Lose, when they lose a like; an INCRBY that takes effect is Add; all else *)
(* stutters.                                                                 *)
LEMMA LedgerStep ==
    ASSUME RInv, RInv', SNext
    PROVE  Ledger!Next \/ (Fate' = Fate /\ redis' = redis)
<1>1. ASSUME NEW l \in Likes, Like(l) PROVE Ledger!Next
  <2>1. Moved({l}, "unpressed", "held") /\ UNCHANGED redis
      BY <1>1, FatePressed
  <2>2. Fate[l] = "unpressed" /\ Fate' = [Fate EXCEPT ![l] = "held"]
      BY <2>1 DEF Moved, Fate
  <2>3. Ledger!Press(l)
      BY <2>1, <2>2 DEF Ledger!Press, Fate, FateOf
  <2> QED
      BY <2>3 DEF Ledger!Next
<1>2. ASSUME NEW S \in SUBSET Likes, S # {}, Moved(S, "held", "lost"), UNCHANGED redis PROVE Ledger!Next
  <2>1. Ledger!Lose(S)
      BY <1>2, LedgerMove DEF Ledger!Lose
  <2> QED
      BY <1>2, <2>1 DEF Ledger!Next
<1>3. ASSUME NEW g \in Calls, LocalStats(g) PROVE Ledger!Next \/ (Fate' = Fate /\ redis' = redis)
  <2>1. Dropped(g) \in SUBSET Likes /\ Moved(Dropped(g), "held", "lost") /\ UNCHANGED redis
      BY <1>3, FateDropped DEF Dropped
  <2>2. Dropped(g) = {} => Fate' = Fate
      BY <2>1 DEF Moved, Fate
  <2> QED
      BY <1>2, <2>1, <2>2
<1>4. ASSUME NEW i \in incrs, IncrStep(i) PROVE Ledger!Next \/ (Fate' = Fate /\ redis' = redis)
  <2>1. i.room \in RoomIDs /\ i.likes \in SUBSET Likes /\ i.likes # {} /\ i.likes \subseteq OfRoom(i.room)
      BY IncrFields DEF RInv, TypeOK, RoomsKept
  <2>2. CASE IncrFails(i)
    <3>1. UNCHANGED redis
        BY <2>2 DEF IncrFails
    <3> QED
        BY <1>2, <1>4, <2>1, <2>2, <3>1, FateIncremented
  <2>3. CASE Apply(i)
    <3>1. PICK r \in RoomIDs, S \in SUBSET Likes : r = i.room /\ S = i.likes /\ S # {}
        BY <2>1
    <3>2. redis' = [redis EXCEPT ![r] = @ + Worth(S)]
        BY <2>3, <3>1 DEF Apply, Incremented
    <3>3. \A l \in S : RoomOfLike[l] = r
        BY <2>1, <3>1, Consts
    <3>4. \/ Moved(S, "held", "counted")
          \/ \E from \in {"counted", "recounted"} : Moved(S, from, "recounted")
        BY <1>4, <2>3, <3>1, FateIncremented
    <3>5. \/ Ledger!Move(S, "held", "counted")
          \/ \E from \in {"counted", "recounted"} : Ledger!Move(S, from, "recounted")
        BY <3>4, LedgerMove
    <3>6. Ledger!Add(r, S)
        BY <3>2, <3>3, <3>5 DEF Ledger!Add
    <3> QED
        BY <3>1, <3>6 DEF Ledger!Next
  <2> QED
      BY <1>4, <2>2, <2>3 DEF IncrStep, IncrBy, IncrByAgain
<1>5. CASE Looks \/ \E g \in Calls : Swap(g)
  <2>1. UNCHANGED <<pressed, counted, recounted, redis>>
      BY <1>5 DEF Looks, JoinRoom, LeaveRoom, Get, GetFails, Show, Swap, history
  <2>2. HeldBut({})
      BY <1>5, LikeLookedAt, LikeSwapped DEF RInv
  <2> QED
      BY <2>1, <2>2, FateKept
<1>6. ASSUME NEW g \in Calls, NEW r \in RoomIDs, Report(g, r)
      PROVE  Ledger!Next \/ (Fate' = Fate /\ redis' = redis)
  <2>1. /\ Discarded(g, r) \in SUBSET Likes
        /\ Moved(Discarded(g, r), "held", "lost") /\ UNCHANGED redis
      BY <1>6, FateDiscarded
  <2>2. Discarded(g, r) = {} => Fate' = Fate
      BY <2>1 DEF Moved, Fate
  <2> QED
      BY <1>2, <2>1, <2>2
<1> QED
    BY <1>1, <1>3, <1>4, <1>5, <1>6 DEF SNext, CallStep, Looks

(* The like path implements LikeLedger: the maps swapped, the calls that     *)
(* overlap and the INCRBY goroutines count every batch whole, once, or again *)
(* as often as the Redis client repeats its command.                         *)
THEOREM StatsRefinement == SSpec => ImplementsLedger
<1>1. SInit => Ledger!Init
  <2> SUFFICES ASSUME SInit PROVE Ledger!Init
      OBVIOUS
  <2>1. Fate = [l \in Likes |-> "unpressed"]
      BY DEF SInit, Fate, FateOf
  <2> QED
      BY <2>1 DEF SInit, Ledger!Init, Fate, FateOf
<1>2. RInv /\ RInv' /\ [SNext]_svars => [Ledger!Next]_(Ledger!vars)
  <2>1. CASE SNext
      BY <2>1, LedgerStep DEF Ledger!vars, Fate, FateOf
  <2>2. ASSUME UNCHANGED svars PROVE UNCHANGED Ledger!vars
    <3>1. UNCHANGED <<localLikes, call, incrs, redis, pressed, counted, recounted>>
        BY <2>2 DEF svars, history
    <3> QED
        BY <3>1 DEF Ledger!vars, Held
  <2> QED
      BY <2>1, <2>2
<1> QED
    BY <1>1, <1>2, RInvariant, PTL DEF SSpec, Ledger!Spec, ImplementsLedger
=============================================================================
