------------------------ MODULE OnlineHeartbeatProofs ------------------------
(***************************************************************************)
(* Proofs about OnlineHeartbeat, for any number of servers and any         *)
(* interval.                                                               *)
(***************************************************************************)
EXTENDS OnlineHeartbeat, SumLemmas

USE TimeAssumption, BoundAssumption

----------------------------------------------------------------------------
(* The inductive invariant. *)

(* Seconds until s has to report: a call that has not sent its SET yet is   *)
(* late by the seconds since its tick.                                      *)
Due(s) == IF pc[s] = "set" THEN timer[s] - Interval ELSE timer[s]

(* A call is under way only on a server that runs, for MaxLag seconds after *)
(* its tick; a room that is empty meanwhile has become so since the tick.   *)
InCall(s) ==
    /\ s \notin up => members[s] = 0 /\ pc[s] = "idle"
    /\ pc[s] # "idle" => timer[s] >= Interval - MaxLag
    /\ (pc[s] # "idle" /\ members[s] = 0) => since[s] <= Interval - timer[s]

(* A server that had members at its last tick, or the one before if the     *)
(* last report failed, has a key that outlives the next report.             *)
Alive(s) ==
    /\ (members[s] > 0 /\ missed[s] = 0 /\ since[s] > Interval - Due(s))
          => ttl[s] >= Interval + 1 + Due(s)
    /\ (members[s] > 0 /\ missed[s] = 1 /\ since[s] > 2 * Interval - Due(s))
          => ttl[s] >= 1 + Due(s)

(* The key of a server without members was set before it lost the last. *)
Fading(s) == (members[s] = 0 /\ ttl[s] > 0) => ttl[s] + since[s] <= 2 * Interval + 1 + MaxLag

Beat(s) == InCall(s) /\ missed[s] <= failures /\ Alive(s) /\ Fading(s)

BInv == TypeOK /\ \A s \in Servers : Beat(s)

----------------------------------------------------------------------------
(* Lemmas. *)

LEMMA Bounds ==
    /\ Interval \in Nat \ {0} /\ MaxMembers \in Nat /\ MaxChanges \in Nat /\ MaxFailures \in Nat
    /\ MaxLag \in Nat /\ MaxLag < Interval
    /\ Cardinality(Servers) \in Nat /\ MaxMembers * Cardinality(Servers) \in Nat
    /\ reportTTL = 2 * Interval + 1 /\ MaxSince = 3 * Interval + 2
<1>1. /\ Interval \in Nat \ {0} /\ MaxMembers \in Nat /\ MaxChanges \in Nat /\ MaxFailures \in Nat
      /\ MaxLag \in Nat /\ MaxLag < Interval /\ Cardinality(Servers) \in Nat
    BY FS_CardinalityType
<1> QED
    BY <1>1 DEF reportTTL, MaxSince

(* A total is at most a full room on every server. *)
LEMMA TotalTyped ==
    ASSUME NEW f \in [Servers -> 0..MaxMembers], NEW ids \in SUBSET Servers
    PROVE  MapThenSumSet(LAMBDA t : f[t], ids) \in 0..(MaxMembers * Cardinality(Servers))
<1>1. IsFiniteSet(ids) /\ \A t \in ids : f[t] \in 0..MaxMembers /\ f[t] \in Nat
    BY FS_Subset
<1>2. \A t \in Servers : f[t] \in 0..MaxMembers /\ f[t] \in Nat
    OBVIOUS
<1>3. Total(f, ids) \in Nat /\ Total(f, Servers) \in Nat /\ Total(f, ids) <= Total(f, Servers)
    BY <1>1, <1>2, TotalIsNat, TotalMonotone
<1>4. Total(f, Servers) <= MaxMembers * Cardinality(Servers)
    BY <1>2, Bounds, TotalBound
<1>5. Total(f, ids) \in 0..(MaxMembers * Cardinality(Servers))
    BY <1>3, <1>4, Bounds
<1> QED
    BY <1>5 DEF Total

LEMMA PerServer ==
    ASSUME TypeOK, NEW s \in Servers
    PROVE  /\ members[s] \in 0..MaxMembers /\ members[s] \in Nat
           /\ timer[s] \in 0..Interval /\ timer[s] \in Nat
           /\ ttl[s] \in 0..reportTTL /\ ttl[s] \in Nat
           /\ since[s] \in 0..MaxSince /\ since[s] \in Nat
           /\ missed[s] \in Nat /\ failures \in Nat /\ count[s] \in 0..MaxMembers
           /\ Due(s) \in Int /\ Due(s) <= Interval
<1>1. /\ members[s] \in 0..MaxMembers /\ timer[s] \in 0..Interval /\ ttl[s] \in 0..reportTTL
      /\ since[s] \in 0..MaxSince /\ missed[s] \in 0..MaxFailures /\ failures \in 0..MaxFailures
      /\ count[s] \in 0..MaxMembers
    BY DEF TypeOK
<1> QED
    BY <1>1, Bounds DEF Due

(* What does not touch a server does not touch its heartbeat. *)
LEMMA BeatKept ==
    ASSUME TypeOK, NEW s \in Servers, Beat(s), failures' \in Nat, failures <= failures',
           s \in up' <=> s \in up,
           members'[s] = members[s], timer'[s] = timer[s], pc'[s] = pc[s], ttl'[s] = ttl[s],
           since'[s] = since[s], missed'[s] = missed[s]
    PROVE  Beat(s)'
<1>1. missed[s] \in Nat /\ failures \in Nat
    BY PerServer
<1>2. missed'[s] <= failures'
    BY <1>1 DEF Beat
<1>3. InCall(s)'
    BY DEF Beat, InCall
<1>4. Alive(s)' /\ Fading(s)'
    BY DEF Beat, Alive, Fading, Due
<1> QED
    BY <1>2, <1>3, <1>4 DEF Beat

LEMMA BeatInit == Init => BInv
<1> SUFFICES ASSUME Init PROVE BInv
    OBVIOUS
<1>1. /\ 0 \in 0..MaxMembers /\ 0 \in 0..reportTTL /\ 0 \in 0..MaxSince /\ 0 \in 0..MaxFailures
      /\ 0 \in 0..MaxChanges /\ 0 \in 0..(MaxMembers * Cardinality(Servers))
      /\ 1..Interval \subseteq 0..Interval
    BY Bounds
<1>2. TypeOK
    BY <1>1 DEF Init, TypeOK
<1>3. ASSUME NEW s \in Servers PROVE Beat(s)
  <2>1. /\ s \in up /\ members[s] = 0 /\ pc[s] = "idle" /\ ttl[s] = 0 /\ missed[s] = 0 /\ failures = 0
      BY DEF Init
  <2> QED
      BY <2>1 DEF Beat, InCall, Alive, Fading
<1> QED
    BY <1>2, <1>3 DEF BInv

----------------------------------------------------------------------------
(* Clients, crashes and time. *)

(* The members of a server change, to none at most once the call that was   *)
(* under way, if any, belongs to this very second.                          *)
LEMMA MembersStep ==
    ASSUME BInv, NEW s \in Servers, Join(s) \/ Leave(s) \/ Crash(s)
    PROVE  BInv'
<1> USE DEF redisVars, callVars
<1>0. TypeOK /\ \A t \in Servers : Beat(t)
    BY DEF BInv
<1>1. PICK n \in 0..MaxMembers : SetMembers(s, n)
  <2>1. members[s] \in Nat /\ members[s] \in 0..MaxMembers
      BY <1>0, PerServer
  <2>2. CASE Join(s)
    <3>1. members[s] + 1 \in 0..MaxMembers
        BY <2>1, <2>2, Bounds DEF Join
    <3> QED
        BY <2>2, <3>1 DEF Join
  <2>3. CASE Leave(s)
    <3>1. members[s] - 1 \in 0..MaxMembers
        BY <2>1, <2>3, Bounds DEF Leave
    <3> QED
        BY <2>3, <3>1 DEF Leave
  <2>4. CASE Crash(s)
      BY <2>4, Bounds DEF Crash
  <2> QED
      BY <2>2, <2>3, <2>4
<1>2. /\ members' = [members EXCEPT ![s] = n]
      /\ since' = [since EXCEPT ![s] = IF (n = 0) = (members[s] = 0) THEN @ ELSE 0]
      /\ changes < MaxChanges /\ changes' = changes + 1
    BY <1>1 DEF SetMembers, Change
<1>3. /\ UNCHANGED <<key, ttl, registry, timer, shown, failures>>
      /\ \/ /\ UNCHANGED <<up, pc, count, serverIDs, srems, missed>>
            /\ n > 0 => s \in up
         \/ /\ s \in up /\ up' = up \ {s} /\ n = 0 /\ pc' = [pc EXCEPT ![s] = "idle"]
            /\ count' = [count EXCEPT ![s] = 0] /\ serverIDs' = [serverIDs EXCEPT ![s] = {}]
            /\ srems' \in SUBSET srems /\ missed' = [missed EXCEPT ![s] = 0]
  <2>1. CASE Join(s)
      BY <2>1 DEF Join
  <2>2. CASE Leave(s)
    <3>1. s \in up
        BY <1>0, <2>2, PerServer DEF Leave, Beat, InCall
    <3> QED
        BY <2>2, <3>1 DEF Leave
  <2>3. CASE Crash(s)
    <3>1. members' = [members EXCEPT ![s] = 0]
        BY <2>3 DEF Crash, SetMembers
    <3>2. n = 0
        BY <1>0, <1>2, <3>1 DEF TypeOK
    <3> QED
        BY <2>3, <3>2 DEF Crash
  <2> QED
      BY <2>1, <2>2, <2>3
<1>4. TypeOK'
  <2>1. changes' \in 0..MaxChanges
      BY <1>0, <1>2, Bounds DEF TypeOK
  <2>2. members' \in [Servers -> 0..MaxMembers]
      BY <1>0, <1>2 DEF TypeOK
  <2>3. since' \in [Servers -> 0..MaxSince]
    <3>1. since[s] \in 0..MaxSince /\ 0 \in 0..MaxSince
        BY <1>0, PerServer, Bounds
    <3> QED
        BY <1>0, <1>2, <3>1 DEF TypeOK
  <2>4. 0 \in 0..MaxMembers /\ 0 \in 0..MaxFailures
      BY Bounds
  <2>5. /\ up' \in SUBSET Servers /\ pc' \in [Servers -> {"idle", "set", "sadd", "smembers", "mget"}]
        /\ count' \in [Servers -> 0..MaxMembers] /\ serverIDs' \in [Servers -> SUBSET Servers]
        /\ srems' \in SUBSET (Servers \X Servers) /\ missed' \in [Servers -> 0..MaxFailures]
      BY <1>0, <1>3, <2>4 DEF TypeOK
  <2> QED
      BY <1>0, <1>3, <2>1, <2>2, <2>3, <2>5 DEF TypeOK
<1>5. Beat(s)'
  <2>1. /\ members[s] \in Nat /\ timer[s] \in Nat /\ timer[s] <= Interval /\ ttl[s] \in Nat
        /\ ttl[s] <= 2 * Interval + 1 /\ since[s] \in Nat /\ missed[s] \in Nat /\ failures \in Nat
      BY <1>0, PerServer, Bounds
  <2>2. /\ members'[s] = n /\ since'[s] = (IF (n = 0) = (members[s] = 0) THEN since[s] ELSE 0)
        /\ ttl'[s] = ttl[s] /\ timer'[s] = timer[s] /\ failures' = failures
      BY <1>0, <1>2, <1>3 DEF TypeOK
  <2>3. \/ /\ pc'[s] = pc[s] /\ missed'[s] = missed[s]
           /\ s \in up' <=> s \in up
           /\ n > 0 => s \in up
        \/ n = 0 /\ pc'[s] = "idle" /\ missed'[s] = 0
      BY <1>0, <1>3 DEF TypeOK
  <2>4. Beat(s)
      BY <1>0
  <2>5. InCall(s)'
      BY <2>1, <2>2, <2>3, <2>4 DEF Beat, InCall
  <2>6. missed'[s] <= failures'
      BY <2>1, <2>2, <2>3, <2>4 DEF Beat
  <2>7. Alive(s)'
    <3>1. CASE n = 0
        BY <2>2, <3>1 DEF Alive
    <3>2. CASE n > 0 /\ members[s] > 0
        BY <2>2, <2>3, <2>4, <3>2 DEF Beat, Alive, Due
    <3>3. CASE n > 0 /\ members[s] = 0
      <4>1. since'[s] = 0
          BY <2>2, <3>3
      <4>2. Due(s)' \in Int /\ Due(s)' <= Interval
          BY <2>1, <2>2 DEF Due
      <4> QED
          BY <4>1, <4>2, Bounds DEF Alive
    <3> QED
        BY <2>1, <3>1, <3>2, <3>3
  <2>8. Fading(s)'
    <3>1. CASE n = 0 /\ members[s] = 0
        BY <2>2, <2>4, <3>1 DEF Beat, Fading
    <3>2. CASE n = 0 /\ members[s] # 0
        BY <2>1, <2>2, <3>2 DEF Fading
    <3>3. CASE n # 0
        BY <2>2, <3>3 DEF Fading
    <3> QED
        BY <3>1, <3>2, <3>3
  <2> QED
      BY <2>5, <2>6, <2>7, <2>8 DEF Beat
<1>6. ASSUME NEW t \in Servers, t # s PROVE Beat(t)'
  <2>1. /\ members'[t] = members[t] /\ since'[t] = since[t] /\ timer'[t] = timer[t]
        /\ ttl'[t] = ttl[t] /\ pc'[t] = pc[t] /\ missed'[t] = missed[t] /\ (t \in up' <=> t \in up)
        /\ failures' = failures
      BY <1>0, <1>2, <1>3, <1>6 DEF TypeOK
  <2>2. failures \in Nat /\ failures <= failures
      BY <1>0, PerServer
  <2> QED
      BY <1>0, <2>1, <2>2, BeatKept
<1> QED
    BY <1>4, <1>5, <1>6 DEF BInv

LEMMA MaxOfTwo ==
    ASSUME NEW a \in Int, NEW b \in Int
    PROVE  Max({a, b}) = (IF a >= b THEN a ELSE b) /\ Min({a, b}) = (IF a <= b THEN a ELSE b)
<1>1. Max({a, b}) = IF a >= b THEN a ELSE b
    BY DEF Max
<1>2. Min({a, b}) = IF a <= b THEN a ELSE b
    BY DEF Min
<1> QED
    BY <1>1, <1>2

(* A second brings a server closer to its report and its key closer to its  *)
(* end, by the same.                                                        *)
LEMMA ElapseStep ==
    ASSUME BInv, Elapse
    PROVE  BInv'
<1>0. TypeOK /\ \A t \in Servers : Beat(t)
    BY DEF BInv
<1>1. /\ \A s \in up : timer[s] > 0 /\ ~OutOfTime(s)
      /\ timer' = [s \in Servers |-> IF s \in up THEN timer[s] - 1 ELSE timer[s]]
      /\ ttl' = [s \in Servers |-> Max({ttl[s] - 1, 0})]
      /\ key' = [s \in Servers |-> IF ttl[s] > 1 THEN key[s] ELSE 0]
      /\ since' = [s \in Servers |-> Min({since[s] + 1, MaxSince})]
      /\ UNCHANGED <<registry, pc, count, serverIDs, srems, shown, up, members,
                     changes, failures, missed>>
    BY DEF Elapse
<1>2. ASSUME NEW s \in Servers
      PROVE  /\ timer'[s] = (IF s \in up THEN timer[s] - 1 ELSE timer[s])
             /\ ttl'[s] = (IF ttl[s] > 0 THEN ttl[s] - 1 ELSE 0)
             /\ since'[s] = (IF since[s] < MaxSince THEN since[s] + 1 ELSE MaxSince)
             /\ timer'[s] \in 0..Interval /\ ttl'[s] \in 0..reportTTL /\ since'[s] \in 0..MaxSince
  <2>1. /\ timer[s] \in 0..Interval /\ ttl[s] \in 0..reportTTL /\ since[s] \in 0..MaxSince
        /\ ttl[s] - 1 \in Int /\ since[s] + 1 \in Int /\ MaxSince \in Int /\ reportTTL \in Nat
      BY <1>0, PerServer, Bounds
  <2>2. timer'[s] = (IF s \in up THEN timer[s] - 1 ELSE timer[s]) /\ (s \in up => timer[s] > 0)
      BY <1>1
  <2>3. ttl'[s] = (IF ttl[s] > 0 THEN ttl[s] - 1 ELSE 0)
    <3>1. ttl'[s] = Max({ttl[s] - 1, 0})
        BY <1>1
    <3>2. Max({ttl[s] - 1, 0}) = IF ttl[s] - 1 >= 0 THEN ttl[s] - 1 ELSE 0
        BY <2>1, MaxOfTwo
    <3> QED
        BY <2>1, <3>1, <3>2
  <2>4. since'[s] = (IF since[s] < MaxSince THEN since[s] + 1 ELSE MaxSince)
    <3>1. since'[s] = Min({since[s] + 1, MaxSince})
        BY <1>1
    <3>2. Min({since[s] + 1, MaxSince}) = IF since[s] + 1 <= MaxSince THEN since[s] + 1 ELSE MaxSince
        BY <2>1, MaxOfTwo
    <3> QED
        BY <2>1, <3>1, <3>2
  <2> QED
      BY <2>1, <2>2, <2>3, <2>4, Bounds
<1>3. TypeOK'
  <2>1. /\ timer' \in [Servers -> 0..Interval] /\ ttl' \in [Servers -> 0..reportTTL]
        /\ since' \in [Servers -> 0..MaxSince]
      BY <1>1, <1>2
  <2>2. key' \in [Servers -> 0..MaxMembers]
      BY <1>0, <1>1, Bounds DEF TypeOK
  <2> QED
      BY <1>0, <1>1, <2>1, <2>2 DEF TypeOK
<1>4. ASSUME NEW s \in Servers PROVE Beat(s)'
  <2>1. /\ members[s] \in Nat /\ timer[s] \in Nat /\ timer[s] <= Interval /\ ttl[s] \in Nat
        /\ since[s] \in Nat /\ missed[s] \in Nat /\ failures \in Nat
        /\ Interval \in Nat \ {0} /\ MaxSince = 3 * Interval + 2
      BY <1>0, PerServer, Bounds
  <2>2. /\ Beat(s) /\ (s \notin up => pc[s] = "idle" /\ members[s] = 0)
        /\ MaxLag \in Nat /\ MaxLag < Interval
      BY <1>0, <2>1, Bounds DEF Beat, InCall
  <2>3. /\ members'[s] = members[s] /\ pc'[s] = pc[s] /\ missed'[s] = missed[s]
        /\ failures' = failures /\ (s \in up' <=> s \in up)
        /\ timer'[s] = (IF s \in up THEN timer[s] - 1 ELSE timer[s])
        /\ since'[s] = (IF since[s] < MaxSince THEN since[s] + 1 ELSE MaxSince)
      BY <1>1, <1>2
  <2>4. InCall(s)'
    <3>1. CASE pc[s] = "idle"
        BY <2>2, <2>3, <3>1 DEF InCall
    <3>2. CASE pc[s] # "idle"
      <4>1. s \in up
          BY <2>2, <3>2
      <4>2. timer[s] > Interval - MaxLag
          BY <1>1, <2>1, <2>2, <3>2, <4>1 DEF OutOfTime
      <4>3. timer'[s] >= Interval - MaxLag
          BY <2>1, <2>2, <2>3, <4>1, <4>2
      <4>4. members[s] = 0 => since'[s] <= Interval - timer'[s]
        <5>1. members[s] = 0 => since[s] <= Interval - timer[s]
            BY <2>2, <3>2 DEF Beat, InCall
        <5> QED
            BY <2>1, <2>3, <4>1, <5>1
      <4> QED
          BY <2>2, <2>3, <3>2, <4>1, <4>3, <4>4 DEF InCall
    <3> QED
        BY <3>1, <3>2
  <2>5. missed'[s] <= failures'
      BY <2>2, <2>3 DEF Beat
  <2>6. Alive(s)'
    <3> SUFFICES ASSUME members[s] > 0 PROVE Alive(s)'
        BY <2>3 DEF Alive
    <3>1. PICK d \in Int : d = Due(s) /\ Due(s)' = d - 1 /\ d >= -MaxLag /\ d <= Interval
      <4>1. s \in up
          BY <2>1, <2>2
      <4>2. Due(s)' = Due(s) - 1
          BY <2>1, <2>3, <4>1 DEF Due
      <4>3. Due(s) \in Int /\ Due(s) <= Interval
          BY <1>0, PerServer
      <4>4. Due(s) >= -MaxLag
          BY <2>1, <2>2 DEF Due, Beat, InCall
      <4> QED
          BY <4>2, <4>3, <4>4
    <3>2. ttl'[s] = (IF ttl[s] > 0 THEN ttl[s] - 1 ELSE 0)
          /\ since'[s] = (IF since[s] < MaxSince THEN since[s] + 1 ELSE MaxSince)
        BY <1>2
    <3>3. missed[s] = 0 /\ since'[s] > Interval - (d - 1) => ttl'[s] >= Interval + 1 + (d - 1)
      <4> SUFFICES ASSUME missed[s] = 0, since'[s] > Interval - (d - 1)
                   PROVE  ttl'[s] >= Interval + 1 + (d - 1)
          OBVIOUS
      <4>1. since[s] > Interval - d
          BY <2>1, <2>2, <3>1, <3>2
      <4>2. ttl[s] >= Interval + 1 + d
          BY <2>2, <3>1, <4>1 DEF Beat, Alive
      <4> QED
          BY <2>1, <2>2, <3>1, <3>2, <4>2
    <3>4. missed[s] = 1 /\ since'[s] > 2 * Interval - (d - 1) => ttl'[s] >= 1 + (d - 1)
      <4> SUFFICES ASSUME missed[s] = 1, since'[s] > 2 * Interval - (d - 1)
                   PROVE  ttl'[s] >= 1 + (d - 1)
          OBVIOUS
      <4>1. since[s] > 2 * Interval - d
          BY <2>1, <2>2, <3>1, <3>2
      <4>2. ttl[s] >= 1 + d
          BY <2>2, <3>1, <4>1 DEF Beat, Alive
      <4> QED
          BY <2>1, <2>2, <3>1, <3>2, <4>2
    <3> QED
        BY <2>3, <3>1, <3>3, <3>4 DEF Alive
  <2>7. Fading(s)'
    <3>1. ttl'[s] = (IF ttl[s] > 0 THEN ttl[s] - 1 ELSE 0)
          /\ since'[s] = (IF since[s] < MaxSince THEN since[s] + 1 ELSE MaxSince)
        BY <1>2
    <3>2. members[s] = 0 /\ ttl[s] > 0 => ttl[s] + since[s] <= 2 * Interval + 1 + MaxLag
        BY <2>2 DEF Beat, Fading
    <3>3. members[s] = 0 /\ ttl'[s] > 0 => ttl'[s] + since'[s] <= 2 * Interval + 1 + MaxLag
        BY <2>1, <2>2, <3>1, <3>2
    <3> QED
        BY <2>3, <3>3 DEF Fading
  <2> QED
      BY <2>4, <2>5, <2>6, <2>7 DEF Beat
<1> QED
    BY <1>3, <1>4 DEF BInv

----------------------------------------------------------------------------
(* The call. *)

(* A call's step changes only what is its server's. *)
LEMMA CallTyped ==
    ASSUME TypeOK, NEW s \in Servers, missed[s] <= failures, CallStep(s)
    PROVE  TypeOK'
<1> USE DEF redisVars, memberVars, Goto
<1>0. /\ 0 \in 0..MaxMembers /\ 0 \in 0..MaxFailures /\ Interval \in 0..Interval
      /\ reportTTL \in 0..reportTTL /\ 0 \in 0..(MaxMembers * Cardinality(Servers))
      /\ {} \in SUBSET Servers
    BY Bounds
<1>1. CASE Tick(s)
    BY <1>0, <1>1 DEF Tick, TypeOK
<1>2. CASE SetCount(s)
    BY <1>0, <1>2 DEF SetCount, TypeOK
<1>3. CASE AddServer(s)
    BY <1>3 DEF AddServer, Registered, TypeOK
<1>4. CASE SMembers(s)
  <2>1. shown' \in [Servers -> 0..(MaxMembers * Cardinality(Servers))]
      BY <1>0, <1>4 DEF SMembers, Return, TypeOK
  <2>2. count' \in [Servers -> 0..MaxMembers] /\ serverIDs' \in [Servers -> SUBSET Servers]
      BY <1>0, <1>4 DEF SMembers, Return, TypeOK
  <2>3. pc' \in [Servers -> {"idle", "set", "sadd", "smembers", "mget"}]
      BY <1>4 DEF SMembers, TypeOK
  <2> QED
      BY <1>4, <2>1, <2>2, <2>3 DEF SMembers, TypeOK
<1>5. CASE MGet(s)
  <2>1. PICK nils \in SUBSET serverIDs[s] : /\ Return(s, TotalOf(s, serverIDs[s] \ nils))
                                            /\ srems' = srems \cup ({s} \X nils)
      BY <1>5 DEF MGet
  <2>2. serverIDs[s] \in SUBSET Servers /\ key \in [Servers -> 0..MaxMembers]
      BY DEF TypeOK
  <2>3. TotalOf(s, serverIDs[s] \ nils) \in 0..(MaxMembers * Cardinality(Servers))
      BY <2>2, TotalTyped DEF TotalOf
  <2>4. shown' \in [Servers -> 0..(MaxMembers * Cardinality(Servers))]
      BY <2>1, <2>3 DEF Return, TypeOK
  <2>5. count' \in [Servers -> 0..MaxMembers] /\ serverIDs' \in [Servers -> SUBSET Servers]
      BY <1>0, <2>1 DEF Return, TypeOK
  <2>6. srems' \in SUBSET (Servers \X Servers)
      BY <2>1, <2>2 DEF TypeOK
  <2>7. pc' \in [Servers -> {"idle", "set", "sadd", "smembers", "mget"}]
      BY <1>5 DEF MGet, TypeOK
  <2> QED
      BY <1>5, <2>4, <2>5, <2>6, <2>7 DEF MGet, TypeOK
<1>6. CASE ReportFails(s)
  <2>1. failures' \in 0..MaxFailures /\ failures \in 0..MaxFailures /\ failures < MaxFailures
      BY <1>6, Bounds DEF ReportFails, Failure, TypeOK
  <2>2. missed[s] + 1 \in 0..MaxFailures
      BY <2>1, PerServer, Bounds
  <2>3. missed' \in [Servers -> 0..MaxFailures]
      BY <1>6, <2>2 DEF ReportFails, TypeOK
  <2>4. pc' \in [Servers -> {"idle", "set", "sadd", "smembers", "mget"}]
      BY <1>6 DEF ReportFails, TypeOK
  <2> QED
      BY <1>6, <2>1, <2>3, <2>4 DEF ReportFails, TypeOK
<1>7. CASE TotalFails(s)
  <2>1. failures' \in 0..MaxFailures
      BY <1>7, Bounds DEF TotalFails, Failure, TypeOK
  <2> QED
      BY <1>0, <1>7, <2>1 DEF TotalFails, Return, TypeOK
<1> QED
    BY <1>1, <1>2, <1>3, <1>4, <1>5, <1>6, <1>7 DEF CallStep

(* The tick moves the obligation to report into the call, SET discharges it *)
(* and a failure leaves what the report before is worth.                    *)
LEMMA CallBeat ==
    ASSUME BInv, NEW s \in Servers, CallStep(s)
    PROVE  Beat(s)'
<1> USE DEF redisVars, memberVars, Goto
<1>0. /\ members[s] \in Nat /\ timer[s] \in Nat /\ timer[s] <= Interval /\ ttl[s] \in Nat
      /\ since[s] \in Nat /\ missed[s] \in Nat /\ failures \in Nat
      /\ Interval \in Nat \ {0} /\ MaxLag \in Nat /\ MaxLag < Interval
      /\ reportTTL = 2 * Interval + 1 /\ TypeOK /\ Beat(s)
    BY PerServer, Bounds DEF BInv
<1>1. CASE Tick(s)
  <2>1. /\ timer[s] = 0 /\ pc[s] = "idle" /\ s \in up /\ timer'[s] = Interval
        /\ pc'[s] = (IF members[s] > 0 THEN "set" ELSE "idle")
        /\ UNCHANGED <<up, members, ttl, since, missed, failures>>
      BY <1>0, <1>1 DEF Tick, TypeOK
  <2>2. members[s] > 0 => Due(s)' = 0 /\ Due(s) = 0
      BY <2>1 DEF Due
  <2>3. InCall(s)'
      BY <1>0, <2>1 DEF Beat, InCall
  <2>4. Alive(s)'
      BY <1>0, <2>1, <2>2 DEF Beat, Alive
  <2>5. Fading(s)' /\ missed'[s] <= failures'
      BY <1>0, <2>1 DEF Beat, Fading
  <2> QED
      BY <2>3, <2>4, <2>5 DEF Beat
<1>2. CASE SetCount(s)
  <2>1. /\ pc[s] = "set" /\ pc'[s] = "sadd" /\ ttl'[s] = 2 * Interval + 1 /\ missed'[s] = 0
        /\ UNCHANGED <<up, members, timer, since, failures>>
      BY <1>0, <1>2 DEF SetCount, TypeOK
  <2>2. /\ timer[s] >= Interval - MaxLag /\ s \in up
        /\ members[s] = 0 => since[s] <= Interval - timer[s]
      BY <1>0, <2>1 DEF Beat, InCall
  <2>3. Due(s)' = timer[s]
      BY <2>1, <2>2 DEF Due
  <2>4. InCall(s)'
      BY <2>1, <2>2 DEF InCall
  <2>5. Alive(s)'
      BY <1>0, <2>1, <2>3 DEF Alive
  <2>6. Fading(s)' /\ missed'[s] <= failures'
      BY <1>0, <2>1, <2>2 DEF Fading
  <2> QED
      BY <2>4, <2>5, <2>6 DEF Beat
<1>3. CASE ReportFails(s) /\ pc[s] = "set"
  <2>1. /\ pc'[s] = "smembers" /\ missed'[s] = missed[s] + 1 /\ failures' = failures + 1
        /\ UNCHANGED <<up, members, timer, since, ttl>>
      BY <1>0, <1>3 DEF ReportFails, Failure, TypeOK
  <2>2. /\ timer[s] >= Interval - MaxLag /\ s \in up
        /\ members[s] = 0 => since[s] <= Interval - timer[s]
      BY <1>0, <1>3 DEF Beat, InCall
  <2>3. Due(s)' = timer[s] /\ Due(s) = timer[s] - Interval
      BY <1>3, <2>1, <2>2 DEF Due
  <2>4. InCall(s)'
      BY <2>1, <2>2 DEF InCall
  <2>5. missed'[s] <= failures'
      BY <1>0, <2>1 DEF Beat
  <2>6. Alive(s)'
    <3>1. missed'[s] # 0 /\ (missed'[s] = 1 => missed[s] = 0)
        BY <1>0, <2>1
    <3>2. missed[s] = 0 /\ members[s] > 0 /\ since[s] > Interval - (timer[s] - Interval)
             => ttl[s] >= Interval + 1 + (timer[s] - Interval)
        BY <1>0, <2>3 DEF Beat, Alive
    <3>3. /\ 2 * Interval - timer[s] = Interval - (timer[s] - Interval)
          /\ 1 + timer[s] = Interval + 1 + (timer[s] - Interval)
        BY <1>0
    <3> QED
        BY <2>1, <2>3, <3>1, <3>2, <3>3 DEF Alive
  <2>7. Fading(s)'
      BY <1>0, <2>1 DEF Beat, Fading
  <2> QED
      BY <2>4, <2>5, <2>6, <2>7 DEF Beat
<1>4. CASE \/ AddServer(s) \/ SMembers(s) \/ MGet(s) \/ TotalFails(s)
           \/ ReportFails(s) /\ pc[s] # "set"
  <2>1. /\ pc[s] \in {"sadd", "smembers", "mget"} /\ pc'[s] \in {"smembers", "mget", "idle"}
        /\ UNCHANGED <<up, members, timer, since, ttl, missed>> /\ failures' \in {failures, failures + 1}
    <3>1. CASE AddServer(s)
        BY <1>0, <3>1 DEF AddServer, TypeOK
    <3>2. CASE SMembers(s)
        BY <1>0, <3>2 DEF SMembers, TypeOK
    <3>3. CASE MGet(s)
        BY <1>0, <3>3 DEF MGet, TypeOK
    <3>4. CASE TotalFails(s)
        BY <1>0, <3>4 DEF TotalFails, Failure, TypeOK
    <3>5. CASE ReportFails(s) /\ pc[s] # "set"
        BY <1>0, <3>5 DEF ReportFails, Failure, TypeOK
    <3> QED
        BY <1>4, <3>1, <3>2, <3>3, <3>4, <3>5
  <2>2. Due(s)' = Due(s)
      BY <2>1 DEF Due
  <2>3. InCall(s)'
      BY <1>0, <2>1 DEF Beat, InCall
  <2>4. Alive(s)'
      BY <1>0, <2>1, <2>2 DEF Beat, Alive
  <2>5. Fading(s)'
      BY <1>0, <2>1 DEF Beat, Fading
  <2>6. missed'[s] <= failures'
      BY <1>0, <2>1 DEF Beat
  <2> QED
      BY <2>3, <2>4, <2>5, <2>6 DEF Beat
<1> QED
    BY <1>1, <1>2, <1>3, <1>4 DEF CallStep

LEMMA CallOthers ==
    ASSUME BInv, NEW s \in Servers, CallStep(s), NEW t \in Servers, t # s
    PROVE  Beat(t)'
<1> USE DEF redisVars, memberVars, Goto
<1>0. TypeOK /\ Beat(t) /\ failures \in Nat
    BY PerServer DEF BInv
<1>1. UNCHANGED <<up, members, since>> /\ failures' \in {failures, failures + 1}
    BY DEF CallStep, Tick, SetCount, AddServer, ReportFails, Failure, SMembers, MGet, TotalFails
<1>2. timer'[t] = timer[t] /\ pc'[t] = pc[t] /\ ttl'[t] = ttl[t] /\ missed'[t] = missed[t]
  <2>1. CASE Tick(s)
      BY <1>0, <2>1 DEF Tick, TypeOK
  <2>2. CASE SetCount(s)
      BY <1>0, <2>2 DEF SetCount, TypeOK
  <2>3. CASE AddServer(s) \/ SMembers(s)
      BY <1>0, <2>3 DEF AddServer, SMembers, TypeOK
  <2>4. CASE MGet(s) \/ TotalFails(s)
      BY <1>0, <2>4 DEF MGet, TotalFails, TypeOK
  <2>5. CASE ReportFails(s)
      BY <1>0, <2>5 DEF ReportFails, TypeOK
  <2> QED
      BY <2>1, <2>2, <2>3, <2>4, <2>5 DEF CallStep
<1>3. failures' \in Nat /\ failures <= failures'
    BY <1>0, <1>1
<1> QED
    BY <1>0, <1>1, <1>2, <1>3, BeatKept

LEMMA BeatStep == BInv /\ [Next]_vars => BInv'
<1> SUFFICES ASSUME BInv, [Next]_vars PROVE BInv'
    OBVIOUS
<1>0. TypeOK /\ \A t \in Servers : Beat(t)
    BY DEF BInv
<1>1. ASSUME NEW s \in Servers, CallStep(s) PROVE BInv'
  <2>1. TypeOK'
      BY <1>0, <1>1, CallTyped DEF Beat
  <2>2. \A t \in Servers : Beat(t)'
      BY <1>1, CallBeat, CallOthers
  <2> QED
      BY <2>1, <2>2 DEF BInv
<1>2. CASE UNCHANGED vars \/ \E x \in srems : SRem(x)
  <2>1. /\ UNCHANGED <<up, members, timer, pc, ttl, since, missed, failures, key, count, serverIDs,
                       shown, changes>>
        /\ registry' \in SUBSET registry /\ srems' \in SUBSET srems
      BY <1>2 DEF SRem, vars, redisVars, callVars, memberVars
  <2>2. TypeOK'
      BY <1>0, <2>1 DEF TypeOK
  <2>3. ASSUME NEW t \in Servers PROVE Beat(t)'
    <3>1. failures \in Nat /\ failures <= failures
        BY <1>0, PerServer
    <3> QED
        BY <1>0, <2>1, <3>1, BeatKept
  <2> QED
      BY <2>2, <2>3 DEF BInv
<1> QED
    BY <1>1, <1>2, MembersStep, ElapseStep DEF Next

----------------------------------------------------------------------------
(* The theorems. *)

LEMMA BInvHolds == Spec => []BInv
BY BeatInit, BeatStep, PTL DEF Spec

(* The bookkeeping of the online counts stays in its type; in particular    *)
(* the total GetTotalOnline adds up is never more than a full room on every *)
(* server.                                                                  *)
THEOREM HeartbeatTypeCorrect == Spec => []TypeOK
<1>1. BInv => TypeOK
    BY DEF BInv
<1> QED
    BY <1>1, BInvHolds, PTL

(* A report's TTL of two intervals and a second bridges one failed report,  *)
(* or a report as late as a call may be, whatever the interval, at whatever *)
(* second the clients came; only both together leave a gap.                 *)
THEOREM OneMissIsBridged == Spec => []HeartbeatSurvivesOneMiss
<1>1. BInv => HeartbeatSurvivesOneMiss
  <2> SUFFICES ASSUME BInv, NEW s \in Servers, members[s] > 0, since[s] > 2 * Interval, missed[s] <= 1,
                      ~(missed[s] = 1 /\ Late(s))
               PROVE  ttl[s] > 0
      BY DEF HeartbeatSurvivesOneMiss
  <2>1. /\ since[s] \in Nat /\ missed[s] \in Nat /\ ttl[s] \in Nat /\ timer[s] \in Nat
        /\ timer[s] <= Interval /\ Interval \in Nat /\ MaxLag \in Nat /\ MaxLag < Interval
        /\ Alive(s) /\ InCall(s)
      BY PerServer, Bounds DEF BInv, Beat
  <2>2. PICK d \in Int : d = Due(s) /\ d >= -MaxLag /\ (~Late(s) => d >= 0)
    <3>1. CASE pc[s] = "set"
      <4>1. timer[s] >= Interval - MaxLag /\ Due(s) = timer[s] - Interval
          BY <2>1, <3>1 DEF InCall, Due
      <4>2. ~Late(s) => timer[s] = Interval
          BY <2>1, <3>1 DEF Late
      <4> QED
          BY <2>1, <4>1, <4>2
    <3>2. CASE pc[s] # "set"
        BY <2>1, <3>2 DEF Due
    <3> QED
        BY <3>1, <3>2
  <2>3. CASE missed[s] = 0
    <3>1. since[s] > Interval - d
        BY <2>1, <2>2
    <3>2. ttl[s] >= Interval + 1 + d
        BY <2>1, <2>2, <2>3, <3>1 DEF Alive
    <3> QED
        BY <2>1, <2>2, <3>2
  <2>4. CASE missed[s] = 1
    <3>1. d >= 0 /\ since[s] > 2 * Interval - d
        BY <2>1, <2>2, <2>4
    <3>2. ttl[s] >= 1 + d
        BY <2>1, <2>2, <2>4, <3>1 DEF Alive
    <3> QED
        BY <2>1, <3>1, <3>2
  <2> QED
      BY <2>1, <2>3, <2>4
<1> QED
    BY <1>1, BInvHolds, PTL

(* A server that crashed or that was left by everybody is counted for at    *)
(* most two intervals, a second and the lag of a call more.                 *)
THEOREM GhostsDoFade == Spec => []GhostsFade
<1>1. BInv => GhostsFade
  <2> SUFFICES ASSUME BInv, NEW s \in Servers, members[s] = 0, since[s] > 2 * Interval + MaxLag
               PROVE  ttl[s] = 0
      BY DEF GhostsFade
  <2>1. /\ since[s] \in Nat /\ ttl[s] \in Nat /\ Interval \in Nat /\ MaxLag \in Nat /\ Fading(s)
      BY PerServer, Bounds DEF BInv, Beat
  <2> QED
      BY <2>1 DEF Fading
<1> QED
    BY <1>1, BInvHolds, PTL
=============================================================================
