--------------------------- MODULE OnlineHeartbeat ---------------------------
(***************************************************************************)
(* The online count of one room over several servers: every tick a server  *)
(* that has the room reports its own count under a key with a TTL, enters  *)
(* itself in the room's registry, and adds up the keys of the registry     *)
(* (broadcastStats in ws/manager.go; UpdateServerOnline and GetTotalOnline *)
(* in infra/redis.go).                                                     *)
(*                                                                         *)
(* Time is in seconds.  A call of broadcastStats has dealt with the room at *)
(* most MaxLag seconds after its tick, which is before the next: the rooms *)
(* come one after another, and a command waits for Redis.  A SREM it leaves*)
(* behind may take any time.  The commands of several servers interleave;  *)
(* a pipeline is not a transaction.  A server that crashes does not return:*)
(* the process started in its place has a new ServerID.                    *)
(***************************************************************************)
EXTENDS Integers, FiniteSets, FiniteSetsExt

CONSTANTS
    Servers,      \* the ServerIDs
    Interval,     \* BroadCastInterVal, in seconds
    MaxLag,       \* seconds until a call is done with the room, at most
    MaxMembers,   \* bound: clients of the room on one server
    MaxChanges,   \* bound: clients that come or go, and crashes
    MaxFailures   \* bound: Redis commands that fail

ASSUME TimeAssumption == Interval \in Nat \ {0} /\ MaxLag \in 0..(Interval - 1)
ASSUME BoundAssumption == /\ IsFiniteSet(Servers)
                          /\ {MaxMembers, MaxChanges, MaxFailures} \subseteq Nat

VARIABLES
    up,        \* the servers that run
    members,   \* members[s]: len(m.Rooms[roomID]) on s, 0 when it has no entry
    timer,     \* timer[s]: seconds until the next tick of s
    pc,        \* pc[s]: where the broadcastStats call of s is
    count,     \* count[s]: the count in localStats of that call
    serverIDs, \* serverIDs[s]: what SMEMBERS returned to it
    key,       \* key[s]: the value of KeyRoomServerOnline for s
    ttl,       \* ttl[s]: seconds until it expires, 0 when there is none
    registry,  \* the set KeyServerOfRoom
    srems,     \* the SREMs under way: who sent it, whom it removes
    shown,     \* shown[s]: the total in the last statistics of s
    changes, failures,  \* counters for the bounds
    since,     \* history: seconds since s began, or stopped, having members
    missed     \* history: reports of s that failed since the last one that did not

redisVars == <<key, ttl, registry>>
callVars == <<timer, pc, count, serverIDs, srems, shown>>
memberVars == <<up, members, changes, since>>
vars == <<redisVars, callVars, memberVars, failures, missed>>

(* Mutants of reportTTL: two intervals without the second; a longer one. *)
reportTTL_Short == Interval * 2

reportTTL_Long == Interval * 3 + 1

(* Interval * 2 + 1s *)
reportTTL == Interval * 2 + 1

MaxSince == Interval * 3 + 2

TypeOK ==
    /\ up \in SUBSET Servers
    /\ members \in [Servers -> 0..MaxMembers]
    /\ timer \in [Servers -> 0..Interval]
    /\ pc \in [Servers -> {"idle", "set", "sadd", "smembers", "mget"}]
    /\ count \in [Servers -> 0..MaxMembers]
    /\ serverIDs \in [Servers -> SUBSET Servers]
    /\ key \in [Servers -> 0..MaxMembers]
    /\ ttl \in [Servers -> 0..reportTTL]
    /\ registry \in SUBSET Servers
    /\ srems \in SUBSET (Servers \X Servers)
    /\ shown \in [Servers -> 0..(MaxMembers * Cardinality(Servers))]
    /\ changes \in 0..MaxChanges
    /\ failures \in 0..MaxFailures
    /\ since \in [Servers -> 0..MaxSince]
    /\ missed \in [Servers -> 0..MaxFailures]

Init ==
    /\ up = Servers
    /\ members = [s \in Servers |-> 0]
    /\ timer \in [Servers -> 1..Interval]
    /\ pc = [s \in Servers |-> "idle"]
    /\ count = [s \in Servers |-> 0]
    /\ serverIDs = [s \in Servers |-> {}]
    /\ key = [s \in Servers |-> 0]
    /\ ttl = [s \in Servers |-> 0]
    /\ registry = {}
    /\ srems = {}
    /\ shown = [s \in Servers |-> 0]
    /\ changes = 0 /\ failures = 0
    /\ since = [s \in Servers |-> 0]
    /\ missed = [s \in Servers |-> 0]

----------------------------------------------------------------------------
(* Clients, crashes and time. *)

Change == changes < MaxChanges /\ changes' = changes + 1

SetMembers(s, n) ==
    /\ Change
    /\ members' = [members EXCEPT ![s] = n]
    /\ since' = [since EXCEPT ![s] = IF (n = 0) = (members[s] = 0) THEN @ ELSE 0]

(* handleRegister and handleUnregister of a client of the room. *)
Join(s) ==
    /\ s \in up
    /\ members[s] < MaxMembers
    /\ SetMembers(s, members[s] + 1)
    /\ UNCHANGED <<redisVars, callVars, up, failures, missed>>

Leave(s) ==
    /\ members[s] > 0
    /\ SetMembers(s, members[s] - 1)
    /\ UNCHANGED <<redisVars, callVars, up, failures, missed>>

(* The process is gone, and its goroutines with it. *)
Crash(s) ==
    /\ s \in up
    /\ SetMembers(s, 0)
    /\ up' = up \ {s}
    /\ pc' = [pc EXCEPT ![s] = "idle"]
    /\ count' = [count EXCEPT ![s] = 0]
    /\ serverIDs' = [serverIDs EXCEPT ![s] = {}]
    /\ srems' = {x \in srems : x[1] # s}
    /\ missed' = [missed EXCEPT ![s] = 0]
    /\ UNCHANGED <<redisVars, timer, shown, failures>>

(* The call under way at s has taken all the time it may. *)
OutOfTime(s) == pc[s] # "idle" /\ timer[s] <= Interval - MaxLag

(* A second passes: no tick is due, and no call is out of time. *)
Elapse ==
    /\ \A s \in up : timer[s] > 0 /\ ~OutOfTime(s)
    /\ timer' = [s \in Servers |-> IF s \in up THEN timer[s] - 1 ELSE timer[s]]
    /\ ttl' = [s \in Servers |-> Max({ttl[s] - 1, 0})]
    /\ key' = [s \in Servers |-> IF ttl[s] > 1 THEN key[s] ELSE 0]
    /\ since' = [s \in Servers |-> Min({since[s] + 1, MaxSince})]
    /\ UNCHANGED <<registry, pc, count, serverIDs, srems, shown, up, members,
                   changes, failures, missed>>

----------------------------------------------------------------------------
(* broadcastStats, for the room. *)

Goto(s, from, to) == pc[s] = from /\ pc' = [pc EXCEPT ![s] = to]

(* The ticker: localStats has the room only if it has an entry. *)
Tick(s) ==
    /\ s \in up
    /\ timer[s] = 0
    /\ timer' = [timer EXCEPT ![s] = Interval]
    /\ count' = [count EXCEPT ![s] = members[s]]
    /\ Goto(s, "idle", IF members[s] > 0 THEN "set" ELSE "idle")
    /\ UNCHANGED <<redisVars, memberVars, serverIDs, srems, shown, failures, missed>>

(* UpdateServerOnline: SET with the TTL, then SADD, in one pipeline. *)
SetCount(s) ==
    /\ Goto(s, "set", "sadd")
    /\ key' = [key EXCEPT ![s] = count[s]]
    /\ ttl' = [ttl EXCEPT ![s] = reportTTL]
    /\ missed' = [missed EXCEPT ![s] = 0]
    /\ UNCHANGED <<memberVars, registry, timer, count, serverIDs, srems, shown, failures>>

(* Mutant of Registered: the pipeline has no SADD. *)
Registered_Forgotten(s) == registry

Registered(s) == registry \cup {s}

AddServer(s) ==
    /\ Goto(s, "sadd", "smembers")
    /\ registry' = Registered(s)
    /\ UNCHANGED <<memberVars, key, ttl, timer, count, serverIDs, srems, shown,
                   failures, missed>>

Failure == failures < MaxFailures /\ failures' = failures + 1

(* The pipeline failed, before SET or between the two; an error is logged   *)
(* and the call goes on.                                                    *)
ReportFails(s) ==
    /\ Failure
    /\ \/ /\ Goto(s, "set", "smembers")
          /\ missed' = [missed EXCEPT ![s] = @ + 1]
       \/ /\ Goto(s, "sadd", "smembers")
          /\ UNCHANGED missed
    /\ UNCHANGED <<redisVars, memberVars, timer, count, serverIDs, srems, shown>>

(* The call returns with a total for the statistics. *)
Return(s, total) ==
    /\ shown' = [shown EXCEPT ![s] = total]
    /\ count' = [count EXCEPT ![s] = 0]
    /\ serverIDs' = [serverIDs EXCEPT ![s] = {}]

(* GetTotalOnline: an empty registry is a total of 0. *)
SMembers(s) ==
    /\ \/ /\ registry # {}
          /\ Goto(s, "smembers", "mget")
          /\ serverIDs' = [serverIDs EXCEPT ![s] = registry]
          /\ UNCHANGED <<shown, count>>
       \/ /\ registry = {}
          /\ Goto(s, "smembers", "idle")
          /\ Return(s, 0)
    /\ UNCHANGED <<redisVars, memberVars, timer, srems, failures, missed>>

(* Mutant of TotalOf: the server's own count is added to the sum. *)
TotalOf_PlusOwn(s, ids) == count[s] + MapThenSumSet(LAMBDA t : key[t], ids)

TotalOf(s, ids) == MapThenSumSet(LAMBDA t : key[t], ids)

(* The sum of the keys that exist.  For each that does not, a SREM is left  *)
(* to a goroutine.                                                          *)
MGet(s) ==
    /\ Goto(s, "mget", "idle")
    /\ LET nils == {t \in serverIDs[s] : ttl[t] = 0}
       IN /\ Return(s, TotalOf(s, serverIDs[s] \ nils))
          /\ srems' = srems \cup ({s} \X nils)
    /\ UNCHANGED <<redisVars, memberVars, timer, failures, missed>>

(* SMEMBERS or MGET failed: the total is 0. *)
TotalFails(s) ==
    /\ Failure
    /\ pc[s] \in {"smembers", "mget"}
    /\ pc' = [pc EXCEPT ![s] = "idle"]
    /\ Return(s, 0)
    /\ UNCHANGED <<redisVars, memberVars, timer, srems, missed>>

(* go rdb.SRem(ctx, ...): it takes effect whatever has happened since to    *)
(* the key, or fails because GetTotalOnline cancelled ctx when it returned. *)
SRem(x) ==
    /\ srems' = srems \ {x}
    /\ registry' \in {registry, registry \ {x[2]}}
    /\ UNCHANGED <<key, ttl, memberVars, timer, pc, count, serverIDs, shown,
                   failures, missed>>

----------------------------------------------------------------------------
CallStep(s) == \/ Tick(s) \/ SetCount(s) \/ AddServer(s) \/ ReportFails(s)
               \/ SMembers(s) \/ MGet(s) \/ TotalFails(s)

Next == \/ \E s \in Servers : Join(s) \/ Leave(s) \/ Crash(s) \/ CallStep(s)
        \/ \E x \in srems : SRem(x)
        \/ Elapse

Spec == Init /\ [][Next]_vars

(* Time passes, a call's commands return with whatever result, and a SREM   *)
(* ends within RedisCancelTimeout, with whatever result.                    *)
FairSpec == /\ Spec
            /\ WF_vars(Elapse)
            /\ \A s \in Servers : WF_vars(CallStep(s))
            /\ WF_vars(\E x \in srems : SRem(x))

----------------------------------------------------------------------------
(* Properties. *)

(* The SET of s is a second behind its tick, or more. *)
Late(s) == pc[s] = "set" /\ timer[s] < Interval

(* README.md:101, a heartbeat: a server that has had members for more than  *)
(* two intervals has a live key at every moment, also while a report is     *)
(* late and also when one is missing; only after a missing one does a late  *)
(* one leave a gap.                                                         *)
HeartbeatSurvivesOneMiss ==
    \A s \in Servers :
        (members[s] > 0 /\ since[s] > 2 * Interval /\ missed[s] <= 1) =>
            ttl[s] > 0 \/ (missed[s] = 1 /\ Late(s))

(* README.md:298: a server that crashed, or that nobody is on any more, is  *)
(* counted for two intervals, a second and MaxLag at most, also when its    *)
(* last report was under way at that moment.                                *)
GhostsFade ==
    \A s \in Servers : (members[s] = 0 /\ since[s] > 2 * Interval + MaxLag) => ttl[s] = 0

(* README.md:298, the total corrects itself: once clients stop moving,      *)
(* servers crashing and Redis failing, every server that has the room ends  *)
(* up showing the exact total, although a SREM decided on an expired key    *)
(* may remove a server that has reported again.                             *)
TotalConverges ==
    <>[](\A s \in up : members[s] > 0 =>
            shown[s] = MapThenSumSet(LAMBDA t : members[t], Servers))
=============================================================================
