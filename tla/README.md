# A formal model of live-stream-danmaku

TLA+ modules, TLC configurations and TLAPS proofs for the live-stream danmaku
(bullet-chat) service: the WebSocket server of `src/cmd/server`, the Kafka
consumer of `src/cmd/consumer`, and the packages under `src/internal` they share.
Paths below are relative to the repository; every line reference is to Go source
unless it says otherwise. `PROJECT.json` maps each definition to its lines.

    tlc -workers 2 -config MCManager_safety.cfg MCManager
    tlapm ManagerProofs.tla

## 1. The system

    browser ──ws──> ReadPump ──Broadcast──> Manager.Start ──> Kafka ──> DanmakuHandler ──> MySQL
       ^                                        │
       │                                        └──> Redis channel of the room
       └──ws── WritePump <─Send── workers <─jobs── subscribeToRoom <──┘  (of every server)

| Component | State | Operations | Hard behaviour |
|---|---|---|---|
| Connections (`internal/api/chat_handler.go`, `internal/ws/client.go`) | socket, `Send`, `done`, two goroutines per connection | connect, register, read, write, fail, unregister, close | either pump, the peer or the manager may end a connection, in any order; ReadPump blocks on `Register`, `Unregister` and a full `Broadcast` |
| Connection manager (`internal/ws/manager.go`) | `Rooms`, `cancelSub`, the channels, one select loop | `handleRegister`, `handleUnregister`, `handleBroadcast`, the ticker | the loop makes blocking Kafka and Redis calls; rooms empty and are made again while old subscriptions are still running |
| Local fan-out (`manager.go`) | subscriptions, `clientPool`, `broadcastJobChan`, workers | snapshot a room, queue a job, send, return the slice | a snapshot is sent after the lock is released, from a pooled array; full queues drop |
| Routing (`dispatcher.go`, `router.go`) | `actionRegistry` (written before the server starts) | danmaku and like handlers | the danmaku handler blocks the reader |
| Likes and statistics (`router.go`, `manager.go`, `infra/redis.go`) | `localLikes`, Redis counters | count, swap, INCRBY, GET, broadcast | overlapping `broadcastStats`; batches lost after the swap |
| Online heartbeat (`manager.go`, `infra/redis.go`) | per-server keys with TTL, registry set | report, aggregate, clean up | crashed servers, expiry, a delayed SREM |
| Kafka producer (`infra/kafka.go`) | sarama's buffers | `PushToInput` | blocks when full |
| Kafka consumer (`internal/consumer/handler.go`, `cmd/consumer/main.go`) | `msgChan`, the worker's buffer, marked and committed offsets | `Setup`, `ConsumeClaim`, `Cleanup`, `dbWorker`, `flushBuffer`, the Consume loop | cancellation at any moment, backpressure, retries, ambiguous inserts, rebalance, crash |
| Database (`infra/db.go`, `internal/repo`) | `danmaku_messages` | `InitDB`, `CreateInBatches`, the playback query | `InitDB` drops the table |
| Playback (`internal/service`) | none | a read query no route reaches | |

What makes each correct:

* manager and connections: one live subscription for each inhabited room and none
  for others; a connection is a member exactly while it is served; what a reader
  accepted reaches Kafka, once and in the connection's order; dead connections leave;
* fan-out: no message leaves its room; a pooled slice has one owner; each
  subscription delivers a message once; a client that does not read stops nobody;
* consumer: a marked message is on its way, saved or given up on; each
  partition is saved in order; no worker outlives its session; a shutdown ends;
* statistics: a like is counted once, unless its INCRBY fails or is repeated by the
  Redis client, its room is empty when it should be reported, or the sum of its batch
  wraps to 0; the totals a room sees do not fall without a reason and end up right;
* heartbeat: a live server stays in the total although a report fails or is late, a dead
  or empty one leaves it after the TTL, and the totals of all servers become exact.

Hazards, each at the line where it bites, with the properties that cover it, are
in `PROJECT.json`.

## 2. Modules

### `Presence.tla`: what the manager promises

A client enters its room once and leaves it once; the server listens to exactly
the rooms that have a member (`Enter`, `Leave`). No channel, lock or goroutine.

### `Manager.tla`: connections, select loop, rooms, the way to Kafka

| TLA+ | Code |
|---|---|
| `conn[c]`, `writePump[c]` | where the connection's handler goroutine (`ConnectWebSocket`, then `ReadPump` and its deferred function) and its `WritePump` are |
| `sockets`, `done` | sockets this server has not closed; closed `done` channels |
| `read[c]`, `persisted[c]` | number of the last danmaku read from the socket, and of the last given to `producer.Input()` |
| `roomKeys`, `Rooms`, `cancelSub` | `m.Rooms` and `m.cancelSub`; `cancelSub[r]` names the subscription it cancels |
| `subs`, `canceled` | the `subscribeToRoom` goroutines, each named after the client whose registration started it, and their contexts |
| `mgr`, `client`, `packet` | where the select loop is and what it has received |
| `broadcast`, `producer` | `m.Broadcast`; the danmaku sarama holds |

Actions: `Connect`, `RegisterClient`, `ReadDanmaku`, `EnqueueBroadcast`, `ReadFail`,
`UnregisterClient`, `CloseSocket`, `WriteFail`, `WriteDone` for a connection;
`HandleRegister`, `HandleUnregister`, `TakePacket`, `PushToInput`, `PublishToRoom` for
the loop; `SubStart`, `SubExit` for a subscription; `ProducerShip` for sarama.
`Register` and `Unregister` are unbuffered, so their send is one step with the
loop's receive. The pumps run from that step on, while the handler is still to
run. `handleRegister` and `handleUnregister` run under `m.mu`, and readers of the map
are in `Fanout`, so each is one step. A frame may be read from a closed socket
(gorilla's buffer), which makes the safety properties stronger.

### `Fanout.tla`: from Redis to the sockets

Extends `Presence`: a registration is `Enter`, an unregistration `Leave`, together with
their effect on the room's subscription; that `Presence` is a sound view of the
manager is what `ImplementsPresence` shows. `Publish` is external: Redis gives a message
to any of the room's live subscriptions, or to none. `broadcastToLocalClients` has two
callers, a subscription goroutine (`Snapshot`) and `broadcastStats` with the statistics of
a room (`StatsSnapshot`); both copy the room under `RLock` into the array of a pooled slice
(`TakeSnapshot`), and `Dispatch` queues the job without blocking or gives the slice back. A
worker takes a job (`WorkerTake`), sends client by client (`SafeSend`) reading the array as
it is at that moment, and returns the slice (`WorkerPut`). `WritePump` empties `Send` when
the peer lets it. Arrays keep what lies beyond the slice's length, as
`append(s[:0], ...)` does.

### `DanmakuHandler.tla`: the consumer process

| TLA+ | Code |
|---|---|
| `proc`, `stopping`, `session`, `ctxDone` | the process, main's context, where `group.Consume` is, the session's context |
| `claim[p]`, `next[p]` | the `ConsumeClaim` goroutine of a partition and the offset it has in hand |
| `marked`, `committed` | sarama's marked and the group's committed offsets |
| `msgChan`, `chanOpen` | `h.msgChan`; made once, in `NewDanmakuHandler` |
| `worker`, `buffer`, `attempt`, `flush` | `dbWorker`, its batch, and the `flushBuffer` call in progress: whether its backoff watches the session's context and whether the worker returns after it |
| `table`, `dropped` | messages with a row since `InitDB`; batches given up on |
| `first`, `sessions`, `restarts`, `lostAcks` | the process's first offset, and the counters of the bounds |

`ConsumeClaim` is split at its scheduling points: receive and parse (`ClaimReceive`),
send (`ClaimPush`), mark (`ClaimMark`), return (`ClaimReturn`), panic on a closed channel
(`ClaimPanic`). Each `case` of `dbWorker`'s select is an action, an attempt to insert and
its backoff are two steps, and an attempt has three outcomes: success, failure, and a
commit that reports an error. The generated keys gorm writes into the batch make MySQL
refuse the retry of the last one. `Kind` says what `parseMessage` makes of a message:
a danmaku, one of another type (it returns `nil, nil`), or one it rejects.

### `LikeLedger.tla` and `RoomStats.tla`: likes and statistics

`LikeLedger` is what the like path promises: a like is held by its server until it is
added to its room's counter with a whole batch (`Add`), possibly again and again when the
Redis client repeats a command, or until it is lost (`Lose`). `RoomStats` is one server, and
extends `Presence`:

| TLA+ | Code |
|---|---|
| `localLikes[r]` | the likes whose sum is `m.localLikes[r]` |
| `call[g]` | a `broadcastStats` goroutine: where it is, `currentBatchLikes`, the rooms of `localStats` still to do, `totalLikes` |
| `incrs` | the `IncrRoomLikes` goroutines |
| `redis[r]`, `shown[r]` | the counter in Redis; the likes in the last statistics sent in the room |
| `pressed`, `counted`, `recounted`, `failed`, `exposed` | history: likes sent, added, added more than once, of a failed INCRBY, and whose room had no entry at some moment since |

`Like` is the like handler, which may run before the room has its entry and whose likes
may outlive it. A call swaps the map (`Swap`), lists the rooms (`LocalStats`), and for each
reports (`Report`), reads (`Get`, `GetFails`) and sends (`Show`). Several calls may be under
way, as nothing makes the ticker wait. INCRBY succeeds, fails, or takes effect and is
repeated, each repetition being one of the `MaxFailures` (go-redis retries three times by
default, `redis.go:29`). `Word` stands for 2^63. The counts of the clients are not
validated, so `LikesDelta`, the uint64 sum of a batch, may wrap (`router.go:74`), and a
batch that wraps to 0 is discarded (`manager.go:325`). The argument of INCRBY is an int64
(`ToInt64`), and Redis refuses to overflow.

### `OnlineHeartbeat.tla`: the online count of a room over all servers

| TLA+ | Code |
|---|---|
| `members[s]`, `up` | `len(m.Rooms[roomID])` on server s; the processes that run |
| `timer[s]`, `pc[s]`, `count[s]`, `serverIDs[s]` | the ticker of s and its `broadcastStats` call |
| `key[s]`, `ttl[s]`, `registry` | the Redis key of s for the room with its remaining seconds; the set of ServerIDs |
| `srems` | the `go rdb.SRem(ctx, ...)` goroutines |
| `shown[s]` | the online total in the last statistics of s |
| `since[s]`, `missed[s]` | history: seconds since s got, or lost, its members; failed reports in a row |

SET, SADD, SMEMBERS and MGET are steps of their own, so those of two servers interleave.
A SREM takes effect at any later moment, or never: its context is cancelled as soon as
`GetTotalOnline` returns. `Elapse` is one second, and may pass while calls are under way:
the call of a server reaches a room after the rooms before it, and its commands wait for
Redis. `MaxLag` is the longest a call may take until it is done with the room, counted from
its tick. It is less than the interval, so the calls of one server do not overlap here (in
`RoomStats` they do). Only a due tick and a call out of time hold time up. Two comments
(`manager.go:323`, `redis.go:113`) speak of a TTL of 5 seconds; the code's is 7
(`manager.go:316`), and `reportTTL` is the code's.

## 3. What TLC checks

| Run | Shows |
|---|---|
| `manager_safety` | `TypeOK`, `OneSubscriptionPerRoom`, `MembershipMatchesConnection`, `NoDanmakuLost`, `PersistedInOrder`, `ImplementsPresence` |
| `manager_liveness` | `DeadConnectionsLeave`, `EmptyRoomsFallSilent`, `DanmakuReachKafka` |
| `handler_safety` | `TypeOK`, `MarkedIsAccounted`, `CrashLossBounded`, `SavedWithoutGaps`, `SavedOrDropped`, `WorkerInSession` |
| `handler_liveness` | `ShutdownTerminates`, `BatchesSettle` |
| `fanout_safety` | `TypeOK`, `RoomIsolation`, `SliceHasOneOwner`, `OncePerCaller`, `JobsComplete` |
| `stats` | `TypeOK`, `NoSilentLoss`, `ImplementsLedger`, `CounterFallsOnlyOnHugeBatch`, `ShownFallsOnlyOnOverlap`, `LikesSettle`, `StatsCatchUp` |
| `heartbeat` | `TypeOK`, `HeartbeatSurvivesOneMiss`, `GhostsFade`, `TotalConverges` |

Five runs end in a counterexample, because the code does not do what a text of the
repository says:

| Run | The text | What happens |
|---|---|---|
| `manager_kafka_blocks` | `README.md:105`: asynchronous, does not block the broadcast path | the select loop waits in `producer.Input() <- msg` (`kafka.go:116`) |
| `handler_rebalance` | `cmd/consumer/main.go:62`: "Loop continues" | `Cleanup` closes `msgChan` (`handler.go:285`), which nothing makes again; the next session panics |
| `handler_shutdown` | `handler.go:287`: "flush remaining data" | the worker takes `ctx.Done()` (`handler.go:379`) while `msgChan` holds messages |
| `handler_skip` | `handler.go:400`: "skip this message" | the nil is sent to `msgChan` (`handler.go:325`) and spoils its batch |
| `fanout_duplicates` | `manager.go:249`: one path, so that the user does not see a message twice | a cancelled subscription delivers to the room made anew, beside the new one |

`handler_shutdown` does not contradict `MarkedIsAccounted`: the messages left in
`msgChan` are lost only as the process exits. `CrashLossBounded` says how much a process that
ends can take with it: a full channel and a full batch.

What `stats` and `heartbeat` show about weak spots that no text of the repository denies:
likes of a room that empties before the next tick are discarded, a failed INCRBY loses
its batch, and so does a uint64 sum that wraps to 0 (`NoSilentLoss` states that nothing else
does); a repeated INCRBY adds its batch again (`ImplementsLedger`); two overlapping calls,
or a failed read, make a room see its total fall (`ShownFallsOnlyOnOverlap`); a batch above 2^63-1 lowers
the counter (`CounterFallsOnlyOnHugeBatch`); a report that is late after one that failed finds
its key expired (`HeartbeatSurvivesOneMiss`); a SREM decided on an expired key may remove a
server that has reported again, which its next report repairs (`TotalConverges`). That a dead
server's name ever leaves the registry is not claimed: each SREM may find its context
cancelled.

### Bounds, and why they are enough

* `MCManager`: two connections sharing a room and one in a second room: a room is
  created, shared, emptied and created again while another room does the same.
  `BroadcastChanSize` and `ProducerChanBufSize` of 1 make every channel full often.
  Two danmaku of one connection are what an order needs; a third party sends one.
  A connection is used once, as a `*Client` is: a returning user is a new client.
* `MCFanout`: two clients in one room and one in another, a danmaku for the first and
  statistics for the second, three slices: one queued, one at the worker and one being filled. A job
  queue and a `Send` of one, so that both drop. One worker suffices for the ownership
  of slices, since queue and subscriptions compete with it for them; `fanout_duplicates` needs one room
  and one message. The pool of the code never runs out; a snapshot that finds the bound
  used up waits.
* `MCDanmakuHandler`: two partitions, with a danmaku, a message of another type and a
  danmaku in one and a malformed message and one danmaku (liveness) or two (safety) in the other, so that
  there are more danmaku than a channel and a batch hold; `msgChan` of
  one, so that claims block; batches of two for safety, which fill by count or are
  flushed early, and of three for liveness, which leaves a rest only the ticker saves;
  `MaxDBRetries` is 2, a first attempt and one retry (the code has 3). At most two sessions (`MaxSessions`), one restart
  (`MaxRestarts`) and one ambiguous insert (`MaxLostAcks`) per behaviour; failures without
  bound. The runs about one text use one partition.
* `MCRoomStats`: two rooms with a client each, so that a call goes on for one room while
  the other is gone; two likes of one room, which may share a batch or not; two calls, as
  many as an overlap needs; two commands that fail or are repeated, so that a batch may
  be added a third time. `Word` is 2 and the likes are worth 1 and 3, the largest uint64:
  the second alone is negative as a batch, and in one batch they wrap to 0.
* `MCOnlineHeartbeat`: two servers with ticks every 2 seconds in any phase, TTL 5, a call
  that may take a second; one client per server, three changes (joins, leaves, crashes) and
  one failed command. A missed report and a late one after it let a key expire under a live
  server, and its registry entry be swept.

Deadlock checking is off (`CHECK_DEADLOCK FALSE`) where a bounded behaviour does end:
all connections closed, all messages sent, or the process exited with no restart left.

### Fairness

* `Manager`: goroutines that can run do (WF). The sends on `Register`, `Unregister`
  and `Broadcast` and the loop's receive of a packet are strongly fair: Go serves blocked
  senders in FIFO order, and a select chooses among its ready cases at random, so one
  that is ready again and again is taken. A read on a socket the server closed fails;
  nothing makes a healthy peer send, leave or fail. `ProducerShip` is fair, as an
  assumption about the broker: without it the loop may be stuck for good, as
  `manager_kafka_blocks` suggests.
* `DanmakuHandler`: main, each claim and the worker are weakly fair. A database call
  returns with whatever result, and signals, rebalances, commits and crashes may happen
  or not.
* `RoomStats`: the ticker ticks, calls and INCRBY goroutines go on; Redis answers or fails.
  Nobody has to join, leave or like.
* `OnlineHeartbeat`: time passes, calls go on, a SREM ends with or without effect.
* `Fanout`: subscriptions and workers are weakly fair, a `broadcastStats` call finishes what
  it began, `WritePump` is not: the worker
  must not need the peer.

## 4. What is proved

Every invariant, every action property and both refinements the passing runs check are
also theorems, proved by TLAPS for all values of the constants that satisfy the modules'
assumptions. Those are: rooms, owners and counts have their types, capacities and
intervals are positive, bounds are natural numbers, "none" is not a room or a client,
and the sets the code counts or enumerates (clients of the fan-out, servers, likes)
are finite. The bounds (`MaxFailures`, `MaxSessions`, ...) are arbitrary numbers there.

| Module | Theorems | Properties |
|---|---|---|
| `ManagerProofs` | `TypeCorrect`, `OneSubscription`, `Membership`, `NothingLost`, `InOrder`, `Refinement` | `TypeOK`, `OneSubscriptionPerRoom`, `MembershipMatchesConnection`, `NoDanmakuLost`, `PersistedInOrder`, `ImplementsPresence` |
| `FanoutProofs` | `FanoutTypeCorrect`, `FanoutRoomIsolation`, `FanoutOncePerCaller`, `FanoutSliceHasOneOwner` | `TypeOK`, `RoomIsolation`, `OncePerCaller`, `SliceHasOneOwner` |
| `DanmakuHandlerProofs` | `HandlerTypeCorrect`, `HandlerMarkedIsAccounted`, `HandlerCrashLossBounded`, `HandlerSavedWithoutGaps`, `HandlerSavedOrDropped`, `HandlerWorkerInSession` | `TypeOK`, `MarkedIsAccounted`, `CrashLossBounded`, `SavedWithoutGaps`, `SavedOrDropped`, `WorkerInSession` |
| `RoomStatsProofs` | `StatsTypeCorrect`, `StatsNoSilentLoss`, `StatsCounterFalls`, `StatsShownFalls`, `StatsRefinement` | `TypeOK`, `NoSilentLoss`, `CounterFallsOnlyOnHugeBatch`, `ShownFallsOnlyOnOverlap`, `ImplementsLedger` |
| `OnlineHeartbeatProofs` | `HeartbeatTypeCorrect`, `OneMissIsBridged`, `GhostsDoFade` | `TypeOK`, `HeartbeatSurvivesOneMiss`, `GhostsFade` |

Few of these properties are inductive. What each proof adds, and why; TLC was used to
check each invariant on the instances of section 3 before it was proved:

**`ManagerProofs`.** `RoomInv` adds to the first three properties
`LoopClient` (the client the loop handles is one whose goroutine has just met it: else
`HandleUnregister` could remove a client still being served) and `FreshSubscriptions`
(a client not yet registered has left neither a subscription nor a cancellation behind:
else a new room's subscription could be born cancelled). `PipeInv` adds
to `NoDanmakuLost` `InTransit`: the danmaku of a connection that are in the loop and in
the channel carry numbers above the last one persisted, increasing towards the back and
below the one its sender holds. That gives `InOrder`: the number the loop hands over is
above the last persisted; were it not the next, the next would be in transit behind it
or nowhere. `Refinement` needs `HeardRooms`: under `RoomInv` the rooms with a live
subscription are those with an entry.

**`FanoutProofs`.** `FInv` says that no two places (pool, callers, queue, workers) hold
the same slice (`Exclusive`) and that every slice is somewhere (`Covered`): together
`SliceHasOneOwner`. Only because a slice has one owner does the array a worker reads,
long after the lock was released, still hold what its snapshot put there
(`SnapshotInv`: members of the message's room, each once), which gives `RoomIsolation`.
`OncePerCaller` also needs that Redis has given a subscription each message once
(`InboxInv`), that a caller handles what it has taken once (`PassInv`), and that a client
that was sent a message is not in the rest of the same job (`SentInv`).

**`DanmakuHandlerProofs`.** `HInv` has the front of each partition (`Ahead`: the first
offset not yet in `msgChan`). Before the front every message is settled, in the batch
or in the channel (`Accounted`); nothing is from beyond it (`BehindFront`); a message
is in one place (`OnePlace`), after its predecessors (`InOrder`); `Shape` ties
goroutines and offsets together, e.g. between sessions all that is marked is committed.
Each step of a living process is one of seven kinds (it leaves the messages alone,
skips one, pushes, receives, saves, gives up, or loses an acknowledgement), and the
invariant is shown once per kind. `CrashLossBounded` follows by counting: what is
committed and unsettled is in the channel or in the batch, each of bounded length.

**`RoomStatsProofs`.** `RInv` locates each like: in the map, in one call's batch, or
in one report (`OnePlace`), always with its own room (`RoomsKept`), and gives the
reason of each loss (`Reason`): a like whose room has no entry is exposed, so that what
`LocalStats` leaves out is; the likes of a batch that wrapped to 0 are gone together and
for good, so that the batch itself remains as their reason (`Wiped`). The likes of one
report have been added equally often (`Together`). Calls under way together know it
(`Overlap`), and while the likes counted in a room fit an int64, its counter has only
grown: what is shown, and what a call has read, is at most the counter, and what a call
without company has read is at least what is shown (`Growing`). In `StatsRefinement`,
`Like` is `Press`; `LocalStats`, a report discarded because its sum is 0, and a failed
INCRBY are `Lose`, or stutter when they lose nothing; an INCRBY that takes effect is
`Add`, also when it is repeated; all else stutters. The proofs hold for every `Word`, all
uint64 counts and any number of repetitions.

**`OnlineHeartbeatProofs`.** `BInv` bounds from below the TTL of a server with members by
the time to its next report, after no and after one failed report (`Alive`), and from
above that of a server without (`Fading`), for every interval and every lag below it.
The time to a report that is late is negative (`Due`); `InCall` says by how much at most.

`SumLemmas.tla` has what these two need about sums over finite sets (`MapThenSumSet`): a
sum exists, is a natural number, can be taken element by element, is monotone and
bounded. The induction is over sets, not over formulas: the set of the numbers, or
subsets, for which the claim holds is shown to be closed under the step, and a least
counterexample (from the well-foundedness of the naturals) is excluded.

Only model-checked: the liveness properties (`manager_liveness`, `handler_liveness`,
`JobsComplete`, `LikesSettle`, `StatsCatchUp`, `TotalConverges`), which need fairness and
so are out of TLAPS's reach, and the five counterexamples.

## 5. Not modelled

* Playback (`chat_service.go`, `GetPlayBackDanmaku`): one read query without state. Its HTTP
  handler is commented out and nothing else calls it, so there is no use to be right about.
* Logging, configuration, JSON, HTTP parsing, `cmd/client`, `cmd/benchmark`,
  `src/main.go`: no state the properties speak of. Malformed frames and unknown types
  change nothing in `ReadPump`.
* sarama's `Errors()` goroutines (`kafka.go:64`, `kafka.go:98`), which only log: the producer and the
  group are assumed to be drained by them.
* Server shutdown: the code has none. A server's start drops the consumer's table
  (`infra/db.go:19`); the model has the consumer's own start only.
* sarama, Redis and MySQL beyond what their use implies. Offset commits do not
  fail in the model, and every session claims every partition.
* The order of messages of one room at a client: a hundred workers take jobs
  concurrently, and Kafka's random partitioner spreads a connection's danmaku over
  partitions. No text promises an order there.

## 6. Plan

1. What liveness rests on and is still a safety property: that a step of a queue, batch or
   timer brings its end nearer, as action properties with theorems.
2. The composition of `Manager`, `Fanout` and `RoomStats` over `Presence`, stated as a theorem.
3. Shorter proofs where the effect lemmas of an action repeat each other.
