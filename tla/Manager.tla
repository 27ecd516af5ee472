------------------------------- MODULE Manager -------------------------------
(***************************************************************************)
(* One server process: the websocket connections (internal/ws/client.go,   *)
(* internal/api/chat_handler.go), the Manager's select loop with its rooms *)
(* and Redis subscriptions (internal/ws/manager.go), and the path a        *)
(* danmaku takes from a socket to Kafka and Redis.  What happens to a      *)
(* message after it comes back from Redis is in Fanout.tla.                *)
(*                                                                         *)
(* A connection is one *Client: it registers at most once.  A subscription *)
(* goroutine is named after the client whose registration started it.      *)
(* Handlers run under m.mu, so each is one step.                           *)
(***************************************************************************)
EXTENDS Integers, Sequences, FiniteSets

CONSTANTS
    Clients,             \* the connections
    RoomIDs,             \* the rooms
    RoomOf,              \* Client.RoomID, from the URL of the connection
    BroadcastChanSize,   \* capacity of m.Broadcast
    ProducerChanBufSize, \* danmaku the Kafka producer holds before its input blocks
    MaxDanmaku,          \* bound: MaxDanmaku[c] is how many danmaku c sends
    None                 \* no client, no cancel function

ASSUME RoomOfAssumption == RoomOf \in [Clients -> RoomIDs]
ASSUME SizeAssumption == /\ BroadcastChanSize \in Nat \ {0}
                         /\ ProducerChanBufSize \in Nat \ {0}
                         /\ MaxDanmaku \in [Clients -> Nat]
ASSUME NoneAssumption == None \notin Clients

VARIABLES
    conn,       \* conn[c]: where the goroutine serving c is
    writePump,  \* writePump[c]: the WritePump goroutine of c
    sockets,    \* the connections whose Socket this server has not closed
    done,       \* the clients whose done channel is closed
    read,       \* read[c]: danmaku ReadPump has taken off c's socket
    roomKeys,   \* the keys of m.Rooms
    Rooms,      \* Rooms[r]: m.Rooms[r]
    cancelSub,  \* cancelSub[r]: the subscription m.cancelSub[r] cancels
    subs,       \* subs[c]: the subscribeToRoom goroutine c's registration started
    canceled,   \* the subscriptions whose context is cancelled
    mgr,        \* where the select loop of Start is
    client,     \* the client the loop is handling, from Register or Unregister
    packet,     \* the packet the loop is handling, from Broadcast
    broadcast,  \* the m.Broadcast channel
    producer,   \* danmaku waiting in the Kafka producer
    persisted   \* persisted[c]: number of c's last danmaku given to Kafka

connVars == <<conn, writePump, sockets, done, read>>
roomVars == <<roomKeys, Rooms, cancelSub, subs, canceled>>
loopVars == <<mgr, client, packet>>
pipeVars == <<broadcast, producer, persisted>>
vars == <<connVars, roomVars, loopVars, pipeVars>>

(* A danmaku in the Broadcast channel: who sent it and its number. *)
Packet == [from : Clients, seq : Nat]

ConnState == {"idle", "registering", "reading", "sending",
              "unregistering", "closing", "closed"}

TypeOK ==
    /\ conn \in [Clients -> ConnState]
    /\ writePump \in [Clients -> {"none", "running", "stopped"}]
    /\ sockets \in SUBSET Clients
    /\ done \in SUBSET Clients
    /\ read \in [Clients -> Nat]
    /\ roomKeys \in SUBSET RoomIDs
    /\ Rooms \in [RoomIDs -> SUBSET Clients]
    /\ cancelSub \in [RoomIDs -> Clients \cup {None}]
    /\ subs \in [Clients -> {"none", "starting", "live", "exited"}]
    /\ canceled \in SUBSET Clients
    /\ mgr \in {"select", "register", "unregister", "kafka", "redis"}
    /\ client \in Clients \cup {None}
    /\ mgr \in {"register", "unregister"} => client \in Clients
    /\ packet \in Packet \cup {None}
    /\ mgr \in {"kafka", "redis"} => packet \in Packet
    /\ broadcast \in Seq(Packet)
    /\ Len(broadcast) <= BroadcastChanSize
    /\ producer \in 0..ProducerChanBufSize
    /\ persisted \in [Clients -> Nat]

Init ==
    /\ conn = [c \in Clients |-> "idle"]
    /\ writePump = [c \in Clients |-> "none"]
    /\ sockets = {}
    /\ done = {}
    /\ read = [c \in Clients |-> 0]
    /\ roomKeys = {}
    /\ Rooms = [r \in RoomIDs |-> {}]
    /\ cancelSub = [r \in RoomIDs |-> None]
    /\ subs = [c \in Clients |-> "none"]
    /\ canceled = {}
    /\ mgr = "select"
    /\ client = None
    /\ packet = None
    /\ broadcast = <<>>
    /\ producer = 0
    /\ persisted = [c \in Clients |-> 0]

----------------------------------------------------------------------------
(* The goroutine of a connection: ConnectWebSocket, then ReadPump. *)

(* The upgrade succeeded; the goroutine blocks on m.Register <- client. *)
Connect(c) ==
    /\ conn[c] = "idle"
    /\ conn' = [conn EXCEPT ![c] = "registering"]
    /\ sockets' = sockets \cup {c}
    /\ UNCHANGED <<writePump, done, read, roomVars, loopVars, pipeVars>>

(* Register is unbuffered: the send completes when the loop receives, and   *)
(* both pumps run from then on, while the loop is still in handleRegister.  *)
RegisterClient(c) ==
    /\ conn[c] = "registering"
    /\ mgr = "select"
    /\ conn' = [conn EXCEPT ![c] = "reading"]
    /\ writePump' = [writePump EXCEPT ![c] = "running"]
    /\ mgr' = "register"
    /\ client' = c
    /\ UNCHANGED <<sockets, done, read, roomVars, packet, pipeVars>>

(* A danmaku frame was read and wrapped.  Frames the websocket library has  *)
(* buffered are still returned after the socket is closed.  Malformed       *)
(* frames, unknown types and likes leave this state alone.                  *)
ReadDanmaku(c) ==
    /\ conn[c] = "reading"
    /\ read[c] < MaxDanmaku[c]
    /\ conn' = [conn EXCEPT ![c] = "sending"]
    /\ read' = [read EXCEPT ![c] = @ + 1]
    /\ UNCHANGED <<writePump, sockets, done, roomVars, loopVars, pipeVars>>

(* Mutant of BroadcastHasRoom: the channel grows without bound. *)
BroadcastHasRoom_Unbounded == TRUE

BroadcastHasRoom == Len(broadcast) < BroadcastChanSize

(* m.Broadcast <- &outgoingPacket, which blocks ReadPump while it is full. *)
EnqueueBroadcast(c) ==
    /\ conn[c] = "sending"
    /\ BroadcastHasRoom
    /\ conn' = [conn EXCEPT ![c] = "reading"]
    /\ broadcast' = Append(broadcast, [from |-> c, seq |-> read[c]])
    /\ UNCHANGED <<writePump, sockets, done, read, roomVars, loopVars,
                   producer, persisted>>

(* Mutant of ReadFail: ReadPump returns without its deferred Unregister. *)
ReadFail_NoUnregister(c) ==
    /\ conn[c] = "reading"
    /\ conn' = [conn EXCEPT ![c] = "closing"]
    /\ UNCHANGED <<writePump, sockets, done, read, roomVars, loopVars, pipeVars>>

(* ReadMessage failed: the peer left, or the server closed the socket. *)
ReadFail(c) ==
    /\ conn[c] = "reading"
    /\ conn' = [conn EXCEPT ![c] = "unregistering"]
    /\ UNCHANGED <<writePump, sockets, done, read, roomVars, loopVars, pipeVars>>

(* ReadPump's deferred manager.Unregister <- c meets the loop. *)
UnregisterClient(c) ==
    /\ conn[c] = "unregistering"
    /\ mgr = "select"
    /\ conn' = [conn EXCEPT ![c] = "closing"]
    /\ mgr' = "unregister"
    /\ client' = c
    /\ UNCHANGED <<writePump, sockets, done, read, roomVars, packet, pipeVars>>

(* The rest of the deferred function: c.Socket.Close(). *)
CloseSocket(c) ==
    /\ conn[c] = "closing"
    /\ conn' = [conn EXCEPT ![c] = "closed"]
    /\ sockets' = sockets \ {c}
    /\ UNCHANGED <<writePump, done, read, roomVars, loopVars, pipeVars>>

(* WritePump returns because a write failed, or because done is closed;     *)
(* both ways its deferred function closes the socket.                       *)
WriteFail(c) ==
    /\ writePump[c] = "running"
    /\ writePump' = [writePump EXCEPT ![c] = "stopped"]
    /\ sockets' = sockets \ {c}
    /\ UNCHANGED <<conn, done, read, roomVars, loopVars, pipeVars>>

WriteDone(c) ==
    /\ c \in done
    /\ WriteFail(c)

----------------------------------------------------------------------------
(* The select loop. *)

(* Mutant of NewRoom: every registration makes the room anew. *)
NewRoom_Always(r) == TRUE

(* if _, ok := m.Rooms[client.RoomID]; !ok *)
NewRoom(r) == r \notin roomKeys

(* The first client of a room creates its entry and its subscription. *)
HandleRegister ==
    /\ mgr = "register"
    /\ LET r == RoomOf[client]
           newRoom == NewRoom(r)
       IN /\ roomKeys' = roomKeys \cup {r}
          /\ Rooms' = [Rooms EXCEPT ![r] = (IF newRoom THEN {} ELSE @) \cup {client}]
          /\ cancelSub' = IF newRoom THEN [cancelSub EXCEPT ![r] = client]
                                     ELSE cancelSub
          /\ subs' = IF newRoom THEN [subs EXCEPT ![client] = "starting"]
                                ELSE subs
    /\ mgr' = "select"
    /\ client' = None
    /\ UNCHANGED <<connVars, canceled, packet, pipeVars>>

(* Mutants of Canceled and Closed: the last client's cancel() is forgotten; *)
(* client.Close() is forgotten.                                             *)
Canceled_Forgotten(r) == canceled

Closed_Forgotten(c) == done

(* The room's cancel() is called, if m.cancelSub has one. *)
Canceled(r) == canceled \cup ({cancelSub[r]} \ {None})

(* client.Close() closes the done channel (and the socket, sockets below). *)
Closed(c) == done \cup {c}

(* The last client of a room deletes its entry and cancels its subscription. *)
HandleUnregister ==
    /\ mgr = "unregister"
    /\ LET r == RoomOf[client]
           member == r \in roomKeys /\ client \in Rooms[r]
           last == member /\ Rooms[r] = {client}
       IN /\ Rooms' = IF member THEN [Rooms EXCEPT ![r] = @ \ {client}] ELSE Rooms
          /\ done' = IF member THEN Closed(client) ELSE done
          /\ sockets' = IF member THEN sockets \ {client} ELSE sockets
          /\ roomKeys' = IF last THEN roomKeys \ {r} ELSE roomKeys
          /\ canceled' = IF last THEN Canceled(r) ELSE canceled
          /\ cancelSub' = IF last THEN [cancelSub EXCEPT ![r] = None] ELSE cancelSub
    /\ mgr' = "select"
    /\ client' = None
    /\ UNCHANGED <<conn, writePump, read, subs, packet, pipeVars>>

(* packet := <-m.Broadcast, a danmaku: handleBroadcast calls processDanmaku. *)
TakePacket ==
    /\ mgr = "select"
    /\ broadcast # <<>>
    /\ packet' = Head(broadcast)
    /\ broadcast' = Tail(broadcast)
    /\ mgr' = "kafka"
    /\ UNCHANGED <<connVars, roomVars, client, producer, persisted>>

(* Mutant of PushToInput: the circuit breaker that is commented out in      *)
(* infra/kafka.go, which drops when the producer is full.                   *)
PushToInput_Drops ==
    /\ mgr = "kafka"
    /\ IF producer < ProducerChanBufSize
       THEN /\ producer' = producer + 1
            /\ persisted' = [persisted EXCEPT ![packet.from] = packet.seq]
       ELSE UNCHANGED <<producer, persisted>>
    /\ mgr' = "redis"
    /\ UNCHANGED <<connVars, roomVars, client, packet, broadcast>>

(* PushToInput: producer.Input() <- msg, inside the select loop. *)
PushToInput ==
    /\ mgr = "kafka"
    /\ producer < ProducerChanBufSize
    /\ producer' = producer + 1
    /\ persisted' = [persisted EXCEPT ![packet.from] = packet.seq]
    /\ mgr' = "redis"
    /\ UNCHANGED <<connVars, roomVars, client, packet, broadcast>>

(* PublishToRoom: a round trip to Redis inside the select loop, bounded by   *)
(* RedisCancelTimeout; an error is only logged.                             *)
PublishToRoom ==
    /\ mgr = "redis"
    /\ mgr' = "select"
    /\ packet' = None
    /\ UNCHANGED <<connVars, roomVars, client, broadcast, producer, persisted>>

(* External: the producer ships a danmaku to the broker, or gives up on it. *)
ProducerShip ==
    /\ producer > 0
    /\ producer' = producer - 1
    /\ UNCHANGED <<connVars, roomVars, loopVars, broadcast, persisted>>

----------------------------------------------------------------------------
(* subscribeToRoom, one goroutine per room creation. *)

SubStart(c) ==
    /\ subs[c] = "starting"
    /\ subs' = [subs EXCEPT ![c] = "live"]
    /\ UNCHANGED <<connVars, roomKeys, Rooms, cancelSub, canceled, loopVars, pipeVars>>

(* case <-ctx.Done(): the goroutine notices, some time after cancel(). *)
SubExit(c) ==
    /\ subs[c] = "live"
    /\ c \in canceled
    /\ subs' = [subs EXCEPT ![c] = "exited"]
    /\ UNCHANGED <<connVars, roomKeys, Rooms, cancelSub, canceled, loopVars, pipeVars>>

----------------------------------------------------------------------------
ClientStep(c) ==
    \/ Connect(c) \/ RegisterClient(c) \/ ReadDanmaku(c) \/ EnqueueBroadcast(c)
    \/ ReadFail(c) \/ UnregisterClient(c) \/ CloseSocket(c)
    \/ WriteFail(c) \/ WriteDone(c)

LoopStep == HandleRegister \/ HandleUnregister \/ TakePacket
            \/ PushToInput \/ PublishToRoom

SubStep(c) == SubStart(c) \/ SubExit(c)

Next == \/ \E c \in Clients : ClientStep(c) \/ SubStep(c)
        \/ LoopStep
        \/ ProducerShip

Spec == Init /\ [][Next]_vars

(***************************************************************************)
(* Fairness.  Goroutines that can run do run (WF).  Senders blocked on a   *)
(* channel are served in FIFO order and a select picks among its ready     *)
(* cases at random, so a rendezvous that is possible again and again takes *)
(* place (SF).  The broker accepts what the producer holds: that is the    *)
(* environment's part.  A read on a closed socket fails in the end; nothing *)
(* makes a healthy peer leave or send.                                     *)
(***************************************************************************)
ChannelSend(c) == RegisterClient(c) \/ EnqueueBroadcast(c) \/ UnregisterClient(c)

GoroutineFairness ==
    /\ \A c \in Clients :
         /\ SF_vars(ChannelSend(c))
         /\ WF_vars(c \notin sockets /\ ReadFail(c))
         /\ WF_vars(CloseSocket(c)) /\ WF_vars(WriteDone(c))
         /\ WF_vars(SubStart(c)) /\ WF_vars(SubExit(c))
    /\ SF_vars(TakePacket)
    /\ WF_vars(HandleRegister) /\ WF_vars(HandleUnregister)
    /\ WF_vars(PushToInput) /\ WF_vars(PublishToRoom)

FairSpec == Spec /\ GoroutineFairness /\ WF_vars(ProducerShip)

----------------------------------------------------------------------------
(* Safety. *)

(* The subscription goroutines of room r that still listen and that nobody  *)
(* has told to stop.                                                        *)
Listening(r) == {c \in Clients : /\ RoomOf[c] = r
                                 /\ subs[c] \in {"starting", "live"}
                                 /\ c \notin canceled}

(* handleRegister and handleUnregister keep one subscription per inhabited  *)
(* room: a room has an entry exactly while it has members, the entry's      *)
(* subscription is the only one not cancelled, and m.cancelSub holds the    *)
(* function that stops it.  Two would deliver each danmaku twice, none      *)
(* would leave the room silent, one without its cancel would leak.          *)
OneSubscriptionPerRoom ==
    \A r \in RoomIDs :
        /\ r \in roomKeys <=> Rooms[r] # {}
        /\ Listening(r) = IF r \in roomKeys THEN {cancelSub[r]} ELSE {}

(* A client is in its room's set from handleRegister to handleUnregister    *)
(* and in no other set: no ghost member keeps a room (and its online count) *)
(* alive after its connection is gone, and no served connection is missing  *)
(* from its room.  Its done channel is closed as it is removed.             *)
MembershipMatchesConnection ==
    \A c \in Clients :
        /\ \A r \in RoomIDs : c \in Rooms[r] => r = RoomOf[c]
        /\ c \in Rooms[RoomOf[c]] <=>
              \/ /\ conn[c] \in {"reading", "sending", "unregistering"}
                 /\ ~(mgr = "register" /\ client = c)
              \/ mgr = "unregister" /\ client = c
        /\ c \in done <=>
              /\ conn[c] \in {"closing", "closed"}
              /\ ~(mgr = "unregister" /\ client = c)

(* Every danmaku ReadPump accepted and Kafka has not been given is held     *)
(* somewhere: in the sender, in the Broadcast channel or in the loop.  The  *)
(* pipeline blocks, it never drops, even after its sender has disconnected. *)
NoDanmakuLost ==
    \A c \in Clients : \A n \in (persisted[c] + 1)..read[c] :
        \/ conn[c] = "sending" /\ n = read[c]
        \/ \E i \in 1..Len(broadcast) : broadcast[i] = [from |-> c, seq |-> n]
        \/ mgr = "kafka" /\ packet = [from |-> c, seq |-> n]

(* The select loop gives a connection's danmaku to Kafka once each and in   *)
(* the order ReadPump read them, whatever the other connections do.         *)
PersistedInOrder ==
    [][\A c \in Clients : persisted'[c] \in {persisted[c], persisted[c] + 1}]_vars

(* What makes the room invariants inductive: the loop handles a client      *)
(* whose goroutine has just met it on Register or Unregister, and a client  *)
(* not yet registered has left no subscription and no cancellation behind.  *)
LoopClient ==
    /\ mgr = "register" => conn[client] \in {"reading", "sending", "unregistering"}
    /\ mgr = "unregister" => conn[client] \in {"closing", "closed"}

Unregistered(c) == \/ conn[c] \in {"idle", "registering"}
                   \/ mgr = "register" /\ client = c

FreshSubscriptions ==
    \A c \in Clients : /\ Unregistered(c) => subs[c] = "none"
                       /\ subs[c] = "none" => c \notin canceled

RoomInv == /\ TypeOK
           /\ OneSubscriptionPerRoom
           /\ MembershipMatchesConnection
           /\ LoopClient
           /\ FreshSubscriptions

(* What makes NoDanmakuLost and PersistedInOrder inductive: the danmaku of  *)
(* a connection that are in the loop or the channel carry numbers Kafka has *)
(* not seen, increasing towards the back, below the one its sender holds.   *)
Unsent(p) == /\ persisted[p.from] < p.seq
             /\ p.seq <= read[p.from]
             /\ conn[p.from] = "sending" => p.seq < read[p.from]

InTransit ==
    /\ \A c \in Clients : /\ persisted[c] <= read[c]
                          /\ conn[c] = "sending" => persisted[c] < read[c]
    /\ mgr = "kafka" => Unsent(packet)
    /\ \A i \in 1..Len(broadcast) :
          /\ Unsent(broadcast[i])
          /\ (mgr = "kafka" /\ packet.from = broadcast[i].from)
                 => packet.seq < broadcast[i].seq
    /\ \A i, j \in 1..Len(broadcast) :
          (i < j /\ broadcast[i].from = broadcast[j].from)
              => broadcast[i].seq < broadcast[j].seq

PipeInv == TypeOK /\ NoDanmakuLost /\ InTransit

(* The detailed specification implements Presence. *)
P == INSTANCE Presence WITH
        presence <- [c \in Clients |->
                        IF c \in Rooms[RoomOf[c]] THEN "inside"
                        ELSE IF c \in done THEN "left" ELSE "outside"],
        listening <- {r \in RoomIDs : Listening(r) # {}}

(* handleRegister and handleUnregister move a client in and out of its room *)
(* once, and start and stop its subscription with the first and last member.*)
ImplementsPresence == P!Spec

(* README.md:105 and the comment at manager.go:272 call the Kafka write     *)
(* asynchronous, not blocking the broadcast path: the loop is never stuck   *)
(* in producer.Input() <- msg.                                              *)
KafkaNeverBlocksLoop == ~(mgr = "kafka" /\ producer = ProducerChanBufSize)

----------------------------------------------------------------------------
(* Liveness. *)

(* A connection whose socket the server has closed leaves its room, even    *)
(* when ReadPump is blocked on a full Broadcast channel at that moment.     *)
DeadConnectionsLeave ==
    \A c \in Clients :
        (c \notin sockets /\ c \in Rooms[RoomOf[c]]) ~> (c \notin Rooms[RoomOf[c]])

(* A room nobody is in stops listening to Redis unless somebody joins it.   *)
EmptyRoomsFallSilent ==
    \A r \in RoomIDs :
        (Rooms[r] = {}) ~> \/ Rooms[r] # {}
                           \/ \A c \in Clients : RoomOf[c] = r =>
                                 subs[c] \in {"none", "exited"}

(* With a broker that keeps accepting, every danmaku read from a socket is  *)
(* handed to Kafka, in whatever state its connection is by then.            *)
DanmakuReachKafka ==
    \A c \in Clients : (persisted[c] < read[c]) ~> (persisted[c] = read[c])
=============================================================================
