---------------------------- MODULE ManagerProofs ----------------------------
(***************************************************************************)
(* Proofs about Manager, for any set of clients and rooms and any channel  *)
(* capacity.                                                               *)
(***************************************************************************)
EXTENDS Manager, SequenceTheorems, TLAPS

USE RoomOfAssumption, SizeAssumption, NoneAssumption

----------------------------------------------------------------------------
(* Every step keeps every variable in its type: in particular the loop      *)
(* always has a client in hand when it handles Register or Unregister, and  *)
(* a packet when it talks to Kafka or Redis.                                *)
LEMMA TypeStep == TypeOK /\ [Next]_vars => TypeOK'
<1> SUFFICES ASSUME TypeOK, [Next]_vars PROVE TypeOK'
    OBVIOUS
<1> USE DEF TypeOK, ConnState, Packet, connVars, roomVars, loopVars, pipeVars
<1>1. ASSUME NEW c \in Clients, Connect(c) PROVE TypeOK'
    BY <1>1 DEF Connect
<1>2. ASSUME NEW c \in Clients, RegisterClient(c) PROVE TypeOK'
    BY <1>2 DEF RegisterClient
<1>3. ASSUME NEW c \in Clients, ReadDanmaku(c) PROVE TypeOK'
    BY <1>3 DEF ReadDanmaku
<1>4. ASSUME NEW c \in Clients, EnqueueBroadcast(c) PROVE TypeOK'
    BY <1>4 DEF EnqueueBroadcast, BroadcastHasRoom
<1>5. ASSUME NEW c \in Clients, ReadFail(c) PROVE TypeOK'
    BY <1>5 DEF ReadFail
<1>6. ASSUME NEW c \in Clients, UnregisterClient(c) PROVE TypeOK'
    BY <1>6 DEF UnregisterClient
<1>7. ASSUME NEW c \in Clients, CloseSocket(c) PROVE TypeOK'
    BY <1>7 DEF CloseSocket
<1>8. ASSUME NEW c \in Clients, WriteFail(c) \/ WriteDone(c) PROVE TypeOK'
  <2>1. WriteFail(c)
      BY <1>8 DEF WriteDone
  <2> QED
      BY <2>1 DEF WriteFail
<1>9. CASE HandleRegister
    BY <1>9 DEF HandleRegister, NewRoom
<1>10. CASE HandleUnregister
    BY <1>10 DEF HandleUnregister, Canceled, Closed
<1>11. CASE TakePacket
  <2> HIDE DEF Packet
  <2>1. /\ Head(broadcast) \in Packet
        /\ Tail(broadcast) \in Seq(Packet)
        /\ Len(Tail(broadcast)) = Len(broadcast) - 1
        /\ Len(broadcast) \in Nat
      BY <1>11, HeadTailProperties, LenProperties DEF TakePacket
  <2> QED
      BY <1>11, <2>1 DEF TakePacket
<1>12. CASE PushToInput
    BY <1>12 DEF PushToInput
<1>13. CASE PublishToRoom
    BY <1>13 DEF PublishToRoom
<1>14. CASE ProducerShip
    BY <1>14 DEF ProducerShip
<1>15. ASSUME NEW c \in Clients, SubStep(c) PROVE TypeOK'
  <2>1. CASE SubStart(c)
      BY <2>1 DEF SubStart
  <2>2. CASE SubExit(c)
      BY <2>2 DEF SubExit
  <2> QED
      BY <1>15, <2>1, <2>2 DEF SubStep
<1>16. CASE UNCHANGED vars
    BY <1>16 DEF vars
<1> QED
    BY <1>1, <1>2, <1>3, <1>4, <1>5, <1>6, <1>7, <1>8, <1>9, <1>10, <1>11,
       <1>12, <1>13, <1>14, <1>15, <1>16 DEF Next, ClientStep, LoopStep

(* Type correctness of the connection manager. *)
THEOREM TypeCorrect == Spec => []TypeOK
<1>1. Init => TypeOK
    BY DEF Init, TypeOK, ConnState, Packet
<1> QED
    BY <1>1, TypeStep, PTL DEF Spec

----------------------------------------------------------------------------
(* The rooms.  A step that touches no room, no subscription and neither     *)
(* the loop nor a connection's place keeps every part of RoomInv.           *)
LEMMA RoomStep == RoomInv /\ [Next]_vars => RoomInv'
<1> SUFFICES ASSUME RoomInv, [Next]_vars PROVE RoomInv'
    OBVIOUS
<1>0. TypeOK /\ TypeOK'
    BY TypeStep DEF RoomInv
<1> USE <1>0 DEF RoomInv, OneSubscriptionPerRoom, Listening,
        MembershipMatchesConnection, LoopClient, FreshSubscriptions, Unregistered
<1> USE DEF TypeOK, ConnState, connVars, roomVars, loopVars, pipeVars
<1>1. ASSUME NEW c \in Clients, Connect(c) PROVE RoomInv'
    BY <1>1 DEF Connect
<1>2. ASSUME NEW c \in Clients, RegisterClient(c) PROVE RoomInv'
    BY <1>2 DEF RegisterClient
<1>3. ASSUME NEW c \in Clients, ReadDanmaku(c) PROVE RoomInv'
    BY <1>3, SMTT(30) DEF ReadDanmaku
<1>4. ASSUME NEW c \in Clients, EnqueueBroadcast(c) PROVE RoomInv'
    BY <1>4 DEF EnqueueBroadcast, BroadcastHasRoom
<1>5. ASSUME NEW c \in Clients, ReadFail(c) PROVE RoomInv'
    BY <1>5 DEF ReadFail
<1>6. ASSUME NEW c \in Clients, UnregisterClient(c) PROVE RoomInv'
    BY <1>6 DEF UnregisterClient
<1>7. ASSUME NEW c \in Clients, CloseSocket(c) PROVE RoomInv'
    BY <1>7 DEF CloseSocket
<1>8. ASSUME NEW c \in Clients, WriteFail(c) PROVE RoomInv'
    BY <1>8 DEF WriteFail
<1>9. CASE HandleRegister
  <2> DEFINE r == RoomOf[client]
  <2>0. client \in Clients /\ r \in RoomIDs
      BY <1>9 DEF HandleRegister, NewRoom
  <2>1. OneSubscriptionPerRoom'
    <3> SUFFICES ASSUME NEW q \in RoomIDs
                 PROVE /\ (q \in roomKeys <=> Rooms[q] # {})'
                       /\ Listening(q)' = (IF q \in roomKeys
                                           THEN {cancelSub[q]} ELSE {})'
        BY DEF OneSubscriptionPerRoom
    <3>1. CASE q = r /\ r \notin roomKeys
        BY <1>9, <2>0, <3>1 DEF HandleRegister, NewRoom
    <3>2. CASE q # r \/ r \in roomKeys
      <4>1. Listening(q)' = Listening(q)
          BY <1>9, <2>0, <3>2 DEF HandleRegister, NewRoom
      <4> QED
          BY <1>9, <2>0, <3>2, <4>1 DEF HandleRegister, NewRoom
    <3> QED
        BY <3>1, <3>2
  <2>2. MembershipMatchesConnection'
      BY <1>9, <2>0 DEF HandleRegister, NewRoom
  <2>3. LoopClient' /\ FreshSubscriptions'
      BY <1>9, <2>0 DEF HandleRegister, NewRoom
  <2> QED
      BY <2>1, <2>2, <2>3
<1>10. CASE HandleUnregister
  <2> DEFINE r == RoomOf[client]
             last == Rooms[r] = {client}
  <2>0. client \in Clients /\ r \in RoomIDs /\ client \in Rooms[r] /\ r \in roomKeys
      BY <1>10 DEF HandleUnregister, Canceled, Closed
  <2>1. /\ cancelSub[r] \in Clients
        /\ RoomOf[cancelSub[r]] = r
        /\ subs[cancelSub[r]] \in {"starting", "live"}
      BY <2>0
  <2>2. /\ Rooms' = [Rooms EXCEPT ![r] = @ \ {client}]
        /\ done' = done \cup {client}
        /\ mgr' = "select"
        /\ client' = None
        /\ UNCHANGED <<conn, subs>>
        /\ last => /\ roomKeys' = roomKeys \ {r}
                   /\ canceled' = canceled \cup {cancelSub[r]}
                   /\ cancelSub' = [cancelSub EXCEPT ![r] = None]
        /\ ~last => UNCHANGED <<roomKeys, canceled, cancelSub>>
      BY <1>10, <2>0, <2>1 DEF HandleUnregister, Canceled, Closed
  <2>3. OneSubscriptionPerRoom'
    <3> SUFFICES ASSUME NEW q \in RoomIDs
                 PROVE /\ (q \in roomKeys <=> Rooms[q] # {})'
                       /\ Listening(q)' = (IF q \in roomKeys
                                           THEN {cancelSub[q]} ELSE {})'
        BY DEF OneSubscriptionPerRoom
    <3>1. CASE q = r /\ last
        BY <2>0, <2>1, <2>2, <3>1
    <3>2. CASE q # r
      <4>1. Listening(q)' = Listening(q)
          BY <2>1, <2>2, <3>2
      <4>2. Rooms'[q] = Rooms[q] /\ cancelSub'[q] = cancelSub[q]
        <5>1. Rooms'[q] = Rooms[q]
            BY <2>0, <2>2, <3>2
        <5>2. cancelSub'[q] = cancelSub[q]
            BY <2>0, <2>2, <3>2
        <5> QED
            BY <5>1, <5>2
      <4>3. q \in roomKeys' <=> q \in roomKeys
        <5>1. CASE last
            BY <2>2, <3>2, <5>1
        <5>2. CASE ~last
            BY <2>2, <5>2
        <5> QED
            BY <5>1, <5>2
      <4> QED
          BY <4>1, <4>2, <4>3
    <3>3. CASE q = r /\ ~last
      <4>1. Rooms[q] \ {client} # {}
          BY <2>0, <3>3
      <4>2. Listening(q)' = Listening(q)
          BY <2>2, <3>3
      <4>3. Rooms'[q] = Rooms[q] \ {client} /\ Rooms[q] # {}
          BY <2>0, <2>2, <3>3
      <4>4. roomKeys' = roomKeys /\ cancelSub' = cancelSub /\ q \in roomKeys
          BY <2>0, <2>2, <3>3
      <4> QED
          BY <4>1, <4>2, <4>3, <4>4
    <3> QED
        BY <3>1, <3>2, <3>3
  <2>4. MembershipMatchesConnection'
      BY <1>10, <2>0, <2>2 DEF HandleUnregister, Canceled, Closed
  <2>5. LoopClient' /\ FreshSubscriptions'
      BY <2>0, <2>1, <2>2
  <2> QED
      BY <2>3, <2>4, <2>5
<1>11. CASE TakePacket
    BY <1>11 DEF TakePacket
<1>12. CASE PushToInput
    BY <1>12 DEF PushToInput
<1>13. CASE PublishToRoom
    BY <1>13 DEF PublishToRoom
<1>14. CASE ProducerShip
    BY <1>14 DEF ProducerShip
<1>15. ASSUME NEW c \in Clients, SubStart(c) PROVE RoomInv'
    BY <1>15 DEF SubStart
<1>16. ASSUME NEW c \in Clients, SubExit(c) PROVE RoomInv'
    BY <1>16 DEF SubExit
<1>17. CASE UNCHANGED vars
    BY <1>17 DEF vars
<1> QED
    BY <1>1, <1>2, <1>3, <1>4, <1>5, <1>6, <1>7, <1>8, <1>9, <1>10, <1>11,
       <1>12, <1>13, <1>14, <1>15, <1>16, <1>17
    DEF Next, ClientStep, SubStep, LoopStep, WriteDone

(* RoomInv holds throughout: of the rooms, their subscriptions and members. *)
LEMMA RoomInvariant == Spec => []RoomInv
<1>1. Init => RoomInv
    BY DEF Init, RoomInv, TypeOK, ConnState, Packet, OneSubscriptionPerRoom,
           Listening, MembershipMatchesConnection, LoopClient,
           FreshSubscriptions, Unregistered
<1> QED
    BY <1>1, RoomStep, PTL DEF Spec

(* Whatever the interleaving of connections joining and leaving, a room has *)
(* an entry exactly while it has members, and exactly one subscription that *)
(* listens, the one its cancel function stops.                              *)
THEOREM OneSubscription == Spec => []OneSubscriptionPerRoom
<1>1. RoomInv => OneSubscriptionPerRoom
    BY DEF RoomInv
<1> QED
    BY <1>1, RoomInvariant, PTL

(* A client is in its room from handleRegister to handleUnregister.         *)
THEOREM Membership == Spec => []MembershipMatchesConnection
<1>1. RoomInv => MembershipMatchesConnection
    BY DEF RoomInv
<1> QED
    BY <1>1, RoomInvariant, PTL

----------------------------------------------------------------------------
(* The danmaku pipeline.  Elsewhere is what a step looks like that neither  *)
(* moves a danmaku nor blocks or releases a sender.                         *)
Elsewhere ==
    /\ UNCHANGED <<read, broadcast, persisted, packet>>
    /\ mgr = "kafka" <=> mgr' = "kafka"
    /\ \A c \in Clients : conn[c] = "sending" <=> conn'[c] = "sending"

(* Unsent(p), of a packet p of this state, in the next one. *)
UnsentNext(p) == /\ persisted'[p.from] < p.seq
                 /\ p.seq <= read'[p.from]
                 /\ conn'[p.from] = "sending" => p.seq < read'[p.from]

(* Steps that leave the danmaku under way where they are. *)
LEMMA ElsewhereStep == PipeInv /\ Elsewhere => (NoDanmakuLost /\ InTransit)'
<1> SUFFICES ASSUME PipeInv, Elsewhere PROVE (NoDanmakuLost /\ InTransit)'
    OBVIOUS
<1> USE DEF PipeInv, Elsewhere
<1>1. \A p \in Packet : Unsent(p) => UnsentNext(p)
    BY DEF Unsent, UnsentNext, Packet
<1>2. \A i \in 1..Len(broadcast) : broadcast[i] \in Packet
    BY DEF TypeOK
<1>3. NoDanmakuLost'
    BY DEF NoDanmakuLost
<1>4. mgr = "kafka" => packet \in Packet
    BY DEF TypeOK
<1>5. InTransit'
    BY <1>1, <1>2, <1>4 DEF InTransit, Unsent, UnsentNext
<1> QED
    BY <1>3, <1>5

(* The way from ReadPump to Kafka: PipeInv is inductive. *)
LEMMA PipeStep == PipeInv /\ [Next]_vars => PipeInv'
<1> SUFFICES ASSUME PipeInv, [Next]_vars PROVE PipeInv'
    OBVIOUS
<1>0. TypeOK /\ TypeOK'
    BY TypeStep DEF PipeInv
<1>a. ASSUME Elsewhere PROVE PipeInv'
    BY <1>0, <1>a, ElsewhereStep DEF PipeInv
<1>1. ASSUME NEW c \in Clients,
             \/ Connect(c) \/ RegisterClient(c) \/ ReadFail(c)
             \/ UnregisterClient(c) \/ CloseSocket(c) \/ WriteFail(c)
             \/ SubStart(c) \/ SubExit(c)
      PROVE  PipeInv'
  <2> USE <1>0 DEF Elsewhere, TypeOK, ConnState, connVars, roomVars, loopVars, pipeVars
  <2>1. CASE Connect(c)
      BY <2>1, <1>a DEF Connect
  <2>2. CASE RegisterClient(c)
      BY <2>2, <1>a DEF RegisterClient
  <2>3. CASE ReadFail(c)
      BY <2>3, <1>a DEF ReadFail
  <2>4. CASE UnregisterClient(c)
      BY <2>4, <1>a DEF UnregisterClient
  <2>5. CASE CloseSocket(c)
      BY <2>5, <1>a DEF CloseSocket
  <2>6. CASE WriteFail(c)
      BY <2>6, <1>a DEF WriteFail
  <2>7. CASE SubStart(c) \/ SubExit(c)
      BY <2>7, <1>a DEF SubStart, SubExit
  <2> QED
      BY <1>1, <2>1, <2>2, <2>3, <2>4, <2>5, <2>6, <2>7
<1>2. ASSUME \/ HandleRegister \/ HandleUnregister \/ ProducerShip \/ UNCHANGED vars
      PROVE  PipeInv'
  <2>1. Elsewhere
      BY <1>0, <1>2 DEF Elsewhere, HandleRegister, NewRoom, HandleUnregister,
         Canceled, Closed, ProducerShip,
         vars, connVars, roomVars, loopVars, pipeVars
  <2> QED
      BY <2>1, <1>a
<1>3. ASSUME NEW c \in Clients, ReadDanmaku(c) PROVE PipeInv'
  <2>1. /\ conn[c] = "reading"
        /\ read' = [read EXCEPT ![c] = @ + 1]
        /\ conn' = [conn EXCEPT ![c] = "sending"]
        /\ UNCHANGED <<broadcast, persisted, packet, mgr>>
      BY <1>3 DEF ReadDanmaku, loopVars, pipeVars
  <2>2. \A p \in Packet : Unsent(p) => UnsentNext(p)
      BY <1>0, <2>1 DEF Unsent, UnsentNext, Packet, TypeOK, ConnState
  <2>3. NoDanmakuLost'
    <3> SUFFICES ASSUME NEW d \in Clients, NEW n \in (persisted[d] + 1)..read'[d]
                 PROVE \/ conn'[d] = "sending" /\ n = read'[d]
                       \/ \E i \in 1..Len(broadcast) : broadcast[i] = [from |-> d, seq |-> n]
                       \/ mgr = "kafka" /\ packet = [from |-> d, seq |-> n]
        BY <2>1 DEF NoDanmakuLost
    <3>1. CASE n = read'[d] /\ d = c
        BY <1>0, <2>1, <3>1 DEF TypeOK
    <3>2. CASE ~(n = read'[d] /\ d = c)
      <4>1. n \in (persisted[d] + 1)..read[d]
          BY <1>0, <2>1, <3>2 DEF TypeOK
      <4> QED
          BY <1>0, <2>1, <4>1 DEF PipeInv, NoDanmakuLost, TypeOK
    <3> QED
        BY <3>1, <3>2
  <2>4. InTransit'
    <3>1. \A i \in 1..Len(broadcast) : broadcast[i] \in Packet
        BY <1>0 DEF TypeOK
    <3>2. mgr = "kafka" => packet \in Packet
        BY <1>0 DEF TypeOK
    <3>3. \A d \in Clients : /\ persisted[d] <= read'[d]
                             /\ conn'[d] = "sending" => persisted[d] < read'[d]
        BY <1>0, <2>1 DEF PipeInv, InTransit, TypeOK
    <3> QED
        BY <2>1, <2>2, <3>1, <3>2, <3>3 DEF PipeInv, InTransit, Unsent, UnsentNext
  <2> QED
      BY <1>0, <2>3, <2>4 DEF PipeInv
<1>4. ASSUME NEW c \in Clients, EnqueueBroadcast(c) PROVE PipeInv'
  <2> DEFINE p == [from |-> c, seq |-> read[c]]
             k == Len(broadcast)
  <2>1. /\ k \in Nat
        /\ Len(broadcast') = k + 1
        /\ \A i \in 1..k : broadcast'[i] = broadcast[i] /\ broadcast[i] \in Packet
        /\ broadcast'[k + 1] = p
        /\ p \in Packet
    <3>1. p \in Packet /\ broadcast \in Seq(Packet) /\ broadcast' = Append(broadcast, p)
        BY <1>0, <1>4 DEF EnqueueBroadcast, BroadcastHasRoom, TypeOK, Packet
    <3> HIDE DEF p
    <3> QED
        BY <3>1, LenProperties, AppendProperties, ElementOfSeq
  <2>2. /\ conn[c] = "sending"
        /\ conn' = [conn EXCEPT ![c] = "reading"]
        /\ UNCHANGED <<read, persisted, packet, mgr>>
      BY <1>4 DEF EnqueueBroadcast, BroadcastHasRoom, loopVars
  <2>3. \A q \in Packet : Unsent(q) => UnsentNext(q) /\ (q.from = c => q.seq < p.seq)
      BY <1>0, <2>2 DEF Unsent, UnsentNext, Packet, TypeOK, ConnState
  <2>4. UnsentNext(p)
      BY <1>0, <1>4, <2>2 DEF Unsent, UnsentNext, PipeInv, InTransit, TypeOK
  <2>5. NoDanmakuLost'
    <3> SUFFICES ASSUME NEW d \in Clients, NEW n \in (persisted[d] + 1)..read[d]
                 PROVE \/ conn'[d] = "sending" /\ n = read[d]
                       \/ \E i \in 1..(k + 1) : broadcast'[i] = [from |-> d, seq |-> n]
                       \/ mgr = "kafka" /\ packet = [from |-> d, seq |-> n]
        BY <2>1, <2>2 DEF NoDanmakuLost
    <3>1. CASE conn[d] = "sending" /\ n = read[d]
      <4>1. CASE d = c
        <5>1. k + 1 \in 1..(k + 1) /\ broadcast'[k + 1] = [from |-> d, seq |-> n]
            BY <2>1, <3>1, <4>1
        <5> QED
            BY <5>1
      <4>2. CASE d # c
          BY <1>0, <2>2, <3>1, <4>2 DEF TypeOK
      <4> QED
          BY <4>1, <4>2
    <3>2. CASE \E i \in 1..k : broadcast[i] = [from |-> d, seq |-> n]
      <4>1. PICK i \in 1..k : broadcast[i] = [from |-> d, seq |-> n]
          BY <3>2
      <4>2. i \in 1..(k + 1) /\ broadcast'[i] = broadcast[i]
          BY <2>1
      <4> QED
          BY <4>1, <4>2
    <3> QED
        BY <3>1, <3>2 DEF PipeInv, NoDanmakuLost
  <2>6. InTransit'
    <3>1. \A d \in Clients : /\ persisted[d] <= read[d]
                             /\ conn'[d] = "sending" => persisted[d] < read[d]
        BY <1>0, <2>2 DEF PipeInv, InTransit, TypeOK
    <3>2. mgr = "kafka" => packet \in Packet /\ Unsent(packet)
        BY <1>0 DEF PipeInv, InTransit, TypeOK
    <3>3. \A i \in 1..(k + 1) :
             /\ UnsentNext(broadcast'[i])
             /\ (mgr = "kafka" /\ packet.from = broadcast'[i].from)
                    => packet.seq < broadcast'[i].seq
      <4> SUFFICES ASSUME NEW i \in 1..(k + 1)
                   PROVE /\ UnsentNext(broadcast'[i])
                         /\ (mgr = "kafka" /\ packet.from = broadcast'[i].from)
                                => packet.seq < broadcast'[i].seq
          OBVIOUS
      <4>1. CASE i = k + 1
          BY <2>1, <2>3, <2>4, <3>2, <4>1
      <4>2. CASE i \in 1..k
          BY <2>1, <2>3, <4>2 DEF PipeInv, InTransit
      <4> QED
          BY <2>1, <4>1, <4>2
    <3>4. \A i, j \in 1..(k + 1) :
             (i < j /\ broadcast'[i].from = broadcast'[j].from)
                 => broadcast'[i].seq < broadcast'[j].seq
      <4> SUFFICES ASSUME NEW i \in 1..(k + 1), NEW j \in 1..(k + 1), i < j,
                          broadcast'[i].from = broadcast'[j].from
                   PROVE  broadcast'[i].seq < broadcast'[j].seq
          OBVIOUS
      <4>0. i \in 1..k
          BY <2>1
      <4>1. CASE j = k + 1
          BY <2>1, <2>3, <4>0, <4>1 DEF PipeInv, InTransit
      <4>2. CASE j \in 1..k
          BY <2>1, <4>0, <4>2 DEF PipeInv, InTransit
      <4> QED
          BY <2>1, <4>1, <4>2
    <3>5. mgr = "kafka" => UnsentNext(packet)
        BY <2>2, <2>3, <3>2
    <3> QED
        BY <2>1, <2>2, <3>1, <3>3, <3>4, <3>5 DEF InTransit, Unsent, UnsentNext
  <2> QED
      BY <1>0, <2>5, <2>6 DEF PipeInv
<1>5. CASE TakePacket
  <2> DEFINE k == Len(broadcast)
  <2>1. /\ k \in Nat \ {0}
        /\ Len(broadcast') = k - 1
        /\ packet' = broadcast[1]
        /\ \A i \in 1..(k - 1) : broadcast'[i] = broadcast[i + 1]
      BY <1>0, <1>5, HeadTailProperties, LenProperties DEF TakePacket, TypeOK
  <2>2. /\ mgr = "select" /\ mgr' = "kafka"
        /\ UNCHANGED <<conn, read, persisted>>
      BY <1>5 DEF TakePacket, connVars
  <2>3. \A i \in 1..k : broadcast[i] \in Packet /\ UnsentNext(broadcast[i])
      BY <1>0, <2>2 DEF PipeInv, InTransit, Unsent, UnsentNext, TypeOK
  <2>4. NoDanmakuLost'
    <3> SUFFICES ASSUME NEW d \in Clients, NEW n \in (persisted[d] + 1)..read[d]
                 PROVE \/ conn[d] = "sending" /\ n = read[d]
                       \/ \E i \in 1..(k - 1) : broadcast'[i] = [from |-> d, seq |-> n]
                       \/ packet' = [from |-> d, seq |-> n]
        BY <2>1, <2>2 DEF NoDanmakuLost
    <3>1. CASE conn[d] = "sending" /\ n = read[d]
        BY <3>1
    <3>2. CASE \E i \in 1..k : broadcast[i] = [from |-> d, seq |-> n]
      <4>1. PICK i \in 1..k : broadcast[i] = [from |-> d, seq |-> n]
          BY <3>2
      <4>2. CASE i = 1
          BY <2>1, <4>1, <4>2
      <4>3. CASE i # 1
        <5>1. i - 1 \in 1..(k - 1) /\ broadcast'[i - 1] = broadcast[i]
            BY <2>1, <4>3
        <5> QED
            BY <4>1, <5>1
      <4> QED
          BY <4>2, <4>3
    <3> QED
        BY <2>2, <3>1, <3>2 DEF PipeInv, NoDanmakuLost
  <2>5. InTransit'
    <3>1. \A i \in 1..(k - 1) : i + 1 \in 1..k /\ 1 < i + 1
        BY <2>1
    <3>2. \A i, j \in 1..k :
             (i < j /\ broadcast[i].from = broadcast[j].from)
                 => broadcast[i].seq < broadcast[j].seq
        BY DEF PipeInv, InTransit
    <3>3. 1 \in 1..k
        BY <2>1
    <3>4. \A i \in 1..(k - 1) :
             /\ UnsentNext(broadcast'[i])
             /\ packet'.from = broadcast'[i].from => packet'.seq < broadcast'[i].seq
        BY <2>1, <2>3, <3>1, <3>2, <3>3
    <3>5. \A i, j \in 1..(k - 1) :
             (i < j /\ broadcast'[i].from = broadcast'[j].from)
                 => broadcast'[i].seq < broadcast'[j].seq
      <4> SUFFICES ASSUME NEW i \in 1..(k - 1), NEW j \in 1..(k - 1), i < j,
                          broadcast'[i].from = broadcast'[j].from
                   PROVE  broadcast'[i].seq < broadcast'[j].seq
          OBVIOUS
      <4>1. /\ broadcast'[i] = broadcast[i + 1] /\ broadcast'[j] = broadcast[j + 1]
            /\ i + 1 \in 1..k /\ j + 1 \in 1..k /\ i + 1 < j + 1
          BY <2>1
      <4> QED
          BY <3>2, <4>1
    <3>6. UnsentNext(packet')
        BY <2>1, <2>3, <3>3
    <3>7. \A d \in Clients : /\ persisted[d] <= read[d]
                             /\ conn[d] = "sending" => persisted[d] < read[d]
        BY DEF PipeInv, InTransit
    <3> QED
        BY <2>1, <2>2, <3>4, <3>5, <3>6, <3>7 DEF InTransit, Unsent, UnsentNext
  <2> QED
      BY <1>0, <2>4, <2>5 DEF PipeInv
<1>6. CASE PushToInput
  <2>1. /\ persisted' = [persisted EXCEPT ![packet.from] = packet.seq]
        /\ packet \in Packet /\ Unsent(packet)
        /\ mgr = "kafka" /\ mgr' = "redis"
        /\ UNCHANGED <<conn, read, packet, broadcast>>
      BY <1>0, <1>6 DEF PushToInput, PipeInv, InTransit, TypeOK, connVars
  <2>2. packet.from \in Clients /\ packet.seq \in Nat
        /\ packet = [from |-> packet.from, seq |-> packet.seq]
      BY <2>1 DEF Packet
  <2>3. NoDanmakuLost'
      BY <1>0, <2>1, <2>2 DEF PipeInv, NoDanmakuLost, TypeOK, Unsent
  <2>4. InTransit'
    <3>1. \A i \in 1..Len(broadcast) : UnsentNext(broadcast[i])
      <4> SUFFICES ASSUME NEW i \in 1..Len(broadcast) PROVE UnsentNext(broadcast[i])
          OBVIOUS
      <4>1. broadcast[i] \in Packet /\ Unsent(broadcast[i])
            /\ (packet.from = broadcast[i].from => packet.seq < broadcast[i].seq)
          BY <1>0, <2>1 DEF PipeInv, InTransit, TypeOK
      <4> QED
          BY <1>0, <2>1, <2>2, <4>1 DEF Unsent, UnsentNext, Packet, TypeOK
    <3>2. \A d \in Clients : /\ persisted'[d] <= read[d]
                             /\ conn[d] = "sending" => persisted'[d] < read[d]
        BY <1>0, <2>1, <2>2 DEF PipeInv, InTransit, Unsent, TypeOK
    <3> QED
        BY <2>1, <3>1, <3>2 DEF PipeInv, InTransit, Unsent, UnsentNext
  <2> QED
      BY <1>0, <2>3, <2>4 DEF PipeInv
<1>7. CASE PublishToRoom
    BY <1>0, <1>7 DEF PipeInv, PublishToRoom, NoDanmakuLost, InTransit, Unsent,
       connVars, roomVars, loopVars, pipeVars
<1> QED
    BY <1>1, <1>2, <1>3, <1>4, <1>5, <1>6, <1>7
    DEF Next, ClientStep, SubStep, LoopStep, WriteDone

(* PipeInv holds throughout. *)
LEMMA PipeInvariant == Spec => []PipeInv
<1>1. Init => PipeInv
    BY DEF Init, PipeInv, TypeOK, ConnState, Packet, NoDanmakuLost, InTransit
<1> QED
    BY <1>1, PipeStep, PTL DEF Spec

(* The pipeline from ReadPump to Kafka never drops a danmaku, for any       *)
(* number of connections and any channel capacities.                        *)
THEOREM NothingLost == Spec => []NoDanmakuLost
<1>1. PipeInv => NoDanmakuLost
    BY DEF PipeInv
<1> QED
    BY <1>1, PipeInvariant, PTL

(* Kafka is given a connection's danmaku once each and in order: the number *)
(* in the loop's hand is the next one, since a smaller one would have to be *)
(* in the channel behind it or with its sender.                             *)
THEOREM InOrder == Spec => PersistedInOrder
<1>1. PipeInv /\ [Next]_vars
         => [\A c \in Clients : persisted'[c] \in {persisted[c], persisted[c] + 1}]_vars
  <2> SUFFICES ASSUME PipeInv, [Next]_vars, NEW c \in Clients
               PROVE  persisted'[c] \in {persisted[c], persisted[c] + 1}
      OBVIOUS
  <2>1. CASE PushToInput
    <3>1. /\ persisted' = [persisted EXCEPT ![packet.from] = packet.seq]
          /\ packet \in Packet /\ Unsent(packet) /\ mgr = "kafka"
        BY <2>1 DEF PushToInput, PipeInv, InTransit, TypeOK
    <3>2. CASE c = packet.from
      <4> DEFINE n == persisted[c] + 1
      <4>1. /\ persisted[c] \in Nat /\ read[c] \in Nat /\ packet.seq \in Nat
            /\ n <= packet.seq
            /\ n \in n..read[c]
            /\ conn[c] = "sending" => n < read[c]
          BY <3>1, <3>2 DEF Unsent, PipeInv, TypeOK, Packet
      <4>2. \A i \in 1..Len(broadcast) : broadcast[i] # [from |-> c, seq |-> n]
        <5> SUFFICES ASSUME NEW i \in 1..Len(broadcast),
                            broadcast[i] = [from |-> c, seq |-> n]
                     PROVE  FALSE
            OBVIOUS
        <5>1. broadcast[i].from = c /\ broadcast[i].seq = n
            OBVIOUS
        <5>2. packet.seq < broadcast[i].seq
            BY <3>1, <3>2, <5>1 DEF PipeInv, InTransit
        <5> HIDE DEF n
        <5> QED
            BY <4>1, <5>1, <5>2
      <4>3. packet = [from |-> c, seq |-> n]
          BY <4>1, <4>2 DEF PipeInv, NoDanmakuLost
      <4>4. packet.seq = n
          BY <4>3
      <4> QED
          BY <3>1, <3>2, <4>4 DEF PipeInv, TypeOK
    <3>3. CASE c # packet.from
        BY <3>1, <3>3 DEF PipeInv, TypeOK
    <3> QED
        BY <3>2, <3>3
  <2>2. CASE ~PushToInput
      BY <2>2 DEF Next, ClientStep, SubStep, LoopStep, Connect, RegisterClient,
         ReadDanmaku, EnqueueBroadcast, BroadcastHasRoom, ReadFail,
         UnregisterClient, CloseSocket,
         WriteFail, WriteDone, HandleRegister, NewRoom, HandleUnregister,
         Canceled, Closed, TakePacket,
         PublishToRoom, ProducerShip, SubStart, SubExit, vars, pipeVars
  <2> QED
      BY <2>1, <2>2
<1> QED
    BY <1>1, PipeInvariant, PTL DEF Spec, PersistedInOrder

----------------------------------------------------------------------------
(* The refinement.  The two expressions Manager substitutes for the         *)
(* variables of Presence, and the room table they amount to.                *)
Stay(c) == IF c \in Rooms[RoomOf[c]] THEN "inside"
           ELSE IF c \in done THEN "left" ELSE "outside"
Presences == [c \in Clients |-> Stay(c)]
Heard == {r \in RoomIDs : Listening(r) # {}}

(* The rooms with a subscription nobody has cancelled are the keys of m.Rooms. *)
LEMMA HeardRooms == RoomInv => Heard = roomKeys
<1> SUFFICES ASSUME RoomInv PROVE Heard = roomKeys
    OBVIOUS
<1>1. roomKeys \subseteq RoomIDs
    BY DEF RoomInv, TypeOK
<1>2. \A r \in RoomIDs : Listening(r) = IF r \in roomKeys THEN {cancelSub[r]} ELSE {}
    BY DEF RoomInv, OneSubscriptionPerRoom
<1>3. \A r \in RoomIDs : Listening(r) # {} <=> r \in roomKeys
    BY <1>2
<1> QED
    BY <1>1, <1>3 DEF Heard

(* handleRegister is Enter, handleUnregister is Leave, all else stutters. *)
LEMMA PresenceStep ==
    RoomInv /\ RoomInv' /\ [Next]_vars => [P!Next]_<<Presences, Heard>>
<1> SUFFICES ASSUME RoomInv, RoomInv', [Next]_vars
             PROVE  [P!Next]_<<Presences, Heard>>
    OBVIOUS
<1>0. Heard = roomKeys /\ Heard' = roomKeys'
  <2>1. Heard = roomKeys
      BY HeardRooms
  <2>2. (RoomInv => Heard = roomKeys)'
      BY HeardRooms, PTL
  <2> QED
      BY <2>1, <2>2
<1>1. CASE HandleRegister
  <2> DEFINE r == RoomOf[client]
  <2>1. /\ client \in Clients /\ r \in RoomIDs
        /\ client \notin Rooms[r] /\ client \notin done
        /\ r \notin roomKeys => Rooms[r] = {}
      BY <1>1 DEF HandleRegister, NewRoom, RoomInv, TypeOK,
         MembershipMatchesConnection,
         OneSubscriptionPerRoom, LoopClient
  <2>2. /\ Rooms' = [Rooms EXCEPT ![r] = @ \cup {client}]
        /\ roomKeys' = roomKeys \cup {r}
        /\ done' = done
      BY <1>1, <2>1 DEF HandleRegister, NewRoom, connVars, RoomInv, TypeOK
  <2>3. Presences[client] = "outside"
      BY <2>1 DEF Presences, Stay
  <2>4. Presences' = [Presences EXCEPT ![client] = "inside"]
      BY <2>1, <2>2 DEF Presences, Stay, RoomInv, TypeOK
  <2>5. PICK d \in Clients : d = client
      BY <2>1
  <2>6. P!Enter(d)
      BY <1>0, <2>2, <2>3, <2>4, <2>5 DEF P!Enter, Presences, Stay, Heard
  <2> QED
    <3>1. \E c \in Clients : P!Enter(c) \/ P!Leave(c)
        BY <2>6
    <3> QED
        BY <3>1 DEF P!Next
<1>2. CASE HandleUnregister
  <2> DEFINE r == RoomOf[client]
  <2>1. /\ client \in Clients /\ r \in RoomIDs
        /\ client \in Rooms[r] /\ r \in roomKeys
      BY <1>2 DEF HandleUnregister, Canceled, Closed, RoomInv, TypeOK,
         MembershipMatchesConnection,
         OneSubscriptionPerRoom
  <2>2. /\ Rooms' = [Rooms EXCEPT ![r] = @ \ {client}]
        /\ roomKeys' = IF Rooms[r] = {client} THEN roomKeys \ {r} ELSE roomKeys
        /\ done' = done \cup {client}
      BY <1>2, <2>1 DEF HandleUnregister, Canceled, Closed
  <2>3. Presences[client] = "inside"
      BY <2>1 DEF Presences, Stay
  <2>4. Presences' = [Presences EXCEPT ![client] = "left"]
      BY <2>1, <2>2 DEF Presences, Stay, RoomInv, TypeOK
  <2>5. P!Members(r) = Rooms[r]
      BY <2>1 DEF P!Members, RoomInv, TypeOK, MembershipMatchesConnection
  <2>6. PICK d \in Clients : d = client
      BY <2>1
  <2>7. P!Leave(d)
      BY <1>0, <2>2, <2>3, <2>4, <2>5, <2>6 DEF P!Leave, Presences, Stay, Heard
  <2> QED
    <3>1. \E c \in Clients : P!Enter(c) \/ P!Leave(c)
        BY <2>7
    <3> QED
        BY <3>1 DEF P!Next
<1>3. CASE ~HandleRegister /\ ~HandleUnregister
  <2>1. UNCHANGED <<Rooms, roomKeys, done>>
      BY <1>3 DEF Next, ClientStep, SubStep, LoopStep, Connect, RegisterClient,
         ReadDanmaku, EnqueueBroadcast, BroadcastHasRoom, ReadFail,
         UnregisterClient, CloseSocket,
         WriteFail, WriteDone, TakePacket, PushToInput, PublishToRoom,
         ProducerShip, SubStart, SubExit, vars, connVars, roomVars
  <2>2. Presences' = Presences
      BY <2>1 DEF Presences, Stay
  <2> QED
      BY <1>0, <2>1, <2>2
<1> QED
    BY <1>1, <1>2, <1>3

(* The select loop, with its channels, goroutines and cancel functions,     *)
(* implements Presence: a connection enters and leaves its room at most     *)
(* once, and the server listens to exactly the rooms with a member.         *)
THEOREM Refinement == Spec => ImplementsPresence
<1>1. Init => P!Init
    BY DEF Init, P!Init, Listening
<1>2. RoomInv /\ RoomInv' /\ [Next]_vars => [P!Next]_(P!vars)
    BY PresenceStep DEF P!vars, Presences, Stay, Heard
<1> QED
    BY <1>1, <1>2, RoomInvariant, PTL DEF Spec, P!Spec, ImplementsPresence
=============================================================================
