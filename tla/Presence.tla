------------------------------ MODULE Presence ------------------------------
(***************************************************************************)
(* What the connection manager of internal/ws promises, with no goroutine, *)
(* channel or lock in sight: a connection enters its room at most once,    *)
(* leaves it at most once, and the server listens to the Redis channel of  *)
(* exactly the rooms that have a member.  Manager.tla implements it.       *)
(***************************************************************************)

CONSTANTS Clients,   \* the connections (*Client values)
          RoomIDs,   \* the rooms
          RoomOf     \* RoomOf[c] is the room named in the URL c connects with

VARIABLES presence,  \* presence[c]: before, in, or after c's stay in its room
          listening  \* the rooms this server holds a live subscription for

vars == <<presence, listening>>

Members(r) == {c \in Clients : RoomOf[c] = r /\ presence[c] = "inside"}

Init == /\ presence = [c \in Clients |-> "outside"]
        /\ listening = {}

(* The first member of a room makes the server listen to it. *)
Enter(c) == /\ presence[c] = "outside"
            /\ presence' = [presence EXCEPT ![c] = "inside"]
            /\ listening' = listening \cup {RoomOf[c]}

(* The last member to leave a room makes the server stop listening. *)
Leave(c) == /\ presence[c] = "inside"
            /\ presence' = [presence EXCEPT ![c] = "left"]
            /\ listening' = IF Members(RoomOf[c]) = {c}
                            THEN listening \ {RoomOf[c]}
                            ELSE listening

Next == \E c \in Clients : Enter(c) \/ Leave(c)

Spec == Init /\ [][Next]_vars
=============================================================================
