----------------------------- MODULE LikeLedger -----------------------------
(***************************************************************************)
(* What the like path of internal/ws and internal/infra promises: a like   *)
(* is held by the server that took it until it is added, together with     *)
(* others of its room, to the room's counter, or until it is lost; it is   *)
(* added once, or again when the Redis client repeats a command whose      *)
(* answer it missed, as often as it does.  RoomStats.tla implements it.    *)
(***************************************************************************)
EXTENDS Integers, FiniteSetsExt

CONSTANTS RoomIDs,
          Likes,       \* the like frames
          RoomOfLike,  \* RoomOfLike[l]: the room of the client that sent l
          Worth(_)     \* what a set of likes adds to a counter

VARIABLES fate,        \* fate[l]: what has become of like l
          total        \* total[r]: the counter of room r

vars == <<fate, total>>

Init == /\ fate = [l \in Likes |-> "unpressed"]
        /\ total = [r \in RoomIDs |-> 0]

Press(l) == /\ fate[l] = "unpressed"
            /\ fate' = [fate EXCEPT ![l] = "held"]
            /\ UNCHANGED total

(* All likes of the batch S go from one fate to another. *)
Move(S, from, to) ==
    /\ \A l \in S : fate[l] = from
    /\ fate' = [l \in Likes |-> IF l \in S THEN to ELSE fate[l]]

(* The likes of a batch are added to their room's counter together. *)
Add(r, S) == /\ \A l \in S : RoomOfLike[l] = r
             /\ total' = [total EXCEPT ![r] = @ + Worth(S)]
             /\ \/ Move(S, "held", "counted")
                \/ \E from \in {"counted", "recounted"} : Move(S, from, "recounted")

Lose(S) == /\ Move(S, "held", "lost")
           /\ UNCHANGED total

Next == \/ \E l \in Likes : Press(l)
        \/ \E S \in (SUBSET Likes) \ {{}} : Lose(S) \/ \E r \in RoomIDs : Add(r, S)

Spec == Init /\ [][Next]_vars
=============================================================================
