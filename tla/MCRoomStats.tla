----------------------------- MODULE MCRoomStats -----------------------------
(* An instance of RoomStats for TLC: c1 in r1 sends two likes, one with no   *)
(* count and one with the largest a uint64 holds, whose sum wraps to 0; c2   *)
(* in r2 sends none.                                                         *)
EXTENDS RoomStats

CONSTANTS c1, c2, r1, r2, l1, l2, g1, g2

MCRoomOf == [c \in Clients |-> IF c = c1 THEN r1 ELSE r2]
MCLikeBy == [l \in Likes |-> c1]
MCCount == [l \in Likes |-> IF l = l1 THEN 0 ELSE 2 * Word - 1]
=============================================================================
