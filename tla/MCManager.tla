------------------------------ MODULE MCManager ------------------------------
(* Instances of Manager for TLC: c1 and c2 share room r1, c3 is in r2. *)
EXTENDS Manager

CONSTANTS c1, c2, c3, r1, r2

MCClients == {c1, c2, c3}
MCRoommates == {c1, c2}
MCRoomIDs == {r1, r2}
MCOneRoom == {r1}
MCRoomOf == [c \in Clients |-> IF c = c3 THEN r2 ELSE r1]

(* Two danmaku of one connection (their order), one of another in the same  *)
(* room, none of the third, whose joining and leaving interleaves with them. *)
MCMaxDanmaku == [c \in Clients |-> CASE c = c1 -> 2 [] c = c2 -> 1 [] OTHER -> 0]
=============================================================================
