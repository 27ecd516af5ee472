------------------------------- MODULE MCFanout -------------------------------
(* Instances of Fanout for TLC: c1 and c2 in r1, c3 in r2; m1 is sent on r1, *)
(* m2 are the statistics of r2.                                             *)
EXTENDS Fanout

CONSTANTS c1, c2, c3, r1, r2, m1, m2, w1, s1, s2, s3, g1

MCClients == {c1, c2, c3}
MCRoommates == {c1, c2}
MCRoomIDs == {r1, r2}
MCOneRoom == {r1}
MCRoomOf == [c \in Clients |-> IF c = c3 THEN r2 ELSE r1]
MCMessages == {m1, m2}
MCOneMessage == {m1}
MCStats == Messages \ {m1}
MCMsgRoom == [m \in Messages |-> IF m = m2 THEN r2 ELSE r1]
=============================================================================
