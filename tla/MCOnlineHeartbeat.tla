-------------------------- MODULE MCOnlineHeartbeat --------------------------
(* An instance of OnlineHeartbeat for TLC: two servers. *)
EXTENDS OnlineHeartbeat

CONSTANTS s1, s2
=============================================================================
