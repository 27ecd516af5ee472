--------------------------- MODULE MCDanmakuHandler ---------------------------
(* Instances of DanmakuHandler for TLC. *)
EXTENDS DanmakuHandler

CONSTANTS p1, p2

MCPartitions == {p1, p2}
MCOnePartition == {p1}

(* p1 holds a danmaku, a message parseMessage skips and another danmaku; p2 *)
(* a message parseMessage rejects and one danmaku, or two: with two there   *)
(* are more danmaku than msgChan and a batch hold.                          *)
MCLogLen == [p \in Partitions |-> IF p = p1 THEN 3 ELSE 2]
MCLongLog == [p \in Partitions |-> 3]
MCKind == [m \in Msgs |-> CASE m = <<p1, 2>> -> "other"
                            [] m = <<p2, 1>> -> "bad"
                            [] OTHER -> "danmaku"]

(* Danmaku only. *)
MCDanmaku == [m \in Msgs |-> "danmaku"]
=============================================================================
