--------------------------- MODULE MCCoordinator ---------------------------
(***************************************************************************)
(* Instances of Coordinator for TLC: two engines, `up` which feeds `down`, *)
(* and up to two live streams, upStream bound to `up` and downStream bound *)
(* to `down`.  What upStream influences reaches `down` along the route.    *)
(***************************************************************************)
EXTENDS CoordinatorInv

CONSTANTS up, down, upStream, downStream, c1

\* Work flows from up to down only, or both ways.
Chain == {<<up, down>>}
Loop == {<<up, down>>, <<down, up>>}

\* Each stream is bound to the engine it is named after.
ChainBound == [s \in Streams |-> IF s = upStream THEN {up} ELSE {down}]
ChainDeps == [p \in Partitions |-> IF p = up THEN Streams \ {downStream} ELSE Streams]

\* No stream, or one stream that influences both engines.
SharedBound == [s \in Streams |-> Partitions]
SharedDeps == [p \in Partitions |-> Streams]

ZeroMark == [s \in Streams |-> 0]
NoGrid == [p \in Partitions |-> 1]
NoLag == [p \in Partitions |-> 0]

\* `down` latches to even times; messages to `up` lag by one.
DownGrid == [p \in Partitions |-> IF p = down THEN 2 ELSE 1]
UpLag == [p \in Partitions |-> IF p = up THEN 1 ELSE 0]

ToDown == [c \in Commands |-> down]
ToUp == [c \in Commands |-> up]
=============================================================================
