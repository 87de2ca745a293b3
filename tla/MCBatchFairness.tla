--------------------------- MODULE MCBatchFairness ---------------------------
(***************************************************************************)
(* Instances of BatchFairness.                                             *)
(***************************************************************************)
EXTENDS BatchFairness, TLC

CONSTANTS x, y, z

\* Three stations, requests of one reading, backlogs of three, one and none.
ThreeIndex == (x :> 0) @@ (y :> 1) @@ (z :> 2)
EqualSize == [s \in Stations |-> 1]
SomeBacklog == (x :> <<1, 1, 1>>) @@ (y :> <<1>>) @@ (z :> <<>>)
OnePacket == [packets |-> 1, bytes |-> 3]

\* Two stations, and one long reading (an archive record, say) at the head of
\* the queue of y that fits into a request, but only alone.
TwoIndex == (x :> 0) @@ (y :> 1)
LongRecord == (x :> <<>>) @@ (y :> <<3>>)
TwoPackets == [packets |-> 2, bytes |-> 3]
=============================================================================
