----------------------------- MODULE MCDelivery -----------------------------
(***************************************************************************)
(* Instances of Delivery for TLC.  Two stations, x with two readings of    *)
(* different length and y with one, are the least that shows rotation,     *)
(* alternation of oldest and newest, and one station in the way of another.*)
(***************************************************************************)
EXTENDS Delivery

CONSTANTS x, y, x1, x2, y1

MCStations == {x, y}
MCEvents == {x1, x2, y1}
MCStationOf == (x1 :> x) @@ (x2 :> x) @@ (y1 :> y)
MCIndex == (x :> 0) @@ (y :> 1)

\* The two readings of x alone.
EventsOfX == {x1, x2}
StationOfX == (x1 :> x) @@ (x2 :> x)
SizeOfX == (x1 :> 1) @@ (x2 :> 2)
RecordTimeX == (x1 :> 0) @@ (x2 :> 7)
OnlyX == {x}
IndexX == x :> 0
RoomyX == x :> 2
RoomyBytesX == x :> 3

MCSizeOf == (x1 :> 1) @@ (x2 :> 2) @@ (y1 :> 1)
MCRecordTime == (x1 :> 0) @@ (x2 :> 7) @@ (y1 :> 0)

Tight == (x :> 1) @@ (y :> 1)
RoomyBytes == (x :> 3) @@ (y :> 3)

Lim(p, b) == [a \in Attributes |-> IF a = "packets" THEN p ELSE b]
MCConfigured == Lim(2, 3)
WideServer == Lim(4, 4)
NarrowServer == Lim(1, 2)

\* Nothing usable, not positive and above the configuration; what a usable
\* limit changes is the subject of UploadPacing.
NoAdvert == {Lim(0, 4)}
=============================================================================
