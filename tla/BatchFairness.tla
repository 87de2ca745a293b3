---------------------------- MODULE BatchFairness ----------------------------
(***************************************************************************)
(* The uploader against a backlog and a live feed: ticks of the uploader   *)
(* (the choice of rows is that of Batching), with every request confirmed  *)
(* at once, while the workers append whenever there is room.  This is what *)
(* remains of Delivery when nothing fails, for queues without end.         *)
(***************************************************************************)
EXTENDS Batching

CONSTANTS
    Stations,   \* the spools, in any number
    Index,      \* place of a station in the list of spools, from 0
    Limit,      \* [packets, bytes]: the limits of a request
    Capacity,   \* rows a spool can hold
    LiveSize,   \* length of a live reading of a station
    Backlog     \* [Stations -> sequence of lengths]: queued before the uploader starts

ASSUME FairnessAssumption ==
    /\ IsFiniteSet(Stations) /\ Stations # {}
    /\ Index \in [Stations -> 0..Cardinality(Stations) - 1]
    /\ \A s, t \in Stations : Index[s] = Index[t] => s = t
    /\ Limit.packets \in Nat \ {0} /\ Limit.bytes \in Nat \ {0}
    /\ Capacity \in Nat
    /\ LiveSize \in [Stations -> Nat \ {0}]
    /\ Backlog \in [Stations -> Seq(Nat \ {0})]

VARIABLES
    queue,        \* the queued rows of a station by seq, oldest first
    newestFirst,  \* meta prefer_newest
    front,        \* self.cursor
    waited,       \* history: ticks in a row that passed over a station with rows
    missed        \* history: batches in a row that carried a station without its newest row

rotationVars == <<queue, newestFirst, front, waited, missed>>

Row == [old : BOOLEAN, size : Nat \ {0}]

RotationTypeOK ==
    /\ queue \in [Stations -> Seq(Row)]
    /\ newestFirst \in [Stations -> BOOLEAN]
    /\ front \in 0..Cardinality(Stations) - 1
    /\ waited \in [Stations -> Nat]
    /\ missed \in [Stations -> Nat]

RotationInit ==
    /\ queue = [s \in Stations |->
                  [i \in DOMAIN Backlog[s] |-> [old |-> TRUE, size |-> Backlog[s][i]]]]
    /\ newestFirst = [s \in Stations |-> FALSE]
    /\ front = 0
    /\ waited = [s \in Stations |-> 0]
    /\ missed = [s \in Stations |-> 0]

\* append, by the worker of the station.
Arrive(s) ==
    /\ Len(queue[s]) < Capacity
    /\ queue' = [queue EXCEPT ![s] = Append(@, [old |-> FALSE, size |-> LiveSize[s]])]
    /\ UNCHANGED <<newestFirst, front, waited, missed>>

RowsOf(s) == {<<s, i>> : i \in DOMAIN queue[s]}
Rows == UNION {RowsOf(s) : s \in Stations}

\* Mutant: the spools are always asked in the same order.
NextFront_Fixed(n) == front
NextFront(n) == (front + 1) % n

\* prefer_newest of a station that got a place is reversed.
Flipped(s, chosen) == newestFirst[s] # (chosen \cap RowsOf(s) # {})

Picked ==
    Pick([s \in Stations |-> RowsOf(s)], [r \in Rows |-> r[2]], newestFirst,
         [r \in Rows |-> queue[r[1]][r[2]].size], Index, front, Limit)

\* The queue without some rows: the j-th of it is the j-th of those kept.
Without(s, gone) ==
    LET kept == {i \in DOMAIN queue[s] : <<s, i>> \notin gone}
        Nth(j) == CHOOSE i \in kept : Cardinality({k \in kept : k <= i}) = j
    IN  [j \in 1..Cardinality(kept) |-> queue[s][Nth(j)]]

\* One tick: choose, send, and acknowledge what was sent.
SendTick ==
    LET picked == Picked
        chosen == picked.chosen
    IN  /\ queue' = [s \in Stations |-> Without(s, chosen \cup picked.tooLarge)]
        /\ newestFirst' = [s \in Stations |-> Flipped(s, chosen)]
        /\ front' = NextFront(Cardinality(Stations))
        /\ waited' = [s \in Stations |->
             IF queue[s] = <<>> \/ chosen \cap RowsOf(s) # {} THEN 0 ELSE waited[s] + 1]
        /\ missed' = [s \in Stations |->
             IF queue[s] = <<>> \/ <<s, Len(queue[s])>> \in chosen THEN 0
             ELSE IF chosen \cap RowsOf(s) # {} THEN missed[s] + 1 ELSE missed[s]]

RotationNext == SendTick \/ \E s \in Stations : Arrive(s)

RotationSpec == RotationInit /\ [][RotationNext]_rotationVars

\* Every tick, and nothing else, moves the turn on (with two spools or more).
TurnTaken == front' = (front + 1) % Cardinality(Stations)

\* The uploader's loop goes on; nobody has to produce readings.
RotationFairSpec == RotationSpec /\ WF_front(TurnTaken)
-----------------------------------------------------------------------------
\* "The uploader alternates oldest/newest readings and rotates stations,
\* including one-event batches" (operations.md): a station with rows waits for
\* at most one round, and its newest row misses at most one of its batches.
BoundedWait ==
    \A s \in Stations :
        /\ waited[s] < Cardinality(Stations)
        /\ missed[s] <= 1

\* "neither a long backlog nor a busy live feed can starve" (spool.py,
\* candidates): the readings that were queued first are all sent, however
\* readings keep arriving.
BacklogIsSent == <>(\A s \in Stations : \A i \in DOMAIN queue[s] : ~queue[s][i].old)
=============================================================================
