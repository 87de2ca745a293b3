------------------------------- MODULE Spool -------------------------------
(***************************************************************************)
(* The durable journals of the collector: one SQLite file per station      *)
(* (spool.py).  Every operator below is one transaction, or one autocommit *)
(* statement, of the class Spool, so it is one atomic step; the worker of  *)
(* the station, the uploader, and the operator's `retry' command use       *)
(* separate connections and interleave between those steps.                *)
(*                                                                         *)
(* The events tables of all stations are kept in one function, `row': an   *)
(* event belongs to one station for ever (StationOf), and an event that is *)
(* in no table has state "none".  Clock values become two bits: a row is   *)
(* `due' when next_attempt has passed, and a station is `heldBack' while   *)
(* station_upload_after lies in the future; time passes in the Elapse      *)
(* actions, at any moment.                                                 *)
(***************************************************************************)
EXTENDS Integers, FiniteSets, FiniteSetsExt

CONSTANTS
    Stations,     \* the stations, each with its own spool file
    Events,       \* the event ids that workers can mint
    StationOf,    \* the station whose worker mints an event
    SizeOf,       \* the encoded length of an event
    RecordTime,   \* dateTime of an archive record, 0 for a LOOP packet
    MaxEvents,    \* max_events of each station
    MaxBytes      \* spool_max_bytes of each station

ASSUME StationsAssumption == IsFiniteSet(Stations) /\ Stations # {}
ASSUME EventsAssumption ==
    /\ IsFiniteSet(Events)
    /\ StationOf \in [Events -> Stations]
    /\ SizeOf \in [Events -> Nat \ {0}]
    /\ RecordTime \in [Events -> Nat]
ASSUME QuotaAssumption ==
    /\ MaxEvents \in [Stations -> Nat]
    /\ MaxBytes \in [Stations -> Nat]

VARIABLES
    row,          \* events table: state, insertion sequence, due
    usage,        \* the counters the two triggers keep
    nextSeq,      \* AUTOINCREMENT counter of the events table
    cursor,       \* meta hardware_cursor
    heldBack,     \* meta station_upload_after, in the future or not
    newestFirst,  \* meta prefer_newest
    committed     \* history: every event a transaction ever inserted

spoolVars ==
    <<row, usage, nextSeq, cursor, heldBack, newestFirst, committed>>

Row == [state : {"none", "queued", "quarantined"}, seq : Nat, due : BOOLEAN]
NoRow == [state |-> "none", seq |-> 0, due |-> FALSE]

\* The events that are in some spool file, and those in the file of s.
Held == {e \in Events : row[e].state # "none"}
HeldBy(s) == {e \in Held : StationOf[e] = s}

\* The bytes of some events, one by one: there are as many as their sizes add up to.
BytesOf(events) == UNION {{e} \X (1..SizeOf[e]) : e \in events}

SpoolTypeOK ==
    /\ row \in [Events -> Row]
    /\ usage \in [Stations -> [events : Int, bytes : Int]]
    /\ nextSeq \in [Stations -> Nat]
    /\ cursor \in [Stations -> Nat]
    /\ heldBack \in [Stations -> BOOLEAN]
    /\ newestFirst \in [Stations -> BOOLEAN]
    /\ committed \in SUBSET Events

SpoolInit ==
    /\ row = [e \in Events |-> NoRow]
    /\ usage = [s \in Stations |-> [events |-> 0, bytes |-> 0]]
    /\ nextSeq = [s \in Stations |-> 1]
    /\ cursor = [s \in Stations |-> 0]
    /\ heldBack = [s \in Stations |-> FALSE]
    /\ newestFirst = [s \in Stations |-> FALSE]
    /\ committed = {}
-----------------------------------------------------------------------------
\* Mutant: the quota is compared as it was before this reading.
CanFit_Before(s, size) ==
    /\ usage[s].events <= MaxEvents[s]
    /\ usage[s].bytes <= MaxBytes[s]

\* can_fit, without the free space of the disk: a disk that is short of space
\* refuses an append that the quotas allow, which leaves the state as it was.
CanFit(s, size) ==
    /\ usage[s].events < MaxEvents[s]
    /\ usage[s].bytes + size <= MaxBytes[s]

\* The triggers count_insert and count_delete.
CountInsert(s, e) ==
    [usage EXCEPT ![s].events = @ + 1, ![s].bytes = @ + SizeOf[e]]
CountDelete(s, e) ==
    [usage EXCEPT ![s].events = @ - 1, ![s].bytes = @ - SizeOf[e]]

\* The hardware cursor that append leaves: only an archive record moves it.
AdvanceCursor(e) ==
    [cursor EXCEPT ![StationOf[e]] = IF RecordTime[e] > @ THEN RecordTime[e] ELSE @]

\* append: quota check, insertion and cursor are one transaction.  An event id
\* that is still in the table violates UNIQUE and the transaction rolls back.
AppendEvent(e) ==
    LET s == StationOf[e] IN
    /\ CanFit(s, SizeOf[e])
    /\ e \notin Held
    /\ row' = [row EXCEPT ![e] = [state |-> "queued", seq |-> nextSeq[s], due |-> TRUE]]
    /\ usage' = CountInsert(s, e)
    /\ nextSeq' = [nextSeq EXCEPT ![s] = @ + 1]
    /\ cursor' = AdvanceCursor(e)
    /\ committed' = committed \cup {e}
    /\ UNCHANGED <<heldBack, newestFirst>>

\* Mutants: the row is counted down although the DELETE found none; the
\* trigger for DELETE is missing.
Acknowledge_CountsTwice(e) ==
    /\ row' = [row EXCEPT ![e] = NoRow]
    /\ usage' = CountDelete(StationOf[e], e)
    /\ UNCHANGED <<nextSeq, cursor, heldBack, newestFirst, committed>>

Acknowledge_NoTrigger(e) ==
    /\ row' = [row EXCEPT ![e] = NoRow]
    /\ UNCHANGED <<usage, nextSeq, cursor, heldBack, newestFirst, committed>>

\* acknowledge: a DELETE of a row that is gone deletes, and counts, nothing.
Acknowledge(e) ==
    /\ row' = [row EXCEPT ![e] = NoRow]
    /\ usage' = IF e \in Held THEN CountDelete(StationOf[e], e) ELSE usage
    /\ UNCHANGED <<nextSeq, cursor, heldBack, newestFirst, committed>>

\* The row that defer's UPDATE leaves; it touches no row that is gone.
Deferred(e, due, quarantine) ==
    IF e \in Held
    THEN [row[e] EXCEPT !.state = IF quarantine THEN "quarantined" ELSE "queued",
                        !.due = due]
    ELSE row[e]

Defer(e, due, quarantine) ==
    /\ row' = [row EXCEPT ![e] = Deferred(e, due, quarantine)]
    /\ UNCHANGED <<usage, nextSeq, cursor, heldBack, newestFirst, committed>>

\* retry_quarantined, from the `retry' command of another process.
RetryQuarantined(s) ==
    /\ row' = [e \in Events |->
                 IF StationOf[e] = s /\ row[e].state = "quarantined"
                 THEN [row[e] EXCEPT !.state = "queued", !.due = TRUE]
                 ELSE row[e]]
    /\ heldBack' = [heldBack EXCEPT ![s] = FALSE]
    /\ UNCHANGED <<usage, nextSeq, cursor, newestFirst, committed>>

\* set_meta("station_upload_after", ...) with a time in the future.
HoldBack(s) ==
    /\ heldBack' = [heldBack EXCEPT ![s] = TRUE]
    /\ UNCHANGED <<row, usage, nextSeq, cursor, newestFirst, committed>>

\* The clock passes next_attempt of a row, or station_upload_after.
ElapseRow(e) ==
    /\ e \in Held /\ ~row[e].due
    /\ row' = [row EXCEPT ![e] = [@ EXCEPT !.due = TRUE]]
    /\ UNCHANGED <<usage, nextSeq, cursor, heldBack, newestFirst, committed>>

ElapseStation(s) ==
    /\ heldBack[s]
    /\ heldBack' = [heldBack EXCEPT ![s] = FALSE]
    /\ UNCHANGED <<row, usage, nextSeq, cursor, newestFirst, committed>>

\* The rows that `candidates' may return for a station.
Due(s) ==
    IF heldBack[s] THEN {}
    ELSE {e \in HeldBy(s) : row[e].state = "queued" /\ row[e].due}
-----------------------------------------------------------------------------
\* The counters that decide whether a reading fits are those of the table,
\* whatever sequence of inserts, double acknowledgements, late deferrals and
\* retries came before (triggers of spool.py, can_fit).
UsageIsExact ==
    \A s \in Stations :
        /\ usage[s].events = Cardinality(HeldBy(s))
        /\ usage[s].bytes = Cardinality(BytesOf(HeldBy(s)))

\* No sequence of calls takes a spool over its quotas, quarantined rows
\* included (operations.md: "Both quotas include quarantined events").
WithinQuota ==
    \A s \in Stations :
        /\ Cardinality(HeldBy(s)) <= MaxEvents[s]
        /\ Cardinality(BytesOf(HeldBy(s))) <= MaxBytes[s]
=============================================================================
