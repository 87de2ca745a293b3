------------------------------ MODULE Collector ------------------------------
(***************************************************************************)
(* The worker of a station with a hardware logger (runtime.py): the engine *)
(* journals LOOP packets, breaks the loop once per archive period, and     *)
(* reads the records the logger kept since the cursor in the spool.  The   *)
(* device records on while the worker is down, blocked by a full spool, or *)
(* reading; its memory is finite.  The process may stop at any point.      *)
(*                                                                         *)
(* A record is its dateTime.  The spool is what append and the uploader    *)
(* make of it: a number of rows and the hardware cursor (module Spool).    *)
(***************************************************************************)
EXTENDS Integers, FiniteSets, FiniteSetsExt

CONSTANTS
    Interval, Delay,    \* effective archive_interval and archive_delay
    MaxAge,             \* max_age_seconds
    LoggerDepth,        \* records the device can keep
    Capacity,           \* max_events
    NoCatchup,          \* the values of no_catchup an operator may configure
    StartupSupported,   \* whether the driver implements genStartupRecords: both allowed
    ArchiveSupported,   \* whether the driver implements genArchiveRecords
    MaxSkew,            \* how far ahead of the clock a packet's dateTime may be
    MaxTime,            \* bound on the clock
    MaxFaults           \* bound on stops, hardware errors, invalid records, odd packets

ASSUME CollectorAssumption ==
    /\ Interval \in Nat \ {0} /\ Delay \in Nat \ {0} /\ Delay < Interval
    /\ MaxAge \in Nat /\ LoggerDepth \in Nat \ {0} /\ Capacity \in Nat
    /\ NoCatchup \subseteq BOOLEAN
    /\ StartupSupported \subseteq BOOLEAN /\ ArchiveSupported \subseteq BOOLEAN
    /\ MaxSkew \in Nat /\ MaxTime \in Nat /\ MaxFaults \in Nat

VARIABLES
    now, logger, produced,   \* the device: clock, memory, history of its records
    phase,                   \* where the worker stands
    hand,                    \* the packet or record that append has not yet committed
    startup, since, position,\* the catch-up: which one, its lower bound, last record yielded
    hardware, hardwareState, \* the nonlocal flag, meta hardware_state
    periodEnd, delayEnd,     \* the archive period, 0 for None
    rows, cursor,            \* the spool: rows, meta hardware_cursor
    committed, excused,      \* history: records journaled; records out of reach
    faults

device == <<now, logger, produced>>
reading == <<startup, since, position>>
mode == <<hardware, hardwareState>>
period == <<periodEnd, delayEnd>>
spool == <<rows, cursor, committed>>
vars == <<device, phase, hand, reading, mode, period, spool, excused, faults>>

Phases == {"down", "starting", "loop", "catchUp", "refused"}
Nothing == [kind |-> "none", time |-> 0]
Later(a, b) == IF a < b THEN b ELSE a

TypeOK ==
    /\ now \in Nat /\ logger \in SUBSET Nat /\ produced \in SUBSET Nat
    /\ phase \in Phases
    /\ hand \in [kind : {"none", "loop", "archive"}, time : Nat]
    /\ startup \in BOOLEAN /\ since \in Int /\ position \in Int
    /\ hardware \in BOOLEAN
    /\ hardwareState \in {"none", "starting", "active", "software_fallback", "retrying"}
    /\ periodEnd \in Nat /\ delayEnd \in Nat
    /\ rows \in 0..Capacity /\ cursor \in Nat
    /\ committed \in SUBSET Nat /\ excused \in SUBSET Nat
    /\ faults \in Nat

Init ==
    /\ now = 1 /\ logger = {} /\ produced = {}
    /\ phase = "down" /\ hand = Nothing
    /\ startup = FALSE /\ since = 0 /\ position = 0
    /\ hardware = TRUE /\ hardwareState = "none"
    /\ periodEnd = 0 /\ delayEnd = 0
    /\ rows = 0 /\ cursor = 0
    /\ committed = {} /\ excused = {}
    /\ faults = 0

Fault == faults < MaxFaults /\ faults' = faults + 1
-----------------------------------------------------------------------------
(* The device and the uploader.                                            *)

\* The records that stay in a memory of the given size.
Latest(S) == {t \in S : Cardinality({r \in S : r > t}) < LoggerDepth}

Tick ==
    /\ now < MaxTime
    /\ now' = now + 1
    /\ IF now' % Interval = 0
       THEN /\ produced' = produced \cup {now'}
            /\ logger' = Latest(logger \cup {now'})
       ELSE UNCHANGED <<produced, logger>>
    /\ excused' = excused \cup (logger \ logger')
    /\ UNCHANGED <<phase, hand, reading, mode, period, spool, faults>>

Upload ==
    /\ rows > 0
    /\ rows' = rows - 1
    /\ UNCHANGED <<device, phase, hand, reading, mode, period, cursor, committed, excused, faults>>
-----------------------------------------------------------------------------
(* The worker.                                                             *)

\* create_engine: the process knows nothing but what the spool file says.
Start ==
    /\ phase = "down"
    /\ phase' = "starting"
    /\ hardware' = TRUE /\ hardwareState' = "starting"
    /\ periodEnd' = 0 /\ delayEnd' = 0
    /\ UNCHANGED <<device, hand, reading, spool, excused, faults>>

\* PRE_LOOP: the first period is set once.
EnterLoop ==
    /\ phase' = "loop"
    /\ LET end == (now \div Interval + 1) * Interval
       IN  periodEnd' = end /\ delayEnd' = end + Delay

\* STARTUP with no_catchup, which each start reads from the configuration: an
\* explicit skip, once and for ever.
SkipHistory ==
    /\ phase = "starting" /\ TRUE \in NoCatchup
    /\ IF cursor = 0
       THEN cursor' = now /\ excused' = excused \cup produced
       ELSE UNCHANGED <<cursor, excused>>
    /\ EnterLoop
    /\ UNCHANGED <<device, hand, reading, mode, rows, committed, faults>>

\* The head of catch_up.  A driver may start before the bound it is given;
\* records beyond the age the receiver accepts are not asked for.
BeginCatchUp(atStartup) ==
    /\ phase' = "catchUp"
    /\ startup' = atStartup
    /\ since' = Later(cursor, now - MaxAge)
    /\ position' \in {0, since'}
    /\ excused' = excused \cup {t \in produced : cursor < t /\ t <= now - MaxAge}

CatchUpAtStartup ==
    /\ phase = "starting" /\ FALSE \in NoCatchup
    /\ BeginCatchUp(TRUE)
    /\ UNCHANGED <<device, hand, mode, period, spool, faults>>

\* What follows the catch-up: the first PRE_LOOP, or the rest of POST_LOOP.
EndCatchUp ==
    IF startup THEN EnterLoop
    ELSE /\ phase' = "loop"
         /\ delayEnd' = periodEnd + Delay
         /\ UNCHANGED periodEnd

CatchingUp == phase = "catchUp" /\ hand = Nothing
Supported == IF startup THEN StartupSupported ELSE ArchiveSupported
Remaining == {t \in logger : t > position}

\* Mutant: a record is not compared with the cursor.
YieldRecord_Trusting ==
    /\ CatchingUp /\ TRUE \in Supported /\ Remaining # {}
    /\ position' = Min(Remaining)
    /\ hand' = [kind |-> "archive", time |-> position']
    /\ UNCHANGED <<device, phase, startup, since, mode, period, spool, excused, faults>>

\* The generator yields the next record in time; old ones are passed over.
YieldRecord ==
    /\ CatchingUp /\ TRUE \in Supported /\ Remaining # {}
    /\ position' = Min(Remaining)
    /\ hand' = IF position' <= Later(since, cursor) THEN Nothing
               ELSE [kind |-> "archive", time |-> position']
    /\ UNCHANGED <<device, phase, startup, since, mode, period, spool, excused, faults>>

EndOfRecords ==
    /\ CatchingUp /\ TRUE \in Supported /\ Remaining = {}
    /\ hardwareState' = "active"
    /\ EndCatchUp
    /\ UNCHANGED <<device, hand, reading, hardware, spool, excused, faults>>

\* Mutant: a driver without startup records is not asked for others.
Unsupported_ForGood ==
    /\ CatchingUp /\ FALSE \in Supported
    /\ hardware' = FALSE
    /\ hardwareState' = "software_fallback"
    /\ EndCatchUp
    /\ UNCHANGED <<device, hand, reading, spool, excused, faults>>

\* NotImplementedError: startup records and archive records are independent.
Unsupported ==
    /\ CatchingUp /\ FALSE \in Supported
    /\ hardware' = startup
    /\ hardwareState' = "software_fallback"
    /\ EndCatchUp
    /\ UNCHANGED <<device, hand, reading, spool, excused, faults>>

\* weewx.HardwareError: the next period tries again, from the cursor.
HardwareError ==
    /\ CatchingUp /\ TRUE \in Supported /\ Fault
    /\ hardwareState' = "retrying"
    /\ EndCatchUp
    /\ UNCHANGED <<device, hand, reading, hardware, spool, excused>>

\* ProtocolError: exit code 65, which the supervisor does not restart.
InvalidRecord ==
    /\ CatchingUp /\ TRUE \in Supported /\ Fault
    /\ phase' = "refused"
    /\ UNCHANGED <<device, hand, reading, mode, period, spool, excused>>

OperatorRestarts ==
    /\ phase = "refused"
    /\ phase' = "down"
    /\ UNCHANGED <<device, hand, reading, mode, period, spool, excused, faults>>

LoopPacket ==
    /\ phase = "loop" /\ hand = Nothing
    /\ hand' = [kind |-> "loop", time |-> now]
    /\ UNCHANGED <<device, phase, reading, mode, period, spool, excused, faults>>

\* The clock of the device is ahead, once; the packet is journaled all the same,
\* and CHECK_LOOP takes its dateTime for the time.
OddPacket ==
    /\ phase = "loop" /\ hand = Nothing /\ MaxSkew > 0 /\ Fault
    /\ hand' = [kind |-> "loop", time |-> now + MaxSkew]
    /\ UNCHANGED <<device, phase, reading, mode, period, spool, excused>>

\* Mutant: the period after the next one.
CheckLoop_OffByOne(t) ==
    LET end == IF t > periodEnd THEN (t \div Interval + 2) * Interval ELSE periodEnd IN
    /\ periodEnd' = end
    /\ IF t >= delayEnd /\ hardware
       THEN BeginCatchUp(FALSE) /\ UNCHANGED delayEnd
       ELSE /\ delayEnd' = IF t >= delayEnd THEN end + Delay ELSE delayEnd
            /\ UNCHANGED <<phase, reading, excused>>

\* CHECK_LOOP, and POST_LOOP when it breaks the loop.
CheckLoop(t) ==
    LET end == IF t > periodEnd THEN (t \div Interval + 1) * Interval ELSE periodEnd IN
    /\ periodEnd' = end
    /\ IF t >= delayEnd /\ hardware
       THEN BeginCatchUp(FALSE) /\ UNCHANGED delayEnd
       ELSE /\ delayEnd' = IF t >= delayEnd THEN end + Delay ELSE delayEnd
            /\ UNCHANGED <<phase, reading, excused>>

\* Mutant: a full spool is not noticed.
JournalPacket_NoQuota ==
    /\ hand.kind = "loop"
    /\ rows' = rows + 1
    /\ hand' = Nothing
    /\ CheckLoop(hand.time)
    /\ UNCHANGED <<device, mode, cursor, committed, faults>>

\* append of a LOOP packet; a full spool makes the worker wait right here.
JournalPacket ==
    /\ hand.kind = "loop" /\ rows < Capacity
    /\ rows' = rows + 1
    /\ hand' = Nothing
    /\ CheckLoop(hand.time)
    /\ UNCHANGED <<device, mode, cursor, committed, faults>>

\* Mutant: the cursor moves to the present.
JournalRecord_Now ==
    /\ hand.kind = "archive" /\ rows < Capacity
    /\ rows' = rows + 1
    /\ committed' = committed \cup {hand.time}
    /\ cursor' = now
    /\ hand' = Nothing
    /\ UNCHANGED <<device, phase, reading, mode, period, excused, faults>>

\* append of a record: row and cursor in one transaction.
JournalRecord ==
    /\ hand.kind = "archive" /\ rows < Capacity
    /\ rows' = rows + 1
    /\ committed' = committed \cup {hand.time}
    /\ cursor' = Later(cursor, hand.time)
    /\ hand' = Nothing
    /\ UNCHANGED <<device, phase, reading, mode, period, excused, faults>>

\* StopNow, a signal, the watchdog or a crash: what was in hand is gone.
Stop ==
    /\ phase \in {"starting", "loop", "catchUp"} /\ Fault
    /\ phase' = "down"
    /\ hand' = Nothing
    /\ UNCHANGED <<device, reading, mode, period, spool, excused>>
-----------------------------------------------------------------------------
Work ==
    \/ Start \/ SkipHistory \/ CatchUpAtStartup
    \/ YieldRecord \/ EndOfRecords \/ Unsupported
    \/ LoopPacket \/ JournalPacket \/ JournalRecord

Next ==
    \/ Tick \/ Upload \/ Work
    \/ HardwareError \/ InvalidRecord \/ Stop \/ OperatorRestarts \/ OddPacket

Spec == Init /\ [][Next]_vars

\* The supervisor restarts the worker, the uploader makes room, the device
\* answers and its clock goes on.
FairSpec == Spec /\ WF_vars(Work) /\ WF_vars(Upload) /\ WF_vars(Tick)
-----------------------------------------------------------------------------
\* A record about to be journaled is later than every record journaled before:
\* restarts, hardware errors and drivers that repeat their memory never put one
\* record into the spool twice (its uuid would collide, or be sent again).
RecordsOnce ==
    hand.kind = "archive" => \A t \in committed : t < hand.time

\* The cursor never passes a record: what it covers was journaled, or was out
\* of reach (overwritten in the device, older than the receiver accepts, or
\* skipped by no_catchup), however often the worker stopped in between.
NothingSkipped ==
    \A t \in produced : t <= cursor => t \in committed \cup excused

\* A packet from the future postpones the next catch-up, but never by more than
\* its own error and one period: the logger is asked again while the worker runs.
PostponementIsBounded ==
    phase = "loop" => delayEnd <= now + MaxSkew + Interval + Delay

\* The bounded clock leaves time for one more catch-up.
ReadsAgain ==
    \/ phase \in {"down", "starting"} /\ StartupSupported = {TRUE} /\ TRUE \notin NoCatchup
    \/ phase = "catchUp" /\ Supported = {TRUE}
    \/ phase = "loop" /\ delayEnd <= MaxTime

\* A record in the device reaches the spool, also when the driver has no
\* startup records, and whenever the spool was full, unless it gets out of
\* reach or another fault comes first.
RecordsArrive ==
    \A t \in 1..MaxTime, f \in 0..MaxFaults :
        (t \in logger /\ ReadsAgain /\ faults = f)
            ~> (t \in committed \cup excused \/ faults > f)
=============================================================================
