---------------------------- MODULE SensorRouter ----------------------------
(***************************************************************************)
(* Receivers of many sensors: an SDR, a gateway or a UDP listener delivers *)
(* packets of several sensors to one worker, which routes each into the    *)
(* spool file of its sensor (sensor_sources.py, network_sources.py,        *)
(* sdr.py), with the sensor registered in the spool of the receiver.  The  *)
(* uploader finds the files through that registry.  Packets get lost, and  *)
(* over the network repeated and reordered; worker and uploader restart.   *)
(* The operator of the website adopts sensors and blocks them.             *)
(*                                                                         *)
(* A packet carries the counter of its sensor (None: no rain gauge in it); *)
(* the digest of its data is the counter.  `fell' is what really fell.     *)
(***************************************************************************)
EXTENDS Integers, FiniteSets, FiniteSetsExt, Sequences

CONSTANTS
    Sensors, Streams,
    RainStreams,    \* the stream whose packets carry the counter: "radio" or "snapshot"
    Media,          \* "radio" (an SDR), "network" (a gateway or a UDP listener), or both
    Maximum,        \* max_sensors
    Capacity,       \* max_events, of every sensor
    Bounds          \* per medium: sensors heard, those that may be blocked, packets
                    \* in one read, time, rain over all sensors, faults up to which
                    \* counters are reset and processes restarted

ASSUME RouterAssumption ==
    /\ IsFiniteSet(Sensors) /\ RainStreams \subseteq Streams
    /\ \A j, k \in RainStreams : j = k
    /\ Media \subseteq {"radio", "network"}
    /\ Maximum \in Nat /\ Capacity \in Nat \ {0}
    /\ Bounds \in [Media -> [sensors : SUBSET Sensors, blockable : SUBSET Sensors,
                             packets : Nat, time : Nat, rain : Nat, resets : Nat,
                             restarts : Nat]]

None == -1

VARIABLES
    medium,               \* what this receiver listens to; it never changes
    now, gauge, fell,     \* clock, counter of a sensor, rain since ever
    air,                  \* the packets sent so far
    inbox,                \* packets of the last read still to be routed
    opened,               \* Router.spools
    registry,             \* meta sensors of the receiver's spool
    rows,                 \* rows in the file of a sensor
    last,                 \* meta radio_last and stream_...: [time, digest]
    baseline,             \* meta rain_counter
    discovered,           \* spools the uploader has open
    blocked,              \* sensors that are pending or blocked: no row is acknowledged
    ids, count,           \* history: event ids and number of committed events
    rain, first, latest,  \* history: rain of committed events, `fell' of the first and last
    faults

deviceVars == <<medium, now, gauge, fell, air>>
fileVars == <<rows, last, baseline>>
historyVars == <<ids, count, rain, first, latest>>
uploadVars == <<discovered, blocked>>
vars == <<deviceVars, inbox, opened, registry, fileVars, uploadVars, historyVars, faults>>

Packet == [sensor : Sensors, stream : Streams, time : Nat, total : Nat \cup {None}, fell : Nat]
Radio == medium = "radio"
Bound == Bounds[medium]
Never == [time |-> 0, digest |-> "none"]

TypeOK ==
    /\ medium \in Media /\ now \in Nat \ {0} /\ gauge \in [Sensors -> Nat] /\ fell \in [Sensors -> Nat]
    /\ air \in SUBSET Packet
    /\ inbox \in Seq(Packet)
    /\ opened \in SUBSET Sensors /\ discovered \in SUBSET Sensors
    /\ blocked \in SUBSET Sensors
    /\ registry \in SUBSET Sensors /\ Cardinality(registry) <= Maximum
    /\ rows \in [Sensors -> 0..Capacity]
    /\ last \in [Sensors -> [Streams -> {Never} \cup [time : 1..now, digest : Nat \cup {None}]]]
    /\ baseline \in [Sensors -> Nat \cup {None}]
    /\ ids \in [Sensors -> SUBSET (Streams \X Nat)] /\ count \in [Sensors -> Nat]
    /\ rain \in [Sensors -> Nat]
    /\ first \in [Sensors -> Nat \cup {None}] /\ latest \in [Sensors -> Nat \cup {None}]
    /\ faults \in Nat

Init ==
    /\ medium \in Media /\ now = 1
    /\ gauge = [s \in Sensors |-> 0] /\ fell = [s \in Sensors |-> 0]
    /\ air = {}
    /\ inbox = <<>> /\ opened = {} /\ registry = {}
    /\ rows = [s \in Sensors |-> 0]
    /\ last = [s \in Sensors |-> [k \in Streams |-> Never]]
    /\ baseline = [s \in Sensors |-> None]
    /\ discovered = {} /\ blocked \in SUBSET Bound.blockable
    /\ ids = [s \in Sensors |-> {}] /\ count = [s \in Sensors |-> 0]
    /\ rain = [s \in Sensors |-> 0]
    /\ first = [s \in Sensors |-> None] /\ latest = [s \in Sensors |-> None]
    /\ faults = 0

Fault(limit) == faults < limit /\ faults' = faults + 1
-----------------------------------------------------------------------------
(* The sensors.                                                            *)

\* What was sent over the radio is gone; a network may still deliver it.
Tick ==
    /\ now < Bound.time
    /\ now' = now + 1
    /\ air' = IF Radio THEN {} ELSE air
    /\ UNCHANGED <<medium, gauge, fell, inbox, opened, registry, fileVars, uploadVars, historyVars, faults>>

RainFalls(s) ==
    /\ MapThenSumSet(LAMBDA r : fell[r], Sensors) < Bound.rain
    /\ fell' = [fell EXCEPT ![s] = @ + 1]
    /\ gauge' = [gauge EXCEPT ![s] = @ + 1]
    /\ UNCHANGED <<medium, now, air, inbox, opened, registry, fileVars, uploadVars, historyVars, faults>>

\* A new battery.
GaugeResets(s) ==
    /\ gauge[s] > 0 /\ Fault(Bound.resets)
    /\ gauge' = [gauge EXCEPT ![s] = 0]
    /\ UNCHANGED <<medium, now, fell, air, inbox, opened, registry, fileVars, uploadVars, historyVars>>

Transmit(s, k) ==
    /\ air' = air \cup {[sensor |-> s, stream |-> k, time |-> now, fell |-> fell[s],
                         total |-> IF k \in RainStreams THEN gauge[s] ELSE None]}
    /\ UNCHANGED <<medium, now, gauge, fell, inbox, opened, registry, fileVars, uploadVars, historyVars, faults>>
-----------------------------------------------------------------------------
(* The worker of the receiver.                                             *)

\* What a read may return: a decoder repeats what a sensor sends now, a network
\* delivers any packet, any number of times, and several in one datagram.
Receivable(p) ==
    Radio => p.fell = fell[p.sensor] /\ p.total \in {None, gauge[p.sensor]}

Read ==
    /\ inbox = <<>>
    /\ \E n \in 1..Bound.packets :
        \E packets \in [1..n -> {p \in air : Receivable(p)}] : inbox' = packets
    /\ UNCHANGED <<deviceVars, opened, registry, fileVars, uploadVars, historyVars, faults>>

\* Mutant: a packet that is refused is tried again.
DropRead_Retries == UNCHANGED inbox

\* ProtocolError: run drops what is left of the read.
DropRead == inbox' = <<>>

\* Router.append: the sensor is registered before it gets a file.
Register ==
    /\ inbox # <<>> /\ Head(inbox).sensor \notin registry
    /\ IF Cardinality(registry) >= Maximum
       THEN DropRead /\ UNCHANGED registry
       ELSE registry' = registry \cup {Head(inbox).sensor} /\ UNCHANGED inbox
    /\ UNCHANGED <<deviceVars, opened, fileVars, uploadVars, historyVars, faults>>

Open ==
    /\ inbox # <<>> /\ Head(inbox).sensor \in registry \ opened
    /\ opened' = opened \cup {Head(inbox).sensor}
    /\ UNCHANGED <<deviceVars, inbox, registry, fileVars, uploadVars, historyVars, faults>>

Current == Head(inbox)
Routing == inbox # <<>> /\ Current.sensor \in opened
Previous(p) == last[p.sensor][p.stream]

OutOfOrder(p) == p.time < Previous(p).time

\* Identical data within two seconds on the radio, or with the same timestamp.
Repeat(p) ==
    /\ Previous(p) # Never /\ p.total = Previous(p).digest
    /\ p.time - Previous(p).time <= (IF Radio THEN 2 ELSE 0)

\* Mutant: other data with the timestamp of a committed event is new.
Conflict_Never(p) == FALSE
Conflict(p) == ~Radio /\ p.time = Previous(p).time

Reject ==
    /\ Routing
    /\ OutOfOrder(Current) \/ (~Repeat(Current) /\ Conflict(Current))
    /\ DropRead
    /\ UNCHANGED <<deviceVars, opened, registry, fileVars, uploadVars, historyVars, faults>>

Suppress ==
    /\ Routing /\ ~OutOfOrder(Current) /\ Repeat(Current)
    /\ inbox' = Tail(inbox)
    /\ UNCHANGED <<deviceVars, opened, registry, fileVars, uploadVars, historyVars, faults>>

\* The rain since the baseline: none in a first reading or after a reset.
RainOf(p) ==
    IF p.total = None \/ baseline[p.sensor] = None \/ p.total < baseline[p.sensor] THEN 0
    ELSE p.total - baseline[p.sensor]

\* What one event adds to the history.
Record(p) ==
    /\ ids' = [ids EXCEPT ![p.sensor] = @ \cup {<<p.stream, p.time>>}]
    /\ count' = [count EXCEPT ![p.sensor] = @ + 1]
    /\ rain' = [rain EXCEPT ![p.sensor] = @ + RainOf(p)]
    /\ IF p.total = None THEN UNCHANGED <<first, latest>>
       ELSE /\ first' = [first EXCEPT ![p.sensor] = IF @ = None THEN p.fell ELSE @]
            /\ latest' = [latest EXCEPT ![p.sensor] = p.fell]

MoveBaseline(p) ==
    baseline' = [baseline EXCEPT ![p.sensor] = IF p.total = None THEN @ ELSE p.total]

Journal(p) ==
    /\ rows[p.sensor] < Capacity
    /\ rows' = [rows EXCEPT ![p.sensor] = @ + 1]
    /\ last' = [last EXCEPT ![p.sensor][p.stream] = [time |-> p.time, digest |-> p.total]]
    /\ MoveBaseline(p)
    /\ inbox' = Tail(inbox)
    /\ Record(p)

\* Mutant: the baseline is moved before the event is in the spool.
JournalEvent_BaselineFirst ==
    /\ Routing /\ ~OutOfOrder(Current) /\ ~Repeat(Current) /\ ~Conflict(Current)
    /\ \/ Journal(Current)
       \/ /\ rows[Current.sensor] >= Capacity /\ MoveBaseline(Current)
          /\ UNCHANGED <<rows, last, inbox, historyVars>>
    /\ UNCHANGED <<deviceVars, opened, registry, uploadVars, faults>>

\* Spool.append with the metadata, one transaction; while the spool is full the
\* worker tries again with the same packet.
JournalEvent ==
    /\ Routing /\ ~OutOfOrder(Current) /\ ~Repeat(Current) /\ ~Conflict(Current)
    /\ Journal(Current)
    /\ UNCHANGED <<deviceVars, opened, registry, uploadVars, faults>>

\* The worker dies and is restarted.
Restart ==
    /\ Fault(Bound.restarts)
    /\ inbox' = <<>> /\ opened' = {}
    /\ UNCHANGED <<deviceVars, registry, fileVars, uploadVars, historyVars>>
-----------------------------------------------------------------------------
(* The uploader.                                                           *)

\* discover_spools, at the head of every tick: one registered sensor after another.
\* Whichever of worker and uploader comes first creates the file (child_spool).
Discover(s) ==
    /\ s \in registry \ discovered
    /\ discovered' = discovered \cup {s}
    /\ UNCHANGED <<deviceVars, inbox, opened, registry, fileVars, blocked, historyVars, faults>>

\* A batch with a row of the sensor is answered: stored.  Of a sensor that is pending
\* or blocked every row is deferred or put into quarantine; it stays.
Upload(s) ==
    /\ s \in discovered \ blocked /\ rows[s] > 0
    /\ rows' = [rows EXCEPT ![s] = @ - 1]
    /\ UNCHANGED <<deviceVars, inbox, opened, registry, last, baseline, uploadVars, historyVars, faults>>

\* The operator of the website adopts or blocks a sensor.
Decides(s) ==
    /\ blocked' = IF s \in blocked THEN blocked \ {s} ELSE blocked \cup {s}
    /\ UNCHANGED <<deviceVars, inbox, opened, registry, fileVars, discovered, historyVars, faults>>

UploaderRestarts ==
    /\ Fault(Bound.restarts)
    /\ discovered' = {}
    /\ UNCHANGED <<deviceVars, inbox, opened, registry, fileVars, blocked, historyVars>>
-----------------------------------------------------------------------------
Route == Register \/ Open \/ Reject \/ Suppress \/ JournalEvent

Next ==
    \/ Tick \/ Read \/ Route \/ Restart
    \/ UploaderRestarts
    \/ \E s \in Bound.blockable : Decides(s)
    \/ \E s \in Bound.sensors :
        \/ RainFalls(s) \/ GaugeResets(s) \/ Discover(s) \/ Upload(s)
        \/ \E k \in Streams : Transmit(s, k)

Spec == Init /\ [][Next]_vars

\* The worker and the uploader go on; nothing has to be received, and no sensor has
\* to be adopted.
Fairness ==
    /\ WF_vars(Route)
    /\ \A s \in Sensors : WF_vars(Discover(s)) /\ WF_vars(Upload(s))

FairSpec == Spec /\ Fairness
-----------------------------------------------------------------------------
\* "restart/retry cannot double-count" (native-ingest-v3.md): whatever is lost,
\* repeated, reordered, retried or reset, the events of a sensor never add up
\* to more rain than fell between the first and the last of them.
RainIsNotInvented ==
    \A s \in Sensors : rain[s] <= (IF first[s] = None THEN 0 ELSE latest[s] - first[s])

\* And they add up to all of it as long as the counter was not reset: neither a
\* full spool nor a restart moves the baseline without its event.
RainIsComplete ==
    \A s \in Sensors :
        first[s] # None /\ gauge[s] = fell[s] => rain[s] = latest[s] - first[s]

\* The rain of the events is what fell: never more, nor less while nobody resets.
RainAddsUp == RainIsNotInvented /\ RainIsComplete

\* The id of a network event is its stream and timestamp: no two events that are
\* committed share one, so none violates UNIQUE or is taken for a conflict.
IdsAreUnique == ~Radio => \A s \in Sensors : count[s] = Cardinality(ids[s])

\* "Once a sensor queue is full, reception pauses with that event held in memory
\* until upload frees space" (native-ingest-v3.md): the pause ends, unless the sensor
\* of that event is not adopted and no upload can free any.
ReceptionGoesOn ==
    inbox # <<>> ~>
        inbox = <<>> \/ (Current.sensor \in blocked /\ rows[Current.sensor] = Capacity)

\* "Blocking one sensor does not block other sensors" (native-ingest-v3.md): once
\* nobody adopts or blocks a sensor any more, a packet of an adopted one is routed.
Settled == \A s \in Sensors : <>[](s \in blocked) \/ <>[](s \notin blocked)
BlockingIsolates ==
    Settled =>
        \A s \in Sensors :
            (\E i \in DOMAIN inbox : inbox[i].sensor = s)
                ~> s \in blocked \/ \A i \in DOMAIN inbox : inbox[i].sensor # s
=============================================================================
