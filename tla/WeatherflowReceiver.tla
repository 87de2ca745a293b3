------------------------ MODULE WeatherflowReceiver ------------------------
(***************************************************************************)
(* The receiver of a WeatherFlow hub (weatherflow.py, network_sources.py): *)
(* datagrams carry rows of one kind of one device, observations or rapid   *)
(* wind, stamped by the hub.  The network loses, repeats and reorders      *)
(* them; the hub's clock may be ahead for a while.  Rain is the amount of  *)
(* a row, not a counter.  One device is followed; registry, spool and its  *)
(* quota are the subject of SensorRouter.                                  *)
(*                                                                         *)
(* A datagram of another hub, of another type, with a row that is not well *)
(* formed or outside the window, or with too many rows gives no packets at *)
(* all: `read' returns nothing or raises, and no state but the error text  *)
(* in meta changes.  A row whose values are all null gives none either.    *)
(***************************************************************************)
EXTENDS Integers, Sequences

CONSTANTS
    MaxRows,                    \* 16
    WindowPast, WindowFuture,   \* 300 and 60 seconds
    HubError,                   \* how far the hub's clock is ahead when it is wrong
    MaxMinutes, MaxShowers, MaxUpsets
                                \* bounds: time, rain, restarts and changes of the hub's clock

ASSUME WeatherflowAssumption ==
    /\ {MaxRows, MaxMinutes} \subseteq Nat \ {0}
    /\ {WindowPast, WindowFuture, HubError, MaxShowers, MaxUpsets} \subseteq Nat

VARIABLES
    minute, wrong,      \* the time, and whether the hub's clock is ahead
    made, showers,      \* the rows of the device; history: the rain that fell
    packets,            \* packets of the last read still to be routed
    newest,             \* meta stream_...: [time, digest] of each kind
    reported,           \* history: rain of the events
    upsets

hubVars == <<minute, wrong, made, showers>>
wfVars == <<hubVars, packets, newest, reported, upsets>>

Kinds == {"observation", "rapid_wind"}      \* obs_st or obs_sky, and rapid_wind
Row == [kind : Kinds, time : Nat, rain : Nat, made : Nat]
Unheard == [time |-> 0, digest |-> -1]

WeatherflowTypeOK ==
    /\ minute \in 1..MaxMinutes /\ wrong \in BOOLEAN
    /\ made \subseteq Row /\ showers \in 0..MaxShowers
    /\ packets \in Seq(Row) /\ Len(packets) <= MaxRows
    /\ newest \in [Kinds -> {Unheard} \cup [time : Nat \ {0}, digest : Nat]]
    /\ reported \in Nat
    /\ upsets \in 0..MaxUpsets

WeatherflowInit ==
    /\ minute = 1 /\ wrong \in BOOLEAN /\ made = {} /\ showers = 0
    /\ packets = <<>> /\ newest = [k \in Kinds |-> Unheard]
    /\ reported = 0
    /\ upsets = 0

Upset == upsets < MaxUpsets /\ upsets' = upsets + 1
-----------------------------------------------------------------------------
(* The hub and its device (external).                                      *)

Passes ==
    /\ minute < MaxMinutes
    /\ minute' = minute + 1
    /\ UNCHANGED <<wrong, made, showers, packets, newest, reported, upsets>>

\* The hub loses the time, or finds it again.
HubClockChanges ==
    /\ Upset
    /\ wrong' = ~wrong
    /\ UNCHANGED <<minute, made, showers, packets, newest, reported>>

\* One row of each kind per unit of time.
Measures(k) ==
    /\ \A r \in made : r.kind = k => r.made < minute
    /\ \E rain \in 0..(IF k = "observation" THEN 1 ELSE 0) :
        /\ showers' = showers + rain /\ showers' <= MaxShowers
        /\ made' = made \cup {[kind |-> k, time |-> minute + (IF wrong THEN HubError ELSE 0),
                               rain |-> rain, made |-> minute]}
    /\ UNCHANGED <<minute, wrong, packets, newest, reported, upsets>>
-----------------------------------------------------------------------------
(* The worker.                                                             *)

\* Mutant: only rows that are too old are refused.
InWindow_Past(r) == minute - WindowPast <= r.time

\* The window of decode around the clock of the collector.
InWindow(r) == minute - WindowPast <= r.time /\ r.time <= minute + WindowFuture

RowsOf(k) == {r \in made : r.kind = k}

MostRows(k) == IF k = "rapid_wind" THEN 1 ELSE MaxRows

\* decode: any rows of one kind the hub has sent, all of them acceptable.
Datagrams(k) ==
    UNION {[1..n -> {r \in RowsOf(k) : InWindow(r)}] : n \in 1..MostRows(k)}

Listens ==
    /\ packets = <<>>
    /\ \E k \in Kinds : packets' \in Datagrams(k)
    /\ UNCHANGED <<hubVars, newest, reported, upsets>>

\* Nothing for a quarter of a second, or a datagram that gives no packets.
ReadsNothing == packets = <<>> /\ UNCHANGED wfVars

Packet1 == packets[1]

\* Order and repeats are checked per type of packet.
LastOf(k) == newest[k]

\* Mutant: repeats are recognised by their content only.
Ordered_Digest(r) == r.rain # LastOf(r.kind).digest \/ r.time # LastOf(r.kind).time

\* Neither out of order nor in conflict with the event of the same time.
Ordered(r) == r.time > LastOf(r.kind).time

SameAgain(r) == r.time = LastOf(r.kind).time /\ r.rain = LastOf(r.kind).digest

\* Router.append: event and mark in one transaction.
Keeps ==
    /\ packets # <<>> /\ Ordered(Packet1)
    /\ newest' = [newest EXCEPT ![Packet1.kind] = [time |-> Packet1.time, digest |-> Packet1.rain]]
    /\ reported' = reported + Packet1.rain
    /\ packets' = Tail(packets)
    /\ UNCHANGED <<hubVars, upsets>>

Discards ==
    /\ packets # <<>> /\ SameAgain(Packet1)
    /\ packets' = Tail(packets)
    /\ UNCHANGED <<hubVars, newest, reported, upsets>>

\* ProtocolError: the rest of the datagram goes with the row.
DropsRest ==
    /\ packets # <<>> /\ ~Ordered(Packet1) /\ ~SameAgain(Packet1)
    /\ packets' = <<>>
    /\ UNCHANGED <<hubVars, newest, reported, upsets>>

\* The marks are in the spool; what was read and not journaled is gone.
WorkerRestarts ==
    /\ packets # <<>> /\ Upset
    /\ packets' = <<>>
    /\ UNCHANGED <<hubVars, newest, reported>>
-----------------------------------------------------------------------------
Handles == Keeps \/ Discards \/ DropsRest

WeatherflowNext ==
    \/ Passes \/ HubClockChanges \/ Listens \/ ReadsNothing \/ Handles \/ WorkerRestarts
    \/ \E k \in Kinds : Measures(k)

WeatherflowSpec == WeatherflowInit /\ [][WeatherflowNext]_wfVars
-----------------------------------------------------------------------------
\* Repeated, reordered and combined datagrams, restarts and a hub whose clock
\* jumps never make more rain of the device than fell.
RainIsAddedOnce == reported <= showers

\* A hub whose clock is ahead cannot silence its device for longer than the
\* allowance of the window: the mark that later rows are compared with is never
\* further in the future.
SilenceIsBounded == \A k \in Kinds : newest[k].time <= minute + WindowFuture
=============================================================================
