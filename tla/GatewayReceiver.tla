--------------------------- MODULE GatewayReceiver ---------------------------
(***************************************************************************)
(* The receiver of a GW1000 gateway (gw1000.py): a poll reads the sensor   *)
(* table, the values, on arrays with a piezo gauge the rain, and the table *)
(* again, each by a connection of its own, while users register sensors    *)
(* and replace them.  A value names the sensor it belongs to by its field  *)
(* only, and the rain counters are the gateway's, whichever sensor moves   *)
(* them; `split' decides which station a value is reported by, and Router  *)
(* (sensor_sources.py) turns the totals of a station into rain.            *)
(*                                                                         *)
(* One field stands for each of GROUPS and each kind of channel.  What the *)
(* firmware does is external: a value comes from one of the sensors that   *)
(* are registered for its field when it is read.  A slot that is changed   *)
(* and changed back within one poll deceives it: `restored' remembers it.  *)
(***************************************************************************)
EXTENDS Integers, FiniteSets, FiniteSetsExt

CONSTANTS
    Slots,              \* the addresses of the sensor table that are used
    RadioIds,           \* the RF ids sensors have
    Fields,             \* the fields the firmware offers
    MaxChanges, MaxRain, MaxSilent
                        \* bounds: changes of the table and resets, rain, sensors without signal

ASSUME GatewayAssumption ==
    /\ Slots \subseteq 0..49 /\ "fffffffe" \notin RadioIds /\ "none" \notin Fields
    /\ {MaxChanges, MaxRain, MaxSilent} \subseteq Nat

VARIABLES
    table, total, rained,   \* gateway: RF id per slot, rain counters, history: rain
    poll,                   \* the request the poll is about to make
    before, values,         \* locals of Receiver.read
    restored,               \* history: slots changed since `before' and changed back
    reports,                \* what the last poll reported
    counters, credited,     \* meta rain_counter per station; history: its rain
    changes

gatewayVars == <<table, total, rained, changes>>
pollVars == <<poll, before, values, restored>>
stationVars == <<reports, counters, credited>>
gwVars == <<gatewayVars, pollVars, stationVars>>

Disabled == "fffffffe"
Gateway == <<-1, "gateway">>

\* GROUPS: the sensors that can provide a common field; none can another field.
Group(f) ==
    CASE f[1] = "intemp" -> {4}
      [] f[1] = "outtemp" -> {0, 2, 5, 48}
      [] f[1] = "windspeed" -> {0, 1, 2, 48, 49}
      [] f[1] = "light" -> {0, 2, 48}
      [] f[1] \in {"t_raintotals", "t_rainyear"} -> {0, 3}
      [] f[1] = "p_rainyear" -> {48, 49}
      [] OTHER -> {}

\* COUNTERS, in their order.
Counters == <<"t_raintotals", "t_rainyear", "p_rainyear">>
IsCounter(f) == \E i \in DOMAIN Counters : Counters[i] = f[1]

\* The field of a channel in the live data (external).
Channel(s) ==
    CASE s \in 6..13 -> <<"temp", s - 5>>
      [] s \in 14..21 -> <<"soilmoist", s - 13>>
      [] s \in 22..25 -> <<"pm25", s - 21>>
      [] s \in 27..30 -> <<"leak", s - 26>>
      [] s \in 31..38 -> <<"temp", s - 22>>
      [] s = 39 -> <<"temp", 17>>
      [] s \in 40..47 -> <<"leafwet", s - 39>>
      [] s = 26 -> <<"lightning", 0>>
      [] OTHER -> <<"none", 0>>

Common == Fields \X {0}
Offered == Common \cup ({Channel(s) : s \in Slots} \ {<<"none", 0>>})
Suppliers(f) == Slots \cap (Group(f) \cup {s \in Slots : Channel(s) = f})

\* inventory, without the unregistered and disabled entries.
Registered(t) == {s \in Slots : t[s] # Disabled}

Sensor(t, s) == <<s, t[s]>>
Stations == (Slots \X RadioIds) \cup {Gateway}
NoTotal == [field |-> "none", total |-> 0]

Value == [field : Offered, origins : SUBSET Stations, total : Nat]
Report == [station : Stations, field : Offered, origins : SUBSET Stations, total : Nat]

GatewayTypeOK ==
    /\ table \in [Slots -> RadioIds \cup {Disabled}] /\ rained \in 0..MaxRain
    /\ \A c \in DOMAIN total : total[c] \in Nat
    /\ poll \in {"mac", "before", "values", "rain", "after"}
    /\ before \in [Slots -> RadioIds \cup {Disabled}]
    /\ values \subseteq Value /\ reports \subseteq Report /\ restored \subseteq Slots
    /\ \A s \in Stations : counters[s].total \in Nat /\ credited[s] \in Nat
    /\ changes \in 0..MaxChanges

\* A counter that was never cleared is above the one of this year.
FirstTotals == [c \in {f \in Fields : IsCounter(<<f, 0>>)} |-> IF c = "t_raintotals" THEN 2 ELSE 1]

GatewayInit ==
    /\ \E id \in RadioIds \cup {Disabled} : table = [s \in Slots |-> id]
    /\ total = FirstTotals /\ rained = 0
    /\ poll = "mac" /\ before = [s \in Slots |-> Disabled] /\ values = {}
    /\ reports = {} /\ restored = {}
    /\ counters = [s \in Stations |-> NoTotal] /\ credited = [s \in Stations |-> 0]
    /\ changes = 0

\* The worker of another kind of receiver: nothing is registered, and nothing can be.
GatewayOff ==
    /\ table = [s \in Slots |-> Disabled]
    /\ total = FirstTotals /\ rained = MaxRain
    /\ poll = "mac" /\ before = table /\ values = {} /\ reports = {} /\ restored = {}
    /\ counters = [s \in Stations |-> NoTotal] /\ credited = [s \in Stations |-> 0]
    /\ changes = MaxChanges
-----------------------------------------------------------------------------
(* The gateway.                                                            *)

Reading == poll \in {"values", "rain", "after"}

Registers(s) ==
    /\ changes < MaxChanges /\ changes' = changes + 1
    /\ \E id \in (RadioIds \cup {Disabled}) \ {table[s]} :
        /\ table' = [table EXCEPT ![s] = id]
        /\ restored' = IF Reading /\ id = before[s] THEN restored \cup {s} ELSE restored
    /\ UNCHANGED <<total, rained, poll, before, values, stationVars>>

Rains ==
    /\ rained < MaxRain /\ rained' = rained + 1
    /\ total' = [c \in DOMAIN total |-> total[c] + 1]
    /\ UNCHANGED <<table, changes, pollVars, stationVars>>

\* A new year, or a user who clears it.
CounterResets(c) ==
    /\ total[c] > 0 /\ changes < MaxChanges /\ changes' = changes + 1
    /\ total' = [total EXCEPT ![c] = 0]
    /\ UNCHANGED <<table, rained, pollVars, stationVars>>
-----------------------------------------------------------------------------
(* A poll: Receiver.read.                                                  *)

Origins(f) ==
    LET known == Suppliers(f) \cap Registered(table)
    IN IF known = {} THEN {Gateway} ELSE {Sensor(table, s) : s \in known}

\* The values one request gets for the fields F.
Answer(F) ==
    {[field |-> f, origins |-> Origins(f), total |-> IF IsCounter(f) THEN total[f[1]] ELSE 0] :
        f \in F}

PollEnds == poll' = "mac" /\ before' = [s \in Slots |-> Disabled] /\ values' = {}

\* A request that fails, or an answer that is refused, drops the poll.
DropsPoll ==
    /\ poll # "mac"
    /\ PollEnds
    /\ UNCHANGED <<gatewayVars, restored, stationVars>>

ReadsMac ==
    /\ poll = "mac" /\ poll' = "before" /\ reports' = {} /\ restored' = {}
    /\ UNCHANGED <<gatewayVars, before, values, counters, credited>>

ReadsBefore ==
    /\ poll = "before" /\ poll' = "values"
    /\ before' = table
    /\ UNCHANGED <<gatewayVars, values, restored, stationVars>>

\* Not every firmware has every counter.
ReadsValues ==
    /\ poll = "values"
    /\ poll' = IF {48, 49} \cap Registered(before) # {} THEN "rain" ELSE "after"
    /\ \E missing \in SUBSET {f \in Common : IsCounter(f)} :
        values' = Answer(Offered \ ({<<"p_rainyear", 0>>} \cup missing))
    /\ UNCHANGED <<gatewayVars, before, restored, stationVars>>

\* values.update: a counter the answer does not have keeps what the first one said.
ReadsRain ==
    /\ poll = "rain" /\ poll' = "after"
    /\ \E rain \in SUBSET (Common \cap {<<"t_rainyear", 0>>, <<"p_rainyear", 0>>}) :
        values' = {v \in values : v.field \notin rain} \cup Answer(rain)
    /\ UNCHANGED <<gatewayVars, before, restored, stationVars>>
-----------------------------------------------------------------------------
(* split: GROUPS, then the fields of the channels.                         *)

\* Mutant: every sensor that can provide a common field gets it.
OwnsGroup_All(s, f, active) == s \in Group(f) \cap active

OwnsGroup(s, f, active) == s \in active /\ Group(f) \cap Registered(table) = {s}

OwnsChannel(s, f, active) == s \in active /\ f = Channel(s)

\* Common fields of no sensor or of several: the gateway's.
IsAggregate(f) == Group(f) # {} /\ Cardinality(Group(f) \cap Registered(table)) # 1

ReportOf(station, v) ==
    [station |-> station, field |-> v.field, origins |-> v.origins, total |-> v.total]

Split(active) ==
    (UNION {{ReportOf(Sensor(table, s), v) :
                s \in {s \in active : OwnsGroup(s, v.field, active)
                                    \/ OwnsChannel(s, v.field, active)}} : v \in values})
    \cup {ReportOf(Gateway, v) : v \in {v \in values : IsAggregate(v.field)}}
-----------------------------------------------------------------------------
(* Router.append with the counters of the gateway.                         *)

\* The reports of a station that has a counter, by the first in COUNTERS.
CounterOf(station, split) ==
    LET mine(c) == {r \in split : r.station = station /\ r.field[1] = c}
        found == {i \in DOMAIN Counters : mine(Counters[i]) # {}}
    IN IF found = {} THEN NoTotal
       ELSE LET r == CHOOSE r \in mine(Counters[Min(found)]) : TRUE
            IN [field |-> r.field[1], total |-> r.total]

\* Mutant: the counter is not told from another one.
RainSince_AnyField(old, new) ==
    IF old # NoTotal /\ new.total >= old.total THEN new.total - old.total ELSE 0

RainSince(old, new) ==
    IF old.field = new.field /\ new.total >= old.total THEN new.total - old.total ELSE 0

Appends(split) ==
    /\ reports' = split
    /\ counters' = [s \in Stations |->
                        LET new == CounterOf(s, split) IN IF new = NoTotal THEN counters[s] ELSE new]
    /\ credited' = [s \in Stations |->
                        LET new == CounterOf(s, split)
                        IN credited[s] + (IF new = NoTotal THEN 0 ELSE RainSince(counters[s], new))]

\* Mutant: the second reading of the table is for the batteries only.
Changed_Unasked == FALSE
\* gateway_inventory_changed
Changed == \E s \in Slots : before[s] # table[s]

\* A sensor whose signal is 0 is registered, and reports nothing.
ReadsAfter ==
    /\ poll = "after" /\ ~Changed
    /\ \E silent \in SUBSET Slots :
        Cardinality(silent) <= MaxSilent /\ Appends(Split(Registered(table) \ silent))
    /\ PollEnds
    /\ UNCHANGED <<gatewayVars, restored>>
-----------------------------------------------------------------------------
GatewayNext ==
    \/ ReadsMac \/ ReadsBefore \/ ReadsValues \/ ReadsRain \/ ReadsAfter \/ DropsPoll
    \/ Rains
    \/ \E s \in Slots : Registers(s)
    \/ \E c \in DOMAIN total : CounterResets(c)

GatewaySpec == GatewayInit /\ [][GatewayNext]_gwVars
-----------------------------------------------------------------------------
\* "Common outdoor fields are assigned only when exactly one registered sensor can
\* provide them ... so the collector never duplicates that value across candidate
\* sensors" (native-ingest-v3.md): no value of a snapshot is reported by two stations.
EachValueOnce ==
    \A r, q \in reports : r.field = q.field => r.station = q.station

\* "Inventory is read before and after a snapshot; an ID change discards that
\* snapshot": what is reported by a sensor was measured by that sensor and not by the
\* one before or after it in its slot - unless a slot of the field was changed and
\* changed back between the two readings, which they cannot tell.
ReadingsAreOwn ==
    \A r \in reports :
        r.station # Gateway /\ Suppliers(r.field) \cap restored = {} => r.origins = {r.station}

\* Whatever counters a firmware has or misses, and however they are reset, a
\* station is not credited with more rain than fell.
RainWithinFall == \A s \in Stations : credited[s] <= rained
=============================================================================
