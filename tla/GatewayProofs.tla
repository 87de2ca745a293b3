----------------------------- MODULE GatewayProofs -----------------------------
(***************************************************************************)
(* Proofs about GatewayReceiver, for every set of slots, ids and fields,   *)
(* and every number of changes and rainfalls, and about GatewayFrames, for *)
(* every number of fields, tags and values.                                *)
(***************************************************************************)
EXTENDS GatewayReceiver, GatewayFrames, SequenceTheorems, FiniteSetTheorems, TLAPS

\* A channel has a slot of its own, and none of GROUPS has its field.
LEMMA ChannelOfOne ==
    ASSUME NEW s \in 0..49, NEW t \in 0..49, Channel(s) = Channel(t), Channel(s) # <<"none", 0>>
    PROVE  s = t
BY DEF Channel

LEMMA ChannelIsNoGroup ==
    ASSUME NEW s \in 0..49 PROVE Group(Channel(s)) = {}
<1>1. Channel(s)[1] \in {"temp", "soilmoist", "pm25", "leak", "leafwet", "lightning", "none"}
      BY DEF Channel
<1>. QED BY <1>1 DEF Group

Entries == RadioIds \cup {Disabled}
Polls == {"mac", "before", "values", "rain", "after"}

\* The part of the types the properties need.
Tables ==
    /\ table \in [Slots -> Entries] /\ before \in [Slots -> Entries]
    /\ poll \in Polls
    /\ \A v \in values : v.field \in Offered
    /\ poll # "mac" => reports = {}

\* The slots of a field are as they were read, and have been all the time.
Steady(f) == \A s \in Suppliers(f) : s \notin restored /\ table[s] = before[s]

\* A value of such a field comes from the sensors that are in the table.
Snapshot ==
    poll \in {"rain", "after"} =>
        \A v \in values : Steady(v.field) => v.origins = Origins(v.field)

\* The field of no channel is never offered.
LEMMA OfferedIsNamed == ASSUME NEW f \in Offered PROVE f # <<"none", 0>>
BY GatewayAssumption DEF Offered, Common

\* The one owner of a field is the one sensor its value can come from.
LEMMA OwnerIsOrigin ==
    ASSUME NEW s \in Slots, NEW f \in Offered, NEW active \in SUBSET Registered(table),
           OwnsGroup(s, f, active) \/ OwnsChannel(s, f, active)
    PROVE  Suppliers(f) \cap Registered(table) = {s}
<1>. Registered(table) \subseteq Slots /\ Slots \subseteq 0..49
  BY GatewayAssumption DEF Registered
<1>1. CASE OwnsGroup(s, f, active)
  <2>1. Group(f) \cap Registered(table) = {s}
        BY <1>1 DEF OwnsGroup
  <2>2. \A t \in Slots : Channel(t) # f
        BY <2>1, ChannelIsNoGroup
  <2>. QED BY <2>1, <2>2 DEF Suppliers
<1>2. CASE OwnsChannel(s, f, active)
  <2>1. s \in Registered(table) /\ f = Channel(s)
        BY <1>2 DEF OwnsChannel
  <2>2. Group(f) = {}
        BY <2>1, ChannelIsNoGroup
  <2>3. \A t \in Slots : Channel(t) = f => t = s
        BY <2>1, OfferedIsNamed, ChannelOfOne
  <2>. QED BY <2>1, <2>2, <2>3 DEF Suppliers
<1>. QED BY <1>1, <1>2

\* What a report of split is made of.
LEMMA SplitParts ==
    ASSUME NEW active \in SUBSET Registered(table), NEW r \in Split(active)
    PROVE  \E v \in values :
              /\ r.field = v.field /\ r.origins = v.origins /\ r.total = v.total
              /\ \/ r.station = Gateway /\ IsAggregate(v.field)
                 \/ \E s \in Slots : /\ r.station = Sensor(table, s)
                                     /\ \/ OwnsGroup(s, v.field, active)
                                        \/ OwnsChannel(s, v.field, active)
<1>. DEFINE OfSensors(v) == {ReportOf(Sensor(table, s), v) :
                                s \in {s \in active : OwnsGroup(s, v.field, active)
                                                    \/ OwnsChannel(s, v.field, active)}}
            OfGateway == {ReportOf(Gateway, v) : v \in {v \in values : IsAggregate(v.field)}}
<1>0. r \in OfGateway \/ \E v \in values : r \in OfSensors(v)
      BY Zenon DEF Split
<1>1. CASE r \in OfGateway
      BY <1>1 DEF ReportOf
<1>2. CASE \E v \in values : r \in OfSensors(v)
  <2>1. PICK v \in values : r \in OfSensors(v)
        BY <1>2
  <2>2. PICK s \in active :
           /\ OwnsGroup(s, v.field, active) \/ OwnsChannel(s, v.field, active)
           /\ r = ReportOf(Sensor(table, s), v)
        BY <2>1
  <2>3. s \in Slots
        BY DEF Registered
  <2>. QED BY <2>2, <2>3 DEF ReportOf
<1>. QED BY <1>0, <1>1, <1>2

\* A sensor is not the gateway.
LEMMA SensorIsNotGateway == ASSUME NEW s \in Slots PROVE Sensor(table, s) # Gateway
BY GatewayAssumption DEF Sensor, Gateway

\* Split reports no field twice.
LEMMA SplitIsOnce ==
    ASSUME Tables, NEW active \in SUBSET Registered(table),
           NEW r \in Split(active), NEW q \in Split(active), r.field = q.field
    PROVE  r.station = q.station
<1>1. PICK v \in values :
         /\ r.field = v.field
         /\ \/ r.station = Gateway /\ IsAggregate(v.field)
            \/ \E s \in Slots : /\ r.station = Sensor(table, s)
                                /\ \/ OwnsGroup(s, v.field, active)
                                   \/ OwnsChannel(s, v.field, active)
      BY SplitParts
<1>2. PICK w \in values :
         /\ q.field = w.field
         /\ \/ q.station = Gateway /\ IsAggregate(w.field)
            \/ \E s \in Slots : /\ q.station = Sensor(table, s)
                                /\ \/ OwnsGroup(s, w.field, active)
                                   \/ OwnsChannel(s, w.field, active)
      BY SplitParts
<1>3. v.field = w.field /\ v.field \in Offered
      BY <1>1, <1>2 DEF Tables
<1>4. ASSUME NEW s \in Slots, OwnsGroup(s, v.field, active) \/ OwnsChannel(s, v.field, active)
      PROVE  ~IsAggregate(v.field)
  <2>1. CASE OwnsGroup(s, v.field, active)
        BY <2>1, FS_Singleton DEF OwnsGroup, IsAggregate
  <2>2. CASE OwnsChannel(s, v.field, active)
        BY <2>2, ChannelIsNoGroup, GatewayAssumption DEF OwnsChannel, IsAggregate
  <2>. QED BY <1>4, <2>1, <2>2
<1>5. ASSUME NEW s \in Slots, OwnsGroup(s, v.field, active) \/ OwnsChannel(s, v.field, active),
             NEW t \in Slots, OwnsGroup(t, v.field, active) \/ OwnsChannel(t, v.field, active)
      PROVE  s = t
  <2>1. /\ Suppliers(v.field) \cap Registered(table) = {s}
        /\ Suppliers(v.field) \cap Registered(table) = {t}
        BY <1>3, <1>5, OwnerIsOrigin
  <2>. QED BY <2>1
<1>. QED BY <1>1, <1>2, <1>3, <1>4, <1>5

\* What split reports of a sensor was measured by it.
LEMMA SplitIsOwn ==
    ASSUME Tables, NEW active \in SUBSET Registered(table), NEW r \in Split(active),
           r.station # Gateway, \A v \in values : v.field = r.field => v.origins = Origins(v.field)
    PROVE  r.origins = {r.station}
<1>1. PICK v \in values, s \in Slots :
         /\ r.field = v.field /\ r.origins = v.origins /\ r.station = Sensor(table, s)
         /\ OwnsGroup(s, v.field, active) \/ OwnsChannel(s, v.field, active)
      BY SplitParts
<1>2. Suppliers(v.field) \cap Registered(table) = {s}
      BY <1>1, OwnerIsOrigin DEF Tables
<1>3. v.origins = Origins(v.field)
      BY <1>1
<1>. QED BY <1>1, <1>2, <1>3 DEF Origins

-----------------------------------------------------------------------------
\* Every step keeps the tables and the snapshot, and reports own values once.
ReportsAreSound == Tables /\ Snapshot /\ EachValueOnce /\ ReadingsAreOwn

LEMMA AnswerIsOffered ==
    ASSUME NEW F \in SUBSET Offered, NEW v \in Answer(F)
    PROVE  v.field \in Offered /\ v.origins = Origins(v.field)
BY DEF Answer

\* The slots of a field decide where its value comes from.
LEMMA OriginsStay ==
    ASSUME NEW f, \A s \in Suppliers(f) : table'[s] = table[s]
    PROVE  Origins(f)' = Origins(f)
<1>1. Suppliers(f) \cap Registered(table') = Suppliers(f) \cap Registered(table)
  BY DEF Suppliers, Registered
<1>2. \A s \in Suppliers(f) : Sensor(table', s) = Sensor(table, s)
  BY DEF Sensor
<1> QED
  BY <1>1, <1>2, Zenon DEF Origins

LEMMA ReportsKept == ReportsAreSound /\ [GatewayNext]_gwVars => ReportsAreSound'
<1>. SUFFICES ASSUME ReportsAreSound, [GatewayNext]_gwVars PROVE ReportsAreSound'
  OBVIOUS
<1>. USE DEF ReportsAreSound, Polls
<1>0. ASSUME reports' = {} \/ (reports' = reports /\ restored' = restored)
      PROVE  EachValueOnce' /\ ReadingsAreOwn'
      BY <1>0 DEF EachValueOnce, ReadingsAreOwn
<1>1. CASE ReadsMac \/ ReadsBefore
  <2>1. /\ table' = table /\ values' = values /\ before' \in {before, table}
        /\ poll' \in {"before", "values"} /\ reports' = {}
        BY <1>1 DEF ReadsMac, ReadsBefore, Tables, gatewayVars, stationVars
  <2>2. Tables' /\ Snapshot'
        BY <2>1 DEF Tables, Snapshot
  <2>. QED BY <1>0, <2>1, <2>2
<1>3. CASE ReadsValues
  <2>1. PICK missing \in SUBSET {f \in Common : IsCounter(f)} :
           values' = Answer(Offered \ ({<<"p_rainyear", 0>>} \cup missing))
        BY <1>3 DEF ReadsValues
  <2>2. \A v \in values' : v.field \in Offered /\ v.origins = Origins(v.field)
        BY <2>1, AnswerIsOffered
  <2>3. UNCHANGED <<table, before, restored, reports>> /\ poll = "values" /\ poll' \in {"rain", "after"}
        BY <1>3 DEF ReadsValues, gatewayVars, stationVars
  <2>4. \A f : Origins(f)' = Origins(f)
        BY <2>3, OriginsStay
  <2>5. Tables'
        BY <2>2, <2>3 DEF Tables
  <2>6. Snapshot'
        BY <2>2, <2>4 DEF Snapshot
  <2>. QED BY <1>0, <2>3, <2>5, <2>6
<1>4. CASE ReadsRain
  <2>1. PICK shown \in SUBSET (Common \cap {<<"t_rainyear", 0>>, <<"p_rainyear", 0>>}) :
           values' = {v \in values : v.field \notin shown} \cup Answer(shown)
        BY <1>4 DEF ReadsRain
  <2>2. UNCHANGED <<table, before, restored, reports>> /\ poll = "rain" /\ poll' = "after"
        BY <1>4 DEF ReadsRain, gatewayVars, stationVars
  <2>3. \A v \in Answer(shown) : v.field \in Offered /\ v.origins = Origins(v.field)
        BY AnswerIsOffered DEF Offered
  <2>4. \A f : Origins(f)' = Origins(f)
        BY <2>2, OriginsStay
  <2>5. Tables'
        BY <2>1, <2>2, <2>3 DEF Tables
  <2>6. \A f : Steady(f)' <=> Steady(f)
        BY <2>2 DEF Steady
  <2>7. Snapshot'
        BY <2>1, <2>2, <2>3, <2>4, <2>6 DEF Snapshot
  <2>. QED BY <1>0, <2>2, <2>5, <2>7
<1>5. CASE ReadsAfter
  <2>1. PICK silent \in SUBSET Slots : reports' = Split(Registered(table) \ silent)
        BY <1>5 DEF ReadsAfter, Appends
  <2>0. restored' = restored
        BY <1>5 DEF ReadsAfter
  <2>2. ASSUME NEW r \in reports', r.station # Gateway, Suppliers(r.field) \cap restored = {}
        PROVE  r.origins = {r.station}
    <3>1. Steady(r.field)
          BY <1>5, <2>2 DEF ReadsAfter, Changed, Steady, Suppliers
    <3>2. \A v \in values : v.field = r.field => v.origins = Origins(v.field)
          BY <1>5, <3>1 DEF ReadsAfter, Snapshot
    <3>. QED BY <2>1, <2>2, <3>2, SplitIsOwn
  <2>3. EachValueOnce'
        BY <2>1, SplitIsOnce DEF EachValueOnce
  <2>4. ReadingsAreOwn'
        BY <2>0, <2>2 DEF ReadingsAreOwn
  <2>5. Tables' /\ Snapshot'
        BY <1>5 DEF ReadsAfter, PollEnds, Tables, Snapshot, Entries, gatewayVars
  <2>. QED BY <2>3, <2>4, <2>5
<1>6. CASE DropsPoll
  <2>1. /\ table' = table /\ values' = {} /\ before' \in [Slots -> Entries] /\ poll' = "mac"
        /\ reports' = reports /\ restored' = restored
        BY <1>6 DEF DropsPoll, PollEnds, Entries, gatewayVars, stationVars
  <2>2. Tables' /\ Snapshot'
        BY <2>1 DEF Tables, Snapshot
  <2>. QED BY <1>0, <2>1, <2>2
<1>7. CASE Rains \/ (\E c \in DOMAIN total : CounterResets(c)) \/ UNCHANGED gwVars
  <2>1. UNCHANGED <<table, poll, before, values, restored, reports>>
        BY <1>7 DEF Rains, CounterResets, pollVars, stationVars, gwVars, gatewayVars
  <2>2. \A f : Origins(f)' = Origins(f) /\ (Steady(f)' <=> Steady(f))
        BY <2>1, OriginsStay DEF Steady
  <2>3. Tables' /\ Snapshot'
        BY <2>1, <2>2 DEF Tables, Snapshot
  <2>. QED BY <1>0, <2>1, <2>3
<1>8. CASE \E s \in Slots : Registers(s)
  <2>1. PICK s \in Slots, id \in Entries :
           /\ table' = [table EXCEPT ![s] = id]
           /\ restored' = IF Reading /\ id = before[s] THEN restored \cup {s} ELSE restored
           /\ UNCHANGED <<poll, before, values, reports>>
        BY <1>8 DEF Registers, Entries, stationVars
  <2>2. Tables'
        BY <2>1 DEF Tables
  <2>3. ASSUME poll \in {"rain", "after"}, NEW f, Steady(f)'
        PROVE  s \notin Suppliers(f)
    <3>1. Reading
          BY <2>3 DEF Reading
    <3>2. s \in Suppliers(f) => s \notin restored' /\ table'[s] = before[s]
          BY <2>1, <2>3 DEF Steady, Suppliers
    <3>3. table'[s] = id
          BY <2>1 DEF Tables
    <3>. QED BY <2>1, <3>1, <3>2, <3>3
  <2>4. ASSUME poll \in {"rain", "after"}, NEW f, Steady(f)'
        PROVE  Steady(f) /\ Origins(f)' = Origins(f)
    <3>1. s \notin Suppliers(f) /\ Suppliers(f) \subseteq Slots
          BY <2>3, <2>4 DEF Suppliers
    <3>2. \A t \in Suppliers(f) : table'[t] = table[t]
          BY <2>1, <3>1 DEF Tables
    <3>3. restored \subseteq restored'
          BY <2>1
    <3>4. Suppliers(f)' = Suppliers(f)
          BY DEF Suppliers
    <3>5. \A t \in Suppliers(f) : t \notin restored' /\ table'[t] = before'[t]
          BY <2>4, <3>4 DEF Steady
    <3>6. Steady(f)
          BY <2>1, <3>2, <3>3, <3>5 DEF Steady
    <3>. QED BY <3>2, <3>6, OriginsStay
  <2>5. Snapshot'
        BY <2>1, <2>4 DEF Snapshot
  <2>6. EachValueOnce' /\ ReadingsAreOwn'
    <3>1. CASE poll = "mac"
          BY <1>0, <2>1, <3>1 DEF Reading
    <3>2. CASE poll # "mac"
          BY <1>0, <2>1, <3>2 DEF Tables
    <3>. QED BY <3>1, <3>2
  <2>. QED BY <2>2, <2>5, <2>6
<1>. QED BY <1>1, <1>3, <1>4, <1>5, <1>6, <1>7, <1>8 DEF GatewayNext

LEMMA ReportsStart == GatewayInit \/ GatewayOff => ReportsAreSound
<1>1. GatewayInit => ReportsAreSound
      BY DEF GatewayInit, ReportsAreSound, Tables, Entries, Polls, Snapshot, EachValueOnce,
             ReadingsAreOwn
<1>2. GatewayOff => ReportsAreSound
      BY DEF GatewayOff, ReportsAreSound, Tables, Entries, Polls, Snapshot, EachValueOnce,
             ReadingsAreOwn
<1>. QED BY <1>1, <1>2

\* The inductive invariant of a poll.
LEMMA ReportsInvariant == GatewaySpec => []ReportsAreSound
<1>. QED BY ReportsStart, ReportsKept, PTL DEF GatewaySpec

\* No value of a snapshot is reported by two stations.
THEOREM ValuesAreSplit == GatewaySpec => []EachValueOnce
<1>1. ReportsAreSound => EachValueOnce
      BY DEF ReportsAreSound
<1>. QED BY <1>1, ReportsInvariant, PTL

\* A sensor reports what it measured, whatever changes of the table the second reading
\* of it can tell: all but a slot that is changed and changed back.
THEOREM SensorsReportTheirOwn == GatewaySpec => []ReadingsAreOwn
<1>1. ReportsAreSound => ReadingsAreOwn
      BY DEF ReportsAreSound
<1>. QED BY <1>1, ReportsInvariant, PTL

-----------------------------------------------------------------------------
\* The rain.

RainTypes ==
    /\ rained \in Nat /\ total \in [DOMAIN FirstTotals -> Nat]
    /\ credited \in [Stations -> Nat] /\ \A s \in Stations : counters[s].total \in Nat
    /\ \A v \in values : v.field \in Offered /\ v.total \in Nat

\* What a station would still be credited with for a total n of the counter c.
Due(s, c, n) ==
    IF counters[s].field = c /\ n >= counters[s].total THEN n - counters[s].total ELSE 0

\* Neither the counter as it is now nor the values that were read would credit a station
\* with more than fell, nor would the rain that has fallen since they were read.
Covered ==
    \A s \in Stations :
        /\ credited[s] <= rained
        /\ \A c \in DOMAIN FirstTotals : credited[s] + Due(s, c, total[c]) <= rained
        /\ \A v \in values : IsCounter(v.field) =>
              /\ credited[s] + Due(s, v.field[1], v.total) <= rained
              /\ total[v.field[1]] >= v.total =>
                    credited[s] + total[v.field[1]] - v.total <= rained

RainIsCovered == RainTypes /\ Covered

\* A counter that is offered is one of the gateway's.
LEMMA CounterIsKept ==
    ASSUME NEW f \in Offered, IsCounter(f) PROVE f[1] \in DOMAIN FirstTotals
<1>1. CASE f \in Common
  <2>1. f[1] \in Fields /\ f = <<f[1], 0>>
        BY <1>1 DEF Common
  <2>. QED BY <2>1 DEF FirstTotals, IsCounter
<1>2. CASE f \notin Common
  <2>1. PICK s \in Slots : f = Channel(s)
        BY <1>2 DEF Offered
  <2>2. f[1] \in {"temp", "soilmoist", "pm25", "leak", "leafwet", "lightning", "none"}
        BY <2>1, GatewayAssumption DEF Channel
  <2>3. \A i \in DOMAIN Counters : Counters[i] \in {"t_raintotals", "t_rainyear", "p_rainyear"}
        BY DEF Counters
  <2>. QED BY <2>2, <2>3 DEF IsCounter
<1>. QED BY <1>1, <1>2

\* What a request gets.
LEMMA AnswerIsNow ==
    ASSUME RainTypes, NEW F \in SUBSET Offered, NEW v \in Answer(F)
    PROVE  /\ v.field \in Offered /\ v.total \in Nat
           /\ IsCounter(v.field) => v.total = total[v.field[1]]
<1>1. PICK f \in F :
        v = [field |-> f, origins |-> Origins(f), total |-> IF IsCounter(f) THEN total[f[1]] ELSE 0]
      BY DEF Answer
<1>2. IsCounter(f) => total[f[1]] \in Nat
      BY CounterIsKept DEF RainTypes
<1>. QED BY <1>1, <1>2

\* The counter of a station is one of the values.
LEMMA CounterIsAValue ==
    ASSUME NEW active \in SUBSET Registered(table), NEW station \in Stations,
           CounterOf(station, Split(active)) # NoTotal
    PROVE  \E v \in values : /\ IsCounter(v.field)
                            /\ CounterOf(station, Split(active))
                                  = [field |-> v.field[1], total |-> v.total]
<1>. DEFINE mine(c) == {r \in Split(active) : r.station = station /\ r.field[1] = c}
            found == {i \in DOMAIN Counters : mine(Counters[i]) # {}}
            chosen == CHOOSE r \in mine(Counters[Min(found)]) : TRUE
<1>1. found # {} /\ CounterOf(station, Split(active))
                      = [field |-> chosen.field[1], total |-> chosen.total]
      BY Zenon DEF CounterOf
<1>2. Min(found) \in found
  <2>1. found \subseteq {1, 2, 3}
        BY DEF Counters
  <2>2. \E x \in found : \A y \in found : x <= y
        BY <1>1, <2>1
  <2>. QED BY <2>2 DEF Min
<1>3. chosen \in mine(Counters[Min(found)])
      BY <1>2
<1>4. PICK v \in values : chosen.field = v.field /\ chosen.total = v.total
      BY <1>3, SplitParts
<1>5. IsCounter(chosen.field)
      BY <1>2, <1>3 DEF IsCounter
<1>. QED BY <1>1, <1>4, <1>5

\* Every step keeps the rain covered.
LEMMA RainKept == RainIsCovered /\ [GatewayNext]_gwVars => RainIsCovered'
<1>. SUFFICES ASSUME RainTypes, Covered, [GatewayNext]_gwVars PROVE RainIsCovered'
  BY DEF RainIsCovered
<1>1. ASSUME UNCHANGED <<rained, total, counters, credited>>, values' \subseteq values
      PROVE  RainIsCovered'
      BY <1>1 DEF RainIsCovered, RainTypes, Covered, Due
<1>2. ASSUME UNCHANGED <<rained, total, counters, credited>>, NEW F \in SUBSET Offered,
             values' \subseteq values \cup Answer(F)
      PROVE  RainIsCovered'
  <2>1. RainTypes'
        BY <1>2, AnswerIsNow DEF RainTypes
  <2>2. ASSUME NEW s \in Stations, NEW v \in Answer(F), IsCounter(v.field)
        PROVE  /\ credited[s] + Due(s, v.field[1], v.total) <= rained
               /\ total[v.field[1]] >= v.total =>
                     credited[s] + total[v.field[1]] - v.total <= rained
    <3>1. v.total = total[v.field[1]] /\ v.field[1] \in DOMAIN FirstTotals
          BY <2>2, AnswerIsNow, CounterIsKept
    <3>. QED BY <3>1 DEF Covered, RainTypes
  <2>3. \A s, c, n : Due(s, c, n)' = Due(s, c, n)
        BY <1>2 DEF Due
  <2>4. Covered'
        BY <1>2, <2>2, <2>3 DEF Covered
  <2>. QED BY <2>1, <2>4 DEF RainIsCovered
<1>3. CASE ReadsMac \/ ReadsBefore \/ DropsPoll \/ \E s \in Slots : Registers(s)
      BY <1>3, <1>1 DEF ReadsMac, ReadsBefore, DropsPoll, PollEnds, Registers, gatewayVars,
                        stationVars, pollVars
<1>4. CASE ReadsValues
      BY <1>4, <1>2 DEF ReadsValues, gatewayVars, stationVars
<1>5. CASE ReadsRain
  <2>1. PICK shown \in SUBSET Offered : values' \subseteq values \cup Answer(shown)
        BY <1>5 DEF ReadsRain, Offered
  <2>. QED BY <1>5, <1>2, <2>1 DEF ReadsRain, gatewayVars, stationVars
<1>6. CASE ReadsAfter
  <2>1. PICK silent \in SUBSET Slots : Appends(Split(Registered(table) \ silent))
        BY <1>6 DEF ReadsAfter
  <2>. DEFINE new(s) == CounterOf(s, Split(Registered(table) \ silent))
  <2>2. values' = {} /\ UNCHANGED <<rained, total>>
        BY <1>6 DEF ReadsAfter, PollEnds, gatewayVars
  <2>3. /\ counters' = [s \in Stations |-> IF new(s) = NoTotal THEN counters[s] ELSE new(s)]
        /\ credited' = [s \in Stations |-> credited[s] +
                           (IF new(s) = NoTotal THEN 0 ELSE RainSince(counters[s], new(s)))]
        BY <2>1 DEF Appends
  <2>4. ASSUME NEW s \in Stations
        PROVE  /\ credited'[s] \in Nat /\ counters'[s].total \in Nat /\ credited'[s] <= rained
               /\ \A c \in DOMAIN FirstTotals :
                     credited'[s] + (IF counters'[s].field = c /\ total[c] >= counters'[s].total
                                     THEN total[c] - counters'[s].total ELSE 0) <= rained
    <3>1. CASE new(s) = NoTotal
      <4>1. counters'[s] = counters[s] /\ credited'[s] = credited[s]
            BY <2>3, <3>1 DEF RainTypes
      <4>. QED BY <4>1 DEF RainTypes, Covered, Due
    <3>2. CASE new(s) # NoTotal
      <4>1. PICK v \in values :
               IsCounter(v.field) /\ new(s) = [field |-> v.field[1], total |-> v.total]
            BY <3>2, CounterIsAValue
      <4>2. v.field[1] \in DOMAIN FirstTotals /\ v.total \in Nat
            BY <4>1, CounterIsKept DEF RainTypes
      <4>3. counters'[s] = [field |-> v.field[1], total |-> v.total]
            BY <2>3, <3>2, <4>1
      <4>4. credited'[s] = credited[s] + Due(s, v.field[1], v.total)
            BY <2>3, <3>2, <4>1 DEF RainSince, Due
      <4>. HIDE DEF new
      <4>. QED BY <4>1, <4>2, <4>3, <4>4 DEF RainTypes, Covered, Due
    <3>. QED BY <3>1, <3>2
  <2>. HIDE DEF new
  <2>5. credited' \in [Stations -> Nat]
        BY <2>3, <2>4
  <2>. QED BY <2>2, <2>4, <2>5 DEF RainIsCovered, RainTypes, Covered, Due
<1>7. CASE Rains
  <2>1. /\ rained' = rained + 1 /\ total' = [c \in DOMAIN total |-> total[c] + 1]
        /\ UNCHANGED <<values, counters, credited>>
        BY <1>7 DEF Rains, pollVars, stationVars
  <2>2. \A c \in DOMAIN FirstTotals : total'[c] = total[c] + 1 /\ total[c] \in Nat
        BY <2>1 DEF RainTypes
  <2>3. \A v \in values : IsCounter(v.field) => v.field[1] \in DOMAIN FirstTotals
        BY CounterIsKept DEF RainTypes
  <2>4. RainTypes'
        BY <2>1 DEF RainTypes
  <2>5. Covered'
        BY <2>1, <2>2, <2>3 DEF RainTypes, Covered, Due
  <2>. QED BY <2>4, <2>5 DEF RainIsCovered
<1>8. CASE \E c \in DOMAIN total : CounterResets(c)
  <2>1. PICK c \in DOMAIN total :
           /\ total' = [total EXCEPT ![c] = 0]
           /\ UNCHANGED <<rained, values, counters, credited>>
        BY <1>8 DEF CounterResets, pollVars, stationVars
  <2>2. \A d \in DOMAIN FirstTotals : total'[d] = total[d] \/ total'[d] = 0
        BY <2>1 DEF RainTypes
  <2>3. \A v \in values : IsCounter(v.field) => v.field[1] \in DOMAIN FirstTotals
        BY CounterIsKept DEF RainTypes
  <2>4. RainTypes'
        BY <2>1 DEF RainTypes
  <2>5. Covered'
        BY <2>1, <2>2, <2>3 DEF RainTypes, Covered, Due
  <2>. QED BY <2>4, <2>5 DEF RainIsCovered
<1>9. CASE UNCHANGED gwVars
      BY <1>9, <1>1 DEF gwVars, gatewayVars, pollVars, stationVars
<1>. QED BY <1>3, <1>4, <1>5, <1>6, <1>7, <1>8, <1>9 DEF GatewayNext

-----------------------------------------------------------------------------
\* The types.

\* A registered sensor is a station, and so is what a value comes from.
LEMMA OriginsAreStations ==
    ASSUME table \in [Slots -> Entries]
    PROVE  /\ \A s \in Registered(table) : Sensor(table, s) \in Stations
           /\ \A f : Origins(f) \in SUBSET Stations
<1>1. ASSUME NEW s \in Registered(table) PROVE Sensor(table, s) \in Stations
  <2>1. s \in Slots /\ table[s] \in RadioIds
    BY DEF Registered, Entries
  <2> QED
    BY <2>1 DEF Sensor, Stations
<1>2. Gateway \in Stations
  BY DEF Stations
<1>3. ASSUME NEW f PROVE Origins(f) \in SUBSET Stations
  BY <1>1, <1>2 DEF Origins
<1> QED
  BY <1>1, <1>3

LEMMA AnswerIsTyped ==
    ASSUME table \in [Slots -> Entries], RainTypes, NEW F \in SUBSET Offered
    PROVE  Answer(F) \subseteq Value
<1> SUFFICES ASSUME NEW v \in Answer(F) PROVE v \in Value
  OBVIOUS
<1>1. PICK f \in F : v = [field |-> f, origins |-> Origins(f),
                          total |-> IF IsCounter(f) THEN total[f[1]] ELSE 0]
  BY DEF Answer
<1>2. v.total \in Nat
  BY AnswerIsNow
<1>3. Origins(f) \in SUBSET Stations
  BY OriginsAreStations
<1> QED
  BY <1>1, <1>2, <1>3 DEF Value

LEMMA SplitIsTyped ==
    ASSUME table \in [Slots -> Entries], values \subseteq Value,
           NEW active \in SUBSET Registered(table)
    PROVE  Split(active) \subseteq Report
<1>1. ASSUME NEW v \in values, NEW station \in Stations PROVE ReportOf(station, v) \in Report
  <2>1. v \in Value
    OBVIOUS
  <2> QED
    BY <2>1 DEF ReportOf, Value, Report
<1>2. ASSUME NEW s \in active PROVE Sensor(table, s) \in Stations
  BY OriginsAreStations
<1>3. Gateway \in Stations
  BY DEF Stations
<1> DEFINE OfSensors(v) == {ReportOf(Sensor(table, s), v) :
                               s \in {s \in active : OwnsGroup(s, v.field, active)
                                                   \/ OwnsChannel(s, v.field, active)}}
           OfGateway == {ReportOf(Gateway, v) : v \in {v \in values : IsAggregate(v.field)}}
<1>4. ASSUME NEW r \in Split(active) PROVE r \in OfGateway \/ \E v \in values : r \in OfSensors(v)
  BY Zenon DEF Split
<1>5. \A v \in values : OfSensors(v) \subseteq Report
  BY <1>1, <1>2
<1>6. OfGateway \subseteq Report
  BY <1>1, <1>3
<1> HIDE DEF OfSensors, OfGateway
<1> QED
  BY <1>4, <1>5, <1>6

GatewayInv == GatewayTypeOK /\ RainIsCovered

LEMMA GatewayKept == GatewayInv /\ [GatewayNext]_gwVars => GatewayInv'
<1> SUFFICES ASSUME GatewayTypeOK, RainIsCovered, [GatewayNext]_gwVars PROVE GatewayInv'
  BY DEF GatewayInv
<1>1. RainIsCovered' /\ RainTypes /\ RainTypes'
  BY RainKept DEF RainIsCovered
<1>2. /\ \A c \in DOMAIN total' : total'[c] \in Nat
      /\ \A s \in Stations : counters'[s].total \in Nat /\ credited'[s] \in Nat
  BY <1>1 DEF RainTypes
<1>3. table \in [Slots -> Entries] /\ before \in [Slots -> Entries]
  BY DEF GatewayTypeOK, Entries
<1>4. SUFFICES /\ table' \in [Slots -> Entries] /\ before' \in [Slots -> Entries]
               /\ rained' \in 0..MaxRain /\ changes' \in 0..MaxChanges /\ poll' \in Polls
               /\ values' \subseteq Value /\ reports' \subseteq Report /\ restored' \subseteq Slots
  BY <1>1, <1>2 DEF GatewayInv, GatewayTypeOK, Entries, Polls
<1>5. /\ rained \in 0..MaxRain /\ changes \in 0..MaxChanges /\ poll \in Polls
      /\ values \subseteq Value /\ reports \subseteq Report /\ restored \subseteq Slots
  BY DEF GatewayTypeOK, Polls
<1>6. {} \subseteq Value /\ {} \subseteq Report /\ Disabled \in Entries
  BY DEF Entries
<1>7. CASE ReadsMac \/ ReadsBefore \/ DropsPoll
  BY <1>3, <1>5, <1>6, <1>7 DEF ReadsMac, ReadsBefore, DropsPoll, PollEnds, Polls, gatewayVars, stationVars
<1>8. CASE ReadsValues
  <2>1. PICK missing \in SUBSET {f \in Common : IsCounter(f)} :
          values' = Answer(Offered \ ({<<"p_rainyear", 0>>} \cup missing))
    BY <1>8 DEF ReadsValues
  <2>2. values' \subseteq Value
    BY <1>1, <1>3, <2>1, AnswerIsTyped
  <2> QED
    BY <1>3, <1>5, <1>8, <2>2 DEF ReadsValues, Polls, gatewayVars, stationVars
<1>9. CASE ReadsRain
  <2>1. PICK shown \in SUBSET Offered : values' \subseteq values \cup Answer(shown)
    BY <1>9 DEF ReadsRain, Offered
  <2>2. Answer(shown) \subseteq Value
    BY <1>1, <1>3, <2>1, AnswerIsTyped
  <2> QED
    BY <1>3, <1>5, <1>9, <2>1, <2>2 DEF ReadsRain, Polls, gatewayVars, stationVars
<1>10. CASE ReadsAfter
  <2>1. PICK silent \in SUBSET Slots : reports' = Split(Registered(table) \ silent)
    BY <1>10 DEF ReadsAfter, Appends
  <2>2. reports' \subseteq Report
    BY <1>3, <1>5, <2>1, SplitIsTyped
  <2> QED
    BY <1>3, <1>5, <1>6, <1>10, <2>2 DEF ReadsAfter, PollEnds, Polls, gatewayVars
<1>11. CASE Rains \/ \E c \in DOMAIN total : CounterResets(c)
  BY <1>3, <1>5, <1>11, GatewayAssumption DEF Rains, CounterResets, pollVars, stationVars
<1>12. CASE \E s \in Slots : Registers(s)
  <2>1. PICK s \in Slots, id \in Entries : table' = [table EXCEPT ![s] = id]
    BY <1>12 DEF Registers, Entries
  <2> QED
    BY <1>3, <1>5, <1>12, <2>1, GatewayAssumption DEF Registers, pollVars, stationVars
<1>13. CASE UNCHANGED gwVars
  BY <1>3, <1>5, <1>13 DEF gwVars, gatewayVars, pollVars, stationVars
<1> QED
  BY <1>7, <1>8, <1>9, <1>10, <1>11, <1>12, <1>13 DEF GatewayNext

\* The counters before the first poll, and those of a worker of another kind.
LEMMA GatewayStarts == GatewayInit \/ GatewayOff => GatewayInv
<1> SUFFICES ASSUME GatewayInit \/ GatewayOff PROVE GatewayInv
  OBVIOUS
<1>1. ASSUME NEW c \in DOMAIN FirstTotals PROVE c # "none" /\ FirstTotals[c] \in Nat
  <2>1. PICK i \in DOMAIN Counters : c = Counters[i]
    BY DEF FirstTotals, IsCounter
  <2> QED
    BY <2>1 DEF FirstTotals, Counters
<1>2. FirstTotals \in [DOMAIN FirstTotals -> Nat]
  BY <1>1 DEF FirstTotals
<1>3. /\ total = FirstTotals /\ values = {} /\ reports = {} /\ restored = {} /\ rained \in 0..MaxRain
      /\ counters = [s \in Stations |-> NoTotal] /\ credited = [s \in Stations |-> 0]
      /\ changes \in 0..MaxChanges /\ poll = "mac"
  BY GatewayAssumption DEF GatewayInit, GatewayOff
<1>4. table \in [Slots -> Entries] /\ before \in [Slots -> Entries]
  <2>1. CASE GatewayInit
    BY <2>1 DEF GatewayInit, Entries
  <2>2. CASE GatewayOff
    BY <2>2 DEF GatewayOff, Entries
  <2> QED
    BY <2>1, <2>2
<1>5. RainTypes
  BY <1>2, <1>3, GatewayAssumption DEF RainTypes, NoTotal
<1>6. \A s \in Stations : counters[s].field = "none" /\ credited[s] = 0
  BY <1>3 DEF NoTotal
<1>7. Covered
  BY <1>1, <1>3, <1>6, GatewayAssumption DEF Covered, Due
<1>8. GatewayTypeOK
  BY <1>3, <1>4, <1>5 DEF GatewayTypeOK, RainTypes, Entries
<1> QED
  BY <1>5, <1>7, <1>8 DEF GatewayInv, RainIsCovered

\* The inductive invariant of the rain and the types.
THEOREM GatewayIsTyped == GatewaySpec => []GatewayInv
BY GatewayStarts, GatewayKept, PTL DEF GatewaySpec

LEMMA CreditIsCovered == GatewayInv => RainWithinFall
BY DEF GatewayInv, RainIsCovered, Covered, RainWithinFall

\* Whatever counters a firmware has or misses, and however often they are reset, no
\* station is credited with more rain than fell.
THEOREM RainIsWithinFall == GatewaySpec => []RainWithinFall
<1> QED
  BY GatewayIsTyped, CreditIsCovered, PTL


-----------------------------------------------------------------------------
(* The frames.                                                             *)

\* The decode functions of the tables.
Known ==
    {"humid", "distance", "temp", "press", "reserved", "wn34", "rain_reset", "long", "utc",
     "datetime", "batt", "wh45", "rain_gain", "wh46"}

LEMMA KnownIsDecoded ==
    ASSUME NEW t \in UInt(8), Structure(t) # "unknown" PROVE Structure(t) \in Known
<1>1. Live(t) \in Known \cup {"unknown"}
  BY DEF Live, Known
<1>2. Rain(t) \in Known \cup {"unknown"}
  BY DEF Rain, Known
<1> QED
  BY <1>1, <1>2 DEF Structure

LEMMA WidthIsPositive == ASSUME NEW fn \in Known PROVE Width(fn) \in 1..24
BY DEF Known, Width

\* The places of the values of a field lie within the field, and apart.
LEMMA PlacesAreApart ==
    ASSUME NEW fn \in Known
    PROVE  /\ DOMAIN Parts(fn) \subseteq Nat \ {0}
           /\ \A i \in DOMAIN Parts(fn) :
                /\ Parts(fn)[i] \in ValueKinds
                /\ Offset(i) \in Nat /\ Bytes(Parts(fn)[i]) \in {1, 2, 4}
                /\ Offset(i) + Bytes(Parts(fn)[i]) <= Width(fn)
           /\ \A i, k \in DOMAIN Parts(fn) :
                i < k => Offset(i) + Bytes(Parts(fn)[i]) <= Offset(k)
<1>1. CASE fn \in {"wh45", "wh46"}
  <2>1. PICK n \in {8, 12} : Parts(fn) = Station(n) /\ Width(fn) = 2 * n
    BY <1>1 DEF Parts, Width
  <2>2. DOMAIN Parts(fn) = 1..n
    BY <2>1 DEF Station
  <2>3. ASSUME NEW i \in 1..n
        PROVE  /\ Parts(fn)[i] = IF i = 1 THEN "signed" ELSE IF i = 2 THEN "byte" ELSE Sixteen
               /\ Offset(i) = IF i = 1 THEN 0 ELSE IF i = 2 THEN 2 ELSE 2 * i - 3
               /\ Bytes(Parts(fn)[i]) = IF i = 2 THEN 1 ELSE 2
    BY <2>1 DEF Station, Offset, Bytes, Sixteen
  <2>4. \A i \in 1..n : Parts(fn)[i] \in ValueKinds
    BY <2>3 DEF ValueKinds
  <2> QED
    BY <2>1, <2>2, <2>3, <2>4
<1>2. CASE fn \notin {"wh45", "wh46"}
  <2>1. \/ Parts(fn) = <<>>
        \/ \E kind \in ValueKinds : Parts(fn) = <<kind>> /\ Bytes(kind) <= Width(fn)
    BY <1>2 DEF Known, Parts, Width, ValueKinds, Sixteen, Bytes
  <2>2. \A kind \in ValueKinds : Bytes(kind) \in {1, 2, 4}
    BY DEF ValueKinds, Bytes
  <2>3. Offset(1) = 0
    BY DEF Offset
  <2> QED
    BY <2>1, <2>2, <2>3, WidthIsPositive
<1> QED
  BY <1>1, <1>2

\* A value the gateway may send.
IsSample(kind, v) == v \in Numbers(kind) \/ (kind \in {"distance", "utc"} /\ v = Absent)

LEMMA NumbersArePresent == ASSUME NEW v, 1 \in DOMAIN v PROVE v # Absent
<1>1. DOMAIN Absent = {}
  BY DEF Absent
<1> QED
  BY <1>1

\* The integers of eight and sixteen bits.
LEMMA ByteIs == ASSUME NEW n PROVE n \in UInt(8) <=> n \in Int /\ 0 <= n /\ n <= 255
<1>1. 2^8 = 256
  OBVIOUS
<1> QED
  BY <1>1 DEF UInt

LEMMA UnsignedIs == ASSUME NEW n PROVE n \in UInt(16) <=> n \in Int /\ 0 <= n /\ n <= 65535
<1>1. 2^16 = 65536
  OBVIOUS
<1> QED
  BY <1>1 DEF UInt

LEMMA SignedIs == ASSUME NEW n PROVE n \in SInt(16) <=> n \in Int /\ -32768 <= n /\ n <= 32767
<1>1. 2^(16 - 1) = 32768
  OBVIOUS
<1> QED
  BY <1>1 DEF SInt

\* The two bytes of a number.
LEMMA TwoBytes ==
    ASSUME NEW n \in Int, -32768 <= n, n <= 65535
    PROVE  /\ (n % 65536) \div 256 \in UInt(8) /\ n % 256 \in UInt(8)
           /\ 256 * ((n % 65536) \div 256) + (n % 256) = IF n >= 0 THEN n ELSE n + 65536
<1> DEFINE m == n % 65536
<1>1. m = IF n >= 0 THEN n ELSE n + 65536
  <2>1. CASE n >= 0
    BY <2>1, SMT
  <2>2. CASE n < 0
    BY <2>2, SMT
  <2> QED
    BY <2>1, <2>2
<1>2. n % 256 = m % 256
  BY SMT
<1>3. m \in Nat /\ m <= 65535
  BY <1>1
<1> HIDE DEF m
<1>4. m % 256 \in UInt(8)
  BY <1>3, ByteIs
<1>5. m = 256 * (m \div 256) + (m % 256)
  BY <1>3, SMT
<1>6. m \div 256 \in UInt(8)
  BY <1>3, ByteIs
<1> QED
  BY <1>1, <1>2, <1>4, <1>5, <1>6 DEF m

\* What a value is sent as has the bytes of its kind, and is read as that value.
IsReadBack(kind, v) ==
    /\ Encode(kind, v) \in [1..Bytes(kind) -> UInt(8)]
    /\ IsNone(kind, Encode(kind, v)) <=> v = Absent
    /\ v # Absent => Unpack(kind, Encode(kind, v)) = v

LEMMA ByteIsReadBack == ASSUME NEW v, IsSample("byte", v) PROVE IsReadBack("byte", v)
<1>1. v \in [1..1 -> UInt(8)]
  BY DEF IsSample, Numbers, Sixteen
<1>2. Encode("byte", v) = v /\ Bytes("byte") = 1 /\ Unpack("byte", v) = v
  BY DEF Encode, Bytes, Unpack, Sixteen
<1>3. ~IsNone("byte", v)
  BY DEF IsNone
<1>4. v # Absent
  BY <1>1, NumbersArePresent
<1> QED
  BY <1>1, <1>2, <1>3, <1>4 DEF IsReadBack

LEMMA DistanceIsReadBack == ASSUME NEW v, IsSample("distance", v) PROVE IsReadBack("distance", v)
<1>1. Bytes("distance") = 1
  BY DEF Bytes, Sixteen
<1>2. CASE v = Absent
  <2>1. Encode("distance", v) = <<255>>
    BY <1>2 DEF Encode, Sixteen
  <2>2. <<255>> \in [1..1 -> UInt(8)]
    BY ByteIs
  <2>3. IsNone("distance", <<255>>)
    BY DEF IsNone
  <2> QED
    BY <1>1, <1>2, <2>1, <2>2, <2>3, ZenonT(30) DEF IsReadBack
<1>3. CASE v # Absent
  <2>1. v \in [1..1 -> 0..40]
    BY <1>3 DEF IsSample, Numbers, Sixteen
  <2>2. Encode("distance", v) = v /\ Unpack("distance", v) = v
    BY <1>3 DEF Encode, Unpack, Sixteen
  <2>3. ~IsNone("distance", v)
    BY <2>1 DEF IsNone
  <2>4. v \in [1..1 -> UInt(8)]
    BY <2>1, ByteIs
  <2> QED
    BY <1>1, <1>3, <2>2, <2>3, <2>4 DEF IsReadBack
<1> QED
  BY <1>2, <1>3

LEMMA TimeIsReadBack == ASSUME NEW v, IsSample("utc", v) PROVE IsReadBack("utc", v)
<1>1. Bytes("utc") = 4
  BY DEF Bytes, Sixteen
<1>2. CASE v = Absent
  <2>1. Encode("utc", v) = <<255, 255, 255, 255>>
    BY <1>2 DEF Encode, Sixteen
  <2>2. <<255, 255, 255, 255>> \in [1..4 -> UInt(8)]
    BY ByteIs
  <2>3. IsNone("utc", <<255, 255, 255, 255>>)
    BY DEF IsNone
  <2> QED
    BY <1>1, <1>2, <2>1, <2>2, <2>3, ZenonT(30) DEF IsReadBack
<1>3. CASE v # Absent
  <2>1. v \in [1..4 -> UInt(8)] /\ v # <<255, 255, 255, 255>>
    BY <1>3 DEF IsSample, Numbers, Sixteen
  <2>2. Encode("utc", v) = v /\ Unpack("utc", v) = v
    BY <1>3 DEF Encode, Unpack, Sixteen
  <2>3. ~IsNone("utc", v)
    BY <2>1 DEF IsNone
  <2> QED
    BY <1>1, <1>3, <2>1, <2>2, <2>3, ZenonT(30) DEF IsReadBack
<1> QED
  BY <1>2, <1>3

LEMMA LongIsReadBack == ASSUME NEW v, IsSample("long", v) PROVE IsReadBack("long", v)
<1>1. v \in [1..4 -> UInt(8)]
  BY DEF IsSample, Numbers, Sixteen
<1>2. v # Absent
  BY <1>1, NumbersArePresent
<1>3. Encode("long", v) = v /\ Bytes("long") = 4 /\ Unpack("long", v) = v
  BY <1>2 DEF Encode, Bytes, Unpack, Sixteen
<1>4. ~IsNone("long", v)
  BY DEF IsNone
<1> QED
  BY <1>1, <1>2, <1>3, <1>4 DEF IsReadBack

LEMMA OneNumber == ASSUME NEW v, DOMAIN v = 1..1, v = [i \in 1..1 |-> v[i]] PROVE v = <<v[1]>>
<1>1. DOMAIN <<v[1]>> = 1..1 /\ <<v[1]>>[1] = v[1]
  OBVIOUS
<1> QED
  BY <1>1

LEMMA SignedIsReadBack == ASSUME NEW v, IsSample("signed", v) PROVE IsReadBack("signed", v)
<1> DEFINE hi == (v[1] % 65536) \div 256
           lo == v[1] % 256
<1>1. v \in [1..1 -> SInt(16)]
  BY DEF IsSample, Numbers, Sixteen
<1>2. v # Absent
  BY <1>1, NumbersArePresent
<1>3. v = <<v[1]>>
  <2>1. DOMAIN v = 1..1 /\ v = [i \in 1..1 |-> v[i]]
    BY <1>1
  <2> QED
    BY <2>1, OneNumber
<1>4. v[1] \in SInt(16)
  BY <1>1
<1>5. v[1] \in Int /\ -32768 <= v[1] /\ v[1] <= 32767
  BY <1>4, SignedIs
<1>12. hi \in UInt(8) /\ lo \in UInt(8) /\ 256 * hi + lo = IF v[1] >= 0 THEN v[1] ELSE v[1] + 65536
  BY <1>5, TwoBytes
<1>6. Encode("signed", v) = <<hi, lo>> /\ Bytes("signed") = 2
  BY DEF Encode, Bytes, Sixteen
<1> HIDE DEF hi, lo
<1>7. ~IsNone("signed", <<hi, lo>>)
  BY DEF IsNone
<1>8. Unpack("signed", <<hi, lo>>) = <<Signed(<<hi, lo>>)>>
  BY DEF Unpack, Sixteen
<1>9. Signed(<<hi, lo>>) = v[1]
  BY <1>5, <1>12, ByteIs DEF Signed
<1>10. <<hi, lo>> \in [1..2 -> UInt(8)]
  BY <1>12
<1>11. Unpack("signed", <<hi, lo>>) = v
  BY <1>3, <1>8, <1>9
<1> QED
  BY <1>2, <1>6, <1>7, <1>10, <1>11 DEF IsReadBack

LEMMA UnsignedIsReadBack == ASSUME NEW v, IsSample(Sixteen, v) PROVE IsReadBack(Sixteen, v)
<1> DEFINE hi == (v[1] % 65536) \div 256
           lo == v[1] % 256
<1>1. v \in [1..1 -> UInt(16)]
  BY DEF IsSample, Numbers, Sixteen
<1>2. v # Absent
  BY <1>1, NumbersArePresent
<1>3. v = <<v[1]>>
  <2>1. DOMAIN v = 1..1 /\ v = [i \in 1..1 |-> v[i]]
    BY <1>1
  <2> QED
    BY <2>1, OneNumber
<1>4. v[1] \in UInt(16)
  BY <1>1
<1>5. hi \in UInt(8) /\ lo \in UInt(8) /\ 256 * hi + lo = v[1]
  <2>1. v[1] \in Int /\ 0 <= v[1] /\ v[1] <= 65535
    BY <1>4, UnsignedIs
  <2> QED
    BY <2>1, TwoBytes
<1>6. Encode(Sixteen, v) = <<hi, lo>> /\ Bytes(Sixteen) = 2
  BY DEF Encode, Bytes, Sixteen
<1> HIDE DEF hi, lo
<1>7. ~IsNone(Sixteen, <<hi, lo>>)
  BY DEF IsNone, Sixteen
<1>8. Unpack(Sixteen, <<hi, lo>>) = <<256 * hi + lo>>
  BY DEF Unpack, Sixteen
<1>9. <<hi, lo>> \in [1..2 -> UInt(8)]
  BY <1>5
<1>10. Unpack(Sixteen, <<hi, lo>>) = v
  BY <1>3, <1>5, <1>8
<1> QED
  BY <1>2, <1>6, <1>7, <1>9, <1>10 DEF IsReadBack

LEMMA EncodedIsUnpacked ==
    ASSUME NEW kind \in ValueKinds, NEW v, IsSample(kind, v) PROVE IsReadBack(kind, v)
BY ByteIsReadBack, DistanceIsReadBack, SignedIsReadBack, UnsignedIsReadBack, LongIsReadBack, TimeIsReadBack
DEF ValueKinds

\* The values of a field whose decode function is fn.
AreSamples(fn, given) ==
    /\ DOMAIN given = DOMAIN Parts(fn)
    /\ \A i \in DOMAIN given : IsSample(Parts(fn)[i], given[i])

LEMMA SequenceIs ==
    ASSUME NEW S, NEW n \in Nat, NEW s \in [1..n -> S] PROVE s \in Seq(S) /\ Len(s) = n
OBVIOUS

LEMMA SliceIs ==
    ASSUME NEW S, NEW s \in Seq(S), NEW o \in Nat, NEW n \in Nat, o + n <= Len(s)
    PROVE  SubSeq(s, o + 1, o + n) = [j \in 1..n |-> s[o + j]]
<1> DEFINE t == SubSeq(s, o + 1, o + n)
<1>1. t \in Seq(S) /\ Len(t) = n /\ \A j \in 1..n : t[j] = s[o + j]
  <2>1. Len(s) \in Nat
    BY LenProperties
  <2>2. \A i \in (o + 1)..(o + n) : i \in 1..Len(s) /\ s[i] \in S
    BY <2>1, ElementOfSeq
  <2>3. t \in Seq(S) /\ Len(t) = IF o + 1 <= o + n THEN o + n - (o + 1) + 1 ELSE 0
    BY <2>1, <2>2, SubSeqProperties
  <2>4. ASSUME NEW j \in 1..n PROVE t[j] = s[o + j]
    <3>1. t[j] = s[o + 1 + j - 1]
      BY <2>1, <2>2, <2>4, SubSeqProperties
    <3>2. o + 1 + j - 1 = o + j
      OBVIOUS
    <3> HIDE DEF t
    <3> QED
      BY <3>1, <3>2
  <2>5. Len(t) = n
    BY <2>3
  <2> HIDE DEF t
  <2> QED
    BY <2>3, <2>4, <2>5
<1> HIDE DEF t
<1>2. t = [j \in 1..n |-> s[o + j]]
  <2>1. DOMAIN t = 1..n /\ t = [j \in DOMAIN t |-> t[j]]
    BY <1>1
  <2> QED
    BY <1>1, <2>1
<1> QED
  BY <1>2 DEF t

LEMMA JoinedIs ==
    ASSUME NEW S, NEW p \in Seq(S), NEW q \in Seq(S)
    PROVE  /\ p \o q \in Seq(S) /\ Len(p \o q) = Len(p) + Len(q)
           /\ \A k \in 1..Len(p) : (p \o q)[k] = p[k]
           /\ \A j \in 1..Len(q) : (p \o q)[Len(p) + j] = q[j]
<1>1. Len(p) \in Nat /\ Len(q) \in Nat
  BY LenProperties
<1> QED
  BY <1>1, ConcatProperties

LEMMA LayoutIsTyped ==
    ASSUME NEW fn \in Known, NEW given, AreSamples(fn, given)
    PROVE  /\ Layout(fn, given) \in Seq(UInt(8)) /\ Len(Layout(fn, given)) = Width(fn)
           /\ Width(fn) \in 1..24
<1>1. Width(fn) \in 1..24
  BY WidthIsPositive
<1>2. ASSUME NEW j \in 1..Width(fn) PROVE Layout(fn, given)[j] \in UInt(8)
  <2>1. CASE \E i \in DOMAIN given : j \in Places(fn, i)
    <3> DEFINE i == CHOOSE i \in DOMAIN given : j \in Places(fn, i)
    <3>1. i \in DOMAIN Parts(fn) /\ j \in Places(fn, i)
      BY <2>1 DEF AreSamples
    <3>2. Layout(fn, given)[j] = Encode(Parts(fn)[i], given[i])[j - Offset(i)]
      BY <2>1 DEF Layout
    <3> HIDE DEF i
    <3>3. Parts(fn)[i] \in ValueKinds /\ Offset(i) \in Nat /\ Bytes(Parts(fn)[i]) \in {1, 2, 4}
      BY <3>1, PlacesAreApart
    <3>4. Encode(Parts(fn)[i], given[i]) \in [1..Bytes(Parts(fn)[i]) -> UInt(8)]
      BY <3>1, <3>3, EncodedIsUnpacked DEF AreSamples, IsReadBack
    <3>5. j - Offset(i) \in 1..Bytes(Parts(fn)[i])
      BY <1>1, <3>1, <3>3 DEF Places
    <3> QED
      BY <3>2, <3>4, <3>5
  <2>2. CASE ~\E i \in DOMAIN given : j \in Places(fn, i)
    <3>1. Layout(fn, given)[j] = 7
      BY <2>2 DEF Layout
    <3> QED
      BY <3>1, ByteIs
  <2> QED
    BY <2>1, <2>2
<1>3. Layout(fn, given) \in [1..Width(fn) -> UInt(8)]
  <2>1. DOMAIN Layout(fn, given) = 1..Width(fn)
    BY DEF Layout
  <2>2. Layout(fn, given) = [j \in 1..Width(fn) |-> Layout(fn, given)[j]]
    BY DEF Layout
  <2> QED
    BY <1>2, <2>1, <2>2
<1>4. Width(fn) \in Nat
  BY <1>1
<1>5. Layout(fn, given) \in Seq(UInt(8)) /\ Len(Layout(fn, given)) = Width(fn)
  BY <1>3, <1>4, SequenceIs
<1> QED
  BY <1>1, <1>5

\* A value is found where it was put.
LEMMA PartIsEncoded ==
    ASSUME NEW fn \in Known, NEW given, AreSamples(fn, given), NEW i \in DOMAIN given
    PROVE  Part(fn, i, Layout(fn, given)) = Encode(Parts(fn)[i], given[i])
<1> DEFINE data == Layout(fn, given)
           e == Encode(Parts(fn)[i], given[i])
           n == Bytes(Parts(fn)[i])
<1>1. i \in DOMAIN Parts(fn) /\ i \in Nat
  BY PlacesAreApart DEF AreSamples
<1>2. Parts(fn)[i] \in ValueKinds /\ Offset(i) \in Nat /\ n \in {1, 2, 4} /\ Offset(i) + n <= Width(fn)
  BY <1>1, PlacesAreApart
<1>3. e \in [1..n -> UInt(8)]
  BY <1>2, EncodedIsUnpacked DEF AreSamples, IsReadBack
<1>4. Width(fn) \in Nat
  BY WidthIsPositive
<1>5. ASSUME NEW j \in 1..n PROVE data[Offset(i) + j] = e[j]
  <2>1. PICK p : p = Offset(i) + j
    OBVIOUS
  <2>2. p \in 1..Width(fn) /\ p \in Places(fn, i)
    BY <1>2, <1>4, <2>1 DEF Places
  <2> DEFINE c == CHOOSE c \in DOMAIN given : p \in Places(fn, c)
  <2>3. c \in DOMAIN given /\ p \in Places(fn, c)
    BY <2>2
  <2>4. data[p] = Encode(Parts(fn)[c], given[c])[p - Offset(c)]
    BY <2>2 DEF Layout
  <2> HIDE DEF c
  <2>5. c \in DOMAIN Parts(fn) /\ c \in Nat /\ Offset(c) \in Nat /\ Bytes(Parts(fn)[c]) \in {1, 2, 4}
    BY <2>3, PlacesAreApart DEF AreSamples
  <2>6. Offset(c) + 1 <= p /\ p <= Offset(c) + Bytes(Parts(fn)[c])
    BY <1>2, <2>3, <2>5 DEF Places
  <2>7. ~(c < i) /\ ~(i < c)
    <3>1. c < i => Offset(c) + Bytes(Parts(fn)[c]) <= Offset(i)
      BY <1>1, <2>5, PlacesAreApart
    <3>2. i < c => Offset(i) + n <= Offset(c)
      BY <1>1, <2>5, PlacesAreApart
    <3> QED
      BY <1>2, <2>1, <2>5, <2>6, <3>1, <3>2
  <2>8. c = i
    BY <1>1, <2>5, <2>7
  <2> QED
    BY <1>2, <2>1, <2>4, <2>8
<1>6. Part(fn, i, data) = [j \in 1..n |-> data[Offset(i) + j]]
  <2>1. data \in Seq(UInt(8)) /\ Len(data) = Width(fn)
    BY LayoutIsTyped
  <2> HIDE DEF data, n
  <2>2. Part(fn, i, data) = SubSeq(data, Offset(i) + 1, Offset(i) + n)
    BY DEF Part, n
  <2>3. PICK d \in Seq(UInt(8)), o \in Nat, m \in Nat : d = data /\ o = Offset(i) /\ m = n
    BY <1>2, <2>1
  <2>4. o + m <= Len(d)
    BY <1>2, <2>1, <2>3
  <2>5. SubSeq(d, o + 1, o + m) = [j \in 1..m |-> d[o + j]]
    BY <2>4, SliceIs
  <2> QED
    BY <2>2, <2>3, <2>5
<1>7. e = [j \in 1..n |-> e[j]]
  BY <1>3
<1> HIDE DEF data, e, n
<1> QED
  BY <1>5, <1>6, <1>7 DEF data, e

\* What is decoded of the data of a field is what the field means.
LEMMA DecodedIsMeant ==
    ASSUME NEW f, Structure(f.tag) \in Known, AreSamples(Structure(f.tag), f.values)
    PROVE  /\ Decode(f.tag, DataOf(f)) = Meant(f)
           /\ \A d \in Meant(f) : d[3] \in Numbers(d[2])
<1> DEFINE fn == Structure(f.tag)
<1>1. DataOf(f) = Layout(fn, f.values)
  BY DEF DataOf, Known
<1>2. Len(DataOf(f)) = Width(fn)
  BY <1>1, LayoutIsTyped
<1>3. DOMAIN f.values = DOMAIN Parts(fn)
  BY DEF AreSamples
<1>4. ASSUME NEW i \in DOMAIN f.values
      PROVE  /\ IsNone(Parts(fn)[i], Part(fn, i, DataOf(f))) <=> f.values[i] = Absent
             /\ f.values[i] # Absent => Unpack(Parts(fn)[i], Part(fn, i, DataOf(f))) = f.values[i]
             /\ f.values[i] # Absent => f.values[i] \in Numbers(Parts(fn)[i])
  <2>1. Part(fn, i, DataOf(f)) = Encode(Parts(fn)[i], f.values[i])
    BY <1>1, PartIsEncoded
  <2>2. Parts(fn)[i] \in ValueKinds
    BY <1>3, PlacesAreApart
  <2>3. IsSample(Parts(fn)[i], f.values[i])
    BY DEF AreSamples
  <2> QED
    BY <2>1, <2>2, <2>3, EncodedIsUnpacked DEF IsReadBack, IsSample
<1> HIDE DEF fn
<1>5. Decode(f.tag, DataOf(f)) =
        {<<Name(f.tag, i), Parts(fn)[i], Unpack(Parts(fn)[i], Part(fn, i, DataOf(f)))>> :
            i \in {i \in DOMAIN Parts(fn) : ~IsNone(Parts(fn)[i], Part(fn, i, DataOf(f)))}}
  BY <1>2 DEF Decode, fn
<1>6. Meant(f) = {<<Name(f.tag, i), Parts(fn)[i], f.values[i]>> : i \in {i \in DOMAIN f.values : f.values[i] # Absent}}
  BY DEF Meant, fn
<1>7. {i \in DOMAIN Parts(fn) : ~IsNone(Parts(fn)[i], Part(fn, i, DataOf(f)))}
        = {i \in DOMAIN f.values : f.values[i] # Absent}
  BY <1>3, <1>4
<1> QED
  BY <1>4, <1>5, <1>6, <1>7

-----------------------------------------------------------------------------
\* What the gateway may send.
SentFields == {Field(t, n) : t \in SentTags, n \in DOMAIN Samples}

LEMMA FieldIs ==
    ASSUME NEW f \in SentFields
    PROVE  /\ f.tag \in UInt(8)
           /\ DataOf(f) \in Seq(UInt(8)) /\ Len(DataOf(f)) \in Nat \ {0}
           /\ Structure(f.tag) # "unknown" =>
                /\ Structure(f.tag) \in Known /\ AreSamples(Structure(f.tag), f.values)
                /\ Len(DataOf(f)) = Width(Structure(f.tag))
<1>1. PICK t \in SentTags, n \in DOMAIN Samples : f = Field(t, n)
  BY DEF SentFields
<1> DEFINE fn == Structure(t)
<1>2. f.tag = t /\ t \in UInt(8)
  BY <1>1, FrameAssumption DEF Field
<1>3. CASE fn = "unknown"
  <2>1. DataOf(f) = <<7>>
    BY <1>2, <1>3 DEF DataOf
  <2>2. 7 \in UInt(8)
    BY ByteIs
  <2>3. <<7>> \in Seq(UInt(8)) /\ Len(<<7>>) = 1
    BY <2>2
  <2> QED
    BY <1>2, <1>3, <2>1, <2>3
<1>4. CASE fn # "unknown"
  <2>1. fn \in Known
    BY <1>2, <1>4, KnownIsDecoded
  <2>2. f.values = [i \in DOMAIN Parts(fn) |-> Samples[n][Parts(fn)[i]]]
    BY <1>1, <1>4 DEF Field
  <2>3. \A i \in DOMAIN Parts(fn) : Parts(fn)[i] \in ValueKinds
    BY <2>1, PlacesAreApart
  <2>4. ASSUME NEW kind \in ValueKinds PROVE IsSample(kind, Samples[n][kind])
    BY <1>1, FrameAssumption DEF IsSample
  <2> HIDE DEF fn
  <2>5. AreSamples(fn, f.values)
    BY <2>2, <2>3, <2>4 DEF AreSamples
  <2>6. DataOf(f) = Layout(fn, f.values)
    BY <1>2, <1>4 DEF DataOf, fn
  <2>7. Len(DataOf(f)) = Width(fn) /\ DataOf(f) \in Seq(UInt(8)) /\ Width(fn) \in 1..24
    BY <2>1, <2>5, <2>6, LayoutIsTyped
  <2> QED
    BY <1>2, <2>1, <2>5, <2>7, SMTT(20) DEF fn
<1> QED
  BY <1>3, <1>4

\* The tables are those of the command.
LEMMA SameTables ==
    ASSUME command' = command
    PROVE  /\ \A t : Structure(t)' = Structure(t)
           /\ \A f : DataOf(f)' = DataOf(f) /\ Meant(f)' = Meant(f)
           /\ SentFields' = SentFields
<1>1. \A t : Structure(t)' = Structure(t)
  BY DEF Structure
<1>2. \A f : DataOf(f)' = DataOf(f)
  BY <1>1 DEF DataOf
<1>3. \A f : Meant(f)' = Meant(f)
  BY <1>1 DEF Meant
<1>4. \A t, n : Field(t, n)' = Field(t, n)
  BY <1>1 DEF Field
<1>5. SentFields' = SentFields
  BY <1>4 DEF SentFields
<1> QED
  BY <1>1, <1>2, <1>3, <1>5

\* Field k begins at byte at[k] of what the gateway puts together; the frame may end
\* anywhere.
IsPlaced(at) ==
    /\ at \in [1..Len(fields) + 1 -> Nat \ {0}] /\ at[1] = 1
    /\ \A i, j \in 1..(Len(fields) + 1) : i < j => at[i] < at[j]
    /\ \A k \in 1..Len(fields) :
         /\ at[k + 1] = at[k] + 1 + Len(DataOf(fields[k])) /\ ends[k] = at[k + 1] - 1
         /\ at[k] <= Len(payload) => payload[at[k]] = fields[k].tag
         /\ \A j \in 1..Len(DataOf(fields[k])) :
              at[k] + j <= Len(payload) => payload[at[k] + j] = DataOf(fields[k])[j]

EndsAt(at, k) == at[k] = Len(payload) + 1

\* What the scan knows of the fields before k, and what the parser has read of them.
AreAccepted(k) ==
    /\ seen = {fields[i].tag : i \in 1..(k - 1)}
    /\ \A i \in 1..(k - 1) :
         Structure(fields[i].tag) # "unknown" /\ \A j \in 1..(i - 1) : fields[i].tag # fields[j].tag

AreRead(k) == decoded = UNION {Kept(i, 1..(k - 1)) : i \in 1..(k - 1)}

IsScanned(at) ==
    /\ stage = "composing" => EndsAt(at, Len(fields) + 1)
    /\ at[Len(fields) + 1] >= Len(payload) + 1
    /\ stage \in {"composing", "connected"} => index = 1 /\ seen = {}
    /\ stage \in {"composing", "connected", "scan"} => decoded = {}
    /\ stage = "scan" => \E k \in 1..(Len(fields) + 1) : index = at[k] /\ AreAccepted(k)
    /\ stage \in {"parse", "accepted"} => \E m \in 1..(Len(fields) + 1) :
         /\ EndsAt(at, m) /\ AreAccepted(m)
         /\ stage = "parse" => \E k \in 1..m : index = at[k] /\ AreRead(k)
         /\ stage = "accepted" => AreRead(m)

FrameTypes ==
    /\ command \in {39, 87}
    /\ fields \in Seq(SentFields)
    /\ payload \in Seq(UInt(8))
    /\ ends \in Seq(Nat) /\ Len(ends) = Len(fields)
    /\ stage \in {"composing", "connected", "scan", "parse", "accepted", "refused"}
    /\ index \in 1..(Len(payload) + 1) /\ seen \subseteq UInt(8)
    /\ \A d \in decoded : d[3] \in Numbers(d[2])

FrameInv == FrameTypes /\ (stage # "refused" => \E at : IsPlaced(at) /\ IsScanned(at))

LEMMA FramesBegin == FrameInit => FrameInv
<1> SUFFICES ASSUME FrameInit PROVE FrameInv
  OBVIOUS
<1> USE DEF FrameInit
<1>1. FrameTypes
  BY EmptySeq DEF FrameTypes
<1> DEFINE at == [k \in 1..1 |-> 1]
<1>2. Len(fields) = 0 /\ Len(payload) = 0
  OBVIOUS
<1>3. IsPlaced(at)
  BY <1>2 DEF IsPlaced
<1>4. IsScanned(at)
  BY <1>2 DEF IsScanned, EndsAt
<1> QED
  BY <1>1, <1>3, <1>4 DEF FrameInv

\* The worker of another kind of receiver.
LEMMA FramesAreOff == FrameOff => FrameInv
<1> SUFFICES ASSUME FrameOff PROVE FrameInv
  OBVIOUS
<1>1. FrameTypes /\ stage = "refused"
  BY EmptySeq DEF FrameTypes, FrameOff
<1> QED
  BY <1>1 DEF FrameInv

LEMMA AddsFieldKeeps == ASSUME FrameInv, AddsField PROVE FrameInv'
<1> /\ command' = command /\ UNCHANGED <<stage, index, seen, decoded>> /\ stage = "composing"
    /\ ends' = Append(ends, Len(payload'))
  BY DEF AddsField
<1>0. \A f : DataOf(f)' = DataOf(f)
  BY SameTables
<1>1. FrameTypes
  BY DEF FrameInv
<1>2. PICK at : IsPlaced(at) /\ IsScanned(at)
  BY DEF FrameInv
<1>3. PICK f \in SentFields :
        fields' = Append(fields, f) /\ payload' = payload \o <<f.tag>> \o DataOf(f)
  <2>1. PICK t \in SentTags, s \in DOMAIN Samples :
          /\ fields' = Append(fields, Field(t, s))
          /\ payload' = payload \o <<t>> \o DataOf(Field(t, s))
    BY DEF AddsField
  <2>2. Field(t, s) \in SentFields /\ Field(t, s).tag = t
    BY <2>1 DEF SentFields, Field
  <2> QED
    BY <2>1, <2>2
<1> DEFINE n == Len(fields)
           m == Len(payload)
           l == Len(DataOf(f))
<1>4. n \in Nat /\ m \in Nat /\ fields \in Seq(SentFields) /\ payload \in Seq(UInt(8))
  BY <1>1, LenProperties DEF FrameTypes
<1>5. f.tag \in UInt(8) /\ DataOf(f) \in Seq(UInt(8)) /\ l \in Nat \ {0}
  BY FieldIs
<1>6. /\ fields' \in Seq(SentFields) /\ Len(fields') = n + 1
      /\ fields'[n + 1] = f /\ \A k \in 1..n : fields'[k] = fields[k]
  BY <1>3, <1>4, AppendProperties
<1>7. /\ payload' \in Seq(UInt(8)) /\ Len(payload') = m + 1 + l
      /\ \A k \in 1..m : payload'[k] = payload[k]
      /\ payload'[m + 1] = f.tag
      /\ \A j \in 1..l : payload'[m + 1 + j] = DataOf(f)[j]
  <2> DEFINE p == payload \o <<f.tag>>
  <2>1. <<f.tag>> \in Seq(UInt(8)) /\ Len(<<f.tag>>) = 1 /\ <<f.tag>>[1] = f.tag
    BY <1>5
  <2>2. /\ p \in Seq(UInt(8)) /\ Len(p) = m + 1 /\ p[m + 1] = f.tag
        /\ \A k \in 1..m : p[k] = payload[k]
    BY <1>4, <2>1, JoinedIs
  <2> HIDE DEF p
  <2>3. payload' = p \o DataOf(f)
    BY <1>3 DEF p
  <2> DEFINE q == DataOf(f)
  <2>4. q \in Seq(UInt(8)) /\ Len(q) = l
    BY <1>5
  <2> HIDE DEF q, l
  <2>5. /\ p \o q \in Seq(UInt(8)) /\ Len(p \o q) = m + 1 + l
        /\ \A k \in 1..(m + 1) : (p \o q)[k] = p[k]
        /\ \A j \in 1..l : (p \o q)[m + 1 + j] = q[j]
    <3>1. /\ p \o q \in Seq(UInt(8)) /\ Len(p \o q) = Len(p) + Len(q)
          /\ \A k \in 1..Len(p) : (p \o q)[k] = p[k]
          /\ \A j \in 1..Len(q) : (p \o q)[Len(p) + j] = q[j]
      <4>1. p \in Seq(UInt(8)) /\ q \in Seq(UInt(8))
        BY <2>2, <2>4
      <4> QED
        BY <4>1, JoinedIs
    <3> QED
      BY <2>2, <2>4, <3>1
  <2>6. payload' = p \o q
    BY <2>3 DEF q
  <2>7. \A k \in 1..m : k \in 1..(m + 1)
    BY <1>4
  <2>8. m + 1 \in 1..(m + 1)
    BY <1>4
  <2>9. /\ payload' \in Seq(UInt(8)) /\ Len(payload') = m + 1 + l
        /\ \A k \in 1..m : payload'[k] = payload[k]
        /\ payload'[m + 1] = f.tag
        /\ \A j \in 1..l : payload'[m + 1 + j] = q[j]
    BY <2>2, <2>5, <2>6, <2>7, <2>8
  <2> QED
    BY <2>9 DEF q
<1>8. index = 1 /\ seen = {} /\ decoded = {} /\ at[n + 1] = m + 1
  BY <1>2 DEF IsScanned, EndsAt
<1>14. /\ ends' \in Seq(Nat) /\ Len(ends') = n + 1
       /\ ends'[n + 1] = m + 1 + l /\ \A k \in 1..n : ends'[k] = ends[k]
  <2>1. ends \in Seq(Nat) /\ Len(ends) = n /\ Len(payload') \in Nat
    BY <1>1, <1>4, <1>5, <1>7 DEF FrameTypes
  <2> QED
    BY <1>7, <2>1, AppendProperties
<1>9. FrameTypes'
  BY <1>1, <1>4, <1>5, <1>6, <1>7, <1>8, <1>14, SameTables DEF FrameTypes
<1> HIDE DEF n, m, l
<1>13. PICK next : next = [k \in 1..(n + 2) |-> IF k <= n + 1 THEN at[k] ELSE m + 2 + l]
  OBVIOUS
<1>10. /\ next \in [1..Len(fields') + 1 -> Nat \ {0}]
       /\ \A k \in 1..(n + 1) : next[k] = at[k] /\ at[k] \in Nat \ {0}
       /\ next[n + 2] = m + 2 + l
  <2>1. at \in [1..n + 1 -> Nat \ {0}]
    BY <1>2 DEF IsPlaced, n
  <2>2. n \in Nat /\ m \in Nat /\ l \in Nat /\ Len(fields') = n + 1
    BY <1>4, <1>5, <1>6 DEF n, m, l
  <2> QED
    BY <1>13, <2>1, <2>2
<1>15. \A i, j \in 1..(n + 2) : i < j => next[i] < next[j]
  <2>1. ASSUME NEW i \in 1..(n + 2), NEW j \in 1..(n + 2), i < j PROVE next[i] < next[j]
    <3>1. i \in 1..(n + 1) /\ n \in Nat /\ m \in Nat /\ l \in Nat
      BY <1>4, <1>5, <2>1 DEF n, m, l
    <3>2. \A g, h \in 1..(n + 1) : g < h => at[g] < at[h]
      BY <1>2 DEF IsPlaced, n
    <3>3. CASE j \in 1..(n + 1)
      BY <1>10, <2>1, <3>1, <3>2, <3>3
    <3>4. CASE j = n + 2
      <4>1. at[i] <= at[n + 1]
        <5>1. n + 1 \in 1..(n + 1) /\ (i < n + 1 \/ i = n + 1)
          BY <3>1
        <5>2. at[n + 1] \in Nat /\ at[i] \in Nat
          BY <1>10, <3>1, <5>1
        <5> QED
          BY <3>1, <3>2, <5>1, <5>2
      <4> QED
        BY <1>8, <1>10, <3>1, <3>4, <4>1 DEF n, m
    <3> QED
      BY <2>1, <3>1, <3>3, <3>4
  <2> QED
    BY <2>1
<1>11. IsPlaced(next)'
  <2>1. next[1] = 1
    <3>1. at[1] = 1
      BY <1>2 DEF IsPlaced
    <3>2. 1 \in 1..(n + 1)
      BY <1>4 DEF n
    <3> QED
      BY <1>10, <3>1, <3>2
  <2>2. ASSUME NEW k \in 1..n
        PROVE  /\ next[k + 1] = next[k] + 1 + Len(DataOf(fields'[k])) /\ ends'[k] = next[k + 1] - 1
               /\ next[k] <= Len(payload') => payload'[next[k]] = fields'[k].tag
               /\ \A j \in 1..Len(DataOf(fields'[k])) :
                    next[k] + j <= Len(payload') => payload'[next[k] + j] = DataOf(fields'[k])[j]
    <3>1. next[k] = at[k] /\ next[k + 1] = at[k + 1] /\ fields'[k] = fields[k]
      <4>1. k \in 1..(n + 1) /\ k + 1 \in 1..(n + 1)
        BY <1>4 DEF n
      <4>2. next[k] = at[k] /\ next[k + 1] = at[k + 1]
        BY <1>10, <4>1
      <4>3. fields'[k] = fields[k]
        BY <1>6
      <4> QED
        BY <4>2, <4>3
    <3>2. /\ at[k + 1] = at[k] + 1 + Len(DataOf(fields[k])) /\ ends[k] = at[k + 1] - 1
          /\ at[k] <= m => payload[at[k]] = fields[k].tag
          /\ \A j \in 1..Len(DataOf(fields[k])) :
               at[k] + j <= m => payload[at[k] + j] = DataOf(fields[k])[j]
      BY <1>2, <1>8 DEF IsPlaced, n, m
    <3>3. fields[k] \in SentFields
      BY <1>4 DEF n
    <3>4. Len(DataOf(fields[k])) \in Nat \ {0}
      BY <3>3, FieldIs
    <3>12. at[k + 1] <= m + 1
      <4>1. k + 1 \in 1..(n + 1) /\ n + 1 \in 1..(n + 1) /\ (k + 1 < n + 1 \/ k + 1 = n + 1)
        BY <1>4 DEF n
      <4>2. \A g, h \in 1..(n + 1) : g < h => at[g] < at[h]
        BY <1>2 DEF IsPlaced, n
      <4>3. at[k + 1] \in Nat /\ m \in Nat
        BY <1>4, <1>10, <4>1 DEF m
      <4> QED
        BY <1>8, <4>1, <4>2, <4>3 DEF n, m
    <3>5. at[k] \in 1..m
      <4>1. k \in 1..(n + 1)
        BY <1>4 DEF n
      <4>2. at[k] \in Nat \ {0}
        BY <1>10, <4>1
      <4>3. at[k] <= m /\ m \in Nat
        BY <1>4, <3>2, <3>4, <3>12, <4>2 DEF m
      <4> QED
        BY <4>2, <4>3
    <3>6. ASSUME NEW j \in 1..Len(DataOf(fields[k])) PROVE payload'[at[k] + j] = DataOf(fields[k])[j]
      <4>1. PICK p : p = at[k] + j
        OBVIOUS
      <4>2. p \in 1..m
        <5>1. PICK w \in Nat : w = Len(DataOf(fields[k])) /\ at[k] + 1 + w <= m + 1
          BY <3>2, <3>4, <3>12
        <5>2. j \in 1..w /\ m \in Nat
          BY <1>4, <5>1 DEF m
        <5> QED
          BY <3>5, <4>1, <5>1, <5>2
      <4>3. payload'[p] = payload[p]
        BY <1>7, <4>2 DEF m
      <4>4. payload[p] = DataOf(fields[k])[j]
        BY <3>2, <4>1, <4>2
      <4> QED
        BY <4>1, <4>3, <4>4
    <3>7. payload'[at[k]] = fields[k].tag
      BY <1>7, <3>2, <3>5 DEF m
    <3>8. next[k + 1] = next[k] + 1 + Len(DataOf(fields'[k])) /\ ends'[k] = next[k + 1] - 1
      BY <1>14, <3>1, <3>2
    <3> QED
      BY <3>1, <3>6, <3>7, <3>8
  <2>3. ASSUME NEW k \in 1..(n + 1)
        PROVE  /\ next[k + 1] = next[k] + 1 + Len(DataOf(fields'[k])) /\ ends'[k] = next[k + 1] - 1
               /\ next[k] <= Len(payload') => payload'[next[k]] = fields'[k].tag
               /\ \A j \in 1..Len(DataOf(fields'[k])) :
                    next[k] + j <= Len(payload') => payload'[next[k] + j] = DataOf(fields'[k])[j]
    <3>1. CASE k \in 1..n
      BY <2>2, <3>1
    <3>2. CASE k = n + 1
      <4>1. n + 1 \in 1..(n + 1) /\ k + 1 = n + 2 /\ m \in Nat /\ l \in Nat
        BY <1>4, <1>5, <3>2 DEF n, m, l
      <4>2. next[k] = m + 1 /\ next[k + 1] = m + 2 + l /\ fields'[k] = f /\ ends'[k] = m + 1 + l
        BY <1>6, <1>8, <1>10, <1>14, <3>2, <4>1 DEF n, m
      <4>3. /\ payload'[m + 1] = f.tag
            /\ \A j \in 1..Len(DataOf(f)) : payload'[m + 1 + j] = DataOf(f)[j]
        BY <1>7 DEF m, l
      <4>4. next[k + 1] = next[k] + 1 + Len(DataOf(f)) /\ ends'[k] = next[k + 1] - 1
        BY <4>1, <4>2 DEF l
      <4> QED
        BY <4>2, <4>3, <4>4
    <3>3. k \in 1..n \/ k = n + 1
      BY <1>4 DEF n
    <3> QED
      BY <3>1, <3>2, <3>3
  <2>4. n \in Nat /\ Len(fields') = n + 1 /\ Len(fields') + 1 = n + 2
    BY <1>4, <1>6 DEF n
  <2>5. /\ next \in [1..Len(fields') + 1 -> Nat \ {0}]
        /\ \A i, j \in 1..(Len(fields') + 1) : i < j => next[i] < next[j]
    BY <1>10, <1>15, <2>4
  <2> QED
    BY <1>0, <2>1, <2>3, <2>4, <2>5 DEF IsPlaced
<1>12. IsScanned(next)'
  <2>1. Len(payload') = m + 1 + l /\ Len(fields') = n + 1
    BY <1>6, <1>7 DEF n, m, l
  <2>2. m \in Nat /\ l \in Nat /\ n \in Nat /\ Len(fields') + 1 = n + 2
    BY <1>4, <1>5, <2>1 DEF n, m, l
  <2>3. next[Len(fields') + 1] = Len(payload') + 1
    BY <1>10, <2>1, <2>2
  <2>4. next[Len(fields') + 1] >= Len(payload') + 1
    BY <2>1, <2>2, <2>3
  <2> QED
    BY <1>8, <2>3, <2>4 DEF IsScanned, EndsAt
<1> QED
  BY <1>9, <1>11, <1>12 DEF FrameInv

LEMMA SendsKeeps == ASSUME FrameInv, Sends PROVE FrameInv'
<1>0. /\ UNCHANGED <<command, fields, ends, index, seen, decoded>>
      /\ stage = "composing" /\ stage' = "connected"
  BY DEF Sends
<1>1. FrameTypes
  BY DEF FrameInv
<1>2. PICK at : IsPlaced(at) /\ IsScanned(at)
  BY <1>0 DEF FrameInv
<1>3. Len(fields) \in Nat /\ Len(payload) \in Nat /\ fields \in Seq(SentFields) /\ payload \in Seq(UInt(8))
  BY <1>1, LenProperties DEF FrameTypes
<1>4. index = 1 /\ seen = {} /\ decoded = {} /\ at[Len(fields) + 1] = Len(payload) + 1
  BY <1>0, <1>2 DEF IsScanned, EndsAt
<1>5. PICK n \in 0..Len(payload) : payload' = SubSeq(payload, 1, n)
  BY DEF Sends
<1>6. n \in Nat /\ n <= Len(payload)
  BY <1>3
<1>7. payload' \in Seq(UInt(8)) /\ Len(payload') = n /\ \A j \in 1..n : payload'[j] = payload[j]
  <2>1. SubSeq(payload, 0 + 1, 0 + n) = [j \in 1..n |-> payload[0 + j]]
    BY <1>3, <1>6, SliceIs
  <2>2. payload' = [j \in 1..n |-> payload[j]]
    BY <1>5, <1>6, <2>1
  <2>3. \A j \in 1..n : payload[j] \in UInt(8)
    BY <1>3, <1>6, ElementOfSeq
  <2>4. payload' \in [1..n -> UInt(8)]
    BY <2>2, <2>3
  <2> QED
    BY <1>6, <2>2, <2>4, SequenceIs
<1>8. FrameTypes'
  BY <1>0, <1>1, <1>3, <1>4, <1>6, <1>7, SameTables DEF FrameTypes
<1>9. IsPlaced(at)'
  <2>1. ASSUME NEW k \in 1..Len(fields)
        PROVE  /\ at[k] <= n => payload'[at[k]] = fields[k].tag
               /\ \A j \in 1..Len(DataOf(fields[k])) :
                    at[k] + j <= n => payload'[at[k] + j] = DataOf(fields[k])[j]
    <3>1. /\ at[k] \in Nat \ {0}
          /\ at[k] <= Len(payload) => payload[at[k]] = fields[k].tag
          /\ \A j \in 1..Len(DataOf(fields[k])) :
               at[k] + j <= Len(payload) => payload[at[k] + j] = DataOf(fields[k])[j]
      BY <1>2, <1>3 DEF IsPlaced
    <3>2. at[k] <= n => payload'[at[k]] = fields[k].tag
      BY <1>3, <1>6, <1>7, <3>1
    <3>3. ASSUME NEW j \in 1..Len(DataOf(fields[k])), at[k] + j <= n
          PROVE  payload'[at[k] + j] = DataOf(fields[k])[j]
      <4>1. at[k] + j \in 1..n /\ at[k] + j <= Len(payload)
        <5>1. Len(DataOf(fields[k])) \in Nat
          BY <1>3, FieldIs
        <5>2. j \in Nat
          BY <5>1
        <5> QED
          BY <1>3, <1>6, <3>1, <3>3, <5>2
      <4> QED
        BY <1>7, <3>1, <4>1
    <3> QED
      BY <3>2, <3>3
  <2>2. /\ at \in [1..Len(fields) + 1 -> Nat \ {0}] /\ at[1] = 1
        /\ \A i, j \in 1..(Len(fields) + 1) : i < j => at[i] < at[j]
        /\ \A k \in 1..Len(fields) :
             at[k + 1] = at[k] + 1 + Len(DataOf(fields[k])) /\ ends[k] = at[k + 1] - 1
    BY <1>2 DEF IsPlaced
  <2> QED
    BY <1>0, <1>7, <2>1, <2>2, SameTables DEF IsPlaced
<1>10. IsScanned(at)'
  <2>1. at[Len(fields) + 1] >= n + 1
    BY <1>3, <1>4, <1>6
  <2> QED
    BY <1>0, <1>4, <1>7, <2>1 DEF IsScanned
<1> QED
  BY <1>8, <1>9, <1>10 DEF FrameInv

\* A refusal, or any step that leaves what was sent as it is.
LEMMA PlacesStay ==
    ASSUME FrameTypes, UNCHANGED <<command, fields, payload, ends>>, NEW at
    PROVE  IsPlaced(at)' = IsPlaced(at) /\ \A k : EndsAt(at, k)' = EndsAt(at, k)
<1>1. \A f : DataOf(f)' = DataOf(f)
  BY SameTables
<1> QED
  BY <1>1 DEF IsPlaced, EndsAt

LEMMA ReadingStays ==
    ASSUME UNCHANGED <<command, fields>>
    PROVE  \A i, J : Kept(i, J)' = Kept(i, J)
<1>1. \A f : Meant(f)' = Meant(f)
  BY SameTables
<1> QED
  BY <1>1 DEF Kept

LEMMA RefusingKeeps ==
    ASSUME FrameInv, UNCHANGED <<command, fields, payload, ends>>, Refuses PROVE FrameInv'
<1>1. FrameTypes'
  BY SameTables DEF FrameInv, FrameTypes, Refuses
<1> QED
  BY <1>1 DEF FrameInv, Refuses

LEMMA ReceivesKeeps == ASSUME FrameInv, Receives PROVE FrameInv'
<1>0. /\ UNCHANGED <<command, fields, payload, ends, index, seen, decoded>>
      /\ stage = "connected" /\ stage' = "scan"
  BY DEF Receives
<1>1. FrameTypes /\ FrameTypes'
  BY <1>0, SameTables DEF FrameInv, FrameTypes
<1>2. PICK at : IsPlaced(at) /\ IsScanned(at)
  BY <1>0 DEF FrameInv
<1>3. IsPlaced(at)'
  BY <1>0, <1>1, <1>2, PlacesStay
<1>4. index = 1 /\ seen = {} /\ decoded = {} /\ at[1] = 1 /\ at[Len(fields) + 1] >= Len(payload) + 1
  BY <1>0, <1>2 DEF IsScanned, IsPlaced
<1>5. 1 \in 1..(Len(fields) + 1) /\ index' = at[1] /\ AreAccepted(1)'
  BY <1>0, <1>1, <1>4, LenProperties DEF AreAccepted, FrameTypes
<1>6. IsScanned(at)'
  BY <1>0, <1>4, <1>5 DEF IsScanned
<1> QED
  BY <1>1, <1>3, <1>6 DEF FrameInv

LEMMA BreaksOffKeeps == ASSUME FrameInv, BreaksOff PROVE FrameInv'
<1> QED
  BY RefusingKeeps DEF BreaksOff

\* The scan stands at the beginning of a field, or behind the last one.
LEMMA ScanIsAtField ==
    ASSUME FrameTypes, stage = "scan", NEW at, IsPlaced(at), IsScanned(at)
    PROVE  /\ Len(fields) \in Nat /\ Len(payload) \in Nat
           /\ \E k \in 1..(Len(fields) + 1) :
                /\ index = at[k] /\ AreAccepted(k)
                /\ index <= Len(payload) => k \in 1..Len(fields)
<1>1. Len(fields) \in Nat /\ Len(payload) \in Nat
  BY LenProperties DEF FrameTypes
<1>2. PICK k \in 1..(Len(fields) + 1) : index = at[k] /\ AreAccepted(k)
  BY DEF IsScanned
<1>3. CASE k = Len(fields) + 1
  <2>1. index >= Len(payload) + 1 /\ index \in Nat
    BY <1>2, <1>3 DEF IsScanned, FrameTypes
  <2> QED
    BY <1>1, <1>2, <2>1
<1>4. CASE k \in 1..Len(fields)
  BY <1>1, <1>2, <1>4
<1> QED
  BY <1>1, <1>3, <1>4

LEMMA ScansKeeps == ASSUME FrameInv, Scans PROVE FrameInv'
<1>0. UNCHANGED <<command, fields, payload, ends>> /\ stage = "scan" /\ index <= Len(payload)
  BY DEF Scans
<1>1. CASE Structure(Tag) = "unknown" \/ Tag \in seen \/ Overruns
  BY <1>0, <1>1, RefusingKeeps DEF Scans
<1>2. CASE ~(Structure(Tag) = "unknown" \/ Tag \in seen \/ Overruns)
  <2>0. index' = Following /\ seen' = seen \cup {Tag} /\ UNCHANGED <<stage, decoded>>
    BY <1>2 DEF Scans
  <2>1. FrameTypes
    BY DEF FrameInv
  <2>2. PICK at : IsPlaced(at) /\ IsScanned(at)
    BY <1>0 DEF FrameInv
  <2>3. Len(fields) \in Nat /\ Len(payload) \in Nat
    BY <1>0, <2>1, <2>2, ScanIsAtField
  <2>4. PICK k \in 1..Len(fields) : index = at[k] /\ AreAccepted(k)
    BY <1>0, <2>1, <2>2, <2>3, ScanIsAtField
  <2>5. fields[k] \in SentFields /\ Tag = fields[k].tag
    BY SMTT(30), <1>0, <2>1, <2>2, <2>4 DEF IsPlaced, Tag, FrameTypes
  <2>6. Following = at[k + 1] /\ at[k + 1] <= Len(payload) + 1 /\ at[k + 1] \in Nat \ {0}
    <3>1. Len(DataOf(fields[k])) = Width(Structure(Tag))
      BY <1>2, <2>5, FieldIs
    <3>2. at[k + 1] = at[k] + 1 + Len(DataOf(fields[k])) /\ k + 1 \in 1..(Len(fields) + 1)
      BY <2>2, <2>3, <2>4 DEF IsPlaced
    <3>3. at[k + 1] \in Nat \ {0} /\ at[k] \in Nat \ {0} /\ Len(DataOf(fields[k])) \in Nat
      <4>0. at \in [1..Len(fields) + 1 -> Nat \ {0}]
        BY <2>2 DEF IsPlaced
      <4>1. at[k + 1] \in Nat \ {0} /\ at[k] \in Nat \ {0}
        BY <2>3, <2>4, <3>2, <4>0
      <4>2. Len(DataOf(fields[k])) \in Nat
        BY <2>5, FieldIs
      <4> QED
        BY <4>1, <4>2
    <3>4. Following = at[k + 1]
      BY <2>4, <3>1, <3>2, <3>3 DEF Following
    <3>5. ~(Following > Len(payload) + 1)
      BY <1>2 DEF Overruns
    <3> QED
      BY <2>3, <3>3, <3>4, <3>5
  <2>7. AreAccepted(k + 1)'
    <3>1. seen' = {fields[i].tag : i \in 1..k}
      BY <2>0, <2>3, <2>4, <2>5 DEF AreAccepted
    <3>2. \A j \in 1..(k - 1) : fields[k].tag # fields[j].tag
      BY <1>2, <2>4, <2>5 DEF AreAccepted
    <3>3. ASSUME NEW i \in 1..k
          PROVE  Structure(fields[i].tag) # "unknown" /\ \A j \in 1..(i - 1) : fields[i].tag # fields[j].tag
      BY <1>2, <2>4, <2>5, <3>2 DEF AreAccepted
    <3>4. k + 1 - 1 = k
      BY <2>3
    <3>5. \A t : Structure(t)' = Structure(t)
      BY <1>0, SameTables
    <3> QED
      BY <1>0, <3>1, <3>3, <3>4, <3>5 DEF AreAccepted
  <2>8. FrameTypes'
    <3>1. Tag \in UInt(8)
      BY <2>5, FieldIs
    <3> QED
      BY <1>0, <2>0, <2>1, <2>3, <2>6, <3>1, SameTables DEF FrameTypes
  <2>9. IsPlaced(at)'
    BY <1>0, <2>1, <2>2, PlacesStay
  <2>10. IsScanned(at)'
    <3>1. k + 1 \in 1..(Len(fields') + 1) /\ index' = at[k + 1]
      BY <1>0, <2>0, <2>3, <2>6
    <3>2. at[Len(fields') + 1] >= Len(payload') + 1 /\ decoded = {}
      BY <1>0, <2>2 DEF IsScanned
    <3> QED
      BY <1>0, <2>0, <2>7, <3>1, <3>2 DEF IsScanned
  <2> QED
    BY <2>8, <2>9, <2>10 DEF FrameInv
<1> QED
  BY <1>1, <1>2

LEMMA ScanEndsKeeps == ASSUME FrameInv, ScanEnds PROVE FrameInv'
<1>0. /\ UNCHANGED <<command, fields, payload, ends, seen, decoded>>
      /\ stage = "scan" /\ index > Len(payload) /\ stage' = "parse" /\ index' = 1
  BY DEF ScanEnds
<1>1. FrameTypes
  BY DEF FrameInv
<1>2. PICK at : IsPlaced(at) /\ IsScanned(at)
  BY <1>0 DEF FrameInv
<1>3. PICK m \in 1..(Len(fields) + 1) : index = at[m] /\ AreAccepted(m)
  BY <1>0, <1>1, <1>2, ScanIsAtField
<1>4. Len(fields) \in Nat /\ Len(payload) \in Nat /\ index \in 1..(Len(payload) + 1)
  BY <1>1, LenProperties DEF FrameTypes
<1>5. EndsAt(at, m)
  BY <1>0, <1>3, <1>4 DEF EndsAt
<1>6. FrameTypes'
  BY <1>0, <1>1, <1>4, SameTables DEF FrameTypes
<1>7. IsPlaced(at)' /\ EndsAt(at, m)'
  BY <1>0, <1>1, <1>2, <1>5, PlacesStay
<1>8. AreAccepted(m)'
  BY <1>0, <1>3, SameTables DEF AreAccepted
<1>9. AreRead(1)' /\ index' = at[1] /\ 1 \in 1..m /\ at[Len(fields) + 1] >= Len(payload) + 1
  BY <1>0, <1>2, <1>3, <1>4 DEF AreRead, IsScanned, IsPlaced
<1>10. IsScanned(at)'
  BY <1>0, <1>3, <1>7, <1>8, <1>9 DEF IsScanned
<1> QED
  BY <1>6, <1>7, <1>10 DEF FrameInv

\* The parser stands where the scan has stood.
LEMMA ParserIsAtField ==
    ASSUME FrameTypes, stage = "parse", NEW at, IsPlaced(at), IsScanned(at)
    PROVE  /\ Len(fields) \in Nat /\ Len(payload) \in Nat
           /\ \E m \in 1..(Len(fields) + 1) :
                /\ EndsAt(at, m) /\ AreAccepted(m)
                /\ \E k \in 1..m :
                     /\ index = at[k] /\ AreRead(k)
                     /\ k < m =>
                          /\ fields[k] \in SentFields /\ Tag = fields[k].tag
                          /\ Structure(Tag) # "unknown" /\ GoesOn
                          /\ Following = at[k + 1] /\ Slice = DataOf(fields[k])
                          /\ at[k + 1] \in 1..(Len(payload) + 1)
                     /\ k = m => ~GoesOn
<1>1. Len(fields) \in Nat /\ Len(payload) \in Nat
  BY LenProperties DEF FrameTypes
<1>2. PICK m \in 1..(Len(fields) + 1) :
        /\ EndsAt(at, m) /\ AreAccepted(m)
        /\ \E k \in 1..m : index = at[k] /\ AreRead(k)
  BY DEF IsScanned
<1>3. PICK k \in 1..m : index = at[k] /\ AreRead(k)
  BY <1>2
<1>4. CASE k = m
  <2>1. index = Len(payload) + 1
    BY <1>2, <1>3, <1>4 DEF EndsAt
  <2>2. ~GoesOn
    BY <1>1, <2>1 DEF GoesOn
  <2> QED
    BY <1>1, <1>2, <1>3, <1>4, <2>2
<1>5. CASE k < m
  <2> DEFINE data == DataOf(fields[k])
  <2>0. /\ m \in 1..(Len(fields) + 1) /\ k \in 1..Len(fields) /\ k \in 1..(m - 1)
        /\ k \in 1..(Len(fields) + 1) /\ k + 1 \in 1..(Len(fields) + 1) /\ (k + 1 < m \/ k + 1 = m)
    BY <1>1, <1>2, <1>3, <1>5
  <2>1. fields[k] \in SentFields
    BY <2>0 DEF FrameTypes
  <2>10. /\ at[k] \in Nat \ {0} /\ at[k + 1] \in Nat \ {0} /\ at[k] < at[k + 1]
         /\ at[k + 1] <= Len(payload) + 1
    <3>1. at \in [1..Len(fields) + 1 -> Nat \ {0}] /\ at[m] = Len(payload) + 1
      BY <1>2 DEF IsPlaced, EndsAt
    <3>2. \A i, j \in 1..(Len(fields) + 1) : i < j => at[i] < at[j]
      BY DEF IsPlaced
    <3>3. at[k] \in Nat \ {0} /\ at[k + 1] \in Nat \ {0}
      BY <2>0, <3>1
    <3>4. at[k] < at[k + 1]
      BY <2>0, <3>2
    <3>5. k + 1 < m => at[k + 1] < at[m]
      BY <2>0, <3>2
    <3> QED
      BY <1>1, <2>0, <3>1, <3>3, <3>4, <3>5
  <2>2. Tag = fields[k].tag
    <3>1. at[k] <= Len(payload)
      BY <1>1, <2>10
    <3> QED
      BY <1>3, <2>0, <3>1 DEF IsPlaced, Tag
  <2>3. Structure(Tag) # "unknown"
    BY <1>2, <2>0, <2>2 DEF AreAccepted
  <2>4. data \in Seq(UInt(8)) /\ Len(data) = Width(Structure(Tag)) /\ Len(data) \in Nat \ {0}
    BY <2>1, <2>2, <2>3, FieldIs
  <2>5. /\ at[k + 1] = at[k] + 1 + Len(data)
        /\ \A j \in 1..Len(data) : at[k] + j <= Len(payload) => payload[at[k] + j] = data[j]
    BY <2>0 DEF IsPlaced
  <2> HIDE DEF data
  <2>6. Following = at[k] + 1 + Len(data) /\ Following = at[k + 1]
    BY <1>3, <2>4, <2>5 DEF Following
  <2>7. GoesOn
    BY <1>1, <1>3, <2>3, <2>4, <2>5, <2>10 DEF GoesOn
  <2>8. Slice = data
    <3>1. Slice = SubSeq(payload, at[k] + 1, at[k] + Len(data))
      <4>1. Following - 1 = at[k] + Len(data) /\ ~(Following - 1 > Len(payload))
        BY SMTT(30), <1>1, <2>4, <2>5, <2>6, <2>10
      <4> QED
        BY <1>3, <4>1 DEF Slice
    <3>2. payload \in Seq(UInt(8)) /\ at[k] \in Nat /\ Len(data) \in Nat /\ at[k] + Len(data) <= Len(payload)
      BY <1>1, <2>4, <2>5, <2>10 DEF FrameTypes
    <3>3. SubSeq(payload, at[k] + 1, at[k] + Len(data)) = [j \in 1..Len(data) |-> payload[at[k] + j]]
      <4>1. PICK s \in Seq(UInt(8)), o \in Nat, n \in Nat : s = payload /\ o = at[k] /\ n = Len(data)
        BY <3>2
      <4>2. o + n <= Len(s)
        BY <3>2, <4>1
      <4>3. SubSeq(s, o + 1, o + n) = [j \in 1..n |-> s[o + j]]
        BY <4>2, SliceIs
      <4> QED
        BY <4>1, <4>3
    <3>4. ASSUME NEW j \in 1..Len(data) PROVE payload[at[k] + j] = data[j]
      <4>1. at[k] + j <= Len(payload)
        BY <1>1, <3>2
      <4> QED
        BY <2>5, <4>1
    <3>5. data = [j \in 1..Len(data) |-> data[j]]
      BY <2>4
    <3> QED
      BY <3>1, <3>3, <3>4, <3>5
  <2>9. at[k + 1] \in 1..(Len(payload) + 1)
    BY <1>1, <2>10
  <2>11. ~(k = m)
    BY <1>1, <1>2, <1>5
  <2> QED
    BY <1>1, <1>2, <1>3, <2>1, <2>2, <2>3, <2>6, <2>7, <2>8, <2>9, <2>11 DEF data
<1> QED
  BY <1>1, <1>2, <1>3, <1>4, <1>5

\* One more field is read: it takes the place of the values whose names it has.
LEMMA OneMoreIsRead ==
    ASSUME NEW k \in Nat \ {0}
    PROVE  UNION {Kept(i, 1..k) : i \in 1..k} =
             {d \in UNION {Kept(i, 1..(k - 1)) : i \in 1..(k - 1)} :
                 \A e \in Meant(fields[k]) : e[1] # d[1]} \cup Meant(fields[k])
<1>1. Kept(k, 1..k) = Meant(fields[k])
  BY DEF Kept
<1>2. ASSUME NEW i \in 1..(k - 1)
      PROVE  Kept(i, 1..k) = {d \in Kept(i, 1..(k - 1)) : \A e \in Meant(fields[k]) : e[1] # d[1]}
  <2>1. \A j : j \in 1..k <=> j \in 1..(k - 1) \/ j = k
    OBVIOUS
  <2>2. k > i
    OBVIOUS
  <2> QED
    BY <2>1, <2>2, Zenon DEF Kept
<1>3. \A i : i \in 1..k <=> i \in 1..(k - 1) \/ i = k
  OBVIOUS
<1> QED
  BY <1>1, <1>2, <1>3

LEMMA ParsesKeeps == ASSUME FrameInv, Parses PROVE FrameInv'
<1>0. /\ UNCHANGED <<command, fields, payload, ends, stage, seen>>
      /\ stage = "parse" /\ GoesOn /\ index' = Following
      /\ decoded' = {d \in decoded : \A e \in Decode(Tag, Slice) : e[1] # d[1]} \cup Decode(Tag, Slice)
  BY DEF Parses
<1>1. FrameTypes
  BY DEF FrameInv
<1>2. PICK at : IsPlaced(at) /\ IsScanned(at)
  BY <1>0 DEF FrameInv
<1>3. Len(fields) \in Nat /\ Len(payload) \in Nat
  BY <1>0, <1>1, <1>2, ParserIsAtField
<1>4. PICK m \in 1..(Len(fields) + 1) :
        /\ EndsAt(at, m) /\ AreAccepted(m)
        /\ \E k \in 1..m :
             /\ k < m /\ AreRead(k) /\ fields[k] \in SentFields /\ Tag = fields[k].tag
             /\ Structure(Tag) # "unknown" /\ Following = at[k + 1] /\ Slice = DataOf(fields[k])
             /\ at[k + 1] \in 1..(Len(payload) + 1)
  <2>1. PICK m \in 1..(Len(fields) + 1) :
          /\ EndsAt(at, m) /\ AreAccepted(m)
          /\ \E k \in 1..m :
               /\ AreRead(k)
               /\ k < m =>
                    /\ fields[k] \in SentFields /\ Tag = fields[k].tag
                    /\ Structure(Tag) # "unknown" /\ Following = at[k + 1] /\ Slice = DataOf(fields[k])
                    /\ at[k + 1] \in 1..(Len(payload) + 1)
               /\ k # m
    BY <1>0, <1>1, <1>2, ParserIsAtField
  <2>2. \A k \in 1..m : k # m => k < m
    BY <1>3
  <2> QED
    BY <2>1, <2>2
<1>5. PICK k \in 1..m :
        /\ k < m /\ AreRead(k) /\ fields[k] \in SentFields /\ Tag = fields[k].tag
        /\ Structure(Tag) # "unknown" /\ Following = at[k + 1] /\ Slice = DataOf(fields[k])
        /\ at[k + 1] \in 1..(Len(payload) + 1)
  BY <1>4
<1>6. Decode(Tag, Slice) = Meant(fields[k]) /\ \A d \in Meant(fields[k]) : d[3] \in Numbers(d[2])
  BY <1>5, FieldIs, DecodedIsMeant
<1>7. AreRead(k + 1)'
  <2>1. k \in Nat \ {0} /\ k + 1 - 1 = k
    BY <1>3, <1>4
  <2>2. decoded' = UNION {Kept(i, 1..k) : i \in 1..k}
    <3>1. decoded = UNION {Kept(i, 1..(k - 1)) : i \in 1..(k - 1)}
      BY <1>5 DEF AreRead
    <3>2. decoded' = {d \in decoded : \A e \in Meant(fields[k]) : e[1] # d[1]} \cup Meant(fields[k])
      BY <1>0, <1>6
    <3> QED
      BY <2>1, <3>1, <3>2, OneMoreIsRead
  <2> QED
    BY <1>0, <2>1, <2>2, ReadingStays DEF AreRead
<1>8. FrameTypes'
  <2>1. \A d \in decoded' : d[3] \in Numbers(d[2])
    BY <1>0, <1>1, <1>6 DEF FrameTypes
  <2>2. index' \in 1..(Len(payload) + 1)
    BY <1>0, <1>5
  <2> QED
    BY <1>0, <1>1, <2>1, <2>2, SameTables DEF FrameTypes
<1>9. IsPlaced(at)' /\ EndsAt(at, m)' /\ at[Len(fields) + 1] >= Len(payload) + 1
  BY <1>0, <1>1, <1>2, <1>4, PlacesStay DEF IsScanned
<1>10. AreAccepted(m)'
  BY <1>0, <1>4, SameTables DEF AreAccepted
<1>11. k + 1 \in 1..m /\ index' = at[k + 1]
  BY <1>0, <1>3, <1>5
<1>12. IsScanned(at)'
  BY <1>0, <1>4, <1>7, <1>9, <1>10, <1>11 DEF IsScanned
<1> QED
  BY <1>8, <1>9, <1>12 DEF FrameInv

LEMMA ParseEndsKeeps == ASSUME FrameInv, ParseEnds PROVE FrameInv'
<1>0. /\ UNCHANGED <<command, fields, payload, ends, index, seen, decoded>>
      /\ stage = "parse" /\ ~GoesOn /\ stage' = "accepted"
  BY DEF ParseEnds
<1>1. FrameTypes
  BY DEF FrameInv
<1>2. PICK at : IsPlaced(at) /\ IsScanned(at)
  BY <1>0 DEF FrameInv
<1>3. Len(fields) \in Nat
  BY <1>0, <1>1, <1>2, ParserIsAtField
<1>4. PICK m \in 1..(Len(fields) + 1) : EndsAt(at, m) /\ AreAccepted(m) /\ AreRead(m)
  <2>1. PICK m \in 1..(Len(fields) + 1) :
          /\ EndsAt(at, m) /\ AreAccepted(m)
          /\ \E k \in 1..m : AreRead(k) /\ (k < m => GoesOn)
    BY <1>0, <1>1, <1>2, ParserIsAtField
  <2>2. PICK k \in 1..m : AreRead(k) /\ (k < m => GoesOn)
    BY <2>1
  <2>3. k = m
    BY <1>0, <1>3, <2>1, <2>2
  <2> QED
    BY <2>1, <2>2, <2>3
<1>5. FrameTypes'
  BY <1>0, <1>1, SameTables DEF FrameTypes
<1>6. IsPlaced(at)' /\ EndsAt(at, m)' /\ at[Len(fields) + 1] >= Len(payload) + 1
  BY <1>0, <1>1, <1>2, <1>4, PlacesStay DEF IsScanned
<1>7. AreAccepted(m)' /\ AreRead(m)'
  BY <1>0, <1>4, SameTables, ReadingStays DEF AreAccepted, AreRead
<1>8. IsScanned(at)'
  BY <1>0, <1>4, <1>6, <1>7 DEF IsScanned
<1> QED
  BY <1>5, <1>6, <1>8 DEF FrameInv

LEMMA AsksAgainKeeps == ASSUME FrameInv, AsksAgain PROVE FrameInv'
<1>0. /\ fields' = <<>> /\ payload' = <<>> /\ ends' = <<>> /\ stage' = "composing"
      /\ index' = 1 /\ seen' = {} /\ decoded' = {} /\ command' = command
  BY DEF AsksAgain
<1>1. FrameTypes'
  BY <1>0, EmptySeq DEF FrameTypes, FrameInv
<1>2. PICK at : at = [k \in 1..1 |-> 1]
  OBVIOUS
<1>3. Len(fields') = 0 /\ Len(payload') = 0
  BY <1>0
<1>4. IsPlaced(at)'
  BY <1>2, <1>3 DEF IsPlaced
<1>5. IsScanned(at)'
  BY <1>0, <1>2, <1>3 DEF IsScanned, EndsAt
<1> QED
  BY <1>1, <1>4, <1>5 DEF FrameInv

LEMMA FramesKept == FrameInv /\ [FrameNext]_frameVars => FrameInv'
<1> SUFFICES ASSUME FrameInv, [FrameNext]_frameVars PROVE FrameInv'
  OBVIOUS
<1>1. CASE UNCHANGED frameVars
  <2>1. UNCHANGED <<command, fields, payload, ends, stage, index, seen, decoded>>
    BY <1>1 DEF frameVars
  <2>2. FrameTypes'
    BY <2>1, SameTables DEF FrameInv, FrameTypes
  <2>3. CASE stage = "refused"
    BY <2>1, <2>2, <2>3 DEF FrameInv
  <2>4. CASE stage # "refused"
    <3>1. PICK at : IsPlaced(at) /\ IsScanned(at)
      BY <2>4 DEF FrameInv
    <3>2. IsPlaced(at)' /\ \A k : EndsAt(at, k)' = EndsAt(at, k)
      BY <2>1, <3>1, PlacesStay DEF FrameInv
    <3>3. \A k : AreAccepted(k)' = AreAccepted(k) /\ AreRead(k)' = AreRead(k)
      BY <2>1, SameTables, ReadingStays DEF AreAccepted, AreRead
    <3>4. IsScanned(at)'
      BY <2>1, <3>1, <3>2, <3>3 DEF IsScanned
    <3> QED
      BY <2>2, <3>2, <3>4 DEF FrameInv
  <2> QED
    BY <2>3, <2>4
<1> QED
  BY <1>1, AddsFieldKeeps, SendsKeeps, ReceivesKeeps, BreaksOffKeeps, ScansKeeps, ScanEndsKeeps, ParsesKeeps,
     ParseEndsKeeps, AsksAgainKeeps DEF FrameNext

\* Whatever fields a gateway sends, and wherever its answer is cut off, repeated or
\* unknown in part: the scan and the parser stand at the beginning of a field, and the
\* parser has read the fields before it, the last of those that share their names.
THEOREM FrameInvariant == FrameSpec => []FrameInv
<1> QED
  BY FramesBegin, FramesKept, PTL DEF FrameSpec

LEMMA AllIsRead == FrameInv => ReadAsSent
<1> SUFFICES ASSUME FrameInv, stage = "accepted"
             PROVE  /\ Len(payload) = 0 \/ \E i \in DOMAIN fields : ends[i] = Len(payload)
                    /\ \A i, j \in Whole : fields[i].tag = fields[j].tag => i = j
                    /\ decoded = UNION {Kept(i, Whole) : i \in Whole}
  BY DEF ReadAsSent
<1>1. PICK at : IsPlaced(at) /\ IsScanned(at)
  BY DEF FrameInv
<1>2. PICK m \in 1..(Len(fields) + 1) : EndsAt(at, m) /\ AreAccepted(m) /\ AreRead(m)
  BY <1>1 DEF IsScanned
<1>3. Len(fields) \in Nat /\ Len(payload) \in Nat /\ DOMAIN fields = 1..Len(fields) /\ m \in Nat
  BY <1>2, LenProperties DEF FrameInv, FrameTypes
<1>4. ASSUME NEW i \in 1..Len(fields)
      PROVE  /\ ends[i] = at[i + 1] - 1 /\ at[i + 1] \in Nat /\ i + 1 \in 1..(Len(fields) + 1)
             /\ ends[i] <= Len(payload) <=> i <= m - 1
  <2>1. i + 1 \in 1..(Len(fields) + 1) /\ m \in 1..(Len(fields) + 1)
    BY <1>2, <1>3
  <2>2. ends[i] = at[i + 1] - 1 /\ at[i + 1] \in Nat /\ at[m] = Len(payload) + 1
    BY <1>1, <1>2, <2>1 DEF IsPlaced, EndsAt
  <2>3. (i + 1 < m => at[i + 1] < at[m]) /\ (m < i + 1 => at[m] < at[i + 1])
    BY <1>1, <2>1 DEF IsPlaced
  <2> QED
    BY <1>3, <2>1, <2>2, <2>3
<1>5. Whole = 1..(m - 1)
  BY <1>2, <1>3, <1>4 DEF Whole
<1>6. decoded = UNION {Kept(i, Whole) : i \in Whole}
  BY <1>2, <1>5 DEF AreRead
<1>7. Len(payload) = 0 \/ \E i \in DOMAIN fields : ends[i] = Len(payload)
  <2>1. CASE m = 1
    BY <1>1, <1>2, <1>3, <2>1 DEF IsPlaced, EndsAt
  <2>2. CASE m # 1
    <3>1. m - 1 \in 1..Len(fields) /\ m - 1 + 1 = m
      BY <1>2, <1>3, <2>2
    <3>2. ends[m - 1] = Len(payload)
      BY <1>2, <1>3, <1>4, <3>1 DEF EndsAt
    <3> QED
      BY <1>3, <3>1, <3>2
  <2> QED
    BY <2>1, <2>2
<1>8. ASSUME NEW i \in Whole, NEW j \in Whole, fields[i].tag = fields[j].tag PROVE i = j
  <2>1. i \in 1..(m - 1) /\ j \in 1..(m - 1)
    BY <1>5
  <2>2. j < i => fields[i].tag # fields[j].tag
    BY <1>2, <1>3, <2>1 DEF AreAccepted
  <2>3. i < j => fields[j].tag # fields[i].tag
    BY <1>2, <1>3, <2>1 DEF AreAccepted
  <2> QED
    BY <1>3, <1>8, <2>1, <2>2, <2>3
<1> QED
  BY <1>6, <1>7, <1>8

\* What parse_values lets through has no field in part and none twice, and what the
\* vendored parser decodes of it is every value of every field in it, the later one
\* where WH45 and WH46 share a name (gw1000.py; _vendor/gw1000.py).
THEOREM FramesAreReadAsSent == FrameSpec => []ReadAsSent
<1> QED
  BY FrameInvariant, AllIsRead, PTL

\* The state of frames and parser is well typed.
LEMMA FramesAreTyped == FrameInv => FrameTypeOK
<1> SUFFICES ASSUME FrameInv PROVE FrameTypeOK
  OBVIOUS
<1>1. FrameTypes
  BY DEF FrameInv
<1>2. Len(payload) \in Nat /\ DOMAIN fields = 1..Len(fields)
  BY <1>1, LenProperties DEF FrameTypes
<1>3. \A i \in DOMAIN fields : fields[i].tag \in UInt(8)
  BY <1>1, <1>2, FieldIs DEF FrameTypes
<1>4. index \in 1..(Len(payload) + 25)
  BY <1>1, <1>2 DEF FrameTypes
<1>5. DOMAIN ends = DOMAIN fields /\ \A i \in DOMAIN ends : ends[i] \in Nat
  BY <1>1, <1>2 DEF FrameTypes
<1> QED
  BY <1>1, <1>3, <1>4, <1>5 DEF FrameTypes, FrameTypeOK
=============================================================================
