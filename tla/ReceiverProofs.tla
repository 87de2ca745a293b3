---------------------------- MODULE ReceiverProofs ----------------------------
(***************************************************************************)
(* Proofs about the receivers: SensorRouter, for every set of sensors and  *)
(* streams and any number of lost, repeated and reordered packets;         *)
(* SdrReceiver, for every size of queue and pipe; WeatherflowReceiver, for *)
(* every window, datagram and clock of the hub; and MCReceivers, where the *)
(* receivers, the gateway's among them, are side by side.                  *)
(***************************************************************************)
EXTENDS MCReceivers, GatewayProofs

(***************************************************************************)
(* SensorRouter.                                                           *)
(***************************************************************************)

\* The packets of the last read.
Pending == {inbox[i] : i \in 1..Len(inbox)}

\* A packet tells what its sensor had seen when it was sent, which is not more than it
\* has seen by now; so much as its counter was ever reset by, it is behind.
IsSent(p) ==
    /\ 1 <= p.time /\ p.time <= now /\ p.fell <= fell[p.sensor]
    /\ p.total # None <=> p.stream \in RainStreams
    /\ p.total # None =>
           p.total <= p.fell /\ p.fell - p.total <= fell[p.sensor] - gauge[p.sensor]

\* Packets are read from the air; those over a network stay there.
PacketsAreSent ==
    /\ \A s \in Sensors : gauge[s] <= fell[s]
    /\ \A p \in air \cup Pending : IsSent(p)
    /\ ~Radio => Pending \subseteq air

\* Of two counters of a sensor the later one has seen more rain and as many resets.
InSequence(p, q) == p.fell <= q.fell /\ p.fell - p.total <= q.fell - q.total

SameGauge(p, q) == p.sensor = q.sensor /\ p.total # None /\ q.total # None

AirIsInSequence == \A p, q \in air : SameGauge(p, q) /\ p.time < q.time => InSequence(p, q)

\* A read of the radio has one counter of a sensor.
ReadIsOneCounter ==
    Radio => \A p, q \in Pending : SameGauge(p, q) => p.total = q.total /\ p.fell = q.fell

\* The account of a sensor: the counter of its last event and the rain up to it.
RainIsAccounted ==
    \A s \in Sensors :
        /\ first[s] = None <=> latest[s] = None
        /\ first[s] = None <=> baseline[s] = None
        /\ first[s] = None => rain[s] = 0
        /\ first[s] # None =>
               /\ latest[s] <= fell[s] /\ baseline[s] <= latest[s]
               /\ latest[s] - baseline[s] <= fell[s] - gauge[s]
               /\ rain[s] <= latest[s] - first[s]
               /\ gauge[s] = fell[s] => rain[s] = latest[s] - first[s]

\* What may still become an event was counted after the last one.
Follows(p) ==
    latest[p.sensor] # None =>
        /\ latest[p.sensor] <= p.fell
        /\ latest[p.sensor] - baseline[p.sensor] <= p.fell - p.total

NewIsLater ==
    /\ Radio => \A p \in Pending : p.total # None => Follows(p)
    /\ ~Radio => \A p \in air :
           p.total # None /\ p.time > last[p.sensor][p.stream].time => Follows(p)

\* The ids of a sensor are those of timestamps up to the mark of their stream.
IdsAreMarked ==
    ~Radio => \A s \in Sensors :
        /\ IsFiniteSet(ids[s]) /\ count[s] = Cardinality(ids[s])
        /\ \A id \in ids[s] : id[2] <= last[s][id[1]].time

RouterInv ==
    /\ TypeOK /\ PacketsAreSent /\ AirIsInSequence /\ ReadIsOneCounter
    /\ RainIsAccounted /\ NewIsLater /\ IdsAreMarked

\* What a step that only takes packets out of the inbox leaves alone.
accountVars == <<deviceVars, last, baseline, historyVars>>
Takes == inbox' = inbox \/ inbox' = <<>> \/ (inbox # <<>> /\ inbox' = Tail(inbox))

\* The inbox is one of packets, and taking some out adds none.
LEMMA PendingIsTyped ==
    ASSUME TypeOK
    PROVE  /\ Pending \subseteq Packet
           /\ inbox # <<>> => Head(inbox) \in Pending
           /\ Takes => inbox' \in Seq(Packet) /\ Pending' \subseteq Pending
<1>1. inbox \in Seq(Packet) /\ Len(inbox) \in Nat
  BY DEF TypeOK
<1>2. Pending \subseteq Packet
  BY <1>1 DEF Pending
<1>3. inbox # <<>> => Head(inbox) \in Pending
  <2> HAVE inbox # <<>>
  <2>1. Head(inbox) = inbox[1] /\ 1 \in 1..Len(inbox)
    BY <1>1
  <2> QED
    BY <2>1 DEF Pending
<1>4. ASSUME inbox # <<>>, inbox' = Tail(inbox)
      PROVE  inbox' \in Seq(Packet) /\ Pending' \subseteq Pending
  <2>1. Tail(inbox) \in Seq(Packet) /\ Len(Tail(inbox)) = Len(inbox) - 1
    BY <1>1, <1>4
  <2>2. ASSUME NEW i \in 1..Len(inbox') PROVE inbox'[i] \in Pending
    <3>1. inbox'[i] = inbox[i + 1] /\ i + 1 \in 1..Len(inbox)
      BY <1>1, <1>4, <2>1
    <3> QED
      BY <3>1 DEF Pending
  <2> QED
    BY <1>4, <2>1, <2>2 DEF Pending
<1>5. inbox' = <<>> => inbox' \in Seq(Packet) /\ Pending' \subseteq Pending
  BY DEF Pending
<1>6. inbox' = inbox => inbox' \in Seq(Packet) /\ Pending' \subseteq Pending
  BY <1>1 DEF Pending
<1> QED
  BY <1>2, <1>3, <1>4, <1>5, <1>6 DEF Takes

\* What is read was sent, and over the radio just now.
LEMMA ReadIsSent ==
    ASSUME TypeOK, Read
    PROVE  inbox' \in Seq(Packet) /\ Pending' \subseteq {p \in air : Receivable(p)}
<1>1. PICK n \in 1..Bound.packets : inbox' \in [1..n -> {p \in air : Receivable(p)}]
  BY DEF Read
<1>2. Bound.packets \in Nat
  BY RouterAssumption DEF TypeOK, Bound
<1>3. air \subseteq Packet
  BY DEF TypeOK
<1>4. inbox' \in Seq({p \in air : Receivable(p)}) /\ Len(inbox') = n
  BY <1>1, <1>2
<1>5. inbox' \in Seq(Packet)
  BY <1>3, <1>4
<1> QED
  BY <1>1, <1>4, <1>5 DEF Pending

\* A step that only takes packets out of the inbox keeps all that is said of packets,
\* events and rain.
LEMMA TakingKeeps ==
    ASSUME RouterInv, Takes, UNCHANGED accountVars
    PROVE  /\ PacketsAreSent' /\ AirIsInSequence' /\ ReadIsOneCounter'
           /\ RainIsAccounted' /\ NewIsLater' /\ IdsAreMarked'
<1>1. Pending' \subseteq Pending
  BY PendingIsTyped DEF RouterInv
<1>2. UNCHANGED <<medium, now, gauge, fell, air, last, baseline, ids, count, rain, first, latest>>
  BY DEF accountVars, deviceVars, historyVars
<1>3. PacketsAreSent'
  BY <1>1, <1>2 DEF RouterInv, PacketsAreSent, IsSent, Radio
<1>4. AirIsInSequence' /\ RainIsAccounted' /\ IdsAreMarked'
  BY <1>2 DEF RouterInv, AirIsInSequence, SameGauge, InSequence, RainIsAccounted, IdsAreMarked, Radio
<1>5. ReadIsOneCounter' /\ NewIsLater'
  BY <1>1, <1>2 DEF RouterInv, ReadIsOneCounter, SameGauge, NewIsLater, Follows, Radio
<1> QED
  BY <1>3, <1>4, <1>5

\* The clock.
LEMMA TickKeeps ==
    ASSUME RouterInv, Tick
    PROVE  RouterInv'
<1>1. /\ now \in Nat /\ now' = now + 1 /\ air' \subseteq air /\ (~Radio => air' = air)
      /\ UNCHANGED <<medium, gauge, fell, inbox, opened, registry, fileVars, uploadVars, historyVars, faults>>
  BY DEF Tick, RouterInv, TypeOK, Radio
<1>2. TypeOK'
  <2>1. last' \in [Sensors -> [Streams -> {Never} \cup [time : 1..now', digest : Nat \cup {None}]]]
    <3>1. 1..now \subseteq 1..now'
      BY <1>1
    <3>2. {Never} \cup [time : 1..now, digest : Nat \cup {None}]
             \subseteq {Never} \cup [time : 1..now', digest : Nat \cup {None}]
      BY <3>1
    <3> QED
      BY <1>1, <3>2 DEF RouterInv, TypeOK, fileVars
  <2> QED
    BY <1>1, <2>1 DEF RouterInv, TypeOK, uploadVars, fileVars, historyVars
<1>3. Pending' = Pending /\ Pending \subseteq Packet
  BY <1>1, PendingIsTyped DEF Pending, RouterInv
<1>4. PacketsAreSent'
  <2>1. \A p \in Packet : IsSent(p) => IsSent(p)'
    BY <1>1 DEF IsSent, Packet
  <2> QED
    BY <1>1, <1>3, <2>1 DEF RouterInv, TypeOK, PacketsAreSent, Radio
<1>5. AirIsInSequence' /\ ReadIsOneCounter' /\ NewIsLater'
  BY <1>1, <1>3 DEF RouterInv, AirIsInSequence, SameGauge, InSequence, ReadIsOneCounter, NewIsLater,
                    Follows, Radio, fileVars, historyVars
<1>6. RainIsAccounted' /\ IdsAreMarked'
  BY <1>1 DEF RouterInv, RainIsAccounted, IdsAreMarked, Radio, fileVars, historyVars
<1> QED
  BY <1>2, <1>4, <1>5, <1>6 DEF RouterInv

\* Rain, and a counter that starts again: what a sensor has seen only grows, and what it
\* is behind does.
LEMMA SensorsKeep ==
    ASSUME RouterInv, NEW s \in Sensors, RainFalls(s) \/ GaugeResets(s)
    PROVE  RouterInv'
<1>1. /\ gauge \in [Sensors -> Nat] /\ fell \in [Sensors -> Nat] /\ faults \in Nat
      /\ \A r \in Sensors : gauge[r] \in Nat /\ fell[r] \in Nat /\ gauge[r] <= fell[r]
  BY DEF RouterInv, TypeOK, PacketsAreSent
<1>2. UNCHANGED <<medium, now, air, inbox, opened, registry, fileVars, uploadVars, historyVars>>
  BY DEF RainFalls, GaugeResets
<1>3. /\ gauge' \in [Sensors -> Nat] /\ fell' \in [Sensors -> Nat] /\ faults' \in Nat
      /\ \A r \in Sensors :
            /\ gauge'[r] \in Nat /\ fell'[r] \in Nat
            /\ fell[r] <= fell'[r] /\ fell[r] - gauge[r] <= fell'[r] - gauge'[r]
            /\ gauge'[r] <= fell'[r]
            /\ gauge'[r] = fell'[r] => gauge[r] = fell[r]
  <2>1. CASE RainFalls(s)
    <3>1. /\ fell' = [fell EXCEPT ![s] = fell[s] + 1] /\ gauge' = [gauge EXCEPT ![s] = gauge[s] + 1]
          /\ faults' = faults
      BY <2>1 DEF RainFalls
    <3> QED
      BY <1>1, <3>1
  <2>2. CASE GaugeResets(s)
    <3>1. /\ gauge[s] > 0 /\ fell' = fell /\ gauge' = [gauge EXCEPT ![s] = 0]
          /\ faults' = faults + 1
      BY <2>2 DEF GaugeResets, Fault
    <3> QED
      BY <1>1, <3>1
  <2> QED
    BY <2>1, <2>2
<1>4. Pending' = Pending /\ Pending \subseteq Packet /\ air \subseteq Packet
  BY <1>2, PendingIsTyped DEF Pending, RouterInv, TypeOK
<1>5. TypeOK'
  BY <1>2, <1>3 DEF RouterInv, TypeOK, uploadVars, fileVars, historyVars
<1>6. PacketsAreSent'
  <2>1. ASSUME NEW p \in Packet, IsSent(p) PROVE IsSent(p)'
    <3>1. p.sensor \in Sensors /\ p.fell \in Nat /\ p.total \in Nat \cup {None}
      BY DEF Packet
    <3> QED
      BY <1>1, <1>2, <1>3, <2>1, <3>1 DEF IsSent, None
  <2> QED
    BY <1>2, <1>3, <1>4, <2>1 DEF RouterInv, PacketsAreSent, Radio
<1>7. RainIsAccounted'
  <2>1. \A r \in Sensors : latest[r] \in Nat \cup {None} /\ baseline[r] \in Nat \cup {None}
    BY DEF RouterInv, TypeOK
  <2>2. UNCHANGED <<first, latest, baseline, rain>>
    BY <1>2 DEF fileVars, historyVars
  <2> QED
    BY <1>1, <1>3, <2>1, <2>2 DEF RouterInv, RainIsAccounted, None
<1>8. AirIsInSequence' /\ ReadIsOneCounter' /\ NewIsLater' /\ IdsAreMarked'
  BY <1>2, <1>4 DEF RouterInv, AirIsInSequence, SameGauge, InSequence, ReadIsOneCounter, NewIsLater,
                    Follows, IdsAreMarked, Radio, fileVars, historyVars
<1> QED
  BY <1>5, <1>6, <1>7, <1>8 DEF RouterInv

\* A packet is later than all that were sent before this time.
LEMMA TransmitKeeps ==
    ASSUME RouterInv, NEW s \in Sensors, NEW k \in Streams, Transmit(s, k)
    PROVE  RouterInv'
<1> DEFINE new == [sensor |-> s, stream |-> k, time |-> now, fell |-> fell[s],
                   total |-> IF k \in RainStreams THEN gauge[s] ELSE None]
<1>1. /\ gauge[s] \in Nat /\ fell[s] \in Nat /\ gauge[s] <= fell[s] /\ now \in Nat /\ now >= 1
  BY DEF RouterInv, TypeOK, PacketsAreSent
<1>2. /\ new \in Packet /\ new.sensor = s /\ new.stream = k /\ new.time = now /\ new.fell = fell[s]
      /\ new.total = IF k \in RainStreams THEN gauge[s] ELSE None
  BY <1>1 DEF Packet
<1>3. /\ air' = air \cup {new}
      /\ UNCHANGED <<medium, now, gauge, fell, inbox, opened, registry, fileVars, uploadVars, historyVars, faults>>
  BY DEF Transmit
<1> HIDE DEF new
<1>4. TypeOK'
  BY <1>2, <1>3 DEF RouterInv, TypeOK, uploadVars, fileVars, historyVars
<1>5. Pending' = Pending /\ Pending \subseteq Packet /\ air \subseteq Packet
  BY <1>3, PendingIsTyped DEF Pending, RouterInv, TypeOK
<1>6. IsSent(new)
  BY <1>1, <1>2 DEF IsSent, None
<1>7. PacketsAreSent'
  BY <1>3, <1>5, <1>6 DEF RouterInv, PacketsAreSent, IsSent, Radio
<1>8. AirIsInSequence'
  <2>1. ASSUME NEW p \in air, SameGauge(p, new) PROVE ~(now < p.time) /\ InSequence(p, new)
    <3>1. IsSent(p) /\ p.sensor = s /\ k \in RainStreams /\ p.time \in Nat
      BY <1>2, <1>5, <2>1 DEF RouterInv, PacketsAreSent, SameGauge, Packet, None
    <3> QED
      BY <1>1, <1>2, <2>1, <3>1 DEF IsSent, InSequence, SameGauge
  <2>2. ~(new.time < new.time)
    BY <1>1, <1>2
  <2>3. \A p \in air : SameGauge(new, p) => SameGauge(p, new)
    BY DEF SameGauge
  <2> QED
    BY <1>2, <1>3, <2>1, <2>2, <2>3 DEF RouterInv, AirIsInSequence, SameGauge, InSequence
<1>9. NewIsLater'
  <2>1. new.total # None => Follows(new)
    BY <1>1, <1>2 DEF RouterInv, RainIsAccounted, Follows, None
  <2> QED
    BY <1>3, <1>5, <2>1 DEF RouterInv, NewIsLater, Follows, Radio, fileVars, historyVars
<1>10. ReadIsOneCounter' /\ RainIsAccounted' /\ IdsAreMarked'
  BY <1>3, <1>5 DEF RouterInv, ReadIsOneCounter, SameGauge, RainIsAccounted, IdsAreMarked, Radio,
                    fileVars, historyVars
<1> QED
  BY <1>4, <1>7, <1>8, <1>9, <1>10 DEF RouterInv

\* A read of the radio returns what the sensors count now.
LEMMA ReadKeeps ==
    ASSUME RouterInv, Read
    PROVE  RouterInv'
<1>1. inbox' \in Seq(Packet) /\ Pending' \subseteq {p \in air : Receivable(p)}
  BY ReadIsSent DEF RouterInv
<1>2. UNCHANGED <<deviceVars, opened, registry, fileVars, uploadVars, historyVars, faults>>
  BY DEF Read
<1>3. TypeOK'
  BY <1>1, <1>2 DEF RouterInv, TypeOK, uploadVars, deviceVars, fileVars, historyVars
<1>4. PacketsAreSent'
  BY <1>1, <1>2 DEF RouterInv, PacketsAreSent, IsSent, Radio, deviceVars
<1>5. ReadIsOneCounter'
  BY <1>1, <1>2 DEF ReadIsOneCounter, SameGauge, Receivable, Radio, deviceVars
<1>6. ASSUME Radio, NEW p \in Pending', p.total # None PROVE Follows(p)
  <2>1. p \in Packet /\ p.fell = fell[p.sensor] /\ p.total = gauge[p.sensor]
    BY <1>1, <1>6 DEF Receivable, RouterInv, TypeOK
  <2>2. p.sensor \in Sensors
    BY <2>1 DEF Packet
  <2> QED
    BY <2>1, <2>2 DEF RouterInv, RainIsAccounted, Follows
<1>7. NewIsLater'
  BY <1>2, <1>6 DEF RouterInv, NewIsLater, Follows, Radio, deviceVars, fileVars, historyVars
<1>8. AirIsInSequence' /\ RainIsAccounted' /\ IdsAreMarked'
  BY <1>2 DEF RouterInv, AirIsInSequence, SameGauge, InSequence, RainIsAccounted, IdsAreMarked, Radio,
              deviceVars, fileVars, historyVars
<1> QED
  BY <1>3, <1>4, <1>5, <1>7, <1>8 DEF RouterInv

\* An event: its rain is what the counter has gone up by, and it moves the mark of its
\* stream and, with a counter, the baseline.
LEMMA JournalKeeps ==
    ASSUME RouterInv, JournalEvent
    PROVE  RouterInv'
<1> DEFINE p == Head(inbox)
           s == p.sensor
           stamp == [time |-> p.time, digest |-> p.total]
<1>1. /\ inbox # <<>> /\ rows[s] < Capacity
      /\ rows' = [rows EXCEPT ![s] = rows[s] + 1]
      /\ last' = [last EXCEPT ![s][p.stream] = stamp]
      /\ baseline' = [baseline EXCEPT ![s] = IF p.total = None THEN baseline[s] ELSE p.total]
      /\ inbox' = Tail(inbox)
      /\ ids' = [ids EXCEPT ![s] = ids[s] \cup {<<p.stream, p.time>>}]
      /\ count' = [count EXCEPT ![s] = count[s] + 1]
      /\ rain' = [rain EXCEPT ![s] = rain[s] + RainOf(p)]
      /\ IF p.total = None THEN UNCHANGED <<first, latest>>
         ELSE /\ first' = [first EXCEPT ![s] = IF first[s] = None THEN p.fell ELSE first[s]]
              /\ latest' = [latest EXCEPT ![s] = p.fell]
      /\ UNCHANGED <<medium, now, gauge, fell, air, opened, registry, uploadVars, faults>>
  BY DEF JournalEvent, Journal, Routing, Current, Record, MoveBaseline, deviceVars
<1>2. ~OutOfOrder(p) /\ ~Conflict(p)
  BY DEF JournalEvent, Current
<1>3. p \in Pending /\ p \in Packet /\ Pending \subseteq Packet
  BY <1>1, PendingIsTyped DEF RouterInv
<1> HIDE DEF p
<1>4. /\ s \in Sensors /\ p.stream \in Streams /\ p.time \in Nat /\ p.fell \in Nat
      /\ p.total \in Nat \cup {None}
  BY <1>3 DEF Packet
<1>5. IsSent(p)
  BY <1>3 DEF RouterInv, PacketsAreSent
<1>6. last[s][p.stream].time \in Nat
  <2>1. last[s][p.stream] \in {Never} \cup [time : 1..now, digest : Nat \cup {None}]
    BY <1>4 DEF RouterInv, TypeOK
  <2> QED
    BY <2>1 DEF Never, RouterInv, TypeOK
<1>7. ~Radio => p.time > last[s][p.stream].time
  BY <1>2, <1>4, <1>6 DEF OutOfOrder, Conflict, Previous
<1>8. p.total # None => Follows(p)
  <2>1. CASE Radio
    BY <1>3, <2>1 DEF RouterInv, NewIsLater
  <2>2. CASE ~Radio
    BY <1>3, <1>7, <2>2 DEF RouterInv, NewIsLater, PacketsAreSent
  <2> QED
    BY <2>1, <2>2
<1>9. /\ gauge[s] \in Nat /\ fell[s] \in Nat /\ rain[s] \in Nat
      /\ count[s] \in Nat
      /\ first[s] \in Nat \cup {None} /\ latest[s] \in Nat \cup {None} /\ baseline[s] \in Nat \cup {None}
  BY <1>4 DEF RouterInv, TypeOK
<1>10. RainOf(p) \in Nat
  BY <1>4, <1>9 DEF RainOf, None
<1>11. Takes /\ inbox' \in Seq(Packet) /\ Pending' \subseteq Pending
  BY <1>1, PendingIsTyped DEF RouterInv, Takes
<1>12. TypeOK'
  <2>1. last' \in [Sensors -> [Streams -> {Never} \cup [time : 1..now, digest : Nat \cup {None}]]]
    <3>1. stamp \in [time : 1..now, digest : Nat \cup {None}]
      BY <1>4, <1>5 DEF IsSent, RouterInv, TypeOK
    <3> DEFINE Stamps == {Never} \cup [time : 1..now, digest : Nat \cup {None}]
    <3>2. stamp \in Stamps /\ last \in [Sensors -> [Streams -> Stamps]]
      BY <3>1 DEF RouterInv, TypeOK
    <3> HIDE DEF Stamps, stamp
    <3>3. last' \in [Sensors -> [Streams -> Stamps]]
      BY <1>1, <1>4, <3>2
    <3> QED
      BY <3>3 DEF Stamps
  <2>2. rows' \in [Sensors -> 0..Capacity]
    <3>1. rows \in [Sensors -> 0..Capacity] /\ rows[s] \in 0..Capacity /\ Capacity \in Nat
      BY <1>4, RouterAssumption DEF RouterInv, TypeOK
    <3>2. rows[s] + 1 \in 0..Capacity
      BY <1>1, <3>1
    <3> QED
      BY <1>1, <3>1, <3>2
  <2>3. baseline' \in [Sensors -> Nat \cup {None}]
    BY <1>1, <1>4, <1>9 DEF RouterInv, TypeOK
  <2>4. ids' \in [Sensors -> SUBSET (Streams \X Nat)]
    <3>1. ids \in [Sensors -> SUBSET (Streams \X Nat)] /\ <<p.stream, p.time>> \in Streams \X Nat
      BY <1>4 DEF RouterInv, TypeOK
    <3>2. ids[s] \cup {<<p.stream, p.time>>} \in SUBSET (Streams \X Nat)
      BY <1>4, <3>1
    <3> QED
      BY <1>1, <1>4, <3>1, <3>2
  <2>5. count' \in [Sensors -> Nat] /\ rain' \in [Sensors -> Nat]
    <3>1. count \in [Sensors -> Nat] /\ rain \in [Sensors -> Nat]
      BY DEF RouterInv, TypeOK
    <3>2. count[s] + 1 \in Nat /\ rain[s] + RainOf(p) \in Nat
      BY <1>9, <1>10
    <3>3. count' \in [Sensors -> Nat]
      BY <1>1, <1>4, <3>1, <3>2
    <3>4. rain' \in [Sensors -> Nat]
      BY <1>1, <1>4, <3>1, <3>2
    <3> QED
      BY <3>3, <3>4
  <2>6. first' \in [Sensors -> Nat \cup {None}] /\ latest' \in [Sensors -> Nat \cup {None}]
    BY <1>1, <1>4, <1>9 DEF RouterInv, TypeOK
  <2> QED
    BY <1>1, <1>11, <2>1, <2>2, <2>3, <2>4, <2>5, <2>6 DEF RouterInv, TypeOK, uploadVars
<1>13. PacketsAreSent' /\ AirIsInSequence' /\ ReadIsOneCounter'
  BY <1>1, <1>11 DEF RouterInv, PacketsAreSent, IsSent, AirIsInSequence, InSequence, SameGauge,
                    ReadIsOneCounter, Radio
<1>14. \A r \in Sensors : r # s =>
          first'[r] = first[r] /\ latest'[r] = latest[r] /\ baseline'[r] = baseline[r] /\ rain'[r] = rain[r]
  BY <1>1, <1>4 DEF RouterInv, TypeOK
<1>15. ASSUME p.total = None PROVE RainIsAccounted' /\ NewIsLater'
  <2>1. /\ UNCHANGED <<first, latest>> /\ baseline'[s] = baseline[s] /\ RainOf(p) = 0
        /\ rain'[s] = rain[s]
    BY <1>1, <1>4, <1>9, <1>15 DEF RouterInv, TypeOK, RainOf
  <2>2. RainIsAccounted'
    BY <1>1, <1>14, <2>1 DEF RouterInv, RainIsAccounted
  <2>3. ASSUME NEW q \in Packet, q.total # None, IsSent(q)
        PROVE  /\ Follows(q)' <=> Follows(q)
               /\ last'[q.sensor][q.stream] = last[q.sensor][q.stream]
    <3>1. q.stream # p.stream /\ q.sensor \in Sensors /\ q.stream \in Streams
      BY <1>5, <1>15, <2>3 DEF IsSent, Packet
    <3>2. baseline'[q.sensor] = baseline[q.sensor]
      BY <1>14, <2>1, <3>1
    <3>3. last'[q.sensor][q.stream] = last[q.sensor][q.stream]
      BY <1>1, <1>4, <3>1 DEF RouterInv, TypeOK
    <3> QED
      BY <2>1, <3>2, <3>3 DEF Follows
  <2>4. NewIsLater'
    <3>1. Pending' \subseteq Packet /\ air' = air /\ air \subseteq Packet /\ medium' = medium
          /\ \A q \in air \cup Pending' : IsSent(q)
      BY <1>1, <1>3, <1>11 DEF RouterInv, TypeOK, PacketsAreSent
    <3>2. ASSUME Radio, NEW q \in Pending', q.total # None PROVE Follows(q)'
      BY <1>11, <2>3, <3>1, <3>2 DEF RouterInv, NewIsLater
    <3>3. ASSUME ~Radio, NEW q \in air, q.total # None, q.time > last'[q.sensor][q.stream].time
          PROVE  Follows(q)'
      BY <2>3, <3>1, <3>3 DEF RouterInv, NewIsLater
    <3> QED
      BY <3>1, <3>2, <3>3 DEF NewIsLater, Radio
  <2> QED
    BY <2>2, <2>4
<1>16. ASSUME p.total # None PROVE RainIsAccounted' /\ NewIsLater'
  <2>1. /\ first'[s] = IF first[s] = None THEN p.fell ELSE first[s]
        /\ latest'[s] = p.fell /\ baseline'[s] = p.total /\ rain'[s] = rain[s] + RainOf(p)
        /\ p.total \in Nat
    BY <1>1, <1>4, <1>9, <1>16 DEF RouterInv, TypeOK
  <2>2. /\ first'[s] # None /\ latest'[s] # None /\ baseline'[s] # None
        /\ latest'[s] <= fell[s] /\ baseline'[s] <= latest'[s]
        /\ latest'[s] - baseline'[s] <= fell[s] - gauge[s]
    BY <1>4, <1>5, <1>9, <1>16, <2>1 DEF IsSent, None
  <2>3. /\ rain'[s] <= latest'[s] - first'[s]
        /\ gauge[s] = fell[s] => rain'[s] = latest'[s] - first'[s]
    <3>1. CASE first[s] = None
      <4>1. RainOf(p) = 0 /\ rain[s] = 0
        BY <1>4, <3>1 DEF RouterInv, RainIsAccounted, RainOf
      <4> QED
        BY <1>4, <2>1, <3>1, <4>1
    <3>2. CASE first[s] # None
      <4>1. /\ latest[s] \in Nat /\ baseline[s] \in Nat /\ first[s] \in Nat
            /\ baseline[s] <= latest[s] /\ latest[s] - baseline[s] <= fell[s] - gauge[s]
            /\ rain[s] <= latest[s] - first[s]
            /\ gauge[s] = fell[s] => rain[s] = latest[s] - first[s]
        BY <1>4, <1>9, <3>2 DEF RouterInv, RainIsAccounted
      <4>2. latest[s] <= p.fell /\ latest[s] - baseline[s] <= p.fell - p.total
        BY <1>8, <1>16, <4>1 DEF Follows, None
      <4>3. RainOf(p) = IF p.total < baseline[s] THEN 0 ELSE p.total - baseline[s]
        BY <1>16, <4>1 DEF RainOf, None
      <4>4. RainOf(p) <= p.fell - latest[s]
        BY <1>4, <2>1, <4>1, <4>2, <4>3
      <4>5. gauge[s] = fell[s] => RainOf(p) = p.fell - latest[s]
        <5>1. p.total <= p.fell /\ p.fell - p.total <= fell[s] - gauge[s]
          BY <1>5, <1>16 DEF IsSent
        <5> QED
          BY <1>4, <1>9, <2>1, <4>1, <4>2, <4>3, <5>1
      <4> QED
        BY <1>4, <1>9, <1>10, <2>1, <3>2, <4>1, <4>4, <4>5
    <3> QED
      BY <3>1, <3>2
  <2>4. RainIsAccounted'
    <3>1. ASSUME NEW r \in Sensors, r # s
          PROVE  UNCHANGED <<first[r], latest[r], baseline[r], rain[r], gauge[r], fell[r]>>
      BY <1>1, <1>14, <3>1
    <3>2. gauge'[s] = gauge[s] /\ fell'[s] = fell[s]
      BY <1>1
    <3> HIDE DEF s
    <3> QED
      BY <1>4, <2>2, <2>3, <3>1, <3>2 DEF RouterInv, RainIsAccounted
  <2>5. ASSUME Radio, NEW q \in Pending', q.total # None PROVE Follows(q)'
    <3>1. q \in Pending /\ q \in Packet /\ q.sensor \in Sensors
      BY <1>3, <1>11, <2>5 DEF Packet
    <3>2. CASE q.sensor = s
      <4>1. q.total = p.total /\ q.fell = p.fell
        BY <1>3, <1>16, <2>5, <3>1, <3>2 DEF RouterInv, ReadIsOneCounter, SameGauge
      <4> QED
        BY <1>4, <2>1, <3>2, <4>1 DEF Follows
    <3>3. CASE q.sensor # s
      <4>1. Follows(q)
        BY <2>5, <3>1 DEF RouterInv, NewIsLater
      <4> QED
        BY <1>14, <3>1, <3>3, <4>1 DEF Follows
    <3> QED
      BY <3>2, <3>3
  <2>6. ASSUME ~Radio, NEW q \in air, q.total # None, q.time > last'[q.sensor][q.stream].time
        PROVE  Follows(q)'
    <3>1. q \in Packet /\ q.sensor \in Sensors /\ q.stream \in RainStreams /\ q.stream \in Streams
      BY <2>6 DEF RouterInv, TypeOK, PacketsAreSent, IsSent, Packet
    <3>2. q.stream = p.stream
      BY <1>5, <1>16, <3>1, RouterAssumption DEF IsSent
    <3>3. CASE q.sensor = s
      <4>1. last'[s][p.stream].time = p.time
        BY <1>1, <1>4 DEF RouterInv, TypeOK
      <4>2. p \in air /\ p.time < q.time
        BY <1>3, <2>6, <3>1, <3>2, <3>3, <4>1 DEF RouterInv, PacketsAreSent, Packet
      <4>3. InSequence(p, q)
        BY <1>16, <2>6, <3>3, <4>2 DEF RouterInv, AirIsInSequence, SameGauge
      <4> QED
        BY <2>1, <3>3, <4>3 DEF Follows, InSequence
    <3>4. CASE q.sensor # s
      <4>1. last'[q.sensor] = last[q.sensor]
        BY <1>1, <1>4, <3>1, <3>4 DEF RouterInv, TypeOK
      <4>2. Follows(q)
        BY <2>6, <4>1 DEF RouterInv, NewIsLater
      <4> QED
        BY <1>14, <3>1, <3>4, <4>2 DEF Follows
    <3> QED
      BY <3>3, <3>4
  <2>7. NewIsLater'
    BY <1>1, <2>5, <2>6 DEF NewIsLater, Radio
  <2> QED
    BY <2>4, <2>7
<1>17. IdsAreMarked'
  <2>1. SUFFICES ASSUME ~Radio, NEW r \in Sensors
                 PROVE  /\ IsFiniteSet(ids'[r]) /\ count'[r] = Cardinality(ids'[r])
                        /\ \A id \in ids'[r] : id[2] <= last'[r][id[1]].time
    BY <1>1 DEF IdsAreMarked, Radio
  <2>2. /\ IsFiniteSet(ids[r]) /\ count[r] = Cardinality(ids[r])
        /\ \A id \in ids[r] : id[2] <= last[r][id[1]].time
    BY <2>1 DEF RouterInv, IdsAreMarked
  <2>3. CASE r # s
    BY <1>1, <1>4, <2>2, <2>3 DEF RouterInv, TypeOK
  <2>4. CASE r = s
    <3> DEFINE new == <<p.stream, p.time>>
    <3>1. new \notin ids[s]
      <4>1. new[1] = p.stream /\ new[2] = p.time
        OBVIOUS
      <4> QED
        BY <1>4, <1>6, <1>7, <2>1, <2>2, <2>4, <4>1
    <3>2. ids'[r] = ids[s] \cup {new} /\ count'[r] = count[s] + 1
      BY <1>1, <1>4, <2>4 DEF RouterInv, TypeOK
    <3>3. IsFiniteSet(ids'[r]) /\ count'[r] = Cardinality(ids'[r])
      <4> HIDE DEF new
      <4>1. IsFiniteSet(ids[s] \cup {new}) /\ Cardinality(ids[s] \cup {new}) = Cardinality(ids[s]) + 1
        BY <2>2, <2>4, <3>1, FS_AddElement
      <4> QED
        BY <2>2, <2>4, <3>2, <4>1
    <3>4. ASSUME NEW id \in ids'[r] PROVE id[2] <= last'[r][id[1]].time
      <4>1. CASE id = new
        <5>1. last'[s][p.stream].time = p.time
          BY <1>1, <1>4 DEF RouterInv, TypeOK
        <5> QED
          BY <1>4, <2>4, <4>1, <5>1
      <4>2. CASE id \in ids[s]
        <5>1. id \in Streams \X Nat
          BY <1>4, <4>2 DEF RouterInv, TypeOK
        <5>2. id[1] \in Streams /\ id[2] \in Nat /\ id[2] <= last[s][id[1]].time
          BY <2>2, <2>4, <4>2, <5>1
        <5>3. CASE id[1] = p.stream
          <6>1. last'[s][p.stream].time = p.time
            BY <1>1, <1>4 DEF RouterInv, TypeOK
          <6> QED
            BY <1>4, <1>6, <1>7, <2>1, <2>4, <5>2, <5>3, <6>1
        <5>4. CASE id[1] # p.stream
          <6>1. last'[s][id[1]] = last[s][id[1]]
            BY <1>1, <1>4, <5>2, <5>4 DEF RouterInv, TypeOK
          <6> QED
            BY <2>4, <5>2, <6>1
        <5> QED
          BY <5>3, <5>4
      <4> QED
        BY <3>2, <3>4, <4>1, <4>2
    <3> QED
      BY <3>3, <3>4
  <2> QED
    BY <2>3, <2>4
<1> QED
  BY <1>12, <1>13, <1>15, <1>16, <1>17 DEF RouterInv

\* The routing without an event, restarts and the uploader only take packets out of the
\* inbox; the registry never grows past its limit.
LEMMA RestKeeps ==
    ASSUME RouterInv,
           \/ Register \/ Open \/ Reject \/ Suppress \/ Restart \/ UploaderRestarts
           \/ UNCHANGED vars
           \/ \E s \in Sensors : Discover(s) \/ Upload(s) \/ Decides(s)
    PROVE  RouterInv'
<1>t. TypeOK
  BY DEF RouterInv
<1>p. inbox # <<>> => Head(inbox) \in Packet /\ Head(inbox).sensor \in Sensors
  <2> HAVE inbox # <<>>
  <2>1. Head(inbox) \in Packet
    BY <1>t, PendingIsTyped
  <2> QED
    BY <2>1 DEF Packet
<1>1. Takes
  BY DEF Takes, Register, Open, Reject, Suppress, Restart, Discover, UploaderRestarts, Upload,
         Decides, vars, DropRead, Routing
<1>2. UNCHANGED accountVars
  BY DEF accountVars, fileVars, historyVars, Register, Open, Reject, Suppress, Restart, Discover,
         UploaderRestarts, Upload, Decides, uploadVars, vars
<1>3. inbox' \in Seq(Packet)
  BY <1>1, <1>t, PendingIsTyped
<1>4. registry' \in SUBSET Sensors /\ Cardinality(registry') <= Maximum
  <2>1. CASE Register
    <3>1. CASE registry' = registry
      BY <1>t, <3>1 DEF TypeOK
    <3>2. CASE registry' # registry
      <4>1. /\ registry' = registry \cup {Head(inbox).sensor} /\ Head(inbox).sensor \notin registry
            /\ ~(Cardinality(registry) >= Maximum) /\ Head(inbox).sensor \in Sensors
        BY <1>p, <2>1, <3>2 DEF Register
      <4>2. IsFiniteSet(registry) /\ registry \subseteq Sensors
        BY <1>t, RouterAssumption, FS_Subset DEF TypeOK
      <4>3. Cardinality(registry') = Cardinality(registry) + 1 /\ Cardinality(registry) \in Nat
        BY <4>1, <4>2, FS_AddElement, FS_CardinalityType
      <4> QED
        BY <4>1, <4>2, <4>3, RouterAssumption
    <3> QED
      BY <3>1, <3>2
  <2>2. CASE ~Register
    <3>1. registry' = registry
      BY <2>2 DEF Open, Reject, Suppress, Restart, Discover, UploaderRestarts, Upload, Decides, vars
    <3> QED
      BY <1>t, <3>1 DEF TypeOK
  <2> QED
    BY <2>1, <2>2
<1>5. opened' \in SUBSET Sensors /\ faults' \in Nat
  BY <1>t, <1>p DEF TypeOK, Register, Open, Reject, Suppress, Restart, Discover, UploaderRestarts, Upload,
                    Decides, vars, Fault
<1>9. discovered' \in SUBSET Sensors /\ blocked' \in SUBSET Sensors
  BY <1>t DEF TypeOK, Register, Open, Reject, Suppress, Restart, Discover, UploaderRestarts, Upload,
              Decides, uploadVars, vars
<1>6. rows' \in [Sensors -> 0..Capacity]
  <2>1. rows \in [Sensors -> 0..Capacity] /\ Capacity \in Nat
    BY <1>t, RouterAssumption DEF TypeOK
  <2>2. CASE \E s \in Sensors : Upload(s)
    <3>1. PICK s \in Sensors : rows[s] > 0 /\ rows' = [rows EXCEPT ![s] = rows[s] - 1]
      BY <2>2 DEF Upload
    <3>2. rows[s] - 1 \in 0..Capacity
      BY <2>1, <3>1
    <3> QED
      BY <2>1, <3>1, <3>2
  <2>3. CASE ~ \E s \in Sensors : Upload(s)
    BY <2>1, <2>3 DEF fileVars, Register, Open, Reject, Suppress, Restart, Discover, UploaderRestarts,
                      Decides, vars
  <2> QED
    BY <2>2, <2>3
<1>7. TypeOK'
  BY <1>t, <1>2, <1>3, <1>4, <1>5, <1>6, <1>9 DEF TypeOK, accountVars, deviceVars, historyVars
<1> QED
  BY <1>1, <1>2, <1>7, TakingKeeps DEF RouterInv

LEMMA RouterStarts == Init => RouterInv
<1> SUFFICES ASSUME Init PROVE RouterInv
  OBVIOUS
<1>1. TypeOK
  <2>1. Cardinality({}) = 0 /\ Maximum >= 0 /\ Capacity \in Nat
    BY FS_EmptySet, RouterAssumption
  <2>2. last \in [Sensors -> [Streams -> {Never} \cup [time : 1..now, digest : Nat \cup {None}]]]
    BY DEF Init
  <2>3. blocked \in SUBSET Sensors
    BY RouterAssumption DEF Init, Bound
  <2> QED
    BY <2>1, <2>2, <2>3 DEF Init, TypeOK, Packet
<1>2. Pending = {}
  BY DEF Init, Pending
<1>3. PacketsAreSent /\ AirIsInSequence /\ ReadIsOneCounter /\ NewIsLater
  BY <1>2 DEF Init, PacketsAreSent, AirIsInSequence, ReadIsOneCounter, NewIsLater
<1>4. RainIsAccounted
  BY DEF Init, RainIsAccounted
<1>5. IdsAreMarked
  BY FS_EmptySet DEF Init, IdsAreMarked
<1> QED
  BY <1>1, <1>3, <1>4, <1>5 DEF RouterInv

\* Every step keeps it.
LEMMA RouterKept == RouterInv /\ [Next]_vars => RouterInv'
<1> SUFFICES ASSUME RouterInv, [Next]_vars PROVE RouterInv'
  OBVIOUS
<1>1. Bound.sensors \subseteq Sensors /\ Bound.blockable \subseteq Sensors
  BY RouterAssumption DEF RouterInv, TypeOK, Bound
<1>2. CASE Tick
  BY <1>2, TickKeeps
<1>3. CASE Read
  BY <1>3, ReadKeeps
<1>4. CASE JournalEvent
  BY <1>4, JournalKeeps
<1>5. CASE Register \/ Open \/ Reject \/ Suppress \/ Restart \/ UploaderRestarts
  BY <1>5, RestKeeps
<1>6. ASSUME NEW s \in Bound.sensors, RainFalls(s) \/ GaugeResets(s) PROVE RouterInv'
  BY <1>1, <1>6, SensorsKeep
<1>7. ASSUME NEW s \in Bound.sensors, Discover(s) \/ Upload(s) PROVE RouterInv'
  BY <1>1, <1>7, RestKeeps
<1>10. ASSUME NEW s \in Bound.blockable, Decides(s) PROVE RouterInv'
  BY <1>1, <1>10, RestKeeps
<1>8. ASSUME NEW s \in Bound.sensors, NEW k \in Streams, Transmit(s, k) PROVE RouterInv'
  BY <1>1, <1>8, TransmitKeeps
<1>9. CASE UNCHANGED vars
  BY <1>9, RestKeeps
<1> QED
  BY <1>2, <1>3, <1>4, <1>5, <1>6, <1>7, <1>8, <1>9, <1>10 DEF Next, Route

\* What the routing relies on, whatever the radio and the network do.
THEOREM RouterInvariant == Spec => []RouterInv
<1> QED
  BY RouterStarts, RouterKept, PTL DEF Spec

\* The account of a sensor is what its events add up to.
LEMMA RainIsInBooks == RouterInv => RainAddsUp
<1> SUFFICES ASSUME RouterInv PROVE RainAddsUp
  OBVIOUS
<1>1. \A s \in Sensors :
          rain[s] \in Nat /\ first[s] \in Nat \cup {None} /\ latest[s] \in Nat \cup {None}
  BY DEF RouterInv, TypeOK
<1> QED
  BY <1>1 DEF RouterInv, RainIsAccounted, RainAddsUp, RainIsNotInvented, RainIsComplete

\* Whatever is lost, repeated, reordered, retried or reset, the events of a sensor never
\* add up to more rain than fell from the first to the last of them, and to all of it as
\* long as its counter was not reset (Router.append moves the baseline with the event).
THEOREM SensorRainAddsUp == Spec => []RainAddsUp
<1> QED
  BY RainIsInBooks, RouterInvariant, PTL

\* Each id is counted once.
LEMMA IdsAreCounted == RouterInv => IdsAreUnique
BY DEF RouterInv, IdsAreMarked, IdsAreUnique

\* No two events of a sensor have the same stream and timestamp, of which their id is
\* made (network_sources.py, event).
THEOREM EventIdsAreUnique == Spec => []IdsAreUnique
<1> QED
  BY IdsAreCounted, RouterInvariant, PTL

(***************************************************************************)
(* SdrReceiver.                                                            *)
(***************************************************************************)

\* The order of the short lines in a sequence of chunks, and between two of them.
Chunks(s) == {s[i] : i \in 1..Len(s)}
Ascends(s) ==
    \A i, j \in 1..Len(s) : i < j /\ IsShort(s[i]) /\ IsShort(s[j]) => s[i].line < s[j].line
IsBelow(C, D) == \A c \in C, d \in D : IsShort(c) /\ IsShort(d) => c.line < d.line
ShortLines(C) == {c.line : c \in {d \in C : IsShort(d)}}

UnderWay == Chunks(heard) \cup Chunks(queue) \cup Chunks(held) \cup Chunks(pipe)

\* Nothing has been printed beyond the last line, and from the decoded lines to those in
\* the pipe everything is in order.
LinesAreInOrder ==
    /\ Ascends(heard) /\ Ascends(queue) /\ Ascends(held) /\ Ascends(pipe)
    /\ IsBelow(Chunks(heard), Chunks(queue)) /\ IsBelow(Chunks(heard), Chunks(held))
    /\ IsBelow(Chunks(heard), Chunks(pipe)) /\ IsBelow(Chunks(queue), Chunks(held))
    /\ IsBelow(Chunks(queue), Chunks(pipe)) /\ IsBelow(Chunks(held), Chunks(pipe))
    /\ \A c \in UnderWay : c.line <= lines

\* As long as the worker listens no short line is lost; the reader holds a line only
\* while it puts it.
NoLineIsLost ==
    /\ reader # "put" => held = <<>>
    /\ worker \in Listening => ~closed /\ ShortLines(UnderWay) = sent

\* A long line is two chunks, and the reader is inside it exactly between them.
LongLinesAreWhole ==
    /\ \A i \in 1..Len(pipe) :
          /\ pipe[i].full => /\ pipe[i].first /\ ~pipe[i].end
                             /\ i < Len(pipe) /\ ~pipe[i + 1].first
          /\ ~pipe[i].first => /\ ~pipe[i].full /\ pipe[i].end
                               /\ IF i = 1 THEN oversized ELSE pipe[i - 1].full
    /\ oversized => Len(pipe) >= 1 /\ ~pipe[1].first
    /\ \A c \in Chunks(heard) \cup Chunks(queue) \cup Chunks(held) : c.first /\ ~c.full

\* The steps of a close are taken in order: the reader is told, the decoder is waited
\* for, and then the reader.
CloseIsInOrder ==
    /\ worker \in {"poll", "term", "wait", "join", "closed"} => closed
    /\ worker \in {"join", "closed"} => decoder = "reaped"
    /\ worker = "closed" => reader = "done"
    /\ parent = "reaped" => decoder \notin Alive

SdrInv == SdrTypeOK /\ LinesAreInOrder /\ NoLineIsLost /\ LongLinesAreWhole /\ CloseIsInOrder

\* Taking the first chunk from a sequence.
LEMMA TakingFirst ==
    ASSUME NEW s \in Seq(Chunk), s # <<>>
    PROVE  /\ Head(s) \in Chunk /\ Tail(s) \in Seq(Chunk) /\ Len(Tail(s)) = Len(s) - 1
           /\ Len(s) \in Nat /\ Len(s) >= 1 /\ Head(s) = s[1]
           /\ \A i \in 1..Len(Tail(s)) : Tail(s)[i] = s[i + 1] /\ i + 1 \in 1..Len(s)
           /\ Chunks(s) = {Head(s)} \cup Chunks(Tail(s))
           /\ Ascends(s) => Ascends(Tail(s)) /\ IsBelow({Head(s)}, Chunks(Tail(s)))
<1>1. /\ Head(s) \in Chunk /\ Tail(s) \in Seq(Chunk) /\ Len(Tail(s)) = Len(s) - 1
      /\ Len(s) \in Nat /\ Len(s) >= 1 /\ Head(s) = s[1]
  OBVIOUS
<1>2. \A i \in 1..Len(Tail(s)) : Tail(s)[i] = s[i + 1] /\ i + 1 \in 1..Len(s)
  BY <1>1
<1>3. Chunks(s) = {Head(s)} \cup Chunks(Tail(s))
  <2>1. ASSUME NEW i \in 1..Len(s) PROVE s[i] \in {Head(s)} \cup Chunks(Tail(s))
    <3>1. CASE i = 1
      BY <1>1, <3>1
    <3>2. CASE i # 1
      <4>1. i - 1 \in 1..Len(Tail(s)) /\ s[i] = Tail(s)[i - 1]
        BY <1>1, <1>2, <3>2
      <4> QED
        BY <4>1 DEF Chunks
    <3> QED
      BY <3>1, <3>2
  <2>2. 1 \in 1..Len(s)
    BY <1>1
  <2>3. Head(s) \in Chunks(s)
    BY <1>1, <2>2 DEF Chunks
  <2>4. Chunks(Tail(s)) \subseteq Chunks(s)
    BY <1>2 DEF Chunks
  <2>5. Chunks(s) \subseteq {Head(s)} \cup Chunks(Tail(s))
    BY <2>1 DEF Chunks
  <2> QED
    BY <2>3, <2>4, <2>5
<1>4. ASSUME Ascends(s) PROVE Ascends(Tail(s)) /\ IsBelow({Head(s)}, Chunks(Tail(s)))
  <2>1. ASSUME NEW i \in 1..Len(Tail(s)), NEW j \in 1..Len(Tail(s)), i < j,
               IsShort(Tail(s)[i]), IsShort(Tail(s)[j])
        PROVE  Tail(s)[i].line < Tail(s)[j].line
    <3>1. i + 1 < j + 1
      BY <2>1
    <3> QED
      BY <1>2, <1>4, <2>1, <3>1 DEF Ascends
  <2>2. ASSUME NEW j \in 1..Len(Tail(s)), IsShort(Head(s)), IsShort(Tail(s)[j])
        PROVE  Head(s).line < Tail(s)[j].line
    <3>1. 1 \in 1..Len(s) /\ 1 < j + 1
      BY <1>1
    <3> QED
      BY <1>1, <1>2, <1>4, <2>2, <3>1 DEF Ascends
  <2> QED
    BY <2>1, <2>2 DEF Ascends, IsBelow, Chunks
<1> QED
  BY <1>1, <1>2, <1>3, <1>4

\* Putting two sequences together.
LEMMA PuttingTogether ==
    ASSUME NEW s \in Seq(Chunk), NEW t \in Seq(Chunk)
    PROVE  /\ s \o t \in Seq(Chunk) /\ Len(s \o t) = Len(s) + Len(t)
           /\ Chunks(s \o t) = Chunks(s) \cup Chunks(t)
           /\ Ascends(s) /\ Ascends(t) /\ IsBelow(Chunks(s), Chunks(t)) => Ascends(s \o t)
<1>1. /\ s \o t \in Seq(Chunk) /\ Len(s \o t) = Len(s) + Len(t) /\ Len(s) \in Nat /\ Len(t) \in Nat
      /\ \A i \in 1..Len(s \o t) : (s \o t)[i] = IF i <= Len(s) THEN s[i] ELSE t[i - Len(s)]
  OBVIOUS
<1>2. ASSUME NEW i \in 1..Len(s \o t)
      PROVE  IF i <= Len(s) THEN (s \o t)[i] = s[i] /\ i \in 1..Len(s)
             ELSE (s \o t)[i] = t[i - Len(s)] /\ i - Len(s) \in 1..Len(t)
  BY <1>1
<1>3. Chunks(s \o t) = Chunks(s) \cup Chunks(t)
  <2>1. Chunks(s \o t) \subseteq Chunks(s) \cup Chunks(t)
    BY <1>2 DEF Chunks
  <2>2. ASSUME NEW i \in 1..Len(s) PROVE s[i] \in Chunks(s \o t)
    <3>1. i \in 1..Len(s \o t) /\ (s \o t)[i] = s[i]
      BY <1>1
    <3> QED
      BY <3>1 DEF Chunks
  <2>3. ASSUME NEW i \in 1..Len(t) PROVE t[i] \in Chunks(s \o t)
    <3>1. /\ i + Len(s) \in 1..Len(s \o t) /\ ~(i + Len(s) <= Len(s)) /\ (i + Len(s)) - Len(s) = i
      BY <1>1
    <3>2. (s \o t)[i + Len(s)] = t[i]
      BY <1>1, <3>1
    <3> QED
      BY <3>1, <3>2 DEF Chunks
  <2> QED
    BY <2>1, <2>2, <2>3 DEF Chunks
<1>4. ASSUME Ascends(s), Ascends(t), IsBelow(Chunks(s), Chunks(t)) PROVE Ascends(s \o t)
  <2>1. SUFFICES ASSUME NEW i \in 1..Len(s \o t), NEW j \in 1..Len(s \o t), i < j,
                        IsShort((s \o t)[i]), IsShort((s \o t)[j])
                 PROVE  (s \o t)[i].line < (s \o t)[j].line
    BY DEF Ascends
  <2>2. CASE j <= Len(s)
    <3>1. i <= Len(s)
      BY <1>1, <2>1, <2>2
    <3> QED
      BY <1>2, <1>4, <2>1, <2>2, <3>1 DEF Ascends
  <2>3. CASE i <= Len(s) /\ ~(j <= Len(s))
    BY <1>2, <1>4, <2>1, <2>3 DEF IsBelow, Chunks
  <2>4. CASE ~(i <= Len(s))
    <3>1. ~(j <= Len(s)) /\ i - Len(s) < j - Len(s)
      BY <1>1, <2>1, <2>4
    <3> QED
      BY <1>2, <1>4, <2>1, <2>4, <3>1 DEF Ascends
  <2> QED
    BY <2>2, <2>3, <2>4
<1> QED
  BY <1>1, <1>3, <1>4

\* What the decoder writes.
LEMMA WritingIsInOrder ==
    ASSUME SdrTypeOK, NEW written \in {Short(lines + 1), Long(lines + 1), CutOff(lines + 1)},
           lines < MaxLines
    PROVE  /\ written \in Seq(Chunk) /\ Ascends(written)
           /\ Len(written) = IF written = Long(lines + 1) THEN 2 ELSE 1
           /\ \A c \in Chunks(written) : c.line = lines + 1
           /\ ShortLines(Chunks(written)) = IF written = Short(lines + 1) THEN {lines + 1} ELSE {}
           /\ \/ Len(written) = 1 /\ ~written[1].full /\ written[1].first
              \/ /\ Len(written) = 2 /\ written[1].full /\ written[1].first /\ ~written[1].end
                 /\ ~written[2].first /\ ~written[2].full /\ written[2].end
<1> DEFINE n == lines + 1
           short == Piece(n, TRUE, FALSE, TRUE)
           begin == Piece(n, TRUE, TRUE, FALSE)
           rest  == Piece(n, FALSE, FALSE, TRUE)
           cut   == Piece(n, TRUE, FALSE, FALSE)
<1>1. n \in 1..MaxLines /\ lines \in Nat
  BY SdrAssumption DEF SdrTypeOK
<1>2. /\ short \in Chunk /\ begin \in Chunk /\ rest \in Chunk /\ cut \in Chunk
      /\ short.line = n /\ begin.line = n /\ rest.line = n /\ cut.line = n
  BY <1>1 DEF Piece, Chunk
<1>3. /\ IsShort(short) /\ ~IsShort(begin) /\ ~IsShort(rest) /\ ~IsShort(cut)
      /\ ~short.full /\ short.first /\ ~cut.full /\ cut.first
      /\ begin.full /\ begin.first /\ ~begin.end /\ ~rest.first /\ ~rest.full /\ rest.end
  BY DEF Piece, IsShort
<1>4. Short(n) = <<short>> /\ Long(n) = <<begin, rest>> /\ CutOff(n) = <<cut>>
  BY DEF Short, Long, CutOff
<1> HIDE DEF n, short, begin, rest, cut
<1>5. Short(n) # Long(n) /\ Short(n) # CutOff(n) /\ CutOff(n) # Long(n)
  <2>1. Len(Short(n)) = 1 /\ Len(Long(n)) = 2 /\ Len(CutOff(n)) = 1
    BY <1>4
  <2>2. Short(n)[1] = short /\ CutOff(n)[1] = cut
    BY <1>4
  <2> QED
    BY <1>3, <2>1, <2>2
<1>6. CASE written = Short(n)
  <2>1. written \in Seq(Chunk) /\ Len(written) = 1 /\ written[1] = short
    BY <1>2, <1>4, <1>6
  <2>2. Chunks(written) = {short}
    BY <2>1 DEF Chunks
  <2>3. ShortLines(Chunks(written)) = {n}
    BY <1>2, <1>3, <2>2 DEF ShortLines
  <2>4. Ascends(written)
    BY <2>1 DEF Ascends
  <2> QED
    BY <1>2, <1>3, <1>5, <1>6, <2>1, <2>2, <2>3, <2>4 DEF n
<1>7. CASE written = Long(n)
  <2>1. /\ written \in Seq(Chunk) /\ Len(written) = 2 /\ written[1] = begin /\ written[2] = rest
    BY <1>2, <1>4, <1>7
  <2>2. Chunks(written) = {begin, rest}
    BY <2>1 DEF Chunks
  <2>3. ShortLines(Chunks(written)) = {}
    BY <1>3, <2>2 DEF ShortLines
  <2>4. Ascends(written)
    BY <1>3, <2>1 DEF Ascends
  <2> QED
    BY <1>2, <1>3, <1>5, <1>7, <2>1, <2>2, <2>3, <2>4 DEF n
<1>8. CASE written = CutOff(n)
  <2>1. written \in Seq(Chunk) /\ Len(written) = 1 /\ written[1] = cut
    BY <1>2, <1>4, <1>8
  <2>2. Chunks(written) = {cut}
    BY <2>1 DEF Chunks
  <2>3. ShortLines(Chunks(written)) = {}
    BY <1>3, <2>2 DEF ShortLines
  <2>4. Ascends(written)
    BY <2>1 DEF Ascends
  <2> QED
    BY <1>2, <1>3, <1>5, <1>8, <2>1, <2>2, <2>3, <2>4 DEF n
<1> QED
  BY <1>6, <1>7, <1>8 DEF n

\* A step that writes keeps pipe and lines typed.
LEMMA WritingIsTyped ==
    ASSUME SdrTypeOK, NEW written \in {Short(lines + 1), Long(lines + 1), CutOff(lines + 1)},
           Write(written)
    PROVE  /\ lines < MaxLines /\ lines' = lines + 1 /\ lines' \in 0..MaxLines
           /\ pipe' = pipe \o written /\ pipe' \in Seq(Chunk) /\ Len(pipe') <= PipeSize
<1>1. /\ lines < MaxLines /\ lines' = lines + 1 /\ pipe' = pipe \o written
      /\ Len(pipe) + Len(written) <= PipeSize
  BY DEF Write
<1>2. lines' \in 0..MaxLines
  BY <1>1, SdrAssumption DEF SdrTypeOK
<1>3. pipe \in Seq(Chunk) /\ written \in Seq(Chunk)
  BY <1>1, WritingIsInOrder DEF SdrTypeOK
<1>4. pipe' \in Seq(Chunk) /\ Len(pipe') = Len(pipe) + Len(written)
  BY <1>1, <1>3, PuttingTogether
<1> QED
  BY <1>1, <1>2, <1>4

\* Every step keeps the types, and queue and pipe within their size.
LEMMA SdrTypeKept == SdrTypeOK /\ [SdrNext]_sdrVars => SdrTypeOK'
<1> SUFFICES ASSUME SdrTypeOK, [SdrNext]_sdrVars PROVE SdrTypeOK'
  OBVIOUS
<1> USE DEF SdrTypeOK, decoderVars, readerVars, workerVars, Alive, Listening, Closing, Gone
<1>1. CASE Prints
  <2>1. PICK written \in {Short(lines + 1), Long(lines + 1)} :
            Write(written) /\ (sent' = sent \cup {lines + 1} \/ sent' = sent)
    BY <1>1 DEF Prints
  <2>2. /\ lines < MaxLines /\ lines' \in 0..MaxLines /\ pipe' \in Seq(Chunk) /\ Len(pipe') <= PipeSize
    BY <2>1, WritingIsTyped
  <2>3. sent' \subseteq 1..MaxLines
    <3>1. lines + 1 \in 1..MaxLines
      BY <2>2, SdrAssumption
    <3> QED
      BY <2>1, <3>1
  <2>4. UNCHANGED <<purpose, decoder, readerVars, queue, workerVars, parent>>
    BY <1>1 DEF Prints
  <2> QED
    BY <2>2, <2>3, <2>4
<1>2. CASE DecoderExits
  <2>1. CASE UNCHANGED <<lines, pipe>>
    BY <1>2, <2>1 DEF DecoderExits
  <2>2. CASE Write(CutOff(lines + 1))
    <3>1. lines' \in 0..MaxLines /\ pipe' \in Seq(Chunk) /\ Len(pipe') <= PipeSize
      BY <2>2, WritingIsTyped
    <3>2. decoder' = "exited" /\ UNCHANGED <<purpose, sent, readerVars, queue, workerVars, parent>>
      BY <1>2 DEF DecoderExits
    <3> QED
      BY <3>1, <3>2
  <2> QED
    BY <1>2, <2>1, <2>2 DEF DecoderExits
<1>3. CASE ReaderLoops \/ EndOfPipe \/ DropHeld
  <2>1. CASE ReaderLoops
    BY <2>1 DEF ReaderLoops
  <2>2. CASE EndOfPipe
    BY <2>2 DEF EndOfPipe
  <2>3. CASE DropHeld
    BY <2>3 DEF DropHeld
  <2> QED
    BY <1>3, <2>1, <2>2, <2>3
<1>4. CASE ReadLine
  <2>1. /\ Head(pipe) \in Chunk /\ Tail(pipe) \in Seq(Chunk) /\ Len(Tail(pipe)) <= PipeSize
    <3>1. pipe # <<>> /\ PipeSize \in Nat
      BY <1>4, SdrAssumption DEF ReadLine
    <3>2. Head(pipe) \in Chunk /\ Tail(pipe) \in Seq(Chunk) /\ Len(Tail(pipe)) = Len(pipe) - 1
      BY <3>1, TakingFirst
    <3> QED
      BY <3>1, <3>2
  <2>2. oversized' \in BOOLEAN
    <3>1. Head(pipe).end \in BOOLEAN
      BY <2>1 DEF Chunk
    <3> QED
      BY <1>4, <3>1 DEF ReadLine
  <2>3. held' \in Seq(Chunk) /\ Len(held') <= 1 /\ reader' \in {"loop", "put"}
    <3>1. <<Head(pipe)>> \in Seq(Chunk) /\ Len(<<Head(pipe)>>) = 1
      BY <2>1
    <3>2. \/ held' = held /\ reader' = "loop"
          \/ held' = <<Head(pipe)>> /\ reader' = "put"
      BY <1>4 DEF ReadLine
    <3>3. CASE held' = held /\ reader' = "loop"
      BY <3>3
    <3>4. CASE held' = <<Head(pipe)>> /\ reader' = "put"
      BY <3>1, <3>4
    <3> QED
      BY <3>2, <3>3, <3>4
  <2>4. pipe' = Tail(pipe) /\ UNCHANGED <<purpose, decoder, lines, sent, queue, workerVars, parent>>
    BY <1>4 DEF ReadLine
  <2> QED
    BY <2>1, <2>2, <2>3, <2>4
<1>5. CASE Put
  <2>1. /\ queue' = queue \o held /\ Len(queue) < QueueSize /\ held' = <<>> /\ reader' = "loop"
        /\ UNCHANGED <<purpose, decoderVars, oversized, workerVars, parent>>
    BY <1>5 DEF Put
  <2>2. queue' \in Seq(Chunk) /\ Len(queue') = Len(queue) + Len(held)
    BY <2>1, PuttingTogether
  <2>3. Len(queue') <= QueueSize
    BY <2>1, <2>2, SdrAssumption
  <2> QED
    BY <2>1, <2>2, <2>3
<1>6. CASE Hear
  <2>1. queue # <<>> /\ queue' = Tail(queue) /\ heard' = Append(heard, Head(queue))
    BY <1>6 DEF Hear
  <2>2. Head(queue) \in Chunk /\ Tail(queue) \in Seq(Chunk) /\ Len(Tail(queue)) = Len(queue) - 1
    BY <2>1, TakingFirst
  <2>3. heard' \in Seq(Chunk)
    BY <2>1, <2>2
  <2>4. Len(queue') <= QueueSize
    BY <2>1, <2>2, SdrAssumption
  <2> QED
    BY <1>6, <2>1, <2>2, <2>3, <2>4 DEF Hear
<1>7. CASE Loops \/ TimesOut \/ LooksAtReader
  BY <1>7, ZenonT(30) DEF Loops, TimesOut, LooksAtReader, Goes, Quiet
<1>8. CASE Routes \/ RoomAppears
  BY <1>8, ZenonT(30) DEF Routes, Goes, RoomAppears
<1>9. CASE CloseStep
  <2>1. CASE SetsClosed
    <3>1. closed' \in BOOLEAN
      BY <2>1, Zenon DEF SetsClosed
    <3> QED
      BY <2>1, <3>1 DEF SetsClosed, Goes
  <2>2. CASE PollsDecoder
    BY <2>2, ZenonT(30) DEF PollsDecoder, Goes
  <2>3. CASE WaitsTwoSeconds
    BY <2>3 DEF WaitsTwoSeconds, Goes
  <2>4. CASE WaitsAgain
    BY <2>4, ZenonT(30) DEF WaitsAgain, Goes
  <2>5. CASE Joins
    BY <2>5 DEF Joins, Goes, Quiet
  <2> QED
    BY <1>9, <2>1, <2>2, <2>3, <2>4, <2>5 DEF CloseStep
<1>10. CASE WorkerDies
  BY <1>10 DEF WorkerDies
<1>11. CASE Reaps \/ KillsLate
  <2>1. KillsGroup /\ parent' \in {"reaped", "ended"}
    BY <1>11 DEF Reaps, KillsLate
  <2>2. /\ worker' \in Gone /\ reader' = "done" /\ held' = <<>>
        /\ decoder' \in {decoder, "killed"}
        /\ UNCHANGED <<purpose, lines, pipe, sent, oversized, queue, closed, heard, room>>
    BY <2>1 DEF KillsGroup
  <2> QED
    BY <2>1, <2>2
<1>12. CASE Touches \/ Signals \/ ParentEnds \/ Abandons
  BY <1>12 DEF Touches, Signals, ParentEnds, Abandons
<1>13. CASE Reopens
  <2>1. oversized' \in BOOLEAN /\ closed' \in BOOLEAN /\ room' \in BOOLEAN
    BY <1>13, Zenon DEF Reopens
  <2>2. lines' \in 0..MaxLines /\ Len(<<>>) <= PipeSize /\ Len(<<>>) <= QueueSize
    BY <1>13, SdrAssumption DEF Reopens
  <2> QED
    BY <1>13, <2>1, <2>2 DEF Reopens
<1>14. CASE UNCHANGED sdrVars
  BY <1>14 DEF sdrVars
<1> QED
  BY <1>1, <1>2, <1>3, <1>4, <1>5, <1>6, <1>7, <1>8, <1>9, <1>10, <1>11, <1>12, <1>13, <1>14
  DEF SdrNext, ReaderStep, WorkerStep, ParentStep

\* Every step keeps the order of a close.
LEMMA CloseKept == SdrTypeOK /\ CloseIsInOrder /\ [SdrNext]_sdrVars => CloseIsInOrder'
<1> SUFFICES ASSUME SdrTypeOK, CloseIsInOrder, [SdrNext]_sdrVars PROVE CloseIsInOrder'
  OBVIOUS
<1> USE DEF CloseIsInOrder, decoderVars, readerVars, workerVars, Alive, Listening, Closing, Gone
<1>1. CASE Prints
  BY <1>1 DEF Prints
<1>2. CASE DecoderExits
  BY <1>2 DEF DecoderExits
<1>3. CASE ReaderStep
  <2>1. worker = "closed" => reader' = "done"
    BY <1>3 DEF ReaderStep, ReaderLoops, EndOfPipe, ReadLine, Put, DropHeld, GiveUp
  <2>2. UNCHANGED <<decoder, closed, worker, parent>>
    BY <1>3 DEF ReaderStep, ReaderLoops, EndOfPipe, ReadLine, Put, DropHeld, GiveUp
  <2> QED
    BY <2>1, <2>2
<1>4. CASE Loops \/ Hear \/ TimesOut \/ LooksAtReader \/ Routes \/ RoomAppears
  BY <1>4 DEF Loops, Hear, TimesOut, LooksAtReader, Routes, RoomAppears, Goes, Quiet
<1>5. CASE CloseStep
  <2>1. CASE Joins
    BY <2>1 DEF Joins, ReaderIsStuck, GiveUp, Goes, Quiet
  <2>2. CASE SetsClosed \/ PollsDecoder \/ WaitsTwoSeconds \/ WaitsAgain
    BY <2>2 DEF SetsClosed, PollsDecoder, WaitsTwoSeconds, WaitsAgain, Goes, Quiet
  <2> QED
    BY <1>5, <2>1, <2>2 DEF CloseStep
<1>6. CASE WorkerDies
  BY <1>6 DEF WorkerDies
<1>7. CASE Reaps \/ KillsLate
  BY <1>7 DEF Reaps, KillsLate, KillsGroup
<1>8. CASE Touches \/ Signals \/ ParentEnds \/ Abandons
  BY <1>8 DEF Touches, Signals, ParentEnds, Abandons, SdrTypeOK
<1>9. CASE Reopens
  BY <1>9 DEF Reopens
<1>10. CASE UNCHANGED sdrVars
  BY <1>10 DEF sdrVars
<1> QED
  BY <1>1, <1>2, <1>3, <1>4, <1>5, <1>6, <1>7, <1>8, <1>9, <1>10 DEF SdrNext, WorkerStep, ParentStep

\* The sequences are typed, and so are their chunks.
LEMMA LinesAreTyped ==
    ASSUME SdrTypeOK
    PROVE  /\ heard \in Seq(Chunk) /\ queue \in Seq(Chunk) /\ held \in Seq(Chunk) /\ pipe \in Seq(Chunk)
           /\ UnderWay \subseteq Chunk /\ lines \in Nat
           /\ \A c \in Chunk : c.line \in Nat /\ c.first \in BOOLEAN /\ c.full \in BOOLEAN /\ c.end \in BOOLEAN
<1>1. heard \in Seq(Chunk) /\ queue \in Seq(Chunk) /\ held \in Seq(Chunk) /\ pipe \in Seq(Chunk)
  BY DEF SdrTypeOK
<1>2. ASSUME NEW s \in Seq(Chunk) PROVE Chunks(s) \subseteq Chunk
  BY DEF Chunks
<1>3. UnderWay \subseteq Chunk
  BY <1>1, <1>2 DEF UnderWay
<1>4. lines \in Nat /\ \A c \in Chunk : c.line \in Nat
  BY SdrAssumption DEF SdrTypeOK, Chunk
<1>5. \A c \in Chunk : c.first \in BOOLEAN /\ c.full \in BOOLEAN /\ c.end \in BOOLEAN
  BY DEF Chunk
<1> QED
  BY <1>1, <1>3, <1>4, <1>5

\* A step that neither writes nor moves a line keeps what is said of them; the reader
\* lets go of its line only when nobody listens.
LEMMA RestingKeeps ==
    ASSUME SdrInv,
           \/ DecoderExits /\ UNCHANGED <<lines, pipe>>
           \/ ReaderLoops \/ EndOfPipe \/ DropHeld
           \/ Loops \/ TimesOut \/ LooksAtReader \/ Routes \/ RoomAppears \/ CloseStep
           \/ WorkerDies \/ Reaps \/ KillsLate \/ Touches \/ Signals \/ ParentEnds \/ Abandons
           \/ UNCHANGED sdrVars
    PROVE  LinesAreInOrder' /\ NoLineIsLost' /\ LongLinesAreWhole'
<1> USE DEF decoderVars, readerVars, workerVars
<1>1. UNCHANGED <<lines, pipe, sent, oversized, queue, heard>>
  BY DEF DecoderExits, ReaderLoops, EndOfPipe, DropHeld, Loops, TimesOut, LooksAtReader, Routes, RoomAppears,
         CloseStep, SetsClosed, PollsDecoder, WaitsTwoSeconds, WaitsAgain, Joins, Goes, Quiet,
         WorkerDies, Reaps, KillsLate, KillsGroup, Touches, Signals, ParentEnds, Abandons, sdrVars
<1>2. \/ held' = <<>>
      \/ held' = held /\ reader' = reader
  BY DEF DecoderExits, ReaderLoops, EndOfPipe, DropHeld, Loops, TimesOut, LooksAtReader, Routes, RoomAppears,
         CloseStep, SetsClosed, PollsDecoder, WaitsTwoSeconds, WaitsAgain, Joins, Goes, Quiet,
         WorkerDies, Reaps, KillsLate, KillsGroup, Touches, Signals, ParentEnds, Abandons, sdrVars,
         SdrInv, NoLineIsLost
<1>3. worker' \in Listening => worker \in Listening /\ closed' = closed /\ held' = held
  BY DEF DecoderExits, ReaderLoops, EndOfPipe, DropHeld, GiveUp, Loops, TimesOut, LooksAtReader, Routes,
         RoomAppears, CloseStep, SetsClosed, PollsDecoder, WaitsTwoSeconds, WaitsAgain, Joins, Goes, Quiet,
         WorkerDies, Reaps, KillsLate, KillsGroup, Touches, Signals, ParentEnds, Abandons, sdrVars,
         SdrInv, NoLineIsLost, Listening, Closing, Gone
<1>4. Ascends(held') /\ Chunks(held') \subseteq Chunks(held)
  <2>1. CASE held' = <<>>
    BY <2>1 DEF Ascends, Chunks
  <2>2. CASE held' = held
    BY <2>2 DEF SdrInv, LinesAreInOrder
  <2> QED
    BY <1>2, <2>1, <2>2
<1>5. LinesAreInOrder'
  BY <1>1, <1>4 DEF SdrInv, LinesAreInOrder, IsBelow, UnderWay
<1>6. LongLinesAreWhole'
  BY <1>1, <1>4 DEF SdrInv, LongLinesAreWhole
<1>7. NoLineIsLost'
  <2>1. reader' # "put" => held' = <<>>
    BY <1>2 DEF SdrInv, NoLineIsLost
  <2>2. held' = held => UnderWay' = UnderWay
    BY <1>1 DEF UnderWay
  <2> QED
    BY <1>1, <1>3, <2>1, <2>2 DEF SdrInv, NoLineIsLost
<1> QED
  BY <1>5, <1>6, <1>7

\* What is written follows all that is under way.
LEMMA WritingKeeps ==
    ASSUME SdrInv, NEW written \in {Short(lines + 1), Long(lines + 1), CutOff(lines + 1)},
           Write(written), UNCHANGED <<oversized, reader, held, queue, closed, worker, heard>>,
           sent' = IF written = Short(lines + 1) THEN sent \cup {lines + 1} ELSE sent
    PROVE  LinesAreInOrder' /\ NoLineIsLost' /\ LongLinesAreWhole'
<1>t. SdrTypeOK /\ pipe \in Seq(Chunk) /\ lines \in Nat /\ UnderWay \subseteq Chunk
      /\ Len(pipe) \in Nat /\ \A c \in Chunk : c.line \in Nat
  BY LinesAreTyped DEF SdrInv
<1>1. /\ lines < MaxLines /\ lines' = lines + 1 /\ pipe' = pipe \o written
  BY <1>t, WritingIsTyped
<1>2. /\ written \in Seq(Chunk) /\ Ascends(written)
      /\ Len(written) = IF written = Long(lines + 1) THEN 2 ELSE 1
      /\ \A c \in Chunks(written) : c.line = lines + 1
      /\ ShortLines(Chunks(written)) = IF written = Short(lines + 1) THEN {lines + 1} ELSE {}
  BY <1>1, <1>t, WritingIsInOrder
<1>3. \A C \in SUBSET UnderWay : IsBelow(C, Chunks(written))
  BY <1>t, <1>2 DEF SdrInv, LinesAreInOrder, IsBelow
<1>4. Chunks(pipe) \subseteq UnderWay /\ Chunks(heard) \subseteq UnderWay
      /\ Chunks(queue) \subseteq UnderWay /\ Chunks(held) \subseteq UnderWay
  BY DEF UnderWay
<1>5. Chunks(pipe') = Chunks(pipe) \cup Chunks(written) /\ Ascends(pipe') /\ Len(pipe') = Len(pipe) + Len(written)
  BY <1>t, <1>1, <1>2, <1>3, <1>4, PuttingTogether DEF SdrInv, LinesAreInOrder
<1>6. UnderWay' = UnderWay \cup Chunks(written)
  BY <1>5 DEF UnderWay
<1>7. \A c \in UnderWay' : c.line <= lines'
  BY <1>t, <1>1, <1>2, <1>6 DEF SdrInv, LinesAreInOrder
<1>8. LinesAreInOrder'
  <2>1. IsBelow(Chunks(heard), Chunks(written)) /\ IsBelow(Chunks(queue), Chunks(written))
        /\ IsBelow(Chunks(held), Chunks(written))
    BY <1>3, <1>4
  <2>2. IsBelow(Chunks(heard), Chunks(pipe')) /\ IsBelow(Chunks(queue), Chunks(pipe'))
        /\ IsBelow(Chunks(held), Chunks(pipe'))
    BY <1>5, <2>1 DEF SdrInv, LinesAreInOrder, IsBelow
  <2> QED
    BY <1>5, <1>7, <2>2 DEF SdrInv, LinesAreInOrder
<1>9. NoLineIsLost'
  <2>1. ShortLines(UnderWay') = ShortLines(UnderWay) \cup ShortLines(Chunks(written))
    BY <1>6 DEF ShortLines
  <2> QED
    BY <1>2, <2>1 DEF SdrInv, NoLineIsLost
<1>10. LongLinesAreWhole'
  <2>1. \A i \in 1..Len(pipe) : pipe'[i] = pipe[i] /\ i \in 1..Len(pipe')
    BY <1>t, <1>1, <1>2, <1>5
  <2>2. \A i \in 1..Len(written) : pipe'[Len(pipe) + i] = written[i]
    BY <1>t, <1>1, <1>2, <1>5
  <2>4. \/ /\ Len(written) = 1 /\ ~written[1].full /\ written[1].first
        \/ /\ Len(written) = 2 /\ written[1].full /\ written[1].first /\ ~written[1].end
           /\ ~written[2].first /\ ~written[2].full /\ written[2].end
    BY <1>1, <1>t, WritingIsInOrder
  <2>5. ASSUME NEW i \in 1..Len(pipe')
        PROVE  /\ pipe'[i].full => /\ pipe'[i].first /\ ~pipe'[i].end
                                   /\ i < Len(pipe') /\ ~pipe'[i + 1].first
               /\ ~pipe'[i].first => /\ ~pipe'[i].full /\ pipe'[i].end
                                     /\ IF i = 1 THEN oversized ELSE pipe'[i - 1].full
    <3>1. CASE i \in 1..Len(pipe)
      <4>1. /\ pipe[i].full => /\ pipe[i].first /\ ~pipe[i].end
                                /\ i < Len(pipe) /\ ~pipe[i + 1].first
            /\ ~pipe[i].first => /\ ~pipe[i].full /\ pipe[i].end
                                  /\ IF i = 1 THEN oversized ELSE pipe[i - 1].full
        BY <3>1 DEF SdrInv, LongLinesAreWhole
      <4>2. i < Len(pipe) => pipe'[i + 1] = pipe[i + 1] /\ i < Len(pipe')
        BY <1>t, <1>2, <1>5, <2>1, <3>1
      <4>3. i # 1 => pipe'[i - 1] = pipe[i - 1]
        BY <1>t, <2>1, <3>1
      <4>4. pipe'[i] = pipe[i]
        BY <2>1, <3>1
      <4> QED
        BY <4>1, <4>2, <4>3, <4>4
    <3>2. CASE i = Len(pipe) + 1
      <4>1. pipe'[i] = written[1]
        BY <1>t, <1>2, <2>2, <2>4, <3>2
      <4>2. Len(written) = 2 => pipe'[i + 1] = written[2] /\ i < Len(pipe')
        <5>1. Len(pipe') = Len(pipe) + Len(written) /\ i + 1 = Len(pipe) + 2
          BY <1>t, <1>5, <3>2
        <5>2. Len(written) = 2 => pipe'[Len(pipe) + 2] = written[2]
          BY <2>2
        <5> QED
          BY <1>t, <3>2, <5>1, <5>2
      <4> QED
        BY <2>4, <4>1, <4>2
    <3>3. CASE i = Len(pipe) + 2 /\ Len(written) = 2
      <4>1. pipe'[i] = written[2] /\ pipe'[i - 1] = written[1] /\ i # 1
        BY <1>t, <2>2, <3>3
      <4> QED
        BY <2>4, <3>3, <4>1
    <3>4. i \in 1..Len(pipe) \/ i = Len(pipe) + 1 \/ (i = Len(pipe) + 2 /\ Len(written) = 2)
      <4>1. Len(written) = 1 \/ Len(written) = 2
        BY <2>4
      <4> QED
        <5>1. Len(pipe') = Len(pipe) + Len(written) /\ Len(pipe) \in Nat
          BY <1>t, <1>5
        <5>2. i \in Nat /\ 1 <= i /\ i <= Len(pipe) + Len(written)
          BY <4>1, <5>1
        <5>3. CASE Len(written) = 1
          BY <5>1, <5>2, <5>3
        <5>4. CASE Len(written) = 2
          BY <5>1, <5>2, <5>4
        <5> QED
          BY <4>1, <5>3, <5>4
    <3> QED
      BY <3>1, <3>2, <3>3, <3>4
  <2>6. oversized => Len(pipe') >= 1 /\ ~pipe'[1].first
    BY <1>t, <1>2, <1>5, <2>1, <2>4 DEF SdrInv, LongLinesAreWhole
  <2> QED
    BY <2>5, <2>6 DEF SdrInv, LongLinesAreWhole
<1> QED
  BY <1>8, <1>9, <1>10


\* The reader takes the first chunk of the pipe: the next line, or a piece that is none.
LEMMA ReadLineKeeps ==
    ASSUME SdrInv, ReadLine
    PROVE  LinesAreInOrder' /\ NoLineIsLost' /\ LongLinesAreWhole'
<1> DEFINE c == Head(pipe)
<1>1. /\ pipe # <<>> /\ pipe' = Tail(pipe) /\ reader = "readline"
      /\ IF Excess(c) THEN oversized' = ~c.end /\ reader' = "loop" /\ held' = held
         ELSE held' = <<c>> /\ reader' = "put" /\ oversized' = oversized
      /\ UNCHANGED <<lines, sent, queue, closed, worker, heard>>
  BY DEF ReadLine, workerVars
<1>2. SdrTypeOK /\ pipe \in Seq(Chunk) /\ held = <<>>
  BY <1>1 DEF SdrInv, SdrTypeOK, NoLineIsLost
<1>3. /\ c \in Chunk /\ Len(Tail(pipe)) = Len(pipe) - 1 /\ Len(pipe) \in Nat /\ Len(pipe) >= 1
      /\ c = pipe[1] /\ Tail(pipe) \in Seq(Chunk)
      /\ \A i \in 1..Len(Tail(pipe)) : Tail(pipe)[i] = pipe[i + 1] /\ i + 1 \in 1..Len(pipe)
      /\ Chunks(pipe) = {c} \cup Chunks(Tail(pipe))
      /\ Ascends(Tail(pipe)) /\ IsBelow({c}, Chunks(Tail(pipe)))
  BY <1>1, <1>2, TakingFirst DEF SdrInv, LinesAreInOrder
<1> HIDE DEF c
<1>4. /\ c.full => c.first /\ ~c.end /\ 1 < Len(pipe) /\ ~pipe[2].first
      /\ ~c.first => ~c.full /\ c.end /\ oversized
      /\ oversized => ~c.first
  BY <1>3 DEF SdrInv, LongLinesAreWhole
<1>7. ASSUME oversized' <=> c.full, held' = <<c>> => c.first /\ ~c.full, held' = held \/ held' = <<c>>
      PROVE  LongLinesAreWhole'
  <2>1. /\ Len(pipe') = Len(pipe) - 1
        /\ \A i \in 1..Len(pipe') : pipe'[i] = pipe[i + 1] /\ i + 1 \in 1..Len(pipe)
    BY <1>1, <1>3
  <2>2. ASSUME NEW i \in 1..Len(pipe')
        PROVE  /\ pipe'[i].full => /\ pipe'[i].first /\ ~pipe'[i].end
                                   /\ i < Len(pipe') /\ ~pipe'[i + 1].first
               /\ ~pipe'[i].first => /\ ~pipe'[i].full /\ pipe'[i].end
                                     /\ IF i = 1 THEN oversized' ELSE pipe'[i - 1].full
    <3>1. /\ pipe[i + 1].full => /\ pipe[i + 1].first /\ ~pipe[i + 1].end
                                 /\ i + 1 < Len(pipe) /\ ~pipe[(i + 1) + 1].first
          /\ ~pipe[i + 1].first => /\ ~pipe[i + 1].full /\ pipe[i + 1].end
                                   /\ IF i + 1 = 1 THEN oversized ELSE pipe[(i + 1) - 1].full
      BY <2>1 DEF SdrInv, LongLinesAreWhole
    <3>2. (i + 1) - 1 = i /\ i + 1 # 1
      OBVIOUS
    <3>3. i + 1 < Len(pipe) => i < Len(pipe') /\ pipe'[i + 1] = pipe[(i + 1) + 1]
      BY <1>3, <2>1
    <3>4. i # 1 => pipe'[i - 1] = pipe[i]
      BY <1>3, <2>1
    <3>5. i = 1 => pipe[i] = c
      BY <1>3
    <3> QED
      BY <1>7, <2>1, <3>1, <3>2, <3>3, <3>4, <3>5
  <2>3. oversized' => Len(pipe') >= 1 /\ ~pipe'[1].first
    <3>1. c.full => Len(pipe') >= 1 /\ pipe'[1] = pipe[2]
      BY <1>3, <1>4, <2>1
    <3> QED
      BY <1>4, <1>7, <3>1
  <2>4. \A d \in Chunks(heard') \cup Chunks(queue') \cup Chunks(held') : d.first /\ ~d.full
    <3>1. \A d \in Chunks(<<c>>) : d = c
      BY DEF Chunks
    <3> QED
      BY <1>1, <1>7, <3>1 DEF SdrInv, LongLinesAreWhole
  <2> QED
    BY <2>2, <2>3, <2>4 DEF LongLinesAreWhole
<1>5. CASE Excess(c)
  <2>1. ~IsShort(c)
    BY <1>4, <1>5 DEF Excess, IsShort
  <2>2. held' = held /\ Chunks(held) = {} /\ oversized' = ~c.end
    BY <1>1, <1>2, <1>5 DEF Chunks
  <2>3. Chunks(pipe') \subseteq Chunks(pipe) /\ Chunks(pipe) = {c} \cup Chunks(pipe')
    BY <1>1, <1>3
  <2>4. UnderWay' \subseteq UnderWay /\ UnderWay = {c} \cup UnderWay'
    BY <1>1, <2>2, <2>3 DEF UnderWay
  <2>5. LinesAreInOrder'
    BY <1>1, <1>3, <2>2, <2>3, <2>4 DEF SdrInv, LinesAreInOrder, IsBelow
  <2>6. NoLineIsLost'
    <3>1. ShortLines(UnderWay') = ShortLines(UnderWay)
      BY <2>1, <2>4 DEF ShortLines
    <3> QED
      BY <1>1, <1>2, <2>2, <3>1 DEF SdrInv, NoLineIsLost
  <2>7. LongLinesAreWhole'
    <3>1. oversized' <=> c.full
      <4>1. c.full => ~c.end
        BY <1>4
      <4>2. ~c.full => c.end
        BY <1>4, <1>5 DEF Excess
      <4> QED
        BY <2>2, <4>1, <4>2
    <3>2. held' # <<c>>
      BY <1>2, <2>2
    <3> QED
      BY <1>7, <2>2, <3>1, <3>2
  <2> QED
    BY <2>5, <2>6, <2>7
<1>6. CASE ~Excess(c)
  <2>1. c.first /\ ~c.full /\ ~oversized /\ oversized' = oversized /\ held' = <<c>> /\ reader' = "put"
    BY <1>1, <1>4, <1>6 DEF Excess
  <2>2. Chunks(held') = {c} /\ Chunks(held) = {} /\ Ascends(held')
    BY <1>2, <2>1 DEF Chunks, Ascends
  <2>3. Chunks(pipe') \subseteq Chunks(pipe) /\ Chunks(pipe) = Chunks(held') \cup Chunks(pipe')
    BY <1>1, <1>3, <2>2
  <2>4. UnderWay' = UnderWay
    BY <1>1, <2>2, <2>3 DEF UnderWay
  <2>5. LinesAreInOrder'
    <3>1. IsBelow(Chunks(heard), Chunks(held')) /\ IsBelow(Chunks(queue), Chunks(held'))
          /\ IsBelow(Chunks(heard), Chunks(pipe')) /\ IsBelow(Chunks(queue), Chunks(pipe'))
      BY <2>3 DEF SdrInv, LinesAreInOrder, IsBelow
    <3>2. IsBelow(Chunks(held'), Chunks(pipe')) /\ Ascends(pipe')
      BY <1>1, <1>3, <2>2
    <3> QED
      BY <1>1, <2>2, <2>4, <3>1, <3>2 DEF SdrInv, LinesAreInOrder
  <2>6. NoLineIsLost'
    BY <1>1, <2>1, <2>4 DEF SdrInv, NoLineIsLost
  <2>7. LongLinesAreWhole'
    BY <1>7, <2>1
  <2> QED
    BY <2>5, <2>6, <2>7
<1> QED
  BY <1>5, <1>6


\* The line the reader holds is put behind those in the queue.
LEMMA PutKeeps ==
    ASSUME SdrInv, Put
    PROVE  LinesAreInOrder' /\ NoLineIsLost' /\ LongLinesAreWhole'
<1>1. /\ queue' = queue \o held /\ held' = <<>>
      /\ UNCHANGED <<lines, pipe, sent, oversized, closed, worker, heard>>
  BY DEF Put, decoderVars, workerVars
<1>2. queue \in Seq(Chunk) /\ held \in Seq(Chunk)
  BY DEF SdrInv, SdrTypeOK
<1>3. Chunks(queue') = Chunks(queue) \cup Chunks(held) /\ Ascends(queue')
  BY <1>1, <1>2, PuttingTogether DEF SdrInv, LinesAreInOrder
<1>4. Chunks(held') = {} /\ Ascends(held')
  BY <1>1 DEF Chunks, Ascends
<1>5. UnderWay' = UnderWay
  BY <1>1, <1>3, <1>4 DEF UnderWay
<1>6. LinesAreInOrder'
  BY <1>1, <1>3, <1>4, <1>5 DEF SdrInv, LinesAreInOrder, IsBelow
<1>7. NoLineIsLost'
  BY <1>1, <1>5 DEF SdrInv, NoLineIsLost
<1>8. LongLinesAreWhole'
  BY <1>1, <1>3, <1>4 DEF SdrInv, LongLinesAreWhole
<1> QED
  BY <1>6, <1>7, <1>8

\* The main thread decodes the first line of the queue.
LEMMA HearKeeps ==
    ASSUME SdrInv, Hear
    PROVE  LinesAreInOrder' /\ NoLineIsLost' /\ LongLinesAreWhole'
<1> DEFINE c == Head(queue)
<1>1. /\ queue # <<>> /\ queue' = Tail(queue) /\ heard' = Append(heard, c)
      /\ worker \in Listening
      /\ UNCHANGED <<lines, pipe, sent, oversized, held, reader, closed>>
  BY DEF Hear, decoderVars, readerVars, Listening
<1>2. queue \in Seq(Chunk) /\ heard \in Seq(Chunk)
  BY DEF SdrInv, SdrTypeOK
<1>3. /\ c \in Chunk /\ Chunks(queue) = {c} \cup Chunks(queue')
      /\ Ascends(queue') /\ IsBelow({c}, Chunks(queue'))
  BY <1>1, <1>2, TakingFirst DEF SdrInv, LinesAreInOrder
<1> HIDE DEF c
<1>4. /\ <<c>> \in Seq(Chunk) /\ Chunks(<<c>>) = {c} /\ Ascends(<<c>>) /\ heard' = heard \o <<c>>
  BY <1>1, <1>2, <1>3 DEF Chunks, Ascends
<1>5. IsBelow(Chunks(heard), {c})
  BY <1>3 DEF SdrInv, LinesAreInOrder, IsBelow
<1>6. Chunks(heard') = Chunks(heard) \cup {c} /\ Ascends(heard')
  BY <1>2, <1>4, <1>5, PuttingTogether DEF SdrInv, LinesAreInOrder
<1>7. UnderWay' = UnderWay
  BY <1>1, <1>3, <1>6 DEF UnderWay
<1>8. LinesAreInOrder'
  <2>1. /\ IsBelow(Chunks(heard'), Chunks(queue')) /\ IsBelow(Chunks(heard'), Chunks(held'))
        /\ IsBelow(Chunks(heard'), Chunks(pipe'))
    BY <1>1, <1>3, <1>6 DEF SdrInv, LinesAreInOrder, IsBelow
  <2>2. IsBelow(Chunks(queue'), Chunks(held')) /\ IsBelow(Chunks(queue'), Chunks(pipe'))
    BY <1>1, <1>3 DEF SdrInv, LinesAreInOrder, IsBelow
  <2> QED
    BY <1>1, <1>3, <1>6, <1>7, <2>1, <2>2 DEF SdrInv, LinesAreInOrder
<1>9. NoLineIsLost'
  BY <1>1, <1>7 DEF SdrInv, NoLineIsLost
<1>10. LongLinesAreWhole'
  BY <1>1, <1>3, <1>6 DEF SdrInv, LongLinesAreWhole
<1> QED
  BY <1>8, <1>9, <1>10

\* A receiver that has just been opened has read nothing.
LEMMA OpenedIsSound ==
    Opened => LinesAreInOrder /\ NoLineIsLost /\ LongLinesAreWhole /\ CloseIsInOrder
<1> SUFFICES ASSUME Opened PROVE LinesAreInOrder /\ NoLineIsLost /\ LongLinesAreWhole /\ CloseIsInOrder
  OBVIOUS
<1>1. /\ heard = <<>> /\ queue = <<>> /\ held = <<>> /\ pipe = <<>> /\ sent = {}
      /\ ~oversized /\ ~closed /\ worker = "loop" /\ parent = "watches"
  BY DEF Opened
<1>2. /\ Chunks(heard) = {} /\ Chunks(queue) = {} /\ Chunks(held) = {} /\ Chunks(pipe) = {}
      /\ UnderWay = {} /\ ShortLines(UnderWay) = {}
  BY <1>1 DEF Chunks, UnderWay, ShortLines
<1>3. LinesAreInOrder
  BY <1>1, <1>2 DEF LinesAreInOrder, Ascends, IsBelow
<1>4. NoLineIsLost
  BY <1>1, <1>2 DEF NoLineIsLost
<1>5. LongLinesAreWhole
  BY <1>1, <1>2 DEF LongLinesAreWhole
<1>6. CloseIsInOrder
  BY <1>1 DEF CloseIsInOrder
<1> QED
  BY <1>3, <1>4, <1>5, <1>6

\* A new worker or probe starts with a receiver of its own.
LEMMA ReopensKeeps ==
    ASSUME Reopens
    PROVE  LinesAreInOrder' /\ NoLineIsLost' /\ LongLinesAreWhole'
<1>1. /\ heard' = <<>> /\ queue' = <<>> /\ held' = <<>> /\ pipe' = <<>> /\ sent' = {}
      /\ oversized' = FALSE /\ closed' = FALSE /\ worker' = "loop"
  BY DEF Reopens
<1>2. /\ Chunks(heard') = {} /\ Chunks(queue') = {} /\ Chunks(held') = {} /\ Chunks(pipe') = {}
      /\ UnderWay' = {} /\ ShortLines(UnderWay') = {}
  BY <1>1 DEF Chunks, UnderWay, ShortLines
<1>3. LinesAreInOrder'
  BY <1>1, <1>2 DEF LinesAreInOrder, Ascends, IsBelow
<1>4. NoLineIsLost'
  BY <1>1, <1>2 DEF NoLineIsLost
<1>5. LongLinesAreWhole'
  BY <1>1, <1>2 DEF LongLinesAreWhole
<1> QED
  BY <1>3, <1>4, <1>5

\* Every step of the decoder, the two threads and the parent keeps the invariant.
LEMMA SdrKept == SdrInv /\ [SdrNext]_sdrVars => SdrInv'
<1> SUFFICES ASSUME SdrInv, [SdrNext]_sdrVars PROVE SdrInv'
  OBVIOUS
<1>1. SdrTypeOK' /\ CloseIsInOrder'
  BY SdrTypeKept, CloseKept DEF SdrInv
<1>2. CASE Prints
  <2> USE DEF readerVars, workerVars
  <2>1. UNCHANGED <<oversized, reader, held, queue, closed, worker, heard>>
    BY <1>2 DEF Prints
  <2>2. CASE Write(Short(lines + 1)) /\ sent' = sent \cup {lines + 1}
    <3>1. LinesAreInOrder' /\ NoLineIsLost' /\ LongLinesAreWhole'
      BY <2>1, <2>2, WritingKeeps
    <3> QED
      BY <1>1, <3>1 DEF SdrInv
  <2>3. CASE Write(Long(lines + 1)) /\ sent' = sent
    <3>1. Len(Long(lines + 1)) = 2 /\ Len(Short(lines + 1)) = 1
      BY DEF Long, Short
    <3>2. Long(lines + 1) # Short(lines + 1)
      BY <3>1
    <3>3. LinesAreInOrder' /\ NoLineIsLost' /\ LongLinesAreWhole'
      BY <2>1, <2>3, <3>2, WritingKeeps
    <3> QED
      BY <1>1, <3>3 DEF SdrInv
  <2> QED
    BY <1>1, <1>2, <2>2, <2>3 DEF Prints, SdrInv
<1>3. CASE DecoderExits /\ Write(CutOff(lines + 1))
  <2> USE DEF readerVars, workerVars
  <2>1. UNCHANGED <<sent, oversized, reader, held, queue, closed, worker, heard>>
    BY <1>3 DEF DecoderExits
  <2>2. CutOff(lines + 1) # Short(lines + 1)
    <3>1. ~CutOff(lines + 1)[1].end /\ Short(lines + 1)[1].end
      BY DEF CutOff, Short, Piece
    <3> QED
      BY <3>1
  <2> QED
    BY <1>1, <1>3, <2>1, <2>2, WritingKeeps DEF SdrInv
<1>4. CASE ReadLine
  BY <1>1, <1>4, ReadLineKeeps DEF SdrInv
<1>5. CASE Put
  BY <1>1, <1>5, PutKeeps DEF SdrInv
<1>6. CASE Hear
  BY <1>1, <1>6, HearKeeps DEF SdrInv
<1>7. CASE Reopens
  BY <1>1, <1>7, ReopensKeeps DEF SdrInv
<1>8. CASE \/ DecoderExits /\ UNCHANGED <<lines, pipe>>
           \/ ReaderLoops \/ EndOfPipe \/ DropHeld
           \/ Loops \/ TimesOut \/ LooksAtReader \/ Routes \/ RoomAppears \/ CloseStep
           \/ WorkerDies \/ Reaps \/ KillsLate \/ Touches \/ Signals \/ ParentEnds \/ Abandons
           \/ UNCHANGED sdrVars
  BY <1>1, <1>8, RestingKeeps DEF SdrInv
<1>9. DecoderExits => UNCHANGED <<lines, pipe>> \/ Write(CutOff(lines + 1))
  BY DEF DecoderExits
<1> QED
  BY <1>2, <1>3, <1>4, <1>5, <1>6, <1>7, <1>8, <1>9 DEF SdrNext, ReaderStep, WorkerStep, ParentStep

\* A worker or a probe starts with all of it.
LEMMA SdrStarts == SdrInit => SdrInv
<1> SUFFICES ASSUME SdrInit PROVE SdrInv
  OBVIOUS
<1>1. SdrTypeOK
  <2>1. oversized \in BOOLEAN /\ closed \in BOOLEAN /\ room \in BOOLEAN
    BY Zenon DEF SdrInit, Opened
  <2>2. lines \in 0..MaxLines /\ Len(<<>>) <= PipeSize /\ Len(<<>>) <= QueueSize
    BY SdrAssumption DEF SdrInit, Opened
  <2> QED
    BY <2>1, <2>2 DEF SdrInit, Opened, SdrTypeOK, Alive, Listening
<1> QED
  BY <1>1, OpenedIsSound DEF SdrInit, SdrInv

\* Decoder, pipe, reader thread, queue and main thread stay in step.
THEOREM SdrInvariant == SdrSpec => []SdrInv
<1> QED
  BY SdrStarts, SdrKept, PTL DEF SdrSpec

\* From what is decoded to what is in the pipe, every short line is there, in order.
LEMMA LinesAreKept == SdrInv => LinesArriveInOrder
<1> SUFFICES ASSUME SdrInv, worker \in Listening
             PROVE  /\ {Way[i].line : i \in {j \in DOMAIN Way : IsShort(Way[j])}} = sent
                    /\ \A i, j \in DOMAIN Way :
                          i < j /\ IsShort(Way[i]) /\ IsShort(Way[j]) => Way[i].line < Way[j].line
                    /\ \A i \in DOMAIN heard : heard[i].first /\ ~heard[i].full
  BY DEF LinesArriveInOrder
<1>1. heard \in Seq(Chunk) /\ queue \in Seq(Chunk) /\ held \in Seq(Chunk) /\ pipe \in Seq(Chunk)
  BY DEF SdrInv, SdrTypeOK
<1> DEFINE two == heard \o queue
           three == two \o held
<1>2. two \in Seq(Chunk) /\ Chunks(two) = Chunks(heard) \cup Chunks(queue) /\ Ascends(two)
  BY <1>1, PuttingTogether DEF SdrInv, LinesAreInOrder
<1> HIDE DEF two
<1>3. /\ three \in Seq(Chunk) /\ Ascends(three)
      /\ Chunks(three) = Chunks(heard) \cup Chunks(queue) \cup Chunks(held)
  <2>1. IsBelow(Chunks(two), Chunks(held))
    BY <1>2 DEF SdrInv, LinesAreInOrder, IsBelow
  <2>2. Ascends(held)
    BY DEF SdrInv, LinesAreInOrder
  <2> QED
    BY <1>1, <1>2, <2>1, <2>2, PuttingTogether
<1> HIDE DEF three
<1>4. Way = three \o pipe
  BY DEF Way, two, three
<1>5. Way \in Seq(Chunk) /\ Ascends(Way) /\ Chunks(Way) = UnderWay
  <2>1. IsBelow(Chunks(three), Chunks(pipe))
    BY <1>3 DEF SdrInv, LinesAreInOrder, IsBelow
  <2>2. Ascends(pipe)
    BY DEF SdrInv, LinesAreInOrder
  <2> QED
    BY <1>1, <1>3, <1>4, <2>1, <2>2, PuttingTogether DEF UnderWay
<1>6. DOMAIN Way = 1..Len(Way) /\ DOMAIN heard = 1..Len(heard)
  BY <1>1, <1>5
<1>7. {Way[i].line : i \in {j \in DOMAIN Way : IsShort(Way[j])}} = ShortLines(Chunks(Way))
  BY <1>6 DEF ShortLines, Chunks
<1>8. ShortLines(Chunks(Way)) = sent
  BY <1>5 DEF SdrInv, NoLineIsLost
<1>9. \A i \in DOMAIN heard : heard[i].first /\ ~heard[i].full
  BY <1>6 DEF SdrInv, LongLinesAreWhole, Chunks
<1> QED
  BY <1>5, <1>6, <1>7, <1>8, <1>9 DEF Ascends

\* sdr.py: from the decoder's output to decode, the queue of 64 and the bounded lines
\* lose, repeat and reorder nothing as long as the worker listens, for any size of queue
\* and pipe, and no piece of a long line is decoded.
THEOREM LinesArrive == SdrSpec => []LinesArriveInOrder
<1> QED
  BY LinesAreKept, SdrInvariant, PTL

\* The end of a close, and of a worker.
LEMMA CloseIsDone == SdrInv => NothingIsLeftRunning
BY DEF SdrInv, CloseIsInOrder, NothingIsLeftRunning, CloseIsComplete, RestartLeavesNoDecoder

\* Receiver.close and kill_child: a close that came to its end and a worker that was
\* reaped have left no decoder and no reader thread behind.
THEOREM NothingIsLeft == SdrSpec => []NothingIsLeftRunning
<1> QED
  BY CloseIsDone, SdrInvariant, PTL

\* What was read is within the window of a clock that has only gone forward since.
ReadIsNear == \A i \in 1..Len(packets) : packets[i].time <= minute + WindowFuture

WeatherflowInv == WeatherflowTypeOK /\ ReadIsNear /\ SilenceIsBounded

\* The rows that carry a shower, and those of them that the mark has passed.
Rainy == {r \in made : r.rain # 0}
Passed == {r \in Rainy : r.time <= newest["observation"].time}

\* A device makes one row of a kind in a minute, and observations carry the rain.
RowsAreApart ==
    \A r \in made :
        /\ r.made <= minute /\ r.rain \in {0, 1} /\ (r.rain = 1 => r.kind = "observation")

\* Every shower is in one row; what was reported is in the rows the mark has passed; and
\* only rows that were made can be read.
ShowersAreRows ==
    /\ IsFiniteSet(made) /\ RowsAreApart
    /\ Cardinality(Rainy) = showers
    /\ reported <= Cardinality(Passed)
    /\ \A i \in 1..Len(packets) : packets[i] \in made

\* What decode returns: a short sequence of rows inside the window.
LEMMA DatagramsAreNear ==
    ASSUME WeatherflowTypeOK, NEW k \in Kinds, NEW d \in Datagrams(k)
    PROVE  /\ d \in Seq(Row) /\ Len(d) <= MaxRows
           /\ \A i \in 1..Len(d) : d[i].time <= minute + WindowFuture
<1> DEFINE Near == {r \in RowsOf(k) : InWindow(r)}
<1>1. PICK n \in 1..MostRows(k) : d \in [1..n -> Near]
  BY DEF Datagrams
<1>2. MostRows(k) \in Nat /\ MostRows(k) <= MaxRows
  BY WeatherflowAssumption DEF MostRows
<1>3. Near \subseteq Row
  BY DEF WeatherflowTypeOK, RowsOf
<1>4. n \in Nat /\ n <= MaxRows
  BY <1>1, <1>2, WeatherflowAssumption
<1>5. d \in Seq(Near) /\ Len(d) = n
  BY <1>1, <1>4
<1>6. d \in Seq(Row)
  BY <1>3, <1>5
<1>7. ASSUME NEW i \in 1..Len(d) PROVE d[i].time <= minute + WindowFuture
  <2>1. d[i] \in Near
    BY <1>1, <1>5
  <2> QED
    BY <2>1 DEF InWindow
<1> QED
  BY <1>4, <1>5, <1>6, <1>7

\* The rest of a read is what the read was.
LEMMA RestIsNear ==
    ASSUME WeatherflowTypeOK, ReadIsNear, packets # <<>>
    PROVE  /\ Packet1 \in Row /\ Packet1.time <= minute + WindowFuture
           /\ Tail(packets) \in Seq(Row) /\ Len(Tail(packets)) <= MaxRows
           /\ \A i \in 1..Len(Tail(packets)) : Tail(packets)[i].time <= minute + WindowFuture
<1>1. packets \in Seq(Row) /\ Len(packets) <= MaxRows /\ Len(packets) \in Nat
  BY DEF WeatherflowTypeOK
<1>2. Len(packets) >= 1
  BY <1>1
<1>3. Packet1 \in Row /\ Packet1.time <= minute + WindowFuture
  BY <1>1, <1>2 DEF Packet1, ReadIsNear
<1>4. Tail(packets) \in Seq(Row) /\ Len(Tail(packets)) = Len(packets) - 1
  BY <1>1
<1>5. ASSUME NEW i \in 1..Len(Tail(packets))
      PROVE  Tail(packets)[i].time <= minute + WindowFuture
  <2>1. Tail(packets)[i] = packets[i + 1] /\ i + 1 \in 1..Len(packets)
    BY <1>1, <1>2, <1>4
  <2> QED
    BY <2>1 DEF ReadIsNear
<1> QED
  BY <1>1, <1>3, <1>4, <1>5, WeatherflowAssumption

LEMMA WeatherflowStarts == WeatherflowInit => WeatherflowInv
<1> SUFFICES ASSUME WeatherflowInit PROVE WeatherflowInv
  OBVIOUS
<1>1. WeatherflowTypeOK
  BY WeatherflowAssumption DEF WeatherflowInit, WeatherflowTypeOK, Unheard, Row
<1>2. ReadIsNear
  BY DEF WeatherflowInit, ReadIsNear
<1>3. SilenceIsBounded
  BY WeatherflowAssumption DEF WeatherflowInit, SilenceIsBounded, Unheard
<1> QED
  BY <1>1, <1>2, <1>3 DEF WeatherflowInv

LEMMA WeatherflowSteps ==
    ASSUME WeatherflowInv, [WeatherflowNext]_wfVars
    PROVE  WeatherflowInv'
<1> USE WeatherflowAssumption
<1>t. WeatherflowTypeOK /\ ReadIsNear /\ SilenceIsBounded
  BY DEF WeatherflowInv
<1>1. CASE Passes
  <2>1. WeatherflowTypeOK'
    BY <1>1, <1>t DEF Passes, WeatherflowTypeOK
  <2>2. ASSUME NEW i \in 1..Len(packets) PROVE packets[i].time \in Nat
    <3>1. packets \in Seq(Row)
      BY <1>t DEF WeatherflowTypeOK
    <3>2. packets[i] \in Row
      BY <3>1
    <3> QED
      BY <3>2 DEF Row
  <2>3. ReadIsNear'
    BY <1>1, <1>t, <2>2, SMTT(30) DEF Passes, ReadIsNear, WeatherflowTypeOK
  <2>4. \A k \in Kinds : newest[k].time \in Nat
    BY <1>t DEF WeatherflowTypeOK, Unheard
  <2>5. SilenceIsBounded'
    BY <1>1, <1>t, <2>4, SMTT(30) DEF Passes, SilenceIsBounded, WeatherflowTypeOK
  <2> QED
    BY <2>1, <2>3, <2>5 DEF WeatherflowInv
<1>2. CASE HubClockChanges
  BY <1>2, <1>t DEF HubClockChanges, Upset, WeatherflowInv, WeatherflowTypeOK, ReadIsNear, SilenceIsBounded
<1>3. CASE Listens
  <2>1. PICK k \in Kinds : packets' \in Datagrams(k)
    BY <1>3 DEF Listens
  <2>2. /\ packets' \in Seq(Row) /\ Len(packets') <= MaxRows
        /\ \A i \in 1..Len(packets') : packets'[i].time <= minute + WindowFuture
    BY <1>t, <2>1, DatagramsAreNear
  <2> QED
    BY <1>3, <1>t, <2>2
    DEF Listens, hubVars, WeatherflowInv, WeatherflowTypeOK, ReadIsNear, SilenceIsBounded
<1>4. CASE Handles
  <2> packets # <<>>
    BY <1>4 DEF Handles, Keeps, Discards, DropsRest
  <2>1. /\ Packet1 \in Row /\ Packet1.time <= minute + WindowFuture
        /\ Tail(packets) \in Seq(Row) /\ Len(Tail(packets)) <= MaxRows
        /\ \A i \in 1..Len(Tail(packets)) : Tail(packets)[i].time <= minute + WindowFuture
    BY <1>t, RestIsNear
  <2>2. CASE Keeps
    <3>1. Packet1.kind \in Kinds /\ Packet1.time \in Nat /\ Packet1.rain \in Nat
      BY <2>1 DEF Row
    <3>2. Packet1.time > LastOf(Packet1.kind).time
      BY <2>2 DEF Keeps, Ordered
    <3>3. LastOf(Packet1.kind).time \in Nat
      BY <1>t, <3>1, SMTT(30) DEF LastOf, WeatherflowTypeOK, Unheard
    <3>4. Packet1.time \in Nat \ {0}
      BY <3>1, <3>2, <3>3
    <3>5. newest' = [newest EXCEPT ![Packet1.kind] =
                         [time |-> Packet1.time, digest |-> Packet1.rain]]
      BY <2>2 DEF Keeps
    <3>6. ASSUME NEW k \in Kinds PROVE newest'[k].time <= minute + WindowFuture
      BY <1>t, <2>1, <3>1, <3>5 DEF WeatherflowTypeOK, SilenceIsBounded
    <3>7. /\ UNCHANGED <<minute, wrong, made, showers, upsets>> /\ packets' = Tail(packets)
          /\ reported' \in Nat
      BY <1>t, <2>2, <3>1, SMTT(30) DEF Keeps, hubVars, WeatherflowTypeOK
    <3>n. newest' \in [Kinds -> {Unheard} \cup [time : Nat \ {0}, digest : Nat]]
      <4>1. [time |-> Packet1.time, digest |-> Packet1.rain] \in [time : Nat \ {0}, digest : Nat]
        BY <3>1, <3>4
      <4> QED
        BY <1>t, <3>1, <3>5, <4>1 DEF WeatherflowTypeOK
    <3>8. WeatherflowTypeOK'
      BY <1>t, <2>1, <3>n, <3>7 DEF WeatherflowTypeOK
    <3> QED
      BY <2>1, <3>6, <3>7, <3>8 DEF WeatherflowInv, ReadIsNear, SilenceIsBounded
  <2>3. CASE Discards
    BY <1>t, <2>1, <2>3
    DEF Discards, hubVars, WeatherflowInv, WeatherflowTypeOK, ReadIsNear, SilenceIsBounded
  <2>4. CASE DropsRest
    BY <1>t, <2>4
    DEF DropsRest, hubVars, WeatherflowInv, WeatherflowTypeOK, ReadIsNear, SilenceIsBounded
  <2> QED
    BY <1>4, <2>2, <2>3, <2>4 DEF Handles
<1>5. CASE WorkerRestarts
  BY <1>5, <1>t
  DEF WorkerRestarts, Upset, hubVars, WeatherflowInv, WeatherflowTypeOK, ReadIsNear, SilenceIsBounded
<1>6. ASSUME NEW k \in Kinds, Measures(k) PROVE WeatherflowInv'
  <2>1. PICK shower \in 0..(IF k = "observation" THEN 1 ELSE 0) :
            /\ showers' = showers + shower /\ showers' <= MaxShowers
            /\ made' = made \cup {[kind |-> k, time |-> minute + (IF wrong THEN HubError ELSE 0),
                                   rain |-> shower, made |-> minute]}
    BY <1>6 DEF Measures
  <2>2. minute \in Nat /\ shower \in Nat
    BY <1>t DEF WeatherflowTypeOK
  <2>3. made' \subseteq Row
    BY <1>t, <2>1, <2>2 DEF WeatherflowTypeOK, Row
  <2>4. showers' \in 0..MaxShowers
    BY <1>t, <2>1, <2>2 DEF WeatherflowTypeOK
  <2> QED
    BY <1>6, <1>t, <2>3, <2>4
    DEF Measures, WeatherflowInv, WeatherflowTypeOK, ReadIsNear, SilenceIsBounded
<1>7. CASE UNCHANGED wfVars
  BY <1>7, <1>t
  DEF wfVars, hubVars, WeatherflowInv, WeatherflowTypeOK, ReadIsNear, SilenceIsBounded
<1> QED
  BY <1>1, <1>2, <1>3, <1>4, <1>5, <1>6, <1>7 DEF WeatherflowNext, ReadsNothing

\* The state of the receiver is well typed, and a datagram never holds more rows
\* than decode lets through, while the receiver hears any hub.
THEOREM HubIsTyped == WeatherflowSpec => []WeatherflowTypeOK
<1>1. WeatherflowInit => WeatherflowInv
  BY WeatherflowStarts
<1>2. WeatherflowInv /\ [WeatherflowNext]_wfVars => WeatherflowInv'
  BY WeatherflowSteps
<1>3. WeatherflowInv => WeatherflowTypeOK
  BY DEF WeatherflowInv
<1> QED
  BY <1>1, <1>2, <1>3, PTL DEF WeatherflowSpec

\* A hub whose clock is ahead, by however much, silences its device for no longer
\* than the allowance of the window (weatherflow.py, decode).
THEOREM HubCannotSilence == WeatherflowSpec => []SilenceIsBounded
<1>1. WeatherflowInit => WeatherflowInv
  BY WeatherflowStarts
<1>2. WeatherflowInv /\ [WeatherflowNext]_wfVars => WeatherflowInv'
  BY WeatherflowSteps
<1>3. WeatherflowInv => SilenceIsBounded
  BY DEF WeatherflowInv
<1> QED
  BY <1>1, <1>2, <1>3, PTL DEF WeatherflowSpec
\* A larger set of rows is not smaller, and a row that is not in it makes it larger by one.
LEMMA RowsCount ==
    ASSUME NEW S, NEW T, IsFiniteSet(T), S \subseteq T, NEW r \in T, NEW n \in {0, 1},
           n = 1 => r \notin S
    PROVE  /\ IsFiniteSet(S) /\ Cardinality(S) \in Nat /\ Cardinality(T) \in Nat
           /\ Cardinality(S) + n <= Cardinality(T)
<1>1. IsFiniteSet(S) /\ Cardinality(S) \in Nat /\ Cardinality(T) \in Nat /\ Cardinality(S) <= Cardinality(T)
  BY FS_Subset, FS_CardinalityType
<1>2. CASE n = 1
  <2>1. IsFiniteSet(S \cup {r}) /\ Cardinality(S \cup {r}) = Cardinality(S) + 1
    BY <1>1, <1>2, FS_AddElement
  <2>2. Cardinality(S \cup {r}) <= Cardinality(T)
    BY FS_Subset
  <2> QED
    BY <1>1, <1>2, <2>1, <2>2
<1> QED
  BY <1>1, <1>2

\* Every step keeps the account of the showers.
LEMMA ShowersKept ==
    ASSUME WeatherflowInv, ShowersAreRows, [WeatherflowNext]_wfVars
    PROVE  ShowersAreRows'
<1> USE WeatherflowAssumption
<1>t. WeatherflowTypeOK /\ IsFiniteSet(made) /\ RowsAreApart /\ minute \in Nat
  BY DEF WeatherflowInv, WeatherflowTypeOK, ShowersAreRows
<1>m. ASSUME NEW r \in made
      PROVE  /\ r \in Row /\ r.kind \in Kinds /\ r.time \in Nat /\ r.rain \in {0, 1} /\ r.made <= minute
             /\ r.made \in Nat
             /\ r.rain = 1 => r.kind = "observation"
  BY <1>t DEF WeatherflowTypeOK, RowsAreApart, Row
<1>o. /\ newest["observation"].time \in Nat
      /\ \A k \in Kinds : newest[k].time \in Nat
  BY <1>t DEF WeatherflowTypeOK, Unheard, Kinds
<1>f. /\ IsFiniteSet(Rainy) /\ IsFiniteSet(Passed)
      /\ Cardinality(Passed) \in Nat /\ Cardinality(Rainy) \in Nat
  <2>1. Rainy \subseteq made /\ Passed \subseteq made
    BY DEF Rainy, Passed
  <2> QED
    BY <1>t, <2>1, FS_Subset, FS_CardinalityType
<1>p. ASSUME NEW i \in 1..Len(packets) PROVE packets[i] \in made
  BY DEF ShowersAreRows
<1>q. packets # <<>> =>
        /\ Packet1 \in made
        /\ \A i \in 1..Len(Tail(packets)) : Tail(packets)[i] \in made
  <2> HAVE packets # <<>>
  <2>1. packets \in Seq(Row) /\ Len(packets) \in Nat /\ Len(packets) >= 1
    BY <1>t DEF WeatherflowTypeOK
  <2>2. Len(Tail(packets)) = Len(packets) - 1
    BY <2>1
  <2>3. ASSUME NEW i \in 1..Len(Tail(packets)) PROVE Tail(packets)[i] \in made
    <3>1. Tail(packets)[i] = packets[i + 1] /\ i + 1 \in 1..Len(packets)
      BY <2>1, <2>2
    <3> QED
      BY <1>p, <3>1
  <2> QED
    BY <1>p, <2>1, <2>3 DEF Packet1
<1>1. CASE Passes
  <2>1. RowsAreApart'
    BY <1>1, <1>t, <1>m DEF Passes, RowsAreApart
  <2> QED
    BY <1>1, <2>1 DEF Passes, ShowersAreRows, Rainy, Passed
<1>2. CASE HubClockChanges
  BY <1>2 DEF HubClockChanges, ShowersAreRows, RowsAreApart, Rainy, Passed
<1>3. CASE Listens
  <2>1. PICK k \in Kinds : packets' \in Datagrams(k)
    BY <1>3 DEF Listens
  <2>2. PICK n \in 1..MostRows(k) : packets' \in [1..n -> {r \in RowsOf(k) : InWindow(r)}]
    BY <2>1 DEF Datagrams
  <2>3. Len(packets') = n
    BY <2>1, <2>2, <1>t, DatagramsAreNear DEF MostRows
  <2>4. \A i \in 1..Len(packets') : packets'[i] \in made
    BY <2>2, <2>3 DEF RowsOf
  <2>5. UNCHANGED <<minute, made, showers, newest, reported>>
    BY <1>3 DEF Listens, hubVars
  <2> QED
    BY <2>4, <2>5 DEF ShowersAreRows, RowsAreApart, Rainy, Passed
<1>4. CASE Keeps
  <2>1. /\ packets # <<>> /\ packets' = Tail(packets) /\ reported' = reported + Packet1.rain
        /\ UNCHANGED <<minute, made, showers>>
        /\ newest' = [newest EXCEPT ![Packet1.kind] = [time |-> Packet1.time, digest |-> Packet1.rain]]
    BY <1>4 DEF Keeps, hubVars
  <2>2. Packet1 \in made /\ Packet1.rain \in {0, 1} /\ Packet1.kind \in Kinds /\ Packet1.time \in Nat
    BY <2>1, <1>q, <1>m
  <2>3. Packet1.time > newest[Packet1.kind].time
    BY <1>4 DEF Keeps, Ordered, LastOf
  <2>4. newest["observation"].time <= newest'["observation"].time
    BY <1>o, <2>1, <2>2, <2>3 DEF Kinds, WeatherflowTypeOK
  <2>x. newest'["observation"].time \in Nat
    BY <1>o, <2>1, <2>2 DEF Kinds, WeatherflowTypeOK
  <2>5. Passed \subseteq Passed'
    BY <1>o, <1>m, <2>x, <2>1, <2>4 DEF Passed, Rainy
  <2>6. IsFiniteSet(Passed') /\ Cardinality(Passed') \in Nat
    <3>1. Passed' \subseteq made
      BY <2>1 DEF Passed, Rainy
    <3> QED
      BY <1>t, <3>1, FS_Subset, FS_CardinalityType
  <2>7. CASE Packet1.rain = 0
    <3>1. Cardinality(Passed) <= Cardinality(Passed')
      BY <2>5, <2>6, FS_Subset
    <3>2. reported' <= Cardinality(Passed')
      BY <1>f, <1>t, <2>1, <2>6, <2>7, <3>1 DEF ShowersAreRows, WeatherflowTypeOK
    <3> QED
      BY <1>q, <2>1, <3>2 DEF ShowersAreRows, RowsAreApart, Rainy
  <2>8. CASE Packet1.rain = 1
    <3>1. Packet1.kind = "observation"
      BY <1>m, <2>2, <2>8
    <3>2. newest'["observation"].time = Packet1.time
      BY <1>t, <2>1, <2>2, <3>1 DEF WeatherflowTypeOK, Kinds
    <3>3. Packet1 \in Passed' /\ Packet1 \notin Passed
      BY <1>o, <2>1, <2>2, <2>3, <2>8, <3>1, <3>2 DEF Passed, Rainy
    <3>4. Cardinality(Passed) + 1 <= Cardinality(Passed')
      BY <2>5, <2>6, <3>3, RowsCount
    <3>5. reported' <= Cardinality(Passed')
      BY <1>f, <1>t, <2>1, <2>6, <2>8, <3>4, SMTT(30) DEF ShowersAreRows, WeatherflowTypeOK
    <3> QED
      BY <1>q, <2>1, <3>5 DEF ShowersAreRows, RowsAreApart, Rainy
  <2> QED
    BY <2>2, <2>7, <2>8
<1>5. CASE Discards
  BY <1>5, <1>q DEF Discards, hubVars, ShowersAreRows, RowsAreApart, Rainy, Passed
<1>6. CASE DropsRest
  BY <1>6 DEF DropsRest, hubVars, ShowersAreRows, RowsAreApart, Rainy, Passed
<1>7. CASE WorkerRestarts
  BY <1>7 DEF WorkerRestarts, hubVars, ShowersAreRows, RowsAreApart, Rainy, Passed
<1>8. ASSUME NEW k \in Kinds, Measures(k) PROVE ShowersAreRows'
  <2>1. PICK shower \in 0..(IF k = "observation" THEN 1 ELSE 0) :
            /\ showers' = showers + shower
            /\ made' = made \cup {[kind |-> k, time |-> minute + (IF wrong THEN HubError ELSE 0),
                                   rain |-> shower, made |-> minute]}
    BY <1>8 DEF Measures
  <2> DEFINE new == [kind |-> k, time |-> minute + (IF wrong THEN HubError ELSE 0),
                     rain |-> shower, made |-> minute]
  <2>2. /\ new.kind = k /\ new.rain = shower /\ new.made = minute
        /\ shower \in {0, 1} /\ (shower = 1 => k = "observation")
    OBVIOUS
  <2>3. new \notin made
    <3>1. \A r \in made : r.kind = k => r.made < minute
      BY <1>8 DEF Measures
    <3> QED
      BY <1>t, <2>2, <3>1
  <2>4. UNCHANGED <<minute, packets, newest, reported>>
    BY <1>8 DEF Measures
  <2> HIDE DEF new
  <2>5. made' = made \cup {new}
    BY <2>1 DEF new
  <2>6. IsFiniteSet(made') /\ RowsAreApart'
    <3>1. IsFiniteSet(made')
      BY <1>t, <2>5, FS_AddElement
    <3> QED
      BY <1>t, <2>2, <2>4, <2>5, <3>1 DEF RowsAreApart
  <2>7. Cardinality(Rainy') = showers'
    <3>1. CASE shower = 0
      <4>1. Rainy' = Rainy
        BY <2>2, <2>5, <3>1 DEF Rainy
      <4> QED
        BY <1>f, <2>1, <3>1, <4>1 DEF ShowersAreRows
    <3>2. CASE shower = 1
      <4>1. Rainy' = Rainy \cup {new} /\ new \notin Rainy
        BY <2>2, <2>3, <2>5, <3>2 DEF Rainy
      <4>2. Cardinality(Rainy') = Cardinality(Rainy) + 1
        BY <1>f, <4>1, FS_AddElement
      <4> QED
        BY <2>1, <3>2, <4>2 DEF ShowersAreRows
    <3> QED
      BY <2>2, <3>1, <3>2
  <2>8. reported' <= Cardinality(Passed')
    <3>1. Passed \subseteq Passed' /\ Passed' \subseteq made'
      BY <2>4, <2>5 DEF Passed, Rainy
    <3>2. Cardinality(Passed) <= Cardinality(Passed') /\ Cardinality(Passed') \in Nat
      BY <2>6, <3>1, FS_Subset, FS_CardinalityType
    <3> QED
      BY <1>f, <1>t, <2>4, <3>2 DEF ShowersAreRows, WeatherflowTypeOK
  <2> QED
    BY <2>4, <2>5, <2>6, <2>7, <2>8 DEF ShowersAreRows
<1>9. CASE UNCHANGED wfVars
  BY <1>9 DEF wfVars, hubVars, ShowersAreRows, RowsAreApart, Rainy, Passed
<1> QED
  BY <1>1, <1>2, <1>3, <1>4, <1>5, <1>6, <1>7, <1>8, <1>9 DEF WeatherflowNext, ReadsNothing, Handles

HubInv == WeatherflowInv /\ ShowersAreRows

LEMMA HubStarts == WeatherflowInit => HubInv
<1> SUFFICES ASSUME WeatherflowInit PROVE ShowersAreRows
  BY WeatherflowStarts DEF HubInv
<1>1. made = {} /\ showers = 0 /\ reported = 0 /\ packets = <<>>
  BY DEF WeatherflowInit
<1>2. Rainy = {} /\ Passed = {}
  BY <1>1 DEF Rainy, Passed
<1> QED
  BY <1>1, <1>2, FS_EmptySet DEF ShowersAreRows, RowsAreApart

LEMMA HubKept == HubInv /\ [WeatherflowNext]_wfVars => HubInv'
BY WeatherflowSteps, ShowersKept DEF HubInv

\* What the events carry are showers whose rows the mark has passed.
LEMMA HubRainIsInRows == HubInv => RainIsAddedOnce
<1> SUFFICES ASSUME WeatherflowInv, ShowersAreRows PROVE RainIsAddedOnce
  BY DEF HubInv
<1>1. Passed \subseteq Rainy /\ Rainy \subseteq made
  BY DEF Passed, Rainy
<1>2. /\ Cardinality(Passed) <= Cardinality(Rainy)
      /\ Cardinality(Passed) \in Nat /\ Cardinality(Rainy) \in Nat
  BY <1>1, FS_Subset, FS_CardinalityType DEF ShowersAreRows
<1> QED
  BY <1>2 DEF ShowersAreRows, RainIsAddedOnce, WeatherflowInv, WeatherflowTypeOK

\* Whatever the network repeats, reorders or combines, however often the worker restarts
\* and wherever the clock of the hub jumps to, the events never carry more rain than fell
\* (the order and repeat checks of sensor_sources.py).
THEOREM HubRainIsAddedOnce == WeatherflowSpec => []RainIsAddedOnce
<1> QED
  BY HubStarts, HubKept, HubRainIsInRows, PTL DEF WeatherflowSpec

(***************************************************************************)
(* MCReceivers: the receivers side by side.                                *)
(***************************************************************************)

\* The worker of another kind of receiver has none of the SDR's processes.
LEMMA SdrIsOff == SdrOff => SdrInv
<1> SUFFICES ASSUME SdrOff PROVE SdrInv
  OBVIOUS
<1>1. /\ heard = <<>> /\ queue = <<>> /\ held = <<>> /\ pipe = <<>> /\ sent = {}
      /\ oversized = FALSE /\ closed = TRUE /\ room = TRUE
      /\ worker = "closed" /\ reader = "done" /\ decoder = "reaped" /\ parent = "ended"
      /\ purpose = "off" /\ lines = 0
  BY DEF SdrOff
<1>2. /\ Chunks(heard) = {} /\ Chunks(queue) = {} /\ Chunks(held) = {} /\ Chunks(pipe) = {}
      /\ UnderWay = {}
  BY <1>1 DEF Chunks, UnderWay
<1>3. SdrTypeOK
  <2>1. oversized \in BOOLEAN /\ closed \in BOOLEAN /\ room \in BOOLEAN
    BY <1>1, Zenon
  <2>2. lines \in 0..MaxLines /\ Len(<<>>) <= PipeSize /\ Len(<<>>) <= QueueSize
    BY <1>1, SdrAssumption
  <2> QED
    BY <1>1, <2>1, <2>2 DEF SdrTypeOK, Closing, Gone
<1>4. LinesAreInOrder
  BY <1>1, <1>2 DEF LinesAreInOrder, Ascends, IsBelow
<1>5. NoLineIsLost
  BY <1>1 DEF NoLineIsLost, Listening
<1>6. LongLinesAreWhole
  BY <1>1, <1>2 DEF LongLinesAreWhole
<1>7. CloseIsInOrder
  BY <1>1 DEF CloseIsInOrder, Alive
<1> QED
  BY <1>3, <1>4, <1>5, <1>6, <1>7 DEF SdrInv

\* Whichever the driver is, its receiver is sound and the others stand still.
ReceiversInv ==
    RouterInv /\ SdrInv /\ GatewayInv /\ ReportsAreSound /\ FrameInv /\ HubInv

LEMMA ReceiversStart == ReceiversInit => ReceiversInv
<1> SUFFICES ASSUME ReceiversInit PROVE ReceiversInv
  OBVIOUS
<1>1. /\ Init /\ (SdrInit \/ SdrOff) /\ (GatewayInit \/ GatewayOff)
      /\ (FrameInit \/ FrameOff) /\ WeatherflowInit
  BY DEF ReceiversInit, WeatherflowOff
<1>2. RouterInv /\ SdrInv /\ GatewayInv /\ ReportsAreSound /\ HubInv
  BY <1>1, RouterStarts, SdrStarts, SdrIsOff, GatewayStarts, ReportsStart, HubStarts
<1>3. FrameInv
  BY <1>1, FramesBegin, FramesAreOff
<1> QED
  BY <1>2, <1>3 DEF ReceiversInv

LEMMA ReceiversStep ==
    ASSUME [ReceiversNext]_receiverVars
    PROVE  /\ [Next]_vars /\ [SdrNext]_sdrVars /\ [GatewayNext]_gwVars
           /\ [FrameNext]_frameVars /\ [WeatherflowNext]_wfVars
BY DEF ReceiversNext, receiverVars

LEMMA ReceiversKept == ReceiversInv /\ [ReceiversNext]_receiverVars => ReceiversInv'
<1> SUFFICES ASSUME ReceiversInv, [ReceiversNext]_receiverVars PROVE ReceiversInv'
  OBVIOUS
<1>1. /\ [Next]_vars /\ [SdrNext]_sdrVars /\ [GatewayNext]_gwVars
      /\ [FrameNext]_frameVars /\ [WeatherflowNext]_wfVars
  BY ReceiversStep
<1>2. RouterInv' /\ SdrInv' /\ HubInv'
  BY <1>1, RouterKept, SdrKept, HubKept DEF ReceiversInv
<1>3. GatewayInv' /\ ReportsAreSound' /\ FrameInv'
  BY <1>1, GatewayKept, ReportsKept, FramesKept DEF ReceiversInv
<1> QED
  BY <1>2, <1>3 DEF ReceiversInv

\* The inductive invariant of the receivers side by side.
THEOREM ReceiversInvariant == ReceiversSpec => []ReceiversInv
<1> QED
  BY ReceiversStart, ReceiversKept, PTL DEF ReceiversSpec

\* The states of all parts are well typed, and queues, pipes and tables within their
\* bounds: the registry within max_sensors, the spools within max_events, the queue of
\* the reader and the pipe within their sizes, a datagram within its rows.
THEOREM ReceiversAreTyped == ReceiversSpec => []ReceiversTypeOK
<1>1. ReceiversInv => ReceiversTypeOK
  BY FramesAreTyped DEF ReceiversInv, ReceiversTypeOK, RouterInv, SdrInv, GatewayInv, HubInv,
                        WeatherflowInv
<1> QED
  BY <1>1, ReceiversInvariant, PTL

\* All that the receivers promise holds whichever of them the driver names.
THEOREM ReceiversAreSound ==
    ReceiversSpec => [](/\ RainAddsUp /\ IdsAreUnique
                        /\ LinesArriveInOrder /\ NothingIsLeftRunning
                        /\ EachValueOnce /\ ReadingsAreOwn /\ RainWithinFall
                        /\ ReadAsSent /\ RainIsAddedOnce /\ SilenceIsBounded)
<1>1. ASSUME ReceiversInv
      PROVE  /\ RainAddsUp /\ IdsAreUnique
             /\ LinesArriveInOrder /\ NothingIsLeftRunning
             /\ EachValueOnce /\ ReadingsAreOwn /\ RainWithinFall
             /\ ReadAsSent /\ RainIsAddedOnce /\ SilenceIsBounded
  <2>1. RainAddsUp /\ IdsAreUnique
    BY <1>1, RainIsInBooks, IdsAreCounted DEF ReceiversInv
  <2>2. LinesArriveInOrder /\ NothingIsLeftRunning
    BY <1>1, LinesAreKept, CloseIsDone DEF ReceiversInv
  <2>3. EachValueOnce /\ ReadingsAreOwn
    BY <1>1 DEF ReceiversInv, ReportsAreSound
  <2>4. RainWithinFall
    BY <1>1, CreditIsCovered DEF ReceiversInv
  <2>5. ReadAsSent
    BY <1>1, AllIsRead DEF ReceiversInv
  <2>6. RainIsAddedOnce /\ SilenceIsBounded
    BY <1>1, HubRainIsInRows DEF ReceiversInv, HubInv, WeatherflowInv
  <2> QED
    BY <2>1, <2>2, <2>3, <2>4, <2>5, <2>6
<1> QED
  BY <1>1, ReceiversInvariant, PTL
=============================================================================
