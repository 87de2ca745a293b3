--------------------------- MODULE CollectorProofs ---------------------------
(***************************************************************************)
(* Proofs about Collector for every archive interval, age, device memory,  *)
(* spool size, driver, and number of stops and errors.                     *)
(***************************************************************************)
EXTENDS Collector, NumberLemmas, FiniteSetTheorems, TLAPS

\* Records that need no journaling any more.
Settled == committed \cup excused

\* The record in hand is the one the generator yielded last, and new.
HandInv ==
    /\ hand.kind = "none" => hand = Nothing
    /\ hand.kind = "loop" => phase = "loop"
    /\ hand.kind = "archive" => phase = "catchUp" /\ hand.time = position /\ cursor < position

\* What the generator has gone past is settled, or in hand.
ReadingInv ==
    phase = "catchUp" =>
        /\ since <= now /\ position <= now
        /\ \A t \in produced : (t <= since \/ t <= position) =>
             t \in Settled \/ (hand.kind = "archive" /\ t = hand.time)

DeviceInv ==
    /\ logger \subseteq produced
    /\ \A t \in produced : t \in Nat /\ t <= now /\ t \in logger \cup Settled

\* The inductive invariant.
CollectorInv ==
    /\ TypeOK
    /\ DeviceInv
    /\ cursor <= now
    /\ \A t \in committed : t <= cursor
    /\ HandInv
    /\ ReadingInv
    /\ NothingSkipped

-----------------------------------------------------------------------------
\* The archive period is a number (pre_loop and check_loop).
LEMMA PeriodType ==
  ASSUME NEW t \in Nat
  PROVE  (t \div Interval + 1) * Interval \in Nat
<1>1. Interval \in Nat \ {0}
  BY CollectorAssumption
<1>2. t \div Interval + 1 \in Nat
  BY <1>1
<1> DEFINE n == t \div Interval + 1
<1> HIDE DEF n
<1>3. n * Interval \in Nat
  <2>1. n \in Nat
    BY <1>2 DEF n
  <2> QED
    BY <1>1, <2>1
<1> QED
  BY <1>3 DEF n

LEMMA InitCollectorInv == Init => CollectorInv
<1> SUFFICES ASSUME Init PROVE CollectorInv
  OBVIOUS
<1>1. TypeOK
  <2>1. hand \in [kind : {"none", "loop", "archive"}, time : Nat]
    BY DEF Init, Nothing
  <2>2. logger \in SUBSET Nat /\ produced \in SUBSET Nat
    BY DEF Init
  <2>3. committed \in SUBSET Nat /\ excused \in SUBSET Nat
    BY DEF Init
  <2>4. startup \in BOOLEAN /\ hardware \in BOOLEAN
    BY DEF Init
  <2>5. phase \in Phases /\ hardwareState \in {"none", "starting", "active", "software_fallback", "retrying"}
    BY DEF Init, Phases
  <2>6. now \in Nat /\ since \in Int /\ position \in Int /\ periodEnd \in Nat /\ delayEnd \in Nat
    BY DEF Init
  <2>7. rows \in 0..Capacity /\ cursor \in Nat /\ faults \in Nat
    BY CollectorAssumption DEF Init
  <2> QED
    BY <2>1, <2>2, <2>3, <2>4, <2>5, <2>6, <2>7 DEF TypeOK
<1>2. DeviceInv /\ cursor <= now /\ (\A t \in committed : t <= cursor) /\ NothingSkipped
  BY DEF Init, DeviceInv, NothingSkipped
<1>3. HandInv /\ ReadingInv
  BY DEF Init, HandInv, ReadingInv, Nothing
<1> QED
  BY <1>1, <1>2, <1>3 DEF CollectorInv

\* An append never takes the spool over its quota.
LEMMA AppendedRows ==
  ASSUME TypeOK, rows < Capacity
  PROVE  rows + 1 \in 0..Capacity
BY CollectorAssumption DEF TypeOK

\* The steps of the worker that only move between the phases.
LEMMA EnterLoopType ==
  ASSUME now \in Nat, EnterLoop
  PROVE  phase' = "loop" /\ periodEnd' \in Nat /\ delayEnd' \in Nat
<1>1. (now \div Interval + 1) * Interval \in Nat /\ Delay \in Nat
  BY PeriodType, CollectorAssumption
<1> QED
  BY <1>1 DEF EnterLoop

LEMMA EndCatchUpType ==
  ASSUME TypeOK, EndCatchUp
  PROVE  phase' = "loop" /\ periodEnd' \in Nat /\ delayEnd' \in Nat
<1>1. CASE startup
  BY <1>1, EnterLoopType DEF EndCatchUp, TypeOK
<1>2. CASE ~startup
  <2>1. periodEnd + Delay \in Nat
    BY CollectorAssumption DEF TypeOK
  <2> QED
    BY <1>2, <2>1 DEF EndCatchUp, TypeOK
<1> QED
  BY <1>1, <1>2

\* A catch-up begins with everything before its lower bound settled.
LEMMA BeginCatchUpInv ==
  ASSUME CollectorInv, NEW atStartup \in BOOLEAN, BeginCatchUp(atStartup),
         hand' = Nothing, UNCHANGED <<device, cursor, committed>>
  PROVE  /\ phase' = "catchUp" /\ startup' \in BOOLEAN /\ since' \in Int /\ position' \in Int
         /\ excused' \in SUBSET Nat
         /\ DeviceInv' /\ HandInv' /\ ReadingInv' /\ NothingSkipped'
<1>1. MaxAge \in Nat /\ now \in Nat /\ cursor \in Nat /\ cursor <= now
  BY CollectorAssumption DEF CollectorInv, TypeOK
<1>2. /\ since' \in Int /\ cursor <= since' /\ now - MaxAge <= since' /\ since' <= now
      /\ since' = cursor \/ since' = now - MaxAge
      /\ position' \in Int /\ position' <= since'
  BY <1>1 DEF BeginCatchUp, Later
<1>3. excused \subseteq excused' /\ excused' \in SUBSET Nat
  BY DEF BeginCatchUp, CollectorInv, TypeOK, DeviceInv
<1>4. DeviceInv'
  BY <1>3 DEF CollectorInv, DeviceInv, Settled, device
<1>5. HandInv'
  BY DEF HandInv, Nothing
<1>6. NothingSkipped'
  BY <1>3 DEF CollectorInv, NothingSkipped, device
<1>7. ReadingInv'
  <2>1. ASSUME NEW t \in produced, t <= since' \/ t <= position'
        PROVE  t \in Settled'
    <3>1. t \in Nat /\ t <= since'
      BY <1>1, <1>2, <2>1 DEF CollectorInv, DeviceInv
    <3>2. CASE t <= cursor
      BY <1>3, <3>2 DEF CollectorInv, NothingSkipped, Settled
    <3>3. CASE cursor < t /\ t <= now - MaxAge
      BY <3>3 DEF BeginCatchUp, Settled
    <3> QED
      BY <1>1, <1>2, <3>1, <3>2, <3>3
  <2> QED
    BY <1>1, <1>2, <2>1 DEF ReadingInv, device
<1> QED
  BY <1>2, <1>3, <1>4, <1>5, <1>6, <1>7 DEF BeginCatchUp

\* Each action of the worker and of its surroundings keeps the invariant.
LEMMA TickInv == CollectorInv /\ Tick => CollectorInv'
<1> SUFFICES ASSUME CollectorInv, Tick PROVE CollectorInv'
  OBVIOUS
<1>0. TypeOK /\ DeviceInv
  BY DEF CollectorInv
<1>1. now \in Nat /\ now' = now + 1 /\ now' \in Nat
  BY DEF Tick, CollectorInv, TypeOK
<1>2. /\ produced' \subseteq produced \cup {now'} /\ produced \subseteq produced'
      /\ logger' \subseteq logger \cup {now'}
      /\ now' \in produced' => produced' = produced \/ now' \in logger \cup {now'}
  BY DEF Tick, Latest
<1>3. excused' = excused \cup (logger \ logger') /\ committed' = committed
  BY DEF Tick, spool
<1>4. TypeOK'
  BY <1>0, <1>1, <1>2, <1>3 DEF Tick, TypeOK, reading, mode, period, spool
<1>5. DeviceInv'
  <2>1. logger' \subseteq produced'
    BY <1>0 DEF Tick, Latest, DeviceInv
  <2>2. ASSUME NEW t \in produced' PROVE t \in Nat /\ t <= now' /\ t \in logger' \cup Settled'
    <3>1. CASE t \in produced
      BY <1>0, <1>1, <1>3, <3>1 DEF DeviceInv, Settled
    <3>2. CASE t \notin produced
      <4>1. t = now' /\ logger' = Latest(logger \cup {now'})
        BY <1>2, <3>2 DEF Tick
      <4>2. {r \in logger \cup {now'} : r > now'} = {}
        BY <1>0, <1>1 DEF DeviceInv
      <4>3. Cardinality({r \in logger \cup {now'} : r > now'}) = 0
        BY <4>2, FS_EmptySet
      <4>4. now' \in logger'
        BY <4>1, <4>3, CollectorAssumption DEF Latest
      <4> QED
        BY <1>1, <4>1, <4>4
    <3> QED
      BY <3>1, <3>2
  <2> QED
    BY <2>1, <2>2 DEF DeviceInv
<1>6. NothingSkipped'
  <2>1. cursor' = cursor /\ cursor \in Nat /\ cursor <= now
    BY DEF Tick, spool, CollectorInv, TypeOK
  <2> QED
    BY <1>1, <1>2, <1>3, <2>1 DEF NothingSkipped, CollectorInv
<1>7. ReadingInv'
  <2>1. since' = since /\ position' = position /\ phase' = phase /\ hand' = hand
        /\ since \in Int /\ position \in Int
    BY <1>0 DEF Tick, reading, TypeOK
  <2> QED
    BY <1>1, <1>2, <1>3, <2>1 DEF ReadingInv, CollectorInv, Settled
<1>8. HandInv' /\ cursor' <= now' /\ \A t \in committed' : t <= cursor'
  BY <1>0, <1>1 DEF CollectorInv, TypeOK, HandInv, Tick, reading, spool
<1> QED
  BY <1>4, <1>5, <1>6, <1>7, <1>8 DEF CollectorInv

\* Outside a catch-up and without a record in hand only types are left to show.
LEMMA LeaveInv ==
  ASSUME CollectorInv, TypeOK', UNCHANGED <<device, cursor, committed, excused>>,
         hand' = Nothing \/ (hand'.kind = "loop" /\ phase' = "loop"), phase' # "catchUp"
  PROVE  CollectorInv'
<1>1. DeviceInv' /\ NothingSkipped' /\ cursor' <= now' /\ \A t \in committed' : t <= cursor'
  BY DEF CollectorInv, DeviceInv, NothingSkipped, Settled, device
<1>2. HandInv' /\ ReadingInv'
  BY DEF HandInv, ReadingInv, Nothing
<1> QED
  BY <1>1, <1>2 DEF CollectorInv

LEMMA SkipHistoryInv == CollectorInv /\ SkipHistory => CollectorInv'
<1> SUFFICES ASSUME CollectorInv, SkipHistory PROVE CollectorInv'
  OBVIOUS
<1>0. TypeOK
  BY DEF CollectorInv
<1>1. phase' = "loop" /\ periodEnd' \in Nat /\ delayEnd' \in Nat
  BY <1>0, EnterLoopType DEF SkipHistory, TypeOK
<1>2. hand = Nothing /\ hand' = Nothing
  BY <1>0 DEF SkipHistory, CollectorInv, HandInv, TypeOK
<1>3. TypeOK'
  BY <1>0, <1>1 DEF SkipHistory, TypeOK, Phases, device, reading, mode
<1>4. CASE cursor # 0
  BY <1>1, <1>2, <1>3, <1>4, LeaveInv DEF SkipHistory
<1>5. CASE cursor = 0
  <2>1. cursor' = now /\ excused' = excused \cup produced /\ committed' = committed
    BY <1>5 DEF SkipHistory
  <2>2. DeviceInv' /\ NothingSkipped'
    BY <2>1 DEF SkipHistory, CollectorInv, DeviceInv, NothingSkipped, Settled, device
  <2>3. cursor' <= now' /\ \A t \in committed' : t <= cursor'
    BY <1>0, <1>5, <2>1 DEF SkipHistory, CollectorInv, TypeOK, device
  <2>4. HandInv' /\ ReadingInv'
    BY <1>1, <1>2 DEF HandInv, ReadingInv, Nothing
  <2> QED
    BY <1>3, <2>2, <2>3, <2>4 DEF CollectorInv
<1> QED
  BY <1>4, <1>5

LEMMA CatchUpAtStartupInv == CollectorInv /\ CatchUpAtStartup => CollectorInv'
<1> SUFFICES ASSUME CollectorInv, CatchUpAtStartup PROVE CollectorInv'
  OBVIOUS
<1>0. TypeOK
  BY DEF CollectorInv
<1>1. hand' = Nothing
  BY <1>0 DEF CatchUpAtStartup, CollectorInv, HandInv, TypeOK
<1>2. BeginCatchUp(TRUE) /\ UNCHANGED <<device, spool>>
  BY DEF CatchUpAtStartup
<1>3. /\ phase' = "catchUp" /\ startup' \in BOOLEAN /\ since' \in Int /\ position' \in Int
      /\ excused' \in SUBSET Nat
      /\ DeviceInv' /\ HandInv' /\ ReadingInv' /\ NothingSkipped'
  BY <1>1, <1>2, BeginCatchUpInv DEF spool
<1>4. TypeOK' /\ cursor' <= now' /\ \A t \in committed' : t <= cursor'
  BY <1>3 DEF CatchUpAtStartup, CollectorInv, TypeOK, Phases, device, mode, period, spool
<1> QED
  BY <1>3, <1>4 DEF CollectorInv

\* The record yielded is the next one the device still has, and those in
\* between are settled because the device lost them.
LEMMA YieldRecordInv == CollectorInv /\ YieldRecord => CollectorInv'
<1> SUFFICES ASSUME CollectorInv, YieldRecord PROVE CollectorInv'
  OBVIOUS
<1>0. TypeOK /\ DeviceInv /\ ReadingInv /\ NothingSkipped
  BY DEF CollectorInv
<1>1. /\ phase = "catchUp" /\ hand = Nothing
      /\ UNCHANGED <<device, phase, startup, since, mode, period, spool, excused, faults>>
  BY DEF YieldRecord, CatchingUp
<1>2. position' \in Remaining /\ \A t \in Remaining : position' <= t
  <2>1. Remaining \in SUBSET Nat /\ Remaining # {} /\ position' = Min(Remaining)
    BY <1>0 DEF YieldRecord, Remaining, TypeOK
  <2> HIDE DEF Remaining
  <2> QED
    BY <2>1, MinIsMember
<1>3. position' \in logger /\ position' \in Nat /\ position' <= now /\ position < position'
  BY <1>0, <1>2 DEF Remaining, TypeOK, DeviceInv
<1>4. TypeOK'
  BY <1>0, <1>1, <1>3 DEF YieldRecord, TypeOK, Nothing, device, mode, period, spool
<1>5. DeviceInv' /\ NothingSkipped' /\ cursor' <= now' /\ \A t \in committed' : t <= cursor'
  BY <1>1 DEF CollectorInv, DeviceInv, NothingSkipped, Settled, device, spool
<1>6. HandInv'
  BY <1>0, <1>1, <1>3 DEF YieldRecord, HandInv, Nothing, Later, TypeOK, spool
<1>7. ReadingInv'
  <2>1. ASSUME NEW t \in produced, t <= since \/ t <= position'
        PROVE  t \in Settled \/ (hand'.kind = "archive" /\ t = hand'.time)
    <3>1. t \in Nat /\ since \in Int /\ position \in Int /\ cursor \in Nat
      BY <1>0 DEF DeviceInv, TypeOK
    <3>2. CASE t <= since \/ t <= position
      BY <1>0, <1>1, <3>2 DEF ReadingInv, Nothing
    <3>3. CASE since < t /\ position < t /\ t # position'
      <4>1. t \notin Remaining
        BY <1>2, <1>3, <2>1, <3>1, <3>3
      <4>2. t \notin logger
        BY <3>3, <4>1 DEF Remaining
      <4> QED
        BY <1>0, <4>2 DEF DeviceInv
    <3>4. CASE since < t /\ t = position'
      <4>1. CASE t <= cursor
        BY <1>0, <4>1 DEF NothingSkipped, Settled
      <4>2. CASE cursor < t
        BY <3>1, <3>4, <4>2 DEF YieldRecord, Later
      <4> QED
        BY <3>1, <4>1, <4>2
    <3> QED
      BY <3>1, <3>2, <3>3, <3>4
  <2> QED
    BY <1>0, <1>1, <1>3, <2>1 DEF ReadingInv, Settled, device, spool
<1> QED
  BY <1>4, <1>5, <1>6, <1>7 DEF CollectorInv

\* The catch-up ends, one way or another.
LEMMA EndOfReadingInv ==
  CollectorInv /\ (EndOfRecords \/ Unsupported \/ HardwareError) => CollectorInv'
<1> SUFFICES ASSUME CollectorInv, EndOfRecords \/ Unsupported \/ HardwareError
             PROVE  CollectorInv'
  OBVIOUS
<1>0. TypeOK
  BY DEF CollectorInv
<1>1. /\ hand = Nothing /\ EndCatchUp
      /\ UNCHANGED <<device, hand, reading, spool, excused>>
  BY DEF EndOfRecords, Unsupported, HardwareError, CatchingUp
<1>2. phase' = "loop" /\ periodEnd' \in Nat /\ delayEnd' \in Nat
  BY <1>0, <1>1, EndCatchUpType
<1>3. /\ hardware' \in BOOLEAN /\ faults' \in Nat
      /\ hardwareState' \in {"active", "software_fallback", "retrying"}
  <2>1. hardware' \in {hardware, startup}
    BY DEF EndOfRecords, Unsupported, HardwareError
  <2>2. faults' \in {faults, faults + 1}
    BY DEF EndOfRecords, Unsupported, HardwareError, Fault
  <2>3. hardwareState' \in {"active", "software_fallback", "retrying"}
    BY DEF EndOfRecords, Unsupported, HardwareError
  <2> QED
    BY <1>0, <2>1, <2>2, <2>3 DEF TypeOK
<1>4. TypeOK'
  BY <1>0, <1>1, <1>2, <1>3 DEF TypeOK, Phases, device, reading, spool
<1> QED
  BY <1>1, <1>2, <1>4, LeaveInv DEF spool

LEMMA JournalPacketInv == CollectorInv /\ JournalPacket => CollectorInv'
<1> SUFFICES ASSUME CollectorInv, JournalPacket PROVE CollectorInv'
  OBVIOUS
<1>0. TypeOK
  BY DEF CollectorInv
<1> DEFINE t == hand.time
           end == IF t > periodEnd THEN (t \div Interval + 1) * Interval ELSE periodEnd
<1>1. t \in Nat /\ Delay \in Nat /\ end \in Nat
  BY <1>0, PeriodType, CollectorAssumption DEF TypeOK
<1>2. /\ phase = "loop" /\ hand' = Nothing
      /\ UNCHANGED <<device, mode, cursor, committed, faults>>
  BY <1>0 DEF JournalPacket, CollectorInv, HandInv, TypeOK
<1>6. rows' \in 0..Capacity
  BY <1>0, AppendedRows DEF JournalPacket
<1>3. periodEnd' = end
  BY DEF JournalPacket, CheckLoop
<1>4. CASE t >= delayEnd /\ hardware
  <2>1. BeginCatchUp(FALSE) /\ UNCHANGED delayEnd
    BY <1>4 DEF JournalPacket, CheckLoop
  <2>2. /\ phase' = "catchUp" /\ startup' \in BOOLEAN /\ since' \in Int /\ position' \in Int
        /\ excused' \in SUBSET Nat
        /\ DeviceInv' /\ HandInv' /\ ReadingInv' /\ NothingSkipped'
    BY <1>2, <2>1, BeginCatchUpInv
  <2>3. TypeOK' /\ cursor' <= now' /\ \A r \in committed' : r <= cursor'
    BY <1>0, <1>1, <1>2, <1>3, <1>6, <2>1, <2>2
    DEF CollectorInv, TypeOK, Phases, Nothing, device, mode
  <2> QED
    BY <2>2, <2>3 DEF CollectorInv
<1>5. CASE ~(t >= delayEnd /\ hardware)
  <2>1. /\ delayEnd' \in Nat
        /\ UNCHANGED <<phase, reading, excused>>
    <3>1. /\ delayEnd' = IF t >= delayEnd THEN end + Delay ELSE delayEnd
          /\ UNCHANGED <<phase, reading, excused>>
      BY <1>5 DEF JournalPacket, CheckLoop
    <3>2. end + Delay \in Nat /\ delayEnd \in Nat
      BY <1>0, <1>1 DEF TypeOK
    <3> HIDE DEF end, t
    <3> QED
      BY <3>1, <3>2
  <2>2. TypeOK'
    BY <1>0, <1>1, <1>2, <1>3, <1>6, <2>1 DEF TypeOK, Nothing, device, reading, mode
  <2> QED
    BY <1>2, <2>1, <2>2, LeaveInv
<1> QED
  BY <1>4, <1>5

LEMMA JournalRecordInv == CollectorInv /\ JournalRecord => CollectorInv'
<1> SUFFICES ASSUME CollectorInv, JournalRecord PROVE CollectorInv'
  OBVIOUS
<1>0. TypeOK /\ DeviceInv /\ ReadingInv /\ NothingSkipped
  BY DEF CollectorInv
<1>1. /\ phase = "catchUp" /\ hand.time = position /\ cursor < position
      /\ position \in Nat /\ cursor \in Nat /\ now \in Nat /\ position <= now
  BY <1>0 DEF JournalRecord, CollectorInv, HandInv, ReadingInv, TypeOK
<1>2. /\ cursor' = position /\ committed' = committed \cup {position} /\ hand' = Nothing
      /\ UNCHANGED <<device, phase, reading, mode, period, excused, faults>>
  BY <1>1 DEF JournalRecord, Later
<1>8. rows' \in 0..Capacity
  BY <1>0, AppendedRows DEF JournalRecord
<1>3. TypeOK'
  BY <1>0, <1>1, <1>2, <1>8 DEF TypeOK, Nothing, device, reading, mode, period
<1>4. DeviceInv'
  BY <1>0, <1>2 DEF DeviceInv, Settled, device
<1>5. NothingSkipped' /\ ReadingInv'
  <2>1. ASSUME NEW t \in produced, t <= since \/ t <= position
        PROVE  t \in Settled'
    BY <1>0, <1>1, <1>2, <2>1 DEF ReadingInv, Settled
  <2> QED
    BY <1>0, <1>1, <1>2, <2>1 DEF NothingSkipped, ReadingInv, Settled, device, reading
<1>6. cursor' <= now' /\ \A t \in committed' : t <= cursor'
  <2>1. \A t \in committed : t \in Nat /\ t <= cursor
    BY <1>0 DEF CollectorInv, TypeOK
  <2> QED
    BY <1>1, <1>2, <2>1 DEF device
<1>7. HandInv'
  BY <1>2 DEF HandInv, Nothing
<1> QED
  BY <1>3, <1>4, <1>5, <1>6, <1>7 DEF CollectorInv

LEMMA NextCollectorInv == CollectorInv /\ [Next]_vars => CollectorInv'
<1> SUFFICES ASSUME CollectorInv, [Next]_vars PROVE CollectorInv'
  OBVIOUS
<1>0. TypeOK
  BY DEF CollectorInv
<1>1. CASE UNCHANGED vars
  BY <1>1 DEF vars, device, reading, mode, period, spool, CollectorInv, TypeOK, DeviceInv,
              HandInv, ReadingInv, NothingSkipped, Settled
<1>2. CASE Tick
  BY <1>2, TickInv
<1>3. CASE Upload
  <2>1. rows' \in 0..Capacity
    BY <1>0, <1>3, CollectorAssumption DEF Upload, TypeOK
  <2> QED
    BY <1>3, <2>1 DEF Upload, device, reading, mode, period, CollectorInv, TypeOK, DeviceInv,
                      HandInv, ReadingInv, NothingSkipped, Settled
<1>4. CASE Start \/ OperatorRestarts \/ Stop \/ InvalidRecord
  <2> DEFINE Left == /\ phase' \in {"starting", "down", "refused"} /\ hand' = Nothing
                     /\ UNCHANGED <<device, reading, spool, excused>>
  <2>1. Left
    <3>1. CASE Start \/ OperatorRestarts
      <4>1. phase \in {"down", "refused"} /\ hand' = hand
        BY <3>1 DEF Start, OperatorRestarts
      <4>2. hand = Nothing
        BY <1>0, <4>1 DEF CollectorInv, HandInv, TypeOK
      <4> QED
        BY <3>1, <4>1, <4>2 DEF Start, OperatorRestarts
    <3>2. CASE Stop
      BY <3>2 DEF Stop
    <3>3. CASE InvalidRecord
      BY <3>3 DEF InvalidRecord, CatchingUp
    <3> HIDE DEF Left
    <3> QED
      BY <1>4, <3>1, <3>2, <3>3
  <2>2. /\ hardware' \in BOOLEAN /\ periodEnd' \in Nat /\ delayEnd' \in Nat
        /\ hardwareState' \in {"none", "starting", "active", "software_fallback", "retrying"}
    <3>1. CASE Start
      BY <3>1 DEF Start
    <3>2. CASE OperatorRestarts \/ Stop \/ InvalidRecord
      <4>1. UNCHANGED <<mode, period>>
        BY <3>2 DEF OperatorRestarts, Stop, InvalidRecord
      <4> QED
        BY <1>0, <4>1 DEF mode, period, TypeOK
    <3> QED
      BY <1>4, <3>1, <3>2
  <2>3. faults' \in Nat
    <3>1. faults' \in {faults, faults + 1}
      BY <1>4 DEF Start, OperatorRestarts, Stop, InvalidRecord, Fault
    <3> QED
      BY <1>0, <3>1 DEF TypeOK
  <2>4. phase' \in Phases /\ hand' \in [kind : {"none", "loop", "archive"}, time : Nat]
    BY <2>1 DEF Phases, Nothing
  <2>5. TypeOK'
    BY <1>0, <2>1, <2>2, <2>3, <2>4 DEF TypeOK, device, reading, spool
  <2> QED
    BY <2>1, <2>5, LeaveInv DEF spool
<1>5. CASE LoopPacket
  <2>1. TypeOK'
    BY <1>0, <1>5 DEF LoopPacket, TypeOK, device, reading, mode, period, spool
  <2> QED
    BY <1>5, <2>1, LeaveInv DEF LoopPacket, spool
<1>6. CASE OddPacket
  <2>1. now + MaxSkew \in Nat /\ faults' \in Nat
    BY <1>0, <1>6, CollectorAssumption DEF OddPacket, Fault, TypeOK
  <2>2. TypeOK'
    BY <1>0, <1>6, <2>1 DEF OddPacket, TypeOK, device, reading, mode, period, spool
  <2> QED
    BY <1>6, <2>2, LeaveInv DEF OddPacket, spool
<1> QED
  BY <1>1, <1>2, <1>3, <1>4, <1>5, <1>6, SkipHistoryInv, CatchUpAtStartupInv, YieldRecordInv,
     EndOfReadingInv, JournalPacketInv, JournalRecordInv
  DEF Next, Work

\* The strengthened invariant of worker, device and spool, from which the others follow.
THEOREM CollectorInvariant == Spec => []CollectorInv
BY InitCollectorInv, NextCollectorInv, PTL DEF Spec

\* Every reachable state of worker, device and spool is well typed; in
\* particular the spool never holds more rows than its quota.
THEOREM StateIsTyped == Spec => []TypeOK
<1>1. CollectorInv => TypeOK
  BY DEF CollectorInv
<1> QED
  BY <1>1, CollectorInvariant, PTL

\* No restart, hardware error or repeating driver puts a record into the spool
\* a second time.
THEOREM RecordsAreJournaledOnce == Spec => []RecordsOnce
<1>1. CollectorInv => RecordsOnce
  <2> SUFFICES ASSUME CollectorInv, hand.kind = "archive", NEW t \in committed
               PROVE  t < hand.time
    BY DEF RecordsOnce
  <2>1. t \in Nat /\ cursor \in Nat /\ position \in Int
    BY DEF CollectorInv, TypeOK
  <2> QED
    BY <2>1 DEF CollectorInv, HandInv
<1> QED
  BY <1>1, CollectorInvariant, PTL

\* Nothing the cursor has passed is missing.
THEOREM NoRecordIsSkipped == Spec => []NothingSkipped
<1>1. CollectorInv => NothingSkipped
  BY DEF CollectorInv
<1> QED
  BY <1>1, CollectorInvariant, PTL
-----------------------------------------------------------------------------
(* How long a packet from the future can postpone the next catch-up.       *)

\* The end of a period lies less than one interval after any time in it.
LEMMA PeriodIsNear ==
  ASSUME NEW t \in Nat
  PROVE  (t \div Interval + 1) * Interval <= t + Interval
<1>1. Interval \in Nat /\ Interval > 0
  BY CollectorAssumption
<1> DEFINE q == t \div Interval
<1>2. q \in Nat /\ q * Interval <= t
  BY <1>1
<1> HIDE DEF q
<1>3. (q + 1) * Interval = q * Interval + Interval
  BY <1>1, <1>2
<1>4. q * Interval \in Nat
  BY <1>1, <1>2
<1>5. (q + 1) * Interval <= t + Interval
  BY <1>1, <1>2, <1>3, <1>4
<1> QED
  BY <1>5 DEF q

\* Whatever the dateTime of packets, the ends stay near the clock.
PeriodInv ==
    /\ periodEnd <= now + MaxSkew + Interval
    /\ delayEnd <= now + MaxSkew + Interval + Delay
    /\ hand.kind = "loop" => hand.time <= now + MaxSkew

LEMMA InitPeriodInv == Init => PeriodInv
BY CollectorAssumption DEF Init, PeriodInv, Nothing

\* pre_loop, and the rest of post_loop.
LEMMA EnterLoopPeriod ==
  ASSUME now \in Nat, EnterLoop
  PROVE  periodEnd' <= now + MaxSkew + Interval /\ delayEnd' <= now + MaxSkew + Interval + Delay
<1>1. (now \div Interval + 1) * Interval <= now + Interval
  BY PeriodIsNear
<1>2. (now \div Interval + 1) * Interval \in Nat
  BY PeriodType
<1> QED
  BY <1>1, <1>2, CollectorAssumption DEF EnterLoop

LEMMA EndCatchUpPeriod ==
  ASSUME TypeOK, PeriodInv, EndCatchUp
  PROVE  periodEnd' <= now + MaxSkew + Interval /\ delayEnd' <= now + MaxSkew + Interval + Delay
<1>1. CASE startup
  BY <1>1, EnterLoopPeriod DEF EndCatchUp, TypeOK
<1>2. CASE ~startup
  BY <1>2, CollectorAssumption DEF EndCatchUp, TypeOK, PeriodInv
<1> QED
  BY <1>1, <1>2

LEMMA CheckLoopPeriod ==
  ASSUME TypeOK, PeriodInv, hand.kind = "loop", CheckLoop(hand.time)
  PROVE  periodEnd' <= now + MaxSkew + Interval /\ delayEnd' <= now + MaxSkew + Interval + Delay
<1>1. /\ hand.time \in Nat /\ hand.time <= now + MaxSkew /\ now \in Nat
      /\ MaxSkew \in Nat /\ Interval \in Nat /\ Delay \in Nat
      /\ periodEnd \in Nat /\ delayEnd \in Nat
  BY CollectorAssumption DEF TypeOK, PeriodInv
<1> DEFINE next == (hand.time \div Interval + 1) * Interval
<1>2. next \in Nat /\ next <= hand.time + Interval
  BY <1>1, PeriodIsNear, PeriodType
<1>3. periodEnd' \in {next, periodEnd} /\ delayEnd' \in {delayEnd, periodEnd' + Delay}
  BY DEF CheckLoop, BeginCatchUp
<1> HIDE DEF next
<1>4. periodEnd' \in Nat /\ periodEnd' <= now + MaxSkew + Interval
  <2>1. periodEnd <= now + MaxSkew + Interval
    BY DEF PeriodInv
  <2>2. next <= now + MaxSkew + Interval
    BY <1>1, <1>2
  <2> QED
    BY <1>1, <1>2, <1>3, <2>1, <2>2
<1>5. delayEnd <= now + MaxSkew + Interval + Delay
  BY DEF PeriodInv
<1>6. periodEnd' + Delay <= now + MaxSkew + Interval + Delay
  <2>1. \A a, b \in Nat : a <= b => a + Delay <= b + Delay
    BY <1>1
  <2>2. now + MaxSkew + Interval \in Nat
    BY <1>1
  <2> QED
    BY <1>4, <2>1, <2>2
<1>7. delayEnd' <= now + MaxSkew + Interval + Delay
  BY <1>3, <1>5, <1>6, Zenon
<1> QED
  BY <1>4, <1>7

LEMMA NextPeriodInv == CollectorInv /\ PeriodInv /\ [Next]_vars => PeriodInv'
<1> SUFFICES ASSUME CollectorInv, PeriodInv, [Next]_vars PROVE PeriodInv'
  OBVIOUS
<1> USE CollectorAssumption
<1>0. /\ TypeOK /\ now \in Nat /\ periodEnd \in Nat /\ delayEnd \in Nat
      /\ hand \in [kind : {"none", "loop", "archive"}, time : Nat]
  BY DEF CollectorInv, TypeOK
<1>1. CASE Tick
  BY <1>0, <1>1 DEF Tick, PeriodInv, period
<1>2. CASE UNCHANGED vars \/ Upload \/ Stop \/ OperatorRestarts \/ CatchUpAtStartup \/ YieldRecord
            \/ InvalidRecord \/ JournalRecord
  <2>1. UNCHANGED <<now, period>>
    BY <1>2 DEF vars, device, Upload, Stop, OperatorRestarts, CatchUpAtStartup,
                YieldRecord, InvalidRecord, JournalRecord
  <2>2. hand' = hand \/ hand' = Nothing \/ hand' = [kind |-> "archive", time |-> position']
    BY <1>2 DEF vars, Upload, Stop, OperatorRestarts, CatchUpAtStartup,
                YieldRecord, InvalidRecord, JournalRecord
  <2>3. hand' = hand \/ hand'.kind # "loop"
    BY <2>2 DEF Nothing
  <2> QED
    BY <2>1, <2>3 DEF period, PeriodInv
<1>3. CASE Start
  BY <1>0, <1>3 DEF Start, PeriodInv, device
<1>4. CASE SkipHistory
  BY <1>0, <1>4, EnterLoopPeriod DEF SkipHistory, PeriodInv, device
<1>5. CASE EndOfRecords \/ Unsupported \/ HardwareError
  <2>1. EndCatchUp /\ hand' = hand /\ now' = now
    BY <1>5 DEF EndOfRecords, Unsupported, HardwareError, device
  <2> QED
    BY <1>0, <2>1, EndCatchUpPeriod DEF PeriodInv
<1>6. CASE LoopPacket \/ OddPacket
  <2>1. UNCHANGED <<now, period>> /\ hand'.time \in {now, now + MaxSkew}
    BY <1>6 DEF LoopPacket, OddPacket, device
  <2> QED
    BY <1>0, <2>1 DEF period, PeriodInv
<1>7. CASE JournalPacket
  <2>1. hand.kind = "loop" /\ CheckLoop(hand.time) /\ hand' = Nothing /\ now' = now
    BY <1>7 DEF JournalPacket, device
  <2> QED
    BY <1>0, <2>1, CheckLoopPeriod DEF PeriodInv, Nothing
<1> QED
  BY <1>1, <1>2, <1>3, <1>4, <1>5, <1>6, <1>7 DEF Next, Work

\* While the worker reads packets, the logger is asked again within the error of
\* the oddest packet, one period and the delay (check_loop, post_loop).
THEOREM CatchUpIsNear == Spec => []PostponementIsBounded
<1>1. CollectorInv /\ PeriodInv => PostponementIsBounded
  BY DEF PeriodInv, PostponementIsBounded
<1>2. CollectorInv /\ PeriodInv /\ [Next]_vars => CollectorInv' /\ PeriodInv'
  BY NextCollectorInv, NextPeriodInv
<1> QED
  BY <1>1, <1>2, InitCollectorInv, InitPeriodInv, PTL DEF Spec
=============================================================================
