--------------------------- MODULE DeliveryProofs ---------------------------
(***************************************************************************)
(* Proofs about Delivery for every number of stations, readings and        *)
(* uploaders, every size, quota and limit, and every number of faults.     *)
(***************************************************************************)
EXTENDS Delivery, BatchingProofs

LEMMA LoadedType ==
  ASSUME learned \in [Stations -> Limits]
  PROVE  Loaded \in Limits
<1> SUFFICES ASSUME NEW a \in Attributes
             PROVE  Min({Configured[a]} \cup {learned[s][a] : s \in Stations}) \in Nat \ {0}
  BY DEF Loaded, Limits
<1> DEFINE S == {Configured[a]} \cup {learned[s][a] : s \in Stations}
<1>1. S \in SUBSET (Nat \ {0}) /\ S # {}
  BY UploaderAssumption DEF Limits
<1>2. Min(S) \in S
  <2>1. S \in SUBSET Nat /\ S # {}
    BY <1>1
  <2> HIDE DEF S
  <2> QED
    BY <2>1, MinIsMember
<1> QED
  BY <1>1, <1>2

LEMMA TightenedType ==
  ASSUME NEW old \in Limits, NEW advert \in Adverts
  PROVE  Tightened(old, advert) \in Limits
BY UploaderAssumption DEF Tightened, Limits, Lesser
-----------------------------------------------------------------------------
(* Type correctness.                                                       *)

LEMMA InitType == Init => TypeOK
BY StationsAssumption, EventsAssumption, UploaderAssumption
DEF Init, TypeOK, SpoolInit, SpoolTypeOK, ReceiverInit, ReceiverTypeOK, Row, NoRow,
    Phases, NoAnswer, Verdicts

\* The transactions of a spool file keep its types.
LEMMA AppendType ==
  ASSUME SpoolTypeOK, NEW e \in Events, AppendEvent(e)
  PROVE  SpoolTypeOK'
<1> DEFINE s == StationOf[e]
<1>1. s \in Stations /\ SizeOf[e] \in Nat /\ RecordTime[e] \in Nat
  BY EventsAssumption
<1>2. row' \in [Events -> Row]
  BY <1>1 DEF SpoolTypeOK, AppendEvent, Row
<1>3. usage' \in [Stations -> [events : Int, bytes : Int]]
  <2>1. usage[s].events + 1 \in Int /\ usage[s].bytes + SizeOf[e] \in Int
    BY <1>1 DEF SpoolTypeOK
  <2> QED
    BY <1>1, <2>1 DEF SpoolTypeOK, AppendEvent, CountInsert
<1>4. nextSeq' \in [Stations -> Nat]
  BY <1>1 DEF SpoolTypeOK, AppendEvent
<1>5. cursor' \in [Stations -> Nat]
  BY <1>1 DEF SpoolTypeOK, AppendEvent, AdvanceCursor
<1> QED
  BY <1>2, <1>3, <1>4, <1>5 DEF SpoolTypeOK, AppendEvent

LEMMA AcknowledgeType ==
  ASSUME SpoolTypeOK, NEW e \in Events, Acknowledge(e)
  PROVE  SpoolTypeOK'
<1> DEFINE s == StationOf[e]
<1>1. s \in Stations /\ SizeOf[e] \in Nat
  BY EventsAssumption
<1>2. row' \in [Events -> Row]
  BY DEF SpoolTypeOK, Acknowledge, Row, NoRow
<1>3. usage' \in [Stations -> [events : Int, bytes : Int]]
  <2>1. usage[s].events - 1 \in Int /\ usage[s].bytes - SizeOf[e] \in Int
    BY <1>1 DEF SpoolTypeOK
  <2> QED
    BY <1>1, <2>1 DEF SpoolTypeOK, Acknowledge, CountDelete
<1> QED
  BY <1>2, <1>3 DEF SpoolTypeOK, Acknowledge

LEMMA DeferredType ==
  ASSUME row \in [Events -> Row], NEW e \in Events, NEW due \in BOOLEAN,
         NEW quarantine \in BOOLEAN
  PROVE  Deferred(e, due, quarantine) \in Row
BY DEF Deferred, Row

LEMMA DeferType ==
  ASSUME SpoolTypeOK, NEW e \in Events, NEW due \in BOOLEAN, NEW quarantine \in BOOLEAN,
         Defer(e, due, quarantine)
  PROVE  SpoolTypeOK'
BY DeferredType DEF SpoolTypeOK, Defer

LEMMA RetryType ==
  ASSUME SpoolTypeOK, NEW s \in Stations, RetryQuarantined(s)
  PROVE  SpoolTypeOK'
BY DEF SpoolTypeOK, RetryQuarantined, Row

LEMMA VerdictType ==
  ASSUME ReceiverTypeOK, NEW e \in Events
  PROVE  Verdict(e) \in Verdicts
<1>1. admission[StationOf[e]] \in {"pending", "adopted", "blocked"}
  BY EventsAssumption DEF ReceiverTypeOK
<1> QED
  BY <1>1 DEF Verdict, Verdicts

LEMMA GiveUpType ==
  ASSUME TypeOK, NEW u \in Uploaders, GiveUp(u)
  PROVE  /\ phase' \in [Uploaders -> Phases]
         /\ batch' \in [Uploaders -> SUBSET Events]
         /\ answer' \in [Uploaders -> [Events -> Verdicts]]
         /\ unsaved' \in [Uploaders -> SUBSET (Stations \X Attributes)]
BY DEF TypeOK, GiveUp, Phases, NoAnswer, Verdicts

LEMMA NextType == TypeOK /\ [Next]_vars => TypeOK'
<1> SUFFICES ASSUME TypeOK, [Next]_vars PROVE TypeOK'
  OBVIOUS
<1> USE DEF serverVars, tickVars
<1>1. CASE UNCHANGED vars
  BY <1>1 DEF vars, spoolVars, TypeOK, SpoolTypeOK, ReceiverTypeOK
<1>2. ASSUME NEW e \in Events, Collect(e) PROVE TypeOK'
  BY <1>2, AppendType DEF Collect, TypeOK, ReceiverTypeOK
<1>3. ASSUME NEW e \in Events, RowElapses(e) PROVE TypeOK'
  <2>1. row' \in [Events -> Row]
    <3>1. [row[e] EXCEPT !.due = TRUE] \in Row
      <4>1. row[e] \in Row
        BY DEF TypeOK, SpoolTypeOK
      <4> QED
        BY <4>1 DEF Row
    <3> QED
      BY <1>3, <3>1 DEF RowElapses, ElapseRow, TypeOK, SpoolTypeOK
  <2> QED
    BY <1>3, <2>1 DEF RowElapses, ElapseRow, TypeOK, SpoolTypeOK, ReceiverTypeOK
<1>4. ASSUME NEW s \in Stations, Retry(s) PROVE TypeOK'
  BY <1>4, RetryType DEF Retry, TypeOK, ReceiverTypeOK
<1>5. ASSUME NEW s \in Stations, AdminAdopts(s) PROVE TypeOK'
  BY <1>5 DEF AdminAdopts, Adopt, spoolVars, TypeOK, SpoolTypeOK, ReceiverTypeOK
<1>6. ASSUME NEW s \in Blockable, AdminBlocks(s) PROVE TypeOK'
  BY <1>6, UploaderAssumption
  DEF AdminBlocks, Block, Fault, spoolVars, TypeOK, SpoolTypeOK, ReceiverTypeOK
<1>7. ASSUME NEW s \in Stations, StationElapses(s) PROVE TypeOK'
  BY <1>7 DEF StationElapses, ElapseStation, TypeOK, SpoolTypeOK, ReceiverTypeOK
<1>8. ASSUME NEW packets \in late, LateCommit(packets) PROVE TypeOK'
  BY <1>8 DEF LateCommit, Commit, spoolVars, TypeOK, SpoolTypeOK, ReceiverTypeOK
<1>9. ASSUME NEW u \in Uploaders, TakeBatch(u) PROVE TypeOK'
  <2>1. row' \in [Events -> Row]
    BY <1>9, DeferredType DEF TakeBatch, TypeOK, SpoolTypeOK
  <2>2. SpoolTypeOK'
    BY <1>9, <2>1 DEF TakeBatch, TypeOK, SpoolTypeOK
  <2>3. batch' \in [Uploaders -> SUBSET Events]
    BY <1>9 DEF TakeBatch, Held, TypeOK
  <2>4. front' \in [Uploaders -> Nat]
    <3>1. Cardinality(Stations) \in Nat \ {0}
      BY StationsAssumption, FS_CardinalityType, FS_EmptySet
    <3>2. (front[u] + 1) % Cardinality(Stations) \in Nat
      BY <3>1 DEF TypeOK
    <3> QED
      BY <1>9, <3>2 DEF TakeBatch, TypeOK
  <2> QED
    BY <1>9, <2>2, <2>3, <2>4 DEF TakeBatch, TypeOK, ReceiverTypeOK, Phases
<1>10. ASSUME NEW u \in Uploaders, PayloadTooLarge(u) PROVE TypeOK'
  <2>1. SpoolTypeOK'
    BY <1>10, DeferType DEF PayloadTooLarge, TypeOK, SpoolTypeOK, spoolVars
  <2>2. limits' \in [Uploaders -> Limits]
    <3>1. Cardinality(batch[u]) \in Nat
      BY EventsAssumption, FS_Subset, FS_CardinalityType DEF TypeOK
    <3>2. CASE Cardinality(batch[u]) > 1
      <4>1. Cardinality(batch[u]) \div 2 \in Nat \ {0}
        BY <3>1, <3>2
      <4>2. [limits[u] EXCEPT !.packets = Cardinality(batch[u]) \div 2] \in Limits
        BY <4>1 DEF TypeOK, Limits, Attributes
      <4>3. limits' = [limits EXCEPT ![u] = [@ EXCEPT !.packets = Cardinality(batch[u]) \div 2]]
        <5>1. Cardinality(batch[u]) # 1
          BY <3>1, <3>2
        <5> QED
          BY <1>10, <5>1, Zenon DEF PayloadTooLarge
      <4> QED
        BY <4>2, <4>3 DEF TypeOK
    <3>3. CASE ~(Cardinality(batch[u]) > 1)
      BY <1>10, <3>3 DEF PayloadTooLarge, TypeOK
    <3> QED
      BY <3>2, <3>3
  <2> QED
    BY <1>10, <2>1, <2>2, GiveUpType DEF PayloadTooLarge, TypeOK, ReceiverTypeOK
<1>11. ASSUME NEW u \in Uploaders, ServerCommits(u) PROVE TypeOK'
  <2>1. answer' \in [Uploaders -> [Events -> Verdicts]]
    <3>1. \A e \in Events : (IF e \in batch[u] THEN Verdict(e) ELSE "missing") \in Verdicts
      BY VerdictType DEF TypeOK, Verdicts
    <3> QED
      BY <1>11, <3>1 DEF ServerCommits, TypeOK
  <2> QED
    BY <1>11, <2>1 DEF ServerCommits, Commit, spoolVars, TypeOK, SpoolTypeOK, ReceiverTypeOK,
                       Phases
<1>12. ASSUME NEW u \in Uploaders, ReadAnswer(u) PROVE TypeOK'
  <2>1. limits' \in [Uploaders -> Limits]
    BY <1>12, TightenedType DEF ReadAnswer, TypeOK
  <2> QED
    BY <1>12, <2>1 DEF ReadAnswer, spoolVars, TypeOK, SpoolTypeOK, ReceiverTypeOK, Phases
<1>13. ASSUME NEW u \in Uploaders, NEW e \in Events, Settle(u, e) PROVE TypeOK'
  <2>1. SpoolTypeOK'
    <3> DEFINE quarantine == answer[u][e] \in {"refused", "blocked"}
    <3>1. Acknowledge(e) \/ Defer(e, FALSE, TRUE) \/ Defer(e, FALSE, FALSE)
      <4>1. quarantine \in BOOLEAN
        OBVIOUS
      <4> QED
        BY <1>13, <4>1 DEF Settle
    <3> QED
      BY <3>1, AcknowledgeType, DeferType DEF TypeOK
  <2>2. hold' \in [Uploaders -> Stations \cup {NoStation}]
    BY <1>13, EventsAssumption DEF Settle, TypeOK
  <2>3. answer' \in [Uploaders -> [Events -> Verdicts]]
    BY <1>13 DEF Settle, TypeOK, Verdicts
  <2> QED
    BY <1>13, <2>1, <2>2, <2>3 DEF Settle, TypeOK, ReceiverTypeOK
<1>14. ASSUME NEW u \in Uploaders, HoldStation(u) PROVE TypeOK'
  BY <1>14 DEF HoldStation, HoldBack, TypeOK, SpoolTypeOK, ReceiverTypeOK
<1>15. ASSUME NEW u \in Uploaders, AllSettled(u) PROVE TypeOK'
  BY <1>15 DEF AllSettled, spoolVars, TypeOK, SpoolTypeOK, ReceiverTypeOK, Phases
<1>16. ASSUME NEW u \in Uploaders, NEW written, Save(u, written) PROVE TypeOK'
  <2>1. learned' \in [Stations -> Limits]
    BY <1>16 DEF Save, TypeOK, Limits
  <2> QED
    BY <1>16, <2>1 DEF Save, spoolVars, TypeOK, SpoolTypeOK, ReceiverTypeOK, Phases
<1>17. ASSUME NEW u \in Uploaders, Disturb(u) PROVE TypeOK'
  <2>1. CASE RequestFails(u)
    <3>1. late' \in SUBSET (SUBSET Events) /\ faults' \in Nat
      BY <2>1 DEF RequestFails, Fault, TypeOK
    <3> QED
      BY <2>1, <3>1, GiveUpType DEF RequestFails, spoolVars, TypeOK, SpoolTypeOK, ReceiverTypeOK
  <2>2. CASE HttpError(u)
    BY <2>2, GiveUpType DEF HttpError, Fault, spoolVars, TypeOK, SpoolTypeOK, ReceiverTypeOK
  <2>3. CASE AnswerUnusable(u)
    BY <2>3, GiveUpType
    DEF AnswerUnusable, Fault, spoolVars, TypeOK, SpoolTypeOK, ReceiverTypeOK
  <2>4. CASE AnswerOmits(u)
    BY <2>4 DEF AnswerOmits, Fault, spoolVars, TypeOK, SpoolTypeOK, ReceiverTypeOK, Verdicts
  <2>5. CASE Crash(u)
    <3>1. Loaded \in Limits
      BY LoadedType DEF TypeOK
    <3> QED
      BY <2>5, <3>1 DEF Crash, Fault, spoolVars, TypeOK, SpoolTypeOK, ReceiverTypeOK, Phases,
                        NoAnswer, Verdicts
  <2> QED
    BY <1>17, <2>1, <2>2, <2>3, <2>4, <2>5 DEF Disturb
<1>18. ASSUME NEW u \in Uploaders, Proceed(u) PROVE TypeOK'
  BY <1>10, <1>11, <1>12, <1>13, <1>14, <1>15, <1>16, <1>18
  DEF Proceed, SaveLimit, SaveDelay
<1> QED
  BY <1>1, <1>2, <1>3, <1>4, <1>5, <1>6, <1>7, <1>8, <1>9, <1>17, <1>18 DEF Next

\* Every variable keeps its type, and the limits of a process are never zero:
\* a request of at least one event stays possible whatever the receiver says.
THEOREM TypeCorrect == Spec => []TypeOK
BY InitType, NextType, PTL DEF Spec
-----------------------------------------------------------------------------
(* The hand-off.                                                           *)

\* What the transactions do to the set of rows.
LEMMA HeldAfterAppend ==
  ASSUME SpoolTypeOK, NEW e \in Events, AppendEvent(e)
  PROVE  Held' = Held \cup {e}
BY DEF SpoolTypeOK, AppendEvent, Held

LEMMA HeldAfterAcknowledge ==
  ASSUME SpoolTypeOK, NEW e \in Events, Acknowledge(e)
  PROVE  Held' = Held \ {e}
BY DEF SpoolTypeOK, Acknowledge, Held, NoRow

LEMMA DeferredIsHeld ==
  ASSUME SpoolTypeOK, NEW e \in Events, NEW due \in BOOLEAN, NEW quarantine \in BOOLEAN
  PROVE  (Deferred(e, due, quarantine).state # "none") <=> e \in Held
<1>1. row[e] \in Row
  BY DEF SpoolTypeOK
<1> QED
  BY <1>1 DEF Deferred, Held, Row

LEMMA HeldAfterDefer ==
  ASSUME SpoolTypeOK, NEW e \in Events, NEW due \in BOOLEAN, NEW quarantine \in BOOLEAN,
         Defer(e, due, quarantine)
  PROVE  Held' = Held
<1>1. \A f \in Events : row'[f].state # "none" <=> row[f].state # "none"
  BY DeferredIsHeld DEF SpoolTypeOK, Defer, Held
<1> QED
  BY <1>1 DEF Held

LEMMA HeldAfterRetry ==
  ASSUME SpoolTypeOK, NEW s \in Stations, RetryQuarantined(s)
  PROVE  Held' = Held
<1>1. ASSUME NEW f \in Events PROVE row'[f].state # "none" <=> row[f].state # "none"
  <2>1. row[f] \in Row
    BY DEF SpoolTypeOK
  <2> QED
    BY <2>1 DEF RetryQuarantined, Row
<1> QED
  BY <1>1 DEF Held

LEMMA HeldAfterElapse ==
  ASSUME SpoolTypeOK, NEW e \in Events, ElapseRow(e)
  PROVE  Held' = Held
<1>1. ASSUME NEW f \in Events PROVE row'[f].state # "none" <=> row[f].state # "none"
  <2>1. row[f] \in Row
    BY DEF SpoolTypeOK
  <2> QED
    BY <2>1 DEF SpoolTypeOK, ElapseRow, Row
<1> QED
  BY <1>1 DEF Held

LEMMA HeldAfterTakeBatch ==
  ASSUME SpoolTypeOK, NEW u \in Uploaders, TakeBatch(u)
  PROVE  Held' = Held
<1>1. ASSUME NEW f \in Events PROVE row'[f].state # "none" <=> row[f].state # "none"
  <2>1. row'[f] = row[f] \/ row'[f] = Deferred(f, TRUE, TRUE)
    BY DEF TakeBatch
  <2> QED
    BY <2>1, DeferredIsHeld DEF Held
<1> QED
  BY <1>1 DEF Held

\* Only Collect adds rows and only a confirmed settlement removes one; every
\* other step leaves the rows, or at least the set of them, and the counters alone.
LEMMA StepsOnRows ==
  ASSUME TypeOK, [Next]_vars
  PROVE  \/ \E e \in Events :
              /\ Collect(e)
              /\ Held' = Held \cup {e} /\ committed' = committed \cup {e}
         \/ \E u \in Uploaders, e \in Events :
              /\ Settle(u, e) /\ answer[u][e] \in Confirmed
              /\ Held' = Held \ {e} /\ committed' = committed
         \/ Held' = Held /\ committed' = committed /\ usage' = usage
<1> DEFINE Same == Held' = Held /\ committed' = committed /\ usage' = usage
<1> SUFFICES ASSUME ~ \E e \in Events :
                        /\ Collect(e)
                        /\ Held' = Held \cup {e} /\ committed' = committed \cup {e},
                    ~ \E u \in Uploaders, e \in Events :
                        /\ Settle(u, e) /\ answer[u][e] \in Confirmed
                        /\ Held' = Held \ {e} /\ committed' = committed
             PROVE  Same
  OBVIOUS
<1>0. SpoolTypeOK
  BY DEF TypeOK
<1>1. ASSUME UNCHANGED spoolVars PROVE Same
  BY <1>1 DEF spoolVars, Held
<1>2. CASE UNCHANGED vars
  BY <1>1, <1>2 DEF vars
<1>3. ASSUME NEW e \in Events, Collect(e) PROVE Same
  <2>1. Held' = Held \cup {e} /\ committed' = committed \cup {e}
    BY <1>0, <1>3, HeldAfterAppend DEF Collect, AppendEvent
  <2> QED
    BY <1>3, <2>1
<1>4. ASSUME NEW e \in Events, RowElapses(e) PROVE Same
  <2>1. ElapseRow(e)
    BY <1>4 DEF RowElapses
  <2> QED
    BY <1>0, <2>1, HeldAfterElapse DEF ElapseRow
<1>5. ASSUME NEW u \in Uploaders, TakeBatch(u) PROVE Same
  BY <1>0, <1>5, HeldAfterTakeBatch DEF TakeBatch
<1>6. ASSUME NEW u \in Uploaders, NEW e \in Events, Settle(u, e) PROVE Same
  <2>1. CASE answer[u][e] \in Confirmed
    <3>1. Acknowledge(e)
      BY <1>6, <2>1 DEF Settle
    <3> QED
      BY <1>0, <1>6, <2>1, <3>1, HeldAfterAcknowledge DEF Acknowledge
  <2>2. CASE answer[u][e] \notin Confirmed
    <3> DEFINE quarantine == answer[u][e] \in {"refused", "blocked"}
    <3>1. Defer(e, FALSE, TRUE) \/ Defer(e, FALSE, FALSE)
      <4>1. quarantine \in BOOLEAN
        OBVIOUS
      <4> QED
        BY <1>6, <2>2, <4>1 DEF Settle
    <3> QED
      BY <1>0, <3>1, HeldAfterDefer DEF Defer
  <2> QED
    BY <2>1, <2>2
<1>7. ASSUME NEW u \in Uploaders, PayloadTooLarge(u) PROVE Same
  <2>1. UNCHANGED spoolVars \/ \E e \in Events : Defer(e, TRUE, TRUE)
    BY <1>7 DEF PayloadTooLarge, TypeOK
  <2> QED
    BY <1>0, <1>1, <2>1, HeldAfterDefer DEF Defer
<1>8. ASSUME NEW u \in Uploaders, HoldStation(u) PROVE Same
  BY <1>8 DEF HoldStation, HoldBack, Held
<1>9. ASSUME NEW u \in Uploaders, Proceed(u) PROVE Same
  BY <1>1, <1>6, <1>7, <1>8, <1>9
  DEF Proceed, ServerCommits, ReadAnswer, AllSettled, SaveLimit, SaveDelay, Save
<1>10. ASSUME NEW u \in Uploaders, Disturb(u) PROVE Same
  BY <1>1, <1>10 DEF Disturb, RequestFails, HttpError, AnswerUnusable, AnswerOmits, Crash
<1>11. ASSUME NEW packets \in late, LateCommit(packets) PROVE Same
  BY <1>1, <1>11 DEF LateCommit
<1>12. ASSUME NEW s \in Stations, Retry(s) PROVE Same
  <2>1. RetryQuarantined(s)
    BY <1>12 DEF Retry
  <2> QED
    BY <1>0, <2>1, HeldAfterRetry DEF RetryQuarantined
<1>13. ASSUME NEW s \in Stations, AdminAdopts(s) \/ AdminBlocks(s) PROVE Same
  BY <1>1, <1>13 DEF AdminAdopts, AdminBlocks
<1>14. ASSUME NEW s \in Stations, StationElapses(s) PROVE Same
  BY <1>14 DEF StationElapses, ElapseStation, Held
<1> QED
  BY <1>2, <1>3, <1>4, <1>5, <1>9, <1>10, <1>11, <1>12, <1>13, <1>14, UploaderAssumption DEF Next
\* What a step can do to receipts, requests and confirmations: receipts only
\* grow, out of requests that are awaited or given up; a request grows out of
\* the rows; a new confirmation comes with its receipt.
StepsGrow ==
    /\ receipts \subseteq receipts'
    /\ \A e \in receipts' :
         \/ e \in receipts
         \/ \E u \in Uploaders : e \in batch[u]
         \/ \E packets \in late : e \in packets
    /\ \A u \in Uploaders : batch'[u] \subseteq batch[u] \cup Held
    /\ \A packets \in late' : packets \in late \/ \E u \in Uploaders : packets = batch[u]
    /\ \A u \in Uploaders, e \in Events :
         answer'[u][e] \in Confirmed => answer[u][e] \in Confirmed \/ e \in receipts'

LEMMA StoredHasReceipt ==
  ASSUME ReceiverTypeOK, NEW packets \in SUBSET Events, Commit(packets), NEW e \in packets,
         Verdict(e) \in Confirmed
  PROVE  e \in receipts'
<1>1. CASE e \in receipts
  BY <1>1 DEF Commit
<1>2. CASE e \notin receipts
  <2>1. Verdict(e) = "stored"
    <3>1. admission[StationOf[e]] \in {"pending", "adopted", "blocked"}
      BY EventsAssumption DEF ReceiverTypeOK
    <3> QED
      BY <1>2, <3>1 DEF Verdict, Confirmed
  <2> QED
    BY <2>1 DEF Commit
<1> QED
  BY <1>1, <1>2

LEMMA GiveUpGrows ==
  ASSUME TypeOK, NEW u \in Uploaders, GiveUp(u)
  PROVE  /\ \A v \in Uploaders : batch'[v] \subseteq batch[v] \cup Held
         /\ \A v \in Uploaders, e \in Events :
              answer'[v][e] \in Confirmed => answer[v][e] \in Confirmed
BY DEF GiveUp, TypeOK, NoAnswer, Confirmed

LEMMA NextGrows ==
  ASSUME TypeOK, [Next]_vars
  PROVE  StepsGrow
<1> USE DEF serverVars, tickVars, StepsGrow
<1>1. ASSUME UNCHANGED <<receipts, batch, answer, late>> PROVE StepsGrow
  BY <1>1
<1>2. CASE UNCHANGED vars
  BY <1>1, <1>2 DEF vars
<1>3. ASSUME NEW e \in Events, Collect(e) \/ RowElapses(e) PROVE StepsGrow
  BY <1>1, <1>3 DEF Collect, RowElapses
<1>4. ASSUME NEW s \in Stations, Retry(s) \/ AdminAdopts(s) \/ StationElapses(s) \/ AdminBlocks(s)
      PROVE StepsGrow
  BY <1>1, <1>4 DEF Retry, AdminAdopts, StationElapses, AdminBlocks, Adopt, Block
<1>5. ASSUME NEW u \in Uploaders, TakeBatch(u) PROVE StepsGrow
  BY <1>5 DEF TakeBatch, TypeOK
<1>6. ASSUME NEW packets \in late, LateCommit(packets) PROVE StepsGrow
  BY <1>6 DEF LateCommit, Commit
<1>7. ASSUME NEW u \in Uploaders, ServerCommits(u) PROVE StepsGrow
  <2>1. \A v \in Uploaders, e \in Events :
          answer'[v][e] \in Confirmed => answer[v][e] \in Confirmed \/ e \in receipts'
    <3> SUFFICES ASSUME NEW v \in Uploaders, NEW e \in Events, answer'[v][e] \in Confirmed
                 PROVE  answer[v][e] \in Confirmed \/ e \in receipts'
      OBVIOUS
    <3>1. CASE v # u
      BY <1>7, <3>1 DEF ServerCommits, TypeOK
    <3>2. CASE v = u
      <4>1. answer'[u][e] = IF e \in batch[u] THEN Verdict(e) ELSE "missing"
        BY <1>7 DEF ServerCommits, TypeOK
      <4>2. e \in batch[u] /\ Verdict(e) \in Confirmed
        BY <3>2, <4>1 DEF Confirmed
      <4>3. ReceiverTypeOK /\ batch[u] \in SUBSET Events /\ Commit(batch[u])
        BY <1>7 DEF ServerCommits, TypeOK
      <4> QED
        BY <4>2, <4>3, StoredHasReceipt
    <3> QED
      BY <3>1, <3>2
  <2> QED
    BY <1>7, <2>1 DEF ServerCommits, Commit
<1>8. ASSUME NEW u \in Uploaders, PayloadTooLarge(u) PROVE StepsGrow
  BY <1>8, GiveUpGrows DEF PayloadTooLarge
<1>9. ASSUME NEW u \in Uploaders, NEW e \in Events, Settle(u, e) PROVE StepsGrow
  BY <1>9 DEF Settle, TypeOK, Confirmed
<1>10. ASSUME NEW u \in Uploaders, Proceed(u) PROVE StepsGrow
  BY <1>1, <1>7, <1>8, <1>9, <1>10
  DEF Proceed, ReadAnswer, HoldStation, AllSettled, SaveLimit, SaveDelay, Save
<1>11. ASSUME NEW u \in Uploaders, RequestFails(u) \/ HttpError(u) \/ AnswerUnusable(u)
       PROVE StepsGrow
  BY <1>11, GiveUpGrows DEF RequestFails, HttpError, AnswerUnusable
<1>12. ASSUME NEW u \in Uploaders, AnswerOmits(u) PROVE StepsGrow
  BY <1>12 DEF AnswerOmits, TypeOK, Confirmed
<1>13. ASSUME NEW u \in Uploaders, Crash(u) PROVE StepsGrow
  BY <1>13 DEF Crash, TypeOK, NoAnswer, Confirmed
<1> QED
  BY <1>2, <1>3, <1>4, <1>5, <1>6, <1>10, <1>11, <1>12, <1>13, UploaderAssumption
  DEF Next, Disturb

LEMMA InitInv == Init => DeliveryInv
<1> SUFFICES ASSUME Init PROVE DeliveryInv
  OBVIOUS
<1>1. Held = {}
  BY DEF Init, SpoolInit, Held, NoRow
<1>2. OnlyCommittedTravels
  BY <1>1 DEF OnlyCommittedTravels, Init, ReceiverInit
<1>3. NothingLost
  BY DEF NothingLost, Init, SpoolInit
<1>4. ConfirmationsAreReceipts
  BY DEF ConfirmationsAreReceipts, Init, NoAnswer, Confirmed
<1> QED
  BY <1>2, <1>3, <1>4, InitType DEF DeliveryInv

\* Each part of the invariant needs the others: a row may go because the
\* confirmation is a receipt, and a receipt is never for a reading that some
\* crash took back because only committed readings travel.
LEMMA NextInv == DeliveryInv /\ [Next]_vars => DeliveryInv'
<1> SUFFICES ASSUME DeliveryInv, [Next]_vars PROVE DeliveryInv'
  OBVIOUS
<1>1. TypeOK /\ NothingLost /\ OnlyCommittedTravels /\ ConfirmationsAreReceipts
  BY DEF DeliveryInv
<1>2. TypeOK'
  BY <1>1, NextType
<1>3. StepsGrow
  BY <1>1, NextGrows
<1>4. committed \subseteq committed' /\ Held' \subseteq committed'
  BY <1>1, StepsOnRows DEF OnlyCommittedTravels
<1>5. NothingLost'
  BY <1>1, <1>3, StepsOnRows DEF NothingLost, ConfirmationsAreReceipts, StepsGrow
<1>6. OnlyCommittedTravels'
  BY <1>1, <1>3, <1>4 DEF OnlyCommittedTravels, StepsGrow
<1>7. ConfirmationsAreReceipts'
  BY <1>1, <1>3 DEF ConfirmationsAreReceipts, StepsGrow
<1> QED
  BY <1>2, <1>5, <1>6, <1>7 DEF DeliveryInv

\* Nothing is lost, whatever crashes, lost messages, concurrent uploaders,
\* retries and late requests the behaviour contains.
THEOREM DeliveryInvariant == Spec => []DeliveryInv
BY InitInv, NextInv, PTL DEF Spec

\* A reading that was committed is held by its spool until the receiver has stored it.
THEOREM NothingIsLost == Spec => []NothingLost
<1>1. DeliveryInv => NothingLost
  BY DEF DeliveryInv
<1> QED
  BY <1>1, DeliveryInvariant, PTL
-----------------------------------------------------------------------------
(* The counters and the quotas of a spool.                                 *)

\* One more event is as many more bytes as it is long.
LEMMA OneMoreEvent ==
  ASSUME NEW E \in SUBSET Events, NEW e \in Events, e \notin E
  PROVE  /\ IsFiniteSet(BytesOf(E)) /\ IsFiniteSet(E)
         /\ Cardinality(BytesOf(E \cup {e})) = Cardinality(BytesOf(E)) + SizeOf[e]
         /\ Cardinality(E \cup {e}) = Cardinality(E) + 1
         /\ Cardinality(BytesOf(E)) \in Nat /\ Cardinality(E) \in Nat
<1>1. IsFiniteSet(E) /\ Cardinality(E) \in Nat /\ Cardinality(E \cup {e}) = Cardinality(E) + 1
  BY EventsAssumption, FS_Subset, FS_CardinalityType, FS_AddElement
<1>2. \A F : BytesOf(F) = BytesIn(F, SizeOf)
  BY DEF BytesOf, BytesIn
<1>3. \A f \in E \cup {e} : SizeOf[f] \in Nat
  BY EventsAssumption
<1>4. /\ IsFiniteSet(BytesIn(E, SizeOf)) /\ Cardinality(BytesIn(E, SizeOf)) \in Nat
      /\ Cardinality(BytesIn(E \cup {e}, SizeOf)) = Cardinality(BytesIn(E, SizeOf)) + SizeOf[e]
  BY <1>1, <1>3, BytesAddUp
<1> QED
  BY <1>1, <1>2, <1>4

LEMMA BytesAreCounted ==
  ASSUME NEW E \in SUBSET Events
  PROVE  Cardinality(BytesOf(E)) \in Nat
<1>1. CASE E = {}
  <2>1. BytesOf(E) = {}
    BY <1>1 DEF BytesOf
  <2> QED
    BY <2>1, FS_EmptySet
<1>2. CASE E # {}
  <2>1. PICK e \in E : TRUE
    BY <1>2
  <2> DEFINE F == E \ {e}
  <2>2. F \in SUBSET Events /\ e \in Events /\ e \notin F /\ F \cup {e} = E
    BY <2>1
  <2> HIDE DEF F
  <2>3. Cardinality(BytesOf(E)) = Cardinality(BytesOf(F)) + SizeOf[e] /\ Cardinality(BytesOf(F)) \in Nat
    BY <2>2, OneMoreEvent
  <2> QED
    BY <2>2, <2>3, EventsAssumption
<1> QED
  BY <1>1, <1>2

LEMMA CountedAfterAppend ==
  ASSUME SpoolTypeOK, UsageIsExact, WithinQuota, NEW e \in Events, AppendEvent(e)
  PROVE  UsageIsExact' /\ WithinQuota'
<1>1. Held' = Held \cup {e} /\ e \notin Held /\ StationOf[e] \in Stations
  BY HeldAfterAppend, EventsAssumption DEF AppendEvent
<1>2. SUFFICES ASSUME NEW s \in Stations
               PROVE  /\ usage'[s].events = Cardinality(HeldBy(s)')
                      /\ usage'[s].bytes = Cardinality(BytesOf(HeldBy(s)'))
                      /\ Cardinality(HeldBy(s)') <= MaxEvents[s]
                      /\ Cardinality(BytesOf(HeldBy(s)')) <= MaxBytes[s]
  BY DEF UsageIsExact, WithinQuota, HeldBy, BytesOf
<1>3. /\ usage[s].events = Cardinality(HeldBy(s)) /\ usage[s].bytes = Cardinality(BytesOf(HeldBy(s)))
      /\ Cardinality(HeldBy(s)) <= MaxEvents[s] /\ Cardinality(BytesOf(HeldBy(s))) <= MaxBytes[s]
  BY DEF UsageIsExact, WithinQuota
<1>4. CASE s # StationOf[e]
  <2>1. HeldBy(s)' = HeldBy(s)
    BY <1>1, <1>4 DEF HeldBy
  <2>2. usage'[s] = usage[s]
    BY <1>1, <1>4 DEF AppendEvent, CountInsert, SpoolTypeOK
  <2> QED
    BY <1>3, <2>1, <2>2
<1>5. CASE s = StationOf[e]
  <2>1. HeldBy(s)' = HeldBy(s) \cup {e} /\ e \notin HeldBy(s) /\ HeldBy(s) \in SUBSET Events
    BY <1>1, <1>5 DEF HeldBy, Held
  <2>2. /\ Cardinality(BytesOf(HeldBy(s)')) = Cardinality(BytesOf(HeldBy(s))) + SizeOf[e]
        /\ Cardinality(HeldBy(s)') = Cardinality(HeldBy(s)) + 1
        /\ Cardinality(BytesOf(HeldBy(s))) \in Nat /\ Cardinality(HeldBy(s)) \in Nat
    BY <2>1, OneMoreEvent
  <2>3. usage'[s].events = usage[s].events + 1 /\ usage'[s].bytes = usage[s].bytes + SizeOf[e]
    BY <1>5 DEF AppendEvent, CountInsert, SpoolTypeOK
  <2>4. usage[s].events < MaxEvents[s] /\ usage[s].bytes + SizeOf[e] <= MaxBytes[s]
    BY <1>5 DEF AppendEvent, CanFit
  <2>5. MaxEvents[s] \in Nat /\ MaxBytes[s] \in Nat /\ SizeOf[e] \in Nat
    BY QuotaAssumption, EventsAssumption
  <2> QED
    BY <1>3, <2>2, <2>3, <2>4, <2>5
<1> QED
  BY <1>4, <1>5

\* A second acknowledgement of the same event deletes, and counts, nothing.
LEMMA CountedAfterAcknowledge ==
  ASSUME SpoolTypeOK, UsageIsExact, WithinQuota, NEW e \in Events, Acknowledge(e)
  PROVE  UsageIsExact' /\ WithinQuota'
<1>1. Held' = Held \ {e} /\ StationOf[e] \in Stations
  BY HeldAfterAcknowledge, EventsAssumption
<1>2. SUFFICES ASSUME NEW s \in Stations
               PROVE  /\ usage'[s].events = Cardinality(HeldBy(s)')
                      /\ usage'[s].bytes = Cardinality(BytesOf(HeldBy(s)'))
                      /\ Cardinality(HeldBy(s)') <= MaxEvents[s]
                      /\ Cardinality(BytesOf(HeldBy(s)')) <= MaxBytes[s]
  BY DEF UsageIsExact, WithinQuota, HeldBy, BytesOf
<1>3. /\ usage[s].events = Cardinality(HeldBy(s)) /\ usage[s].bytes = Cardinality(BytesOf(HeldBy(s)))
      /\ Cardinality(HeldBy(s)) <= MaxEvents[s] /\ Cardinality(BytesOf(HeldBy(s))) <= MaxBytes[s]
  BY DEF UsageIsExact, WithinQuota
<1>4. CASE s # StationOf[e] \/ e \notin Held
  <2>1. HeldBy(s)' = HeldBy(s)
    BY <1>1, <1>4 DEF HeldBy
  <2>2. usage'[s] = usage[s]
    BY <1>1, <1>4 DEF Acknowledge, CountDelete, SpoolTypeOK
  <2> QED
    BY <1>3, <2>1, <2>2
<1>5. CASE s = StationOf[e] /\ e \in Held
  <2>1. /\ HeldBy(s)' \cup {e} = HeldBy(s) /\ e \notin HeldBy(s)' /\ HeldBy(s)' \in SUBSET Events
    BY <1>1, <1>5 DEF HeldBy, Held
  <2>2. /\ Cardinality(BytesOf(HeldBy(s))) = Cardinality(BytesOf(HeldBy(s)')) + SizeOf[e]
        /\ Cardinality(HeldBy(s)) = Cardinality(HeldBy(s)') + 1
        /\ Cardinality(BytesOf(HeldBy(s)')) \in Nat /\ Cardinality(HeldBy(s)') \in Nat
    <3> DEFINE left == HeldBy(s)'
    <3>1. left \in SUBSET Events /\ e \notin left /\ left \cup {e} = HeldBy(s)
      BY <2>1
    <3> HIDE DEF left
    <3>2. /\ Cardinality(BytesOf(HeldBy(s))) = Cardinality(BytesOf(left)) + SizeOf[e]
          /\ Cardinality(HeldBy(s)) = Cardinality(left) + 1
          /\ Cardinality(BytesOf(left)) \in Nat /\ Cardinality(left) \in Nat
      BY <3>1, OneMoreEvent
    <3> QED
      BY <3>2 DEF left
  <2>3. usage'[s].events = usage[s].events - 1 /\ usage'[s].bytes = usage[s].bytes - SizeOf[e]
    BY <1>5 DEF Acknowledge, CountDelete, SpoolTypeOK
  <2>4. MaxEvents[s] \in Nat /\ MaxBytes[s] \in Nat /\ SizeOf[e] \in Nat
    BY QuotaAssumption, EventsAssumption
  <2> QED
    BY <1>3, <2>2, <2>3, <2>4
<1> QED
  BY <1>4, <1>5

LEMMA NextCounts == TypeOK /\ UsageIsExact /\ WithinQuota /\ [Next]_vars => UsageIsExact' /\ WithinQuota'
<1> SUFFICES ASSUME TypeOK, UsageIsExact, WithinQuota, [Next]_vars
             PROVE  UsageIsExact' /\ WithinQuota'
  OBVIOUS
<1>1. ASSUME NEW e \in Events, Collect(e) PROVE UsageIsExact' /\ WithinQuota'
  BY <1>1, CountedAfterAppend DEF Collect, TypeOK
<1>2. ASSUME NEW u \in Uploaders, NEW e \in Events, Settle(u, e), answer[u][e] \in Confirmed
      PROVE  UsageIsExact' /\ WithinQuota'
  BY <1>2, CountedAfterAcknowledge DEF Settle, TypeOK
<1>3. CASE Held' = Held /\ usage' = usage
  BY <1>3 DEF UsageIsExact, WithinQuota, HeldBy
<1> QED
  BY <1>1, <1>2, <1>3, StepsOnRows

LEMMA InitCounts == Init => UsageIsExact /\ WithinQuota
<1> SUFFICES ASSUME Init, NEW s \in Stations
             PROVE  /\ usage[s].events = Cardinality(HeldBy(s))
                    /\ usage[s].bytes = Cardinality(BytesOf(HeldBy(s)))
                    /\ Cardinality(HeldBy(s)) <= MaxEvents[s]
                    /\ Cardinality(BytesOf(HeldBy(s))) <= MaxBytes[s]
  BY DEF UsageIsExact, WithinQuota
<1>1. HeldBy(s) = {}
  BY DEF Init, SpoolInit, HeldBy, Held, NoRow
<1>2. BytesOf({}) = {}
  BY DEF BytesOf
<1>3. usage[s].events = 0 /\ usage[s].bytes = 0
  BY DEF Init, SpoolInit
<1> QED
  BY <1>1, <1>2, <1>3, FS_EmptySet, QuotaAssumption

\* The triggers of spool.py count what the table holds, whoever deletes, defers, retries or
\* acknowledges twice: can_fit never works with a number that drifted.
THEOREM CountersAreExact == Spec => []UsageIsExact
<1>1. TypeOK /\ TypeOK' /\ UsageIsExact /\ WithinQuota /\ [Next]_vars => UsageIsExact' /\ WithinQuota'
  BY NextCounts
<1> QED
  BY <1>1, InitCounts, TypeCorrect, PTL DEF Spec

\* can_fit, in the transaction of append, holds every spool to its quotas, whatever
\* events, sizes and quotas there are.
THEOREM QuotasAreKept == Spec => []WithinQuota
<1>1. TypeOK /\ TypeOK' /\ UsageIsExact /\ WithinQuota /\ [Next]_vars => UsageIsExact' /\ WithinQuota'
  BY NextCounts
<1> QED
  BY <1>1, InitCounts, TypeCorrect, PTL DEF Spec
-----------------------------------------------------------------------------
(* Why a reading is set apart.                                             *)

\* The byte limits a request can have: what the configuration and the answers say.
KnownBytes == {limit.bytes : limit \in {Configured} \cup Adverts}

\* A verdict that sets a reading apart has its reason in the reading or its station.
VerdictsAreDeserved ==
    /\ \A s \in Stations : admission[s] = "blocked" => s \in Blockable
    /\ \A u \in Uploaders, e \in Events :
         /\ answer[u][e] = "refused" => e \in Refused
         /\ answer[u][e] = "blocked" => StationOf[e] \in Blockable

\* The byte limit of a process comes from the configuration or from an answer.
LimitsAreKnown ==
    /\ \A u \in Uploaders : limits[u].bytes \in KnownBytes
    /\ \A s \in Stations : learned[s].bytes \in KnownBytes

\* A request is awaited with the limits it was made for, and keeps to them.
RequestsFit ==
    \A u \in Uploaders : phase[u] = "sent" =>
        /\ Cardinality(batch[u]) <= limits[u].packets
        /\ Cardinality(BytesOf(batch[u])) <= limits[u].bytes

OnlyUndeliverableRest == \A e \in Events : row[e].state = "quarantined" => Undeliverable(e)

QuarantineInv ==
    /\ VerdictsAreDeserved
    /\ LimitsAreKnown
    /\ RequestsFit
    /\ OnlyUndeliverableRest

\* No uploader is about to settle a reading that is set apart.
NoneOfBatchRests ==
    \A u \in Uploaders, e \in Events : e \in batch[u] => row[e].state # "quarantined"

\* A batch is within the limits of its process, of rows that are due and not set apart, and
\* the rows it sets apart are longer than any request may be.
LEMMA PickedIsSound ==
  ASSUME TypeOK, NEW u \in Uploaders
  PROVE  /\ Picked(u).chosen \subseteq {e \in Held : row[e].state = "queued"}
         /\ Cardinality(Picked(u).chosen) <= limits[u].packets
         /\ Cardinality(BytesOf(Picked(u).chosen)) <= limits[u].bytes
         /\ \A e \in Picked(u).chosen : SizeOf[e] <= limits[u].bytes
         /\ \A e \in Picked(u).tooLarge : e \in Events /\ SizeOf[e] > limits[u].bytes
<1> DEFINE due == [s \in Stations |-> Due(s)]
           seq == [e \in Events |-> row[e].seq]
           rows == UNION {due[s] : s \in DOMAIN due}
           picked == Pick(due, seq, newestFirst, SizeOf, Index, front[u], limits[u])
<1>1. front[u] \in Int /\ limits[u].packets \in Nat /\ limits[u].bytes \in Nat
  BY DEF TypeOK, Limits, Attributes
<1>2. \A e \in Events : seq[e] \in Int /\ SizeOf[e] \in Nat
  BY EventsAssumption DEF TypeOK, SpoolTypeOK, Row
<1>3. ASSUME NEW s \in Stations
      PROVE  /\ Index[s] \in Int /\ IsFiniteSet(Due(s)) /\ Due(s) \subseteq Events
             /\ Due(s) \subseteq {e \in Held : row[e].state = "queued"}
  <2>1. Due(s) \subseteq {e \in Held : row[e].state = "queued"}
    BY DEF Due, HeldBy
  <2>2. Due(s) \subseteq Events
    BY <2>1 DEF Held
  <2> QED
    BY <2>1, <2>2, EventsAssumption, UploaderAssumption, FS_Subset
<1>4. IsSound(picked, rows, SizeOf, limits[u])
  <2>1. DOMAIN due = Stations /\ IsFiniteSet(DOMAIN due)
    BY StationsAssumption
  <2>2. \A s \in DOMAIN due : Index[s] \in Int /\ IsFiniteSet(due[s]) /\ due[s] \subseteq Events
    BY <1>3
  <2> HIDE DEF due, seq
  <2> QED
    BY <1>1, <1>2, <2>1, <2>2, PickIsSound
<1>5. picked = Picked(u)
  BY DEF Picked
<1>6. rows \subseteq {e \in Held : row[e].state = "queued"}
  BY <1>3
<1>7. /\ picked.chosen \subseteq rows /\ picked.tooLarge \subseteq rows
      /\ Cardinality(picked.chosen) <= limits[u].packets
      /\ picked.bytes \in Nat /\ picked.bytes <= limits[u].bytes
      /\ Cardinality(BytesIn(picked.chosen, SizeOf)) <= picked.bytes
      /\ \A e \in picked.chosen : SizeOf[e] <= limits[u].bytes
      /\ \A e \in picked.tooLarge : limits[u].bytes < SizeOf[e]
      /\ IsFiniteSet(picked.chosen)
  BY <1>4 DEF IsSound
<1> HIDE DEF picked, rows
<1>8. BytesIn(picked.chosen, SizeOf) = BytesOf(picked.chosen)
  BY DEF BytesIn, BytesOf
<1>9. Cardinality(BytesOf(picked.chosen)) \in Nat
  <2>1. picked.chosen \in SUBSET Events
    BY <1>6, <1>7 DEF Held
  <2> QED
    BY <2>1, BytesAreCounted
<1>10. Cardinality(BytesOf(picked.chosen)) <= limits[u].bytes
  <2> DEFINE n == Cardinality(BytesOf(picked.chosen))
  <2>1. n \in Nat /\ n <= picked.bytes
    BY <1>7, <1>8, <1>9
  <2> HIDE DEF n
  <2>2. n <= limits[u].bytes
    BY <1>1, <1>7, <2>1
  <2> QED
    BY <2>2 DEF n
<1>11. \A e \in picked.tooLarge : e \in Events /\ SizeOf[e] > limits[u].bytes
  BY <1>1, <1>2, <1>6, <1>7 DEF Held
<1> QED
  BY <1>5, <1>6, <1>7, <1>10, <1>11

\* A request is of the rows that were chosen.
LEMMA BatchIsPicked ==
  ASSUME TypeOK, NEW u \in Uploaders, TakeBatch(u)
  PROVE  /\ batch' = [batch EXCEPT ![u] = Picked(u).chosen]
         /\ \A e \in Events : row'[e] = IF e \in Picked(u).tooLarge THEN Deferred(e, TRUE, TRUE)
                                        ELSE row[e]
<1>1. {e \in Held : e \in Picked(u).chosen} = Picked(u).chosen
  BY PickedIsSound
<1> QED
  BY <1>1 DEF TakeBatch

\* A step after which the rows that were there are queued or set apart as before, and no
\* request has more events than before.
Quiet ==
    /\ \A e \in Events : \/ row'[e].state = row[e].state
                         \/ row[e].state = "none" /\ row'[e].state = "queued"
    /\ \A u \in Uploaders : batch'[u] \subseteq batch[u]

\* Only four kinds of steps are not.
LEMMA StepsOnStates ==
  ASSUME TypeOK, [Next]_vars
  PROVE  \/ \E s \in Stations : Retry(s)
         \/ \E u \in Uploaders : TakeBatch(u) \/ PayloadTooLarge(u)
         \/ \E u \in Uploaders, e \in Events : Settle(u, e)
         \/ Quiet
<1> USE DEF TypeOK, tickVars, Quiet
<1>1. ASSUME UNCHANGED row, UNCHANGED batch PROVE Quiet
  BY <1>1
<1>2. ASSUME NEW u \in Uploaders, UNCHANGED row, GiveUp(u) PROVE Quiet
  BY <1>2 DEF GiveUp
<1>3. ASSUME NEW e \in Events, Collect(e) PROVE Quiet
  BY <1>3 DEF Collect, AppendEvent, Held, SpoolTypeOK
<1>4. ASSUME NEW e \in Events, RowElapses(e) PROVE Quiet
  <2>1. \A f \in Events : row'[f].state = row[f].state
    <3> SUFFICES ASSUME NEW f \in Events PROVE row'[f].state = row[f].state
      OBVIOUS
    <3>1. row[f] \in Row /\ row[e] \in Row
      BY DEF SpoolTypeOK
    <3> QED
      BY <1>4, <3>1 DEF RowElapses, ElapseRow, SpoolTypeOK, Row
  <2> QED
    BY <1>4, <2>1 DEF RowElapses
<1>5. ASSUME NEW u \in Uploaders, Disturb(u) PROVE Quiet
  <2>1. CASE RequestFails(u) \/ HttpError(u) \/ AnswerUnusable(u)
    BY <1>2, <2>1 DEF RequestFails, HttpError, AnswerUnusable, spoolVars
  <2>2. CASE AnswerOmits(u)
    BY <1>1, <2>2 DEF AnswerOmits, spoolVars
  <2>3. CASE Crash(u)
    BY <2>3 DEF Crash, spoolVars
  <2> QED
    BY <1>5, <2>1, <2>2, <2>3 DEF Disturb
<1>6. ASSUME NEW u \in Uploaders,
             ServerCommits(u) \/ ReadAnswer(u) \/ HoldStation(u) \/ AllSettled(u)
                \/ SaveLimit(u) \/ SaveDelay(u)
      PROVE  Quiet
  BY <1>1, <1>6 DEF ServerCommits, ReadAnswer, HoldStation, HoldBack, AllSettled, SaveLimit, SaveDelay,
                    Save, spoolVars
<1>7. ASSUME NEW packets \in late, LateCommit(packets) PROVE Quiet
  BY <1>1, <1>7 DEF LateCommit, spoolVars
<1>8. ASSUME NEW s \in Stations, AdminAdopts(s) \/ StationElapses(s) \/ AdminBlocks(s) PROVE Quiet
  BY <1>1, <1>8 DEF AdminAdopts, AdminBlocks, StationElapses, ElapseStation, spoolVars
<1>9. ASSUME UNCHANGED vars PROVE Quiet
  BY <1>1, <1>9 DEF vars, spoolVars
<1> HIDE DEF Quiet
<1> DEFINE Loud == \/ \E s \in Stations : Retry(s)
                   \/ \E u \in Uploaders : TakeBatch(u) \/ PayloadTooLarge(u)
                   \/ \E u \in Uploaders, e \in Events : Settle(u, e)
<1>10. ASSUME NEW u \in Uploaders, TakeBatch(u) \/ Proceed(u) \/ Disturb(u) PROVE Loud \/ Quiet
  BY <1>5, <1>6, <1>10 DEF Proceed
<1>11. ASSUME Next PROVE Loud \/ Quiet
  <2>1. (\E s \in Blockable : AdminBlocks(s)) => Quiet
    BY <1>8, UploaderAssumption
  <2>2. (\E s \in Stations : Retry(s) \/ AdminAdopts(s) \/ StationElapses(s)) => Loud \/ Quiet
    BY <1>8
  <2> HIDE DEF Loud
  <2> QED
    BY <1>3, <1>4, <1>7, <1>10, <1>11, <2>1, <2>2 DEF Next
<1> QED
  BY <1>9, <1>11

\* A reading longer than some limit that requests can have is undeliverable.
LEMMA LongIsUndeliverable ==
  ASSUME NEW e \in Events, NEW bytes \in KnownBytes \cup {ServerLimit.bytes}, SizeOf[e] > bytes
  PROVE  Undeliverable(e)
<1>1. PICK limit \in {Configured, ServerLimit} \cup Adverts : bytes = limit.bytes
  BY DEF KnownBytes
<1> QED
  BY <1>1 DEF Undeliverable

\* A batch of one that the server finds too large is longer than what it takes.
LEMMA CondemnedIsLong ==
  ASSUME NEW e \in Events, TooLargeForServer({e})
  PROVE  SizeOf[e] > ServerLimit.bytes
<1>1. Cardinality({e}) = 1 /\ ServerLimit.packets \in Nat \ {0}
  BY FS_Singleton, UploaderAssumption DEF Limits, Attributes
<1>2. Cardinality(BytesOf({} \cup {e})) = Cardinality(BytesOf({})) + SizeOf[e]
  BY OneMoreEvent
<1>3. BytesOf({}) = {} /\ {} \cup {e} = {e} /\ SizeOf[e] \in Nat
  BY EventsAssumption DEF BytesOf
<1>4. Cardinality(BytesOf({e})) = SizeOf[e]
  BY <1>2, <1>3, FS_EmptySet
<1>5. ~ (Cardinality({e}) > ServerLimit.packets)
  BY <1>1
<1> QED
  BY <1>4, <1>5 DEF TooLargeForServer

\* The one event of a batch that was answered with 413, if it had one.
LEMMA PayloadIsCondemned ==
  ASSUME TypeOK, NEW u \in Uploaders, PayloadTooLarge(u)
  PROVE  \/ row' = row
         \/ \E e \in batch[u] : /\ SizeOf[e] > ServerLimit.bytes
                                /\ row' = [row EXCEPT ![e] = Deferred(e, TRUE, TRUE)]
<1>1. CASE Cardinality(batch[u]) = 1
  <2>1. PICK e \in batch[u] : row' = row \/ row' = [row EXCEPT ![e] = Deferred(e, TRUE, TRUE)]
    <3>1. batch[u] # {}
      BY <1>1, FS_EmptySet
    <3> QED
      BY <1>1, <3>1 DEF PayloadTooLarge, Defer, spoolVars
  <2>2. e \in Events /\ batch[u] = {e}
    <3>1. batch[u] \subseteq Events
      BY DEF TypeOK
    <3>2. PICK f : batch[u] = {f}
      BY <1>1, <3>1, EventsAssumption, FS_Subset, FS_Singleton
    <3> QED
      BY <3>1, <3>2
  <2>3. SizeOf[e] > ServerLimit.bytes
    BY <2>2, CondemnedIsLong DEF PayloadTooLarge
  <2> QED
    BY <2>1, <2>3
<1>2. CASE Cardinality(batch[u]) # 1
  BY <1>2 DEF PayloadTooLarge, spoolVars
<1> QED
  BY <1>1, <1>2

LEMMA VerdictsStayDeserved ==
  ASSUME TypeOK, VerdictsAreDeserved, [Next]_vars
  PROVE  VerdictsAreDeserved'
<1> USE DEF TypeOK, serverVars, tickVars
<1>1. ASSUME UNCHANGED admission, UNCHANGED answer PROVE VerdictsAreDeserved'
  BY <1>1 DEF VerdictsAreDeserved
<1>2. ASSUME NEW u \in Uploaders, UNCHANGED admission, answer' = [answer EXCEPT ![u] = NoAnswer]
      PROVE  VerdictsAreDeserved'
  BY <1>2 DEF VerdictsAreDeserved, NoAnswer
<1>3. ASSUME NEW u \in Uploaders, NEW e \in Events,
             UNCHANGED admission, answer' = [answer EXCEPT ![u][e] = "missing"]
      PROVE  VerdictsAreDeserved'
  BY <1>3 DEF VerdictsAreDeserved
<1>4. ASSUME NEW u \in Uploaders, ServerCommits(u) PROVE VerdictsAreDeserved'
  <2>1. \A e \in Events : /\ answer'[u][e] = "refused" => e \in Refused
                          /\ answer'[u][e] = "blocked" => StationOf[e] \in Blockable
    <3> SUFFICES ASSUME NEW e \in Events
                 PROVE  /\ answer'[u][e] = "refused" => e \in Refused
                        /\ answer'[u][e] = "blocked" => StationOf[e] \in Blockable
      OBVIOUS
    <3>1. answer'[u][e] \in {"missing", Verdict(e)}
      BY <1>4 DEF ServerCommits
    <3>2. StationOf[e] \in Stations /\ admission[StationOf[e]] \in {"pending", "adopted", "blocked"}
      BY EventsAssumption DEF ReceiverTypeOK
    <3>3. /\ Verdict(e) = "refused" => e \in Refused
          /\ Verdict(e) = "blocked" => admission[StationOf[e]] = "blocked"
      BY <3>2 DEF Verdict
    <3> QED
      BY <3>1, <3>2, <3>3 DEF VerdictsAreDeserved
  <2>2. \A v \in Uploaders \ {u} : answer'[v] = answer[v]
    BY <1>4 DEF ServerCommits
  <2>3. admission' = admission
    BY <1>4 DEF ServerCommits, Commit
  <2> QED
    BY <2>1, <2>2, <2>3 DEF VerdictsAreDeserved
<1>5. ASSUME NEW s \in Blockable, AdminBlocks(s) PROVE VerdictsAreDeserved'
  BY <1>5 DEF AdminBlocks, Block, VerdictsAreDeserved, ReceiverTypeOK
<1>6. ASSUME NEW s \in Stations, AdminAdopts(s) PROVE VerdictsAreDeserved'
  BY <1>6 DEF AdminAdopts, Adopt, VerdictsAreDeserved, ReceiverTypeOK
<1>7. ASSUME NEW u \in Uploaders, Disturb(u) PROVE VerdictsAreDeserved'
  BY <1>2, <1>3, <1>7
  DEF Disturb, RequestFails, HttpError, AnswerUnusable, AnswerOmits, Crash, GiveUp
<1>8. ASSUME NEW u \in Uploaders, Proceed(u) PROVE VerdictsAreDeserved'
  BY <1>1, <1>2, <1>3, <1>4, <1>8
  DEF Proceed, PayloadTooLarge, GiveUp, ReadAnswer, Settle, HoldStation, AllSettled, SaveLimit,
      SaveDelay, Save
<1>9. ASSUME NEW u \in Uploaders, TakeBatch(u) PROVE VerdictsAreDeserved'
  BY <1>1, <1>9 DEF TakeBatch
<1>10. ASSUME NEW e \in Events, Collect(e) \/ RowElapses(e) PROVE VerdictsAreDeserved'
  BY <1>1, <1>10 DEF Collect, RowElapses
<1>11. ASSUME NEW s \in Stations, Retry(s) \/ StationElapses(s) PROVE VerdictsAreDeserved'
  BY <1>1, <1>11 DEF Retry, StationElapses
<1>12. ASSUME NEW packets \in late, LateCommit(packets) PROVE VerdictsAreDeserved'
  BY <1>1, <1>12 DEF LateCommit, Commit
<1>13. ASSUME UNCHANGED vars PROVE VerdictsAreDeserved'
  BY <1>1, <1>13 DEF vars
<1> QED
  BY <1>5, <1>6, <1>7, <1>8, <1>9, <1>10, <1>11, <1>12, <1>13 DEF Next

\* A process that starts takes the lowest limit it finds, which is one of those.
LEMMA LoadedIsKnown ==
  ASSUME TypeOK, LimitsAreKnown
  PROVE  Loaded.bytes \in KnownBytes
<1> DEFINE S == {Configured["bytes"]} \cup {learned[s]["bytes"] : s \in Stations}
<1>1. S \in SUBSET Nat /\ S # {}
  BY UploaderAssumption DEF TypeOK, Limits, Attributes
<1>2. Min(S) \in S
  <2> HIDE DEF S
  <2> QED
    BY <1>1, MinIsMember
<1>3. Loaded.bytes = Min(S)
  BY DEF Loaded, Attributes
<1> QED
  BY <1>2, <1>3 DEF LimitsAreKnown, KnownBytes

LEMMA LimitsStayKnown ==
  ASSUME TypeOK, LimitsAreKnown, [Next]_vars
  PROVE  LimitsAreKnown'
<1> USE DEF TypeOK, tickVars
<1>1. ASSUME UNCHANGED limits, UNCHANGED learned PROVE LimitsAreKnown'
  BY <1>1 DEF LimitsAreKnown
<1>2. ASSUME NEW u \in Uploaders, PayloadTooLarge(u) PROVE LimitsAreKnown'
  <2>1. \/ limits' = limits
        \/ \E k : limits' = [limits EXCEPT ![u] = [@ EXCEPT !.packets = k]]
    BY <1>2 DEF PayloadTooLarge
  <2>2. \A v \in Uploaders : limits'[v].bytes = limits[v].bytes
    <3> SUFFICES ASSUME NEW v \in Uploaders PROVE limits'[v].bytes = limits[v].bytes
      OBVIOUS
    <3>1. limits[v] \in [{"packets", "bytes"} -> Nat \ {0}]
      BY DEF Limits, Attributes
    <3> QED
      BY <2>1, <3>1
  <2> QED
    BY <1>2, <2>2 DEF PayloadTooLarge, LimitsAreKnown
<1>3. ASSUME NEW u \in Uploaders, ReadAnswer(u) PROVE LimitsAreKnown'
  <2>1. PICK advert \in Adverts : limits' = [limits EXCEPT ![u] = Tightened(@, advert)]
    BY <1>3 DEF ReadAnswer
  <2>2. Tightened(limits[u], advert).bytes \in {limits[u].bytes, advert.bytes}
    BY DEF Tightened, Attributes, Lesser
  <2>3. \A v \in Uploaders : limits'[v] = IF v = u THEN Tightened(limits[u], advert) ELSE limits[v]
    BY <2>1
  <2>4. advert.bytes \in KnownBytes
    BY DEF KnownBytes
  <2> QED
    BY <1>3, <2>2, <2>3, <2>4 DEF ReadAnswer, LimitsAreKnown
<1>4. ASSUME NEW u \in Uploaders, NEW written, Save(u, written) PROVE LimitsAreKnown'
  <2>1. \A s \in Stations : learned'[s].bytes \in {limits[u].bytes, learned[s].bytes}
    BY <1>4 DEF Save, Attributes
  <2> QED
    BY <1>4, <2>1 DEF Save, LimitsAreKnown
<1>5. ASSUME NEW u \in Uploaders, Crash(u) PROVE LimitsAreKnown'
  <2>1. \A v \in Uploaders : limits'[v] \in {Loaded, limits[v]}
    BY <1>5 DEF Crash
  <2> QED
    BY <1>5, <2>1, LoadedIsKnown DEF Crash, LimitsAreKnown
<1>6. ASSUME NEW u \in Uploaders, Disturb(u) PROVE LimitsAreKnown'
  BY <1>1, <1>5, <1>6 DEF Disturb, RequestFails, HttpError, AnswerUnusable, AnswerOmits, GiveUp
<1>7. ASSUME NEW u \in Uploaders, Proceed(u) PROVE LimitsAreKnown'
  BY <1>1, <1>2, <1>3, <1>4, <1>7
  DEF Proceed, ServerCommits, Settle, HoldStation, AllSettled, SaveLimit, SaveDelay
<1>8. ASSUME NEW u \in Uploaders, TakeBatch(u) PROVE LimitsAreKnown'
  BY <1>1, <1>8 DEF TakeBatch
<1>9. ASSUME NEW e \in Events, Collect(e) \/ RowElapses(e) PROVE LimitsAreKnown'
  BY <1>1, <1>9 DEF Collect, RowElapses
<1>10. ASSUME NEW s, Retry(s) \/ StationElapses(s) \/ AdminAdopts(s) \/ AdminBlocks(s) PROVE LimitsAreKnown'
  BY <1>1, <1>10 DEF Retry, StationElapses, AdminAdopts, AdminBlocks
<1>11. ASSUME NEW packets \in late, LateCommit(packets) PROVE LimitsAreKnown'
  BY <1>1, <1>11 DEF LateCommit
<1>12. ASSUME UNCHANGED vars PROVE LimitsAreKnown'
  BY <1>1, <1>12 DEF vars
<1> QED
  BY <1>6, <1>7, <1>8, <1>9, <1>10, <1>11, <1>12 DEF Next

\* Only a new request makes a process wait for an answer.
LEMMA RequestsStayFitting ==
  ASSUME TypeOK, RequestsFit, [Next]_vars
  PROVE  RequestsFit'
<1> DEFINE Fits(u) == /\ Cardinality(batch[u]) <= limits[u].packets
                      /\ Cardinality(BytesOf(batch[u])) <= limits[u].bytes
<1> USE DEF TypeOK, tickVars
<1>1. SUFFICES ASSUME NEW v \in Uploaders, phase'[v] = "sent" PROVE Fits(v)'
  BY DEF RequestsFit
<1>2. ASSUME phase[v] = "sent", batch'[v] = batch[v], limits'[v] = limits[v] PROVE Fits(v)'
  BY <1>2 DEF RequestsFit, BytesOf
<1>3. ASSUME NEW u \in Uploaders, TakeBatch(u) PROVE Fits(v)'
  <2>1. CASE v = u
    <3>1. batch'[v] = Picked(v).chosen /\ limits'[v] = limits[v]
      BY <1>3, <2>1, BatchIsPicked DEF TakeBatch
    <3>2. /\ Cardinality(Picked(v).chosen) <= limits[v].packets
          /\ Cardinality(BytesOf(Picked(v).chosen)) <= limits[v].bytes
      BY PickedIsSound
    <3> HIDE DEF TypeOK
    <3> QED
      BY <3>1, <3>2 DEF BytesOf
  <2>2. CASE v # u
    BY <1>1, <1>2, <1>3, <2>2 DEF TakeBatch
  <2> QED
    BY <2>1, <2>2
<1>4. ASSUME NEW u \in Uploaders, GiveUp(u), \A w \in Uploaders \ {u} : limits'[w] = limits[w]
      PROVE  Fits(v)'
  BY <1>1, <1>2, <1>4 DEF GiveUp
<1>5. ASSUME NEW u \in Uploaders, Disturb(u) PROVE Fits(v)'
  <2>1. CASE RequestFails(u) \/ HttpError(u) \/ AnswerUnusable(u)
    BY <1>4, <2>1 DEF RequestFails, HttpError, AnswerUnusable
  <2>2. CASE AnswerOmits(u)
    BY <1>1, <1>2, <2>2 DEF AnswerOmits
  <2>3. CASE Crash(u)
    BY <1>1, <1>2, <2>3 DEF Crash
  <2> QED
    BY <1>5, <2>1, <2>2, <2>3 DEF Disturb
<1>6. ASSUME NEW u \in Uploaders, PayloadTooLarge(u) PROVE Fits(v)'
  BY <1>4, <1>6 DEF PayloadTooLarge
<1>7. ASSUME NEW u \in Uploaders,
             ServerCommits(u) \/ ReadAnswer(u) \/ HoldStation(u) \/ AllSettled(u)
      PROVE  Fits(v)'
  BY <1>1, <1>2, <1>7 DEF ServerCommits, ReadAnswer, HoldStation, AllSettled
<1>8. ASSUME NEW u \in Uploaders, NEW e \in Events, Settle(u, e) PROVE Fits(v)'
  BY <1>1, <1>2, <1>8 DEF Settle
<1>9. ASSUME NEW u \in Uploaders, SaveLimit(u) \/ SaveDelay(u) PROVE Fits(v)'
  BY <1>1, <1>2, <1>9 DEF SaveLimit, SaveDelay, Save
<1>10. ASSUME UNCHANGED tickVars PROVE Fits(v)'
  BY <1>1, <1>2, <1>10
<1>11. ASSUME NEW u \in Uploaders, TakeBatch(u) \/ Proceed(u) \/ Disturb(u) PROVE Fits(v)'
  BY <1>3, <1>5, <1>6, <1>7, <1>8, <1>9, <1>11 DEF Proceed
<1>12. ASSUME NEW e \in Events, Collect(e) \/ RowElapses(e) PROVE Fits(v)'
  BY <1>10, <1>12 DEF Collect, RowElapses
<1>13. ASSUME NEW s, Retry(s) \/ StationElapses(s) \/ AdminAdopts(s) \/ AdminBlocks(s) PROVE Fits(v)'
  BY <1>10, <1>13 DEF Retry, StationElapses, AdminAdopts, AdminBlocks
<1>14. ASSUME NEW packets \in late, LateCommit(packets) PROVE Fits(v)'
  BY <1>10, <1>14 DEF LateCommit
<1> HIDE DEF Fits
<1> QED
  BY <1>10, <1>11, <1>12, <1>13, <1>14 DEF Next, vars

\* What a step does to the rows that are set apart: the reasons it has, the readings of
\* requests it leaves alone, and that only a retry sends one again.
LEMMA SettleOnStates ==
  ASSUME TypeOK, VerdictsAreDeserved, NEW u \in Uploaders, NEW e \in Events, Settle(u, e)
  PROVE  /\ \A f \in Events \ {e} : row'[f] = row[f]
         /\ row'[e].state = "quarantined" => Undeliverable(e)
         /\ e \in batch[u] /\ batch' = [batch EXCEPT ![u] = @ \ {e}]
<1>1. CASE answer[u][e] \in {"refused", "blocked"}
  <2>1. Undeliverable(e)
    BY <1>1 DEF VerdictsAreDeserved, Undeliverable
  <2>2. \A f \in Events \ {e} : row'[f] = row[f]
    BY DEF Settle, Acknowledge, Defer, TypeOK, SpoolTypeOK
  <2> QED
    BY <2>1, <2>2 DEF Settle
<1>2. CASE answer[u][e] \notin {"refused", "blocked"}
  <2> DEFINE quarantine == answer[u][e] \in {"refused", "blocked"}
  <2>1. quarantine = FALSE
    <3>1. ~ quarantine /\ quarantine \in BOOLEAN
      BY <1>2
    <3> HIDE DEF quarantine
    <3> QED
      BY <3>1, Zenon
  <2>2. Acknowledge(e) \/ Defer(e, FALSE, quarantine)
    BY DEF Settle
  <2> HIDE DEF quarantine
  <2>3. Acknowledge(e) \/ Defer(e, FALSE, FALSE)
    BY <2>1, <2>2
  <2>4. row[e] \in Row
    BY DEF TypeOK, SpoolTypeOK
  <2>5. Deferred(e, FALSE, FALSE).state # "quarantined"
    BY <2>4 DEF Deferred, Held, Row
  <2>6. \/ row' = [row EXCEPT ![e] = NoRow]
        \/ row' = [row EXCEPT ![e] = Deferred(e, FALSE, FALSE)]
    BY <2>3 DEF Acknowledge, Defer
  <2>7. row'[e].state # "quarantined" /\ \A f \in Events \ {e} : row'[f] = row[f]
    <3>1. ASSUME NEW new, row' = [row EXCEPT ![e] = new], new.state # "quarantined"
          PROVE  row'[e].state # "quarantined" /\ \A f \in Events \ {e} : row'[f] = row[f]
      BY <3>1 DEF TypeOK, SpoolTypeOK
    <3>2. NoRow.state # "quarantined"
      BY DEF NoRow
    <3> QED
      BY <2>5, <2>6, <3>1, <3>2
  <2> QED
    BY <2>7 DEF Settle
<1> QED
  BY <1>1, <1>2

\* A row that was condemned keeps its station and its number, and rests.
LEMMA CondemnedState ==
  ASSUME SpoolTypeOK, NEW e \in Events
  PROVE  /\ Deferred(e, TRUE, TRUE).state = IF e \in Held THEN "quarantined" ELSE row[e].state
         /\ e \notin Held <=> row[e].state = "none"
<1>1. row[e] \in Row
  BY DEF SpoolTypeOK
<1> QED
  BY <1>1 DEF Deferred, Held, Row

LEMMA OnlyUndeliverableStays ==
  ASSUME TypeOK, QuarantineInv, [Next]_vars
  PROVE  OnlyUndeliverableRest'
<1>1. VerdictsAreDeserved /\ LimitsAreKnown /\ \A e \in Events : row[e].state = "quarantined" => Undeliverable(e)
  BY DEF QuarantineInv, OnlyUndeliverableRest
<1>2. SUFFICES ASSUME NEW e \in Events, row'[e].state = "quarantined" PROVE Undeliverable(e)
  BY DEF OnlyUndeliverableRest, Undeliverable
<1>3. CASE \E s \in Stations : Retry(s)
  <2>1. row[e].state = "quarantined"
    <3>1. row[e] \in Row
      BY DEF TypeOK, SpoolTypeOK
    <3> QED
      BY <1>2, <1>3, <3>1 DEF Retry, RetryQuarantined, Row
  <2> QED
    BY <1>1, <2>1
<1>4. ASSUME NEW u \in Uploaders, TakeBatch(u) PROVE Undeliverable(e)
  <2>1. CASE e \in Picked(u).tooLarge
    <3>1. SizeOf[e] > limits[u].bytes
      BY <2>1, PickedIsSound
    <3> QED
      BY <1>1, <3>1, LongIsUndeliverable DEF LimitsAreKnown
  <2>2. CASE e \notin Picked(u).tooLarge
    BY <1>1, <1>2, <1>4, <2>2, BatchIsPicked
  <2> QED
    BY <2>1, <2>2
<1>5. ASSUME NEW u \in Uploaders, PayloadTooLarge(u) PROVE Undeliverable(e)
  <2>1. CASE row' = row
    BY <1>1, <1>2, <2>1
  <2>2. ASSUME NEW f \in batch[u], SizeOf[f] > ServerLimit.bytes,
               row' = [row EXCEPT ![f] = Deferred(f, TRUE, TRUE)]
        PROVE  Undeliverable(e)
    <3>1. CASE e = f
      BY <2>2, <3>1, LongIsUndeliverable
    <3>2. CASE e # f
      <4>1. row'[e] = row[e]
        BY <2>2, <3>2 DEF TypeOK, SpoolTypeOK
      <4> QED
        BY <1>1, <1>2, <4>1
    <3> QED
      BY <3>1, <3>2
  <2> QED
    BY <1>5, <2>1, <2>2, PayloadIsCondemned
<1>6. ASSUME NEW u \in Uploaders, NEW f \in Events, Settle(u, f) PROVE Undeliverable(e)
  <2>1. CASE e = f
    BY <1>1, <1>2, <1>6, <2>1, SettleOnStates
  <2>2. CASE e # f
    BY <1>1, <1>2, <1>6, <2>2, SettleOnStates
  <2> QED
    BY <2>1, <2>2
<1>7. CASE Quiet
  BY <1>1, <1>2, <1>7 DEF Quiet
<1> QED
  BY <1>3, <1>4, <1>5, <1>6, <1>7, StepsOnStates

LEMMA NextQuarantine == TypeOK /\ QuarantineInv /\ [Next]_vars => QuarantineInv'
BY VerdictsStayDeserved, LimitsStayKnown, RequestsStayFitting, OnlyUndeliverableStays DEF QuarantineInv

LEMMA InitQuarantine == Init => QuarantineInv
<1> SUFFICES ASSUME Init PROVE QuarantineInv
  OBVIOUS
<1>1. VerdictsAreDeserved
  BY DEF Init, ReceiverInit, VerdictsAreDeserved, NoAnswer
<1>2. LimitsAreKnown
  BY DEF Init, LimitsAreKnown, KnownBytes
<1>3. RequestsFit
  BY DEF Init, RequestsFit
<1>4. OnlyUndeliverableRest
  BY DEF Init, SpoolInit, OnlyUndeliverableRest, NoRow
<1> QED
  BY <1>1, <1>2, <1>3, <1>4 DEF QuarantineInv

\* With any number of uploaders, a reading is set apart only for a reason in the reading, its
\* station or the limits; and no request exceeds the limits it was made for.
THEOREM QuarantineInvariant == Spec => []QuarantineInv
<1>1. TypeOK /\ TypeOK' /\ QuarantineInv /\ [Next]_vars => QuarantineInv'
  BY NextQuarantine
<1> QED
  BY <1>1, InitQuarantine, TypeCorrect, PTL DEF Spec

\* The one uploader that has the lock never settles a row that is set apart.
LEMMA NextNoneOfBatchRests ==
  ASSUME NEW u, Uploaders = {u}
  PROVE  TypeOK /\ QuarantineInv /\ NoneOfBatchRests /\ [Next]_vars => NoneOfBatchRests'
<1> SUFFICES ASSUME TypeOK, QuarantineInv, NoneOfBatchRests, [Next]_vars
             PROVE  NoneOfBatchRests'
  OBVIOUS
<1>1. SUFFICES ASSUME NEW e \in Events, e \in batch'[u], row'[e].state = "quarantined" PROVE FALSE
  BY DEF NoneOfBatchRests
<1>2. e \in batch[u] => row[e].state # "quarantined"
  BY DEF NoneOfBatchRests
<1>3. CASE \E s \in Stations : Retry(s)
  <2>1. row[e] \in Row
    BY DEF TypeOK, SpoolTypeOK
  <2> QED
    BY <1>1, <1>2, <1>3, <2>1 DEF Retry, RetryQuarantined, Row, tickVars
<1>4. CASE TakeBatch(u)
  <2>1. e \in Picked(u).chosen
    BY <1>1, <1>4, BatchIsPicked DEF TypeOK
  <2>2. row[e].state = "queued" /\ SizeOf[e] <= limits[u].bytes
    BY <2>1, PickedIsSound
  <2>3. e \notin Picked(u).tooLarge
    <3> SUFFICES ASSUME e \in Picked(u).tooLarge PROVE FALSE
      OBVIOUS
    <3>1. SizeOf[e] > limits[u].bytes
      BY PickedIsSound
    <3>2. SizeOf[e] \in Nat /\ limits[u].bytes \in Nat
      BY EventsAssumption DEF TypeOK, Limits, Attributes
    <3> QED
      BY <2>2, <3>1, <3>2
  <2> QED
    BY <1>1, <1>4, <2>2, <2>3, BatchIsPicked
<1>5. CASE PayloadTooLarge(u)
  BY <1>1, <1>5 DEF PayloadTooLarge, GiveUp, TypeOK
<1>6. ASSUME NEW f \in Events, Settle(u, f) PROVE FALSE
  BY <1>1, <1>2, <1>6, SettleOnStates DEF QuarantineInv, TypeOK
<1>7. CASE Quiet
  BY <1>1, <1>2, <1>7 DEF Quiet
<1> QED
  BY <1>3, <1>4, <1>5, <1>6, <1>7, StepsOnStates

\* With it, only a retry of the station sends what was set apart.
LEMMA QuarantineStep ==
  ASSUME NEW u, Uploaders = {u}
  PROVE  TypeOK /\ QuarantineInv /\ QuarantineInv' /\ NoneOfBatchRests /\ [Next]_vars
         => [\A e \in Events :
               /\ row'[e].state = "quarantined" => Undeliverable(e)
               /\ row[e].state = "quarantined" /\ row'[e].state = "queued"
                     => Retry(StationOf[e])]_vars
<1> SUFFICES ASSUME TypeOK, QuarantineInv, QuarantineInv', NoneOfBatchRests, [Next]_vars,
                    NEW e \in Events
             PROVE  /\ row'[e].state = "quarantined" => Undeliverable(e)
                    /\ row[e].state = "quarantined" /\ row'[e].state = "queued"
                          => Retry(StationOf[e])
  OBVIOUS
<1>1. row'[e].state = "quarantined" => Undeliverable(e)
  BY DEF QuarantineInv, OnlyUndeliverableRest, Undeliverable
<1>2. SUFFICES ASSUME row[e].state = "quarantined", row'[e].state = "queued"
               PROVE  Retry(StationOf[e])
  BY <1>1
<1>3. ASSUME NEW s \in Stations, Retry(s) PROVE Retry(StationOf[e])
  <2>1. s = StationOf[e]
    BY <1>2, <1>3 DEF Retry, RetryQuarantined
  <2> QED
    BY <1>3, <2>1
<1>4. CASE TakeBatch(u)
  BY <1>2, <1>4, BatchIsPicked, CondemnedState DEF TypeOK
<1>5. CASE PayloadTooLarge(u)
  <2>1. CASE row' = row
    BY <1>2, <2>1
  <2>2. ASSUME NEW f \in batch[u], row' = [row EXCEPT ![f] = Deferred(f, TRUE, TRUE)] PROVE FALSE
    BY <1>2, <2>2, CondemnedState DEF TypeOK, SpoolTypeOK
  <2> QED
    BY <1>5, <2>1, <2>2, PayloadIsCondemned
<1>6. ASSUME NEW f \in Events, Settle(u, f) PROVE FALSE
  <2>1. e = f /\ e \in batch[u]
    BY <1>2, <1>6, SettleOnStates DEF QuarantineInv
  <2> QED
    BY <1>2, <2>1 DEF NoneOfBatchRests
<1>7. CASE Quiet
  BY <1>2, <1>7 DEF Quiet
<1> QED
  BY <1>3, <1>4, <1>5, <1>6, <1>7, StepsOnStates

\* While one uploader has the lock, a reading is set apart only if it is undeliverable, and
\* stays so until somebody retries its station, whatever answers, crashes and late requests
\* there are.
THEOREM QuarantineHolds ==
  ASSUME NEW u, Uploaders = {u}
  PROVE  Spec => QuarantineIsJustified
<1>1. Init => NoneOfBatchRests
  BY DEF Init, NoneOfBatchRests
<1>2. TypeOK /\ QuarantineInv /\ NoneOfBatchRests /\ [Next]_vars => NoneOfBatchRests'
  BY NextNoneOfBatchRests
<1>3. TypeOK /\ QuarantineInv /\ QuarantineInv' /\ NoneOfBatchRests /\ [Next]_vars
         => [\A e \in Events :
               /\ row'[e].state = "quarantined" => Undeliverable(e)
               /\ row[e].state = "quarantined" /\ row'[e].state = "queued"
                     => Retry(StationOf[e])]_vars
  BY QuarantineStep
<1> QED
  BY <1>1, <1>2, <1>3, TypeCorrect, QuarantineInvariant, PTL DEF Spec, QuarantineIsJustified

-----------------------------------------------------------------------------
(* The hand-off implements its promise.                                    *)

\* New receipts are for readings that a spool still has.
LEMMA NewReceiptsAreHeld ==
  ASSUME DeliveryInv, [Next]_vars
  PROVE  receipts' \ receipts \subseteq Held
<1>1. StepsGrow
  BY NextGrows DEF DeliveryInv
<1>2. \A e \in receipts' \ receipts : e \in committed
  BY <1>1 DEF StepsGrow, DeliveryInv, OnlyCommittedTravels
<1> QED
  BY <1>2 DEF DeliveryInv, NothingLost

LEMMA StepKeepsThePromise ==
  DeliveryInv /\ [Next]_vars => [Promise!HandoffNext]_(Promise!handoffVars)
<1> SUFFICES ASSUME DeliveryInv, [Next]_vars
             PROVE  [Promise!HandoffNext]_(Promise!handoffVars)
  OBVIOUS
<1> USE DEF Promise!HandoffNext, Promise!handoffVars
<1>1. CASE \E e \in Events :
             /\ Collect(e)
             /\ Held' = Held \cup {e} /\ committed' = committed \cup {e}
  <2>1. PICK e \in Events :
          /\ Collect(e)
          /\ Held' = Held \cup {e} /\ committed' = committed \cup {e}
    BY <1>1
  <2>2. e \notin committed /\ receipts' = receipts
    BY <2>1 DEF Collect, serverVars
  <2>3. Promise!Take(e)
    BY <2>1, <2>2 DEF Promise!Take
  <2> QED
    BY <2>3
<1>2. CASE \E u \in Uploaders, e \in Events :
             /\ Settle(u, e) /\ answer[u][e] \in Confirmed
             /\ Held' = Held \ {e} /\ committed' = committed
  <2>1. PICK u \in Uploaders, e \in Events :
          /\ Settle(u, e) /\ answer[u][e] \in Confirmed
          /\ Held' = Held \ {e} /\ committed' = committed
    BY <1>2
  <2>2. e \in receipts /\ receipts' = receipts
    BY <2>1 DEF Settle, serverVars, DeliveryInv, ConfirmationsAreReceipts
  <2>3. CASE e \in Held
    <3>1. Promise!Release(e)
      BY <2>1, <2>2, <2>3 DEF Promise!Release
    <3> QED
      BY <3>1
  <2>4. CASE e \notin Held
    <3>1. Held' = Held
      BY <2>1, <2>4
    <3> QED
      BY <2>1, <2>2, <3>1
  <2> QED
    BY <2>3, <2>4
<1>3. CASE Held' = Held /\ committed' = committed
  <2> DEFINE S == receipts' \ receipts
  <2>1. receipts' = receipts \cup S
    BY NextGrows DEF DeliveryInv, StepsGrow
  <2>2. S \subseteq Held \ receipts
    BY NewReceiptsAreHeld
  <2>3. CASE S = {}
    <3>1. receipts' = receipts
      BY <2>1, <2>3
    <3> QED
      BY <1>3, <3>1
  <2>4. CASE S # {}
    <3>1. Promise!Store(S)
      BY <1>3, <2>1, <2>2, <2>4 DEF Promise!Store
    <3>2. S \in SUBSET Events
      BY <2>2 DEF Held
    <3> QED
      BY <3>1, <3>2
  <2> QED
    BY <2>3, <2>4
<1> QED
  BY <1>1, <1>2, <1>3, StepsOnRows DEF DeliveryInv

\* Workers, uploaders, network, receiver and operators together implement the
\* hand-off: a reading is taken once, stored at most once while a spool has
\* it, and released only after that.
THEOREM HandoffIsImplemented == Spec => KeepsThePromise
<1>1. Init => Promise!HandoffInit
  BY DEF Init, SpoolInit, ReceiverInit, Held, NoRow, Promise!HandoffInit
<1>2. DeliveryInv /\ [Next]_vars => [Promise!HandoffNext]_(Promise!handoffVars)
  BY StepKeepsThePromise
<1> QED
  BY <1>1, <1>2, DeliveryInvariant, PTL DEF Spec, KeepsThePromise, Promise!HandoffSpec
=============================================================================
