----------------------------- MODULE ServiceProofs -----------------------------
(***************************************************************************)
(* Proofs about the service: Supervisor, for any number of stations, any   *)
(* timeouts and any number of faults; Deployment, for every set of         *)
(* revisions and number of stations, builds and disturbances; and the two  *)
(* together as MCService lets them move.                                   *)
(***************************************************************************)
EXTENDS MCService, NumberLemmas, TLAPS

(***************************************************************************)
(* The supervisor and its children.                                        *)
(***************************************************************************)
Patience == Min({SilenceTimeout, StartupTimeout})

\* Between the look at a child and its verdict the supervisor runs, and that child has not
\* been polled in this round; nothing runs without a supervisor but orphans, and no child
\* that the shutdown is done with.
PollsInTurn ==
    /\ looked # {} => supervisor = "up"
    /\ looked \cap polled = {} /\ \A c, d \in looked : c = d
    /\ supervisor = "down" => \A c \in Children : proc[c] = "none"
    /\ supervisor = "waiting" => \A c \in polled : proc[c] = "none"

\* A worker that waits for room says so: no orphan of it writes over its state.
BlockedSaysSo ==
    \A c \in Children : proc[c] = "blocked" => c \in Workers /\ state[c] = "spool_full"

\* A deadline that nears is silence that lasts.
SilenceIsMeasured ==
    \A c \in Children :
        /\ child[c].deadline >= -1
        /\ supervisor = "up" /\ proc[c] \in Running
             => fresh[c] \/ quiet[c] + child[c].deadline >= Patience

\* A worker that has waited since the look gets the answer that it waits, read by read,
\* and with it a deadline that lies ahead.
PatienceIsSeen ==
    /\ looked = {} => answer = "unasked"
    /\ \A w \in patient : proc[w] = "blocked" /\ full[w]
    /\ \A w \in patient \cap looked : answer # "runs"
    /\ answer = "waits" => \A c \in looked : child[c].deadline >= 0

SupervisorInv ==
    /\ TypeOK /\ SingleCollector /\ PollsInTurn
    /\ BlockedSaysSo /\ PatienceIsSeen /\ SilenceIsMeasured

-----------------------------------------------------------------------------
(* Numbers.                                                                *)

LEMMA PatienceIsShort ==
    Patience \in Nat /\ Patience <= SilenceTimeout /\ Patience <= StartupTimeout
<1> {SilenceTimeout, StartupTimeout} \in SUBSET Nat
  BY SupervisorAssumption
<1> QED
  BY MinIsMember, SupervisorAssumption DEF Patience

\* 2^n counts the subsets of a set of n elements.
LEMMA PowersAreNumbers == ASSUME NEW n \in Nat PROVE 2^n \in Nat
<1>1. IsFiniteSet(1..n) /\ Cardinality(1..n) = n
  BY FS_Interval
<1>2. IsFiniteSet(SUBSET (1..n)) /\ Cardinality(SUBSET (1..n)) = 2^n
  BY <1>1, FS_SUBSET
<1> QED
  BY <1>2, FS_CardinalityType

\* Every wait lies under the ceiling.
LEMMA BackoffIsBounded ==
    ASSUME NEW f \in 0..MaxFailures
    PROVE  /\ More(f) \in 0..MaxFailures
           /\ Backoff(More(f)) \subseteq 0..MaxBackoff
<1>1. More(f) \in 0..MaxFailures /\ More(f) \in Nat
  BY SupervisorAssumption DEF More
<1> DEFINE p == 2^More(f)
           ceiling == IF p < MaxBackoff THEN p ELSE MaxBackoff
<1>2. p \in Nat
  BY <1>1, PowersAreNumbers
<1> HIDE DEF p
<1>3. (ceiling + 1) \div 2 .. ceiling \subseteq 0..MaxBackoff
  BY <1>2, SupervisorAssumption
<1>4. Backoff(More(f)) = (ceiling + 1) \div 2 .. ceiling
  BY DEF Backoff, p
<1> QED
  BY <1>1, <1>3, <1>4
-----------------------------------------------------------------------------
LEMMA SupervisorBegins == Init => SupervisorInv
<1> SUFFICES ASSUME Init PROVE SupervisorInv
  OBVIOUS
<1>1. TypeOK
  BY SupervisorAssumption DEF Init, TypeOK, NewChild, States, Answers
<1>2. SingleCollector /\ PollsInTurn /\ BlockedSaysSo /\ PatienceIsSeen /\ SilenceIsMeasured
  BY DEF Init, SingleCollector, PollsInTurn, BlockedSaysSo, PatienceIsSeen, SilenceIsMeasured, NewChild
<1> QED
  BY <1>1, <1>2 DEF SupervisorInv

ChildStates == [failures : 0..MaxFailures, permanent : BOOLEAN, next : 0..MaxBackoff,
                deadline : Int, age : 0..StableAfter + 1]

\* What the statements of poll make of the record of a child.
LEMMA ChildIsTyped ==
    ASSUME TypeOK, NEW c \in Children
    PROVE  /\ child[c] \in ChildStates /\ NewChild \in ChildStates
           /\ \A wait \in Backoff(More(child[c].failures)), p \in BOOLEAN :
                /\ [child[c] EXCEPT !.failures = More(@), !.next = wait] \in ChildStates
                /\ [child[c] EXCEPT !.permanent = p, !.failures = More(@), !.next = wait]
                     \in ChildStates
           /\ [child[c] EXCEPT !.age = 0, !.deadline = StartupTimeout] \in ChildStates
           /\ \A f \in {0, child[c].failures} :
                [child[c] EXCEPT !.deadline = SilenceTimeout, !.failures = f] \in ChildStates
           /\ [child[c] EXCEPT !.deadline = SilenceTimeout] \in ChildStates
           /\ [child[c] EXCEPT !.next = IF @ > 0 THEN @ - 1 ELSE 0,
                               !.deadline = IF @ >= 0 THEN @ - 1 ELSE @,
                               !.age = IF @ <= StableAfter THEN @ + 1 ELSE @] \in ChildStates
<1> DEFINE F == 0..MaxFailures
           N == 0..MaxBackoff
           A == 0..StableAfter + 1
           next == IF child[c].next > 0 THEN child[c].next - 1 ELSE 0
           deadline == IF child[c].deadline >= 0 THEN child[c].deadline - 1
                       ELSE child[c].deadline
           age == IF child[c].age <= StableAfter THEN child[c].age + 1 ELSE child[c].age
<1>1. child[c] \in ChildStates
  BY DEF TypeOK, ChildStates
<1>2. /\ child[c].failures \in F /\ child[c].next \in N /\ child[c].age \in A
      /\ child[c].permanent \in BOOLEAN /\ child[c].deadline \in Int
  BY <1>1 DEF ChildStates
<1>3. NewChild \in ChildStates
  BY SupervisorAssumption DEF NewChild, ChildStates
<1>4. /\ More(child[c].failures) \in F
      /\ Backoff(More(child[c].failures)) \subseteq N
  BY <1>2, BackoffIsBounded
<1>5. 0 \in F /\ next \in N /\ deadline \in Int /\ age \in A /\ 0 \in A
      /\ StartupTimeout \in Int /\ SilenceTimeout \in Int
  BY <1>2, SupervisorAssumption
<1> ChildStates = [failures : F, permanent : BOOLEAN, next : N, deadline : Int, age : A]
  BY DEF ChildStates
<1> HIDE DEF F, N, A, next, deadline, age
<1>6. ASSUME NEW wait \in Backoff(More(child[c].failures)), NEW p \in BOOLEAN
      PROVE  /\ [child[c] EXCEPT !.failures = More(@), !.next = wait] \in ChildStates
             /\ [child[c] EXCEPT !.permanent = p, !.failures = More(@), !.next = wait]
                  \in ChildStates
  <2> DEFINE r == child[c]
             f == More(r.failures)
  <2>1. r \in ChildStates /\ f \in F /\ wait \in N
    BY <1>1, <1>4
  <2> HIDE DEF r, f
  <2>2. /\ [r EXCEPT !.failures = f, !.next = wait] \in ChildStates
        /\ [r EXCEPT !.permanent = p, !.failures = f, !.next = wait] \in ChildStates
    BY <2>1
  <2> QED
    BY <2>2 DEF r, f
<1>7. [child[c] EXCEPT !.age = 0, !.deadline = StartupTimeout] \in ChildStates
  BY <1>1, <1>2, <1>5
<1>8. /\ \A f \in {0, child[c].failures} :
           [child[c] EXCEPT !.deadline = SilenceTimeout, !.failures = f] \in ChildStates
      /\ [child[c] EXCEPT !.deadline = SilenceTimeout] \in ChildStates
  BY <1>1, <1>2, <1>5
<1>9. [child[c] EXCEPT !.next = next, !.deadline = deadline, !.age = age] \in ChildStates
  BY <1>1, <1>5
<1> QED
  BY <1>1, <1>3, <1>6, <1>7, <1>8, <1>9 DEF next, deadline, age

\* Every step keeps the types.
LEMMA TypesKept ==
    ASSUME TypeOK, [Next]_vars
    PROVE  TypeOK'
<1> USE SupervisorAssumption DEF Running, Ended, States, Answers
<1>0. child \in [Children -> ChildStates]
  BY DEF TypeOK, ChildStates
<1>1. ASSUME NEW c \in Children, Boot(c) PROVE TypeOK'
  BY <1>1 DEF Boot, SetState, TypeOK, pollVars, childVars, worldVars
<1>2. ASSUME NEW c \in Children, Beat(c) PROVE TypeOK'
  BY <1>2 DEF Beat, SetState, TypeOK, pollVars, childVars, worldVars
<1>3. ASSUME NEW c \in Children, BlockOnFull(c) PROVE TypeOK'
  BY <1>3 DEF BlockOnFull, SetState, TypeOK, pollVars, childVars, worldVars
<1>4. ASSUME NEW c \in Children, Hang(c) PROVE TypeOK'
  BY <1>4 DEF Hang, Fault, TypeOK, pollVars, childVars, worldVars
<1>5. ASSUME NEW c \in Children, Refuse(c) PROVE TypeOK'
  BY <1>5 DEF Refuse, SetState, Fault, TypeOK, pollVars, childVars, worldVars
<1>6. ASSUME NEW c \in Children, ReturnRefused(c) PROVE TypeOK'
  BY <1>6 DEF ReturnRefused, TypeOK, pollVars, childVars, worldVars
<1>7. ASSUME NEW c \in Children, Die(c) PROVE TypeOK'
  BY <1>7 DEF Die, Fault, TypeOK, pollVars, childVars, worldVars
<1>8. ASSUME NEW c \in Children, DieOfStorage(c) PROVE TypeOK'
  BY <1>8 DEF DieOfStorage, TypeOK, pollVars, childVars, worldVars
<1>9. ASSUME NEW c \in Children, Look(c) PROVE TypeOK'
  <2> DEFINE r == [child[c] EXCEPT !.deadline = SilenceTimeout,
                      !.failures = IF child[c].age > StableAfter THEN 0 ELSE child[c].failures]
  <2>1. child' = child \/ child' = [child EXCEPT ![c] = r]
    BY <1>9 DEF Look
  <2>2. r \in ChildStates
    BY ChildIsTyped
  <2> HIDE DEF r
  <2>3. child' \in [Children -> ChildStates]
    BY <1>0, <2>1, <2>2
  <2> QED
    BY <1>9, <2>3 DEF Look, Polling, TypeOK, ChildStates, pollVars, childVars, worldVars
<1>10. ASSUME NEW c \in Children, LetRun(c) PROVE TypeOK'
  BY <1>10 DEF LetRun, Polled, TypeOK, pollVars, childVars, worldVars
<1>11. ASSUME NEW c \in Children, KillSilent(c) PROVE TypeOK'
  BY <1>11 DEF KillSilent, IsOverdue, Polled, SetState, TypeOK, pollVars, childVars, worldVars
<1>12. ASSUME NEW c \in Children, Reap(c) PROVE TypeOK'
  <2>1. PICK wait \in Backoff(More(child[c].failures)), p \in BOOLEAN :
          child' = [child EXCEPT ![c] = [@ EXCEPT !.permanent = p,
                                           !.failures = More(child[c].failures), !.next = wait]]
    <3>1. (proc[c] = "refused") \in BOOLEAN
      OBVIOUS
    <3> QED
      BY <1>12, <3>1, Zenon DEF Reap
  <2> DEFINE r == [child[c] EXCEPT !.permanent = p, !.failures = More(@), !.next = wait]
  <2>2. r \in ChildStates
    BY <2>1, ChildIsTyped
  <2>3. child' = [child EXCEPT ![c] = r]
    BY <2>1
  <2> HIDE DEF r
  <2>4. child' \in [Children -> ChildStates]
    BY <1>0, <2>2, <2>3
  <2>5. state' \in [Workers -> States]
    BY <1>12 DEF Reap, SetState, TypeOK
  <2> QED
    BY <1>12, <2>4, <2>5 DEF Reap, Polled, TypeOK, ChildStates, pollVars, childVars, worldVars, IsGone
<1>13. ASSUME NEW c \in Children, StartChild(c) PROVE TypeOK'
  <2>1. child' \in [Children -> ChildStates]
    BY <1>13, ChildIsTyped DEF StartChild, TypeOK, ChildStates
  <2> QED
    BY <1>13, <2>1 DEF StartChild, Polled, TypeOK, ChildStates, pollVars, childVars, worldVars
<1>14. ASSUME NEW c \in Children, StartFails(c) PROVE TypeOK'
  <2>1. PICK wait \in Backoff(More(child[c].failures)) :
          child' = [child EXCEPT ![c] = [@ EXCEPT !.failures = More(child[c].failures), !.next = wait]]
    BY <1>14, Zenon DEF StartFails
  <2> DEFINE r == [child[c] EXCEPT !.failures = More(@), !.next = wait]
  <2>2. r \in ChildStates
    BY <2>1, ChildIsTyped
  <2>3. child' = [child EXCEPT ![c] = r]
    BY <2>1
  <2> HIDE DEF r
  <2>4. child' \in [Children -> ChildStates]
    BY <1>0, <2>2, <2>3
  <2> QED
    BY <1>14, <2>4
    DEF StartFails, Polled, Fault, TypeOK, ChildStates, pollVars, childVars, worldVars
<1>15. ASSUME NEW c \in Children, PollIdle(c) PROVE TypeOK'
  BY <1>15 DEF PollIdle, Polling, Polled, Startable, TypeOK, pollVars, childVars, worldVars
<1>16. ASSUME NEW c \in Children, StorageEndsSupervisor(c) PROVE TypeOK'
  <2>1. UNCHANGED <<polled, child, state, worldVars, faults>> /\ supervisor' = "stopping" /\ looked' = {}
        /\ answer' = "unasked"
    BY <1>16 DEF StorageEndsSupervisor
  <2>2. proc' \in [Children -> {"none"} \cup Running \cup Ended]
    BY <1>16 DEF StorageEndsSupervisor, Startable, IsGone, TypeOK
  <2>3. quiet' \in [Children -> Nat]
    BY <1>16 DEF StorageEndsSupervisor, Startable, IsGone, TypeOK
  <2>4. fresh' \in [Children -> BOOLEAN]
    BY <1>16 DEF StorageEndsSupervisor, Startable, IsGone, TypeOK
  <2>5. patient' \in SUBSET Workers
    BY <1>16 DEF StorageEndsSupervisor, IsGone, TypeOK
  <2> QED
    BY <2>1, <2>2, <2>3, <2>4, <2>5 DEF TypeOK, pollVars, childVars, worldVars
<1>17. ASSUME NEW c \in Children, OrphanBeats(c) PROVE TypeOK'
  BY <1>17 DEF OrphanBeats, SetState, TypeOK, pollVars, childVars, worldVars
<1>18. ASSUME NEW c \in Children, OrphanEnds(c) PROVE TypeOK'
  BY <1>18 DEF OrphanEnds, TypeOK, pollVars, childVars, worldVars
<1>19. ASSUME NEW c \in Children, Obeys(c) PROVE TypeOK'
  BY <1>19 DEF Obeys, TypeOK, pollVars, childVars, worldVars
<1>20. CASE EndRound
  <2>1. child' \in [Children -> ChildStates]
    BY <1>20, ChildIsTyped DEF EndRound
  <2>2. quiet' \in [Children -> Nat]
    <3>1. \A c \in Children : quiet[c] \in Nat
      BY DEF TypeOK
    <3>2. quiet' = [c \in Children |-> IF proc[c] # "none" /\ quiet[c] <= StableAfter
                                      THEN quiet[c] + 1 ELSE quiet[c]]
      BY <1>20 DEF EndRound
    <3> QED
      BY <3>1, <3>2
  <2> QED
    BY <1>20, <2>1, <2>2 DEF EndRound, TypeOK, ChildStates, pollVars, childVars, worldVars
<1>21. CASE SupervisorStarts
  <2>1. child' \in [Children -> ChildStates]
    BY <1>21, ChildIsTyped DEF SupervisorStarts
  <2> QED
    BY <1>21, <2>1 DEF SupervisorStarts, TypeOK, ChildStates, pollVars, childVars, worldVars
<1>22. CASE StopRequested
  BY <1>22 DEF StopRequested, TypeOK, pollVars, childVars, worldVars
<1>23. CASE SupervisorEnds
  BY <1>23 DEF SupervisorEnds, TypeOK, pollVars, childVars, worldVars
<1>24. CASE SupervisorKilled
  BY <1>24 DEF SupervisorKilled, Fault, TypeOK, pollVars, childVars, worldVars
<1>25. ASSUME NEW w \in Workers, RoomChanges(w) PROVE TypeOK'
  BY <1>25 DEF RoomChanges, TypeOK, pollVars, childVars, worldVars
<1>26. ASSUME NEW w \in Workers, StorageFails(w) PROVE TypeOK'
  BY <1>26 DEF StorageFails, Fault, TypeOK, pollVars, childVars, worldVars
<1>27. ASSUME NEW w \in Workers, StorageHeals(w) PROVE TypeOK'
  BY <1>27 DEF StorageHeals, TypeOK, pollVars, childVars, worldVars
<1>28. CASE UNCHANGED vars
  BY <1>28 DEF TypeOK, pollVars, childVars, worldVars, vars
<1>29. ASSUME NEW c \in Children, AsksState(c) PROVE TypeOK'
  BY <1>29 DEF AsksState, TypeOK, pollVars, childVars, worldVars
<1>30. ASSUME NEW c \in Children, AsksRoom(c) PROVE TypeOK'
  <2> DEFINE r == [child[c] EXCEPT !.deadline = SilenceTimeout]
  <2>1. child' = child \/ child' = [child EXCEPT ![c] = r]
    BY <1>30 DEF AsksRoom
  <2>2. r \in ChildStates
    BY ChildIsTyped
  <2> HIDE DEF r
  <2>3. child' \in [Children -> ChildStates]
    BY <1>0, <2>1, <2>2
  <2> QED
    BY <1>30, <2>3 DEF AsksRoom, TypeOK, ChildStates, pollVars, childVars, worldVars
<1>31. ASSUME NEW c \in Children, ChildStopped(c) PROVE TypeOK'
  BY <1>31 DEF ChildStopped, WaitingFor, IsGone, TypeOK, pollVars, childVars, worldVars
<1>32. ASSUME NEW c \in Children, ChildTimesOut(c) PROVE TypeOK'
  BY <1>32 DEF ChildTimesOut, WaitingFor, IsGone, TypeOK, pollVars, childVars, worldVars
<1>33. CASE AsksAllToStop
  BY <1>33 DEF AsksAllToStop, TypeOK, pollVars, childVars, worldVars
<1> QED
  BY <1>1, <1>2, <1>3, <1>4, <1>5, <1>6, <1>7, <1>8, <1>9, <1>10, <1>11, <1>12, <1>13, <1>14, <1>15, <1>16, <1>17, <1>18, <1>19, <1>20, <1>21, <1>22, <1>23, <1>24, <1>25, <1>26, <1>27, <1>28, <1>29, <1>30, <1>31, <1>32, <1>33
  DEF Next, Poll, ChildStep, Shutdown

\* Neither a boot nor the end of a supervisor gives a child two processes.
LEMMA OneProcessKept ==
    ASSUME TypeOK, SingleCollector, [Next]_vars
    PROVE  SingleCollector'
<1> USE DEF SingleCollector, TypeOK, Running, Ended, Collecting, pollVars, childVars, worldVars
<1>1. ASSUME NEW c \in Children, Boot(c) PROVE SingleCollector'
  BY <1>1 DEF Boot, SetState
<1>2. ASSUME NEW c \in Children, Beat(c) PROVE SingleCollector'
  BY <1>2 DEF Beat, SetState
<1>3. ASSUME NEW c \in Children, BlockOnFull(c) PROVE SingleCollector'
  BY <1>3 DEF BlockOnFull, SetState
<1>4. ASSUME NEW c \in Children, Hang(c) PROVE SingleCollector'
  BY <1>4 DEF Hang, Fault
<1>5. ASSUME NEW c \in Children, Refuse(c) PROVE SingleCollector'
  BY <1>5 DEF Refuse, SetState, Fault
<1>6. ASSUME NEW c \in Children, ReturnRefused(c) PROVE SingleCollector'
  BY <1>6 DEF ReturnRefused
<1>7. ASSUME NEW c \in Children, Die(c) PROVE SingleCollector'
  BY <1>7 DEF Die, Fault
<1>8. ASSUME NEW c \in Children, DieOfStorage(c) PROVE SingleCollector'
  BY <1>8 DEF DieOfStorage
<1>9. ASSUME NEW c \in Children, Look(c) PROVE SingleCollector'
  BY <1>9 DEF Look, Polling
<1>10. ASSUME NEW c \in Children, LetRun(c) PROVE SingleCollector'
  BY <1>10 DEF LetRun, Polled
<1>11. ASSUME NEW c \in Children, KillSilent(c) PROVE SingleCollector'
  BY <1>11 DEF KillSilent, IsOverdue, Polled, SetState
<1>12. ASSUME NEW c \in Children, Reap(c) PROVE SingleCollector'
  BY <1>12 DEF Reap, Polling, Polled, SetState, IsGone
<1>13. ASSUME NEW c \in Children, StartChild(c) PROVE SingleCollector'
  BY <1>13 DEF StartChild, Polling, Polled, Startable
<1>14. ASSUME NEW c \in Children, StartFails(c) PROVE SingleCollector'
  BY <1>14 DEF StartFails, Polling, Polled, Startable, Fault
<1>15. ASSUME NEW c \in Children, PollIdle(c) PROVE SingleCollector'
  BY <1>15 DEF PollIdle, Polling, Polled, Startable
<1>16. ASSUME NEW c \in Children, StorageEndsSupervisor(c) PROVE SingleCollector'
  BY <1>16 DEF StorageEndsSupervisor, IsOverdue, Polling, Startable, IsGone
<1>17. ASSUME NEW c \in Children, OrphanBeats(c) PROVE SingleCollector'
  BY <1>17 DEF OrphanBeats, SetState
<1>18. ASSUME NEW c \in Children, OrphanEnds(c) PROVE SingleCollector'
  BY <1>18 DEF OrphanEnds
<1>19. ASSUME NEW c \in Children, Obeys(c) PROVE SingleCollector'
  BY <1>19 DEF Obeys
<1>20. CASE EndRound
  BY <1>20 DEF EndRound
<1>21. CASE SupervisorStarts
  BY <1>21 DEF SupervisorStarts
<1>22. CASE StopRequested
  BY <1>22 DEF StopRequested
<1>23. CASE SupervisorEnds
  BY <1>23 DEF SupervisorEnds
<1>24. CASE SupervisorKilled
  BY <1>24 DEF SupervisorKilled, Fault
<1>25. ASSUME NEW w \in Workers, RoomChanges(w) PROVE SingleCollector'
  BY <1>25 DEF RoomChanges
<1>26. ASSUME NEW w \in Workers, StorageFails(w) PROVE SingleCollector'
  BY <1>26 DEF StorageFails, Fault
<1>27. ASSUME NEW w \in Workers, StorageHeals(w) PROVE SingleCollector'
  BY <1>27 DEF StorageHeals
<1>28. CASE UNCHANGED vars
  BY <1>28 DEF vars
<1>29. ASSUME NEW c \in Children, AsksState(c) PROVE SingleCollector'
  BY <1>29 DEF AsksState
<1>30. ASSUME NEW c \in Children, AsksRoom(c) PROVE SingleCollector'
  BY <1>30 DEF AsksRoom
<1>31. ASSUME NEW c \in Children, ChildStopped(c) PROVE SingleCollector'
  BY <1>31 DEF ChildStopped, WaitingFor, IsGone
<1>32. ASSUME NEW c \in Children, ChildTimesOut(c) PROVE SingleCollector'
  BY <1>32 DEF ChildTimesOut, WaitingFor, IsGone
<1>33. CASE AsksAllToStop
  BY <1>33 DEF AsksAllToStop
<1> QED
  BY <1>1, <1>2, <1>3, <1>4, <1>5, <1>6, <1>7, <1>8, <1>9, <1>10, <1>11, <1>12, <1>13, <1>14, <1>15, <1>16, <1>17, <1>18, <1>19, <1>20, <1>21, <1>22, <1>23, <1>24, <1>25, <1>26, <1>27, <1>28, <1>29, <1>30, <1>31, <1>32, <1>33
  DEF Next, Poll, ChildStep, Shutdown

\* Every step keeps the turns of the supervisor.
LEMMA TurnsKept ==
    ASSUME TypeOK, PollsInTurn, [Next]_vars
    PROVE  PollsInTurn'
<1> USE DEF PollsInTurn, TypeOK, pollVars, childVars, worldVars
<1>1. ASSUME NEW c \in Children, Boot(c) PROVE PollsInTurn'
  BY <1>1 DEF Boot, SetState
<1>2. ASSUME NEW c \in Children, Beat(c) PROVE PollsInTurn'
  BY <1>2 DEF Beat, SetState
<1>3. ASSUME NEW c \in Children, BlockOnFull(c) PROVE PollsInTurn'
  BY <1>3 DEF BlockOnFull, SetState
<1>4. ASSUME NEW c \in Children, Hang(c) PROVE PollsInTurn'
  BY <1>4 DEF Hang, Fault
<1>5. ASSUME NEW c \in Children, Refuse(c) PROVE PollsInTurn'
  BY <1>5 DEF Refuse, SetState, Fault
<1>6. ASSUME NEW c \in Children, ReturnRefused(c) PROVE PollsInTurn'
  BY <1>6 DEF ReturnRefused
<1>7. ASSUME NEW c \in Children, Die(c) PROVE PollsInTurn'
  BY <1>7 DEF Die, Fault
<1>8. ASSUME NEW c \in Children, DieOfStorage(c) PROVE PollsInTurn'
  BY <1>8 DEF DieOfStorage
<1>9. ASSUME NEW c \in Children, Look(c) PROVE PollsInTurn'
  BY <1>9 DEF Look, Polling
<1>10. ASSUME NEW c \in Children, LetRun(c) PROVE PollsInTurn'
  BY <1>10 DEF LetRun, Polled
<1>11. ASSUME NEW c \in Children, KillSilent(c) PROVE PollsInTurn'
  BY <1>11 DEF KillSilent, IsOverdue, Polled, SetState
<1>12. ASSUME NEW c \in Children, Reap(c) PROVE PollsInTurn'
  BY <1>12 DEF Reap, Polling, Polled, SetState, IsGone
<1>13. ASSUME NEW c \in Children, StartChild(c) PROVE PollsInTurn'
  BY <1>13 DEF StartChild, Polling, Polled, Startable
<1>14. ASSUME NEW c \in Children, StartFails(c) PROVE PollsInTurn'
  BY <1>14 DEF StartFails, Polling, Polled, Startable, Fault
<1>15. ASSUME NEW c \in Children, PollIdle(c) PROVE PollsInTurn'
  BY <1>15 DEF PollIdle, Polling, Polled, Startable
<1>16. ASSUME NEW c \in Children, StorageEndsSupervisor(c) PROVE PollsInTurn'
  BY <1>16 DEF StorageEndsSupervisor, IsOverdue, Polling, Startable, IsGone
<1>17. ASSUME NEW c \in Children, OrphanBeats(c) PROVE PollsInTurn'
  BY <1>17 DEF OrphanBeats, SetState
<1>18. ASSUME NEW c \in Children, OrphanEnds(c) PROVE PollsInTurn'
  BY <1>18 DEF OrphanEnds
<1>19. ASSUME NEW c \in Children, Obeys(c) PROVE PollsInTurn'
  BY <1>19 DEF Obeys, Running
<1>20. CASE EndRound
  BY <1>20 DEF EndRound
<1>21. CASE SupervisorStarts
  BY <1>21 DEF SupervisorStarts
<1>22. CASE StopRequested
  BY <1>22 DEF StopRequested
<1>23. CASE SupervisorEnds
  BY <1>23 DEF SupervisorEnds
<1>24. CASE SupervisorKilled
  BY <1>24 DEF SupervisorKilled, Fault
<1>25. ASSUME NEW w \in Workers, RoomChanges(w) PROVE PollsInTurn'
  BY <1>25 DEF RoomChanges
<1>26. ASSUME NEW w \in Workers, StorageFails(w) PROVE PollsInTurn'
  BY <1>26 DEF StorageFails, Fault
<1>27. ASSUME NEW w \in Workers, StorageHeals(w) PROVE PollsInTurn'
  BY <1>27 DEF StorageHeals
<1>28. CASE UNCHANGED vars
  BY <1>28 DEF vars
<1>29. ASSUME NEW c \in Children, AsksState(c) PROVE PollsInTurn'
  BY <1>29 DEF AsksState
<1>30. ASSUME NEW c \in Children, AsksRoom(c) PROVE PollsInTurn'
  BY <1>30 DEF AsksRoom
<1>31. ASSUME NEW c \in Children, ChildStopped(c) PROVE PollsInTurn'
  BY <1>31 DEF ChildStopped, WaitingFor, IsGone
<1>32. ASSUME NEW c \in Children, ChildTimesOut(c) PROVE PollsInTurn'
  BY <1>32 DEF ChildTimesOut, WaitingFor, IsGone
<1>33. CASE AsksAllToStop
  BY <1>33 DEF AsksAllToStop
<1> QED
  BY <1>1, <1>2, <1>3, <1>4, <1>5, <1>6, <1>7, <1>8, <1>9, <1>10, <1>11, <1>12, <1>13, <1>14, <1>15, <1>16, <1>17, <1>18, <1>19, <1>20, <1>21, <1>22, <1>23, <1>24, <1>25, <1>26, <1>27, <1>28, <1>29, <1>30, <1>31, <1>32, <1>33
  DEF Next, Poll, ChildStep, Shutdown

\* Nothing but the worker itself ends its wait for room.
LEMMA BlockedKept ==
    ASSUME TypeOK, SingleCollector, PollsInTurn, BlockedSaysSo, [Next]_vars
    PROVE  BlockedSaysSo'
<1> USE DEF SingleCollector, PollsInTurn, BlockedSaysSo, TypeOK, Ended, Collecting, pollVars, childVars, worldVars
<1>1. ASSUME NEW c \in Children, Boot(c) PROVE BlockedSaysSo'
  BY <1>1 DEF Boot, SetState
<1>2. ASSUME NEW c \in Children, Beat(c) PROVE BlockedSaysSo'
  BY <1>2 DEF Beat, SetState
<1>3. ASSUME NEW c \in Children, BlockOnFull(c) PROVE BlockedSaysSo'
  BY <1>3 DEF BlockOnFull, SetState
<1>4. ASSUME NEW c \in Children, Hang(c) PROVE BlockedSaysSo'
  BY <1>4 DEF Hang, Fault
<1>5. ASSUME NEW c \in Children, Refuse(c) PROVE BlockedSaysSo'
  BY <1>5 DEF Refuse, SetState, Fault
<1>6. ASSUME NEW c \in Children, ReturnRefused(c) PROVE BlockedSaysSo'
  BY <1>6 DEF ReturnRefused
<1>7. ASSUME NEW c \in Children, Die(c) PROVE BlockedSaysSo'
  BY <1>7 DEF Die, Fault
<1>8. ASSUME NEW c \in Children, DieOfStorage(c) PROVE BlockedSaysSo'
  BY <1>8 DEF DieOfStorage
<1>9. ASSUME NEW c \in Children, Look(c) PROVE BlockedSaysSo'
  BY <1>9 DEF Look, Polling
<1>10. ASSUME NEW c \in Children, LetRun(c) PROVE BlockedSaysSo'
  BY <1>10 DEF LetRun, Polled
<1>11. ASSUME NEW c \in Children, KillSilent(c) PROVE BlockedSaysSo'
  BY <1>11 DEF KillSilent, IsOverdue, Polled, SetState
<1>12. ASSUME NEW c \in Children, Reap(c) PROVE BlockedSaysSo'
  BY <1>12 DEF Reap, Polling, Polled, SetState, IsGone
<1>13. ASSUME NEW c \in Children, StartChild(c) PROVE BlockedSaysSo'
  BY <1>13 DEF StartChild, Polling, Polled, Startable
<1>14. ASSUME NEW c \in Children, StartFails(c) PROVE BlockedSaysSo'
  BY <1>14 DEF StartFails, Polling, Polled, Startable, Fault
<1>15. ASSUME NEW c \in Children, PollIdle(c) PROVE BlockedSaysSo'
  BY <1>15 DEF PollIdle, Polling, Polled, Startable
<1>16. ASSUME NEW c \in Children, StorageEndsSupervisor(c) PROVE BlockedSaysSo'
  BY <1>16 DEF StorageEndsSupervisor, IsOverdue, Polling, Startable, IsGone
<1>17. ASSUME NEW c \in Children, OrphanBeats(c) PROVE BlockedSaysSo'
  BY <1>17 DEF OrphanBeats, SetState
<1>18. ASSUME NEW c \in Children, OrphanEnds(c) PROVE BlockedSaysSo'
  BY <1>18 DEF OrphanEnds
<1>19. ASSUME NEW c \in Children, Obeys(c) PROVE BlockedSaysSo'
  BY <1>19 DEF Obeys
<1>20. CASE EndRound
  BY <1>20 DEF EndRound
<1>21. CASE SupervisorStarts
  BY <1>21 DEF SupervisorStarts
<1>22. CASE StopRequested
  BY <1>22 DEF StopRequested
<1>23. CASE SupervisorEnds
  BY <1>23 DEF SupervisorEnds
<1>24. CASE SupervisorKilled
  BY <1>24 DEF SupervisorKilled, Fault
<1>25. ASSUME NEW w \in Workers, RoomChanges(w) PROVE BlockedSaysSo'
  BY <1>25 DEF RoomChanges
<1>26. ASSUME NEW w \in Workers, StorageFails(w) PROVE BlockedSaysSo'
  BY <1>26 DEF StorageFails, Fault
<1>27. ASSUME NEW w \in Workers, StorageHeals(w) PROVE BlockedSaysSo'
  BY <1>27 DEF StorageHeals
<1>28. CASE UNCHANGED vars
  BY <1>28 DEF vars
<1>29. ASSUME NEW c \in Children, AsksState(c) PROVE BlockedSaysSo'
  BY <1>29 DEF AsksState
<1>30. ASSUME NEW c \in Children, AsksRoom(c) PROVE BlockedSaysSo'
  BY <1>30 DEF AsksRoom
<1>31. ASSUME NEW c \in Children, ChildStopped(c) PROVE BlockedSaysSo'
  BY <1>31 DEF ChildStopped, WaitingFor, IsGone
<1>32. ASSUME NEW c \in Children, ChildTimesOut(c) PROVE BlockedSaysSo'
  BY <1>32 DEF ChildTimesOut, WaitingFor, IsGone
<1>33. CASE AsksAllToStop
  BY <1>33 DEF AsksAllToStop
<1> QED
  BY <1>1, <1>2, <1>3, <1>4, <1>5, <1>6, <1>7, <1>8, <1>9, <1>10, <1>11, <1>12, <1>13, <1>14, <1>15, <1>16, <1>17, <1>18, <1>19, <1>20, <1>21, <1>22, <1>23, <1>24, <1>25, <1>26, <1>27, <1>28, <1>29, <1>30, <1>31, <1>32, <1>33
  DEF Next, Poll, ChildStep, Shutdown

\* Whether a worker that waits for room speaks or hears, the supervisor learns of it.
LEMMA PatienceKept ==
    ASSUME TypeOK, PollsInTurn, BlockedSaysSo, PatienceIsSeen, [Next]_vars
    PROVE  PatienceIsSeen'
<1> USE SupervisorAssumption DEF PollsInTurn, PatienceIsSeen, TypeOK, Running, Ended, pollVars, childVars, worldVars
<1>1. ASSUME NEW c \in Children, Boot(c) PROVE PatienceIsSeen'
  <2>1. UNCHANGED <<looked, answer, child, patient, full>> /\ \A d \in Children \ {c} : proc'[d] = proc[d]
    BY <1>1 DEF Boot
  <2>2. c \notin patient
    BY <1>1 DEF Boot
  <2> QED
    BY <2>1, <2>2 DEF Children
<1>2. ASSUME NEW c \in Children, Beat(c) PROVE PatienceIsSeen'
  BY <1>2 DEF Beat, SetState
<1>3. ASSUME NEW c \in Children, BlockOnFull(c) PROVE PatienceIsSeen'
  BY <1>3 DEF BlockOnFull, SetState
<1>4. ASSUME NEW c \in Children, Hang(c) PROVE PatienceIsSeen'
  BY <1>4 DEF Hang, Fault
<1>5. ASSUME NEW c \in Children, Refuse(c) PROVE PatienceIsSeen'
  BY <1>5 DEF Refuse, SetState, Fault
<1>6. ASSUME NEW c \in Children, ReturnRefused(c) PROVE PatienceIsSeen'
  BY <1>6 DEF ReturnRefused
<1>7. ASSUME NEW c \in Children, Die(c) PROVE PatienceIsSeen'
  BY <1>7 DEF Die, Fault
<1>8. ASSUME NEW c \in Children, DieOfStorage(c) PROVE PatienceIsSeen'
  BY <1>8 DEF DieOfStorage
<1>9. ASSUME NEW c \in Children, Look(c) PROVE PatienceIsSeen'
  BY <1>9 DEF Look, Polling
<1>10. ASSUME NEW c \in Children, LetRun(c) PROVE PatienceIsSeen'
  BY <1>10 DEF LetRun, Polled
<1>11. ASSUME NEW c \in Children, KillSilent(c) PROVE PatienceIsSeen'
  BY <1>11 DEF KillSilent, IsOverdue, Polled, SetState
<1>12. ASSUME NEW c \in Children, Reap(c) PROVE PatienceIsSeen'
  BY <1>12 DEF Reap, Polling, Polled, SetState, IsGone
<1>13. ASSUME NEW c \in Children, StartChild(c) PROVE PatienceIsSeen'
  BY <1>13 DEF StartChild, Polling, Polled, Startable
<1>14. ASSUME NEW c \in Children, StartFails(c) PROVE PatienceIsSeen'
  BY <1>14 DEF StartFails, Polling, Polled, Startable, Fault
<1>15. ASSUME NEW c \in Children, PollIdle(c) PROVE PatienceIsSeen'
  BY <1>15 DEF PollIdle, Polling, Polled, Startable
<1>16. ASSUME NEW c \in Children, StorageEndsSupervisor(c) PROVE PatienceIsSeen'
  <2>1. looked' = {} /\ answer' = "unasked" /\ UNCHANGED <<child, full>>
    BY <1>16 DEF StorageEndsSupervisor
  <2>2. \A d \in Children \ {c} : proc'[d] = proc[d]
    BY <1>16 DEF StorageEndsSupervisor, IsGone
  <2>3. patient' \subseteq patient /\ c \notin patient'
    <3>1. CASE proc[c] = "none"
      BY <1>16, <3>1 DEF StorageEndsSupervisor, IsGone, Startable
    <3>2. CASE proc[c] # "none"
      BY <1>16, <3>2 DEF StorageEndsSupervisor, IsGone, Startable
    <3> QED
      BY <3>1, <3>2
  <2> QED
    BY <2>1, <2>2, <2>3 DEF Children
<1>17. ASSUME NEW c \in Children, OrphanBeats(c) PROVE PatienceIsSeen'
  BY <1>17 DEF OrphanBeats, SetState
<1>18. ASSUME NEW c \in Children, OrphanEnds(c) PROVE PatienceIsSeen'
  BY <1>18 DEF OrphanEnds
<1>19. ASSUME NEW c \in Children, Obeys(c) PROVE PatienceIsSeen'
  BY <1>19 DEF Obeys
<1>20. CASE EndRound
  BY <1>20 DEF EndRound
<1>21. CASE SupervisorStarts
  BY <1>21 DEF SupervisorStarts
<1>22. CASE StopRequested
  BY <1>22 DEF StopRequested
<1>23. CASE SupervisorEnds
  BY <1>23 DEF SupervisorEnds
<1>24. CASE SupervisorKilled
  BY <1>24 DEF SupervisorKilled, Fault
<1>25. ASSUME NEW w \in Workers, RoomChanges(w) PROVE PatienceIsSeen'
  BY <1>25 DEF RoomChanges
<1>26. ASSUME NEW w \in Workers, StorageFails(w) PROVE PatienceIsSeen'
  BY <1>26 DEF StorageFails, Fault
<1>27. ASSUME NEW w \in Workers, StorageHeals(w) PROVE PatienceIsSeen'
  BY <1>27 DEF StorageHeals
<1>28. CASE UNCHANGED vars
  BY <1>28 DEF vars
<1>29. ASSUME NEW c \in Children, AsksState(c) PROVE PatienceIsSeen'
  BY <1>29 DEF AsksState, BlockedSaysSo
<1>30. ASSUME NEW c \in Children, AsksRoom(c) PROVE PatienceIsSeen'
  BY <1>30 DEF AsksRoom
<1>31. ASSUME NEW c \in Children, ChildStopped(c) PROVE PatienceIsSeen'
  BY <1>31 DEF ChildStopped, WaitingFor, IsGone
<1>32. ASSUME NEW c \in Children, ChildTimesOut(c) PROVE PatienceIsSeen'
  BY <1>32 DEF ChildTimesOut, WaitingFor, IsGone
<1>33. CASE AsksAllToStop
  BY <1>33 DEF AsksAllToStop
<1> QED
  BY <1>1, <1>2, <1>3, <1>4, <1>5, <1>6, <1>7, <1>8, <1>9, <1>10, <1>11, <1>12, <1>13, <1>14, <1>15, <1>16, <1>17, <1>18, <1>19, <1>20, <1>21, <1>22, <1>23, <1>24, <1>25, <1>26, <1>27, <1>28, <1>29, <1>30, <1>31, <1>32, <1>33
  DEF Next, Poll, ChildStep, Shutdown

\* Silence is measured from the last heartbeat the supervisor has seen, or the start.
LEMMA SilenceKept ==
    ASSUME TypeOK, PollsInTurn, SilenceIsMeasured, [Next]_vars
    PROVE  SilenceIsMeasured'
<1> USE PatienceIsShort, SupervisorAssumption DEF SilenceIsMeasured, PollsInTurn, TypeOK, Running, Ended, NewChild, pollVars, childVars, worldVars
<1>1. ASSUME NEW c \in Children, Boot(c) PROVE SilenceIsMeasured'
  BY <1>1 DEF Boot, SetState
<1>2. ASSUME NEW c \in Children, Beat(c) PROVE SilenceIsMeasured'
  BY <1>2 DEF Beat, SetState
<1>3. ASSUME NEW c \in Children, BlockOnFull(c) PROVE SilenceIsMeasured'
  BY <1>3 DEF BlockOnFull, SetState
<1>4. ASSUME NEW c \in Children, Hang(c) PROVE SilenceIsMeasured'
  BY <1>4 DEF Hang, Fault
<1>5. ASSUME NEW c \in Children, Refuse(c) PROVE SilenceIsMeasured'
  BY <1>5 DEF Refuse, SetState, Fault
<1>6. ASSUME NEW c \in Children, ReturnRefused(c) PROVE SilenceIsMeasured'
  BY <1>6 DEF ReturnRefused
<1>7. ASSUME NEW c \in Children, Die(c) PROVE SilenceIsMeasured'
  BY <1>7 DEF Die, Fault
<1>8. ASSUME NEW c \in Children, DieOfStorage(c) PROVE SilenceIsMeasured'
  BY <1>8 DEF DieOfStorage
<1>9. ASSUME NEW c \in Children, Look(c) PROVE SilenceIsMeasured'
  <2> DEFINE r == [child[c] EXCEPT !.deadline = SilenceTimeout,
                      !.failures = IF child[c].age > StableAfter THEN 0 ELSE child[c].failures]
  <2>1. IF fresh[c] THEN child' = [child EXCEPT ![c] = r] ELSE child' = child
    BY <1>9 DEF Look
  <2>2. r.deadline = SilenceTimeout
    OBVIOUS
  <2> HIDE DEF r
  <2>3. fresh' = [fresh EXCEPT ![c] = FALSE] /\ UNCHANGED <<supervisor, proc, quiet>>
    BY <1>9 DEF Look
  <2>4. ASSUME NEW d \in Children, d # c
        PROVE  child'[d] = child[d] /\ fresh'[d] = fresh[d]
    BY <2>1, <2>3, <2>4
  <2>5. child'[c].deadline >= -1
    BY <2>1, <2>2
  <2>6. supervisor = "up" /\ proc[c] \in Running => quiet[c] + child'[c].deadline >= Patience
    BY <2>1, <2>2
  <2> QED
    BY <2>3, <2>4, <2>5, <2>6
<1>10. ASSUME NEW c \in Children, LetRun(c) PROVE SilenceIsMeasured'
  BY <1>10 DEF LetRun, Polled
<1>11. ASSUME NEW c \in Children, KillSilent(c) PROVE SilenceIsMeasured'
  BY <1>11 DEF KillSilent, IsOverdue, Polled, SetState
<1>12. ASSUME NEW c \in Children, Reap(c) PROVE SilenceIsMeasured'
  BY <1>12 DEF Reap, Polling, Polled, SetState, IsGone
<1>13. ASSUME NEW c \in Children, StartChild(c) PROVE SilenceIsMeasured'
  BY <1>13 DEF StartChild, Polling, Polled, Startable
<1>14. ASSUME NEW c \in Children, StartFails(c) PROVE SilenceIsMeasured'
  BY <1>14 DEF StartFails, Polling, Polled, Startable, Fault
<1>15. ASSUME NEW c \in Children, PollIdle(c) PROVE SilenceIsMeasured'
  BY <1>15 DEF PollIdle, Polling, Polled, Startable
<1>16. ASSUME NEW c \in Children, StorageEndsSupervisor(c) PROVE SilenceIsMeasured'
  BY <1>16 DEF StorageEndsSupervisor, IsOverdue, Polling, Startable, IsGone
<1>17. ASSUME NEW c \in Children, OrphanBeats(c) PROVE SilenceIsMeasured'
  BY <1>17 DEF OrphanBeats, SetState
<1>18. ASSUME NEW c \in Children, OrphanEnds(c) PROVE SilenceIsMeasured'
  BY <1>18 DEF OrphanEnds
<1>19. ASSUME NEW c \in Children, Obeys(c) PROVE SilenceIsMeasured'
  BY <1>19 DEF Obeys
<1>20. CASE EndRound
  <2>1. ASSUME NEW d \in Children
        PROVE  /\ child'[d].deadline =
                     IF child[d].deadline >= 0 THEN child[d].deadline - 1 ELSE child[d].deadline
               /\ proc[d] # "none" => quiet'[d] = IF quiet[d] <= StableAfter THEN quiet[d] + 1 ELSE quiet[d]
               /\ child[d].deadline \in Int /\ quiet[d] \in Nat
    BY <1>20, ZenonT(30) DEF EndRound
  <2>2. UNCHANGED <<supervisor, proc, fresh>>
    BY <1>20 DEF EndRound
  <2> QED
    BY <2>1, <2>2
<1>21. CASE SupervisorStarts
  BY <1>21 DEF SupervisorStarts
<1>22. CASE StopRequested
  BY <1>22 DEF StopRequested
<1>23. CASE SupervisorEnds
  BY <1>23 DEF SupervisorEnds
<1>24. CASE SupervisorKilled
  BY <1>24 DEF SupervisorKilled, Fault
<1>25. ASSUME NEW w \in Workers, RoomChanges(w) PROVE SilenceIsMeasured'
  BY <1>25 DEF RoomChanges
<1>26. ASSUME NEW w \in Workers, StorageFails(w) PROVE SilenceIsMeasured'
  BY <1>26 DEF StorageFails, Fault
<1>27. ASSUME NEW w \in Workers, StorageHeals(w) PROVE SilenceIsMeasured'
  BY <1>27 DEF StorageHeals
<1>28. CASE UNCHANGED vars
  BY <1>28 DEF vars
<1>29. ASSUME NEW c \in Children, AsksState(c) PROVE SilenceIsMeasured'
  BY <1>29 DEF AsksState
<1>30. ASSUME NEW c \in Children, AsksRoom(c) PROVE SilenceIsMeasured'
  BY <1>30 DEF AsksRoom
<1>31. ASSUME NEW c \in Children, ChildStopped(c) PROVE SilenceIsMeasured'
  BY <1>31 DEF ChildStopped, WaitingFor, IsGone
<1>32. ASSUME NEW c \in Children, ChildTimesOut(c) PROVE SilenceIsMeasured'
  BY <1>32 DEF ChildTimesOut, WaitingFor, IsGone
<1>33. CASE AsksAllToStop
  BY <1>33 DEF AsksAllToStop
<1> QED
  BY <1>1, <1>2, <1>3, <1>4, <1>5, <1>6, <1>7, <1>8, <1>9, <1>10, <1>11, <1>12, <1>13, <1>14, <1>15, <1>16, <1>17, <1>18, <1>19, <1>20, <1>21, <1>22, <1>23, <1>24, <1>25, <1>26, <1>27, <1>28, <1>29, <1>30, <1>31, <1>32, <1>33
  DEF Next, Poll, ChildStep, Shutdown

\* The invariant is inductive.
LEMMA SupervisorSteps == SupervisorInv /\ [Next]_vars => SupervisorInv'
<1> SUFFICES ASSUME SupervisorInv, [Next]_vars PROVE SupervisorInv'
  OBVIOUS
<1>1. /\ TypeOK /\ SingleCollector /\ PollsInTurn
      /\ BlockedSaysSo /\ PatienceIsSeen /\ SilenceIsMeasured
  BY DEF SupervisorInv
<1> QED
  BY <1>1, TypesKept, OneProcessKept, TurnsKept, BlockedKept, PatienceKept, SilenceKept
  DEF SupervisorInv
-----------------------------------------------------------------------------
\* The state of the supervisor and its children is well typed; counters of failures
\* and waits stay under their ceilings, however many children fail.
THEOREM SupervisorInvariant == Spec => []SupervisorInv
<1> QED
  BY SupervisorBegins, SupervisorSteps, PTL DEF Spec

\* Whatever supervisors are killed and started, with or without their control group,
\* each station is read, and the spools are uploaded, by one process at a time
\* (locking.py; cli.py, _worker and _upload).
THEOREM OneProcessPerChild == Spec => []SingleCollector
<1>1. SupervisorInv => SingleCollector
  BY DEF SupervisorInv
<1> QED
  BY <1>1, SupervisorInvariant, PTL

\* The step in which the watchdog ends a child it has looked at is KillSilent, or the
\* same kill with a spool that refuses the state.
LEMMA WatchdogKills ==
    ASSUME SupervisorInv, [Next]_vars, NEW c \in looked,
           proc[c] \in Running, proc'[c] \in Ended, c \notin looked'
    PROVE  answer \in {"waits", "runs"} /\ child[c].deadline < 0
<1> DEFINE Verdict == answer \in {"waits", "runs"} /\ child[c].deadline < 0
<1> TypeOK /\ PollsInTurn /\ c \in Children
  BY DEF SupervisorInv, TypeOK
<1> HIDE DEF Verdict
<1> USE DEF PollsInTurn, TypeOK, Running, Ended, pollVars, childVars, worldVars
<1>1. ASSUME NEW d \in Children, Boot(d) PROVE Verdict
  BY <1>1 DEF Boot, SetState
<1>2. ASSUME NEW d \in Children, Beat(d) PROVE Verdict
  BY <1>2 DEF Beat, SetState
<1>3. ASSUME NEW d \in Children, BlockOnFull(d) PROVE Verdict
  BY <1>3 DEF BlockOnFull, SetState
<1>4. ASSUME NEW d \in Children, Hang(d) PROVE Verdict
  BY <1>4 DEF Hang, Fault
<1>5. ASSUME NEW d \in Children, Refuse(d) PROVE Verdict
  BY <1>5 DEF Refuse, SetState, Fault
<1>6. ASSUME NEW d \in Children, ReturnRefused(d) PROVE Verdict
  BY <1>6 DEF ReturnRefused
<1>7. ASSUME NEW d \in Children, Die(d) PROVE Verdict
  BY <1>7 DEF Die, Fault
<1>8. ASSUME NEW d \in Children, DieOfStorage(d) PROVE Verdict
  BY <1>8 DEF DieOfStorage
<1>9. ASSUME NEW d \in Children, Look(d) PROVE Verdict
  BY <1>9 DEF Look, Polling
<1>10. ASSUME NEW d \in Children, LetRun(d) PROVE Verdict
  BY <1>10 DEF LetRun, Polled
<1>11. ASSUME NEW d \in Children, KillSilent(d) PROVE Verdict
  BY <1>11 DEF Verdict, KillSilent, IsOverdue, Polled, SetState
<1>12. ASSUME NEW d \in Children, Reap(d) PROVE Verdict
  BY <1>12 DEF Reap, Polling, Polled, SetState, IsGone
<1>13. ASSUME NEW d \in Children, StartChild(d) PROVE Verdict
  BY <1>13 DEF StartChild, Polling, Polled, Startable
<1>14. ASSUME NEW d \in Children, StartFails(d) PROVE Verdict
  BY <1>14 DEF StartFails, Polling, Polled, Startable, Fault
<1>15. ASSUME NEW d \in Children, PollIdle(d) PROVE Verdict
  BY <1>15 DEF PollIdle, Polling, Polled, Startable
<1>16. ASSUME NEW d \in Children, StorageEndsSupervisor(d) PROVE Verdict
  BY <1>16 DEF Verdict, StorageEndsSupervisor, IsOverdue, Polling, Startable, IsGone
<1>17. ASSUME NEW d \in Children, OrphanBeats(d) PROVE Verdict
  BY <1>17 DEF OrphanBeats, SetState
<1>18. ASSUME NEW d \in Children, OrphanEnds(d) PROVE Verdict
  BY <1>18 DEF OrphanEnds
<1>19. ASSUME NEW d \in Children, Obeys(d) PROVE Verdict
  BY <1>19 DEF Obeys
<1>20. CASE EndRound
  BY <1>20 DEF EndRound
<1>21. CASE SupervisorStarts
  BY <1>21 DEF SupervisorStarts
<1>22. CASE StopRequested
  BY <1>22 DEF StopRequested
<1>23. CASE SupervisorEnds
  BY <1>23 DEF SupervisorEnds
<1>24. CASE SupervisorKilled
  BY <1>24 DEF SupervisorKilled, Fault
<1>25. ASSUME NEW w \in Workers, RoomChanges(w) PROVE Verdict
  BY <1>25 DEF RoomChanges
<1>26. ASSUME NEW w \in Workers, StorageFails(w) PROVE Verdict
  BY <1>26 DEF StorageFails, Fault
<1>27. ASSUME NEW w \in Workers, StorageHeals(w) PROVE Verdict
  BY <1>27 DEF StorageHeals
<1>28. CASE UNCHANGED vars
  BY <1>28 DEF vars
<1>29. ASSUME NEW d \in Children, AsksState(d) PROVE Verdict
  BY <1>29 DEF AsksState
<1>30. ASSUME NEW d \in Children, AsksRoom(d) PROVE Verdict
  BY <1>30 DEF AsksRoom
<1>31. ASSUME NEW d \in Children, ChildStopped(d) PROVE Verdict
  BY <1>31 DEF ChildStopped, WaitingFor, IsGone
<1>32. ASSUME NEW d \in Children, ChildTimesOut(d) PROVE Verdict
  BY <1>32 DEF ChildTimesOut, WaitingFor, IsGone
<1>33. CASE AsksAllToStop
  BY <1>33 DEF AsksAllToStop
<1> QED
  BY <1>1, <1>2, <1>3, <1>4, <1>5, <1>6, <1>7, <1>8, <1>9, <1>10, <1>11, <1>12, <1>13, <1>14, <1>15, <1>16, <1>17, <1>18, <1>19, <1>20, <1>21, <1>22, <1>23, <1>24, <1>25, <1>26, <1>27, <1>28, <1>29, <1>30, <1>31, <1>32, <1>33
  DEF Next, Poll, ChildStep, Shutdown, Verdict

\* The watchdog of poll (supervisor.py) ends only a child that was silent for its
\* timeout, or speaks in the moment between look and verdict, and no worker that waited
\* for room at the look and has waited since, whose reading is not yet in the spool.
THEOREM WatchdogWaits == Spec => WatchdogIsPatient
<1> DEFINE Patient ==
      \A c \in looked :
        (proc[c] \in Running /\ proc'[c] \in Ended /\ c \notin looked') =>
           /\ quiet[c] > Min({SilenceTimeout, StartupTimeout}) \/ fresh[c]
           /\ c \notin patient
<1>1. ASSUME SupervisorInv, [Next]_vars, NEW c \in looked,
             proc[c] \in Running, proc'[c] \in Ended, c \notin looked'
      PROVE  (quiet[c] > Patience \/ fresh[c]) /\ c \notin patient
  <2>1. c \in Children /\ supervisor = "up" /\ quiet[c] \in Nat /\ child[c].deadline \in Int
    BY <1>1 DEF SupervisorInv, TypeOK, PollsInTurn
  <2>2. answer \in {"waits", "runs"} /\ child[c].deadline < 0
    BY <1>1, WatchdogKills
  <2>3. fresh[c] \/ quiet[c] + child[c].deadline >= Patience
    BY <1>1, <2>1 DEF SupervisorInv, SilenceIsMeasured
  <2>4. c \notin patient
    BY <1>1, <2>1, <2>2 DEF SupervisorInv, PatienceIsSeen
  <2>5. quiet[c] > Patience \/ fresh[c]
    BY <2>1, <2>2, <2>3, PatienceIsShort
  <2> QED
    BY <2>4, <2>5
<1>2. SupervisorInv /\ [Next]_vars => [Patient]_vars
  BY <1>1 DEF Patience
<1> QED
  BY <1>2, SupervisorInvariant, PTL DEF Spec, WatchdogIsPatient
-----------------------------------------------------------------------------
(***************************************************************************)
(* The commands that replace, stop and start the service.                  *)
(***************************************************************************)
InstallerStates == [at : InstallerAt, configured : BOOLEAN,
                    old : Nat, oldUnit : Nat, oldActive : BOOLEAN]
AssistantStates == [at : AssistantAt, left : Int, wasActive : BOOLEAN, succeeded : BOOLEAN]

\* What a step of the installer takes over from the steps before it.
Numbers ==
    /\ built \in Seq(Revisions) /\ current \in Nat /\ unit \in Nat /\ serving \in Nat
    /\ service \in {"inactive", "starting", "up", "failing"}
    /\ installer \in InstallerStates /\ assistant \in AssistantStates
    /\ orphan \in BOOLEAN

\* The unit and the link differ only between the steps that change them, and the
\* installer knows a pair that matches.
Whole ==
    met \cap {"interrupted", "power"} = {} =>
        /\ installer.at = "unit" \/ unit = current
        /\ installer.at = "unit" => current = Len(built)
        /\ installer.at \in {"stopping", "linking"} =>
               installer.old = current /\ installer.oldUnit = unit
        /\ installer.at \in {"unit", "enabling", "starting", "examining"} =>
               installer.old = installer.oldUnit

\* Without the disturbances that break it, the assistant has the service stopped.
Alone ==
    met \cap {"overlap", "interrupted", "ctrl-c"} = {} =>
        /\ ~orphan
        /\ assistant.at # "idle" => installer.at = "idle" /\ service = "inactive"

\* From the time the installer has stopped the service, or has found it stopped, until
\* it starts it, nobody else does.
Served ==
    met \cap {"paused", "overlap"} = {} =>
        /\ assistant.at # "idle" => installer.at = "idle"
        /\ installer.at \in {"linking", "unit", "enabling", "starting"} => service = "inactive"
        /\ installer.at = "stopping" => installer.oldActive \/ service = "inactive"
        /\ Active => serving = current

\* A unit is enabled before its first start, and only over a valid configuration, so an
\* installer that may have to start it does so.  A service that was started is not
\* inactive while no command has stopped it, and one that has knows that it was active.
Restartable ==
    /\ started \/ installer.at \in {"starting", "examining"} => enabled
    /\ met \cap {"interrupted", "refused", "paused", "edited", "overlap"} = {} =>
        /\ assistant.at # "idle" => installer.at = "idle"
        /\ \/ enabled \/ service # "inactive" \/ installer.oldActive \/ installer.configured
           \/ assistant.wasActive \/ assistant.succeeded \/ assistant.at = "previewing"
           => config = "valid"
        /\ enabled /\ installer.at # "idle" => installer.configured
        /\ NoCommand \/ installer.at \in {"looking", "ending"}
           => (started /\ unit # 0 => service # "inactive")
        /\ installer.at \in {"stopping", "linking"} =>
               unit = installer.oldUnit /\ (started /\ unit # 0 => installer.oldActive)
        /\ installer.at \in {"unit", "enabling", "starting"} =>
               (started /\ installer.oldUnit # 0 => installer.oldActive)
        /\ installer.at \in {"enabling", "starting", "examining"} => installer.configured
        /\ installer.at = "examining" => service # "inactive"
        /\ assistant.at # "idle" /\ started /\ unit # 0 => assistant.wasActive

\* Every number of a release stands for one that was built, and the assistant that looks
\* for a station has one to look for.
InBounds ==
    /\ Len(built) <= MaxBuilds
    /\ current <= Len(built) /\ unit <= Len(built) /\ serving <= Len(built)
    /\ installer.old <= Len(built) /\ installer.oldUnit <= Len(built)
    /\ installer.at # "idle" => Len(built) >= 1
    /\ failedStarts \subseteq 1..Len(built)
    /\ enabled \in BOOLEAN /\ started \in BOOLEAN /\ met \subseteq Disturbances
    /\ config \in {"missing", "initial", "valid"}
    /\ assistant.left \in 0..Stations
    /\ assistant.at \in {"selecting", "probing"} => assistant.left >= 1

\* A command that has not begun is in a state.
LEMMA IdleIsTyped == Idle \in InstallerStates /\ Away \in AssistantStates
<1>1. Idle \in InstallerStates
      BY DEF Idle, InstallerStates, InstallerAt
<1>2. Stations \in Int
      BY DeploymentAssumption
<1>3. Away \in AssistantStates
      BY <1>2 DEF Away, AssistantStates, AssistantAt
<1>. QED BY <1>1, <1>3

\* Every step keeps the types.
LEMMA NumbersKept == Numbers /\ [DeploymentNext]_deploymentVars => Numbers'
<1>. SUFFICES ASSUME Numbers, [DeploymentNext]_deploymentVars PROVE Numbers'
  OBVIOUS
<1>. USE DEF InstallerAt, AssistantAt, InstallerStates, AssistantStates
<1>1. CASE Proceeds
      BY <1>1 DEF Numbers, commandVars, serviceVars, releaseVars, historyVars, Proceeds
<1>2. CASE Breaks
      BY <1>2 DEF Numbers, commandVars, serviceVars, releaseVars, historyVars, Breaks
<1>3. CASE Restarts
      BY <1>3 DEF Numbers, commandVars, serviceVars, releaseVars, historyVars, Restarts
<1>4. CASE \E update \in BOOLEAN, revision \in Revisions : Builds(update, revision)
  <2>1. PICK update \in BOOLEAN, revision \in Revisions : Builds(update, revision)
        BY <1>4
  <2>2. /\ built' \in Seq(Revisions)
        /\ UNCHANGED <<current, unit, serving, service, assistant, orphan>>
        BY <2>1 DEF Numbers, commandVars, serviceVars, releaseVars, historyVars, Builds
  <2>3. PICK valid \in BOOLEAN : installer' = [Idle EXCEPT !.at = "looking", !.configured = valid]
    <3>1. \A formula \in {"initial", "valid"} : (formula = "valid") \in BOOLEAN
          OBVIOUS
    <3>. QED BY <2>1, <3>1, Zenon DEF Builds
  <2>4. installer' \in InstallerStates
        BY <2>3, IdleIsTyped
  <2>. QED BY <2>2, <2>4 DEF Numbers
<1>5. CASE TryRestarts
      BY <1>5 DEF Numbers, commandVars, serviceVars, releaseVars, historyVars, TryRestarts, Active
<1>6. CASE Looks
  <2>1. Active \in BOOLEAN
        BY DEF Active
  <2>2. installer' \in InstallerStates
        BY <1>6, <2>1 DEF Numbers, Looks
  <2>. QED BY <1>6, <2>2 DEF Numbers, commandVars, serviceVars, releaseVars, historyVars, Looks
<1>7. CASE Stops
      BY <1>7 DEF Numbers, commandVars, serviceVars, releaseVars, historyVars, Stops
<1>8. CASE Activates
      BY <1>8 DEF Numbers, commandVars, serviceVars, releaseVars, historyVars, Activates
<1>9. CASE WritesUnit
      BY <1>9 DEF Numbers, commandVars, serviceVars, releaseVars, historyVars, WritesUnit
<1>10. CASE StartsService
      BY <1>10 DEF Numbers, commandVars, serviceVars, releaseVars, historyVars, StartsService, Start, Active
<1>11. CASE Examines
  <2>1. CASE RollsBack
        BY <2>1, IdleIsTyped DEF Numbers, commandVars, serviceVars, releaseVars, historyVars, RollsBack, RestartsOld, Disturbs
  <2>2. CASE ~RollsBack
        BY <1>11, <2>2 DEF Numbers, commandVars, serviceVars, releaseVars, historyVars, Examines
  <2>. QED BY <2>1, <2>2
<1>12. CASE Fails
      BY <1>12, IdleIsTyped DEF Numbers, commandVars, serviceVars, releaseVars, historyVars, Fails, RollsBack, RestartsOld, Disturbs
<1>13. CASE Ends
      BY <1>13, IdleIsTyped DEF Numbers, commandVars, serviceVars, releaseVars, historyVars, Ends
<1>14. CASE Interrupts
      BY <1>14, IdleIsTyped DEF Numbers, commandVars, serviceVars, releaseVars, historyVars, Interrupts
<1>15. CASE Opens
  <2>1. Active \in BOOLEAN /\ Stations \in Int
        BY DeploymentAssumption DEF Active
  <2>2. assistant' \in AssistantStates
        BY <1>15, <2>1, IdleIsTyped DEF Opens
  <2>. QED BY <1>15, <2>2 DEF Numbers, commandVars, serviceVars, releaseVars, historyVars, Opens
<1>16. CASE Probes
      BY <1>16 DEF Numbers, commandVars, serviceVars, releaseVars, historyVars, Probes, Assists
<1>17. CASE ProbeEnds
  <2>1. PICK at \in AssistantAt, left \in Int :
           assistant' = [assistant EXCEPT !.at = at, !.left = left]
    <3>1. assistant.left \in Int /\ assistant.left - 1 \in Int
          BY DEF Numbers
    <3>2. CASE assistant' = [assistant EXCEPT !.at = "selecting"]
          BY <3>1, <3>2, ZenonT(30) DEF Numbers
    <3>3. CASE assistant' # [assistant EXCEPT !.at = "selecting"]
          BY <1>17, <3>1, <3>3 DEF ProbeEnds, Assists
    <3>. QED BY <3>2, <3>3
  <2>2. assistant' \in AssistantStates
        BY <2>1 DEF Numbers
  <2>. QED BY <1>17, <2>2 DEF Numbers, commandVars, serviceVars, releaseVars, historyVars, ProbeEnds, Assists
<1>18. CASE Cancels
      BY <1>18 DEF Numbers, commandVars, serviceVars, releaseVars, historyVars, Cancels, Assists
<1>19. CASE Saves
      BY <1>19 DEF Numbers, commandVars, serviceVars, releaseVars, historyVars, Saves, Assists
<1>20. CASE Previews
      BY <1>20 DEF Numbers, commandVars, serviceVars, releaseVars, historyVars, Previews, Assists
<1>21. CASE Leaves
      BY <1>21, IdleIsTyped DEF Numbers, commandVars, serviceVars, releaseVars, historyVars, Leaves, EnablesNow, Disturbs, Start
<1>22. CASE KeyboardInterrupt
      BY <1>22 DEF Numbers, commandVars, serviceVars, releaseVars, historyVars, KeyboardInterrupt, Disturbs
<1>23. CASE Hangup
      BY <1>23, IdleIsTyped DEF Numbers, commandVars, serviceVars, releaseVars, historyVars, Hangup
<1>24. CASE TestEnds
      BY <1>24, ZenonT(30) DEF Numbers, commandVars, serviceVars, releaseVars, historyVars, TestEnds
<1>25. CASE Edits
      BY <1>25 DEF Numbers, commandVars, serviceVars, releaseVars, historyVars, Edits, Disturbs
<1>26. CASE PowerLoss
  <2>1. installer' \in InstallerStates
        BY <1>26, IdleIsTyped DEF PowerLoss
  <2>2. assistant' \in AssistantStates
        BY <1>26, IdleIsTyped DEF PowerLoss
  <2>3. /\ built' \in Seq(Revisions) /\ current' \in Nat /\ unit' \in Nat /\ serving' \in Nat
        /\ service' \in {"inactive", "starting", "up", "failing"}
        BY <1>26 DEF Numbers, PowerLoss, releaseVars
  <2>4. orphan' \in BOOLEAN
        BY <1>26, Zenon DEF PowerLoss
  <2>. QED BY <2>1, <2>2, <2>3, <2>4 DEF Numbers
<1>27. CASE UNCHANGED deploymentVars
      BY <1>27 DEF Numbers, commandVars, serviceVars, releaseVars, historyVars, deploymentVars
<1>28. CASE Enables
      BY <1>28 DEF Numbers, commandVars, serviceVars, releaseVars, historyVars, Enables
<1>. QED BY <1>1, <1>2, <1>3, <1>4, <1>5, <1>6, <1>7, <1>8, <1>9, <1>10, <1>11, <1>12, <1>13, <1>14, <1>15, <1>16, <1>17, <1>18, <1>19, <1>20, <1>21, <1>22, <1>23, <1>24, <1>25, <1>26, <1>27, <1>28 DEF DeploymentNext

\* Every step keeps the link and the unit file together.
LEMMA WholeKept ==
    Numbers /\ Whole /\ [DeploymentNext]_deploymentVars => Whole'
<1>. SUFFICES ASSUME Numbers, Whole, [DeploymentNext]_deploymentVars PROVE Whole'
  OBVIOUS
<1>. USE DEF InstallerAt, InstallerStates
<1>1. CASE Proceeds
      BY <1>1 DEF Numbers, Whole, commandVars, serviceVars, releaseVars, historyVars, Proceeds
<1>2. CASE Breaks
      BY <1>2 DEF Numbers, Whole, commandVars, serviceVars, releaseVars, historyVars, Breaks
<1>3. CASE Restarts
      BY <1>3 DEF Numbers, Whole, commandVars, serviceVars, releaseVars, historyVars, Restarts
<1>4. CASE \E update \in BOOLEAN, revision \in Revisions : Builds(update, revision)
  <2>1. PICK update \in BOOLEAN, revision \in Revisions : Builds(update, revision)
        BY <1>4
  <2>. QED BY <2>1 DEF Numbers, Whole, commandVars, serviceVars, releaseVars, historyVars, Builds, Idle
<1>5. CASE TryRestarts
      BY <1>5 DEF Numbers, Whole, commandVars, serviceVars, releaseVars, historyVars, TryRestarts, Active
<1>6. CASE Looks
      BY <1>6 DEF Numbers, Whole, commandVars, serviceVars, releaseVars, historyVars, Looks, Active
<1>7. CASE Stops
      BY <1>7 DEF Numbers, Whole, commandVars, serviceVars, releaseVars, historyVars, Stops
<1>8. CASE Activates
      BY <1>8 DEF Numbers, Whole, commandVars, serviceVars, releaseVars, historyVars, Activates
<1>9. CASE WritesUnit
      BY <1>9 DEF Numbers, Whole, commandVars, serviceVars, releaseVars, historyVars, WritesUnit
<1>10. CASE StartsService
      BY <1>10 DEF Numbers, Whole, commandVars, serviceVars, releaseVars, historyVars, StartsService, Start, Active
<1>11. CASE Examines
      BY <1>11 DEF Numbers, Whole, commandVars, serviceVars, releaseVars, historyVars, Examines, RollsBack, RestartsOld, Disturbs, Activated, Stopped, Active, Idle
<1>12. CASE Fails
      BY <1>12 DEF Numbers, Whole, commandVars, serviceVars, releaseVars, historyVars, Fails, RollsBack, RestartsOld, Disturbs, Activated, Stopped, Active, Idle
<1>13. CASE Ends
      BY <1>13 DEF Numbers, Whole, commandVars, serviceVars, releaseVars, historyVars, Ends, Idle
<1>14. CASE Interrupts
      BY <1>14 DEF Numbers, Whole, commandVars, serviceVars, releaseVars, historyVars, Interrupts, Idle, Disturbs
<1>15. CASE Opens
      BY <1>15 DEF Numbers, Whole, commandVars, serviceVars, releaseVars, historyVars, Opens, Away, Active
<1>16. CASE Probes
      BY <1>16 DEF Numbers, Whole, commandVars, serviceVars, releaseVars, historyVars, Probes, Assists
<1>17. CASE ProbeEnds
      BY <1>17 DEF Numbers, Whole, commandVars, serviceVars, releaseVars, historyVars, ProbeEnds, Assists
<1>18. CASE Cancels
      BY <1>18 DEF Numbers, Whole, commandVars, serviceVars, releaseVars, historyVars, Cancels, Assists
<1>19. CASE Saves
      BY <1>19 DEF Numbers, Whole, commandVars, serviceVars, releaseVars, historyVars, Saves, Assists
<1>20. CASE Previews
      BY <1>20 DEF Numbers, Whole, commandVars, serviceVars, releaseVars, historyVars, Previews, Assists
<1>21. CASE Leaves
      BY <1>21 DEF Numbers, Whole, commandVars, serviceVars, releaseVars, historyVars, Leaves, EnablesNow, Disturbs, Start, Active, Away
<1>22. CASE KeyboardInterrupt
      BY <1>22 DEF Numbers, Whole, commandVars, serviceVars, releaseVars, historyVars, KeyboardInterrupt, Disturbs
<1>23. CASE Hangup
      BY <1>23 DEF Numbers, Whole, commandVars, serviceVars, releaseVars, historyVars, Hangup, Disturbs, Away
<1>24. CASE TestEnds
      BY <1>24 DEF Numbers, Whole, commandVars, serviceVars, releaseVars, historyVars, TestEnds
<1>25. CASE Edits
      BY <1>25 DEF Numbers, Whole, commandVars, serviceVars, releaseVars, historyVars, Edits, Disturbs
<1>26. CASE PowerLoss
      BY <1>26 DEF Numbers, Whole, commandVars, serviceVars, releaseVars, historyVars, PowerLoss, Idle, Away
<1>27. CASE UNCHANGED deploymentVars
      BY <1>27 DEF Numbers, Whole, commandVars, serviceVars, releaseVars, historyVars, deploymentVars
<1>28. CASE Enables
      BY <1>28 DEF Numbers, Whole, commandVars, serviceVars, releaseVars, historyVars, Enables
<1>. QED BY <1>1, <1>2, <1>3, <1>4, <1>5, <1>6, <1>7, <1>8, <1>9, <1>10, <1>11, <1>12, <1>13, <1>14, <1>15, <1>16, <1>17, <1>18, <1>19, <1>20, <1>21, <1>22, <1>23, <1>24, <1>25, <1>26, <1>27, <1>28 DEF DeploymentNext

\* Every step keeps the service stopped during a test.
LEMMA AloneKept ==
    Numbers /\ Alone /\ [DeploymentNext]_deploymentVars => Alone'
<1>. SUFFICES ASSUME Numbers, Alone, [DeploymentNext]_deploymentVars PROVE Alone'
  OBVIOUS
<1>. USE DEF InstallerAt, AssistantAt, InstallerStates, AssistantStates
<1>1. CASE Proceeds
      BY <1>1 DEF Numbers, Alone, commandVars, serviceVars, releaseVars, historyVars, Proceeds
<1>2. CASE Breaks
      BY <1>2 DEF Numbers, Alone, commandVars, serviceVars, releaseVars, historyVars, Breaks
<1>3. CASE Restarts
      BY <1>3 DEF Numbers, Alone, commandVars, serviceVars, releaseVars, historyVars, Restarts
<1>4. CASE \E update \in BOOLEAN, revision \in Revisions : Builds(update, revision)
  <2>1. PICK update \in BOOLEAN, revision \in Revisions : Builds(update, revision)
        BY <1>4
  <2>. QED BY <2>1 DEF Numbers, Alone, commandVars, serviceVars, releaseVars, historyVars, Builds, Idle
<1>5. CASE TryRestarts
      BY <1>5 DEF Numbers, Alone, commandVars, serviceVars, releaseVars, historyVars, TryRestarts, Active
<1>6. CASE Looks
      BY <1>6 DEF Numbers, Alone, commandVars, serviceVars, releaseVars, historyVars, Looks, Active
<1>7. CASE Stops
      BY <1>7 DEF Numbers, Alone, commandVars, serviceVars, releaseVars, historyVars, Stops
<1>8. CASE Activates
      BY <1>8 DEF Numbers, Alone, commandVars, serviceVars, releaseVars, historyVars, Activates
<1>9. CASE WritesUnit
      BY <1>9 DEF Numbers, Alone, commandVars, serviceVars, releaseVars, historyVars, WritesUnit
<1>10. CASE StartsService
      BY <1>10 DEF Numbers, Alone, commandVars, serviceVars, releaseVars, historyVars, StartsService, Start, Active
<1>11. CASE Examines
      BY <1>11 DEF Numbers, Alone, commandVars, serviceVars, releaseVars, historyVars, Examines, RollsBack, RestartsOld, Disturbs, Activated, Stopped, Active, Idle
<1>12. CASE Fails
      BY <1>12 DEF Numbers, Alone, commandVars, serviceVars, releaseVars, historyVars, Fails, RollsBack, RestartsOld, Disturbs, Activated, Stopped, Active, Idle
<1>13. CASE Ends
      BY <1>13 DEF Numbers, Alone, commandVars, serviceVars, releaseVars, historyVars, Ends, Idle
<1>14. CASE Interrupts
      BY <1>14 DEF Numbers, Alone, commandVars, serviceVars, releaseVars, historyVars, Interrupts, Idle, Disturbs
<1>15. CASE Opens
      BY <1>15 DEF Numbers, Alone, commandVars, serviceVars, releaseVars, historyVars, Opens, Away, Active
<1>16. CASE Probes
      BY <1>16 DEF Numbers, Alone, commandVars, serviceVars, releaseVars, historyVars, Probes, Assists
<1>17. CASE ProbeEnds
      BY <1>17 DEF Numbers, Alone, commandVars, serviceVars, releaseVars, historyVars, ProbeEnds, Assists
<1>18. CASE Cancels
      BY <1>18 DEF Numbers, Alone, commandVars, serviceVars, releaseVars, historyVars, Cancels, Assists
<1>19. CASE Saves
      BY <1>19 DEF Numbers, Alone, commandVars, serviceVars, releaseVars, historyVars, Saves, Assists
<1>20. CASE Previews
      BY <1>20 DEF Numbers, Alone, commandVars, serviceVars, releaseVars, historyVars, Previews, Assists
<1>21. CASE Leaves
      BY <1>21 DEF Numbers, Alone, commandVars, serviceVars, releaseVars, historyVars, Leaves, EnablesNow, Disturbs, Start, Active, Away
<1>22. CASE KeyboardInterrupt
      BY <1>22 DEF Numbers, Alone, commandVars, serviceVars, releaseVars, historyVars, KeyboardInterrupt, Disturbs
<1>23. CASE Hangup
      BY <1>23 DEF Numbers, Alone, commandVars, serviceVars, releaseVars, historyVars, Hangup, Disturbs, Away
<1>24. CASE TestEnds
      BY <1>24 DEF Numbers, Alone, commandVars, serviceVars, releaseVars, historyVars, TestEnds
<1>25. CASE Edits
      BY <1>25 DEF Numbers, Alone, commandVars, serviceVars, releaseVars, historyVars, Edits, Disturbs
<1>26. CASE PowerLoss
      BY <1>26 DEF Numbers, Alone, commandVars, serviceVars, releaseVars, historyVars, PowerLoss, Idle, Away
<1>27. CASE UNCHANGED deploymentVars
      BY <1>27 DEF Numbers, Alone, commandVars, serviceVars, releaseVars, historyVars, deploymentVars
<1>28. CASE Enables
      BY <1>28 DEF Numbers, Alone, commandVars, serviceVars, releaseVars, historyVars, Enables
<1>. QED BY <1>1, <1>2, <1>3, <1>4, <1>5, <1>6, <1>7, <1>8, <1>9, <1>10, <1>11, <1>12, <1>13, <1>14, <1>15, <1>16, <1>17, <1>18, <1>19, <1>20, <1>21, <1>22, <1>23, <1>24, <1>25, <1>26, <1>27, <1>28 DEF DeploymentNext

\* Every step keeps an active service on the release the link names.
LEMMA ServedKept ==
    Numbers /\ Served /\ [DeploymentNext]_deploymentVars => Served'
<1>. SUFFICES ASSUME Numbers, Served, [DeploymentNext]_deploymentVars PROVE Served'
  OBVIOUS
<1>. USE DEF InstallerAt, AssistantAt, InstallerStates, AssistantStates, Active
<1>1. CASE Proceeds
      BY <1>1 DEF Numbers, Served, commandVars, serviceVars, releaseVars, historyVars, Proceeds
<1>2. CASE Breaks
      BY <1>2 DEF Numbers, Served, commandVars, serviceVars, releaseVars, historyVars, Breaks
<1>3. CASE Restarts
      BY <1>3 DEF Numbers, Served, commandVars, serviceVars, releaseVars, historyVars, Restarts
<1>4. CASE \E update \in BOOLEAN, revision \in Revisions : Builds(update, revision)
  <2>1. PICK update \in BOOLEAN, revision \in Revisions : Builds(update, revision)
        BY <1>4
  <2>. QED BY <2>1 DEF Numbers, Served, commandVars, serviceVars, releaseVars, historyVars, Builds, Idle
<1>5. CASE TryRestarts
      BY <1>5 DEF Numbers, Served, commandVars, serviceVars, releaseVars, historyVars, TryRestarts, Active
<1>6. CASE Looks
      BY <1>6 DEF Numbers, Served, commandVars, serviceVars, releaseVars, historyVars, Looks, Active
<1>7. CASE Stops
      BY <1>7 DEF Numbers, Served, commandVars, serviceVars, releaseVars, historyVars, Stops
<1>8. CASE Activates
      BY <1>8 DEF Numbers, Served, commandVars, serviceVars, releaseVars, historyVars, Activates
<1>9. CASE WritesUnit
      BY <1>9 DEF Numbers, Served, commandVars, serviceVars, releaseVars, historyVars, WritesUnit
<1>10. CASE StartsService
      BY <1>10 DEF Numbers, Served, commandVars, serviceVars, releaseVars, historyVars, StartsService, Start, Active
<1>11. CASE Examines
      BY <1>11 DEF Numbers, Served, commandVars, serviceVars, releaseVars, historyVars, Examines, RollsBack, RestartsOld, Disturbs, Activated, Stopped, Active, Idle
<1>12. CASE Fails
      BY <1>12 DEF Numbers, Served, commandVars, serviceVars, releaseVars, historyVars, Fails, RollsBack, RestartsOld, Disturbs, Activated, Stopped, Active, Idle
<1>13. CASE Ends
      BY <1>13 DEF Numbers, Served, commandVars, serviceVars, releaseVars, historyVars, Ends, Idle
<1>14. CASE Interrupts
      BY <1>14 DEF Numbers, Served, commandVars, serviceVars, releaseVars, historyVars, Interrupts, Idle, Disturbs
<1>15. CASE Opens
      BY <1>15 DEF Numbers, Served, commandVars, serviceVars, releaseVars, historyVars, Opens, Away, Active
<1>16. CASE Probes
      BY <1>16 DEF Numbers, Served, commandVars, serviceVars, releaseVars, historyVars, Probes, Assists
<1>17. CASE ProbeEnds
      BY <1>17 DEF Numbers, Served, commandVars, serviceVars, releaseVars, historyVars, ProbeEnds, Assists
<1>18. CASE Cancels
      BY <1>18 DEF Numbers, Served, commandVars, serviceVars, releaseVars, historyVars, Cancels, Assists
<1>19. CASE Saves
      BY <1>19 DEF Numbers, Served, commandVars, serviceVars, releaseVars, historyVars, Saves, Assists
<1>20. CASE Previews
      BY <1>20 DEF Numbers, Served, commandVars, serviceVars, releaseVars, historyVars, Previews, Assists
<1>21. CASE Leaves
      BY <1>21 DEF Numbers, Served, commandVars, serviceVars, releaseVars, historyVars, Leaves, EnablesNow, Disturbs, Start, Active, Away
<1>22. CASE KeyboardInterrupt
      BY <1>22 DEF Numbers, Served, commandVars, serviceVars, releaseVars, historyVars, KeyboardInterrupt, Disturbs
<1>23. CASE Hangup
      BY <1>23 DEF Numbers, Served, commandVars, serviceVars, releaseVars, historyVars, Hangup, Disturbs, Away
<1>24. CASE TestEnds
      BY <1>24 DEF Numbers, Served, commandVars, serviceVars, releaseVars, historyVars, TestEnds
<1>25. CASE Edits
      BY <1>25 DEF Numbers, Served, commandVars, serviceVars, releaseVars, historyVars, Edits, Disturbs
<1>26. CASE PowerLoss
      BY <1>26 DEF Numbers, Served, commandVars, serviceVars, releaseVars, historyVars, PowerLoss, Idle, Away
<1>27. CASE UNCHANGED deploymentVars
      BY <1>27 DEF Numbers, Served, commandVars, serviceVars, releaseVars, historyVars, deploymentVars
<1>28. CASE Enables
      BY <1>28 DEF Numbers, Served, commandVars, serviceVars, releaseVars, historyVars, Enables
<1>. QED BY <1>1, <1>2, <1>3, <1>4, <1>5, <1>6, <1>7, <1>8, <1>9, <1>10, <1>11, <1>12, <1>13, <1>14, <1>15, <1>16, <1>17, <1>18, <1>19, <1>20, <1>21, <1>22, <1>23, <1>24, <1>25, <1>26, <1>27, <1>28 DEF DeploymentNext

\* Every step keeps what lets a stopped service be started again.
LEMMA RestartableKept ==
    Numbers /\ Restartable /\ [DeploymentNext]_deploymentVars => Restartable'
<1>. SUFFICES ASSUME Numbers, Restartable, [DeploymentNext]_deploymentVars PROVE Restartable'
  OBVIOUS
<1>. USE DEF InstallerAt, AssistantAt, InstallerStates, AssistantStates, Active, NoCommand
<1>1. CASE Proceeds
      BY <1>1 DEF Numbers, Restartable, commandVars, serviceVars, releaseVars, historyVars, Proceeds
<1>2. CASE Breaks
      BY <1>2 DEF Numbers, Restartable, commandVars, serviceVars, releaseVars, historyVars, Breaks
<1>3. CASE Restarts
      BY <1>3 DEF Numbers, Restartable, commandVars, serviceVars, releaseVars, historyVars, Restarts
<1>4. CASE \E update \in BOOLEAN, revision \in Revisions : Builds(update, revision)
  <2>1. PICK update \in BOOLEAN, revision \in Revisions : Builds(update, revision)
        BY <1>4
  <2>. QED BY <2>1 DEF Numbers, Restartable, commandVars, serviceVars, releaseVars, historyVars, Builds, Idle
<1>5. CASE TryRestarts
      BY <1>5 DEF Numbers, Restartable, commandVars, serviceVars, releaseVars, historyVars, TryRestarts, Active
<1>6. CASE Looks
      BY <1>6 DEF Numbers, Restartable, commandVars, serviceVars, releaseVars, historyVars, Looks, Active
<1>7. CASE Stops
      BY <1>7 DEF Numbers, Restartable, commandVars, serviceVars, releaseVars, historyVars, Stops
<1>8. CASE Activates
      BY <1>8 DEF Numbers, Restartable, commandVars, serviceVars, releaseVars, historyVars, Activates
<1>9. CASE WritesUnit
      BY <1>9 DEF Numbers, Restartable, commandVars, serviceVars, releaseVars, historyVars, WritesUnit
<1>10. CASE StartsService
      BY <1>10 DEF Numbers, Restartable, commandVars, serviceVars, releaseVars, historyVars, StartsService, Start, Active
<1>11. CASE Examines
  <2>1. CASE service # "up" /\ RollsBack
        BY <1>11, <2>1, SMTT(30) DEF Numbers, Restartable, Examines, RollsBack, RestartsOld, Disturbs, Activated, Stopped, Idle
  <2>2. CASE service = "up"
        BY <1>11, <2>2 DEF Numbers, Restartable, serviceVars, releaseVars, historyVars, Examines
  <2>. QED BY <1>11, <2>1, <2>2 DEF Examines
<1>12. CASE Fails
      BY <1>12 DEF Numbers, Restartable, commandVars, serviceVars, releaseVars, historyVars, Fails, RollsBack, RestartsOld, Disturbs, Activated, Stopped, Active, Idle
<1>13. CASE Ends
      BY <1>13 DEF Numbers, Restartable, commandVars, serviceVars, releaseVars, historyVars, Ends, Idle
<1>14. CASE Interrupts
      BY <1>14 DEF Numbers, Restartable, commandVars, serviceVars, releaseVars, historyVars, Interrupts, Idle, Disturbs
<1>15. CASE Opens
      BY <1>15 DEF Numbers, Restartable, commandVars, serviceVars, releaseVars, historyVars, Opens, Away, Active
<1>16. CASE Probes
      BY <1>16 DEF Numbers, Restartable, commandVars, serviceVars, releaseVars, historyVars, Probes, Assists
<1>17. CASE ProbeEnds
  <2>1. /\ UNCHANGED <<config, installer, serviceVars, releaseVars, historyVars>>
        /\ assistant.at = "probing" /\ assistant'.at \in {"saving", "selecting"}
        /\ assistant'.wasActive = assistant.wasActive /\ assistant'.succeeded = assistant.succeeded
        BY <1>17 DEF Numbers, ProbeEnds, Assists
  <2>. QED BY <2>1 DEF Restartable, serviceVars, releaseVars, historyVars
<1>18. CASE Cancels
      BY <1>18 DEF Numbers, Restartable, commandVars, serviceVars, releaseVars, historyVars, Cancels, Assists
<1>19. CASE Saves
      BY <1>19 DEF Numbers, Restartable, commandVars, serviceVars, releaseVars, historyVars, Saves, Assists
<1>20. CASE Previews
      BY <1>20 DEF Numbers, Restartable, commandVars, serviceVars, releaseVars, historyVars, Previews, Assists
<1>21. CASE Leaves
      BY <1>21 DEF Numbers, Restartable, commandVars, serviceVars, releaseVars, historyVars, Leaves, EnablesNow, Disturbs, Start, Active, Away
<1>22. CASE KeyboardInterrupt
      BY <1>22 DEF Numbers, Restartable, commandVars, serviceVars, releaseVars, historyVars, KeyboardInterrupt, Disturbs
<1>23. CASE Hangup
      BY <1>23 DEF Numbers, Restartable, commandVars, serviceVars, releaseVars, historyVars, Hangup, Disturbs, Away
<1>24. CASE TestEnds
      BY <1>24 DEF Numbers, Restartable, commandVars, serviceVars, releaseVars, historyVars, TestEnds
<1>25. CASE Edits
      BY <1>25 DEF Numbers, Restartable, commandVars, serviceVars, releaseVars, historyVars, Edits, Disturbs
<1>26. CASE PowerLoss
      BY <1>26 DEF Numbers, Restartable, commandVars, serviceVars, releaseVars, historyVars, PowerLoss, Idle, Away
<1>27. CASE UNCHANGED deploymentVars
      BY <1>27 DEF Numbers, Restartable, commandVars, serviceVars, releaseVars, historyVars, deploymentVars
<1>28. CASE Enables
      BY <1>28 DEF Numbers, Restartable, commandVars, serviceVars, releaseVars, historyVars, Enables
<1>. QED BY <1>1, <1>2, <1>3, <1>4, <1>5, <1>6, <1>7, <1>8, <1>9, <1>10, <1>11, <1>12, <1>13, <1>14, <1>15, <1>16, <1>17, <1>18, <1>19, <1>20, <1>21, <1>22, <1>23, <1>24, <1>25, <1>26, <1>27, <1>28 DEF DeploymentNext

\* Every step stays within the bounds.
LEMMA InBoundsKept ==
    Numbers /\ InBounds /\ [DeploymentNext]_deploymentVars => InBounds'
<1>. SUFFICES ASSUME Numbers, InBounds, [DeploymentNext]_deploymentVars PROVE InBounds'
  OBVIOUS
<1>. Stations \in Nat /\ Stations >= 1
      BY DeploymentAssumption
<1>. USE DEF InstallerAt, AssistantAt, InstallerStates, AssistantStates, Disturbances
<1>1. CASE Proceeds
      BY <1>1 DEF Numbers, InBounds, commandVars, serviceVars, releaseVars, historyVars, Proceeds
<1>2. CASE Breaks
      BY <1>2 DEF Numbers, InBounds, commandVars, serviceVars, releaseVars, historyVars, Breaks
<1>3. CASE Restarts
      BY <1>3 DEF Numbers, InBounds, commandVars, serviceVars, releaseVars, historyVars, Restarts
<1>4. CASE \E update \in BOOLEAN, revision \in Revisions : Builds(update, revision)
  <2>1. PICK update \in BOOLEAN, revision \in Revisions : Builds(update, revision)
        BY <1>4
  <2>2. PICK valid \in BOOLEAN : installer' = [Idle EXCEPT !.at = "looking", !.configured = valid]
    <3>1. \A formula \in {"initial", "valid"} : (formula = "valid") \in BOOLEAN
          OBVIOUS
    <3>. QED BY <2>1, <3>1, Zenon DEF Builds
  <2>3. installer'.at = "looking" /\ installer'.old = 0 /\ installer'.oldUnit = 0
        BY <2>2 DEF Idle
  <2>4. Len(built') = Len(built) + 1 /\ Len(built') <= MaxBuilds /\ Len(built) \in Nat
        BY <2>1, DeploymentAssumption DEF Numbers, InBounds, Builds
  <2>5. UNCHANGED <<current, unit, serving, failedStarts, enabled, started, assistant>>
        BY <2>1 DEF Builds, serviceVars
  <2>6. config' \in {"missing", "initial", "valid"} /\ met' \subseteq Disturbances
        BY <2>1 DEF Builds, InBounds
  <2>. QED BY <2>3, <2>4, <2>5, <2>6 DEF Numbers, InBounds
<1>5. CASE TryRestarts
      BY <1>5 DEF Numbers, InBounds, commandVars, serviceVars, releaseVars, historyVars, TryRestarts, Active
<1>6. CASE Looks
      BY <1>6 DEF Numbers, InBounds, commandVars, serviceVars, releaseVars, historyVars, Looks, Active
<1>7. CASE Stops
      BY <1>7 DEF Numbers, InBounds, commandVars, serviceVars, releaseVars, historyVars, Stops
<1>8. CASE Activates
      BY <1>8 DEF Numbers, InBounds, commandVars, serviceVars, releaseVars, historyVars, Activates
<1>9. CASE WritesUnit
      BY <1>9 DEF Numbers, InBounds, commandVars, serviceVars, releaseVars, historyVars, WritesUnit
<1>10. CASE StartsService
      BY <1>10 DEF Numbers, InBounds, commandVars, serviceVars, releaseVars, historyVars, StartsService, Start, Active
<1>11. CASE Examines
      BY <1>11 DEF Numbers, InBounds, commandVars, serviceVars, releaseVars, historyVars, Examines, RollsBack, RestartsOld, Disturbs, Activated, Stopped, Active, Idle
<1>12. CASE Fails
  <2>1. /\ UNCHANGED <<config, assistant, enabled, built, started, failedStarts>>
        /\ installer' = Idle /\ current' <= Len(built) /\ unit' <= Len(built)
        BY <1>12 DEF Numbers, InBounds, Fails, RollsBack
  <2>2. serving' <= Len(built) /\ met' \subseteq Disturbances
        BY <1>12, <2>1 DEF InBounds, Fails, RollsBack, RestartsOld, Disturbs
  <2>. QED BY <2>1, <2>2 DEF Numbers, InBounds, Idle
<1>13. CASE Ends
      BY <1>13 DEF Numbers, InBounds, commandVars, serviceVars, releaseVars, historyVars, Ends, Idle
<1>14. CASE Interrupts
      BY <1>14 DEF Numbers, InBounds, commandVars, serviceVars, releaseVars, historyVars, Interrupts, Idle, Disturbs
<1>15. CASE Opens
      BY <1>15 DEF Numbers, InBounds, commandVars, serviceVars, releaseVars, historyVars, Opens, Away, Active
<1>16. CASE Probes
      BY <1>16 DEF Numbers, InBounds, commandVars, serviceVars, releaseVars, historyVars, Probes, Assists
<1>17. CASE ProbeEnds
  <2>1. UNCHANGED <<installer, config, built, current, unit, serving, enabled, started, failedStarts, met>>
        BY <1>17 DEF ProbeEnds, Assists, serviceVars, releaseVars, historyVars
  <2>2. assistant.left \in 1..Stations
        BY <1>17 DEF ProbeEnds, InBounds
  <2>3. \/ /\ assistant'.left = assistant.left - 1
           /\ assistant'.at = IF assistant.left = 1 THEN "saving" ELSE "selecting"
        \/ assistant'.left = assistant.left
        BY <1>17 DEF ProbeEnds, Assists, Numbers
  <2>. QED BY <2>1, <2>2, <2>3 DEF InBounds
<1>18. CASE Cancels
      BY <1>18 DEF Numbers, InBounds, commandVars, serviceVars, releaseVars, historyVars, Cancels, Assists
<1>19. CASE Saves
      BY <1>19 DEF Numbers, InBounds, commandVars, serviceVars, releaseVars, historyVars, Saves, Assists
<1>20. CASE Previews
      BY <1>20 DEF Numbers, InBounds, commandVars, serviceVars, releaseVars, historyVars, Previews, Assists
<1>21. CASE Leaves
  <2>1. (enabled' \in BOOLEAN) /\ (started' \in BOOLEAN)
        BY <1>21, Zenon DEF Leaves, EnablesNow, InBounds, serviceVars
  <2>2. serving' <= Len(built)
        BY <1>21 DEF Leaves, EnablesNow, Disturbs, Start, InBounds, serviceVars
  <2>3. /\ UNCHANGED <<installer, config, built, current, unit, failedStarts>>
        /\ assistant' = Away /\ met' \subseteq Disturbances
        BY <1>21 DEF Leaves, EnablesNow, Disturbs, InBounds, releaseVars
  <2>. QED BY <2>1, <2>2, <2>3 DEF InBounds, Away
<1>22. CASE KeyboardInterrupt
      BY <1>22 DEF Numbers, InBounds, commandVars, serviceVars, releaseVars, historyVars, KeyboardInterrupt, Disturbs
<1>23. CASE Hangup
      BY <1>23 DEF Numbers, InBounds, commandVars, serviceVars, releaseVars, historyVars, Hangup, Disturbs, Away
<1>24. CASE TestEnds
      BY <1>24 DEF Numbers, InBounds, commandVars, serviceVars, releaseVars, historyVars, TestEnds
<1>25. CASE Edits
      BY <1>25 DEF Numbers, InBounds, commandVars, serviceVars, releaseVars, historyVars, Edits, Disturbs
<1>26. CASE PowerLoss
      BY <1>26 DEF Numbers, InBounds, commandVars, serviceVars, releaseVars, historyVars, PowerLoss, Idle, Away
<1>27. CASE UNCHANGED deploymentVars
      BY <1>27 DEF Numbers, InBounds, commandVars, serviceVars, releaseVars, historyVars, deploymentVars
<1>28. CASE Enables
      BY <1>28 DEF Numbers, InBounds, commandVars, serviceVars, releaseVars, historyVars, Enables
<1>. QED BY <1>1, <1>2, <1>3, <1>4, <1>5, <1>6, <1>7, <1>8, <1>9, <1>10, <1>11, <1>12, <1>13, <1>14, <1>15, <1>16, <1>17, <1>18, <1>19, <1>20, <1>21, <1>22, <1>23, <1>24, <1>25, <1>26, <1>27, <1>28 DEF DeploymentNext

DeploymentInv == Numbers /\ Whole /\ Alone /\ Served /\ Restartable /\ InBounds

\* The inductive invariant holds before the first command,
LEMMA DeploymentBegins == DeploymentInit => DeploymentInv
<1>1. ASSUME DeploymentInit PROVE Numbers
  <2>1. /\ built \in Seq(Revisions) /\ current \in Nat /\ unit \in Nat /\ serving \in Nat
        /\ service \in {"inactive", "starting", "up", "failing"}
        BY <1>1 DEF DeploymentInit
  <2>3. orphan \in BOOLEAN
        BY <1>1, Zenon DEF DeploymentInit
  <2>2. installer \in InstallerStates /\ assistant \in AssistantStates
        BY <1>1, IdleIsTyped DEF DeploymentInit
  <2>. QED BY <2>1, <2>2, <2>3 DEF Numbers
<1>2. DeploymentInit => Whole /\ Alone /\ Served
      BY DEF DeploymentInit, Whole, Alone, Served, Active, Idle, Away
<1>3. DeploymentInit => Restartable
      BY DEF DeploymentInit, Restartable, Idle, Away
<1>4. ASSUME DeploymentInit PROVE InBounds
  <2>1. (enabled \in BOOLEAN) /\ (started \in BOOLEAN)
        BY <1>4, Zenon DEF DeploymentInit
  <2>. QED BY <1>4, <2>1, DeploymentAssumption DEF DeploymentInit, InBounds, Idle, Away
<1>. QED BY <1>1, <1>2, <1>3, <1>4 DEF DeploymentInv

\* and every step of a command keeps it.
LEMMA DeploymentSteps == DeploymentInv /\ [DeploymentNext]_deploymentVars => DeploymentInv'
BY NumbersKept, WholeKept, AloneKept, ServedKept, RestartableKept, InBoundsKept DEF DeploymentInv

\* The inductive invariant of an installed service: what installer and assistant have read
\* is still so unless something that the history names came between.
THEOREM DeploymentInvariant == DeploymentSpec => []DeploymentInv
BY DeploymentBegins, DeploymentSteps, PTL DEF DeploymentSpec

\* However an update ends, unless it is interrupted or the power is lost, the unit file
\* was written from the release that the link names.
THEOREM UpdateIsWhole == DeploymentSpec => []UnitMatchesRelease
<1>1. DeploymentInv => UnitMatchesRelease
      BY DEF DeploymentInv, Whole, UnitMatchesRelease
<1>. QED BY <1>1, DeploymentInvariant, PTL

\* A hardware test has the device to itself, unless an update runs at the same time or
\* the assistant is interrupted.
THEOREM TestIsAlone == DeploymentSpec => []TestHasTheDevice
<1>1. DeploymentInv => TestHasTheDevice
      BY DEF DeploymentInv, Numbers, Alone, TestHasTheDevice, Active
<1>. QED BY <1>1, DeploymentInvariant, PTL

\* Between the commands the service runs the installed release.
THEOREM CurrentIsServed == DeploymentSpec => []ServesCurrent
<1>1. DeploymentInv => ServesCurrent
      BY DEF DeploymentInv, Served, ServesCurrent, NoCommand
<1>. QED BY <1>1, DeploymentInvariant, PTL

\* A service that was started once is enabled, and neither an update nor the assistant
\* leaves it stopped, whatever step of theirs fails, unless systemd refuses the start
\* that would undo the failure (install.sh, configure.py).
THEOREM StartedIsRestarted == DeploymentSpec => []StartedIsNotLeftStopped
<1>1. DeploymentInv => StartedIsNotLeftStopped
      BY DEF DeploymentInv, Restartable, StartedIsNotLeftStopped
<1>. QED BY <1>1, DeploymentInvariant, PTL

LEMMA DeploymentTypes == DeploymentInv => DeploymentTypeOK
<1>1. ASSUME Numbers, InBounds PROVE DeploymentTypeOK
  <2>1. built \in [1..Len(built) -> Revisions] /\ Len(built) \in 0..MaxBuilds
        BY <1>1, DeploymentAssumption DEF Numbers, InBounds
  <2>2. \E n \in 0..MaxBuilds : built \in [1..n -> Revisions]
        BY <2>1
  <2>3. built \in UNION {[1..n -> Revisions] : n \in 0..MaxBuilds}
        BY <2>2
  <2>4. {current, unit, serving, installer.old, installer.oldUnit} \subseteq 0..Len(built)
        BY <1>1 DEF Numbers, InBounds, InstallerStates
  <2>5. /\ installer.at \in InstallerAt /\ installer.oldActive \in BOOLEAN
        /\ assistant.at \in AssistantAt
        BY <1>1 DEF Numbers, InstallerStates, AssistantStates
  <2>. QED BY <1>1, <2>3, <2>4, <2>5, Zenon DEF DeploymentTypeOK, Numbers, InBounds
<1>. QED BY <1>1 DEF DeploymentInv

\* The types; and the link, the unit file, the running program and a rollback only name
\* releases that were built and verified.
THEOREM DeploymentIsTyped == DeploymentSpec => []DeploymentTypeOK
BY DeploymentInvariant, DeploymentTypes, PTL
-----------------------------------------------------------------------------
(***************************************************************************)
(* Both sides.                                                             *)
(***************************************************************************)

\* The states of both sides are well typed, whichever of them moves.
THEOREM ServiceIsTyped == ServiceSpec => []ServiceTypeOK
<1>1. ServiceInit => SupervisorInv /\ DeploymentInv
  BY SupervisorBegins, DeploymentBegins DEF ServiceInit
<1>2. SupervisorInv /\ DeploymentInv /\ [ServiceNext]_serviceRunVars => SupervisorInv' /\ DeploymentInv'
  <2> SUFFICES ASSUME SupervisorInv, DeploymentInv, [ServiceNext]_serviceRunVars
               PROVE  SupervisorInv' /\ DeploymentInv'
    OBVIOUS
  <2>1. [Next]_vars /\ [DeploymentNext]_deploymentVars
    BY DEF ServiceNext, serviceRunVars
  <2> QED
    BY <2>1, SupervisorSteps, DeploymentSteps
<1>3. SupervisorInv /\ DeploymentInv => ServiceTypeOK
  BY DeploymentTypes DEF SupervisorInv, DeploymentInv, ServiceTypeOK
<1> QED
  BY <1>1, <1>2, <1>3, PTL DEF ServiceSpec
=============================================================================
