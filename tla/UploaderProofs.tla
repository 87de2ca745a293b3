--------------------------- MODULE UploaderProofs ---------------------------
(***************************************************************************)
(* Proofs about the uploader.  Delays and learned limits survive crashes,  *)
(* for any number of spools, any answers and any settings of the clock:    *)
(* the inductive invariant says what memory and disk know of each other,   *)
(* that the process never forgets a delay that has reached a spool, that   *)
(* some spool holds it, and that the limits in memory are the lowest of    *)
(* all.  And every station gets its turn, for any number of stations, any  *)
(* queues and any limits of a request.                                     *)
(***************************************************************************)
EXTENDS MCUploader, BatchingProofs

\* Some spool holds the binding delay.
DelayIsOnDisk ==
    binding > 0 => \E s \in registered : binding <= disk[s]["next"]

\* A running process knows the delay, and the lowest limits.
MemoryIsCurrent ==
    pc # "down" =>
        /\ binding <= memory["next"]
        /\ \A s \in registered, a \in Attributes : memory[a] <= disk[s][a]

\* A request was made when it was due, within the limits of memory.
RequestIsCurrent ==
    pc = "sent" =>
        /\ memory["next"] <= request.at
        /\ \A a \in Attributes : request[a] <= memory[a]

LimitsAreConfigured ==
    /\ \A a \in Attributes : memory[a] <= Configured[a]
    /\ \A s \in Spools \ registered : disk[s] = Unwritten

PacingInv ==
    /\ TypeOK /\ IsFiniteSet(registered)
    /\ DelayIsOnDisk /\ MemoryIsCurrent /\ RequestIsCurrent /\ LimitsAreConfigured

LEMMA LargerIs ==
  ASSUME NEW a \in Int, NEW b \in Int
  PROVE  /\ Larger(a, b) \in Int /\ a <= Larger(a, b) /\ b <= Larger(a, b)
         /\ Larger(a, b) \in {a, b}
BY DEF Larger

LEMMA SmallerIs ==
  ASSUME NEW a \in Int, NEW b \in Int
  PROVE  /\ Smaller(a, b) \in Int /\ Smaller(a, b) <= a /\ Smaller(a, b) <= b
         /\ Smaller(a, b) \in {a, b}
BY DEF Smaller

LEMMA UnwrittenType ==
  /\ Unwritten \in [Keys -> Nat] /\ Unwritten["next"] = 0
  /\ \A a \in Attributes : Unwritten[a] = Configured[a] /\ Unwritten[a] > 0
BY PacingAssumption DEF Unwritten, Keys, Attributes

LEMMA InitPacingInv == Init => PacingInv
<1> SUFFICES ASSUME Init PROVE PacingInv
  OBVIOUS
<1>1. TypeOK
  <2>1. disk \in [Spools -> [Keys -> Nat]]
    BY UnwrittenType DEF Init
  <2> QED
    BY <2>1, UnwrittenType DEF Init, TypeOK
<1>2. IsFiniteSet(registered)
  BY FS_EmptySet DEF Init
<1> QED
  BY <1>1, <1>2, UnwrittenType, PacingAssumption
  DEF Init, PacingInv, DelayIsOnDisk, MemoryIsCurrent, RequestIsCurrent, LimitsAreConfigured,
      Attributes

\* What a new process reads back covers the binding delay and every limit.
LEMMA RecalledIs ==
  ASSUME PacingInv
  PROVE  /\ \A k \in Keys : Recalled(k) \in Nat
         /\ binding <= Recalled("next")
         /\ \A a \in Attributes : /\ Recalled(a) > 0 /\ Recalled(a) <= Configured[a]
                                  /\ \A s \in registered : Recalled(a) <= disk[s][a]
<1> DEFINE stored(k) == {disk[s][k] : s \in registered}
<1>0. /\ TypeOK /\ IsFiniteSet(registered) /\ DelayIsOnDisk /\ binding \in Nat
      /\ "next" \in Keys /\ "next" \notin Attributes /\ Attributes \subseteq Keys
      /\ \A k \in Keys : k = "next" \/ k \in Attributes
  BY DEF PacingInv, Keys, Attributes, TypeOK
<1>1. CASE registered = {}
  <2>1. \A k \in Keys : Recalled(k) = Unwritten[k]
    BY <1>1 DEF Recalled
  <2>2. binding = 0
    BY <1>0, <1>1 DEF DelayIsOnDisk
  <2> QED
    BY <1>0, <1>1, <2>1, <2>2, UnwrittenType, PacingAssumption
<1>2. CASE registered # {}
  <2>1. ASSUME NEW k \in Keys
        PROVE  /\ stored(k) \in SUBSET Nat /\ stored(k) # {} /\ IsFiniteSet(stored(k))
               /\ \A s \in registered : disk[s][k] \in stored(k)
    <3> DEFINE f == [s \in registered |-> disk[s][k]]
    <3>1. f \in Surjection(registered, stored(k))
      BY DEF Surjection
    <3>2. IsFiniteSet(stored(k))
      BY <1>0, <3>1, FS_Surjection
    <3>3. stored(k) \in SUBSET Nat
      BY <1>0 DEF TypeOK
    <3> QED
      BY <1>2, <3>2, <3>3
  <2>2. Recalled("next") = Max(stored("next"))
    BY <1>2 DEF Recalled
  <2>3. Recalled("next") \in Nat /\ \A s \in registered : disk[s]["next"] <= Recalled("next")
    <3> HIDE DEF stored
    <3> QED
      BY <1>0, <2>1, <2>2, MaxIsMember
  <2>4. binding <= Recalled("next")
    <3>1. CASE binding = 0
      BY <2>3, <3>1
    <3>2. CASE binding > 0
      <4>1. PICK s \in registered : binding <= disk[s]["next"]
        BY <1>0, <3>2 DEF DelayIsOnDisk
      <4>2. disk[s]["next"] \in Nat
        BY <1>0 DEF TypeOK
      <4> QED
        BY <1>0, <2>3, <4>1, <4>2
    <3> QED
      BY <1>0, <3>1, <3>2
  <2>5. ASSUME NEW a \in Attributes
        PROVE  /\ Recalled(a) \in Nat /\ Recalled(a) > 0 /\ Recalled(a) <= Configured[a]
               /\ \A s \in registered : Recalled(a) <= disk[s][a]
    <3>1. Recalled(a) = Smaller(Configured[a], Min(stored(a)))
      BY <1>0, <1>2 DEF Recalled
    <3>2. Min(stored(a)) \in stored(a) /\ \A b \in stored(a) : Min(stored(a)) <= b
      <4>1. a \in Keys
        BY <1>0
      <4> HIDE DEF stored
      <4> QED
        BY <4>1, <2>1, MinIsMember
    <3>3. Min(stored(a)) \in Nat /\ Min(stored(a)) > 0
      <4>1. PICK s \in registered : Min(stored(a)) = disk[s][a]
        BY <3>2
      <4>2. disk[s][a] \in Nat /\ disk[s][a] > 0
        BY <1>0 DEF TypeOK
      <4> QED
        BY <4>1, <4>2
    <3>4. \A s \in registered : Min(stored(a)) <= disk[s][a] /\ disk[s][a] \in Nat
      BY <1>0, <3>2 DEF TypeOK
    <3>5. Configured[a] \in Nat /\ Configured[a] > 0
      BY PacingAssumption
    <3> HIDE DEF stored
    <3> QED
      BY <3>1, <3>3, <3>4, <3>5, SmallerIs
  <2> QED
    BY <1>0, <2>3, <2>4, <2>5
<1> QED
  BY <1>1, <1>2

\* The process starts: nothing it reads back is weaker than what was promised.
LEMMA StartInv == PacingInv /\ Start => PacingInv'
<1> SUFFICES ASSUME PacingInv, Start PROVE PacingInv'
  OBVIOUS
<1>1. /\ pc' = "idle" /\ opened' = registered /\ failures' = 0
      /\ memory' = [k \in Keys |-> Recalled(k)]
      /\ UNCHANGED <<now, request, unsaved, registered, disk, binding, faults>>
  BY DEF Start, files
<1>2. /\ "next" \in Keys /\ Attributes \subseteq Keys /\ registered \subseteq Spools
  BY DEF PacingInv, TypeOK, Keys
<1>3. /\ memory' \in [Keys -> Nat] /\ binding <= memory'["next"]
      /\ \A a \in Attributes : /\ memory'[a] > 0 /\ memory'[a] <= Configured[a]
                               /\ \A s \in registered : memory'[a] <= disk[s][a]
  BY <1>1, <1>2, RecalledIs
<1>4. unsaved' \subseteq SUBSET (opened' \X Keys)
  BY <1>1 DEF PacingInv, TypeOK
<1>5. TypeOK'
  BY <1>1, <1>3, <1>4 DEF PacingInv, TypeOK
<1> QED
  BY <1>1, <1>3, <1>5
  DEF PacingInv, DelayIsOnDisk, MemoryIsCurrent, RequestIsCurrent, LimitsAreConfigured

\* The delay of an answer is longer than the one that was over when it was asked
\* for, and its limits are no looser.
LEMMA AnswerInv ==
  ASSUME PacingInv, pc = "sent", pc' = "saving", failures' \in Nat,
         memory' \in [Keys -> Nat], request.at <= memory'["next"],
         \A a \in Attributes : memory'[a] > 0 /\ memory'[a] <= memory[a],
         unsaved' \subseteq SUBSET (opened \X Keys),
         UNCHANGED <<now, opened, request, files, faults>>
  PROVE  PacingInv'
<1>1. UNCHANGED <<now, opened, request, registered, disk, binding, faults>>
  BY DEF files
<1>2. TypeOK'
  BY <1>1 DEF PacingInv, TypeOK
<1>3. MemoryIsCurrent'
  <2>1. binding <= memory'["next"]
    <3>1. binding \in Nat /\ memory["next"] \in Nat /\ memory'["next"] \in Nat /\ request.at \in Nat
      BY DEF PacingInv, TypeOK, Keys
    <3>2. binding <= memory["next"] /\ memory["next"] <= request.at
      BY DEF PacingInv, MemoryIsCurrent, RequestIsCurrent
    <3> QED
      BY <3>1, <3>2
  <2>2. ASSUME NEW s \in registered, NEW a \in Attributes PROVE memory'[a] <= disk[s][a]
    <3>1. memory[a] \in Nat /\ memory'[a] \in Nat /\ disk[s][a] \in Nat
      BY DEF PacingInv, TypeOK, Keys
    <3>2. memory[a] <= disk[s][a]
      BY DEF PacingInv, MemoryIsCurrent
    <3> QED
      BY <3>1, <3>2
  <2> QED
    BY <1>1, <2>1, <2>2 DEF MemoryIsCurrent
<1>4. LimitsAreConfigured'
  <2>1. ASSUME NEW a \in Attributes PROVE memory'[a] <= Configured[a]
    <3>1. memory[a] \in Nat /\ memory'[a] \in Nat /\ Configured[a] \in Nat
      BY PacingAssumption DEF PacingInv, TypeOK, Keys
    <3>2. memory[a] <= Configured[a]
      BY DEF PacingInv, LimitsAreConfigured
    <3> QED
      BY <3>1, <3>2
  <2> QED
    BY <1>1, <2>1 DEF PacingInv, LimitsAreConfigured
<1> QED
  BY <1>1, <1>2, <1>3, <1>4 DEF PacingInv, DelayIsOnDisk, RequestIsCurrent

LEMMA GlobalDelayInv ==
  ASSUME PacingInv, NEW minimum \in Nat, NEW limit \in Nat, limit > 0,
         limit <= memory["packets"], GlobalDelay(minimum, limit)
  PROVE  PacingInv'
<1>1. PICK d \in Backoff(failures + 1) :
        memory' = [memory EXCEPT !["next"] = request.at + Larger(minimum, d), !["packets"] = limit]
  BY DEF GlobalDelay
<1>2. d \in Int
  BY <1>1 DEF Backoff
<1>3. /\ memory \in [Keys -> Nat] /\ request.at \in Nat /\ failures \in Nat
      /\ "next" \in Keys /\ "packets" \in Keys
  BY DEF PacingInv, TypeOK, Keys, Attributes
<1>4. Larger(minimum, d) \in Nat
  BY <1>2, LargerIs
<1>5. memory' \in [Keys -> Nat] /\ memory'["next"] = request.at + Larger(minimum, d)
  BY <1>1, <1>3, <1>4
<1>6. ASSUME NEW a \in Attributes PROVE memory'[a] > 0 /\ memory'[a] <= memory[a]
  <2>1. a \in Keys /\ a # "next" /\ memory[a] \in Nat /\ memory[a] > 0
    BY DEF PacingInv, TypeOK, Keys, Attributes
  <2>2. memory'[a] = IF a = "packets" THEN limit ELSE memory[a]
    BY <1>1, <1>3, <2>1
  <2> QED
    BY <2>1, <2>2
<1>7. unsaved' \subseteq SUBSET (opened \X Keys)
  BY DEF GlobalDelay
<1>8. /\ pc = "sent" /\ pc' = "saving" /\ failures' \in Nat
      /\ UNCHANGED <<now, opened, request, files, faults>>
  BY <1>3 DEF GlobalDelay
<1>9. request.at <= memory'["next"]
  BY <1>3, <1>4, <1>5
<1> QED
  BY <1>5, <1>6, <1>7, <1>8, <1>9, AnswerInv

LEMMA RefusalInv ==
  PacingInv /\ (NoUsableAnswer \/ Refused \/ TooLarge) => PacingInv'
<1> SUFFICES ASSUME PacingInv, NoUsableAnswer \/ Refused \/ TooLarge PROVE PacingInv'
  OBVIOUS
<1>1. memory["packets"] \in Nat /\ memory["packets"] > 0 /\ memory["packets"] <= memory["packets"]
  BY DEF PacingInv, TypeOK, Keys, Attributes
<1>2. CASE NoUsableAnswer
  BY <1>1, <1>2, GlobalDelayInv DEF NoUsableAnswer
<1>3. CASE Refused
  <2>1. PICK after \in RetryAfters, permanent \in BOOLEAN :
          GlobalDelay(Larger(after, IF permanent THEN Refusal ELSE 0), memory["packets"])
    BY <1>3 DEF Refused
  <2>2. Larger(after, IF permanent THEN Refusal ELSE 0) \in Nat
    BY PacingAssumption DEF Larger
  <2> QED
    BY <1>1, <2>1, <2>2, GlobalDelayInv
<1>4. CASE TooLarge
  <2> DEFINE half == IF request.packets > 1 THEN Larger(1, request.packets \div 2)
                     ELSE memory["packets"]
  <2>1. PICK after \in RetryAfters : GlobalDelay(after, half)
    BY <1>4 DEF TooLarge
  <2>2. after \in Nat
    BY PacingAssumption
  <2>3. pc = "sent" /\ request.packets \in Nat /\ request.packets <= memory["packets"]
    BY <2>1 DEF GlobalDelay, PacingInv, TypeOK, RequestIsCurrent, Attributes
  <2>4. half \in Nat /\ half > 0 /\ half <= memory["packets"]
    BY <1>1, <2>3 DEF Larger
  <2> HIDE DEF half
  <2> QED
    BY <2>1, <2>2, <2>4, GlobalDelayInv
<1> QED
  BY <1>2, <1>3, <1>4

LEMMA AnsweredInv == PacingInv /\ Answered => PacingInv'
<1> SUFFICES ASSUME PacingInv, Answered PROVE PacingInv'
  OBVIOUS
<1>1. PICK after \in RetryAfters, advert \in Adverts :
        memory' = [k \in Keys |->
            IF k = "next" THEN request.at + Larger(SendInterval, after)
            ELSE IF Acceptable(advert, k) THEN Smaller(memory[k], advert[k]) ELSE memory[k]]
  BY DEF Answered
<1>2. Larger(SendInterval, after) \in Nat /\ request.at \in Nat
  BY PacingAssumption DEF Larger, PacingInv, TypeOK
<1>3. /\ memory'["next"] \in Nat /\ request.at <= memory'["next"]
  BY <1>1, <1>2 DEF Keys
<1>4. ASSUME NEW a \in Attributes
      PROVE  memory'[a] \in Nat /\ memory'[a] > 0 /\ memory'[a] <= memory[a]
  <2>1. a \in Keys /\ a # "next" /\ memory[a] \in Nat /\ memory[a] > 0
    BY DEF PacingInv, TypeOK, Keys, Attributes
  <2>2. advert[a] \in Int
    BY PacingAssumption
  <2>3. memory'[a] = IF Acceptable(advert, a) THEN Smaller(memory[a], advert[a]) ELSE memory[a]
    BY <1>1, <2>1
  <2> QED
    BY <2>1, <2>2, <2>3 DEF Acceptable, Smaller
<1>5. memory' \in [Keys -> Nat]
  <2>1. \A k \in Keys : memory'[k] \in Nat
    BY <1>3, <1>4 DEF Keys
  <2> QED
    BY <1>1, <2>1
<1>6. unsaved' \subseteq SUBSET (opened \X Keys)
  BY DEF Answered
<1>7. /\ pc = "sent" /\ pc' = "saving" /\ failures' \in Nat
      /\ UNCHANGED <<now, opened, request, files, faults>>
  BY DEF Answered
<1> QED
  BY <1>3, <1>4, <1>5, <1>6, <1>7, AnswerInv

\* A write puts what memory knows into a spool: it can only be later and tighter.
LEMMA SaveInv == PacingInv /\ Save => PacingInv'
<1> SUFFICES ASSUME PacingInv, Save PROVE PacingInv'
  OBVIOUS
<1>1. PICK writes \in unsaved :
        /\ unsaved' = unsaved \ {writes}
        /\ disk' = [s \in Spools |-> [k \in Keys |->
                       IF <<s, k>> \in writes THEN memory[k] ELSE disk[s][k]]]
        /\ binding' = IF \E w \in writes : w[2] = "next"
                      THEN Larger(binding, memory["next"]) ELSE binding
  BY DEF Save
<1>2. /\ pc = "saving"
      /\ UNCHANGED <<now, pc, opened, memory, failures, request, registered, faults>>
  BY DEF Save
<1>3. /\ memory \in [Keys -> Nat] /\ disk \in [Spools -> [Keys -> Nat]] /\ binding \in Nat
      /\ opened \subseteq registered /\ registered \subseteq Spools
      /\ writes \subseteq opened \X Keys
      /\ "next" \in Keys /\ Attributes \subseteq Keys
  BY <1>1 DEF PacingInv, TypeOK, Keys
<1>4. binding' \in Nat /\ binding' <= memory["next"]
  <2>1. binding <= memory["next"] /\ memory["next"] \in Nat
    BY <1>2, <1>3 DEF PacingInv, MemoryIsCurrent
  <2> QED
    BY <1>1, <1>3, <2>1 DEF Larger
<1>5. \A s \in Spools, k \in Keys :
        disk'[s][k] = IF <<s, k>> \in writes THEN memory[k] ELSE disk[s][k]
  BY <1>1
<1>6. disk' \in [Spools -> [Keys -> Nat]]
  <2>1. \A s \in Spools, k \in Keys :
          (IF <<s, k>> \in writes THEN memory[k] ELSE disk[s][k]) \in Nat
    BY <1>3
  <2> QED
    BY <1>1, <2>1
<1>7. ASSUME NEW s \in Spools, NEW a \in Attributes PROVE disk'[s][a] > 0
  <2>1. memory[a] > 0 /\ disk[s][a] > 0 /\ a \in Keys
    BY <1>3 DEF PacingInv, TypeOK
  <2> QED
    BY <1>5, <2>1
<1>8. TypeOK'
  <2>1. unsaved' \subseteq SUBSET (opened' \X Keys)
    BY <1>1, <1>2 DEF PacingInv, TypeOK
  <2>2. \A a \in Attributes : memory'[a] > 0 /\ \A s \in Spools : disk'[s][a] > 0
    BY <1>2, <1>7 DEF PacingInv, TypeOK
  <2> QED
    BY <1>2, <1>4, <1>6, <2>1, <2>2 DEF PacingInv, TypeOK
<1>9. DelayIsOnDisk'
  <2> SUFFICES ASSUME binding' > 0 PROVE \E s \in registered : binding' <= disk'[s]["next"]
    BY <1>2 DEF DelayIsOnDisk
  <2>1. CASE \E w \in writes : w[2] = "next"
    <3>1. PICK w \in writes : w[2] = "next"
      BY <2>1
    <3>2. w[1] \in registered /\ w = <<w[1], "next">>
      BY <1>3, <3>1
    <3>3. disk'[w[1]]["next"] = memory["next"]
      BY <1>3, <1>5, <3>2
    <3> QED
      BY <1>4, <3>2, <3>3
  <2>2. CASE ~ \E w \in writes : w[2] = "next"
    <3>1. binding' = binding
      BY <1>1, <2>2
    <3>2. PICK s \in registered : binding <= disk[s]["next"]
      BY <3>1 DEF PacingInv, DelayIsOnDisk
    <3>3. disk'[s]["next"] = disk[s]["next"]
      BY <1>3, <1>5, <2>2
    <3> QED
      BY <3>1, <3>2, <3>3
  <2> QED
    BY <2>1, <2>2
<1>10. ASSUME NEW s \in registered, NEW a \in Attributes PROVE memory[a] <= disk'[s][a]
  <2>1. memory[a] <= disk[s][a] /\ memory[a] \in Nat /\ a \in Keys
    BY <1>2, <1>3 DEF PacingInv, MemoryIsCurrent
  <2>2. disk'[s][a] = IF <<s, a>> \in writes THEN memory[a] ELSE disk[s][a]
    BY <1>3, <1>5
  <2> QED
    BY <2>1, <2>2
<1>11. ASSUME NEW s \in Spools \ registered PROVE disk'[s] = Unwritten
  <2>1. \A k \in Keys : <<s, k>> \notin writes
    BY <1>3
  <2>2. disk'[s] = [k \in Keys |-> disk[s][k]]
    BY <1>1, <2>1
  <2>3. disk[s] = Unwritten
    BY DEF PacingInv, LimitsAreConfigured
  <2> QED
    BY <2>2, <2>3 DEF Unwritten
<1> QED
  BY <1>2, <1>4, <1>8, <1>9, <1>10, <1>11
  DEF PacingInv, MemoryIsCurrent, RequestIsCurrent, LimitsAreConfigured

\* A tick that sends, or finds nothing to send, or comes too early.
LEMMA TurnInv ==
  PacingInv /\ (TooEarly \/ NothingToSend \/ Send) => PacingInv'
<1> SUFFICES ASSUME PacingInv, TooEarly \/ NothingToSend \/ Send PROVE PacingInv'
  OBVIOUS
<1>0. TypeOK /\ "next" \in Keys /\ SendInterval \in Nat
  BY PacingAssumption DEF PacingInv, Keys
<1>1. /\ pc = "idle" /\ opened' = registered
      /\ UNCHANGED <<now, failures, unsaved, registered, disk, binding, faults>>
  BY DEF TooEarly, NothingToSend, Send, Due, files
<1>2. unsaved' \subseteq SUBSET (opened' \X Keys)
  BY <1>0, <1>1 DEF TypeOK
<1>3. binding <= memory["next"] /\ memory["next"] \in Nat /\ now \in Nat /\ binding \in Nat
  BY <1>0, <1>1 DEF PacingInv, TypeOK, MemoryIsCurrent
<1>4. CASE TooEarly
  <2>1. UNCHANGED <<pc, memory, request>>
    BY <1>4 DEF TooEarly
  <2> QED
    BY <1>0, <1>1, <1>2, <2>1
    DEF PacingInv, TypeOK, DelayIsOnDisk, MemoryIsCurrent, RequestIsCurrent, LimitsAreConfigured
<1>5. CASE NothingToSend
  <2>1. /\ memory' = [memory EXCEPT !["next"] = now + SendInterval] /\ memory["next"] <= now
        /\ UNCHANGED <<pc, request>>
    BY <1>5 DEF NothingToSend, Due
  <2>2. /\ memory' \in [Keys -> Nat] /\ binding <= memory'["next"]
        /\ \A a \in Attributes : memory'[a] = memory[a]
    BY <1>0, <1>3, <2>1 DEF TypeOK, Keys, Attributes
  <2> QED
    BY <1>0, <1>1, <1>2, <2>1, <2>2
    DEF PacingInv, TypeOK, DelayIsOnDisk, MemoryIsCurrent, RequestIsCurrent, LimitsAreConfigured
<1>6. CASE Send
  <2>1. PICK p \in 1..memory["packets"], b \in 1..memory["bytes"] :
          request' = [at |-> now, packets |-> p, bytes |-> b]
    BY <1>6 DEF Send
  <2>2. pc' = "sent" /\ memory' = memory /\ memory["next"] <= now
    BY <1>6 DEF Send, Due
  <2>3. memory["packets"] \in Nat /\ memory["bytes"] \in Nat
    BY <1>0 DEF TypeOK, Keys, Attributes
  <2>4. /\ p \in Nat /\ p <= memory["packets"] /\ b \in Nat /\ b <= memory["bytes"]
    BY <2>1, <2>3
  <2>5. /\ request' \in [at : Nat, packets : Nat, bytes : Nat]
        /\ memory["next"] <= request'.at /\ \A a \in Attributes : request'[a] <= memory[a]
    BY <1>3, <2>1, <2>2, <2>4 DEF Attributes
  <2> QED
    BY <1>0, <1>1, <1>2, <2>2, <2>5
    DEF PacingInv, TypeOK, DelayIsOnDisk, MemoryIsCurrent, RequestIsCurrent, LimitsAreConfigured
<1> QED
  BY <1>4, <1>5, <1>6

\* What the surroundings do, and what ends without a write.
LEMMA SurroundingsInv ==
  PacingInv /\ (Tick \/ ClockIsSetBack \/ Crash \/ EndOfTick) => PacingInv'
<1> SUFFICES ASSUME PacingInv, Tick \/ ClockIsSetBack \/ Crash \/ EndOfTick PROVE PacingInv'
  OBVIOUS
<1>1. /\ pc' \in {pc, "down", "idle"} /\ (pc' # pc => pc' = "down" \/ pc = "saving")
      /\ unsaved' \subseteq unsaved
      /\ UNCHANGED <<opened, memory, failures, request, registered, disk, binding>>
  BY DEF Tick, ClockIsSetBack, Crash, EndOfTick, process, files
<1>2. now' \in Nat /\ faults' \in Nat
  <2>1. now \in Nat /\ faults \in Nat
    BY DEF PacingInv, TypeOK
  <2>2. CASE ClockIsSetBack
    BY <2>1, <2>2 DEF ClockIsSetBack, Fault
  <2>3. CASE Tick \/ Crash \/ EndOfTick
    BY <2>1, <2>3 DEF Tick, Crash, EndOfTick, Fault
  <2> QED
    BY <2>2, <2>3
<1>3. TypeOK'
  <2>1. pc' \in {"down", "idle", "sent", "saving"} /\ unsaved' \subseteq SUBSET (opened' \X Keys)
    BY <1>1 DEF PacingInv, TypeOK
  <2> QED
    BY <1>1, <1>2, <2>1 DEF PacingInv, TypeOK
<1> QED
  BY <1>1, <1>3
  DEF PacingInv, DelayIsOnDisk, MemoryIsCurrent, RequestIsCurrent, LimitsAreConfigured

\* A new spool holds the limits of the configuration, the loosest there are.
LEMMA SensorAppearsInv ==
  ASSUME PacingInv, NEW d \in Spools, SensorAppears(d)
  PROVE  PacingInv'
<1>1. /\ d \notin registered /\ registered' = registered \cup {d}
      /\ UNCHANGED <<now, pc, opened, memory, failures, request, unsaved, disk, binding, faults>>
  BY DEF SensorAppears, process
<1>2. TypeOK' /\ IsFiniteSet(registered')
  BY <1>1, FS_AddElement DEF PacingInv, TypeOK
<1>3. ASSUME NEW a \in Attributes PROVE memory[a] <= disk[d][a]
  <2>1. disk[d] = Unwritten
    BY <1>1 DEF PacingInv, LimitsAreConfigured
  <2> QED
    BY <2>1, UnwrittenType DEF PacingInv, LimitsAreConfigured
<1> QED
  BY <1>1, <1>2, <1>3
  DEF PacingInv, DelayIsOnDisk, MemoryIsCurrent, RequestIsCurrent, LimitsAreConfigured

LEMMA NextPacingInv == PacingInv /\ [Next]_vars => PacingInv'
<1> SUFFICES ASSUME PacingInv, [Next]_vars PROVE PacingInv'
  OBVIOUS
<1>1. CASE UNCHANGED vars
  BY <1>1 DEF vars, process, files, PacingInv, TypeOK, DelayIsOnDisk, MemoryIsCurrent,
              RequestIsCurrent, LimitsAreConfigured
<1>2. CASE Next
  BY <1>2, SurroundingsInv, SensorAppearsInv, StartInv, TurnInv, RefusalInv, AnsweredInv, SaveInv
  DEF Next
<1> QED
  BY <1>1, <1>2

\* What memory and disk know of each other, in every reachable state.
THEOREM PacingInvariant == Spec => []PacingInv
BY InitPacingInv, NextPacingInv, PTL DEF Spec

\* Every reachable state is well typed: limits stay positive.
THEOREM PacingTyped == Spec => []TypeOK
<1>1. PacingInv => TypeOK
  BY DEF PacingInv
<1> QED
  BY <1>1, PacingInvariant, PTL

\* No process sends before a delay is over that has reached any spool.
THEOREM DelaysAreKept == Spec => DelaysSurviveRestarts
<1>1. PacingInv /\ [Next]_vars => [pc = "idle" /\ pc' = "sent" => binding <= now]_vars
  <2> SUFFICES ASSUME PacingInv, Next, pc = "idle", pc' = "sent" PROVE binding <= now
    OBVIOUS
  <2>1. Send
    BY DEF Next, Tick, ClockIsSetBack, Crash, SensorAppears, Start, TooEarly, NothingToSend,
           NoUsableAnswer, Refused, TooLarge, GlobalDelay, Answered, Save, EndOfTick, process
  <2>2. memory["next"] <= now /\ binding <= memory["next"]
    BY <2>1 DEF Send, Due, PacingInv, MemoryIsCurrent
  <2>3. memory["next"] \in Nat /\ now \in Nat /\ binding \in Nat
    BY DEF PacingInv, TypeOK, Keys
  <2> QED
    BY <2>2, <2>3
<1> QED
  BY <1>1, PacingInvariant, PTL DEF Spec, DelaysSurviveRestarts

\* No request is larger than a limit any spool has on disk.
THEOREM RequestsAreWithinLimits == Spec => []RequestsKeepLearnedLimits
<1>1. PacingInv => RequestsKeepLearnedLimits
  <2> SUFFICES ASSUME PacingInv, pc = "sent", NEW s \in registered, NEW a \in Attributes
               PROVE  request[a] <= disk[s][a]
    BY DEF RequestsKeepLearnedLimits
  <2>1. request[a] <= memory[a] /\ memory[a] <= disk[s][a]
    BY DEF PacingInv, RequestIsCurrent, MemoryIsCurrent
  <2>2. request[a] \in Nat /\ memory[a] \in Nat /\ disk[s][a] \in Nat
    BY DEF PacingInv, TypeOK, Keys, Attributes
  <2> QED
    BY <2>1, <2>2
<1> QED
  BY <1>1, PacingInvariant, PTL

\* No write loosens a limit on disk.
THEOREM LimitsOnlyTighten == Spec => LearnedLimitsOnlyTighten
<1>1. PacingInv /\ [Next]_vars =>
        [\A s \in Spools, a \in Attributes : disk'[s][a] <= disk[s][a]]_vars
  <2> SUFFICES ASSUME PacingInv, Next, NEW s \in Spools, NEW a \in Attributes
               PROVE  disk'[s][a] <= disk[s][a]
    OBVIOUS
  <2>0. disk[s][a] \in Nat /\ memory[a] \in Nat /\ a \in Keys
    BY DEF PacingInv, TypeOK, Keys
  <2>1. CASE Save
    <3>1. PICK writes \in unsaved :
            disk' = [t \in Spools |-> [k \in Keys |->
                        IF <<t, k>> \in writes THEN memory[k] ELSE disk[t][k]]]
      BY <2>1 DEF Save
    <3>2. disk'[s][a] = IF <<s, a>> \in writes THEN memory[a] ELSE disk[s][a]
      BY <2>0, <3>1
    <3>3. <<s, a>> \in writes => s \in registered /\ pc # "down"
      BY <2>1, <3>1 DEF Save, PacingInv, TypeOK
    <3> QED
      BY <2>0, <3>2, <3>3 DEF PacingInv, MemoryIsCurrent
  <2>2. CASE ~Save
    <3>1. disk' = disk
      BY <2>2 DEF Next, Tick, ClockIsSetBack, Crash, SensorAppears, Start, TooEarly, NothingToSend,
                  Send, NoUsableAnswer, Refused, TooLarge, GlobalDelay, Answered, EndOfTick, files
    <3> QED
      BY <2>0, <3>1
  <2> QED
    BY <2>1, <2>2
<1> QED
  BY <1>1, PacingInvariant, PTL DEF Spec, LearnedLimitsOnlyTighten
-----------------------------------------------------------------------------
(* The rotation of the stations, and of the two ends of their queues.      *)

\* How far the spool of a station is from the one whose turn it is.
Ahead(s) == Distance(Index[s], front, Cardinality(Stations))

\* A station has waited for as many ticks as its spool has come nearer, at most.
WaitsItsTurn == \A s \in Stations : waited[s] + Ahead(s) < Cardinality(Stations)

\* A station whose newest row was left out begins with it next time.
NewestIsNext == \A s \in Stations : missed[s] = 0 \/ (missed[s] = 1 /\ newestFirst[s])

\* No reading is longer than this, neither those queued before nor those to come.
ReadingsWithin(longest) ==
    \A s \in Stations : /\ LiveSize[s] <= longest
                        /\ \A i \in DOMAIN Backlog[s] : Backlog[s][i] <= longest

RowsWithin(longest) == \A s \in Stations : \A i \in DOMAIN queue[s] : queue[s][i].size <= longest

\* Every reading fits into a request of its own.
ReadingsFit == ReadingsWithin(Limit.bytes)

\* A request has room for as many of the longest readings as it may carry, or for one of each
\* station, so that its length never is what keeps out the readings that stations begin with.
BeginningsFit(longest) ==
    /\ ReadingsWithin(longest)
    /\ \/ Limit.packets * longest <= Limit.bytes
       \/ Cardinality(Stations) * longest <= Limit.bytes

\* The remainder, for the numbers that a turn of the spools needs.
LEMMA DistanceIs ==
  ASSUME NEW n \in Nat \ {0}, NEW i \in 0..n - 1, NEW f \in 0..n - 1
  PROVE  Distance(i, f, n) = IF f <= i THEN i - f ELSE i + n - f
<1> DEFINE gap == i + n - f
<1>1. gap \in 0..2 * n - 1 /\ (f <= i <=> n <= gap)
  OBVIOUS
<1>2. Distance(i, f, n) = gap % n
  BY DEF Distance
<1> HIDE DEF gap
<1>3. gap % n = IF n <= gap THEN gap - n ELSE gap
  BY <1>1
<1> QED
  BY <1>1, <1>2, <1>3 DEF gap

LEMMA NextFrontIs ==
  ASSUME NEW n \in Nat \ {0}, front \in 0..n - 1
  PROVE  NextFront(n) = IF front = n - 1 THEN 0 ELSE front + 1
BY DEF NextFront

\* In a tick every spool comes one place nearer, and the one whose turn it was goes to the end.
LEMMA AheadIs ==
  ASSUME RotationTypeOK, NEW s \in Stations
  PROVE  /\ Cardinality(Stations) \in Nat \ {0} /\ Ahead(s) \in 0..Cardinality(Stations) - 1
         /\ Distance(Index[s], NextFront(Cardinality(Stations)), Cardinality(Stations))
            = IF Ahead(s) = 0 THEN Cardinality(Stations) - 1 ELSE Ahead(s) - 1
         /\ \A t \in Stations : Ahead(s) = 0 /\ Ahead(t) = 0 => s = t
<1> DEFINE n == Cardinality(Stations)
<1>1. n \in Nat \ {0}
  BY FairnessAssumption, FS_CardinalityType, FS_EmptySet
<1>2. front \in 0..n - 1 /\ \A t \in Stations : Index[t] \in 0..n - 1
  BY FairnessAssumption DEF RotationTypeOK
<1>3. \A t \in Stations : Ahead(t) = IF front <= Index[t] THEN Index[t] - front ELSE Index[t] + n - front
  BY <1>1, <1>2, DistanceIs DEF Ahead
<1>4. NextFront(n) = IF front = n - 1 THEN 0 ELSE front + 1
  BY <1>1, <1>2, NextFrontIs
<1>5. NextFront(n) \in 0..n - 1
  BY <1>1, <1>2, <1>4
<1>6. Distance(Index[s], NextFront(n), n)
      = IF NextFront(n) <= Index[s] THEN Index[s] - NextFront(n) ELSE Index[s] + n - NextFront(n)
  BY <1>1, <1>2, <1>5, DistanceIs
<1> HIDE DEF n
<1>7. Distance(Index[s], NextFront(n), n) = IF Ahead(s) = 0 THEN n - 1 ELSE Ahead(s) - 1
  BY <1>1, <1>2, <1>3, <1>4, <1>6
<1>8. Ahead(s) \in 0..n - 1
  BY <1>1, <1>2, <1>3
<1>9. \A t \in Stations : Ahead(s) = 0 /\ Ahead(t) = 0 => s = t
  <2> SUFFICES ASSUME NEW t \in Stations, Ahead(s) = 0, Ahead(t) = 0 PROVE s = t
    OBVIOUS
  <2>1. Index[s] = front /\ Index[t] = front
    BY <1>1, <1>2, <1>3
  <2> QED
    BY <2>1, FairnessAssumption
<1> QED
  BY <1>1, <1>7, <1>8, <1>9 DEF n

\* The rows that a station offers, as Pick gets them.
DueRows == [s \in Stations |-> RowsOf(s)]
PositionOf == [r \in Rows |-> r[2]]
LengthOf == [r \in Rows |-> queue[r[1]][r[2]].size]
TurnOf(s, i) == Turn(<<s, i>>, RowsOf(s), PositionOf, newestFirst[s])
PlaceOf(s, i) == Cardinality(Stations) * TurnOf(s, i) + Ahead(s)
Offers == Offered(DueRows, PositionOf, newestFirst, Index, front, Limit)

LEMMA RowsAreCounted ==
  ASSUME NEW s, NEW m \in Nat
  PROVE  IsFiniteSet({s} \X (1..m)) /\ Cardinality({s} \X (1..m)) = m
<1>1. IsFiniteSet(1..m)
  BY FS_Interval
<1>2. Cardinality(1..m) = m
  <2>1. Cardinality(1..m) = IF 1 > m THEN 0 ELSE m - 1 + 1
    BY FS_Interval
  <2> QED
    BY <2>1
<1>3. IsFiniteSet({s}) /\ Cardinality({s}) = 1
  BY FS_Singleton
<1> QED
  BY <1>1, <1>2, <1>3, FS_Product

LEMMA RowsAre ==
  ASSUME RotationTypeOK, NEW s \in Stations
  PROVE  /\ Len(queue[s]) \in Nat /\ DOMAIN queue[s] = 1..Len(queue[s])
         /\ RowsOf(s) = {s} \X (1..Len(queue[s])) /\ RowsOf(s) \subseteq Rows
         /\ \A m \in Nat : IsFiniteSet({s} \X (1..m)) /\ Cardinality({s} \X (1..m)) = m
         /\ \A i \in 1..Len(queue[s]) : /\ queue[s][i] \in Row /\ queue[s][i].size \in Nat \ {0}
                                        /\ <<s, i>> \in Rows /\ <<s, i>> \in RowsOf(s)
                                        /\ PositionOf[<<s, i>>] = i
                                        /\ LengthOf[<<s, i>>] = queue[s][i].size
<1>1. queue[s] \in Seq(Row)
  BY DEF RotationTypeOK
<1>2. Len(queue[s]) \in Nat /\ DOMAIN queue[s] = 1..Len(queue[s])
  BY <1>1
<1>3. RowsOf(s) = {s} \X (1..Len(queue[s]))
  BY <1>2 DEF RowsOf
<1>4. RowsOf(s) \subseteq Rows
  BY DEF Rows
<1>5. \A m \in Nat : IsFiniteSet({s} \X (1..m)) /\ Cardinality({s} \X (1..m)) = m
  BY RowsAreCounted
<1>6. ASSUME NEW i \in 1..Len(queue[s])
      PROVE  /\ queue[s][i] \in Row /\ queue[s][i].size \in Nat \ {0}
             /\ <<s, i>> \in Rows /\ <<s, i>> \in RowsOf(s)
             /\ PositionOf[<<s, i>>] = i /\ LengthOf[<<s, i>>] = queue[s][i].size
  <2>1. <<s, i>> \in RowsOf(s)
    BY <1>3
  <2>2. queue[s][i] \in Row
    BY <1>1, <1>2
  <2> QED
    BY <1>4, <2>1, <2>2 DEF Row, PositionOf, LengthOf
<1> QED
  BY <1>2, <1>3, <1>4, <1>5, <1>6

\* A station begins with its oldest row or with its newest, and with no other.
LEMMA TurnIs ==
  ASSUME RotationTypeOK, NEW s \in Stations, NEW i \in 1..Len(queue[s])
  PROVE  /\ TurnOf(s, i) \in Nat
         /\ TurnOf(s, i) = 0 <=> i = IF newestFirst[s] THEN Len(queue[s]) ELSE 1
<1> DEFINE L == Len(queue[s])
           D == RowsOf(s)
           older == Cardinality({f \in D : PositionOf[f] < PositionOf[<<s, i>>]})
<1>1. L \in Nat /\ i \in 1..L /\ D = {s} \X (1..L)
  BY RowsAre
<1>2. {f \in D : PositionOf[f] < PositionOf[<<s, i>>]} = {s} \X (1..i - 1)
  <2>1. ASSUME NEW f \in D PROVE PositionOf[f] < PositionOf[<<s, i>>] <=> f \in {s} \X (1..i - 1)
    <3>1. PICK k \in 1..L : f = <<s, k>>
      BY <1>1
    <3>2. PositionOf[f] = k /\ PositionOf[<<s, i>>] = i
      BY <3>1, RowsAre
    <3>3. f \in {s} \X (1..i - 1) <=> k \in 1..i - 1
      BY <3>1
    <3> QED
      BY <1>1, <3>1, <3>2, <3>3
  <2>2. {s} \X (1..i - 1) \subseteq D
    BY <1>1
  <2> DEFINE X == {s} \X (1..i - 1)
             P(f) == PositionOf[f] < PositionOf[<<s, i>>]
  <2>3. X \subseteq D /\ \A f \in D : P(f) <=> f \in X
    BY <2>1, <2>2
  <2> HIDE DEF D, X, P
  <2>4. {f \in D : P(f)} = X
    BY <2>3
  <2> QED
    BY <2>4 DEF X, P
<1>3. older = i - 1 /\ Cardinality(D) = L
  <2>1. i - 1 \in Nat
    BY <1>1
  <2>2. Cardinality({s} \X (1..i - 1)) = i - 1
    BY <2>1, RowsAreCounted
  <2>3. Cardinality({s} \X (1..L)) = L
    BY <1>1, RowsAreCounted
  <2>4. older = Cardinality({s} \X (1..i - 1))
    BY <1>2
  <2>5. Cardinality(D) = Cardinality({s} \X (1..L))
    BY <1>1
  <2> HIDE DEF older, L, D
  <2> QED
    BY <2>2, <2>3, <2>4, <2>5
<1> DEFINE newer == Cardinality(D) - 1 - older
           fromFirst == IF newestFirst[s] THEN newer ELSE older
           fromSecond == IF newestFirst[s] THEN older ELSE newer
<1>4. TurnOf(s, i) = IF 2 * fromFirst < 2 * fromSecond + 1 THEN 2 * fromFirst ELSE 2 * fromSecond + 1
  BY DEF TurnOf, Turn
<1>5. newer = L - i
  BY <1>1, <1>3
<1> HIDE DEF older, newer, L, D
<1>6. CASE newestFirst[s]
  <2>1. fromFirst = L - i /\ fromSecond = i - 1
    BY <1>3, <1>5, <1>6
  <2> HIDE DEF fromFirst, fromSecond
  <2>2. TurnOf(s, i) \in Nat /\ (TurnOf(s, i) = 0 <=> i = L)
    BY <1>1, <1>4, <2>1
  <2> QED
    BY <1>6, <2>2 DEF L
<1>7. CASE ~newestFirst[s]
  <2>1. fromFirst = i - 1 /\ fromSecond = L - i
    BY <1>3, <1>5, <1>7
  <2> HIDE DEF fromFirst, fromSecond
  <2>2. TurnOf(s, i) \in Nat /\ (TurnOf(s, i) = 0 <=> i = 1)
    BY <1>1, <1>4, <2>1
  <2> QED
    BY <1>7, <2>2 DEF L
<1> QED
  BY <1>6, <1>7

\* What is offered, and what is chosen of it.
LEMMA OffersAre ==
  ASSUME RotationTypeOK
  PROVE  /\ Picked = Inspected(Offers, LengthOf, Limit)
         /\ IsFiniteSet(Offers) /\ \A p \in Offers : p[1] \in Nat /\ p[2] \in Rows
         /\ \A s \in Stations : \A i \in 1..Len(queue[s]) :
              TurnOf(s, i) < Limit.packets => <<PlaceOf(s, i), <<s, i>>>> \in Offers
         /\ \A p \in Offers : \E s \in Stations : \E i \in 1..Len(queue[s]) :
              p = <<PlaceOf(s, i), <<s, i>>>>
         /\ \A p, q \in Offers : p[2] = q[2] => p = q
         /\ Picked.chosen \subseteq {p[2] : p \in Offers}
<1>1. Picked = Inspected(Offers, LengthOf, Limit)
  BY PickInspectsTheOffered DEF Picked, Offers, DueRows, PositionOf, LengthOf
<1>2. DOMAIN DueRows = Stations /\ IsFiniteSet(DOMAIN DueRows) /\ front \in Int
  BY FairnessAssumption DEF DueRows, RotationTypeOK
<1>3. ASSUME NEW s \in DOMAIN DueRows
      PROVE  /\ Index[s] \in Int /\ IsFiniteSet(DueRows[s])
             /\ \A e \in DueRows[s] : PositionOf[e] \in Int
  <2>1. s \in Stations /\ DueRows[s] = {s} \X (1..Len(queue[s])) /\ Len(queue[s]) \in Nat
    BY RowsAre DEF DueRows
  <2>2. ASSUME NEW e \in {s} \X (1..Len(queue[s])) PROVE PositionOf[e] \in Int
    <3>1. e[2] \in 1..Len(queue[s]) /\ e = <<s, e[2]>>
      OBVIOUS
    <3>2. PositionOf[<<s, e[2]>>] = e[2]
      BY <2>1, <3>1, RowsAre
    <3> QED
      BY <2>1, <3>1, <3>2
  <2>3. IsFiniteSet({s} \X (1..Len(queue[s])))
    BY <2>1, RowsAre
  <2>4. Index[s] \in Int
    BY <2>1, FairnessAssumption
  <2> QED
    BY <2>1, <2>2, <2>3, <2>4
<1>4. /\ IsFiniteSet(Offers)
      /\ \A p \in Offers : p[1] \in Nat /\ \E s \in DOMAIN DueRows : p[2] \in DueRows[s]
  BY <1>2, <1>3, OfferedIsFinite DEF Offers
<1>5. \A p \in Offers : p[2] \in Rows
  BY <1>2, <1>4 DEF DueRows, Rows
<1>6. Offers = UNION {{<<PlaceOf(s, e[2]), e>> :
                         e \in {f \in RowsOf(s) : TurnOf(s, f[2]) < Limit.packets}} : s \in Stations}
  <2>1. ASSUME NEW s \in Stations, NEW e \in RowsOf(s)
        PROVE  Turn(e, RowsOf(s), PositionOf, newestFirst[s]) = TurnOf(s, e[2])
    <3>1. e = <<s, e[2]>>
      BY RowsAre
    <3> QED
      BY <3>1 DEF TurnOf
  <2>2. ASSUME NEW s \in Stations
        PROVE  {<<Cardinality(DOMAIN DueRows) * Turn(e, DueRows[s], PositionOf, newestFirst[s])
                     + Distance(Index[s], front, Cardinality(DOMAIN DueRows)), e>> :
                  e \in Candidates(DueRows[s], PositionOf, newestFirst[s], Limit.packets)}
               = {<<PlaceOf(s, e[2]), e>> :
                    e \in {f \in RowsOf(s) : TurnOf(s, f[2]) < Limit.packets}}
    <3>1. DueRows[s] = RowsOf(s)
      BY DEF DueRows
    <3>2. Candidates(RowsOf(s), PositionOf, newestFirst[s], Limit.packets)
          = {f \in RowsOf(s) : TurnOf(s, f[2]) < Limit.packets}
      BY <2>1 DEF Candidates
    <3> QED
      BY <1>2, <2>1, <3>1, <3>2 DEF PlaceOf, Ahead
  <2> QED
    BY <1>2, <2>2 DEF Offers, Offered
<1>7. ASSUME NEW s \in Stations, NEW i \in 1..Len(queue[s]), TurnOf(s, i) < Limit.packets
      PROVE  <<PlaceOf(s, i), <<s, i>>>> \in Offers
  <2> DEFINE e == <<s, i>>
  <2>1. e \in {f \in RowsOf(s) : TurnOf(s, f[2]) < Limit.packets} /\ e[2] = i
    BY <1>7, RowsAre
  <2> HIDE DEF e
  <2>2. <<PlaceOf(s, e[2]), e>> \in Offers
    BY <1>6, <2>1
  <2> QED
    BY <2>1, <2>2 DEF e
<1>8. ASSUME NEW p \in Offers
      PROVE  \E s \in Stations : \E i \in 1..Len(queue[s]) : p = <<PlaceOf(s, i), <<s, i>>>>
  <2>1. PICK s \in Stations : \E e \in RowsOf(s) : p = <<PlaceOf(s, e[2]), e>>
    BY <1>6
  <2>0. PICK e \in RowsOf(s) : p = <<PlaceOf(s, e[2]), e>>
    BY <2>1
  <2>2. e[2] \in 1..Len(queue[s]) /\ e = <<s, e[2]>>
    BY RowsAre
  <2> QED
    BY <2>0, <2>2
<1>9. \A p, q \in Offers : p[2] = q[2] => p = q
  <2> SUFFICES ASSUME NEW p \in Offers, NEW q \in Offers, p[2] = q[2] PROVE p = q
    OBVIOUS
  <2>1. PICK s \in Stations : \E i \in 1..Len(queue[s]) : p = <<PlaceOf(s, i), <<s, i>>>>
    BY <1>8
  <2>2. PICK i \in 1..Len(queue[s]) : p = <<PlaceOf(s, i), <<s, i>>>>
    BY <2>1
  <2>3. PICK t \in Stations : \E j \in 1..Len(queue[t]) : q = <<PlaceOf(t, j), <<t, j>>>>
    BY <1>8
  <2>4. PICK j \in 1..Len(queue[t]) : q = <<PlaceOf(t, j), <<t, j>>>>
    BY <2>3
  <2>5. s = t /\ i = j
    BY <2>2, <2>4
  <2> QED
    BY <2>2, <2>4, <2>5
<1>10. Picked.chosen \subseteq {p[2] : p \in Offers}
  <2> DEFINE E == {p[2] : p \in Offers}
  <2>1. \A p \in Offers : p[2] \in E
    OBVIOUS
  <2>2. \A f \in E : LengthOf[f] \in Nat
    <3> SUFFICES ASSUME NEW p \in Offers PROVE LengthOf[p[2]] \in Nat
      OBVIOUS
    <3>1. PICK s \in Stations : \E i \in 1..Len(queue[s]) : p = <<PlaceOf(s, i), <<s, i>>>>
      BY <1>8
    <3>2. PICK i \in 1..Len(queue[s]) : p = <<PlaceOf(s, i), <<s, i>>>>
      BY <3>1
    <3> QED
      BY <3>2, RowsAre
  <2>3. Limit.packets \in Nat /\ Limit.bytes \in Nat
    BY FairnessAssumption
  <2> HIDE DEF E
  <2>4. IsSound(Inspected(Offers, LengthOf, Limit), E, LengthOf, Limit)
    BY <1>4, <2>1, <2>2, <2>3, LoopIsSound
  <2>5. Inspected(Offers, LengthOf, Limit).chosen \subseteq E
    BY <2>4 DEF IsSound
  <2> QED
    BY <1>1, <2>5 DEF E
<1> QED
  BY <1>1, <1>4, <1>5, <1>7, <1>8, <1>9, <1>10

\* The station whose turn it is gets a place for the row it begins with.
LEMMA NextStationIsServed ==
  ASSUME RotationTypeOK, RowsWithin(Limit.bytes), NEW s \in Stations, Ahead(s) = 0, queue[s] # <<>>
  PROVE  Picked.chosen \cap RowsOf(s) # {}
<1> DEFINE i == IF newestFirst[s] THEN Len(queue[s]) ELSE 1
           first == <<PlaceOf(s, i), <<s, i>>>>
           n == Cardinality(Stations)
<1>1. Len(queue[s]) \in Nat \ {0} /\ i \in 1..Len(queue[s])
  <2>1. queue[s] \in Seq(Row)
    BY DEF RotationTypeOK
  <2>2. Len(queue[s]) \in Nat \ {0}
    BY <2>1
  <2> QED
    BY <2>2
<1>2. TurnOf(s, i) = 0 /\ n \in Nat \ {0}
  BY <1>1, TurnIs, AheadIs
<1>3. PlaceOf(s, i) = 0
  BY <1>2 DEF PlaceOf
<1>4. first \in Offers
  BY <1>1, <1>2, OffersAre, FairnessAssumption
<1>5. ASSUME NEW p \in Offers, p # first PROVE first[1] < p[1]
  <2>1. PICK t \in Stations : \E j \in 1..Len(queue[t]) : p = <<PlaceOf(t, j), <<t, j>>>>
    BY OffersAre
  <2>2. PICK j \in 1..Len(queue[t]) : p = <<PlaceOf(t, j), <<t, j>>>>
    BY <2>1
  <2>3. TurnOf(t, j) \in Nat /\ Ahead(t) \in 0..n - 1
    BY TurnIs, AheadIs
  <2>4. TurnOf(t, j) # 0 \/ Ahead(t) # 0
    <3> SUFFICES ASSUME TurnOf(t, j) = 0, Ahead(t) = 0 PROVE FALSE
      OBVIOUS
    <3>1. t = s
      BY AheadIs
    <3>2. j = i
      BY <3>1, TurnIs
    <3> QED
      BY <1>5, <2>2, <3>1, <3>2
  <2> HIDE DEF n
  <2>5. n * TurnOf(t, j) \in Nat /\ (TurnOf(t, j) # 0 => n * TurnOf(t, j) > 0)
    BY <1>2, <2>3
  <2>6. n * TurnOf(t, j) + Ahead(t) > 0
    BY <1>2, <2>3, <2>4, <2>5
  <2> HIDE DEF i
  <2> QED
    BY <1>3, <2>2, <2>6 DEF PlaceOf, n
<1>6. <<s, i>> \in RowsOf(s) /\ LengthOf[<<s, i>>] \in Nat /\ LengthOf[<<s, i>>] <= Limit.bytes
  <2>1. LengthOf[<<s, i>>] = queue[s][i].size /\ i \in DOMAIN queue[s]
    BY <1>1, RowsAre
  <2> HIDE DEF i
  <2> QED
    BY <1>1, <2>1, RowsAre DEF RowsWithin
<1> HIDE DEF i
<1>7. <<s, i>> \in Inspected(Offers, LengthOf, Limit).chosen
  <2>1. first[2] = <<s, i>>
    OBVIOUS
  <2>2. LengthOf[first[2]] \in Nat /\ LengthOf[first[2]] <= Limit.bytes
    BY <1>6, <2>1
  <2>3. IsFiniteSet(Offers) /\ \A p \in Offers : p[1] \in Nat
    BY OffersAre
  <2>4. Limit.packets \in Nat \ {0}
    BY FairnessAssumption
  <2> HIDE DEF first
  <2>5. first[2] \in Inspected(Offers, LengthOf, Limit).chosen
    BY <1>4, <1>5, <2>2, <2>3, <2>4, FirstIsChosen
  <2> QED
    BY <2>1, <2>5
<1> QED
  BY <1>6, <1>7, OffersAre

\* The rows at one place or before it are few in the first round of the spools.
LEMMA BeginningsAreFew ==
  ASSUME RotationTypeOK, NEW s \in Stations, NEW Q \in SUBSET {p \in Offers : p[1] <= Ahead(s)}
  PROVE  Cardinality(Q) <= Cardinality(Stations)
<1> DEFINE n == Cardinality(Stations)
           station == [p \in Q |-> p[2][1]]
<1>1. n \in Nat \ {0} /\ Ahead(s) \in 0..n - 1
  BY AheadIs
<1>2. ASSUME NEW p \in Q
      PROVE  \E t \in Stations : \E j \in 1..Len(queue[t]) :
                /\ p = <<PlaceOf(t, j), <<t, j>>>>
                /\ j = IF newestFirst[t] THEN Len(queue[t]) ELSE 1
  <2>1. PICK t \in Stations : \E j \in 1..Len(queue[t]) : p = <<PlaceOf(t, j), <<t, j>>>>
    BY OffersAre
  <2>2. PICK j \in 1..Len(queue[t]) : p = <<PlaceOf(t, j), <<t, j>>>>
    BY <2>1
  <2>3. TurnOf(t, j) \in Nat /\ Ahead(t) \in Nat /\ p[1] = n * TurnOf(t, j) + Ahead(t)
    BY <2>2, TurnIs, AheadIs DEF PlaceOf
  <2>4. p[1] < n
    BY <1>1, <2>3
  <2> HIDE DEF n
  <2>5. TurnOf(t, j) # 0 => n * TurnOf(t, j) >= n
    BY <1>1, <2>3
  <2>6. n * TurnOf(t, j) \in Nat
    BY <1>1, <2>3
  <2>7. TurnOf(t, j) = 0
    BY <1>1, <2>3, <2>4, <2>5, <2>6
  <2> QED
    BY <2>2, <2>7, TurnIs
<1>3. station \in Injection(Q, Stations)
  <2>1. ASSUME NEW p \in Q PROVE p[2][1] \in Stations
    <3>1. PICK t \in Stations : \E j \in 1..Len(queue[t]) : p = <<PlaceOf(t, j), <<t, j>>>>
      BY <1>2
    <3> QED
      BY <3>1
  <2>2. ASSUME NEW p \in Q, NEW q \in Q, p[2][1] = q[2][1] PROVE p = q
    <3>1. PICK t \in Stations : \E j \in 1..Len(queue[t]) :
                /\ p = <<PlaceOf(t, j), <<t, j>>>>
                /\ j = IF newestFirst[t] THEN Len(queue[t]) ELSE 1
      BY <1>2
    <3>2. PICK u \in Stations : \E j \in 1..Len(queue[u]) :
                /\ q = <<PlaceOf(u, j), <<u, j>>>>
                /\ j = IF newestFirst[u] THEN Len(queue[u]) ELSE 1
      BY <1>2
    <3>3. t = u
      BY <2>2, <3>1, <3>2
    <3> QED
      BY <3>1, <3>2, <3>3
  <2>3. station \in [Q -> Stations]
    BY <2>1
  <2>4. \A p, q \in Q : station[p] = station[q] => p = q
    BY <2>2
  <2> HIDE DEF station
  <2> QED
    BY <2>3, <2>4 DEF Injection, IsInjective
<1> HIDE DEF station
<1> QED
  BY <1>3, FS_Injection, FairnessAssumption

\* A station that begins with its newest row sends it together with any other.
LEMMA NewestIsServed ==
  ASSUME RotationTypeOK, NEW longest \in Nat, BeginningsFit(longest), RowsWithin(longest),
         NEW s \in Stations, newestFirst[s], Picked.chosen \cap RowsOf(s) # {}
  PROVE  <<s, Len(queue[s])>> \in Picked.chosen
<1> DEFINE L == Len(queue[s])
           early == <<PlaceOf(s, L), <<s, L>>>>
           n == Cardinality(Stations)
<1>1. PICK p \in Offers : p[2] \in Picked.chosen /\ p[2] \in RowsOf(s)
  BY OffersAre
<1>2. PICK t \in Stations : \E j \in 1..Len(queue[t]) : p = <<PlaceOf(t, j), <<t, j>>>>
  BY OffersAre
<1>3. PICK j \in 1..Len(queue[t]) : p = <<PlaceOf(t, j), <<t, j>>>>
  BY <1>2
<1>4. t = s /\ j \in 1..L /\ L \in Nat
  <2>1. <<t, j>> \in RowsOf(s)
    BY <1>1, <1>3
  <2> QED
    BY <1>3, <2>1, RowsAre
<1>5. CASE j = L
  BY <1>1, <1>3, <1>4, <1>5
<1>6. CASE j # L
  <2>1. L \in 1..Len(queue[s]) /\ j < L
    BY <1>4, <1>6
  <2>2. TurnOf(s, L) = 0 /\ TurnOf(s, j) # 0 /\ TurnOf(s, j) \in Nat
    BY <1>4, <1>6, <2>1, TurnIs
  <2>3. early \in Offers
    <3>1. TurnOf(s, L) < Limit.packets
      BY <2>2, FairnessAssumption
    <3> HIDE DEF L
    <3> QED
      BY <2>1, <3>1, OffersAre
  <2>4. n \in Nat \ {0} /\ Ahead(s) \in Nat /\ early[1] = Ahead(s)
    <3>1. n \in Nat \ {0} /\ Ahead(s) \in Nat
      BY AheadIs
    <3> QED
      BY <2>2, <3>1 DEF PlaceOf
  <2>5. early[1] < p[1]
    <3>1. n * TurnOf(s, j) > 0 /\ n * TurnOf(s, j) \in Nat
      <4> HIDE DEF n
      <4> QED
        BY <2>2, <2>4
    <3>2. p[1] = n * TurnOf(s, j) + Ahead(s)
      BY <1>3, <1>4 DEF PlaceOf
    <3> HIDE DEF n
    <3> QED
      BY <2>4, <3>1, <3>2
  <2>6. \A f \in Rows : LengthOf[f] \in Nat /\ LengthOf[f] <= longest
    <3> SUFFICES ASSUME NEW f \in Rows PROVE LengthOf[f] \in Nat /\ LengthOf[f] <= longest
      OBVIOUS
    <3>1. PICK r \in Stations : f \in RowsOf(r)
      BY DEF Rows
    <3>2. f[2] \in 1..Len(queue[r]) /\ f = <<r, f[2]>>
      BY <3>1, RowsAre
    <3>3. /\ LengthOf[<<r, f[2]>>] \in Nat
          /\ LengthOf[<<r, f[2]>>] = queue[r][f[2]].size /\ f[2] \in DOMAIN queue[r]
      BY <3>2, RowsAre
    <3>4. queue[r][f[2]].size <= longest
      BY <3>3 DEF RowsWithin
    <3> QED
      BY <3>2, <3>3, <3>4
  <2>7. /\ IsFiniteSet(Offers) /\ \A q \in Offers : q[1] \in Nat /\ q[2] \in Rows
        /\ \A q, r \in Offers : q[2] = r[2] => q = r
        /\ Limit.packets \in Nat /\ Limit.bytes \in Nat
        /\ p[2] \in Inspected(Offers, LengthOf, Limit).chosen
    BY <1>1, OffersAre, FairnessAssumption
  <2>8. \A Q \in SUBSET {q \in Offers : q[1] <= early[1]} : Cardinality(Q) <= n
    BY <2>4, BeginningsAreFew
  <2>9. Limit.packets * longest <= Limit.bytes \/ n * longest <= Limit.bytes
    BY DEF BeginningsFit
  <2> HIDE DEF early, n
  <2>10. early[2] \in Inspected(Offers, LengthOf, Limit).chosen
    BY <2>3, <2>4, <2>5, <2>6, <2>7, <2>8, <2>9, EarlierIsChosen
  <2> QED
    BY <2>10, OffersAre DEF early
<1> QED
  BY <1>5, <1>6

\* Of some numbers, each is the n-th for one n.
LEMMA NthOf ==
  ASSUME NEW m \in Nat, NEW kept \in SUBSET (1..m), NEW j \in 1..Cardinality(kept)
  PROVE  \E i \in kept : Cardinality({k \in kept : k <= i}) = j
<1> DEFINE UpTo(i) == {k \in kept : k <= i}
           c == Cardinality(kept)
           rank == [i \in kept |-> Cardinality(UpTo(i))]
<1>1. IsFiniteSet(kept) /\ c \in Nat /\ kept \subseteq Nat
  <2>1. IsFiniteSet(1..m) /\ kept \subseteq 1..m /\ 1..m \subseteq Nat
    BY FS_Interval
  <2>2. IsFiniteSet(kept)
    BY <2>1, FS_Subset
  <2>3. c \in Nat
    BY <2>2, FS_CardinalityType
  <2> QED
    BY <2>1, <2>2, <2>3
<1>2. ASSUME NEW i \in kept PROVE rank[i] \in 1..c
  <2>1. IsFiniteSet(UpTo(i)) /\ Cardinality(UpTo(i)) <= c /\ Cardinality(UpTo(i)) \in Nat
    BY <1>1, FS_Subset, FS_CardinalityType
  <2>2. i \in UpTo(i)
    BY <1>1
  <2>3. Cardinality(UpTo(i)) # 0
    BY <2>1, <2>2, FS_EmptySet
  <2> QED
    BY <1>1, <2>1, <2>3
<1>3. ASSUME NEW i \in kept, NEW k \in kept, i < k PROVE rank[i] < rank[k]
  <2>0. k \in Nat /\ i \in Nat /\ \A l \in kept : l \in Nat
    BY <1>1
  <2>1. IsFiniteSet(UpTo(k)) /\ UpTo(i) \subseteq UpTo(k) \ {k} /\ k \in UpTo(k)
    <3>1. IsFiniteSet(UpTo(k))
      BY <1>1, FS_Subset
    <3>2. ASSUME NEW l \in kept, l <= i PROVE l <= k /\ l # k
      <4>1. l \in Nat /\ k \in Nat /\ i \in Nat /\ i < k
        BY <1>3, <2>0
      <4> QED
        BY <3>2, <4>1
    <3>3. k \in UpTo(k)
      BY <2>0
    <3>4. UpTo(i) \subseteq UpTo(k) \ {k}
      BY <3>2
    <3> QED
      BY <3>1, <3>3, <3>4
  <2>2. /\ IsFiniteSet(UpTo(k) \ {k}) /\ Cardinality(UpTo(k) \ {k}) = Cardinality(UpTo(k)) - 1
        /\ Cardinality(UpTo(k)) \in Nat
    BY <2>1, FS_RemoveElement, FS_CardinalityType
  <2>3. Cardinality(UpTo(i)) <= Cardinality(UpTo(k) \ {k}) /\ Cardinality(UpTo(i)) \in Nat
    BY <2>1, <2>2, FS_Subset, FS_CardinalityType
  <2> HIDE DEF UpTo
  <2> QED
    BY <2>2, <2>3
<1>4. rank \in Injection(kept, 1..c)
  <2>1. rank \in [kept -> 1..c]
    BY <1>2
  <2>2. ASSUME NEW i \in kept, NEW k \in kept, rank[i] = rank[k] PROVE i = k
    <3>1. i \in Nat /\ k \in Nat /\ rank[i] \in 1..c /\ rank[k] \in 1..c
      BY <1>1, <1>2
    <3> HIDE DEF rank
    <3>2. ~ (i < k) /\ ~ (k < i)
      BY <1>3, <2>2, <3>1
    <3> QED
      BY <3>1, <3>2
  <2> HIDE DEF rank
  <2> QED
    BY <2>1, <2>2 DEF Injection, IsInjective
<1>5. IsFiniteSet(1..c) /\ Cardinality(1..c) = c
  <2>1. Cardinality(1..c) = IF 1 > c THEN 0 ELSE c - 1 + 1
    BY <1>1, FS_Interval
  <2> QED
    BY <1>1, <2>1, FS_Interval
<1>6. rank \in Surjection(kept, 1..c)
  <2> HIDE DEF rank
  <2> QED
    BY <1>4, <1>5, FS_Injection
<1>7. \E i \in kept : rank[i] = j
  <2> HIDE DEF rank
  <2> QED
    BY <1>6 DEF Surjection
<1> QED
  BY <1>7

\* The rows that stay are rows, in the order they were in.
LEMMA WithoutIs ==
  ASSUME RotationTypeOK, NEW s \in Stations, NEW gone
  PROVE  /\ Without(s, gone) \in Seq(Row)
         /\ \A j \in DOMAIN Without(s, gone) : \E i \in DOMAIN queue[s] :
              /\ Without(s, gone)[j] = queue[s][i]
              /\ \A l \in DOMAIN Without(s, gone) : j < l =>
                   \E k \in DOMAIN queue[s] : i < k /\ Without(s, gone)[l] = queue[s][k]
<1> DEFINE kept == {i \in DOMAIN queue[s] : <<s, i>> \notin gone}
           c == Cardinality(kept)
           UpTo(i) == {k \in kept : k <= i}
           Nth(j) == CHOOSE i \in kept : Cardinality(UpTo(i)) = j
<1>1. queue[s] \in Seq(Row) /\ Len(queue[s]) \in Nat /\ DOMAIN queue[s] = 1..Len(queue[s])
  BY DEF RotationTypeOK
<1>2. kept \in SUBSET (1..Len(queue[s])) /\ IsFiniteSet(kept) /\ c \in Nat
  <2>1. kept \in SUBSET (1..Len(queue[s]))
    BY <1>1
  <2>2. IsFiniteSet(1..Len(queue[s]))
    BY <1>1, FS_Interval
  <2> HIDE DEF kept
  <2> QED
    BY <2>1, <2>2, FS_Subset, FS_CardinalityType
<1>3. Without(s, gone) = [j \in 1..c |-> queue[s][Nth(j)]]
  BY DEF Without
<1>4. ASSUME NEW j \in 1..c PROVE Nth(j) \in kept /\ Cardinality(UpTo(Nth(j))) = j
  <2> HIDE DEF kept
  <2>1. \E i \in kept : Cardinality(UpTo(i)) = j
    BY <1>1, <1>2, NthOf
  <2> HIDE DEF UpTo
  <2> QED
    BY <2>1
<1>5. ASSUME NEW j \in 1..c, NEW l \in 1..c, j < l PROVE Nth(j) < Nth(l)
  <2>1. /\ Nth(j) \in kept /\ Cardinality(UpTo(Nth(j))) = j
        /\ Nth(l) \in kept /\ Cardinality(UpTo(Nth(l))) = l
    BY <1>4
  <2> DEFINE a == Nth(j)
             b == Nth(l)
  <2>2. a \in 1..Len(queue[s]) /\ b \in 1..Len(queue[s])
    BY <1>2, <2>1
  <2>3. a \in Nat /\ b \in Nat /\ j \in Nat /\ l \in Nat
    BY <1>2, <2>2
  <2> HIDE DEF a, b
  <2>4. SUFFICES ASSUME b <= a PROVE FALSE
    BY <2>3 DEF a, b
  <2>5. UpTo(b) \subseteq UpTo(a)
    <3> SUFFICES ASSUME NEW k \in kept, k <= b PROVE k <= a
      OBVIOUS
    <3>1. k \in Nat
      BY <1>2
    <3> QED
      BY <2>3, <2>4, <3>1
  <2>6. IsFiniteSet(UpTo(a))
    BY <1>2, FS_Subset
  <2>7. Cardinality(UpTo(b)) <= Cardinality(UpTo(a))
    BY <2>5, <2>6, FS_Subset
  <2>8. l <= j
    BY <2>1, <2>7 DEF a, b
  <2> QED
    BY <1>5, <2>3, <2>8
<1>6. \A j \in 1..c : Nth(j) \in DOMAIN queue[s]
  BY <1>1, <1>2, <1>4
<1> HIDE DEF Nth, kept, c
<1>7. Without(s, gone) \in Seq(Row) /\ DOMAIN Without(s, gone) = 1..c
  <2>1. \A j \in 1..c : queue[s][Nth(j)] \in Row
    BY <1>1, <1>6
  <2>2. Without(s, gone) \in [1..c -> Row]
    BY <1>3, <2>1
  <2> QED
    BY <1>2, <2>2
<1>8. ASSUME NEW j \in 1..c
      PROVE  \E i \in DOMAIN queue[s] :
               /\ Without(s, gone)[j] = queue[s][i]
               /\ \A l \in 1..c : j < l =>
                    \E k \in DOMAIN queue[s] : i < k /\ Without(s, gone)[l] = queue[s][k]
  <2>1. Nth(j) \in DOMAIN queue[s] /\ Without(s, gone)[j] = queue[s][Nth(j)]
    BY <1>3, <1>6
  <2>2. ASSUME NEW l \in 1..c, j < l
        PROVE  Nth(j) < Nth(l) /\ Nth(l) \in DOMAIN queue[s] /\ Without(s, gone)[l] = queue[s][Nth(l)]
    BY <1>3, <1>5, <1>6, <2>2
  <2> QED
    BY <2>1, <2>2
<1> QED
  BY <1>7, <1>8
-----------------------------------------------------------------------------
(* Every step of the rotation.                                             *)

LEMMA RotationInitType == RotationInit => RotationTypeOK
<1> SUFFICES ASSUME RotationInit PROVE RotationTypeOK
  OBVIOUS
<1>1. ASSUME NEW s \in Stations PROVE queue[s] \in Seq(Row)
  <2>1. Backlog[s] \in Seq(Nat \ {0})
    BY FairnessAssumption
  <2>2. /\ Len(Backlog[s]) \in Nat /\ DOMAIN Backlog[s] = 1..Len(Backlog[s])
        /\ \A i \in DOMAIN Backlog[s] : [old |-> TRUE, size |-> Backlog[s][i]] \in Row
    BY <2>1 DEF Row
  <2>3. queue[s] = [i \in 1..Len(Backlog[s]) |-> [old |-> TRUE, size |-> Backlog[s][i]]]
    BY <2>2 DEF RotationInit
  <2>4. queue[s] \in [1..Len(Backlog[s]) -> Row]
    BY <2>2, <2>3
  <2> QED
    BY <2>2, <2>4
<1>2. queue \in [Stations -> Seq(Row)]
  <2> DEFINE Rows0(s) == [i \in DOMAIN Backlog[s] |-> [old |-> TRUE, size |-> Backlog[s][i]]]
  <2>1. queue = [s \in Stations |-> Rows0(s)]
    BY DEF RotationInit
  <2>2. \A s \in Stations : queue[s] = Rows0(s)
    BY <2>1, Zenon
  <2>3. \A s \in Stations : Rows0(s) \in Seq(Row)
    BY <1>1, <2>2
  <2> HIDE DEF Rows0
  <2> QED
    BY <2>1, <2>3
<1>3. 0 \in 0..Cardinality(Stations) - 1
  <2>1. Cardinality(Stations) \in Nat \ {0}
    BY FairnessAssumption, FS_CardinalityType, FS_EmptySet
  <2> QED
    BY <2>1
<1> QED
  BY <1>2, <1>3 DEF RotationInit, RotationTypeOK

LEMMA ArriveIs ==
  ASSUME RotationTypeOK, NEW s \in Stations, Arrive(s)
  PROVE  /\ RotationTypeOK'
         /\ \A t \in Stations \ {s} : queue'[t] = queue[t]
         /\ DOMAIN queue'[s] = 1..Len(queue[s]) + 1 /\ Len(queue[s]) \in Nat
         /\ \A i \in 1..Len(queue[s]) : queue'[s][i] = queue[s][i]
         /\ queue'[s][Len(queue[s]) + 1].size = LiveSize[s]
<1> DEFINE new == [old |-> FALSE, size |-> LiveSize[s]]
<1>1. queue[s] \in Seq(Row) /\ new \in Row
  BY FairnessAssumption DEF RotationTypeOK, Row
<1>2. queue' = [queue EXCEPT ![s] = Append(queue[s], new)]
  BY DEF Arrive
<1>3. queue'[s] = Append(queue[s], new) /\ \A t \in Stations \ {s} : queue'[t] = queue[t]
  BY <1>2 DEF RotationTypeOK
<1>4. new.size = LiveSize[s]
  OBVIOUS
<1> HIDE DEF new
<1>5. /\ Append(queue[s], new) \in Seq(Row) /\ Len(queue[s]) \in Nat
      /\ DOMAIN Append(queue[s], new) = 1..Len(queue[s]) + 1
      /\ \A i \in 1..Len(queue[s]) : Append(queue[s], new)[i] = queue[s][i]
      /\ Append(queue[s], new)[Len(queue[s]) + 1] = new
  BY <1>1
<1>6. RotationTypeOK'
  <2>1. queue' \in [Stations -> Seq(Row)]
    BY <1>2, <1>5 DEF RotationTypeOK
  <2> QED
    BY <2>1 DEF Arrive, RotationTypeOK
<1> QED
  BY <1>3, <1>4, <1>5, <1>6

LEMMA SendTickType ==
  ASSUME RotationTypeOK, SendTick
  PROVE  RotationTypeOK'
<1> DEFINE chosen == Picked.chosen
           gone == chosen \cup Picked.tooLarge
<1>1. queue' \in [Stations -> Seq(Row)]
  <2>1. queue' = [s \in Stations |-> Without(s, gone)]
    BY DEF SendTick
  <2>2. \A s \in Stations : Without(s, gone) \in Seq(Row)
    BY WithoutIs
  <2> HIDE DEF gone
  <2> QED
    BY <2>1, <2>2
<1>2. newestFirst' \in [Stations -> BOOLEAN]
  <2>1. newestFirst' = [s \in Stations |-> Flipped(s, chosen)]
    BY DEF SendTick
  <2>2. \A s \in Stations : Flipped(s, chosen) \in BOOLEAN
    BY DEF Flipped
  <2> HIDE DEF chosen
  <2> QED
    BY <2>1, <2>2
<1>3. front' \in 0..Cardinality(Stations) - 1
  <2>1. Cardinality(Stations) \in Nat \ {0} /\ front \in 0..Cardinality(Stations) - 1
    BY FairnessAssumption, FS_CardinalityType, FS_EmptySet DEF RotationTypeOK
  <2>2. front' = NextFront(Cardinality(Stations))
    BY DEF SendTick
  <2> QED
    BY <2>1, <2>2, NextFrontIs
<1>4. waited' \in [Stations -> Nat] /\ missed' \in [Stations -> Nat]
  <2>1. \A s \in Stations : waited[s] \in Nat /\ waited[s] + 1 \in Nat
                         /\ missed[s] \in Nat /\ missed[s] + 1 \in Nat
    BY DEF RotationTypeOK
  <2>2. waited' = [s \in Stations |->
                     IF queue[s] = <<>> \/ chosen \cap RowsOf(s) # {} THEN 0 ELSE waited[s] + 1]
    BY DEF SendTick
  <2>3. missed' = [s \in Stations |->
                     IF queue[s] = <<>> \/ <<s, Len(queue[s])>> \in chosen THEN 0
                     ELSE IF chosen \cap RowsOf(s) # {} THEN missed[s] + 1 ELSE missed[s]]
    BY DEF SendTick
  <2> HIDE DEF chosen
  <2> QED
    BY <2>1, <2>2, <2>3
<1> QED
  BY <1>1, <1>2, <1>3, <1>4 DEF RotationTypeOK

LEMMA RotationNextType == RotationTypeOK /\ [RotationNext]_rotationVars => RotationTypeOK'
<1> SUFFICES ASSUME RotationTypeOK, [RotationNext]_rotationVars PROVE RotationTypeOK'
  OBVIOUS
<1>1. CASE UNCHANGED rotationVars
  BY <1>1 DEF rotationVars, RotationTypeOK
<1>2. CASE SendTick
  BY <1>2, SendTickType
<1>3. ASSUME NEW s \in Stations, Arrive(s) PROVE RotationTypeOK'
  BY <1>3, ArriveIs
<1> QED
  BY <1>1, <1>2, <1>3 DEF RotationNext

\* A queue never holds a longer row than the readings allow.
LEMMA RowsStay ==
  ASSUME RotationTypeOK, [RotationNext]_rotationVars, NEW longest,
         ReadingsWithin(longest), RowsWithin(longest)
  PROVE  RowsWithin(longest)'
<1>1. CASE UNCHANGED rotationVars
  BY <1>1 DEF rotationVars, RowsWithin
<1>2. ASSUME NEW s \in Stations, Arrive(s) PROVE RowsWithin(longest)'
  <2> DEFINE n == Len(queue[s])
  <2>1. /\ \A t \in Stations \ {s} : queue'[t] = queue[t]
        /\ DOMAIN queue'[s] = 1..n + 1 /\ n \in Nat
        /\ \A i \in 1..n : queue'[s][i] = queue[s][i]
        /\ queue'[s][n + 1].size = LiveSize[s]
    BY <1>2, ArriveIs
  <2>2. DOMAIN queue[s] = 1..n
    BY RowsAre
  <2> HIDE DEF n
  <2>3. \A i \in 1..n + 1 : i \in 1..n \/ i = n + 1
    BY <2>1
  <2>4. \A i \in 1..n + 1 : queue'[s][i].size <= longest
    BY <2>1, <2>2, <2>3 DEF ReadingsWithin, RowsWithin
  <2> QED
    BY <2>1, <2>4 DEF RowsWithin
<1>3. CASE SendTick
  <2> DEFINE gone == Picked.chosen \cup Picked.tooLarge
  <2>1. \A s \in Stations : queue'[s] = Without(s, gone)
    BY <1>3 DEF SendTick
  <2> HIDE DEF gone
  <2>2. ASSUME NEW s \in Stations, NEW j \in DOMAIN queue'[s]
        PROVE  \E i \in DOMAIN queue[s] : queue'[s][j] = queue[s][i]
    <3>1. queue'[s] = Without(s, gone)
      BY <2>1
    <3> QED
      BY <2>2, <3>1, WithoutIs
  <2> QED
    BY <2>2 DEF RowsWithin
<1> QED
  BY <1>1, <1>2, <1>3 DEF RotationNext

\* A tick serves the station whose turn it is and brings every other one nearer.
LEMMA TurnsAreKept ==
  ASSUME RotationTypeOK, RowsWithin(Limit.bytes), WaitsItsTurn, [RotationNext]_rotationVars
  PROVE  WaitsItsTurn'
<1>1. CASE UNCHANGED rotationVars
  BY <1>1 DEF rotationVars, WaitsItsTurn, Ahead
<1>2. ASSUME NEW s \in Stations, Arrive(s) PROVE WaitsItsTurn'
  BY <1>2 DEF Arrive, WaitsItsTurn, Ahead
<1>3. CASE SendTick
  <2> SUFFICES ASSUME NEW s \in Stations
               PROVE  waited'[s] + Distance(Index[s], front', Cardinality(Stations)) < Cardinality(Stations)
    BY DEF WaitsItsTurn, Ahead
  <2> DEFINE n == Cardinality(Stations)
             served == queue[s] = <<>> \/ Picked.chosen \cap RowsOf(s) # {}
  <2>1. n \in Nat \ {0} /\ Ahead(s) \in 0..n - 1 /\ waited[s] \in Nat /\ waited[s] + Ahead(s) < n
    BY AheadIs DEF WaitsItsTurn, RotationTypeOK
  <2>2. Distance(Index[s], front', n) = IF Ahead(s) = 0 THEN n - 1 ELSE Ahead(s) - 1
    <3>1. front' = NextFront(n)
      BY <1>3 DEF SendTick
    <3> QED
      BY <3>1, AheadIs
  <2>3. /\ served => waited'[s] = 0
        /\ ~served => waited'[s] = waited[s] + 1
    BY <1>3 DEF SendTick
  <2>4. Ahead(s) = 0 => served
    BY NextStationIsServed
  <2> HIDE DEF served, n
  <2>5. waited'[s] + Distance(Index[s], front', n) < n
    BY <2>1, <2>2, <2>3, <2>4
  <2> QED
    BY <2>5 DEF n
<1> QED
  BY <1>1, <1>2, <1>3 DEF RotationNext

\* A station that left out its newest row begins with it, and then sends it.
LEMMA EndsAlternate ==
  ASSUME RotationTypeOK, NEW longest \in Nat, BeginningsFit(longest), RowsWithin(longest),
         NewestIsNext, [RotationNext]_rotationVars
  PROVE  NewestIsNext'
<1>1. CASE UNCHANGED rotationVars
  BY <1>1 DEF rotationVars, NewestIsNext
<1>2. ASSUME NEW s \in Stations, Arrive(s) PROVE NewestIsNext'
  BY <1>2 DEF Arrive, NewestIsNext
<1>3. CASE SendTick
  <2> SUFFICES ASSUME NEW s \in Stations
               PROVE  missed'[s] = 0 \/ (missed'[s] = 1 /\ newestFirst'[s])
    BY DEF NewestIsNext
  <2> DEFINE some == Picked.chosen \cap RowsOf(s) # {}
             newest == <<s, Len(queue[s])>> \in Picked.chosen
  <2>1. missed[s] = 0 \/ (missed[s] = 1 /\ newestFirst[s])
    BY DEF NewestIsNext
  <2>2. newestFirst[s] /\ some => newest
    BY NewestIsServed
  <2>3. /\ newest => missed'[s] = 0
        /\ ~newest /\ some => missed'[s] = 0 \/ missed'[s] = missed[s] + 1
        /\ ~newest /\ ~some => missed'[s] = 0 \/ missed'[s] = missed[s]
    BY <1>3 DEF SendTick
  <2>4. newestFirst'[s] = (newestFirst[s] # some)
    BY <1>3 DEF SendTick, Flipped
  <2>5. newestFirst[s] \in BOOLEAN
    BY DEF RotationTypeOK
  <2>6. CASE newest
    BY <2>3, <2>6
  <2>7. CASE ~newest /\ some
    <3>1. newestFirst[s] = FALSE /\ newestFirst'[s]
      <4>1. ~newestFirst[s] /\ some = TRUE
        BY <2>2, <2>7
      <4>2. newestFirst[s] = FALSE
        BY <2>5, <4>1, Zenon
      <4> HIDE DEF some
      <4>3. newestFirst'[s] = (FALSE # TRUE)
        BY <2>4, <4>1, <4>2
      <4> QED
        BY <4>2, <4>3
    <3> QED
      BY <2>1, <2>3, <2>7, <3>1
  <2>8. CASE ~newest /\ ~some
    <3>1. newestFirst'[s] = newestFirst[s]
      <4>1. some = FALSE
        BY <2>8
      <4> HIDE DEF some
      <4>2. newestFirst'[s] = (newestFirst[s] # FALSE)
        BY <2>4, <4>1
      <4>3. CASE newestFirst[s] = TRUE
        BY <4>2, <4>3
      <4>4. CASE newestFirst[s] = FALSE
        BY <4>2, <4>4
      <4> QED
        BY <2>5, <4>3, <4>4, Zenon
    <3> QED
      BY <2>1, <2>3, <2>8, <3>1
  <2> QED
    BY <2>6, <2>7, <2>8
<1> QED
  BY <1>1, <1>2, <1>3 DEF RotationNext

LEMMA RotationStarts ==
  ASSUME RotationInit
  PROVE  /\ WaitsItsTurn /\ NewestIsNext
         /\ \A longest : ReadingsWithin(longest) => RowsWithin(longest)
<1>1. RotationTypeOK
  BY RotationInitType
<1>2. WaitsItsTurn
  <2>1. \A s \in Stations : waited[s] = 0 /\ Ahead(s) \in 0..Cardinality(Stations) - 1
                           /\ Cardinality(Stations) \in Nat
    BY <1>1, AheadIs DEF RotationInit
  <2> QED
    BY <2>1 DEF WaitsItsTurn
<1>3. ASSUME NEW s \in Stations
      PROVE  /\ DOMAIN queue[s] = DOMAIN Backlog[s]
             /\ \A i \in DOMAIN queue[s] : queue[s][i].size = Backlog[s][i]
  BY DEF RotationInit
<1>4. \A longest : ReadingsWithin(longest) => RowsWithin(longest)
  BY <1>3 DEF ReadingsWithin, RowsWithin
<1> QED
  BY <1>2, <1>4 DEF RotationInit, NewestIsNext

\* The front is always a spool, a queue a sequence of rows, for any stations and limits.
THEOREM RotationIsTyped == RotationSpec => []RotationTypeOK
BY RotationInitType, RotationNextType, PTL DEF RotationSpec

\* A station with rows waits for less than a round of the spools, whatever the others queue
\* and however fast they queue it, if each of its readings fits into a request.
THEOREM StationsTakeTurns ==
  ASSUME ReadingsFit
  PROVE  RotationSpec => [](\A s \in Stations : waited[s] < Cardinality(Stations))
<1> DEFINE Fit == RowsWithin(Limit.bytes)
<1>1. RotationTypeOK /\ Fit /\ WaitsItsTurn /\ [RotationNext]_rotationVars => WaitsItsTurn'
  BY TurnsAreKept
<1>2. RotationTypeOK /\ Fit /\ [RotationNext]_rotationVars => Fit'
  BY RowsStay DEF ReadingsFit
<1>3. RotationInit => Fit /\ WaitsItsTurn
  BY RotationStarts DEF ReadingsFit
<1>4. RotationTypeOK /\ WaitsItsTurn => \A s \in Stations : waited[s] < Cardinality(Stations)
  <2> SUFFICES ASSUME RotationTypeOK, WaitsItsTurn, NEW s \in Stations
               PROVE  waited[s] < Cardinality(Stations)
    OBVIOUS
  <2>1. /\ waited[s] \in Nat /\ Ahead(s) \in Nat /\ Cardinality(Stations) \in Nat
        /\ waited[s] + Ahead(s) < Cardinality(Stations)
    BY AheadIs DEF RotationTypeOK, WaitsItsTurn
  <2> QED
    BY <2>1
<1> QED
  BY <1>1, <1>2, <1>3, <1>4, RotationIsTyped, PTL DEF RotationSpec

\* And its newest row misses one of its batches at most, in whatever order short and long
\* readings follow each other, if the longest fit beside each other into the beginning of a
\* request.  Requests of one reading are the case Limit.packets = 1, where it says no more
\* than that every reading fits.  Where it does not hold, a reading that only fits alone can
\* be passed over for ever.
THEOREM WaitsAreBounded ==
  ASSUME NEW longest \in Nat, BeginningsFit(longest)
  PROVE  RotationSpec => []BoundedWait
<1> DEFINE Within == RowsWithin(longest)
<1>1. RotationTypeOK /\ Within /\ NewestIsNext /\ [RotationNext]_rotationVars => NewestIsNext'
  BY EndsAlternate
<1>2. RotationTypeOK /\ Within /\ [RotationNext]_rotationVars => Within'
  BY RowsStay DEF BeginningsFit
<1>3. RotationInit => Within /\ NewestIsNext
  BY RotationStarts DEF BeginningsFit
<1>4. NewestIsNext /\ (\A s \in Stations : waited[s] < Cardinality(Stations)) => BoundedWait
  BY DEF NewestIsNext, BoundedWait
<1>5. ReadingsFit
  <2>1. Limit.packets \in Nat \ {0} /\ Limit.bytes \in Nat /\ Cardinality(Stations) \in Nat \ {0}
    BY FairnessAssumption, FS_CardinalityType, FS_EmptySet
  <2>2. \A k \in Nat \ {0} : longest <= k * longest /\ k * longest \in Nat
    OBVIOUS
  <2>3. longest <= Limit.packets * longest /\ longest <= Cardinality(Stations) * longest
    BY <2>1, <2>2
  <2>4. longest <= Limit.bytes
    BY <2>1, <2>2, <2>3 DEF BeginningsFit
  <2>5. ASSUME NEW s \in Stations
        PROVE  LiveSize[s] \in Nat /\ \A i \in DOMAIN Backlog[s] : Backlog[s][i] \in Nat
    <3>1. LiveSize[s] \in Nat /\ Backlog[s] \in Seq(Nat \ {0})
      BY FairnessAssumption
    <3> QED
      BY <3>1
  <2> QED
    BY <2>1, <2>4, <2>5 DEF BeginningsFit, ReadingsFit, ReadingsWithin
<1>6. RotationSpec => [](\A s \in Stations : waited[s] < Cardinality(Stations))
  BY <1>5, StationsTakeTurns
<1> QED
  BY <1>1, <1>2, <1>3, <1>4, <1>6, RotationIsTyped, PTL DEF RotationSpec
-----------------------------------------------------------------------------
(* Both parts of the uploader.                                             *)

\* The states of both parts are well typed, whichever of them moves.
THEOREM UploaderIsTyped == UploaderSpec => []UploaderTypeOK
<1>1. UploaderInit => PacingInv /\ RotationTypeOK
  <2>1. RotationOff => RotationTypeOK
    <3> SUFFICES ASSUME RotationOff PROVE RotationTypeOK
      OBVIOUS
    <3>1. Cardinality(Stations) \in Nat \ {0}
      BY FairnessAssumption, FS_CardinalityType, FS_EmptySet
    <3>2. 0 \in 0..Cardinality(Stations) - 1 /\ <<>> \in Seq(Row)
      BY <3>1
    <3> QED
      BY <3>2 DEF RotationOff, RotationTypeOK
  <2> QED
    BY <2>1, InitPacingInv, RotationInitType DEF UploaderInit
<1>2. PacingInv /\ RotationTypeOK /\ [UploaderNext]_<<part, vars, rotationVars>>
        => PacingInv' /\ RotationTypeOK'
  BY NextPacingInv, RotationNextType DEF UploaderNext
<1>3. PacingInv /\ RotationTypeOK => UploaderTypeOK
  BY DEF PacingInv, UploaderTypeOK
<1> QED
  BY <1>1, <1>2, <1>3, PTL DEF UploaderSpec
=============================================================================
