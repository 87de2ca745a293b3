---------------------------- MODULE UploadPacing ----------------------------
(***************************************************************************)
(* What an uploader remembers (uploader.py): the earliest time of the next *)
(* attempt and the request limits it has learned.  They live in memory and *)
(* in the metadata of every spool.  A refusal writes them in one           *)
(* transaction per spool, a success statement by statement; the process    *)
(* may die between any two writes, the clock may be set back, and spools   *)
(* of new sensors appear.  Delivery abstracts delays to `some time'; here  *)
(* they have a length and the readings are abstracted to the size of a     *)
(* request.                                                                *)
(***************************************************************************)
EXTENDS Integers, FiniteSets, FiniteSetsExt

CONSTANTS
    Spools,
    SendInterval, BackoffMax,   \* send_interval, backoff_max
    Refusal,                    \* the 300 seconds after a permanent refusal
    RetryAfters,                \* values of Retry-After the receiver may send; 0 for none
    Configured,                 \* max_packets and max_bytes of the configuration
    Adverts,                    \* limits a receiver may advertise
    MaxTime, MaxFaults          \* bounds: the clock; crashes and settings of the clock

Attributes == {"packets", "bytes"}
Keys == Attributes \cup {"next"}

ASSUME PacingAssumption ==
    /\ IsFiniteSet(Spools)
    /\ SendInterval \in Nat \ {0} /\ BackoffMax \in Nat \ {0} /\ Refusal \in Nat
    /\ RetryAfters \subseteq Nat
    /\ Configured \in [Attributes -> Nat \ {0}]
    /\ Adverts \subseteq [Attributes -> Int]
    /\ MaxTime \in Nat /\ MaxFaults \in Nat

VARIABLES
    now,
    registered,     \* spools that exist
    disk,           \* their metadata upload_next_attempt, upload_max_packets, upload_max_bytes
    pc,             \* "down", "idle", "sent" or "saving"
    opened,         \* Uploader.spools
    memory,         \* next_attempt, packet_limit, byte_limit of the process
    failures,
    request,        \* [at, packets, bytes]: when the tick began, and the size of its batch
    unsaved,        \* the writes still to be made: sets of <<spool, key>>, each atomic
    binding,        \* history: the latest next_attempt of which some write has committed
    faults

process == <<pc, opened, memory, failures, request, unsaved>>
files == <<registered, disk, binding>>
vars == <<now, process, files, faults>>

Larger(a, b) == IF a < b THEN b ELSE a
Smaller(a, b) == IF a < b THEN a ELSE b

\* get_meta with the default of the configuration: a spool nothing was written to.
Unwritten == [k \in Keys |-> IF k = "next" THEN 0 ELSE Configured[k]]

TypeOK ==
    /\ now \in Nat /\ registered \subseteq Spools
    /\ disk \in [Spools -> [Keys -> Nat]]
    /\ pc \in {"down", "idle", "sent", "saving"}
    /\ opened \subseteq registered
    /\ memory \in [Keys -> Nat]
    /\ \A a \in Attributes : memory[a] > 0 /\ \A s \in Spools : disk[s][a] > 0
    /\ failures \in Nat
    /\ request \in [at : Nat, packets : Nat, bytes : Nat]
    /\ unsaved \subseteq SUBSET (opened \X Keys)
    /\ binding \in Nat /\ faults \in Nat

Init ==
    /\ now = 1 /\ registered = {} /\ disk = [s \in Spools |-> Unwritten]
    /\ pc = "down" /\ opened = {} /\ memory = Unwritten /\ failures = 0
    /\ request = [at |-> 0, packets |-> 0, bytes |-> 0]
    /\ unsaved = {} /\ binding = 0 /\ faults = 0

Fault == faults < MaxFaults /\ faults' = faults + 1
-----------------------------------------------------------------------------
(* The surroundings.                                                       *)

Tick ==
    /\ now < MaxTime
    /\ now' = now + 1
    /\ UNCHANGED <<process, files, faults>>

ClockIsSetBack ==
    /\ Fault
    /\ \E t \in 0..(now - 1) : now' = t
    /\ UNCHANGED <<process, files>>

SensorAppears(s) ==
    /\ s \notin registered
    /\ registered' = registered \cup {s}
    /\ UNCHANGED <<now, process, disk, binding, faults>>

Crash ==
    /\ pc # "down" /\ Fault
    /\ pc' = "down" /\ unsaved' = {}
    /\ UNCHANGED <<now, opened, memory, failures, request, files>>
-----------------------------------------------------------------------------
(* The uploader.                                                           *)

\* Mutant: the earliest attempt any spool knows.
Recalled_Earliest(k) ==
    LET stored == {disk[s][k] : s \in registered} IN
    IF registered = {} THEN Unwritten[k] ELSE Smaller(Unwritten[k], Min(stored))

\* Mutant: the highest limit any spool knows.
Recalled_Highest(k) ==
    LET stored == {disk[s][k] : s \in registered} IN
    IF registered = {} THEN Unwritten[k] ELSE Max(stored)

\* What a new process reads back: the latest attempt, the lowest limits.
Recalled(k) ==
    LET stored == {disk[s][k] : s \in registered} IN
    IF registered = {} THEN Unwritten[k]
    ELSE IF k = "next" THEN Max(stored) ELSE Smaller(Configured[k], Min(stored))

Start ==
    /\ pc = "down" /\ pc' = "idle"
    /\ opened' = registered /\ failures' = 0
    /\ memory' = [k \in Keys |-> Recalled(k)]
    /\ UNCHANGED <<now, request, unsaved, files, faults>>

Due == pc = "idle" /\ memory["next"] <= now

\* Every tick looks for new spools (discover_spools) before it looks at the clock.
TooEarly ==
    /\ pc = "idle" /\ now < memory["next"]
    /\ opened' = registered
    /\ UNCHANGED <<now, pc, memory, failures, request, unsaved, files, faults>>

\* A tick with nothing to send.
NothingToSend ==
    /\ Due
    /\ opened' = registered
    /\ memory' = [memory EXCEPT !["next"] = now + SendInterval]
    /\ UNCHANGED <<now, pc, failures, request, unsaved, files, faults>>

\* A tick chooses a batch within the limits and sends it.
Send ==
    /\ Due
    /\ opened' = registered /\ opened' # {}
    /\ \E p \in 1..memory["packets"], b \in 1..memory["bytes"] :
           request' = [at |-> now, packets |-> p, bytes |-> b]
    /\ pc' = "sent"
    /\ UNCHANGED <<now, memory, failures, unsaved, files, faults>>

\* The jittered delay of the n-th failure in a row, up to a ceiling.
Backoff(n) ==
    LET ceiling == Smaller(BackoffMax, SendInterval * 2 ^ Smaller(n, 20)) IN
    ((ceiling + 1) \div 2)..ceiling

\* _global_delay, which begins with memory: one transaction per spool follows.
GlobalDelay(minimum, limit) ==
    /\ pc = "sent" /\ pc' = "saving"
    /\ failures' = failures + 1
    /\ \E d \in Backoff(failures + 1) :
           memory' = [memory EXCEPT !["next"] = request.at + Larger(minimum, d),
                                    !["packets"] = limit]
    /\ unsaved' = {{s} \X Keys : s \in opened}
    /\ UNCHANGED <<now, opened, request, files, faults>>

\* No answer, or a 200 that decode_response refuses.
NoUsableAnswer == GlobalDelay(0, memory["packets"])

\* 4xx and redirections that no repetition will cure, or any other status.
Refused ==
    \E after \in RetryAfters, permanent \in BOOLEAN :
        GlobalDelay(Larger(after, IF permanent THEN Refusal ELSE 0), memory["packets"])

\* Mutant: after a batch of one the halving starts over.
TooLarge_StartsOver ==
    \E after \in RetryAfters :
        GlobalDelay(after, IF request.packets > 1 THEN Larger(1, request.packets \div 2)
                           ELSE Configured["packets"])

\* 413: half of the batch; a batch of one is condemned and leaves the limit alone.
TooLarge ==
    \E after \in RetryAfters :
        GlobalDelay(after, IF request.packets > 1 THEN Larger(1, request.packets \div 2)
                           ELSE memory["packets"])

\* Mutant: zero is a limit.
Acceptable_Zero(advert, a) == 0 <= advert[a] /\ advert[a] <= Configured[a]

Acceptable(advert, a) == 0 < advert[a] /\ advert[a] <= Configured[a]

\* A 200 answer: single statements follow, three for each spool.
Answered ==
    /\ pc = "sent" /\ pc' = "saving"
    /\ failures' = 0
    /\ \E after \in RetryAfters, advert \in Adverts :
           memory' = [k \in Keys |->
               IF k = "next" THEN request.at + Larger(SendInterval, after)
               ELSE IF Acceptable(advert, k) THEN Smaller(memory[k], advert[k]) ELSE memory[k]]
    /\ unsaved' = {{w} : w \in opened \X Keys}
    /\ UNCHANGED <<now, opened, request, files, faults>>

Save ==
    /\ pc = "saving"
    /\ \E writes \in unsaved :
           /\ unsaved' = unsaved \ {writes}
           /\ disk' = [s \in Spools |-> [k \in Keys |->
                          IF <<s, k>> \in writes THEN memory[k] ELSE disk[s][k]]]
           /\ binding' = IF \E w \in writes : w[2] = "next"
                         THEN Larger(binding, memory["next"]) ELSE binding
    /\ UNCHANGED <<now, pc, opened, memory, failures, request, registered, faults>>

EndOfTick ==
    /\ pc = "saving" /\ unsaved = {}
    /\ pc' = "idle"
    /\ UNCHANGED <<now, opened, memory, failures, request, unsaved, files, faults>>
-----------------------------------------------------------------------------
Next ==
    \/ Tick \/ ClockIsSetBack \/ Crash \/ \E s \in Spools : SensorAppears(s)
    \/ Start \/ TooEarly \/ NothingToSend \/ Send
    \/ NoUsableAnswer \/ Refused \/ TooLarge \/ Answered
    \/ Save \/ EndOfTick

Spec == Init /\ [][Next]_vars
-----------------------------------------------------------------------------
\* "retry waits at least 5 minutes", "Honor Retry-After and exponential backoff"
\* (operations.md): once a delay has reached one spool, no process sends before
\* it is over, whatever was lost in a crash, and whatever the clock shows when
\* the answer comes.
DelaysSurviveRestarts ==
    [][pc = "idle" /\ pc' = "sent" => binding <= now]_vars

\* "Learned lower request limits persist across restarts" (operations.md): a
\* request never exceeds the lowest limit that any spool has on disk, although
\* a crash may fall between the statements that write it.
RequestsKeepLearnedLimits ==
    pc = "sent" => \A s \in registered, a \in Attributes : request[a] <= disk[s][a]

\* No answer, 413 or restart loosens a limit that is on disk, although every
\* tick writes the limits of the process to every spool.
LearnedLimitsOnlyTighten ==
    [][\A s \in Spools, a \in Attributes : disk'[s][a] <= disk[s][a]]_vars
=============================================================================
