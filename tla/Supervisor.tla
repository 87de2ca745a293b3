----------------------------- MODULE Supervisor -----------------------------
(***************************************************************************)
(* The supervisor (supervisor.py) and its children: one worker per station *)
(* and the uploader.  Every quarter of a second it polls the children in   *)
(* turn; between two polls, and between the statements of one, the         *)
(* children go on: they write their heartbeats and states to the spools,   *)
(* hang, exit, crash.  The supervisor itself can be stopped, killed, or    *)
(* ended by an error of a spool.                                           *)
(*                                                                         *)
(* Time is counted in rounds of polls; a deadline or a next start is the   *)
(* number of rounds that are left until it.                                *)
(***************************************************************************)
EXTENDS Integers, FiniteSets, FiniteSetsExt

CONSTANTS
    Workers,          \* the stations
    Uploader,         \* the other child
    StartupTimeout,   \* of a child, in rounds
    SilenceTimeout,
    StableAfter,      \* max(60, silence_timeout)
    MaxBackoff,       \* the 300 seconds of backoff(failures, 1, 300)
    MaxFailures,      \* bound on the counter: 2^MaxFailures exceeds MaxBackoff
    MaxFaults         \* bound on hangs, exits, storage errors, kills

Children == Workers \cup {Uploader}

ASSUME SupervisorAssumption ==
    /\ IsFiniteSet(Workers) /\ Uploader \notin Workers
    /\ StartupTimeout \in Nat /\ SilenceTimeout \in Nat
    /\ StableAfter \in Nat /\ StableAfter >= SilenceTimeout
    /\ MaxBackoff \in Nat \ {0} /\ MaxFailures \in Nat \ {0} /\ 2^MaxFailures >= MaxBackoff
    /\ MaxFaults \in Nat

VARIABLES
    supervisor,   \* "down", "up", "stopping" or "waiting" for children it has asked to stop
    polled,       \* the children this round, or the shutdown, is done with
    looked,       \* the child whose heartbeat this poll has read, before it decides
    answer,       \* what it has read of that child since: `full' and its first operand
    child,        \* Child: failures, permanent, rounds to next_start, to deadline, since started
    proc,         \* the process of a child
    orphans,      \* children whose process of an earlier supervisor still runs
    fresh,        \* the heartbeat of a process differs from last_seen
    state,        \* meta collection_state
    full,         \* can_fit(blocked_bytes) is false
    broken,       \* stations whose spool refuses writes
    quiet,        \* history: rounds since the process started or wrote a heartbeat
    patient,      \* history: workers that wait for room, and have since the supervisor looked
    faults

childVars == <<proc, fresh, state, quiet, patient>>
worldVars == <<orphans, full, broken>>
pollVars == <<supervisor, polled, looked, answer, child>>
vars == <<pollVars, childVars, worldVars, faults>>

\* Before the lock and the first write to the spool, stuck there; collecting (or
\* uploading), waiting for room, stuck in the driver, about to return 65; and
\* the processes poll() has a code for.
Running == {"new", "stuck", "up", "blocked", "hung", "refusing"}
Collecting == {"up", "blocked", "hung", "refusing"}
Ended == {"exited", "refused"}
Answers == {"unasked", "says_full", "waits", "runs"}
States == {"stopped", "starting", "running", "spool_full", "invalid_packet", "restarting"}

NewChild == [failures |-> 0, permanent |-> FALSE, next |-> 0, deadline |-> 0, age |-> 0]

TypeOK ==
    /\ supervisor \in {"down", "up", "stopping", "waiting"}
    /\ polled \in SUBSET Children
    /\ looked \in SUBSET Children /\ answer \in Answers
    /\ child \in [Children -> [failures : 0..MaxFailures, permanent : BOOLEAN,
                               next : 0..MaxBackoff, deadline : Int, age : 0..StableAfter + 1]]
    /\ proc \in [Children -> {"none"} \cup Running \cup Ended]
    /\ orphans \in SUBSET Children
    /\ fresh \in [Children -> BOOLEAN]
    /\ state \in [Workers -> States]
    /\ full \in [Workers -> BOOLEAN]
    /\ broken \in SUBSET Workers
    /\ quiet \in [Children -> Nat]
    /\ patient \in SUBSET Workers
    /\ faults \in Nat

Init ==
    /\ supervisor = "down"
    /\ polled = {}
    /\ looked = {} /\ answer = "unasked"
    /\ child = [c \in Children |-> NewChild]
    /\ proc = [c \in Children |-> "none"]
    /\ orphans = {}
    /\ fresh = [c \in Children |-> FALSE]
    /\ state = [w \in Workers |-> "stopped"]
    /\ full = [w \in Workers |-> FALSE]
    /\ broken = {}
    /\ quiet = [c \in Children |-> 0]
    /\ patient = {}
    /\ faults = 0

Fault == faults < MaxFaults /\ faults' = faults + 1
SetState(c, s) == state' = IF c \in Workers THEN [state EXCEPT ![c] = s] ELSE state

\* A child without a process: what was known of its heartbeat is never read again.
IsGone(c) ==
    /\ proc' = [proc EXCEPT ![c] = "none"]
    /\ fresh' = [fresh EXCEPT ![c] = FALSE]
    /\ quiet' = [quiet EXCEPT ![c] = 0]
    /\ patient' = patient \ {c}
-----------------------------------------------------------------------------
(* The children.                                                           *)

\* Mutant: the child does not take its lock.
Boot_NoLock(c) ==
    /\ proc[c] = "new"
    /\ proc' = [proc EXCEPT ![c] = "up"] /\ SetState(c, "starting")
    /\ UNCHANGED <<pollVars, fresh, quiet, patient, worldVars, faults>>

\* The lock of the child, then run_worker; a second process exits with 2.
Boot(c) ==
    /\ proc[c] = "new"
    /\ IF c \in orphans
       THEN proc' = [proc EXCEPT ![c] = "exited"] /\ UNCHANGED state
       ELSE proc' = [proc EXCEPT ![c] = "up"] /\ SetState(c, "starting")
    /\ UNCHANGED <<pollVars, fresh, quiet, patient, worldVars, faults>>

\* An append, or a turn of the uploader's loop, and the heartbeat it writes.
Beat(c) ==
    /\ proc[c] \in {"up", "blocked"}
    /\ c \in Workers => ~full[c] /\ c \notin broken
    /\ proc' = [proc EXCEPT ![c] = "up"]
    /\ fresh' = [fresh EXCEPT ![c] = TRUE]
    /\ SetState(c, "running")
    /\ quiet' = [quiet EXCEPT ![c] = 0]
    /\ patient' = patient \ {c}
    /\ UNCHANGED <<pollVars, worldVars, faults>>

\* SpoolFull: the worker says so and waits.
BlockOnFull(c) ==
    /\ c \in Workers /\ proc[c] = "up" /\ full[c] /\ c \notin broken
    /\ proc' = [proc EXCEPT ![c] = "blocked"]
    /\ SetState(c, "spool_full")
    /\ UNCHANGED <<pollVars, fresh, quiet, patient, worldVars, faults>>

\* The driver does not return, or Python does not come as far as that.
Hang(c) ==
    /\ proc[c] \in {"new", "up"} /\ Fault
    /\ proc' = [proc EXCEPT ![c] = IF @ = "new" THEN "stuck" ELSE "hung"]
    /\ UNCHANGED <<pollVars, fresh, state, quiet, patient, worldVars>>

\* ProtocolError: the state is written before the process returns 65.
Refuse(c) ==
    /\ c \in Workers /\ proc[c] = "up" /\ c \notin broken /\ Fault
    /\ proc' = [proc EXCEPT ![c] = "refusing"]
    /\ SetState(c, "invalid_packet")
    /\ UNCHANGED <<pollVars, fresh, quiet, patient, worldVars>>

ReturnRefused(c) ==
    /\ proc[c] = "refusing"
    /\ proc' = [proc EXCEPT ![c] = "refused"]
    /\ UNCHANGED <<pollVars, fresh, state, quiet, patient, worldVars, faults>>

\* A driver error, a crash, the OOM killer.
Die(c) ==
    /\ proc[c] \in {"new", "up", "blocked"} /\ Fault
    /\ proc' = [proc EXCEPT ![c] = "exited"] /\ patient' = patient \ {c}
    /\ UNCHANGED <<pollVars, fresh, state, quiet, worldVars>>

\* sqlite3.Error: exit code 74.
DieOfStorage(c) ==
    /\ c \in broken /\ proc[c] \in {"new", "up", "blocked"}
    /\ proc' = [proc EXCEPT ![c] = "exited"] /\ patient' = patient \ {c}
    /\ UNCHANGED <<pollVars, fresh, state, quiet, worldVars, faults>>
-----------------------------------------------------------------------------
(* Supervisor.poll, one child after the other.                             *)

\* One child after the other, the uploader last.
Polling(c) ==
    /\ supervisor = "up" /\ looked = {} /\ c \notin polled
    /\ c = Uploader => Workers \subseteq polled
Polled(c) ==
    /\ polled' = polled \cup {c} /\ looked' = {} /\ answer' = "unasked"
    /\ UNCHANGED <<supervisor, worldVars>>

\* A process that runs: the heartbeat moves the deadline, and after a while of
\* stable running the failures are forgotten.
Look(c) ==
    /\ Polling(c) /\ proc[c] \in Running
    /\ looked' = {c}
    /\ IF fresh[c]
       THEN child' = [child EXCEPT ![c] =
              [@ EXCEPT !.deadline = SilenceTimeout,
                        !.failures = IF child[c].age > StableAfter
                                      THEN 0 ELSE child[c].failures]]
       ELSE UNCHANGED child
    /\ fresh' = [fresh EXCEPT ![c] = FALSE]
    /\ patient' = {w \in Workers \cap {c} : proc[w] = "blocked" /\ full[w]}
    /\ UNCHANGED <<supervisor, polled, answer, proc, state, quiet, worldVars, faults>>

\* Mutant: the watchdog does not ask the spool.
AsksState_Never(c) ==
    /\ c \in looked /\ answer = "unasked"
    /\ answer' = "runs"
    /\ UNCHANGED <<supervisor, polled, looked, child, childVars, worldVars, faults>>

\* `full', one read after the other: does the worker say that it waits for room,
AsksState(c) ==
    /\ c \in looked /\ answer = "unasked"
    /\ answer' = IF c \in Workers /\ state[c] = "spool_full" THEN "says_full" ELSE "runs"
    /\ UNCHANGED <<supervisor, polled, looked, child, childVars, worldVars, faults>>

\* and is there still none?  Then the deadline is moved.
AsksRoom(c) ==
    /\ c \in looked /\ answer = "says_full"
    /\ answer' = IF full[c] THEN "waits" ELSE "runs"
    /\ child' = IF full[c] THEN [child EXCEPT ![c] = [@ EXCEPT !.deadline = SilenceTimeout]] ELSE child
    /\ UNCHANGED <<supervisor, polled, looked, childVars, worldVars, faults>>

\* The verdict, a few statements later: nothing, or kill, wait, and tell the
\* spool.  A process that ended after the look keeps the code it ended with.
IsOverdue(c) == c \in looked /\ answer \in {"waits", "runs"} /\ child[c].deadline < 0

LetRun(c) ==
    /\ c \in looked /\ answer \in {"waits", "runs"} /\ child[c].deadline >= 0
    /\ UNCHANGED <<child, childVars, faults>>
    /\ Polled(c)

KillSilent(c) ==
    /\ IsOverdue(c) /\ c \notin broken
    /\ proc' = [proc EXCEPT ![c] = IF @ \in Ended THEN @ ELSE "exited"]
    /\ patient' = patient \ {c}
    /\ SetState(c, "restarting")
    /\ UNCHANGED <<child, fresh, quiet, faults>>
    /\ Polled(c)

\* Mutant: the backoff has no ceiling.
Backoff_Uncapped(failures) == (2^failures + 1) \div 2 .. 2^failures

Backoff(failures) ==
    LET ceiling == IF 2^failures < MaxBackoff THEN 2^failures ELSE MaxBackoff
    IN  (ceiling + 1) \div 2 .. ceiling

More(failures) == IF failures < MaxFailures THEN failures + 1 ELSE failures

\* Mutant: no exit is tried again.
Reap_ForGood(c) ==
    /\ Polling(c) /\ proc[c] \in Ended /\ c \notin broken
    /\ \E wait \in Backoff(More(child[c].failures)) :
         child' = [child EXCEPT ![c] =
                     [@ EXCEPT !.permanent = TRUE, !.failures = More(child[c].failures), !.next = wait]]
    /\ IsGone(c)
    /\ UNCHANGED <<state, faults>>
    /\ Polled(c)

\* A process has ended; 65 is for ever, everything else is tried again.
Reap(c) ==
    /\ Polling(c) /\ proc[c] \in Ended /\ c \notin broken
    /\ \E wait \in Backoff(More(child[c].failures)) :
         child' = [child EXCEPT ![c] =
                     [@ EXCEPT !.permanent = (proc[c] = "refused"),
                               !.failures = More(child[c].failures), !.next = wait]]
    /\ IsGone(c)
    /\ IF proc[c] = "refused" THEN UNCHANGED state ELSE SetState(c, "restarting")
    /\ UNCHANGED faults
    /\ Polled(c)

Startable(c) == proc[c] = "none" /\ ~child[c].permanent /\ child[c].next = 0

StartChild(c) ==
    /\ Polling(c) /\ Startable(c) /\ c \notin broken
    /\ proc' = [proc EXCEPT ![c] = "new"]
    /\ child' = [child EXCEPT ![c] = [@ EXCEPT !.age = 0, !.deadline = StartupTimeout]]
    /\ fresh' = [fresh EXCEPT ![c] = FALSE]
    /\ quiet' = [quiet EXCEPT ![c] = 0]
    /\ UNCHANGED <<state, patient, faults>>
    /\ Polled(c)

\* OSError from Popen.
StartFails(c) ==
    /\ Polling(c) /\ Startable(c) /\ Fault
    /\ \E wait \in Backoff(More(child[c].failures)) :
         child' = [child EXCEPT ![c] = [@ EXCEPT !.failures = More(child[c].failures), !.next = wait]]
    /\ UNCHANGED childVars
    /\ Polled(c)

PollIdle(c) ==
    /\ Polling(c) /\ proc[c] = "none" /\ ~Startable(c)
    /\ UNCHANGED <<child, childVars, faults>>
    /\ Polled(c)

\* A write to a broken spool raises sqlite3.Error, which poll does not catch:
\* run ends in shutdown.  It is the last statement of reaping, of starting and
\* of killing, so the process is already gone, there, or dead.
StorageEndsSupervisor(c) ==
    /\ c \in broken
    /\ \/ Polling(c) /\ proc[c] \in Ended /\ IsGone(c)
       \/ /\ Polling(c) /\ Startable(c)
          /\ proc' = [proc EXCEPT ![c] = "new"] /\ UNCHANGED <<fresh, quiet, patient>>
       \/ /\ IsOverdue(c)
          /\ proc' = [proc EXCEPT ![c] = IF @ \in Ended THEN @ ELSE "exited"]
          /\ patient' = patient \ {c}
          /\ UNCHANGED <<fresh, quiet>>
    /\ supervisor' = "stopping"
    /\ looked' = {} /\ answer' = "unasked"
    /\ UNCHANGED <<polled, child, state, worldVars, faults>>

\* self.stop.wait(0.25)
EndRound ==
    /\ supervisor = "up" /\ polled = Children
    /\ polled' = {}
    /\ child' = [c \in Children |->
                   [child[c] EXCEPT !.next = IF @ > 0 THEN @ - 1 ELSE 0,
                                    !.deadline = IF @ >= 0 THEN @ - 1 ELSE @,
                                    !.age = IF @ <= StableAfter THEN @ + 1 ELSE @]]
    /\ quiet' = [c \in Children |->
                   IF proc[c] # "none" /\ quiet[c] <= StableAfter THEN quiet[c] + 1 ELSE quiet[c]]
    /\ UNCHANGED <<supervisor, looked, answer, proc, fresh, state, patient, worldVars, faults>>
-----------------------------------------------------------------------------
(* Beginning and end of the supervisor.                                    *)

\* run, by the service manager or by hand; the spools have to open.
SupervisorStarts ==
    /\ supervisor = "down" /\ broken = {}
    /\ supervisor' = "up"
    /\ polled' = {}
    /\ child' = [c \in Children |-> NewChild]
    /\ UNCHANGED <<looked, answer, childVars, worldVars, faults>>

\* SIGTERM, SIGINT: the loop sees it between two rounds.
StopRequested ==
    /\ supervisor = "up" /\ polled = Children
    /\ supervisor' = "stopping"
    /\ UNCHANGED <<polled, looked, answer, child, childVars, worldVars, faults>>

\* shutdown: the stop file, then SIGTERM for every child.
AsksAllToStop ==
    /\ supervisor = "stopping"
    /\ supervisor' = "waiting" /\ polled' = {}
    /\ UNCHANGED <<looked, answer, child, childVars, worldVars, faults>>

\* A child follows, in its own time if ever; what it has in hand is not journaled.
Obeys(c) ==
    /\ supervisor = "waiting" /\ proc[c] \in Running
    /\ proc' = [proc EXCEPT ![c] = "exited"] /\ patient' = patient \ {c}
    /\ UNCHANGED <<pollVars, fresh, state, quiet, worldVars, faults>>

\* They are waited for one after the other, the uploader last.
WaitingFor(c) == supervisor = "waiting" /\ c \notin polled /\ (c = Uploader => Workers \subseteq polled)

ChildStopped(c) ==
    /\ WaitingFor(c) /\ proc[c] \in {"none"} \cup Ended
    /\ IsGone(c) /\ polled' = polled \cup {c}
    /\ UNCHANGED <<supervisor, looked, answer, child, state, worldVars, faults>>

\* Mutant: a child is waited for without a timeout.
ChildTimesOut_Never(c) == FALSE /\ UNCHANGED vars

\* shutdown_timeout is over for this one: it is killed.
ChildTimesOut(c) ==
    /\ WaitingFor(c) /\ proc[c] \in Running
    /\ IsGone(c) /\ polled' = polled \cup {c}
    /\ UNCHANGED <<supervisor, looked, answer, child, state, worldVars, faults>>

\* The states are written when no process is left, up to a spool that refuses.
SupervisorEnds ==
    /\ supervisor = "waiting" /\ polled = Children
    /\ supervisor' = "down"
    /\ \E marked \in SUBSET (Workers \ broken) :
        /\ broken = {} => marked = Workers
        /\ state' = [w \in Workers |-> IF w \in marked THEN "stopped" ELSE state[w]]
    /\ UNCHANGED <<polled, looked, answer, child, proc, fresh, quiet, patient, worldVars, faults>>

\* SIGKILL: the service manager ends the whole control group; without one the
\* children live on.
SupervisorKilled ==
    /\ supervisor # "down" /\ Fault
    /\ supervisor' = "down"
    /\ looked' = {} /\ answer' = "unasked" /\ patient' = {}
    /\ \/ UNCHANGED orphans
       \/ orphans' = orphans \cup {c \in Children : proc[c] \in Collecting}
    /\ proc' = [c \in Children |-> "none"]
    /\ fresh' = [c \in Children |-> FALSE]
    /\ quiet' = [c \in Children |-> 0]
    /\ UNCHANGED <<polled, child, state, full, broken>>

OrphanBeats(c) ==
    /\ c \in orphans
    /\ c \in Workers => ~full[c] /\ c \notin broken
    /\ fresh' = [fresh EXCEPT ![c] = proc[c] # "none"]
    /\ SetState(c, "running")
    /\ UNCHANGED <<pollVars, proc, quiet, patient, worldVars, faults>>

OrphanEnds(c) ==
    /\ c \in orphans
    /\ orphans' = orphans \ {c}
    /\ UNCHANGED <<pollVars, childVars, full, broken, faults>>

\* The uploader and the disk.
RoomChanges(w) ==
    /\ full' = [full EXCEPT ![w] = ~@]
    /\ patient' = patient \ {w}
    /\ UNCHANGED <<pollVars, proc, fresh, state, quiet, orphans, broken, faults>>

StorageFails(w) ==
    /\ w \notin broken /\ Fault
    /\ broken' = broken \cup {w}
    /\ UNCHANGED <<pollVars, childVars, orphans, full>>

StorageHeals(w) ==
    /\ broken' = broken \ {w}
    /\ w \in broken
    /\ UNCHANGED <<pollVars, childVars, orphans, full, faults>>
-----------------------------------------------------------------------------
Poll(c) ==
    \/ Look(c) \/ AsksState(c) \/ AsksRoom(c) \/ LetRun(c) \/ KillSilent(c) \/ Reap(c)
    \/ StartChild(c) \/ PollIdle(c) \/ StorageEndsSupervisor(c)

Shutdown ==
    \/ AsksAllToStop \/ SupervisorEnds
    \/ \E c \in Children : ChildStopped(c) \/ ChildTimesOut(c)

ChildStep(c) ==
    \/ Boot(c) \/ Beat(c) \/ BlockOnFull(c) \/ Hang(c)
    \/ Refuse(c) \/ ReturnRefused(c) \/ Die(c) \/ DieOfStorage(c) \/ Obeys(c)

Next ==
    \/ \E c \in Children :
         Poll(c) \/ StartFails(c) \/ ChildStep(c) \/ OrphanBeats(c) \/ OrphanEnds(c)
    \/ EndRound
    \/ SupervisorStarts \/ StopRequested \/ Shutdown \/ SupervisorKilled
    \/ \E w \in Workers : RoomChanges(w) \/ StorageFails(w) \/ StorageHeals(w)

Spec == Init /\ [][Next]_vars

\* The supervisor is one process that goes on once it runs, shutdown included; no
\* child has to do anything.
SupervisorStep == (\E c \in Children : Poll(c)) \/ EndRound \/ Shutdown

Fairness == WF_vars(SupervisorStep)

FairSpec == Spec /\ Fairness
-----------------------------------------------------------------------------
(* Properties.                                                             *)

\* Whatever supervisors are killed and started, a station is read, and the
\* spools are uploaded, by one process at a time.
SingleCollector == \A c \in orphans : proc[c] \notin Collecting

\* The watchdog kills only a process that was silent for its timeout (or speaks
\* in the moment between look and verdict), and no worker that waited for room at
\* the look and has waited ever since: its reading, not yet committed, would be
\* lost.  (One that begins to wait between the reads and the kill is killed; so is
\* one that room is found for at the second read, and taken away again.)
WatchdogIsPatient ==
    [][\A c \in looked :
         (proc[c] \in Running /\ proc'[c] \in Ended /\ c \notin looked') =>
            /\ quiet[c] > Min({SilenceTimeout, StartupTimeout}) \/ fresh[c]
            /\ c \notin patient]_vars

\* A station whose worker returned 65 is down and says so until somebody
\* restarts the supervisor.
RefusalIsReported ==
    \A w \in Workers : supervisor = "up" /\ child[w].permanent
        => state[w] = "invalid_packet"

\* "the worker exits and the supervisor retries", "Only the affected process is
\* restarted" (operations.md): as long as nobody stops the supervisor, the
\* failure of one child does not end the others.
OnlyTheAffected ==
    [][(supervisor = "up" /\ supervisor' = "stopping"
        /\ \E c \in Children \ broken : proc[c] \in Collecting)
          => StopRequested]_vars

\* Whether it hangs or ends, a child comes back, again and again, also while Popen
\* fails or an orphan holds its lock; unless it returned 65, or hangs while its spool
\* still says that it waits for room.
HangsUnnoticed(c) ==
    proc[c] \in {"hung", "stuck"} /\ c \in Workers /\ state[c] = "spool_full"
ChildrenComeBack ==
    \A c \in Children :
        <>[](supervisor = "up") =>
            \/ []<>(proc[c] \in Running \ {"hung", "stuck"})
            \/ <>(proc[c] = "refused")
            \/ <>[]HangsUnnoticed(c)

\* "bounded shutdown" (supervisor.py): it ends, although children may hang.
ShutdownEnds == supervisor = "stopping" ~> supervisor = "down"
=============================================================================
