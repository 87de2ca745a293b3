------------------------------ MODULE Deployment ------------------------------
(***************************************************************************)
(* What the commands of an administrator do to an installed service:       *)
(* install.sh (and update, which runs it), which changes the release, and  *)
(* the assistant (configure.py), which stops the service to try hardware.  *)
(* Between their steps the service of systemd goes on by itself, a command *)
(* fails, the terminal is closed, the power is lost.                       *)
(*                                                                         *)
(* A release is its number in `built'; 0 is none.                          *)
(***************************************************************************)
EXTENDS Integers, Sequences, FiniteSets

CONSTANTS
    Stations,        \* how many stations the assistant sets up
    Revisions,       \* of the branch that is installed
    Sound,           \* those whose program does not end soon after its start
    MaxBuilds,       \* bound on the releases that are built
    MaxDisturbances  \* bound on the kinds of disturbances before one more is caused

ASSUME DeploymentAssumption ==
    /\ Stations \in Nat \ {0}
    /\ Sound \subseteq Revisions
    /\ MaxBuilds \in Nat \ {0}
    /\ MaxDisturbances \in Nat

VARIABLES
    built,        \* the revision of each verified release
    current,      \* the release the link names
    unit,         \* the release the unit file was written from
    enabled,      \* systemctl enable
    service,      \* "inactive", "starting", "up", or "failing": waiting for its restart
    serving,      \* the release of the running program, 0 when none runs
    config,       \* "missing", "initial" (check refuses it) or "valid"
    installer,    \* its next step and what it has read
    assistant,
    orphan,       \* a hardware test runs that nobody waits for
    started,      \* history: the service has been started once, at boot not counted
    failedStarts, \* history: releases an installer started and that ended at once
    met           \* history: what has come between the commands' steps

commandVars == <<installer, assistant>>
serviceVars == <<service, serving, enabled>>
releaseVars == <<built, current, unit>>
historyVars == <<orphan, started, failedStarts, met>>
deploymentVars ==
    <<config, commandVars, serviceVars, releaseVars, historyVars>>

Idle == [at |-> "idle", configured |-> FALSE,
         old |-> 0, oldUnit |-> 0, oldActive |-> FALSE]
Away == [at |-> "idle", left |-> 0, wasActive |-> FALSE, succeeded |-> FALSE]

InstallerAt == {"idle", "looking", "stopping", "linking", "unit", "enabling", "starting",
                "examining", "ending"}
AssistantAt == {"idle", "selecting", "probing", "saving", "previewing", "leaving"}
Disturbances == {"paused", "overlap", "edited", "ctrl-c", "interrupted", "refused", "power"}

DeploymentInit ==
    /\ built = <<>> /\ current = 0 /\ unit = 0
    /\ enabled = FALSE /\ service = "inactive" /\ serving = 0 /\ config = "missing"
    /\ installer = Idle /\ assistant = Away /\ orphan = FALSE
    /\ started = FALSE /\ failedStarts = {} /\ met = {}
Disturbs(kind) == met' = met \cup {kind} /\ Cardinality(met' \ {"power"}) <= MaxDisturbances
-----------------------------------------------------------------------------
\* The service manager.  A unit of Type=simple is active as soon as it is started.
Active == service \in {"starting", "up"}

\* systemctl start: nothing is done for an active unit.
Start == IF Active THEN UNCHANGED <<service, serving>>
         ELSE service' = "starting" /\ serving' = current

\* The program reads its configuration and runs, or ends with an error.
Proceeds ==
    /\ service = "starting"
    /\ LET runs == serving # 0 /\ built[serving] \in Sound /\ config = "valid" IN
       /\ service' = IF runs THEN "up" ELSE "failing"
       /\ serving' = IF runs THEN serving ELSE 0
       /\ failedStarts' = IF ~runs /\ installer.at = "examining" /\ serving = Len(built)
                          THEN failedStarts \cup {serving} ELSE failedStarts
    /\ UNCHANGED <<config, commandVars, enabled, releaseVars, orphan, started, met>>

\* An error of a running program (Restart=on-failure).
Breaks ==
    /\ service = "up" /\ service' = "failing" /\ serving' = 0
    /\ UNCHANGED <<config, commandVars, enabled, releaseVars, historyVars>>

\* RestartSec=5 later, which is after the three seconds of an installer that examines
\* the service; if there still is a unit.
Restarts ==
    /\ service = "failing" /\ installer.at # "examining"
    /\ IF unit = 0 THEN service' = "inactive" /\ UNCHANGED serving
       ELSE service' = "starting" /\ serving' = current
    /\ UNCHANGED <<config, commandVars, enabled, releaseVars, historyVars>>
-----------------------------------------------------------------------------
\* The installer.  It builds a release of the newest revision beside the others, verifies
\* it, initializes a missing configuration and checks it; an update whose revision is
\* installed, or whose configuration is refused, ends here.
Builds(update, revision) ==
    LET checked == IF config = "missing" THEN "initial" ELSE config IN
    /\ installer.at = "idle"
    /\ update => /\ current # 0 /\ built[current] # revision /\ checked = "valid"
    /\ Len(built) < MaxBuilds
    /\ config' = checked /\ built' = Append(built, revision)
    /\ installer' = [Idle EXCEPT !.at = "looking", !.configured = checked = "valid"]
    /\ met' = IF assistant.at = "idle" THEN met ELSE met \cup {"overlap"}
    /\ UNCHANGED <<assistant, serviceVars, current, unit, orphan, started, failedStarts>>

\* An update of the installed revision restarts an active service for a new rtl_433.
TryRestarts ==
    /\ installer.at = "idle" /\ current # 0 /\ Active
    /\ service' = "starting" /\ serving' = current
    /\ UNCHANGED <<config, commandVars, enabled, releaseVars, historyVars>>

\* What a rollback will restore.
Looks ==
    /\ installer.at = "looking"
    /\ installer' = [installer EXCEPT !.at = "stopping", !.old = current, !.oldUnit = unit,
                                      !.oldActive = Active]
    /\ met' = IF service = "failing" THEN met \cup {"paused"} ELSE met
    /\ UNCHANGED <<config, assistant, serviceVars, releaseVars, orphan, started, failedStarts>>

\* Mutant: the service keeps running while it is replaced.
Stops_Never ==
    /\ installer.at = "stopping"
    /\ installer' = [installer EXCEPT !.at = "linking"]
    /\ UNCHANGED <<config, assistant, serviceVars, releaseVars, historyVars>>

Stops ==
    /\ installer.at = "stopping"
    /\ IF installer.oldActive THEN service' = "inactive" /\ serving' = 0
       ELSE UNCHANGED <<service, serving>>
    /\ installer' = [installer EXCEPT !.at = "linking"]
    /\ UNCHANGED <<config, assistant, enabled, releaseVars, historyVars>>

Activates ==
    /\ installer.at = "linking"
    /\ current' = Len(built)
    /\ installer' = [installer EXCEPT !.at = "unit"]
    /\ UNCHANGED <<config, assistant, serviceVars, built, unit, historyVars>>

WritesUnit ==
    /\ installer.at = "unit"
    /\ unit' = Len(built)
    /\ installer' = [installer EXCEPT !.at = IF installer.configured THEN "enabling" ELSE "ending"]
    /\ UNCHANGED <<config, assistant, serviceVars, built, current, historyVars>>

\* systemctl enable, which no rollback undoes,
Enables ==
    /\ installer.at = "enabling"
    /\ enabled' = TRUE
    /\ installer' = [installer EXCEPT !.at = "starting"]
    /\ UNCHANGED <<config, assistant, service, serving, releaseVars, historyVars>>

\* and, a command later, systemctl start.
StartsService ==
    /\ installer.at = "starting"
    /\ Start /\ started' = TRUE
    /\ installer' = [installer EXCEPT !.at = "examining"]
    /\ UNCHANGED <<config, assistant, enabled, releaseVars, orphan, failedStarts, met>>

\* The trap on EXIT, for an exit status other than 0.
Activated == installer.at \in {"unit", "enabling", "starting", "examining"}
Stopped == installer.oldActive /\ installer.at # "looking"

\* The start of a rollback is refused like any other.
RestartsOld(release) ==
    IF ~installer.oldActive \/ Active THEN UNCHANGED <<service, serving, met>>
    ELSE \/ service' = "starting" /\ serving' = release /\ UNCHANGED met
         \/ Disturbs("refused") /\ UNCHANGED <<service, serving>>

\* Mutant: the unit file is not restored.
RollsBack_LinkOnly ==
    /\ current' = IF Activated THEN installer.old ELSE current
    /\ IF Activated \/ Stopped THEN RestartsOld(current') ELSE UNCHANGED <<service, serving, met>>
    /\ installer' = Idle
    /\ UNCHANGED <<config, assistant, enabled, built, unit, orphan, started, failedStarts>>

RollsBack ==
    /\ current' = IF Activated THEN installer.old ELSE current
    /\ IF Activated \/ Stopped THEN unit' = installer.oldUnit /\ RestartsOld(current')
       ELSE UNCHANGED <<unit, service, serving, met>>
    /\ installer' = Idle
    /\ UNCHANGED <<config, assistant, enabled, built, orphan, started, failedStarts>>

\* Three seconds later; a program that cannot run has ended by then.
Examines ==
    /\ installer.at = "examining" /\ service # "starting"
    /\ \/ service # "up" /\ RollsBack
       \/ /\ service = "up"
          /\ installer' = [installer EXCEPT !.at = "ending"]
          /\ UNCHANGED <<config, assistant, serviceVars, releaseVars, historyVars>>

\* A step that ends with an error, the start of the service included.
Fails == installer.at \in {"stopping", "linking", "unit", "enabling", "starting"} /\ RollsBack

Ends ==
    /\ installer.at = "ending" /\ installer' = Idle
    /\ UNCHANGED <<config, assistant, serviceVars, releaseVars, historyVars>>

\* SIGINT, SIGTERM or SIGHUP while the shell waits for a command: bash runs the trap
\* with the status of the command before, which is 0, so nothing is restored.
Interrupts ==
    /\ installer.at # "idle" /\ installer' = Idle
    /\ Disturbs("interrupted")
    /\ UNCHANGED <<config, assistant, serviceVars, releaseVars, orphan, started, failedStarts>>
-----------------------------------------------------------------------------
\* Mutant: an active service is left running.
Opens_LeavesRunning ==
    /\ assistant.at = "idle" /\ unit # 0 /\ current # 0
    /\ assistant' = [Away EXCEPT !.at = "selecting", !.left = Stations, !.wasActive = Active]
    /\ IF Active THEN UNCHANGED <<service, serving>> ELSE service' = "inactive" /\ serving' = 0
    /\ met' = met \cup (IF service = "failing" THEN {"paused"} ELSE {})
                  \cup (IF installer.at = "idle" THEN {} ELSE {"overlap"})
    /\ UNCHANGED <<config, installer, enabled, releaseVars, orphan, started, failedStarts>>

\* The assistant asks whether the service is active, stops it, and sets up the stations.
Opens ==
    /\ assistant.at = "idle" /\ unit # 0 /\ current # 0
    /\ assistant' = [Away EXCEPT !.at = "selecting", !.left = Stations, !.wasActive = Active]
    /\ service' = "inactive" /\ serving' = 0
    /\ met' = met \cup (IF service = "failing" THEN {"paused"} ELSE {})
                  \cup (IF installer.at = "idle" THEN {} ELSE {"overlap"})
    /\ UNCHANGED <<config, installer, enabled, releaseVars, orphan, started, failedStarts>>

Assists(to) ==
    /\ assistant' = to
    /\ UNCHANGED <<installer, serviceVars, releaseVars, historyVars>>

Probes ==
    /\ assistant.at = "selecting"
    /\ Assists([assistant EXCEPT !.at = "probing"]) /\ UNCHANGED config

\* A reading; or none in 60 seconds, after which the hardware is selected again.
ProbeEnds ==
    /\ assistant.at = "probing" /\ UNCHANGED config
    /\ \/ Assists([assistant EXCEPT !.at = IF assistant.left = 1 THEN "saving" ELSE "selecting",
                                    !.left = @ - 1])
       \/ Assists([assistant EXCEPT !.at = "selecting"])

\* "Setup cancelled; configuration unchanged", or the new one is not valid.
Cancels ==
    /\ assistant.at \in {"probing", "saving"} /\ UNCHANGED config
    /\ Assists([assistant EXCEPT !.at = "leaving"])

Saves ==
    /\ assistant.at = "saving" /\ config' = "valid"
    /\ Assists([assistant EXCEPT !.at = "previewing"])

\* An error that the first upload does not expect leaves `succeeded' FALSE.
Previews ==
    /\ assistant.at = "previewing" /\ UNCHANGED config
    /\ \E succeeded \in BOOLEAN :
          Assists([assistant EXCEPT !.at = "leaving", !.succeeded = succeeded])

\* systemctl enable --now; the start may be refused after the unit is enabled.
EnablesNow ==
    /\ enabled' = TRUE
    /\ \/ Start /\ started' = TRUE /\ UNCHANGED met
       \/ Disturbs("refused") /\ UNCHANGED <<service, serving, started>>

\* Mutant: the service is started after a success only.
Leaves_AfterSuccess ==
    /\ assistant.at = "leaving" /\ assistant' = Away
    /\ IF unit # 0 /\ assistant.succeeded THEN EnablesNow
       ELSE UNCHANGED <<serviceVars, started, met>>
    /\ UNCHANGED <<config, installer, releaseVars, orphan, failedStarts>>

Leaves ==
    /\ assistant.at = "leaving" /\ assistant' = Away
    /\ IF unit # 0 /\ (assistant.succeeded \/ assistant.wasActive) THEN EnablesNow
       ELSE UNCHANGED <<serviceVars, started, met>>
    /\ UNCHANGED <<config, installer, releaseVars, orphan, failedStarts>>

\* Ctrl-C is raised in the assistant; the test has a session of its own and goes on.
KeyboardInterrupt ==
    /\ assistant.at \notin {"idle", "leaving"}
    /\ assistant' = [assistant EXCEPT !.at = "leaving"]
    /\ orphan' = (orphan \/ assistant.at = "probing")
    /\ Disturbs("ctrl-c")
    /\ UNCHANGED <<config, installer, serviceVars, releaseVars, started, failedStarts>>

\* The terminal is closed: no `finally' runs.
Hangup ==
    /\ assistant.at # "idle" /\ assistant' = Away
    /\ orphan' = (orphan \/ assistant.at = "probing")
    /\ Disturbs("interrupted")
    /\ UNCHANGED <<config, installer, serviceVars, releaseVars, started, failedStarts>>

TestEnds ==
    /\ orphan /\ orphan' = FALSE
    /\ UNCHANGED <<config, commandVars, serviceVars, releaseVars, started, failedStarts, met>>
-----------------------------------------------------------------------------
\* A manual edit, for better or worse.
Edits ==
    /\ config # "missing"
    /\ config' = IF config = "valid" THEN "initial" ELSE "valid"
    /\ Disturbs("edited")
    /\ UNCHANGED <<commandVars, serviceVars, releaseVars, orphan, started, failedStarts>>

\* Everything ends; an enabled unit is started at the next boot.
PowerLoss ==
    /\ installer' = Idle /\ assistant' = Away /\ orphan' = FALSE
    /\ IF enabled /\ unit # 0 THEN service' = "starting" /\ serving' = current
       ELSE service' = "inactive" /\ serving' = 0
    /\ met' = met \cup {"power"}
    /\ UNCHANGED <<config, enabled, releaseVars, started, failedStarts>>

DeploymentNext ==
    \/ Proceeds \/ Breaks \/ Restarts
    \/ \E update \in BOOLEAN, revision \in Revisions : Builds(update, revision)
    \/ TryRestarts \/ Looks \/ Stops \/ Activates \/ WritesUnit \/ Enables \/ StartsService
    \/ Examines \/ Fails \/ Ends \/ Interrupts
    \/ Opens \/ Probes \/ ProbeEnds \/ Cancels \/ Saves \/ Previews \/ Leaves
    \/ KeyboardInterrupt \/ Hangup \/ TestEnds
    \/ Edits \/ PowerLoss

DeploymentSpec == DeploymentInit /\ [][DeploymentNext]_deploymentVars
-----------------------------------------------------------------------------
NoCommand == installer.at = "idle" /\ assistant.at = "idle"

\* Types; and the link names a verified release.
DeploymentTypeOK ==
    /\ built \in UNION {[1..n -> Revisions] : n \in 0..MaxBuilds}
    /\ {current, unit, serving, installer.old, installer.oldUnit} \subseteq 0..Len(built)
    /\ failedStarts \subseteq 1..Len(built)
    /\ enabled \in BOOLEAN /\ started \in BOOLEAN /\ orphan \in BOOLEAN /\ met \subseteq Disturbances
    /\ service \in {"inactive", "starting", "up", "failing"}
    /\ config \in {"missing", "initial", "valid"}
    /\ installer.at \in InstallerAt /\ installer.oldActive \in BOOLEAN
    /\ assistant.at \in AssistantAt /\ assistant.left \in 0..Stations

\* However an update ends, by success or by an error of any of its steps, the unit
\* file was written from the release the link names: either both are new or both are
\* restored.
UnitMatchesRelease ==
    installer.at = "idle" /\ met \cap {"interrupted", "power"} = {} => unit = current

\* A service that was started once is enabled from then on, and no update and no
\* assistant leaves it stopped, whatever fails in them; not so one that was not active
\* yet: when its first start is refused, the trap leaves it enabled and stopped.
\* (Exceptions: a command that is interrupted; a start that systemd refuses to the
\* assistant or to the trap itself; a service that was waiting for its automatic
\* restart when the command asked whether it was active; an installation over a
\* configuration that was invalid when it looked, because it was edited or because the
\* assistant, which takes no lock, was at work.)
StartedIsNotLeftStopped ==
    started =>
        /\ enabled
        /\ NoCommand /\ unit # 0 /\ met \cap {"interrupted", "refused", "paused", "edited", "overlap"} = {}
           => service # "inactive"

\* After an update, its rollback or its interruption, the service runs the release the
\* link names.  (Exceptions: a service that was started by systemd or by the assistant between the
\* look of the installer and its start, which then does nothing.)
ServesCurrent ==
    NoCommand /\ Active /\ met \cap {"paused", "overlap"} = {}
    => serving = current

\* A hardware test has the device to itself: the service is stopped as long as it runs.
\* (Exceptions: an installation at the same time, which starts the service; a test
\* that outlives its assistant.)
TestHasTheDevice ==
    /\ assistant.at = "probing" \/ orphan
    /\ met \cap {"overlap", "interrupted", "ctrl-c"} = {}
    => ~Active

\* If service startup fails, the previous release is restored (operations.md), unless
\* the power is lost.
FailedStartIsUndone ==
    installer.at = "idle" /\ "power" \notin met => current \notin failedStarts
=============================================================================
