------------------------------ MODULE Delivery ------------------------------
(***************************************************************************)
(* From a reading committed to a spool to its receipt at the server and    *)
(* its removal: the workers that append, the uploader process              *)
(* (Uploader.tick of uploader.py, restarted by the supervisor), the        *)
(* network, the receiver, the `retry' command and the clock.               *)
(*                                                                         *)
(* A tick is not atomic: it reads rows, blocks in HTTP, and then settles   *)
(* the events of the batch one transaction at a time with what it read     *)
(* before.  Uploaders is a set because only `_upload' and `upload-once'    *)
(* take uploader.lock: the preview of `configure' runs a tick without it.  *)
(***************************************************************************)
EXTENDS Spool, Batching

CONSTANTS
    Uploaders,      \* processes that run Uploader.tick
    NoStation,      \* not a station
    Refused,        \* events the receiver never accepts
    Configured,     \* [packets, bytes]: max_packets and max_bytes of the configuration
    Adverts,        \* the limits an answer may carry
    ServerLimit,    \* [packets, bytes]: a larger request is answered with 413
    Index,          \* place of a station in the list of spools, from 0
    Blockable,      \* stations the administrator of the receiver may block
    MaxFaults       \* bound on crashes, lost messages, HTTP errors and blocks

Attributes == {"packets", "bytes"}
Limits == [Attributes -> Nat \ {0}]

ASSUME UploaderAssumption ==
    /\ NoStation \notin Stations
    /\ Refused \subseteq Events
    /\ Configured \in Limits
    /\ ServerLimit \in Limits
    /\ Adverts \subseteq [Attributes -> Nat]
    /\ Index \in [Stations -> Nat]
    /\ Blockable \subseteq Stations
    /\ MaxFaults \in Nat

VARIABLES
    receipts, admission,   \* the receiver
    phase,      \* where the tick of an uploader stands
    batch,      \* the events of the request, then those not yet settled
    answer,     \* the verdicts of the response
    hold,       \* the station to hold back after the defer just done
    limits,     \* packet_limit and byte_limit in memory
    unsaved,    \* <<station, attribute>> still to be persisted by this tick
    front,      \* self.cursor
    learned,    \* meta upload_max_packets and upload_max_bytes
    late,       \* requests that were given up but may still reach the server
    faults      \* faults so far

INSTANCE Receiver

serverVars == <<receipts, admission>>
tickVars == <<phase, batch, answer, hold, limits, unsaved, front>>
vars == <<spoolVars, serverVars, tickVars, learned, late, faults>>

Phases == {"idle", "sent", "answered", "settling", "saving", "delaying"}

TypeOK ==
    /\ SpoolTypeOK
    /\ ReceiverTypeOK
    /\ phase \in [Uploaders -> Phases]
    /\ batch \in [Uploaders -> SUBSET Events]
    /\ answer \in [Uploaders -> [Events -> Verdicts]]
    /\ hold \in [Uploaders -> Stations \cup {NoStation}]
    /\ limits \in [Uploaders -> Limits]
    /\ unsaved \in [Uploaders -> SUBSET (Stations \X Attributes)]
    /\ front \in [Uploaders -> Nat]
    /\ learned \in [Stations -> Limits]
    /\ late \in SUBSET (SUBSET Events)
    /\ faults \in Nat

NoAnswer == [e \in Events |-> "missing"]
Lesser(a, b) == IF a < b THEN a ELSE b

\* Uploader.__init__: the configured limits, or the lowest that was learned.
\* (get_meta falls back to the configured value: learned starts with it.)
Loaded == [a \in Attributes |-> Min({Configured[a]} \cup {learned[s][a] : s \in Stations})]

Init ==
    /\ SpoolInit
    /\ ReceiverInit
    /\ phase = [u \in Uploaders |-> "idle"]
    /\ batch = [u \in Uploaders |-> {}]
    /\ answer = [u \in Uploaders |-> NoAnswer]
    /\ hold = [u \in Uploaders |-> NoStation]
    /\ limits = [u \in Uploaders |-> Configured]
    /\ unsaved = [u \in Uploaders |-> {}]
    /\ front = [u \in Uploaders |-> 0]
    /\ learned = [s \in Stations |-> Configured]
    /\ late = {}
    /\ faults = 0

Fault == faults < MaxFaults /\ faults' = faults + 1
-----------------------------------------------------------------------------
(* The worker of a station.  While the reading does not fit, the worker    *)
(* keeps it and asks again (runtime.py), which changes nothing here.       *)

Collect(e) ==
    /\ e \notin committed      \* a LOOP packet has a fresh uuid, a record a later time
    /\ AppendEvent(e)
    /\ UNCHANGED <<serverVars, tickVars, learned, late, faults>>
-----------------------------------------------------------------------------
(* The tick of an uploader.                                                *)

Picked(u) ==
    Pick([s \in Stations |-> Due(s)], [e \in Events |-> row[e].seq], newestFirst,
         SizeOf, Index, front[u], limits[u])

\* _batch: rows that no request can carry are quarantined on the way; the
\* stations that got a place start from their other end next time.
TakeBatch(u) ==
    /\ phase[u] = "idle"
    /\ LET picked == Picked(u)
           chosen == {e \in Held : e \in picked.chosen}
       IN  /\ row' = [e \in Events |->
                        IF e \in picked.tooLarge THEN Deferred(e, TRUE, TRUE) ELSE row[e]]
           /\ newestFirst' = [s \in Stations |->
                        newestFirst[s] # (\E e \in chosen : StationOf[e] = s)]
           /\ batch' = [batch EXCEPT ![u] = chosen]
           /\ phase' = [phase EXCEPT ![u] = IF chosen = {} THEN "idle" ELSE "sent"]
    /\ front' = [front EXCEPT ![u] = (@ + 1) % Cardinality(Stations)]
    /\ UNCHANGED <<usage, nextSeq, cursor, heldBack, committed, serverVars,
                   answer, hold, limits, unsaved, learned, late, faults>>

\* _global_delay begins: the request is over and nothing was confirmed.
GiveUp(u) ==
    /\ phase' = [phase EXCEPT ![u] = "delaying"]
    /\ batch' = [batch EXCEPT ![u] = {}]
    /\ answer' = [answer EXCEPT ![u] = NoAnswer]
    /\ unsaved' = [unsaved EXCEPT ![u] = Stations \X Attributes]

\* TransportError or ConfigError: the request may still be on its way.
RequestFails(u) ==
    /\ phase[u] = "sent"
    /\ Fault
    /\ \/ late' = late \cup {batch[u]}
       \/ late' = late
    /\ GiveUp(u)
    /\ UNCHANGED <<spoolVars, serverVars, hold, limits, front, learned>>

\* An HTTP status other than 200 and 413.
HttpError(u) ==
    /\ phase[u] = "sent"
    /\ Fault
    /\ GiveUp(u)
    /\ UNCHANGED <<spoolVars, serverVars, hold, limits, front, learned, late>>

TooLargeForServer(packets) ==
    \/ Cardinality(packets) > ServerLimit.packets
    \/ Cardinality(BytesOf(packets)) > ServerLimit.bytes

\* Mutants: a 413 does not split the request, or condemns one of its events.
PayloadTooLarge_KeepsSize(u) ==
    /\ phase[u] = "sent"
    /\ TooLargeForServer(batch[u])
    /\ GiveUp(u)
    /\ UNCHANGED <<spoolVars, serverVars, hold, limits, front, learned, late, faults>>

PayloadTooLarge_Condemns(u) ==
    /\ phase[u] = "sent"
    /\ TooLargeForServer(batch[u])
    /\ \E e \in batch[u] : Defer(e, TRUE, TRUE)
    /\ GiveUp(u)
    /\ UNCHANGED <<serverVars, hold, limits, front, learned, late, faults>>

\* 413: halve the request, or quarantine the one event it carried.
PayloadTooLarge(u) ==
    /\ phase[u] = "sent"
    /\ TooLargeForServer(batch[u])
    /\ LET n == Cardinality(batch[u]) IN
       \/ /\ n > 1
          /\ limits' = [limits EXCEPT ![u] = [@ EXCEPT !.packets = n \div 2]]
          /\ UNCHANGED spoolVars
       \/ /\ n = 1
          /\ \E e \in batch[u] : Defer(e, TRUE, TRUE)
          /\ UNCHANGED limits
    /\ GiveUp(u)
    /\ UNCHANGED <<serverVars, hold, front, learned, late, faults>>

\* The transaction of the receiver and its answer, one verdict per event.
ServerCommits(u) ==
    /\ phase[u] = "sent"
    /\ ~TooLargeForServer(batch[u])
    /\ Commit(batch[u])
    /\ answer' = [answer EXCEPT ![u] =
                    [e \in Events |-> IF e \in batch[u] THEN Verdict(e) ELSE "missing"]]
    /\ phase' = [phase EXCEPT ![u] = "answered"]
    /\ UNCHANGED <<spoolVars, batch, hold, limits, unsaved, front, learned, late, faults>>

\* The answer is lost, late or malformed: decode_response confirms nothing.
AnswerUnusable(u) ==
    /\ phase[u] = "answered"
    /\ Fault
    /\ GiveUp(u)
    /\ UNCHANGED <<spoolVars, serverVars, hold, limits, front, learned, late>>

\* A valid answer that leaves out an event of the batch.
AnswerOmits(u) ==
    /\ phase[u] = "answered"
    /\ Fault
    /\ \E e \in batch[u] :
        /\ answer[u][e] # "missing"
        /\ answer' = [answer EXCEPT ![u][e] = "missing"]
    /\ UNCHANGED <<spoolVars, serverVars, phase, batch, hold, limits, unsaved,
                   front, learned, late>>

\* A limit of the answer counts only when it lies within the configured one,
\* and then only to lower the limit in memory.
Tightened(old, advert) ==
    [a \in Attributes |->
       IF 0 < advert[a] /\ advert[a] <= Configured[a] THEN Lesser(old[a], advert[a]) ELSE old[a]]

\* The whole answer is decoded before anything is released.
ReadAnswer(u) ==
    /\ phase[u] = "answered"
    /\ \E advert \in Adverts :
         limits' = [limits EXCEPT ![u] = Tightened(@, advert)]
    /\ phase' = [phase EXCEPT ![u] = "settling"]
    /\ UNCHANGED <<spoolVars, serverVars, batch, answer, hold, unsaved, front,
                   learned, late, faults>>

\* Mutant: an event the answer leaves out counts as confirmed.
Settle_TrustsOmission(u, e) ==
    /\ phase[u] = "settling" /\ hold[u] = NoStation /\ e \in batch[u]
    /\ IF answer[u][e] \in Confirmed \cup {"missing"}
       THEN Acknowledge(e)
       ELSE Defer(e, FALSE, answer[u][e] \in {"refused", "blocked"})
    /\ hold' = hold
    /\ batch' = [batch EXCEPT ![u] = @ \ {e}]
    /\ answer' = [answer EXCEPT ![u][e] = "missing"]
    /\ UNCHANGED <<serverVars, phase, limits, unsaved, front, learned, late, faults>>

\* One event of the batch, in its own transaction.
Settle(u, e) ==
    /\ phase[u] = "settling" /\ hold[u] = NoStation /\ e \in batch[u]
    /\ IF answer[u][e] \in Confirmed
       THEN Acknowledge(e)
       ELSE Defer(e, FALSE, answer[u][e] \in {"refused", "blocked"})
    /\ hold' = [hold EXCEPT ![u] =
                  IF answer[u][e] \in {"pending", "blocked"} THEN StationOf[e] ELSE NoStation]
    /\ batch' = [batch EXCEPT ![u] = @ \ {e}]
    /\ answer' = [answer EXCEPT ![u][e] = "missing"]
    /\ UNCHANGED <<serverVars, phase, limits, unsaved, front, learned, late, faults>>

\* station_upload_after is set by a statement of its own, after the defer.
HoldStation(u) ==
    /\ hold[u] \in Stations
    /\ HoldBack(hold[u])
    /\ hold' = [hold EXCEPT ![u] = NoStation]
    /\ UNCHANGED <<serverVars, phase, batch, answer, limits, unsaved, front,
                   learned, late, faults>>

\* The loop over the batch ends, the loop that persists the limits begins.
AllSettled(u) ==
    /\ phase[u] = "settling" /\ hold[u] = NoStation /\ batch[u] = {}
    /\ phase' = [phase EXCEPT ![u] = "saving"]
    /\ unsaved' = [unsaved EXCEPT ![u] = Stations \X Attributes]
    /\ UNCHANGED <<spoolVars, serverVars, batch, answer, hold, limits, front,
                   learned, late, faults>>

\* set_meta per spool and limit after an answer, in the order of the code;
\* _global_delay writes both limits of a spool in one transaction.
Save(u, written) ==
    /\ learned' = [s \in Stations |-> [a \in Attributes |->
                     IF <<s, a>> \in written THEN limits[u][a] ELSE learned[s][a]]]
    /\ unsaved' = [unsaved EXCEPT ![u] = @ \ written]
    /\ phase' = [phase EXCEPT ![u] = IF unsaved[u] \ written = {} THEN "idle" ELSE @]
    /\ UNCHANGED <<spoolVars, serverVars, batch, answer, hold, limits, front, late, faults>>

SaveLimit(u) ==
    /\ phase[u] = "saving"
    /\ \E s \in Stations :
        /\ \A t \in Stations : Index[t] < Index[s] => ({t} \X Attributes) \cap unsaved[u] = {}
        /\ \/ <<s, "packets">> \in unsaved[u] /\ Save(u, {<<s, "packets">>})
           \/ <<s, "packets">> \notin unsaved[u] /\ <<s, "bytes">> \in unsaved[u]
              /\ Save(u, {<<s, "bytes">>})

SaveDelay(u) ==
    /\ phase[u] = "delaying"
    /\ \E s \in Stations :
        /\ \A t \in Stations : Index[t] < Index[s] => ({t} \X Attributes) \cap unsaved[u] = {}
        /\ {s} \X Attributes \subseteq unsaved[u]
        /\ Save(u, {s} \X Attributes)

\* The process dies anywhere and is started again: what it knew is gone, what
\* it had sent may still arrive.
Crash(u) ==
    /\ Fault
    /\ phase' = [phase EXCEPT ![u] = "idle"]
    /\ batch' = [batch EXCEPT ![u] = {}]
    /\ answer' = [answer EXCEPT ![u] = NoAnswer]
    /\ hold' = [hold EXCEPT ![u] = NoStation]
    /\ unsaved' = [unsaved EXCEPT ![u] = {}]
    /\ limits' = [limits EXCEPT ![u] = Loaded]
    /\ front' = [front EXCEPT ![u] = 0]
    /\ late' = IF phase[u] = "sent" THEN late \cup {batch[u]} ELSE late
    /\ UNCHANGED <<spoolVars, serverVars, learned>>
-----------------------------------------------------------------------------
(* The rest of the world.                                                  *)

\* A request nobody waits for any more is committed by the server after all.
LateCommit(packets) ==
    /\ packets \in late
    /\ late' = late \ {packets}
    /\ Commit(packets)
    /\ UNCHANGED <<spoolVars, tickVars, learned, faults>>

\* weewx-php-ingest retry <station>
Retry(s) ==
    /\ \/ heldBack[s]
       \/ \E e \in HeldBy(s) : row[e].state = "quarantined"
    /\ RetryQuarantined(s)
    /\ UNCHANGED <<serverVars, tickVars, learned, late, faults>>

AdminAdopts(s) ==
    /\ Adopt(s)
    /\ UNCHANGED <<spoolVars, tickVars, learned, late, faults>>

AdminBlocks(s) ==
    /\ Fault
    /\ Block(s)
    /\ UNCHANGED <<spoolVars, tickVars, learned, late>>

RowElapses(e) ==
    /\ ElapseRow(e)
    /\ UNCHANGED <<serverVars, tickVars, learned, late, faults>>

StationElapses(s) ==
    /\ ElapseStation(s)
    /\ UNCHANGED <<serverVars, tickVars, learned, late, faults>>
-----------------------------------------------------------------------------
\* What follows a batch until the uploader is idle again.
Proceed(u) ==
    \/ PayloadTooLarge(u)
    \/ ServerCommits(u)
    \/ ReadAnswer(u)
    \/ \E e \in Events : Settle(u, e)
    \/ HoldStation(u)
    \/ AllSettled(u)
    \/ SaveLimit(u)
    \/ SaveDelay(u)

Disturb(u) ==
    RequestFails(u) \/ HttpError(u) \/ AnswerUnusable(u) \/ AnswerOmits(u) \/ Crash(u)

Next ==
    \/ \E e \in Events : Collect(e) \/ RowElapses(e)
    \/ \E u \in Uploaders : TakeBatch(u) \/ Proceed(u) \/ Disturb(u)
    \/ \E packets \in late : LateCommit(packets)
    \/ \E s \in Stations : Retry(s) \/ AdminAdopts(s) \/ StationElapses(s)
    \/ \E s \in Blockable : AdminBlocks(s)

Spec == Init /\ [][Next]_vars

\* The step in which the spool whose turn it is changes: with more than one
\* spool, a TakeBatch (or one of the finitely many crashes).
TurnTaken(u) ==
    /\ phase[u] = "idle"
    /\ front' = [front EXCEPT ![u] = (@ + 1) % Cardinality(Stations)]

\* The uploader's loop (cli.py), the receiver and the clock go on; faults end
\* because they are bounded; nobody has to retry, adopt or collect.  The first
\* line is weak fairness of TakeBatch, said with the one variable that every
\* TakeBatch changes.
Fairness ==
    /\ \A u \in Uploaders : WF_front(TurnTaken(u)) /\ WF_vars(Proceed(u))
    /\ \A e \in Events : WF_vars(RowElapses(e))
    /\ \A s \in Stations : WF_vars(StationElapses(s))

FairSpec == Spec /\ Fairness

\* The worker's append loop as well: a reading that fits does get in.
FairCollectSpec == FairSpec /\ \A e \in Events : WF_vars(Collect(e))
-----------------------------------------------------------------------------
(* Safety.                                                                 *)

\* A committed reading is in the spool file until the receiver has a receipt
\* for it: neither a crash between two settlements, nor a lost answer, nor a
\* second uploader, nor an answer that omits events drops one (acknowledge is
\* reached from "stored" and "duplicate" only).
NothingLost == committed \subseteq Held \cup receipts

\* Only committed readings travel: in the requests that are awaited or given
\* up, and so in the receipts of the receiver.
OnlyCommittedTravels ==
    /\ Held \subseteq committed
    /\ receipts \subseteq committed
    /\ \A u \in Uploaders : batch[u] \subseteq committed
    /\ \A packets \in late : packets \subseteq committed

\* A confirmation an uploader still holds stands for a receipt, however long
\* ago it arrived and whatever other requests the receiver served since.
ConfirmationsAreReceipts ==
    \A u \in Uploaders, e \in Events : answer[u][e] \in Confirmed => e \in receipts

\* The inductive invariant: what is lost, what travels, what is confirmed.
DeliveryInv ==
    /\ TypeOK
    /\ NothingLost
    /\ OnlyCommittedTravels
    /\ ConfirmationsAreReceipts

\* A reading is quarantined only for a reason that a retry of the unchanged
\* reading cannot cure by itself: splitting after 413 and skipping over the
\* byte limit never set a reading apart that some request could carry.
Undeliverable(e) ==
    \/ e \in Refused
    \/ StationOf[e] \in Blockable
    \/ \E limit \in {Configured, ServerLimit} \cup Adverts : SizeOf[e] > limit.bytes

\* A refused event stays in quarantine until somebody asks for a retry of its
\* station: no later verdict, 413 or restart of the uploader puts it back
\* (operations.md: "Retained in quarantine ... use `retry <station>`").
QuarantineIsJustified ==
    [][\A e \in Events :
         /\ row'[e].state = "quarantined" => Undeliverable(e)
         /\ row[e].state = "quarantined" /\ row'[e].state = "queued"
               => Retry(StationOf[e])]_vars

-----------------------------------------------------------------------------
(* The promise.                                                            *)

Promise == INSTANCE Handoff WITH taken <- committed, kept <- Held, stored <- receipts

\* Every step of workers, uploaders, receiver and operators is, for a reading,
\* the step of the promise that its name says, or none at all: taken once,
\* stored at most once while a spool still has it, released after that.
KeepsThePromise == Promise!HandoffSpec
-----------------------------------------------------------------------------
(* Liveness.                                                               *)

\* A reading that can be delivered is released once its station is adopted for
\* good, whatever the other stations are: pending for ever, blocked, or full of
\* refused readings ("Pending stations do not block admitted stations").
AdoptedStationDrains ==
    \A e \in Events : ~Undeliverable(e) =>
        (<>[](admission[StationOf[e]] = "adopted") => (e \in committed ~> e \notin Held))

\* "collection resumes when room is available" (operations.md): a full spool
\* does not stay full, so no reading waits for ever, once its station is
\* adopted for good and nothing undeliverable occupies the quota.
CollectionResumes ==
    \A s \in Stations :
        <>[](admission[s] = "adopted" /\ \A e \in HeldBy(s) : ~Undeliverable(e))
            => \A e \in Events : StationOf[e] = s => <>(e \in committed)
=============================================================================
