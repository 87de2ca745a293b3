------------------------------ MODULE MCUploader ------------------------------
(***************************************************************************)
(* The uploader, in two instances of which `part' selects one: what it     *)
(* remembers between requests (UploadPacing) and how it shares requests    *)
(* between stations (BatchFairness); the other part does not move.         *)
(***************************************************************************)
EXTENDS UploadPacing, MCBatchFairness

VARIABLE part   \* "pacing", "rotation"

\* Two spools, one of which may appear late; a configuration of three packets and
\* two bytes; a receiver that lowers one limit, and one that sends nonsense.
Lim(p, b) == [a \in Attributes |-> IF a = "packets" THEN p ELSE b]
MCConfigured == Lim(3, 2)
MCAdverts == {Lim(4, 4), Lim(0, 1)}

RotationOff ==
    /\ queue = [s \in Stations |-> <<>>] /\ newestFirst = [s \in Stations |-> FALSE]
    /\ front = 0
    /\ waited = [s \in Stations |-> 0] /\ missed = [s \in Stations |-> 0]

UploaderInit ==
    /\ Init
    /\ \/ part = "pacing" /\ RotationOff
       \/ part = "rotation" /\ RotationInit

UploaderNext ==
    /\ UNCHANGED part
    /\ \/ part = "pacing" /\ Next /\ UNCHANGED rotationVars
       \/ part = "rotation" /\ RotationNext /\ UNCHANGED vars

\* The states of both parts are well typed; no limit is ever zero.
UploaderTypeOK == TypeOK /\ RotationTypeOK

UploaderSpec ==
    /\ UploaderInit /\ [][UploaderNext]_<<part, vars, rotationVars>>
    /\ WF_front(part = "rotation" /\ TurnTaken)
=============================================================================
