------------------------------ MODULE MCService ------------------------------
(***************************************************************************)
(* The service of systemd: from inside, the supervisor and its children;   *)
(* from outside, the commands that replace, stop and start it.  A failing  *)
(* supervisor is all that the commands see of the inside, and a killed one *)
(* all that the supervisor sees of them, so each side is checked with the  *)
(* other held still.  `part' names the side that is followed.              *)
(***************************************************************************)
EXTENDS Supervisor, Deployment

VARIABLE part   \* "supervisor" or "commands"

serviceRunVars == <<part, vars, deploymentVars>>

ServiceInit ==
    /\ part \in {"supervisor", "commands"}
    /\ Init /\ DeploymentInit

ServiceNext ==
    /\ UNCHANGED part
    /\ \/ part = "supervisor" /\ Next /\ UNCHANGED deploymentVars
       \/ part = "commands" /\ DeploymentNext /\ UNCHANGED vars

\* The states of both sides are well typed; waits have their ceiling.
ServiceTypeOK == TypeOK /\ DeploymentTypeOK

ServiceSpec == ServiceInit /\ [][ServiceNext]_serviceRunVars /\ Fairness
=============================================================================
