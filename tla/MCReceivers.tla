----------------------------- MODULE MCReceivers -----------------------------
(***************************************************************************)
(* The worker of a receiver is one of several programs (run_worker): the   *)
(* configured driver decides at the start which.  `part' names the one     *)
(* that is followed, with the bounds of its instance; the others are off.  *)
(***************************************************************************)
EXTENDS SensorRouter, SdrReceiver, GatewayReceiver, GatewayFrames,
        WeatherflowReceiver

VARIABLE part   \* "sensors" (the routing), "rtl_433", "gateway", "frames", "hub"

receiverVars == <<part, vars, sdrVars, gwVars, frameVars, wfVars>>

\* Two sensors over a network that repeats and reorders, with reads of two packets,
\* one of them blocked now and then; one sensor on the radio for longer than the
\* window of repeats, with more rain and faults.
MCBounds ==
    [m \in Media |->
        IF m = "network"
        THEN [sensors |-> Sensors, blockable |-> {"b"}, packets |-> 2, time |-> 2, rain |-> 1,
              resets |-> 0, restarts |-> 1]
        ELSE [sensors |-> {"a"}, blockable |-> {}, packets |-> 1, time |-> 4, rain |-> 2,
              resets |-> 1, restarts |-> 0]]

\* Values whose bytes are tags, negative ones, and those that mean None.
MCSamples ==
    <<[byte |-> <<7>>, distance |-> <<40>>, signed |-> <<-1>>, unsigned |-> <<519>>,
       long |-> <<2, 7, 255, 99>>, utc |-> <<255, 255, 255, 254>>],
      [byte |-> <<255>>, distance |-> Absent, signed |-> <<527>>, unsigned |-> <<65535>>,
       long |-> <<255, 255, 255, 255>>, utc |-> Absent]>>

WeatherflowOff == WeatherflowInit /\ ~wrong

ReceiversInit ==
    \/ part = "sensors" /\ Init /\ SdrOff /\ GatewayOff /\ FrameOff /\ WeatherflowOff
    \/ /\ Init /\ medium = "radio"
       /\ \/ part = "rtl_433" /\ SdrInit /\ GatewayOff /\ FrameOff /\ WeatherflowOff
          \/ part = "gateway" /\ SdrOff /\ GatewayInit /\ FrameOff /\ WeatherflowOff
          \/ part = "frames" /\ SdrOff /\ GatewayOff /\ FrameInit /\ WeatherflowOff
          \/ part = "hub" /\ SdrOff /\ GatewayOff /\ FrameOff /\ WeatherflowInit

ReceiversNext ==
    /\ UNCHANGED part
    /\ \/ part = "sensors" /\ Next /\ UNCHANGED <<sdrVars, gwVars, frameVars, wfVars>>
       \/ part = "rtl_433" /\ SdrNext /\ UNCHANGED <<vars, gwVars, frameVars, wfVars>>
       \/ part = "gateway" /\ GatewayNext /\ UNCHANGED <<vars, sdrVars, frameVars, wfVars>>
       \/ part = "frames" /\ FrameNext /\ UNCHANGED <<vars, sdrVars, gwVars, wfVars>>
       \/ part = "hub" /\ WeatherflowNext /\ UNCHANGED <<vars, sdrVars, gwVars, frameVars>>

\* The states of all parts are well typed, and queues, pipes and tables within
\* their bounds.
ReceiversTypeOK ==
    TypeOK /\ SdrTypeOK /\ GatewayTypeOK /\ FrameTypeOK /\ WeatherflowTypeOK

ReceiversSpec ==
    /\ ReceiversInit /\ [][ReceiversNext]_receiverVars
    /\ Fairness /\ SdrFairness
=============================================================================
