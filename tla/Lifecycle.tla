------------------------------ MODULE Lifecycle ------------------------------
(***************************************************************************)
(* What the firmware promises about the robot's lifecycle, and nothing     *)
(* about how: protocol.hpp's state diagram as this code realises it, with  *)
(* the servo power rail beside it.                                         *)
(*                                                                         *)
(*     OFF --Enable--> SETUP --> IDLE <--> WALK --> SHUTDOWN --> OFF       *)
(*     any state with the rail on --trip--> FAULT --Enable--> SETUP        *)
(*                                                                         *)
(* SETUP and SHUTDOWN are animations: once begun they end, and only a trip *)
(* ends them early. Robot.tla is shown to implement this module.           *)
(***************************************************************************)

VARIABLES
  state,   (* the lifecycle state reported on the wire  *)
  rail     (* TRUE while the servo power rail is on     *)

vars == <<state, rail>>

States == {"OFF", "SETUP", "IDLE", "WALK", "SHUTDOWN", "FAULT"}

Standing == {"IDLE", "WALK"}

Resting == {"OFF", "FAULT"}

-----------------------------------------------------------------------------

Init == state = "OFF" /\ rail = FALSE

\* Enable: accepted at rest only.
Enable ==
  /\ state \in Resting
  /\ state' = "SETUP"
  /\ rail' = TRUE

\* The stand-up animation has run to its end.
Stand ==
  /\ state = "SETUP"
  /\ state' = "IDLE"
  /\ UNCHANGED rail

\* A standing robot starts to walk, or comes to rest.
Move ==
  /\ state \in Standing
  /\ state' \in Standing
  /\ UNCHANGED rail

\* A Shutdown command, or the watchdog.
SitDown ==
  /\ state \in Standing
  /\ state' = "SHUTDOWN"
  /\ UNCHANGED rail

\* The sit-down animation has run to its end: the rail is cut.
PowerOff ==
  /\ state = "SHUTDOWN"
  /\ state' = "OFF"
  /\ rail' = FALSE

\* An emergency stop, from any state with the rail on.
Trip ==
  /\ state \notin Resting
  /\ state' = "FAULT"
  /\ rail' = FALSE

Next == Enable \/ Stand \/ Move \/ SitDown \/ PowerOff \/ Trip

SafetySpec == Init /\ [][Next]_vars

\* The animations end; nothing obliges anyone to send a command.
Fairness == WF_vars(Stand) /\ WF_vars(PowerOff)

Spec == SafetySpec /\ Fairness
=============================================================================
