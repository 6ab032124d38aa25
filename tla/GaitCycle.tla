------------------------------ MODULE GaitCycle ------------------------------
(***************************************************************************)
(* What gait::Generator (src/core/gait.hpp) shows its user, robot::Robot:  *)
(* whether the cycle is running, whether it is finishing the swings in     *)
(* progress after a stop, and the gait in use and the one held for later.  *)
(*                                                                         *)
(* The phase, and the feet it places, are abstracted: the time a stop      *)
(* still has to run (stop_left_, the distance to the next phase at which   *)
(* no foot is airborne) is any value of 0..StopMax, where 0 stands for     *)
(* rest_distance() = 0 and for its "freeze now" answer, -1.                *)
(***************************************************************************)
EXTENDS Naturals

CONSTANTS
  Gaits,     (* the gaits, TRIPOD (the one in use at boot) among them     *)
  StopMax,   (* the longest a stop may take, in time units                *)
  Dts        (* the elapsed times an update may see                       *)

VARIABLES
  gait,          (* gait_                                                 *)
  walking,       (* walking_                                              *)
  stopping,      (* stopping_                                             *)
  stopLeft,      (* stop_left_, in time units                             *)
  pendingGait,   (* pending_gait_                                         *)
  hasPending     (* has_pending_                                          *)

vars == <<gait, walking, stopping, stopLeft, pendingGait, hasPending>>

TypeOK ==
  /\ gait \in Gaits
  /\ pendingGait \in Gaits
  /\ walking \in BOOLEAN
  /\ stopping \in BOOLEAN
  /\ hasPending \in BOOLEAN
  /\ stopLeft \in 0..StopMax

Init ==
  /\ gait = "TRIPOD"
  /\ pendingGait = "TRIPOD"
  /\ walking = FALSE
  /\ stopping = FALSE
  /\ hasPending = FALSE
  /\ stopLeft = 0

-----------------------------------------------------------------------------

SetGait_AtOnce(g) ==
  /\ gait' = g
  /\ UNCHANGED <<walking, stopping, stopLeft, pendingGait, hasPending>>

\* A request made at rest takes effect; one made mid-walk is held.
SetGait(g) ==
  /\ IF walking
     THEN pendingGait' = g /\ hasPending' = TRUE /\ UNCHANGED gait
     ELSE gait' = g /\ hasPending' = FALSE /\ UNCHANGED pendingGait
  /\ UNCHANGED <<walking, stopping, stopLeft>>

ComeToRest_DropsRequest ==
  /\ walking' = FALSE
  /\ stopping' = FALSE
  /\ hasPending' = FALSE
  /\ UNCHANGED <<gait, pendingGait>>

\* The cycle comes to rest, and a held request takes effect.
ComeToRest ==
  /\ walking' = FALSE
  /\ stopping' = FALSE
  /\ gait' = IF hasPending THEN pendingGait ELSE gait
  /\ hasPending' = FALSE
  /\ UNCHANGED pendingGait

Reset == ComeToRest /\ stopLeft' = 0

\* A moving command: the cycle runs, and a stop in progress is cancelled.
Advance ==
  /\ walking' = TRUE
  /\ stopping' = FALSE
  /\ UNCHANGED <<gait, stopLeft, pendingGait, hasPending>>

\* The way to the next grounded phase is measured once, when a stop begins.
Distances == IF stopping THEN {stopLeft} ELSE 0..StopMax

\* A zero command while the legs still cycle: the way is run down.
WindDown(dt) ==
  /\ walking
  /\ \/ /\ stopping' = TRUE
        /\ UNCHANGED <<gait, walking, pendingGait, hasPending>>
        /\ \E left \in Distances : dt < left /\ stopLeft' = left - dt
     \/ /\ ComeToRest
        /\ \E left \in Distances : dt >= left /\ stopLeft' = left

Frozen == ~walking /\ UNCHANGED vars

Update(advancing, dt) ==
  \/ advancing /\ Advance
  \/ ~advancing /\ WindDown(dt)
  \/ ~advancing /\ Frozen

Next ==
  \/ \E g \in Gaits : SetGait(g)
  \/ Reset
  \/ \E advancing \in BOOLEAN, dt \in Dts : Update(advancing, dt)

Spec == Init /\ [][Next]_vars
=============================================================================
