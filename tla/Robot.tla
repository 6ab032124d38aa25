-------------------------------- MODULE Robot --------------------------------
(***************************************************************************)
(* robot::Robot (src/core/robot.hpp): the lifecycle state machine, the     *)
(* motion watchdog, the stand-up and sit-down sequencer, velocity          *)
(* smoothing and the servo rail, driven by the intent API (the commands    *)
(* the dispatcher calls) and by update(dt), the control tick. The gait it  *)
(* owns is GaitCycle, and the two interleave as in the main loop: one      *)
(* thread, so a command and a tick are each one atomic step.               *)
(*                                                                         *)
(* Geometry is abstracted to what the control flow reads of it, the time   *)
(* a rate-limited move still needs to reach its target:                    *)
(*   legs     the feet, to the neutral stance (slew_legs, the gait)        *)
(*   bodyErr  the body pose, to its target (slew_body)                     *)
(*   fold     the commanded servo angles, to the folded pose (curl_step)   *)
(*   board    the angles the servo board holds, to the folded pose         *)
(* A move that covers rate * dt in a tick takes dt off its distance and is *)
(* done in the tick that finds no more than dt left. Floats are finite     *)
(* here: a NaN command is outside this model (see the README).             *)
(***************************************************************************)
EXTENDS Integers, Sequences

CONSTANTS
  Axes,              (* the components of a velocity command (vx, vy, wz) *)
  SettleTicks,       (* ticks a smoothed velocity needs to enter the
                        deadband once its target is zero                  *)
  Dts,               (* the elapsed times a tick may see, in time units   *)
  WatchdogTimeout,   (* cfg::WATCHDOG_TIMEOUT_MS, in time units           *)
  FoldMax,           (* the longest fold, leg move, body move and stop    *)
  LegMax,
  BodyMax,
  StopMax,
  Gaits,
  VoltReadings,      (* what read_voltage() may return: "ok" or "low"     *)
  AmpReadings        (* what read_current() may return: "ok" or "over"    *)

ASSUME BoundsAssumption ==
  /\ SettleTicks \in Nat
  /\ WatchdogTimeout \in Nat
  /\ FoldMax \in Nat
  /\ LegMax \in Nat
  /\ BodyMax \in Nat
  /\ StopMax \in Nat

ASSUME DtsAssumption == Dts \subseteq Nat \ {0}

ASSUME GaitsAssumption == "TRIPOD" \in Gaits

ASSUME ReadingsAssumption ==
  /\ VoltReadings \subseteq {"ok", "low"}
  /\ AmpReadings \subseteq {"ok", "over"}

VARIABLES
  state,        (* state_                                                 *)
  energized,    (* energized_                                             *)
  power,        (* what set_power() last asked of the rail                *)
  tv,           (* per axis: is the velocity target (tvx_, ...) nonzero   *)
  cv,           (* per axis: ticks the smoothed velocity (cvx_, ...) takes
                   to snap to zero once its target is zero; 0: it is zero *)
  legs, bodyErr, fold, board,
  bodyT,        (* the body target: on the "ground", "stand" or a "pose"  *)
  seq,          (* seq_ and seq_len_: the steps of the animation          *)
  seqIdx,       (* seq_idx_                                               *)
  postSeq,      (* post_seq_                                              *)
  sinceCmd,     (* since_cmd_                                             *)
  odomMoved,    (* has odometry integrated anything since it was zeroed   *)
  voltage,      (* voltage_, as a reading                                 *)
  current,      (* current_, as a reading                                 *)
  gait, walking, stopping, stopLeft, pendingGait, hasPending

gaitVars == <<gait, walking, stopping, stopLeft, pendingGait, hasPending>>
motion   == <<tv, cv>>
body     == <<bodyErr, bodyT>>
servos   == <<fold, board>>
rail     == <<energized, power>>
anim     == <<seq, seqIdx, postSeq>>
readings == <<voltage, current>>

vars == <<state, rail, motion, legs, body, servos, anim, sinceCmd, odomMoved,
          readings, gaitVars>>

Gait == INSTANCE GaitCycle

-----------------------------------------------------------------------------
(* States and sequences *)

Standing  == {"IDLE", "WALK"}
Animating == {"SETUP", "SHUTDOWN"}
Resting   == {"OFF", "FAULT"}

StandUpSeq_SkipsLegs == <<"Curl", "RaiseBody">>
SitDownSeq_CurlsFirst == <<"LegsToNeutral", "Curl", "LowerBody">>

StandUpSeq == <<"Curl", "LegsToNeutral", "RaiseBody">>
SitDownSeq == <<"LegsToNeutral", "LowerBody", "Curl">>

Still == [a \in Axes |-> FALSE]
AtRest == [a \in Axes |-> 0]

\* A rate-limited move after dt more of it.
Toward(distance, dt) == IF distance > dt THEN distance - dt ELSE 0

TypeOK ==
  /\ state \in Standing \cup Animating \cup Resting
  /\ energized \in BOOLEAN
  /\ power \in BOOLEAN
  /\ tv \in [Axes -> BOOLEAN]
  /\ cv \in [Axes -> 0..SettleTicks]
  /\ legs \in 0..LegMax
  /\ bodyErr \in 0..BodyMax
  /\ bodyT \in {"ground", "stand", "pose"}
  /\ fold \in 0..FoldMax
  /\ board \in 0..FoldMax
  /\ seq \in {<<>>, StandUpSeq, SitDownSeq}
  /\ seqIdx \in 0..3
  /\ postSeq \in {"IDLE", "OFF"}
  /\ sinceCmd \in Nat
  /\ odomMoved \in BOOLEAN
  /\ voltage \in {"ok", "low"}
  /\ current \in {"ok", "over"}
  /\ Gait!TypeOK

\* Boot: rail off, the folded pose written to the board, no reading taken yet
\* (voltage_ and current_ are 0).
Init ==
  /\ state = "OFF"
  /\ energized = FALSE
  /\ power = FALSE
  /\ tv = Still
  /\ cv = AtRest
  /\ legs = 0
  /\ bodyErr = 0
  /\ bodyT = "ground"
  /\ fold = 0
  /\ board = 0
  /\ seq = <<>>
  /\ seqIdx = 0
  /\ postSeq = "IDLE"
  /\ sinceCmd = 0
  /\ odomMoved = FALSE
  /\ voltage = "low"
  /\ current = "ok"
  /\ Gait!Init

-----------------------------------------------------------------------------
(* Transitions shared by commands and ticks *)

Pet == sinceCmd' = 0

HaltMotion_TargetOnly == tv' = Still /\ UNCHANGED cv
HaltMotion == tv' = Still /\ cv' = AtRest

ResetMotion ==
  /\ HaltMotion
  /\ odomMoved' = FALSE
  /\ Pet

SetPower(on) == power' = on /\ energized' = on

BeginSequence(steps, post) ==
  /\ seq' = steps
  /\ seqIdx' = 0
  /\ postSeq' = post

\* read_servos(): the animation starts from the angles the board holds.
ReadServos_AssumesFolded == fold' = 0 /\ UNCHANGED board
ReadServos == fold' = board /\ UNCHANGED board

\* The feet are seeded by forward kinematics: they may be anywhere.
StartStandUp ==
  /\ SetPower(TRUE)
  /\ ResetMotion
  /\ Gait!Reset
  /\ bodyErr' = 0
  /\ bodyT' = "ground"
  /\ ReadServos
  /\ legs' \in 0..LegMax
  /\ BeginSequence(StandUpSeq, "IDLE")
  /\ state' = "SETUP"
  /\ UNCHANGED readings

\* The gait is left as it is: mid-stride, if the robot was walking.
StartSitDown ==
  /\ HaltMotion
  /\ BeginSequence(SitDownSeq, "OFF")
  /\ state' = "SHUTDOWN"
  /\ UNCHANGED <<rail, legs, body, servos, odomMoved, gaitVars>>

TripFault ==
  /\ HaltMotion
  /\ SetPower(FALSE)
  /\ seq' = <<>>
  /\ seqIdx' = 0
  /\ state' = "FAULT"
  /\ UNCHANGED <<legs, body, servos, postSeq, sinceCmd, odomMoved, gaitVars>>

\* Inverse kinematics for every leg: new servo angles, or, if any foot is out
\* of reach, the last ones again. Either way they are written.
ResolveWrite ==
  /\ \/ fold' \in 0..FoldMax
     \/ UNCHANGED fold
  /\ board' = fold'

-----------------------------------------------------------------------------
(* The intent API *)

Enable_Restarts ==
  /\ Pet
  /\ IF state \in Resting \cup {"SETUP"}
     THEN StartStandUp
     ELSE UNCHANGED <<state, rail, motion, legs, body, servos, anim,
                      odomMoved, readings, gaitVars>>
Enable ==
  /\ Pet
  /\ \/ /\ state \in Resting
        /\ StartStandUp
     \/ /\ state \notin Resting
        /\ UNCHANGED <<state, rail, motion, legs, body, servos, anim,
                       odomMoved, readings, gaitVars>>

Shutdown ==
  /\ Pet
  /\ \/ state \in Standing /\ StartSitDown
     \/ /\ state \notin Standing
        /\ UNCHANGED <<state, rail, motion, legs, body, servos, anim,
                       odomMoved, gaitVars>>
  /\ UNCHANGED readings

\* target: which axes are nonzero after the clamp.
SetVelocity(target) ==
  /\ Pet
  /\ tv' = IF state \in Standing THEN target ELSE tv
  /\ UNCHANGED <<state, rail, cv, legs, body, servos, anim, odomMoved,
                 readings, gaitVars>>

Stop == SetVelocity(Still)

\* The new target may be any distance away, the present pose included.
SetBodyPose ==
  /\ Pet
  /\ \/ /\ state \in Standing
        /\ bodyT' = "pose"
        /\ bodyErr' \in 0..BodyMax
     \/ /\ state \notin Standing
        /\ UNCHANGED body
  /\ UNCHANGED <<state, rail, motion, legs, servos, anim, odomMoved,
                 readings, gaitVars>>

\* Accepted in every state; the gait decides when it takes effect.
SetGait(g) ==
  /\ Pet
  /\ Gait!SetGait(g)
  /\ UNCHANGED <<state, rail, motion, legs, body, servos, anim, odomMoved,
                 readings>>

\* heartbeat() and set_led(): of the state kept here, only the watchdog.
Heartbeat ==
  /\ Pet
  /\ UNCHANGED <<state, rail, motion, legs, body, servos, anim, odomMoved,
                 readings, gaitVars>>

-----------------------------------------------------------------------------
(* Provisioning: none of it pets the watchdog *)

Provisionable == state \in Resting

\* reconfigure(), after the leg geometry, the mounts or the servo map changed:
\* the rest pose is redefined, and commanded while de-energized.
Reconfigure ==
  /\ IF energized
     THEN UNCHANGED servos
     ELSE fold' = 0 /\ board' = 0
  /\ UNCHANGED <<state, rail, motion, legs, body, anim, sinceCmd, odomMoved,
                 readings, gaitVars>>

\* New JOINT_VEL_MAX: the same angles are another time away from the fold.
ProvisionLimits ==
  /\ fold' \in IF fold = 0 THEN {0} ELSE 1..FoldMax
  /\ board' \in IF board = 0 THEN {0}
                ELSE IF board = fold THEN {fold'} ELSE 1..FoldMax
  /\ UNCHANGED <<state, rail, motion, legs, body, anim, sinceCmd, odomMoved,
                 readings, gaitVars>>

\* jog_servo() drives one servo to a raw pulse, set_servo_pin() makes a channel
\* read back another output: either way the board no longer holds what the
\* robot last wrote.
DisturbBoard ==
  /\ board' \in 0..FoldMax
  /\ UNCHANGED <<state, rail, motion, legs, body, fold, anim, sinceCmd,
                 odomMoved, readings, gaitVars>>

-----------------------------------------------------------------------------
(* IDLE and WALK *)

\* A zero-target axis comes closer to zero, and stays at zero; an axis with a
\* target may be anywhere, zero included when the command changes sign.
SmoothCommands_NoDeadband ==
  /\ cv' \in [Axes -> 0..SettleTicks]
  /\ \A a \in Axes : tv[a] \/ (cv'[a] <= cv[a] /\ (cv'[a] = 0 <=> cv[a] = 0))
SmoothCommands ==
  /\ cv' \in [Axes -> 0..SettleTicks]
  /\ \A a \in Axes : tv[a] \/ cv'[a] < cv[a] \/ cv'[a] = 0

\* The gait advances when some foot has to move faster than 1e-3 mm/s. With a
\* target set the smoothed command may lie under that; without one it is zero
\* or above the deadband.
Advancing(advancing) ==
  IF \A a \in Axes : cv'[a] = 0 THEN ~advancing
  ELSE advancing \/ \E a \in Axes : tv[a]

\* Odometry integrates the twist the gait achieved: none unless it advanced.
Walk(dt) ==
  \E advancing \in BOOLEAN :
    /\ Advancing(advancing)
    /\ Gait!Update(advancing, dt)
    /\ legs' \in IF walking' THEN 0..LegMax ELSE {0}
    /\ odomMoved' = (odomMoved \/ advancing)

Moving_IgnoresGait == \E a \in Axes : tv[a] \/ cv'[a] # 0
Moving == (\E a \in Axes : tv[a] \/ cv'[a] # 0) \/ walking'

\* No command for too long.
LinkLost_OnTargets(since) == since > WatchdogTimeout /\ \E a \in Axes : tv[a]
LinkLost(since) == since > WatchdogTimeout

RunActive(dt) ==
  /\ sinceCmd' = sinceCmd + dt
  /\ \/ /\ LinkLost(sinceCmd')
        /\ StartSitDown
     \/ /\ ~LinkLost(sinceCmd')
        /\ SmoothCommands
        /\ bodyErr' = Toward(bodyErr, dt)
        /\ Walk(dt)
        /\ ResolveWrite
        /\ state' = IF Moving THEN "WALK" ELSE "IDLE"
        /\ UNCHANGED <<tv, bodyT, rail, anim>>

-----------------------------------------------------------------------------
(* SETUP and SHUTDOWN *)

CurlStep(dt, done) ==
  /\ fold' = Toward(fold, dt)
  /\ board' = fold'
  /\ done = (fold' = 0)
  /\ legs' \in IF done THEN 0..LegMax ELSE {legs}
  /\ UNCHANGED body

LegsToNeutral(dt, done) ==
  /\ legs' = Toward(legs, dt)
  /\ done = (legs' = 0)
  /\ ResolveWrite
  /\ UNCHANGED body

\* RaiseBody and LowerBody: the target is set again on every tick, and on the
\* first it may be any distance away.
MoveBody_Remeasures(target, dt, done) ==
  /\ bodyT' = target
  /\ \E distance \in 0..BodyMax : bodyErr' = Toward(distance, dt)
  /\ done = (bodyErr' = 0)
  /\ ResolveWrite
  /\ UNCHANGED legs
MoveBody(target, dt, done) ==
  /\ bodyT' = target
  /\ \E distance \in IF bodyT = target THEN {bodyErr} ELSE 0..BodyMax :
       bodyErr' = Toward(distance, dt)
  /\ done = (bodyErr' = 0)
  /\ ResolveWrite
  /\ UNCHANGED legs

RunStep(step, dt, done) ==
  \/ step = "Curl" /\ CurlStep(dt, done)
  \/ step = "LegsToNeutral" /\ LegsToNeutral(dt, done)
  \/ step = "RaiseBody" /\ MoveBody("stand", dt, done)
  \/ step = "LowerBody" /\ MoveBody("ground", dt, done)

FinalizeSequence ==
  \/ /\ postSeq = "IDLE"
     /\ Gait!Reset
     /\ ResetMotion
     /\ state' = "IDLE"
     /\ UNCHANGED rail
  \/ /\ postSeq # "IDLE"
     /\ SetPower(FALSE)
     /\ state' = "OFF"
     /\ UNCHANGED <<motion, sinceCmd, odomMoved, gaitVars>>

RunSequencer(dt) ==
  \E done \in BOOLEAN :
    /\ RunStep(seq[seqIdx + 1], dt, done)
    /\ seqIdx' = IF done THEN seqIdx + 1 ELSE seqIdx
    /\ IF done /\ seqIdx' >= Len(seq)
       THEN FinalizeSequence
       ELSE UNCHANGED <<state, rail, motion, sinceCmd, odomMoved, gaitVars>>
    /\ UNCHANGED <<seq, postSeq>>

-----------------------------------------------------------------------------
(* The control tick *)

Update(dt, volts, amps) ==
  /\ voltage' = volts
  /\ current' = amps
  /\ IF energized /\ amps = "over"
     THEN TripFault
     ELSE \/ state \in Animating /\ RunSequencer(dt)
          \/ state \in Standing /\ RunActive(dt)
          \/ /\ state \in Resting
             /\ UNCHANGED <<state, rail, motion, legs, body, servos, anim,
                            sinceCmd, odomMoved, gaitVars>>

Tick ==
  \E dt \in Dts, volts \in VoltReadings, amps \in AmpReadings :
    Update(dt, volts, amps)

Command ==
  \/ Enable
  \/ Shutdown
  \/ Stop
  \/ \E target \in [Axes -> BOOLEAN] : SetVelocity(target)
  \/ SetBodyPose
  \/ \E g \in Gaits : SetGait(g)
  \/ Heartbeat

Provision == Provisionable /\ (Reconfigure \/ ProvisionLimits \/ DisturbBoard)

Next == Tick \/ Command \/ Provision

Spec == Init /\ [][Next]_vars

\* The main loop ticks for ever: its drain loop comes to an end whenever the
\* UART runs dry (an assumption, see the README).
Fairness == WF_vars(Tick)

FairSpec == Spec /\ Fairness

-----------------------------------------------------------------------------
(* Invariants *)

\* The rail is on exactly in the states that hold the robot up or move it:
\* no path through fault, sit-down and re-enable leaves it on in OFF or FAULT,
\* or off under a standing robot (robot.hpp: every set_power() call site).
RailMatchesState ==
  /\ power = energized
  /\ energized <=> state \notin Resting

\* A velocity, commanded or still decaying, never outlives a sit-down or a
\* fault: the next stand-up starts still, whatever was commanded before.
NoStaleMotion == state \notin Standing => tv = Still /\ cv = AtRest

\* IDLE is reported only when the robot stands still: no residual velocity,
\* the gait frozen, every foot planted at neutral (run_active's "moving").
IdleIsStill == state = "IDLE" => cv = AtRest /\ ~walking /\ legs = 0

\* A walk never outlasts the link by more than the watchdog's timeout: neither
\* under a target that nobody renews, nor in the steps that a stop, or a target
\* set back to zero, leaves to finish (README.md:200, "while moving, it stops
\* on its own").
WalkEndsWithTheLink == state = "WALK" => sinceCmd <= WatchdogTimeout

\* With the rail on, the angles the animations interpolate from are the ones
\* the board holds: nothing (a jog, a pin change, a fault half-way through a
\* fold) makes the first step of a stand-up start from somewhere else.
BoardHoldsCommand == energized => board = fold

\* Odometry is measured from the last stand-up: what was integrated before a
\* sit-down or a fault is gone by the time the robot rises.
OdometryRestarts == state = "SETUP" => ~odomMoved

-----------------------------------------------------------------------------
(* Action properties *)

\* The rail is cut under over-current, or with the body on the ground and the
\* legs folded and written so: never under a robot that still stands on them
\* (finalize_sequence's "legs curled -> cut power").
PowerCutIsSafe ==
  [][power /\ ~power' =>
       \/ current' = "over"
       \/ fold' = 0 /\ board' = 0 /\ bodyT' = "ground" /\ bodyErr' = 0]_vars

\* Commands are accepted only once the stand-up is through: feet at neutral and
\* body at standing height, as far as they are commanded (what is out of reach
\* is in Pose), gait frozen, the watchdog's count starting over.
StandUpIsComplete ==
  [][state = "SETUP" /\ state' = "IDLE" =>
       /\ legs' = 0 /\ bodyT' = "stand" /\ bodyErr' = 0
       /\ ~walking' /\ sinceCmd' = 0]_vars

\* The gait in use never changes under a running cycle, nor, while standing,
\* with a foot away from neutral (gait.hpp: "would drop swinging feet").
GaitSwitchesAtRest ==
  [][gait' # gait => ~walking' /\ (state' \in Standing => legs' = 0)]_vars

\* A gait request held during a walk is not lost: it stops being held only by
\* coming into use, be it at a stop, or at the next stand-up after a fault.
HeldGaitTakesEffect ==
  [][hasPending /\ ~hasPending' => gait' = pendingGait]_vars

-----------------------------------------------------------------------------
(* The lifecycle, and liveness *)

Life == INSTANCE Lifecycle WITH rail <- power

\* Every step of the robot is a step of the lifecycle: a rise or a sit-down is
\* broken into only by a fault, the rail comes on only by Enable at rest, and
\* goes off only at the end of a sit-down or in a fault.
LifecycleSteps == Life!SafetySpec

\* And its animations come to an end, whatever commands keep arriving: the
\* robot implements the whole lifecycle (robot.hpp, protocol.hpp's State).
ImplementsLifecycle == Life!Spec

\* When the link falls silent for good, all motion ends: no walk, and no
\* animation, the one the watchdog itself starts included, goes on for ever.
\* That a silent link stops the robot is what the code, its test and the README
\* agree on (run_active); where it stops is LostLinkKeepsStanding, below.
LinkLossEndsMotion == <>[][Tick]_vars => <>[](state \in {"IDLE"} \cup Resting)

\* Once the velocity target stays zero, WALK does not last: the smoothed
\* velocity reaches zero and the gait, the steps in progress done, freezes,
\* no matter which other commands keep arriving.
StopSettles == <>[](tv = Still) => []<>(state # "WALK")

-----------------------------------------------------------------------------
(* What the repository says, and the code does not do *)

\* protocol.hpp, config.hpp and the README: low voltage is a fault in any
\* energized state.
LowVoltageTrips ==
  [][Tick /\ energized /\ voltage' = "low" => state' = "FAULT"]_vars

\* test_robot.cpp, "watchdog: lost comms stops the robot but keeps it standing":
\* without a command and without over-current, a standing robot stays one.
LostLinkKeepsStanding ==
  [][Tick /\ state \in Standing /\ current' = "ok" => state' \in Standing]_vars
=============================================================================
