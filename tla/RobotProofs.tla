----------------------------- MODULE RobotProofs -----------------------------
(***************************************************************************)
(* The safety of Robot, for every value of its constants: one inductive    *)
(* invariant, IInv, from which each invariant of Robot.tla, each of its    *)
(* action properties and the refinement of Lifecycle follow; and of the    *)
(* dispatcher, Router, behind which the robot does only what Robot allows. *)
(***************************************************************************)
EXTENDS Router, TLAPS

-----------------------------------------------------------------------------
(* The inductive invariant *)

\* TypeOK in two parts: the flags, and everything else.
FlagsOK ==
  /\ energized \in BOOLEAN /\ power \in BOOLEAN /\ odomMoved \in BOOLEAN
  /\ walking \in BOOLEAN /\ stopping \in BOOLEAN /\ hasPending \in BOOLEAN

ValuesOK ==
  /\ state \in {"IDLE", "WALK", "SETUP", "SHUTDOWN", "OFF", "FAULT"}
  /\ tv \in [Axes -> BOOLEAN] /\ cv \in [Axes -> 0..SettleTicks]
  /\ legs \in 0..LegMax
  /\ bodyErr \in 0..BodyMax /\ bodyT \in {"ground", "stand", "pose"}
  /\ fold \in 0..FoldMax /\ board \in 0..FoldMax
  /\ seq \in {<<>>, StandUpSeq, SitDownSeq} /\ seqIdx \in 0..3
  /\ postSeq \in {"IDLE", "OFF"}
  /\ sinceCmd \in Nat
  /\ voltage \in {"ok", "low"} /\ current \in {"ok", "over"}
  /\ gait \in Gaits /\ pendingGait \in Gaits /\ stopLeft \in 0..StopMax

\* A running stand-up is at one of its steps; once past the second the feet
\* are at neutral, and the gait has not run since it was reset.
RisingInv ==
  state = "SETUP" =>
    /\ seq = StandUpSeq /\ postSeq = "IDLE" /\ seqIdx \in 0..2
    /\ seqIdx = 2 => legs = 0
    /\ ~walking

\* A running sit-down is at one of its steps; when the last, the fold, begins
\* the body lies on the ground.
SittingInv ==
  state = "SHUTDOWN" =>
    /\ seq = SitDownSeq /\ postSeq = "OFF" /\ seqIdx \in 0..2
    /\ seqIdx = 2 => bodyT = "ground" /\ bodyErr = 0

\* A gait is held only for a cycle that runs, and with the cycle frozen a
\* standing robot has its feet at neutral.
GaitInv ==
  /\ hasPending => walking
  /\ state \in Standing /\ ~walking => legs = 0

\* The count of the watchdog is bounded while the robot stands, in IDLE as in
\* WALK: a step from one to the other changes nothing of it.
WatchdogInv == state \in Standing => sinceCmd <= WatchdogTimeout

IInv ==
  /\ FlagsOK
  /\ ValuesOK
  /\ RailMatchesState
  /\ NoStaleMotion
  /\ IdleIsStill
  /\ WatchdogInv
  /\ BoardHoldsCommand
  /\ OdometryRestarts
  /\ RisingInv
  /\ SittingInv
  /\ GaitInv

USE DEF Standing, Animating, Resting

\* What the proofs below need of the sequences: their length and their steps.
LEMMA SequenceFacts ==
  /\ Len(StandUpSeq) = 3 /\ Len(SitDownSeq) = 3
  /\ StandUpSeq[1] = "Curl" /\ StandUpSeq[2] = "LegsToNeutral"
  /\ StandUpSeq[3] = "RaiseBody"
  /\ SitDownSeq[1] = "LegsToNeutral" /\ SitDownSeq[2] = "LowerBody"
  /\ SitDownSeq[3] = "Curl"
  /\ StandUpSeq # SitDownSeq
BY DEF StandUpSeq, SitDownSeq

\* A rate-limited move never leaves its range, and is over once no more than
\* dt was left.
LEMMA TowardFacts ==
  ASSUME NEW max \in Nat, NEW d \in 0..max, NEW dt \in Nat
  PROVE  /\ Toward(d, dt) \in 0..max
         /\ Toward(d, dt) = 0 <=> d <= dt
BY DEF Toward

LEMMA StillFacts == Still \in [Axes -> BOOLEAN] /\ AtRest \in [Axes -> 0..SettleTicks]
BY BoundsAssumption DEF Still, AtRest

-----------------------------------------------------------------------------
(* Boot, and the gait as Robot uses it *)

\* The two parts are the type invariant.
LEMMA TypeParts == FlagsOK /\ ValuesOK <=> TypeOK
BY DEF FlagsOK, ValuesOK, TypeOK, Gait!TypeOK

\* Boot satisfies the invariant.
LEMMA InitIInv == Init => IInv
<1> SUFFICES ASSUME Init PROVE IInv
  OBVIOUS
<1>1. FlagsOK
  BY Zenon DEF Init, Gait!Init, FlagsOK
<1>2. ValuesOK
  BY StillFacts, BoundsAssumption, GaitsAssumption DEF Init, Gait!Init, ValuesOK
<1>3. GaitInv
  BY DEF Init, Gait!Init, GaitInv
<1>4. RailMatchesState /\ NoStaleMotion /\ IdleIsStill /\ WatchdogInv
  BY DEF Init, RailMatchesState, NoStaleMotion, IdleIsStill, WatchdogInv
<1>5. BoardHoldsCommand /\ OdometryRestarts /\ RisingInv /\ SittingInv
  BY DEF Init, BoardHoldsCommand, OdometryRestarts, RisingInv, SittingInv
<1> QED
  BY <1>1, <1>2, <1>3, <1>4, <1>5 DEF IInv

\* A tick of the gait keeps its types, holds a request only while it walks,
\* and changes the gait in use only by coming to rest with the one it held.
LEMMA GaitUpdateFacts ==
  ASSUME FlagsOK, ValuesOK, hasPending => walking,
         NEW advancing \in BOOLEAN, NEW dt \in Dts, Gait!Update(advancing, dt)
  PROVE  /\ walking' \in BOOLEAN /\ stopping' \in BOOLEAN
         /\ hasPending' \in BOOLEAN
         /\ gait' \in Gaits /\ pendingGait' \in Gaits
         /\ stopLeft' \in 0..StopMax
         /\ hasPending' => walking'
         /\ gait' # gait => ~walking'
         /\ hasPending /\ ~hasPending' => gait' = pendingGait
<1> USE DEF FlagsOK, ValuesOK, Gait!ComeToRest
<1>1. CASE Gait!Advance
  BY <1>1 DEF Gait!Advance
<1>2. CASE Gait!WindDown(dt)
  <2>1. PICK left \in 0..StopMax :
          \/ /\ dt < left /\ stopping' = TRUE /\ stopLeft' = left - dt
             /\ UNCHANGED <<gait, walking, pendingGait, hasPending>>
          \/ dt >= left /\ stopLeft' = left /\ Gait!ComeToRest
    BY <1>2 DEF Gait!WindDown, Gait!Distances, ValuesOK
  <2>2. stopLeft' \in 0..StopMax
    BY <2>1, BoundsAssumption, DtsAssumption
  <2>3. \/ stopping' = TRUE /\ UNCHANGED <<gait, walking, pendingGait, hasPending>>
        \/ Gait!ComeToRest
    BY <2>1
  <2>4. walking
    BY <1>2 DEF Gait!WindDown
  <2> QED
    BY <2>2, <2>3, <2>4, Zenon
<1>3. CASE Gait!Frozen
  BY <1>3 DEF Gait!Frozen, Gait!vars
<1> QED
  BY <1>1, <1>2, <1>3 DEF Gait!Update

LEMMA GaitResetFacts ==
  ASSUME FlagsOK, ValuesOK, Gait!Reset
  PROVE  /\ walking' = FALSE /\ stopping' = FALSE /\ hasPending' = FALSE
         /\ gait' \in Gaits /\ pendingGait' \in Gaits
         /\ stopLeft' \in 0..StopMax
         /\ gait' = (IF hasPending THEN pendingGait ELSE gait)
BY BoundsAssumption DEF ValuesOK, Gait!Reset, Gait!ComeToRest

-----------------------------------------------------------------------------
(* Transitions shared by commands and ticks *)

\* Rising from rest: whatever was left over, the robot starts still.
LEMMA StartStandUpIInv ==
  ASSUME IInv, StartStandUp
  PROVE  IInv'
<1> USE DEF IInv, StartStandUp, SetPower, ResetMotion, HaltMotion, Pet,
            BeginSequence, ReadServos
<1>1. /\ walking' = FALSE /\ stopping' = FALSE /\ hasPending' = FALSE
      /\ gait' \in Gaits /\ pendingGait' \in Gaits /\ stopLeft' \in 0..StopMax
  BY GaitResetFacts
<1>2. FlagsOK'
  BY <1>1, Zenon DEF FlagsOK
<1>3. ValuesOK'
  BY <1>1, StillFacts, BoundsAssumption DEF ValuesOK, readings
<1>4. RailMatchesState' /\ NoStaleMotion' /\ IdleIsStill' /\ WatchdogInv'
  BY DEF RailMatchesState, NoStaleMotion, IdleIsStill, WatchdogInv
<1>5. BoardHoldsCommand' /\ OdometryRestarts' /\ RisingInv' /\ SittingInv'
  BY <1>1 DEF BoardHoldsCommand, OdometryRestarts, RisingInv, SittingInv
<1>6. GaitInv'
  BY <1>1 DEF GaitInv
<1> QED
  BY <1>2, <1>3, <1>4, <1>5, <1>6

\* Sitting down from IDLE or WALK, by command or by the watchdog.
LEMMA StartSitDownIInv ==
  ASSUME IInv, state \in Standing, StartSitDown, sinceCmd' \in Nat,
         voltage' \in {"ok", "low"}, current' \in {"ok", "over"}
  PROVE  IInv'
<1> USE DEF IInv, StartSitDown, HaltMotion, BeginSequence, rail, body, servos,
            gaitVars
<1>1. FlagsOK'
  BY Zenon DEF FlagsOK
<1>2. ValuesOK'
  BY StillFacts, BoundsAssumption DEF ValuesOK
<1>3. RailMatchesState' /\ NoStaleMotion' /\ IdleIsStill' /\ WatchdogInv'
  BY DEF RailMatchesState, NoStaleMotion, IdleIsStill, WatchdogInv
<1>4. BoardHoldsCommand' /\ OdometryRestarts' /\ RisingInv' /\ SittingInv'
  BY DEF BoardHoldsCommand, OdometryRestarts, RisingInv, SittingInv
<1>5. GaitInv'
  BY DEF GaitInv
<1> QED
  BY <1>1, <1>2, <1>3, <1>4, <1>5

\* An emergency stop.
LEMMA TripFaultIInv ==
  ASSUME IInv, TripFault,
         voltage' \in {"ok", "low"}, current' \in {"ok", "over"}
  PROVE  IInv'
<1> USE DEF IInv, TripFault, HaltMotion, SetPower, body, servos, gaitVars
<1>1. FlagsOK'
  BY Zenon DEF FlagsOK
<1>2. ValuesOK'
  BY StillFacts, BoundsAssumption DEF ValuesOK
<1>3. RailMatchesState' /\ NoStaleMotion' /\ IdleIsStill' /\ WatchdogInv'
  BY DEF RailMatchesState, NoStaleMotion, IdleIsStill, WatchdogInv
<1>4. BoardHoldsCommand' /\ OdometryRestarts' /\ RisingInv' /\ SittingInv'
  BY DEF BoardHoldsCommand, OdometryRestarts, RisingInv, SittingInv
<1>5. GaitInv'
  BY DEF GaitInv
<1> QED
  BY <1>1, <1>2, <1>3, <1>4, <1>5

\* Whatever inverse kinematics answers, the board is given what is commanded.
LEMMA ResolveWriteFacts ==
  ASSUME fold \in 0..FoldMax, ResolveWrite
  PROVE  fold' \in 0..FoldMax /\ board' = fold'
BY DEF ResolveWrite

-----------------------------------------------------------------------------
(* Commands *)

\* A command that only pets the watchdog.
LEMMA HeartbeatIInv ==
  ASSUME IInv, Pet,
         UNCHANGED <<state, rail, motion, legs, body, servos, anim, odomMoved,
                     readings, gaitVars>>
  PROVE  IInv'
<1> USE DEF IInv, Pet, rail, motion, body, servos, anim, readings, gaitVars
<1>1. FlagsOK'
  BY Zenon DEF FlagsOK
<1>2. ValuesOK'
  BY DEF ValuesOK
<1>3. RailMatchesState' /\ NoStaleMotion' /\ IdleIsStill' /\ WatchdogInv'
  BY BoundsAssumption
     DEF RailMatchesState, NoStaleMotion, IdleIsStill, WatchdogInv
<1>4. BoardHoldsCommand' /\ OdometryRestarts' /\ RisingInv' /\ SittingInv'
  BY DEF BoardHoldsCommand, OdometryRestarts, RisingInv, SittingInv
<1>5. GaitInv'
  BY DEF GaitInv
<1> QED
  BY <1>1, <1>2, <1>3, <1>4, <1>5

\* A new velocity target, heeded only while standing.
LEMMA SetVelocityIInv ==
  ASSUME IInv, NEW target \in [Axes -> BOOLEAN], SetVelocity(target)
  PROVE  IInv'
<1> USE DEF IInv, SetVelocity, Pet, rail, body, servos, anim, readings, gaitVars
<1>1. FlagsOK'
  BY Zenon DEF FlagsOK
<1>2. ValuesOK'
  BY DEF ValuesOK
<1>3. RailMatchesState' /\ NoStaleMotion' /\ IdleIsStill' /\ WatchdogInv'
  BY BoundsAssumption
     DEF RailMatchesState, NoStaleMotion, IdleIsStill, WatchdogInv
<1>4. BoardHoldsCommand' /\ OdometryRestarts' /\ RisingInv' /\ SittingInv'
  BY DEF BoardHoldsCommand, OdometryRestarts, RisingInv, SittingInv
<1>5. GaitInv'
  BY DEF GaitInv
<1> QED
  BY <1>1, <1>2, <1>3, <1>4, <1>5

\* A new body target, heeded only while standing.
LEMMA SetBodyPoseIInv ==
  ASSUME IInv, SetBodyPose
  PROVE  IInv'
<1> USE DEF IInv, SetBodyPose, Pet, rail, motion, body, servos, anim, readings,
            gaitVars
<1>1. FlagsOK'
  BY Zenon DEF FlagsOK
<1>2. ValuesOK'
  BY DEF ValuesOK
<1>3. RailMatchesState' /\ NoStaleMotion' /\ IdleIsStill' /\ WatchdogInv'
  BY BoundsAssumption
     DEF RailMatchesState, NoStaleMotion, IdleIsStill, WatchdogInv
<1>4. BoardHoldsCommand' /\ OdometryRestarts' /\ RisingInv' /\ SittingInv'
  BY DEF BoardHoldsCommand, OdometryRestarts, RisingInv, SittingInv
<1>5. GaitInv'
  BY DEF GaitInv
<1> QED
  BY <1>1, <1>2, <1>3, <1>4, <1>5

\* A gait request, taken at once or held.
LEMMA SetGaitIInv ==
  ASSUME IInv, NEW g \in Gaits, SetGait(g)
  PROVE  IInv'
<1> USE DEF IInv, SetGait, Gait!SetGait, Pet, rail, motion, body, servos, anim,
            readings
<1>1. FlagsOK'
  BY Zenon DEF FlagsOK
<1>2. ValuesOK'
  BY DEF ValuesOK
<1>3. RailMatchesState' /\ NoStaleMotion' /\ IdleIsStill' /\ WatchdogInv'
  BY BoundsAssumption
     DEF RailMatchesState, NoStaleMotion, IdleIsStill, WatchdogInv
<1>4. BoardHoldsCommand' /\ OdometryRestarts' /\ RisingInv' /\ SittingInv'
  BY DEF BoardHoldsCommand, OdometryRestarts, RisingInv, SittingInv
<1>5. GaitInv'
  BY DEF GaitInv
<1> QED
  BY <1>1, <1>2, <1>3, <1>4, <1>5

LEMMA CommandIInv ==
  ASSUME IInv, Command
  PROVE  IInv'
<1>1. CASE Enable
  BY <1>1, StartStandUpIInv, HeartbeatIInv DEF Enable
<1>2. CASE Shutdown
  <2>1. voltage' \in {"ok", "low"} /\ current' \in {"ok", "over"} /\ sinceCmd' \in Nat
    BY <1>2 DEF Shutdown, readings, Pet, IInv, ValuesOK
  <2> QED
    BY <1>2, <2>1, StartSitDownIInv, HeartbeatIInv DEF Shutdown
<1>3. CASE Stop
  BY <1>3, StillFacts, SetVelocityIInv DEF Stop
<1>4. CASE \E target \in [Axes -> BOOLEAN] : SetVelocity(target)
  BY <1>4, SetVelocityIInv
<1>5. CASE SetBodyPose
  BY <1>5, SetBodyPoseIInv
<1>6. CASE \E g \in Gaits : SetGait(g)
  BY <1>6, SetGaitIInv
<1>7. CASE Heartbeat
  BY <1>7, HeartbeatIInv DEF Heartbeat
<1> QED
  BY <1>1, <1>2, <1>3, <1>4, <1>5, <1>6, <1>7 DEF Command

\* Provisioning moves the servo angles only with the rail off.
LEMMA ProvisionIInv ==
  ASSUME IInv, Provision
  PROVE  IInv'
<1> USE DEF IInv, Provision, Provisionable, Reconfigure, ProvisionLimits,
            DisturbBoard, rail, motion, body, servos, anim, readings, gaitVars
<1>1. FlagsOK'
  BY Zenon DEF FlagsOK
<1>2. /\ fold' \in 0..FoldMax /\ board' \in 0..FoldMax
      /\ state' = state /\ energized' = energized
  <2>1. CASE Reconfigure
    BY <2>1, BoundsAssumption DEF ValuesOK
  <2>2. CASE ProvisionLimits
    BY <2>2, BoundsAssumption DEF ValuesOK
  <2>3. CASE DisturbBoard
    BY <2>3 DEF ValuesOK
  <2> QED
    BY <2>1, <2>2, <2>3
<1>3. ValuesOK'
  BY <1>2 DEF ValuesOK
<1>4. RailMatchesState' /\ NoStaleMotion' /\ IdleIsStill' /\ WatchdogInv'
  BY DEF RailMatchesState, NoStaleMotion, IdleIsStill, WatchdogInv
<1>5. BoardHoldsCommand' /\ OdometryRestarts' /\ RisingInv' /\ SittingInv'
  BY <1>2 DEF BoardHoldsCommand, OdometryRestarts, RisingInv, SittingInv,
              RailMatchesState
<1>6. GaitInv'
  BY DEF GaitInv
<1> QED
  BY <1>1, <1>3, <1>4, <1>5, <1>6

-----------------------------------------------------------------------------
(* Control ticks *)

\* A tick while standing: the watchdog's sit-down, or one step of the gait.
LEMMA RunActiveIInv ==
  ASSUME IInv, state \in Standing, NEW dt \in Dts, RunActive(dt),
         voltage' \in {"ok", "low"}, current' \in {"ok", "over"}
  PROVE  IInv'
<1>1. sinceCmd' = sinceCmd + dt /\ sinceCmd' \in Nat
  BY DtsAssumption DEF RunActive, IInv, ValuesOK
<1>2. CASE LinkLost(sinceCmd')
  BY <1>1, <1>2, StartSitDownIInv DEF RunActive
<1>3. CASE ~LinkLost(sinceCmd')
  <2>1. /\ SmoothCommands
        /\ bodyErr' = Toward(bodyErr, dt)
        /\ ResolveWrite
        /\ state' = IF Moving THEN "WALK" ELSE "IDLE"
        /\ UNCHANGED <<tv, bodyT, rail, anim>>
    BY <1>3 DEF RunActive
  <2>2. PICK advancing \in BOOLEAN :
          /\ Advancing(advancing)
          /\ Gait!Update(advancing, dt)
          /\ legs' \in IF walking' THEN 0..LegMax ELSE {0}
          /\ odomMoved' = (odomMoved \/ advancing)
    BY <1>3 DEF RunActive, Walk
  <2>3. /\ walking' \in BOOLEAN /\ stopping' \in BOOLEAN
        /\ hasPending' \in BOOLEAN
        /\ gait' \in Gaits /\ pendingGait' \in Gaits /\ stopLeft' \in 0..StopMax
        /\ hasPending' => walking'
    BY <2>2, GaitUpdateFacts DEF IInv, GaitInv
  <2>4. fold' \in 0..FoldMax /\ board' = fold'
    BY <2>1, ResolveWriteFacts DEF IInv, ValuesOK
  <2>5. state' \in {"IDLE", "WALK"} /\ (state' = "IDLE" => ~Moving)
    BY <2>1
  <2>6. cv' \in [Axes -> 0..SettleTicks]
    BY <2>1 DEF SmoothCommands
  <2>7. legs' \in 0..LegMax /\ (~walking' => legs' = 0)
    BY <2>2, BoundsAssumption
  <2>8. bodyErr' \in 0..BodyMax
    BY <2>1, TowardFacts, BoundsAssumption, DtsAssumption DEF IInv, ValuesOK
  <2>9. FlagsOK'
    BY <2>1, <2>2, <2>3, Zenon DEF IInv, FlagsOK, rail
  <2>10. ValuesOK'
    BY <1>1, <2>1, <2>3, <2>4, <2>5, <2>6, <2>7, <2>8 DEF IInv, ValuesOK, anim
  <2>11. RailMatchesState' /\ NoStaleMotion' /\ WatchdogInv'
    BY <1>1, <1>3, <2>1, <2>5, BoundsAssumption
       DEF IInv, RailMatchesState, NoStaleMotion, WatchdogInv, LinkLost, rail
  <2>12. IdleIsStill'
    <3> SUFFICES ASSUME state' = "IDLE"
                 PROVE  cv' = AtRest /\ ~walking' /\ legs' = 0
      BY DEF IdleIsStill
    <3>1. ~walking' /\ \A a \in Axes : cv'[a] = 0
      BY <2>5 DEF Moving
    <3> QED
      BY <3>1, <2>6, <2>7 DEF AtRest
  <2>13. BoardHoldsCommand' /\ OdometryRestarts' /\ RisingInv' /\ SittingInv'
    BY <2>4, <2>5 DEF BoardHoldsCommand, OdometryRestarts, RisingInv, SittingInv
  <2>14. GaitInv'
    BY <2>3, <2>7 DEF GaitInv
  <2> QED
    BY <2>9, <2>10, <2>11, <2>12, <2>13, <2>14 DEF IInv
<1> QED
  BY <1>2, <1>3

\* What one step of an animation does to the pose, whichever step it is.
LEMMA RunStepFacts ==
  ASSUME FlagsOK, ValuesOK, NEW step, NEW dt \in Dts, NEW done \in BOOLEAN,
         RunStep(step, dt, done)
  PROVE  /\ legs' \in 0..LegMax
         /\ bodyErr' \in 0..BodyMax /\ bodyT' \in {"ground", "stand", "pose"}
         /\ fold' \in 0..FoldMax /\ board' = fold'
         /\ step = "Curl" => (done <=> fold' = 0) /\ UNCHANGED body
         /\ step = "LegsToNeutral" => (done <=> legs' = 0) /\ UNCHANGED body
         /\ step = "RaiseBody" =>
              (done <=> bodyErr' = 0) /\ bodyT' = "stand" /\ legs' = legs
         /\ step = "LowerBody" =>
              (done <=> bodyErr' = 0) /\ bodyT' = "ground" /\ legs' = legs
<1>0. dt \in Nat
  BY DtsAssumption
<1>1. CASE step = "Curl"
  <2>1. CurlStep(dt, done)
    BY <1>1 DEF RunStep
  <2>2. fold' \in 0..FoldMax
    BY <2>1, <1>0, TowardFacts, BoundsAssumption DEF CurlStep, ValuesOK
  <2> QED
    BY <1>1, <2>1, <2>2 DEF CurlStep, ValuesOK, body
<1>2. CASE step = "LegsToNeutral"
  <2>1. LegsToNeutral(dt, done)
    BY <1>2 DEF RunStep
  <2>2. legs' \in 0..LegMax
    BY <2>1, <1>0, TowardFacts, BoundsAssumption DEF LegsToNeutral, ValuesOK
  <2>3. fold' \in 0..FoldMax /\ board' = fold'
    BY <2>1, ResolveWriteFacts DEF LegsToNeutral, ValuesOK
  <2> QED
    BY <1>2, <2>1, <2>2, <2>3 DEF LegsToNeutral, ValuesOK, body
<1>3. ASSUME NEW target \in {"stand", "ground"}, MoveBody(target, dt, done)
      PROVE  /\ bodyErr' \in 0..BodyMax /\ bodyT' = target /\ legs' = legs
             /\ fold' \in 0..FoldMax /\ board' = fold'
             /\ done <=> bodyErr' = 0
  <2>1. PICK distance \in 0..BodyMax : bodyErr' = Toward(distance, dt)
    BY <1>3 DEF MoveBody, ValuesOK
  <2>2. bodyErr' \in 0..BodyMax
    BY <2>1, <1>0, TowardFacts, BoundsAssumption
  <2>3. fold' \in 0..FoldMax /\ board' = fold'
    BY <1>3, ResolveWriteFacts DEF MoveBody, ValuesOK
  <2> QED
    BY <1>3, <2>2, <2>3 DEF MoveBody
<1>4. CASE step = "RaiseBody"
  <2>1. MoveBody("stand", dt, done)
    BY <1>4 DEF RunStep
  <2> QED
    BY <1>3, <1>4, <2>1 DEF ValuesOK
<1>5. CASE step = "LowerBody"
  <2>1. MoveBody("ground", dt, done)
    BY <1>5 DEF RunStep
  <2> QED
    BY <1>3, <1>5, <2>1 DEF ValuesOK
<1> QED
  BY <1>1, <1>2, <1>4, <1>5 DEF RunStep

\* The three things a tick of an animation can be: a step of it, the end of a
\* stand-up, and the end of a sit-down.
AnimStep ==
  /\ UNCHANGED <<state, rail, motion, sinceCmd, odomMoved, gaitVars>>
  /\ seqIdx' \in 0..2
  /\ state = "SETUP" /\ seqIdx' = 2 => legs' = 0
  /\ state = "SHUTDOWN" /\ seqIdx' = 2 => bodyT' = "ground" /\ bodyErr' = 0

StandUpEnds ==
  /\ state = "SETUP" /\ state' = "IDLE"
  /\ Gait!Reset /\ ResetMotion /\ UNCHANGED rail
  /\ legs' = 0 /\ bodyT' = "stand" /\ bodyErr' = 0

SitDownEnds ==
  /\ state = "SHUTDOWN" /\ state' = "OFF"
  /\ SetPower(FALSE) /\ UNCHANGED <<motion, sinceCmd, odomMoved, gaitVars>>
  /\ fold' = 0 /\ bodyT' = "ground" /\ bodyErr' = 0

LEMMA RunSequencerCases ==
  ASSUME IInv, state \in Animating, NEW dt \in Dts, RunSequencer(dt)
  PROVE  /\ legs' \in 0..LegMax
         /\ bodyErr' \in 0..BodyMax /\ bodyT' \in {"ground", "stand", "pose"}
         /\ fold' \in 0..FoldMax /\ board' = fold'
         /\ seqIdx' \in 0..3 /\ UNCHANGED <<seq, postSeq>>
         /\ AnimStep \/ StandUpEnds \/ SitDownEnds
<1> DEFINE step == seq[seqIdx + 1]
<1> USE SequenceFacts
<1>1. PICK done \in BOOLEAN :
        /\ RunStep(step, dt, done)
        /\ seqIdx' = IF done THEN seqIdx + 1 ELSE seqIdx
        /\ IF done /\ seqIdx' >= Len(seq)
           THEN FinalizeSequence
           ELSE UNCHANGED <<state, rail, motion, sinceCmd, odomMoved, gaitVars>>
        /\ UNCHANGED <<seq, postSeq>>
  BY DEF RunSequencer
<1>2. /\ seqIdx \in 0..2 /\ Len(seq) = 3
      /\ state = "SETUP" => seq = StandUpSeq /\ postSeq = "IDLE"
      /\ state = "SHUTDOWN" => seq = SitDownSeq /\ postSeq = "OFF"
  BY DEF IInv, RisingInv, SittingInv
<1>3. /\ state = "SETUP" => step = (CASE seqIdx = 0 -> "Curl"
                                   [] seqIdx = 1 -> "LegsToNeutral"
                                   [] seqIdx = 2 -> "RaiseBody")
      /\ state = "SHUTDOWN" => step = (CASE seqIdx = 0 -> "LegsToNeutral"
                                      [] seqIdx = 1 -> "LowerBody"
                                      [] seqIdx = 2 -> "Curl")
  BY <1>2
<1>4. /\ legs' \in 0..LegMax
      /\ bodyErr' \in 0..BodyMax /\ bodyT' \in {"ground", "stand", "pose"}
      /\ fold' \in 0..FoldMax /\ board' = fold'
  BY <1>1, RunStepFacts DEF IInv
<1>5. /\ step = "Curl" => (done <=> fold' = 0) /\ UNCHANGED body
      /\ step = "LegsToNeutral" => (done <=> legs' = 0) /\ UNCHANGED body
      /\ step = "RaiseBody" =>
           (done <=> bodyErr' = 0) /\ bodyT' = "stand" /\ legs' = legs
      /\ step = "LowerBody" =>
           (done <=> bodyErr' = 0) /\ bodyT' = "ground" /\ legs' = legs
  BY <1>1, RunStepFacts DEF IInv
<1>6. seqIdx' \in 0..3 /\ (seqIdx' = 3 <=> done /\ seqIdx = 2)
  BY <1>1, <1>2
<1> HIDE DEF step
<1>7. CASE ~(done /\ seqIdx = 2)
  <2>1. UNCHANGED <<state, rail, motion, sinceCmd, odomMoved, gaitVars>>
    BY <1>1, <1>2, <1>6, <1>7
  <2>2. seqIdx' \in 0..2
    BY <1>6, <1>7
  <2>3. state = "SETUP" /\ seqIdx' = 2 => legs' = 0
    BY <1>1, <1>2, <1>3, <1>5, <1>7 DEF IInv, RisingInv
  <2>4. ASSUME state = "SHUTDOWN", seqIdx' = 2
        PROVE  bodyT' = "ground" /\ bodyErr' = 0
    <3>1. CASE seqIdx = 1
      BY <1>1, <1>3, <1>5, <2>4, <3>1
    <3>2. CASE seqIdx = 2
      BY <1>3, <1>5, <2>4, <3>2 DEF IInv, SittingInv, body
    <3> QED
      BY <1>1, <1>2, <2>4, <3>1, <3>2
  <2> QED
    BY <1>1, <1>4, <1>6, <2>1, <2>2, <2>3, <2>4 DEF AnimStep
<1>8. CASE done /\ seqIdx = 2
  <2>1. FinalizeSequence
    BY <1>1, <1>2, <1>6, <1>8
  <2>2. CASE state = "SETUP"
    <3>1. legs' = 0 /\ bodyT' = "stand" /\ bodyErr' = 0
      BY <1>3, <1>5, <1>8, <2>2 DEF IInv, RisingInv
    <3>2. StandUpEnds
      BY <1>2, <2>1, <2>2, <3>1 DEF StandUpEnds, FinalizeSequence
    <3> QED
      BY <1>1, <1>4, <1>6, <3>2
  <2>3. CASE state = "SHUTDOWN"
    <3>1. fold' = 0 /\ bodyT' = "ground" /\ bodyErr' = 0
      BY <1>3, <1>5, <1>8, <2>3 DEF IInv, SittingInv, body
    <3>2. SitDownEnds
      BY <1>2, <2>1, <2>3, <3>1 DEF SitDownEnds, FinalizeSequence
    <3> QED
      BY <1>1, <1>4, <1>6, <3>2
  <2> QED
    BY <2>2, <2>3
<1> QED
  BY <1>7, <1>8

\* A tick of an animation.
LEMMA RunSequencerIInv ==
  ASSUME IInv, state \in Animating, NEW dt \in Dts, RunSequencer(dt),
         voltage' \in {"ok", "low"}, current' \in {"ok", "over"}
  PROVE  IInv'
<1>1. /\ legs' \in 0..LegMax
      /\ bodyErr' \in 0..BodyMax /\ bodyT' \in {"ground", "stand", "pose"}
      /\ fold' \in 0..FoldMax /\ board' = fold'
      /\ seqIdx' \in 0..3 /\ UNCHANGED <<seq, postSeq>>
      /\ AnimStep \/ StandUpEnds \/ SitDownEnds
  BY RunSequencerCases
<1> USE DEF IInv
<1>2. CASE AnimStep
  <2> USE <1>2 DEF AnimStep, rail, motion, gaitVars
  <2>1. FlagsOK'
    BY Zenon DEF FlagsOK
  <2>2. ValuesOK'
    BY <1>1 DEF ValuesOK
  <2>3. RailMatchesState' /\ NoStaleMotion' /\ IdleIsStill' /\ WatchdogInv'
    BY DEF RailMatchesState, NoStaleMotion, IdleIsStill, WatchdogInv
  <2>4. BoardHoldsCommand' /\ OdometryRestarts' /\ RisingInv' /\ SittingInv'
    BY <1>1 DEF BoardHoldsCommand, OdometryRestarts, RisingInv, SittingInv
  <2>5. GaitInv'
    BY DEF GaitInv
  <2> QED
    BY <2>1, <2>2, <2>3, <2>4, <2>5
<1>3. CASE StandUpEnds
  <2> USE <1>3 DEF StandUpEnds, rail, ResetMotion, HaltMotion, Pet
  <2>1. /\ walking' = FALSE /\ stopping' = FALSE /\ hasPending' = FALSE
        /\ gait' \in Gaits /\ pendingGait' \in Gaits /\ stopLeft' \in 0..StopMax
    BY GaitResetFacts
  <2>2. FlagsOK'
    BY <2>1, Zenon DEF FlagsOK
  <2>3. ValuesOK'
    BY <1>1, <2>1, StillFacts DEF ValuesOK
  <2>4. RailMatchesState' /\ NoStaleMotion' /\ IdleIsStill' /\ WatchdogInv'
    BY <2>1, BoundsAssumption
       DEF RailMatchesState, NoStaleMotion, IdleIsStill, WatchdogInv
  <2>5. BoardHoldsCommand' /\ OdometryRestarts' /\ RisingInv' /\ SittingInv'
    BY <1>1 DEF BoardHoldsCommand, OdometryRestarts, RisingInv, SittingInv
  <2>6. GaitInv'
    BY <2>1 DEF GaitInv
  <2> QED
    BY <2>2, <2>3, <2>4, <2>5, <2>6
<1>4. CASE SitDownEnds
  <2> USE <1>4 DEF SitDownEnds, SetPower, motion, gaitVars
  <2>1. FlagsOK'
    BY Zenon DEF FlagsOK
  <2>2. ValuesOK'
    BY <1>1 DEF ValuesOK
  <2>3. RailMatchesState' /\ NoStaleMotion' /\ IdleIsStill' /\ WatchdogInv'
    BY DEF RailMatchesState, NoStaleMotion, IdleIsStill, WatchdogInv
  <2>4. BoardHoldsCommand' /\ OdometryRestarts' /\ RisingInv' /\ SittingInv'
    BY DEF BoardHoldsCommand, OdometryRestarts, RisingInv, SittingInv
  <2>5. GaitInv'
    BY DEF GaitInv
  <2> QED
    BY <2>1, <2>2, <2>3, <2>4, <2>5
<1> QED
  BY <1>1, <1>2, <1>3, <1>4

LEMMA TickIInv ==
  ASSUME IInv, Tick
  PROVE  IInv'
<1>1. PICK dt \in Dts, volts \in VoltReadings, amps \in AmpReadings :
        Update(dt, volts, amps)
  BY DEF Tick
<1>2. voltage' \in {"ok", "low"} /\ current' \in {"ok", "over"}
  BY <1>1, ReadingsAssumption DEF Update
<1>3. CASE energized /\ amps = "over"
  BY <1>1, <1>2, <1>3, TripFaultIInv DEF Update
<1>4. CASE ~(energized /\ amps = "over") /\ state \in Animating
  BY <1>1, <1>2, <1>4, RunSequencerIInv DEF Update
<1>5. CASE ~(energized /\ amps = "over") /\ state \in Standing
  BY <1>1, <1>2, <1>5, RunActiveIInv DEF Update
<1>6. CASE ~(energized /\ amps = "over") /\ state \in Resting
  <2> USE DEF IInv, rail, motion, body, servos, anim, gaitVars
  <2>1. UNCHANGED <<state, rail, motion, legs, body, servos, anim, sinceCmd,
                    odomMoved, gaitVars>>
    BY <1>1, <1>6 DEF Update
  <2>2. FlagsOK'
    BY <2>1, Zenon DEF FlagsOK
  <2>3. ValuesOK'
    BY <1>2, <2>1 DEF ValuesOK
  <2>4. RailMatchesState' /\ NoStaleMotion' /\ IdleIsStill' /\ WatchdogInv'
    BY <2>1 DEF RailMatchesState, NoStaleMotion, IdleIsStill, WatchdogInv
  <2>5. BoardHoldsCommand' /\ OdometryRestarts' /\ RisingInv' /\ SittingInv'
    BY <2>1 DEF BoardHoldsCommand, OdometryRestarts, RisingInv, SittingInv
  <2>6. GaitInv'
    BY <2>1 DEF GaitInv
  <2> QED
    BY <2>2, <2>3, <2>4, <2>5, <2>6
<1> QED
  BY <1>3, <1>4, <1>5, <1>6 DEF IInv, ValuesOK

-----------------------------------------------------------------------------
(* The theorems *)

\* IInv is an invariant of the robot: boot establishes it, and every tick,
\* command and provisioning message preserves it.
THEOREM Invariance == Spec => []IInv
<1>1. IInv /\ [Next]_vars => IInv'
  <2> SUFFICES ASSUME IInv, [Next]_vars PROVE IInv'
    OBVIOUS
  <2>1. CASE Next
    BY <2>1, TickIInv, CommandIInv, ProvisionIInv DEF Next
  <2>2. CASE UNCHANGED vars
    <3> USE <2>2 DEF vars, IInv, rail, motion, body, servos, anim, readings,
                     gaitVars
    <3>1. FlagsOK' /\ ValuesOK'
      BY DEF FlagsOK, ValuesOK
    <3>2. RailMatchesState' /\ NoStaleMotion' /\ IdleIsStill' /\ WatchdogInv'
      BY DEF RailMatchesState, NoStaleMotion, IdleIsStill, WatchdogInv
    <3>3. BoardHoldsCommand' /\ OdometryRestarts' /\ RisingInv' /\ SittingInv'
      BY DEF BoardHoldsCommand, OdometryRestarts, RisingInv, SittingInv
    <3>4. GaitInv'
      BY DEF GaitInv
    <3> QED
      BY <3>1, <3>2, <3>3, <3>4
  <2> QED
    BY <2>1, <2>2
<1> QED
  BY InitIInv, <1>1, PTL DEF Spec

\* Every variable of the robot keeps its type.
THEOREM TypeCorrect == Spec => []TypeOK
<1>1. IInv => TypeOK
  BY TypeParts DEF IInv
<1> QED
  BY <1>1, Invariance, PTL

\* The rail is on exactly when the robot is neither OFF nor in FAULT.
THEOREM RailSafe == Spec => []RailMatchesState
<1>1. IInv => RailMatchesState
  BY DEF IInv
<1> QED
  BY <1>1, Invariance, PTL

\* No velocity outlives a sit-down or a fault.
THEOREM MotionSafe == Spec => []NoStaleMotion
<1>1. IInv => NoStaleMotion
  BY DEF IInv
<1> QED
  BY <1>1, Invariance, PTL

\* A robot that reports IDLE stands still, feet at neutral, gait frozen.
THEOREM IdleSafe == Spec => []IdleIsStill
<1>1. IInv => IdleIsStill
  BY DEF IInv
<1> QED
  BY <1>1, Invariance, PTL

\* A walking robot has heard from the link within the timeout, whatever the
\* lengths of its ticks.
THEOREM WatchdogSafe == Spec => []WalkEndsWithTheLink
<1>1. IInv => WalkEndsWithTheLink
  BY DEF IInv, WatchdogInv, WalkEndsWithTheLink
<1> QED
  BY <1>1, Invariance, PTL

\* With the rail on, the robot interpolates from the angles the board holds.
THEOREM BoardSafe == Spec => []BoardHoldsCommand
<1>1. IInv => BoardHoldsCommand
  BY DEF IInv
<1> QED
  BY <1>1, Invariance, PTL

\* A rising robot's odometry has integrated nothing.
THEOREM OdometrySafe == Spec => []OdometryRestarts
<1>1. IInv => OdometryRestarts
  BY DEF IInv
<1> QED
  BY <1>1, Invariance, PTL

-----------------------------------------------------------------------------
(* Action properties and refinement *)

\* What one step can be, told by the state it leaves and the state it reaches.
LEMMA StepCases ==
  ASSUME IInv, Next
  PROVE  \/ UNCHANGED <<state, rail, gait, hasPending>>
         \/ state \in Resting /\ StartStandUp
         \/ state \in Standing /\ StartSitDown
         \/ energized /\ current' = "over" /\ TripFault
         \/ StandUpEnds
         \/ SitDownEnds /\ board' = fold'
         \/ /\ state \in Standing /\ state' \in Standing /\ UNCHANGED rail
            /\ ~walking' => legs' = 0
            /\ gait' # gait => ~walking'
            /\ hasPending /\ ~hasPending' => gait' = pendingGait
         \/ /\ \E g \in Gaits : Gait!SetGait(g)
            /\ UNCHANGED <<state, rail, legs>>
<1>1. CASE Provision
  BY <1>1 DEF Provision, Reconfigure, ProvisionLimits, DisturbBoard, rail, gaitVars
<1>2. CASE Command
  BY <1>2 DEF Command, Enable, Shutdown, Stop, SetVelocity, SetBodyPose, SetGait,
              Heartbeat, rail, gaitVars
<1>3. CASE Tick
  <2>1. PICK dt \in Dts, volts \in VoltReadings, amps \in AmpReadings :
          Update(dt, volts, amps)
    BY <1>3 DEF Tick
  <2>2. CASE energized /\ amps = "over"
    BY <2>1, <2>2 DEF Update
  <2>3. CASE ~(energized /\ amps = "over") /\ state \in Animating
    <3>1. RunSequencer(dt)
      BY <2>1, <2>3 DEF Update
    <3>2. board' = fold' /\ (AnimStep \/ StandUpEnds \/ SitDownEnds)
      BY <2>3, <3>1, RunSequencerCases
    <3>3. AnimStep => UNCHANGED <<state, rail, gait, hasPending>>
      BY DEF AnimStep, gaitVars
    <3> QED
      BY <3>2, <3>3
  <2>4. CASE ~(energized /\ amps = "over") /\ state \in Standing
    <3>1. RunActive(dt)
      BY <2>1, <2>4 DEF Update
    <3>2. CASE LinkLost(sinceCmd')
      BY <2>4, <3>1, <3>2 DEF RunActive
    <3>3. CASE ~LinkLost(sinceCmd')
      <4>1. state' \in Standing /\ UNCHANGED rail
        BY <3>1, <3>3 DEF RunActive
      <4>2. PICK advancing \in BOOLEAN :
              /\ Gait!Update(advancing, dt)
              /\ legs' \in IF walking' THEN 0..LegMax ELSE {0}
        BY <3>1, <3>3 DEF RunActive, Walk
      <4>3. /\ gait' # gait => ~walking'
            /\ hasPending /\ ~hasPending' => gait' = pendingGait
        BY <4>2, GaitUpdateFacts DEF IInv, GaitInv
      <4> QED
        BY <2>4, <4>1, <4>2, <4>3
    <3> QED
      BY <3>2, <3>3
  <2>5. CASE ~(energized /\ amps = "over") /\ state \in Resting
    BY <2>1, <2>5 DEF Update, rail, gaitVars
  <2> QED
    BY <2>2, <2>3, <2>4, <2>5 DEF IInv, ValuesOK
<1> QED
  BY <1>1, <1>2, <1>3 DEF Next

\* The rail is cut under over-current, or over a folded robot on the ground.
THEOREM PowerCutSafe == Spec => PowerCutIsSafe
<1>1. ASSUME IInv, Next, power, ~power'
      PROVE  \/ current' = "over"
             \/ fold' = 0 /\ board' = 0 /\ bodyT' = "ground" /\ bodyErr' = 0
  BY <1>1, StepCases
     DEF StartStandUp, StartSitDown, StandUpEnds, SitDownEnds, SetPower, rail
<1> QED
  BY <1>1, Invariance, PTL DEF Spec, PowerCutIsSafe

\* A robot reaches IDLE from SETUP only as a standing one.
THEOREM StandUpComplete == Spec => StandUpIsComplete
<1>1. ASSUME IInv, Next, state = "SETUP", state' = "IDLE"
      PROVE  /\ legs' = 0 /\ bodyT' = "stand" /\ bodyErr' = 0
             /\ ~walking' /\ sinceCmd' = 0
  <2>1. StandUpEnds
    BY <1>1, StepCases DEF TripFault, SitDownEnds
  <2> QED
    BY <2>1 DEF StandUpEnds, Gait!Reset, Gait!ComeToRest, ResetMotion, Pet
<1> QED
  BY <1>1, Invariance, PTL DEF Spec, StandUpIsComplete

\* The gait in use changes only over a cycle at rest.
THEOREM GaitSwitchSafe == Spec => GaitSwitchesAtRest
<1>1. ASSUME IInv, Next, gait' # gait
      PROVE  ~walking' /\ (state' \in Standing => legs' = 0)
  <2>1. CASE state \in Resting /\ StartStandUp
    BY <2>1 DEF StartStandUp, Gait!Reset, Gait!ComeToRest
  <2>2. CASE StandUpEnds
    BY <2>2 DEF StandUpEnds, Gait!Reset, Gait!ComeToRest
  <2>3. CASE (\E g \in Gaits : Gait!SetGait(g)) /\ UNCHANGED <<state, rail, legs>>
    BY <1>1, <2>3 DEF Gait!SetGait, IInv, GaitInv
  <2> QED
    BY <1>1, <2>1, <2>2, <2>3, StepCases
       DEF StartSitDown, TripFault, SitDownEnds, gaitVars
<1> QED
  BY <1>1, Invariance, PTL DEF Spec, GaitSwitchesAtRest

\* A held gait request is given up only to the gait it asked for.
THEOREM HeldGaitSafe == Spec => HeldGaitTakesEffect
<1>1. ASSUME IInv, Next, hasPending, ~hasPending'
      PROVE  gait' = pendingGait
  <2>1. CASE state \in Resting /\ StartStandUp
    BY <1>1, <2>1 DEF StartStandUp, Gait!Reset, Gait!ComeToRest
  <2>2. CASE StandUpEnds
    BY <1>1, <2>2 DEF StandUpEnds, Gait!Reset, Gait!ComeToRest
  <2>3. CASE (\E g \in Gaits : Gait!SetGait(g)) /\ UNCHANGED <<state, rail, legs>>
    BY <1>1, <2>3 DEF Gait!SetGait, IInv, GaitInv
  <2> QED
    BY <1>1, <2>1, <2>2, <2>3, StepCases
       DEF StartSitDown, TripFault, SitDownEnds, gaitVars
<1> QED
  BY <1>1, Invariance, PTL DEF Spec, HeldGaitTakesEffect

\* The robot implements the lifecycle's safety part: boot is its initial
\* state, and every step is one of its steps or leaves state and rail alone.
THEOREM Refinement == Spec => LifecycleSteps
<1>1. Init => Life!Init
  BY DEF Init, Life!Init
<1>2. ASSUME IInv, [Next]_vars PROVE [Life!Next]_(Life!vars)
  <2> USE DEF Life!Next, Life!vars, Life!Standing, Life!Resting, rail
  <2>1. CASE UNCHANGED vars
    BY <2>1 DEF vars
  <2>2. CASE UNCHANGED <<state, rail>>
    BY <2>2
  <2>3. CASE state \in Resting /\ StartStandUp
    BY <2>3 DEF StartStandUp, SetPower, Life!Enable
  <2>4. CASE state \in Standing /\ StartSitDown
    BY <2>4 DEF StartSitDown, Life!SitDown
  <2>5. CASE energized /\ TripFault
    BY <1>2, <2>5 DEF TripFault, SetPower, Life!Trip, IInv, RailMatchesState
  <2>6. CASE StandUpEnds
    BY <2>6 DEF StandUpEnds, Life!Stand
  <2>7. CASE SitDownEnds
    BY <2>7 DEF SitDownEnds, SetPower, Life!PowerOff
  <2>8. CASE state \in Standing /\ state' \in Standing /\ UNCHANGED rail
    BY <2>8 DEF Life!Move
  <2> QED
    BY <1>2, <2>1, <2>2, <2>3, <2>4, <2>5, <2>6, <2>7, <2>8, StepCases
<1> QED
  BY <1>1, <1>2, Invariance, PTL DEF Spec, LifecycleSteps, Life!SafetySpec

-----------------------------------------------------------------------------
(* The dispatcher: it does to the robot only what Robot's users may do, so *)
(* everything proved above holds behind the wire; and what it promises     *)
(* about configuration, refusals and the watchdog, for every frame.        *)

\* A dispatched frame is a command, a provisioning step, or leaves the robot
\* alone.
LEMMA DispatchIsNext ==
  ASSUME NEW f \in Frames, Dispatch(f)
  PROVE  [Next]_vars
<1>1. CASE SetpointFrame(f)
  BY <1>1 DEF SetpointFrame, Next, Command
<1>2. CASE BareFrame(f)
  BY <1>2 DEF BareFrame, Next, Command
<1>3. CASE RefusedFrame(f)
  BY <1>3 DEF RefusedFrame
<1>4. CASE AppliedFrame(f)
  <2>1. Provisionable
    BY <1>4 DEF AppliedFrame, Refusal
  <2> QED
    BY <1>4, <2>1 DEF AppliedFrame, Next, Provision
<1>5. CASE QueryFrame(f)
  BY <1>5 DEF QueryFrame
<1>6. CASE UnknownFrame(f)
  BY <1>6 DEF UnknownFrame
<1> QED
  BY <1>1, <1>2, <1>3, <1>4, <1>5, <1>6 DEF Dispatch

LEMMA RouterStepIsNext == [RouterNext]_routerVars => [Next]_vars
<1>1. RouterTick => Next
  BY DEF RouterTick, Next
<1>2. (\E f \in Frames : Dispatch(f)) => [Next]_vars
  BY DispatchIsNext
<1> QED
  BY <1>1, <1>2 DEF RouterNext, routerVars

\* Whatever the line delivers, the robot behaves as Robot says.
THEOREM Implementation == RouterSpec => ImplementsRobot
<1>1. RouterInit => Init
  BY DEF RouterInit
<1> QED
  BY <1>1, RouterStepIsNext, PTL DEF RouterSpec, ImplementsRobot, Spec

\* The inductive invariant of Robot holds behind the dispatcher.
THEOREM BehindTheWire == RouterSpec => []IInv
<1> QED
  BY Implementation, Invariance, PTL DEF ImplementsRobot

\* No section of the configuration changes with the rail on or an animation
\* under way.
THEOREM ConfigSafe == RouterSpec => ConfigChangesAtRest
<1>1. ASSUME IInv, [RouterNext]_routerVars, config' # config
      PROVE  ~energized /\ ~energized' /\ state' \in Resting
  <2>1. PICK f \in Frames : Dispatch(f)
    BY <1>1 DEF RouterNext, RouterTick, routerVars
  <2>2. AppliedFrame(f)
    BY <1>1, <2>1 DEF Dispatch, SetpointFrame, BareFrame, RefusedFrame, QueryFrame,
       UnknownFrame
  <2>3. state \in Resting
    BY <2>2 DEF AppliedFrame, Refusal, Provisionable
  <2>4. ~energized
    BY <1>1, <2>3 DEF IInv, RailMatchesState
  <2>5. UNCHANGED <<state, energized>>
    BY <1>1, <2>2 DEF AppliedFrame, Reconfigure, ProvisionLimits, DisturbBoard, vars, rail
  <2> QED
    BY <2>3, <2>4, <2>5
<1> QED
  BY <1>1, BehindTheWire, PTL DEF RouterSpec, ConfigChangesAtRest

\* A refused frame changes neither the robot nor the configuration.
THEOREM RefusalSafe == RouterSpec => RefusalIsInert
<1>1. ASSUME [RouterNext]_routerVars, reply'.op = "Error"
      PROVE  UNCHANGED <<vars, config>> \/ UNCHANGED routerVars
  <2>1. CASE RouterTick
    BY <1>1, <2>1 DEF RouterTick, NoReply
  <2>2. CASE \E f \in Frames : Dispatch(f)
    <3>1. PICK f \in Frames : Dispatch(f)
      BY <2>2
    <3>2. ~SetpointFrame(f) /\ ~BareFrame(f)
      BY <1>1 DEF SetpointFrame, BareFrame, NoReply
    <3>3. ~AppliedFrame(f)
      BY <1>1 DEF AppliedFrame, Acked, Remodels, Retunes, Rewires
    <3> QED
      BY <3>1, <3>2, <3>3 DEF Dispatch, RefusedFrame, QueryFrame, UnknownFrame
  <2> QED
    BY <1>1, <2>1, <2>2 DEF RouterNext
<1> QED
  BY <1>1, PTL DEF RouterSpec, RefusalIsInert

\* A standing robot's watchdog starts over only by a fire-and-forget frame.
THEOREM PollingSafe == RouterSpec => PollingIsNoHeartbeat
<1>1. ASSUME IInv, [RouterNext]_routerVars, sinceCmd' < sinceCmd, state \in Standing
      PROVE  frame' # NoFrame /\ kind_of(frame'.op) = "FireAndForget"
  <2>1. sinceCmd \in Nat
    BY <1>1 DEF IInv, ValuesOK
  <2>2. CASE RouterTick
    <3>1. PICK dt \in Dts, volts \in VoltReadings, amps \in AmpReadings :
            Update(dt, volts, amps)
      BY <2>2 DEF RouterTick, Tick
    <3>2. UNCHANGED sinceCmd \/ RunActive(dt)
      BY <1>1, <3>1 DEF Update, TripFault, Standing, Animating, Resting
    <3>3. sinceCmd' = sinceCmd \/ sinceCmd' = sinceCmd + dt
      BY <3>2 DEF RunActive
    <3>4. dt \in Nat
      BY DtsAssumption
    <3> QED
      BY <1>1, <2>1, <3>3, <3>4
  <2>3. CASE \E f \in Frames : Dispatch(f)
    <3>1. PICK f \in Frames : Dispatch(f)
      BY <2>3
    <3>2. sinceCmd' # sinceCmd
      BY <1>1, <2>1
    <3>3. ~RefusedFrame(f) /\ ~AppliedFrame(f) /\ ~QueryFrame(f) /\ ~UnknownFrame(f)
      BY <3>2 DEF RefusedFrame, AppliedFrame, QueryFrame, UnknownFrame, Reconfigure,
         ProvisionLimits, DisturbBoard, vars
    <3>4. f.op \in Setpoints \cup Bare
      BY <3>1, <3>3 DEF Dispatch, SetpointFrame, BareFrame
    <3> QED
      BY <3>1, <3>4 DEF Dispatch, kind_of, NoFrame, Setpoints, Bare
  <2> QED
    BY <1>1, <2>1, <2>2, <2>3 DEF RouterNext, routerVars, vars
<1> QED
  BY <1>1, BehindTheWire, PTL DEF RouterSpec, PollingIsNoHeartbeat

\* Every dispatched frame is answered exactly when kind_of() says it is, and
\* with its own opcode or an Error.
LEMMA DispatchReplies ==
  ASSUME NEW f \in Frames, Dispatch(f)
  PROVE  ReplyMatchesKind'
<1>1. f.op \in Opcodes /\ frame' = f
  BY DEF Dispatch, Frames
<1>2. CASE SetpointFrame(f) \/ BareFrame(f)
  <2>1. f.op \in Setpoints \cup Bare /\ reply' = NoReply
    BY <1>2 DEF SetpointFrame, BareFrame
  <2> QED
    BY <1>1, <2>1 DEF ReplyMatchesKind, kind_of, NoReply
<1>3. CASE RefusedFrame(f) \/ AppliedFrame(f) \/ QueryFrame(f) \/ UnknownFrame(f)
  <2>1. f.op \notin Setpoints \cup Bare
    BY <1>3 DEF RefusedFrame, AppliedFrame, QueryFrame, UnknownFrame, Acked, Remodels,
       Retunes, Rewires, Queries, Setpoints, Bare
  <2>2. reply'.op \in {"Error", f.op} /\ f.op # "none"
    BY <1>1, <1>3 DEF RefusedFrame, AppliedFrame, QueryFrame, UnknownFrame, error,
       Opcodes, Acked, Remodels, Retunes, Rewires, Queries, Setpoints, Bare
  <2> QED
    BY <1>1, <2>1, <2>2 DEF ReplyMatchesKind, kind_of, NoReply
<1> QED
  BY <1>2, <1>3 DEF Dispatch

\* The Pi waits for a reply exactly when one comes: for every frame, in every
\* state of the robot, the answer fits the table both ends agree on.
THEOREM RepliesSafe == RouterSpec => []ReplyMatchesKind
<1>1. RouterInit => ReplyMatchesKind
  BY DEF RouterInit, ReplyMatchesKind
<1>2. ReplyMatchesKind /\ [RouterNext]_routerVars => ReplyMatchesKind'
  <2>1. RouterTick => ReplyMatchesKind'
    BY DEF RouterTick, ReplyMatchesKind
  <2>2. UNCHANGED routerVars /\ ReplyMatchesKind => ReplyMatchesKind'
    BY DEF routerVars, ReplyMatchesKind
  <2> QED
    BY <2>1, <2>2, DispatchReplies DEF RouterNext
<1> QED
  BY <1>1, <1>2, PTL DEF RouterSpec
=============================================================================
