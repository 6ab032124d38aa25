-------------------------------- MODULE Pose --------------------------------
(***************************************************************************)
(* The pose robot::Robot (src/core/robot.hpp) commands through an          *)
(* animation, a stance and a walk: where it wants the feet and the body,   *)
(* what it makes of that by inverse kinematics, and what it last wrote to  *)
(* the servos when a foot is out of reach.                                 *)
(*                                                                         *)
(* Positions are points <<x, z>> of a small grid, and a rate-limited move  *)
(* is one unit along each axis per tick. Inside Reach the kinematics are a *)
(* bijection between the angles of a leg and its foot's place relative to  *)
(* the body: the servos of a leg are given by that place.                  *)
(***************************************************************************)
EXTENDS Integers, Sequences

CONSTANTS
  Legs,      (* a set of legs                                             *)
  Neutral,   (* per leg: its neutral foot                                 *)
  Folded,    (* per leg: the servos of set_curl_pose()                    *)
  Height,    (* STANDING_HEIGHT                                           *)
  Reach,     (* the places relative to the body that a leg can reach      *)
  Stride,    (* the displacements of a foot from neutral in a walk        *)
  BodyPoses, (* the body poses a command may ask for, after clamping      *)
  HoldMax    (* bound: the history counts no more ticks than this         *)

VARIABLES
  state,     (* state_                                                    *)
  steps,     (* the steps of the animation not yet done                   *)
  legs,      (* leg_                                                      *)
  body,      (* body_pos_ and body_rpy_                                   *)
  bodyT,     (* body_pos_t_ and body_rpy_t_                               *)
  servos,    (* servos_, which is also what the board was last given      *)
  held       (* history: the writes, up to HoldMax, that have held the
                same pose because a foot was out of reach                 *)

vars == <<state, steps, legs, body, bodyT, servos, held>>

Origin == <<0, 0>>
Standing == <<0, Height>>
Plus(p, q) == <<p[1] + q[1], p[2] + q[2]>>
Minus(p, q) == <<p[1] - q[1], p[2] - q[2]>>

\* As far as one tick may go.
Abs(n) == IF n < 0 THEN -n ELSE n
Near(n) == IF n > 0 THEN 1 ELSE IF n < 0 THEN -1 ELSE 0
Toward(p, target) == <<p[1] + Near(target[1] - p[1]), p[2] + Near(target[2] - p[2])>>
EachToward(ps, targets) == [leg \in Legs |-> Toward(ps[leg], targets[leg])]

ASSUME PoseAssumption ==
  /\ Neutral \in [Legs -> Int \X Int] /\ Folded \in [Legs -> Int \X Int]
  /\ Height \in Int /\ Stride \cup BodyPoses \subseteq Int \X Int
  /\ HoldMax \in Nat \ {0}

-----------------------------------------------------------------------------

Init ==
  /\ state = "OFF" /\ steps = <<>>
  /\ legs = Folded /\ body = Origin /\ bodyT = Origin
  /\ servos = Folded /\ held = 0

\* resolve() and resolve_write(), for the new feet and body: all legs or none.
Posture_BeforeTheSlew == [leg \in Legs |-> Minus(legs[leg], body)]
Posture == [leg \in Legs |-> Minus(legs'[leg], body')]

Resolve_PerLeg ==
  [leg \in Legs |-> IF Posture[leg] \in Reach THEN Posture[leg] ELSE servos[leg]]
Reachable == \A leg \in Legs : Posture[leg] \in Reach
Resolve == IF Reachable THEN Posture ELSE servos

ResolveWrite ==
  /\ servos' = Resolve
  /\ held' = IF Reachable THEN 0 ELSE IF held < HoldMax THEN held + 1 ELSE held

\* seed_legs_from_servos(): in the body's frame.
SeedLegs_Not(angles) == legs
SeedLegs(angles) == angles

StartStandUp ==
  /\ body' = Origin /\ bodyT' = Origin
  /\ legs' = SeedLegs(servos)
  /\ steps' = <<"Curl", "LegsToNeutral", "RaiseBody">>
  /\ state' = "SETUP"
  /\ held' = 0
  /\ UNCHANGED servos

Enable == state \in {"OFF", "FAULT"} /\ StartStandUp

\* Commanded, or by the watchdog.
StartSitDown ==
  /\ state = "STAND"
  /\ steps' = <<"LegsToNeutral", "LowerBody", "Curl">>
  /\ state' = "SHUTDOWN"
  /\ UNCHANGED <<legs, body, bodyT, servos, held>>

TripFault ==
  /\ state \in {"SETUP", "STAND", "SHUTDOWN"}
  /\ steps' = <<>>
  /\ state' = "FAULT"
  /\ UNCHANGED <<legs, body, bodyT, servos, held>>

SetBodyPose(pose) ==
  /\ state = "STAND"
  /\ bodyT' = pose
  /\ UNCHANGED <<state, steps, legs, body, servos, held>>

\* Provisioning at rest writes the folded pose.
Reconfigure ==
  /\ state \in {"OFF", "FAULT"}
  /\ servos' = Folded /\ held' = 0
  /\ UNCHANGED <<state, steps, legs, body, bodyT>>

\* run_sequencer() after a step: the next one, or finalize_sequence().
Proceed(done) ==
  /\ steps' = IF done THEN Tail(steps) ELSE steps
  /\ state' = IF steps' # <<>> THEN state ELSE IF state = "SETUP" THEN "STAND" ELSE "OFF"

CurlStep ==
  /\ servos' = EachToward(servos, Folded)
  /\ held' = 0
  /\ legs' = IF servos' = Folded THEN SeedLegs(servos') ELSE legs
  /\ Proceed(servos' = Folded)
  /\ UNCHANGED <<body, bodyT>>

LegsToNeutralStep ==
  /\ legs' = EachToward(legs, Neutral)
  /\ UNCHANGED <<body, bodyT>>
  /\ ResolveWrite
  /\ Proceed(legs' = Neutral)

BodyStep(target) ==
  /\ bodyT' = target
  /\ body' = Toward(body, target)
  /\ UNCHANGED legs
  /\ ResolveWrite
  /\ Proceed(body' = target)

RunStep ==
  /\ steps # <<>>
  /\ \/ Head(steps) = "Curl" /\ CurlStep
     \/ Head(steps) = "LegsToNeutral" /\ LegsToNeutralStep
     \/ Head(steps) = "RaiseBody" /\ BodyStep(Standing)
     \/ Head(steps) = "LowerBody" /\ BodyStep(Origin)

\* Where the gait may place a foot.
Swing(leg) == {Plus(Neutral[leg], shift) : shift \in Stride}
Footholds == UNION {Swing(leg) : leg \in Legs}

\* run_active(): the body nears its target, and the gait moves each foot a
\* little, about its neutral one.
RunActive ==
  /\ state = "STAND"
  /\ body' = Toward(body, bodyT)
  /\ legs' \in {feet \in [Legs -> Footholds] :
                \A leg \in Legs : feet[leg] \in Swing(leg) /\ Toward(legs[leg], feet[leg]) = feet[leg]}
  /\ ResolveWrite
  /\ UNCHANGED <<state, steps, bodyT>>

Next ==
  \/ Enable \/ StartSitDown \/ TripFault \/ Reconfigure
  \/ \E pose \in BodyPoses : SetBodyPose(pose)
  \/ RunStep \/ RunActive

Spec == Init /\ [][Next]_vars

-----------------------------------------------------------------------------
(* Properties *)

Powered == state \in {"SETUP", "STAND", "SHUTDOWN"}

TypeOK ==
  /\ state \in {"OFF", "SETUP", "STAND", "SHUTDOWN", "FAULT"}
  /\ steps # <<>> <=> state \in {"SETUP", "SHUTDOWN"}
  /\ {legs, servos} \subseteq [Legs -> Int \X Int]
  /\ {body, bodyT} \subseteq Int \X Int
  /\ held \in 0..HoldMax

\* How far a servo may move in a write: a tick moves its foot by one and the
\* body by one, and so did every tick whose pose was not written.
Catching == -2 * (held + 1) .. 2 * (held + 1)
Smooth == \A leg \in Legs : \A axis \in 1..2 : servos'[leg][axis] - servos[leg][axis] \in Catching

\* From one animation step to the next, from a walk to a sit-down, from a fault
\* in any posture to the next stand-up: the servos are driven on from where they
\* are. They jump only to a pose back in reach, from one held until then
\* (resolve_write), and by no more than the moves that the hold left out.
MovesOnFromWhereItIs == [][Powered /\ Powered' /\ held < HoldMax => Smooth]_vars

\* Feet that stand on the ground are not dragged over it: two feet that the gait
\* and the animations leave at their distance keep it as the servos place them,
\* though a third is lifted, the body moves under them, or some leg cannot
\* follow (resolve: every leg or none). Not so in a fold, which moves each leg
\* by itself, nor in the write that ends a hold, when they may have been moved.
Folding == steps # <<>> /\ Head(steps) = "Curl"
EndsHold == held # 0 /\ held' = 0
SameDistance(a, b) ==
  Minus(legs'[a], legs'[b]) = Minus(legs[a], legs[b]) =>
    Minus(servos'[a], servos'[b]) = Minus(servos[a], servos[b])
PlantedFeetStay ==
  [][Powered /\ Powered' /\ ~Folding /\ ~EndsHold => \A a, b \in Legs : SameDistance(a, b)]_vars

\* A stand-up ends standing and a sit-down folded, and no servo lags behind,
\* though feet were out of reach on the way, unless the legs as provisioned
\* cannot stand at all.
Stance == [leg \in Legs |-> Minus(Neutral[leg], Standing)]
CanStand == \A leg \in Legs : Stance[leg] \in Reach
AnimationsArrive ==
  [][/\ state = "SETUP" /\ state' = "STAND" /\ CanStand => servos' = Stance
     /\ state = "SHUTDOWN" /\ state' = "OFF" => servos' = Folded]_vars
=============================================================================
