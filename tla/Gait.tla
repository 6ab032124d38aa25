-------------------------------- MODULE Gait --------------------------------
(***************************************************************************)
(* gait::Generator (src/core/gait.hpp) with its phase: which feet are in   *)
(* the air, how far the cycle must run before none is, and the walk-to-    *)
(* rest transition that relies on it. Feet are given by how high they are  *)
(* lifted, measured as a distance in phase to lift-off or touchdown;       *)
(* strides, the twist and its clamp are left out (a stride never decides   *)
(* when a foot lifts).                                                     *)
(*                                                                         *)
(* The code's phase is a float in [0,1). Here a cycle is Cycle units and   *)
(* the arithmetic is exact; Steps are the values of dt / CYCLE_TIME a tick *)
(* may see. Implements GaitCycle, the abstraction Robot composes.          *)
(*                                                                         *)
(* The parameters of the gaits are provisioned, whenever the robot is at   *)
(* rest: setup is the member of Setups in force. driven says that the feet *)
(* follow the generator, which they do while the robot stands; moving,     *)
(* that the velocity an update would now be given moves a foot.            *)
(***************************************************************************)
EXTENDS Integers, FiniteSetsExt

CONSTANTS
  Cycle,     (* phase units in one cycle                                  *)
  Steps,     (* phase units one update may cover                          *)
  Setups     (* the provisioned parameters: duty_factor and overlap of    *)
             (* every gait, in phase units                                *)

Gaits == {"TRIPOD", "WAVE", "RIPPLE"}

ASSUME CycleAssumption == Cycle \in Nat \ {0} /\ Steps \subseteq 1..Cycle /\ Steps # {}

ASSUME ParamsAssumption ==
  Setups \subseteq [duty : [Gaits -> 1..(Cycle - 1)], overlap : [Gaits -> 0..Cycle]]

VARIABLES
  setup, driven, moving, gait, walking, stopping, stopLeft, pendingGait, hasPending,
  phase      (* phase_, in 0..Cycle-1                                     *)

cycleVars == <<gait, walking, stopping, stopLeft, pendingGait, hasPending>>
vars == <<setup, driven, moving, phase, cycleVars>>

-----------------------------------------------------------------------------
(* Which feet are in the air *)

Legs == 1..6

Phases == 0..(Cycle - 1)

\* PATTERN: the groups of a gait, and the group of each leg (FRONT_RIGHT,
\* MIDDLE_RIGHT, REAR_RIGHT, REAR_LEFT, MIDDLE_LEFT, FRONT_LEFT). No gait of
\* the table leaves a leg out, so its group -1 does not occur.
NumGroups == [TRIPOD |-> 2, WAVE |-> 6, RIPPLE |-> 3]

GroupOf == [TRIPOD |-> <<0, 1, 0, 1, 0, 1>>,
            WAVE   |-> <<0, 1, 2, 3, 4, 5>>,
            RIPPLE |-> <<0, 1, 2, 0, 2, 1>>]

LegPhase(c, g, leg, p) ==
  (p + (GroupOf[g][leg] * (Cycle - c.overlap[g])) \div NumGroups[g]) % Cycle

SwingLength(c, g) == Cycle - c.duty[g]

\* REST_TOL: within 2% of either end of its swing a foot counts as grounded.
Airborne(c, g, leg, p) ==
  LET swing == LegPhase(c, g, leg, p) - c.duty[g]
  IN  /\ 50 * swing > SwingLength(c, g)
      /\ 50 * swing < 49 * SwingLength(c, g)

Grounded(c, g, p) == \A leg \in Legs : ~Airborne(c, g, leg, p)

\* The time for every swing in progress at p to land.
Landing(c, g, p) ==
  Max({0} \cup {Cycle - LegPhase(c, g, leg, p) : leg \in {l \in Legs : Airborne(c, g, l, p)}})

\* The longest way to rest: six times, a swing as long as a cycle.
RunMax == 6 * Cycle

\* How far from each phase the cycle must run before no foot is in the air:
\* land the swings in progress, and those that began meanwhile, at most as many
\* times as the code does. -1 if that is not enough.
RestDistance ==
  [c \in Setups |-> [g \in Gaits |-> [p \in Phases |->
     LET Travelled[round \in 0..6] ==
           IF round = 0 THEN 0
           ELSE LET before == Travelled[round - 1]
                IN  before + Landing(c, g, p + before)
         travelled == Travelled[6]
     IN  IF Grounded(c, g, p + travelled) THEN travelled ELSE -1]]]

\* Move a frozen phase on to the next grounded one.
SettlePhase(c, g, p) ==
  LET distance == RestDistance[c][g][p]
  IN  IF distance > 0 THEN (p + distance) % Cycle ELSE p

-----------------------------------------------------------------------------
(* Operations *)

\* The constructor computes the neutral stance and resets.
Init ==
  /\ gait = "TRIPOD"
  /\ pendingGait = "TRIPOD"
  /\ hasPending = FALSE
  /\ walking = FALSE
  /\ stopping = FALSE
  /\ stopLeft = 0
  /\ setup \in Setups
  /\ driven = FALSE
  /\ moving = FALSE
  /\ phase = SettlePhase(setup, "TRIPOD", 0)

SetGait_AtOnce(g) ==
  /\ gait' = g
  /\ phase' = SettlePhase(setup, g, phase)
  /\ UNCHANGED <<setup, driven, moving, pendingGait, hasPending, walking, stopping, stopLeft>>
SetGait(g) ==
  /\ IF walking
     THEN /\ pendingGait' = g
          /\ hasPending' = TRUE
          /\ UNCHANGED <<gait, phase>>
     ELSE /\ gait' = g
          /\ hasPending' = FALSE
          /\ phase' = SettlePhase(setup, g, phase)
          /\ UNCHANGED pendingGait
  /\ UNCHANGED <<setup, driven, moving, walking, stopping, stopLeft>>

ResetTo(g, p) ==
  /\ ~driven
  /\ driven' \in BOOLEAN
  /\ moving' = FALSE
  /\ gait' = g
  /\ phase' = p
  /\ walking' = FALSE /\ stopping' = FALSE /\ hasPending' = FALSE
  /\ stopLeft' = 0
  /\ UNCHANGED <<setup, pendingGait>>

Requested == IF hasPending THEN pendingGait ELSE gait

Reset_DropsRequest == ResetTo(gait, SettlePhase(setup, gait, 0))
Reset_KeepsPhase == ResetTo(Requested, phase)
\* Called when a stand-up begins, and again when it ends, each time with the
\* velocities zeroed: from then on the feet follow the generator.
Reset == ResetTo(Requested, SettlePhase(setup, Requested, 0))

\* A sit-down or a fault: the velocities are zeroed and the robot stops calling
\* update(), whatever the cycle was doing.
Abandon ==
  /\ driven
  /\ driven' = FALSE
  /\ moving' = FALSE
  /\ UNCHANGED <<setup, phase, cycleVars>>

\* New parameters, under the phase as it is: nothing is settled again.
ProvisionGaits ==
  /\ ~driven
  /\ setup' \in Setups
  /\ UNCHANGED <<driven, moving, phase, cycleVars>>

\* A new velocity target, or a smoothed velocity on its way: the next update is
\* given one that moves some foot by more than 1e-3 mm/s, or one that does not.
Command ==
  /\ driven
  /\ moving' \in BOOLEAN
  /\ UNCHANGED <<setup, driven, phase, cycleVars>>

Advance(step) ==
  /\ walking' = TRUE
  /\ stopping' = FALSE
  /\ phase' = (phase + step) % Cycle
  /\ UNCHANGED <<gait, stopLeft, pendingGait, hasPending>>

\* The distance to run, measured when the stop begins.
StopDistance_StaleOnRestart ==
  IF stopLeft > 0 THEN stopLeft ELSE Max({RestDistance[setup][gait][phase], 0})
StopDistance ==
  IF stopping THEN stopLeft ELSE Max({RestDistance[setup][gait][phase], 0})

KeepStopping_Forever(step) ==
  /\ walking /\ step < StopDistance
  /\ stopping' = TRUE
  /\ stopLeft' = StopDistance
  /\ phase' = (phase + step) % Cycle
  /\ UNCHANGED <<gait, walking, pendingGait, hasPending>>
KeepStopping(step) ==
  /\ walking /\ step < StopDistance
  /\ stopping' = TRUE
  /\ stopLeft' = StopDistance - step
  /\ phase' = (phase + step) % Cycle
  /\ UNCHANGED <<gait, walking, pendingGait, hasPending>>

Freeze_HoldsRequest(step) ==
  /\ walking /\ step >= StopDistance
  /\ walking' = FALSE /\ stopping' = FALSE
  /\ stopLeft' = StopDistance
  /\ phase' = (phase + StopDistance) % Cycle
  /\ UNCHANGED <<gait, pendingGait, hasPending>>
\* Run exactly the distance left, and freeze; a held gait takes over, at its
\* own next grounded phase.
Freeze(step) ==
  /\ walking /\ step >= StopDistance
  /\ walking' = FALSE
  /\ stopping' = FALSE
  /\ stopLeft' = StopDistance
  /\ hasPending' = FALSE
  /\ LET rested == (phase + StopDistance) % Cycle
     IN  IF hasPending
         THEN gait' = pendingGait /\ phase' = SettlePhase(setup, pendingGait, rested)
         ELSE phase' = rested /\ UNCHANGED gait
  /\ UNCHANGED pendingGait

StayFrozen == ~walking /\ UNCHANGED vars

Update(advancing, step) ==
  \/ advancing /\ Advance(step)
  \/ ~advancing /\ KeepStopping(step)
  \/ ~advancing /\ Freeze(step)
  \/ ~advancing /\ StayFrozen

Tick ==
  /\ driven
  /\ \E step \in Steps : Update(moving, step)
  /\ UNCHANGED <<setup, driven, moving>>

Next ==
  \/ Reset
  \/ Abandon
  \/ ProvisionGaits
  \/ Command
  \/ Tick
  \/ \E g \in Gaits : SetGait(g)

Spec == Init /\ [][Next]_vars

\* The robot goes on ticking while it stands. No command has to arrive, and
\* nothing else: under a zero velocity, a tick of a frozen cycle is a stutter.
FairSpec == Spec /\ WF_vars(Tick)

-----------------------------------------------------------------------------
(* Properties *)

TypeOK ==
  /\ setup \in Setups /\ driven \in BOOLEAN /\ moving \in BOOLEAN
  /\ gait \in Gaits /\ pendingGait \in Gaits
  /\ walking \in BOOLEAN /\ stopping \in BOOLEAN /\ hasPending \in BOOLEAN
  /\ stopLeft \in 0..RunMax
  /\ phase \in Phases

\* Does the gait, as provisioned, come to rest from every phase? A tripod with a
\* duty under 1/2 does not: its feet are never all down.
CanRest == [c \in Setups |-> [g \in Gaits |-> \A p \in Phases : RestDistance[c][g][p] # -1]]

\* A frozen cycle the feet follow is at a phase with no foot in the air, for the
\* gait and the parameters in use, however it got there: a stop, a cancelled and
\* repeated stop, a gait switch at rest or at the end of a stop, a provisioning
\* after a sit-down or a fault in mid-stride. So a walk never starts mid-swing.
FrozenIsGrounded ==
  driven /\ ~walking /\ CanRest[setup][gait] => Grounded(setup, gait, phase)

\* What a stop still has to run ends where every foot is down, and at the first
\* such moment: not before the last swing lands, not after another began, and
\* never past a phase where all feet are in their stance.
StopIsExact ==
  driven /\ stopping =>
    /\ Grounded(setup, gait, phase + stopLeft)
    /\ \A on \in 1..(stopLeft - 1) :
         \E leg \in Legs : LegPhase(setup, gait, leg, phase + on) > setup.duty[gait]

\* A foot's lift, as a distance in phase to the nearer end of its swing.
Lift(leg) ==
  LET swing == LegPhase(setup, gait, leg, phase) - setup.duty[gait]
  IN  IF walking THEN Max({0, Min({swing, SwingLength(setup, gait) - swing})}) ELSE 0

\* While the feet follow the generator, no update and no gait request drops a
\* foot from the air or snatches one up: a foot's lift changes by no more than
\* the phase the tick covered, and the tolerance of a rest.
FeetMoveContinuously ==
  [][driven /\ CanRest[setup][gait] =>
       \A leg \in Legs :
         LET change == Lift(leg)' - Lift(leg)
             bound  == Max(Steps) + SwingLength(setup, gait) \div 50
         IN  driven' => change <= bound /\ -change <= bound]_vars

\* GaitCycle is a faithful abstraction of this module.
Cyc == INSTANCE GaitCycle WITH StopMax <- RunMax, Dts <- Steps
ImplementsGaitCycle == Cyc!Spec

\* Once the velocity given to the updates stays zero the cycle freezes for good,
\* and no gait is left held: a stop that is not taken back comes to its end, from
\* whatever phase, and takes over the gait asked for last, however often gaits
\* are asked for meanwhile.
ZeroCommandFreezes ==
  <>[](driven /\ ~moving) => <>[](~walking /\ ~hasPending)
=============================================================================
