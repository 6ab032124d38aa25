------------------------------- MODULE Smoothing -------------------------------
(***************************************************************************)
(* The velocity command of robot::Robot: the clamp of set_velocity(), the  *)
(* low-pass with its deadband in smooth_commands(), and what resets them.  *)
(*                                                                         *)
(* Velocities are integers in units of the resolution the model looks at,  *)
(* rounded to the nearest, or NaN, which no comparison holds of and which  *)
(* arithmetic keeps. Time is in milliseconds. In Robot an axis is only the *)
(* number of ticks it still needs; here is why that number exists.         *)
(***************************************************************************)
EXTENDS Integers

CONSTANTS
  Axes,       (* vx, vy, wz: each smoothed for itself                     *)
  NaN,        (* not a number                                             *)
  Commands,   (* the velocities a SetVelocity message may carry           *)
  Deadband,   (* VEL_DEADBAND                                             *)
  Limits,     (* LIN_VEL_MAX, as provisioned                              *)
  Taus,       (* VEL_SMOOTH_TAU, as provisioned                           *)
  TickTimes,  (* the dt of a tick                                         *)
  SettleTicks (* the ticks in which a zero command settles                *)

ASSUME SmoothingAssumption ==
  /\ Commands \subseteq Int \cup {NaN} /\ 0 \in Commands /\ NaN \notin Int
  /\ Limits \subseteq Nat /\ Taus \subseteq Nat /\ TickTimes \subseteq Nat \ {0}
  /\ {Deadband, SettleTicks} \subseteq Nat

VARIABLES
  up,         (* is the state IDLE or WALK                                *)
  target,     (* tvx_, tvy_, twz_                                         *)
  smoothed,   (* cvx_, cvy_, cwz_                                         *)
  limit,      (* cfg::LIN_VEL_MAX                                         *)
  tau,        (* cfg::VEL_SMOOTH_TAU                                      *)
  held        (* history: ticks for which the target has been what it is, *)
              (* counted up to SettleTicks                                *)

config == <<limit, tau>>
vars == <<up, target, smoothed, config, held>>

Zero == [axis \in Axes |-> 0]

Init ==
  /\ up = FALSE
  /\ target = Zero /\ smoothed = Zero /\ held = 0
  /\ limit \in Limits /\ tau \in Taus

-----------------------------------------------------------------------------
\* clampf(): a NaN is on neither side of a bound.
Clamp(v) == IF v = NaN THEN NaN ELSE IF v < -limit THEN -limit ELSE IF v > limit THEN limit ELSE v

Aim(velocity) ==
  /\ target' = velocity
  /\ held' = IF target' = target THEN held ELSE 0

SetVelocity(velocity) ==
  /\ up
  /\ Aim([axis \in Axes |-> Clamp(velocity[axis])])
  /\ UNCHANGED <<up, smoothed, config>>

Stop ==
  /\ up
  /\ Aim(Zero)
  /\ UNCHANGED <<up, smoothed, config>>

Provision(newLimit, newTau) ==
  /\ ~up
  /\ limit' = newLimit /\ tau' = newTau
  /\ UNCHANGED <<up, target, smoothed, held>>

\* reset_motion(), at the end of a stand-up.
StandUp ==
  /\ ~up /\ up' = TRUE
  /\ Aim(Zero) /\ smoothed' = Zero
  /\ UNCHANGED config

\* start_sit_down() or trip_fault().
Leave ==
  /\ up /\ up' = FALSE
  /\ Aim(Zero) /\ smoothed' = Zero
  /\ UNCHANGED config

\* dividend / divisor, to the nearest.
Rounded(dividend, divisor) == (2 * dividend + divisor) \div (2 * divisor)

Filtered_Naive(c, t, dt) ==
  IF NaN \in {c, t} THEN NaN ELSE c + Rounded((t - c) * dt, IF tau = 0 THEN 1 ELSE tau)
\* c + dt / (tau + dt) * (t - c)
Filtered(c, t, dt) ==
  IF NaN \in {c, t} THEN NaN ELSE t - Rounded((t - c) * tau, tau + dt)

Snapped_Never(c, t) == c
Snapped(c, t) == IF t = 0 /\ c \in (1 - Deadband)..(Deadband - 1) THEN 0 ELSE c

\* smooth_commands(), of run_active().
Tick(dt) ==
  /\ up
  /\ smoothed' = [axis \in Axes |->
                    Snapped(Filtered(smoothed[axis], target[axis], dt), target[axis])]
  /\ held' = IF held = SettleTicks THEN held ELSE held + 1
  /\ UNCHANGED <<up, target, config>>

Next ==
  \/ \E velocity \in [Axes -> Commands] : SetVelocity(velocity)
  \/ Stop \/ StandUp \/ Leave
  \/ \E newLimit \in Limits, newTau \in Taus : Provision(newLimit, newTau)
  \/ \E dt \in TickTimes : Tick(dt)

Spec == Init /\ [][Next]_vars

-----------------------------------------------------------------------------
(* Properties *)

\* The velocity stays within the limit that holds now, though the limit may be
\* provisioned smaller between two walks.
TypeOK ==
  /\ up \in BOOLEAN /\ held \in 0..SettleTicks
  /\ {target, smoothed} \subseteq [Axes -> (-limit)..limit \cup {NaN}]
  /\ limit \in Limits /\ tau \in Taus

Between(v, from, to) == (from <= v /\ v <= to) \/ (to <= v /\ v <= from)

\* However late the tick (dt is not capped) and however short the time constant,
\* the velocity goes towards its command and never past it.
NeverOvershoots ==
  [][\A axis \in Axes, dt \in TickTimes :
       Tick(dt) /\ NaN \notin {smoothed[axis], target[axis]}
         => Between(smoothed'[axis], smoothed[axis], target[axis])]_vars

\* "a zero command settles to EXACTLY zero and the gait can freeze"
\* (robot.hpp:448), and within SettleTicks; except that a NaN, once commanded,
\* stays until the robot sits down or trips.
ZeroSettles ==
  \A axis \in Axes :
    target[axis] = 0 /\ held = SettleTicks => smoothed[axis] \in {0, NaN}

\* What ZeroSettles asks of the constants: velocities that decay under a zero
\* command as slowly as a time constant and a tick allow, from the largest limit,
\* have fallen below the deadband by the end. decay bounds them tick by tick.
Settles(decay) ==
  /\ decay \in [0..SettleTicks -> Nat]
  /\ \A l \in Limits : l <= decay[0]
  /\ \A n \in 0..(SettleTicks - 1), t \in Taus, dt \in TickTimes :
       LET left == Rounded(decay[n] * t, t + dt)
       IN  left < Deadband \/ left <= decay[n + 1]
  /\ decay[SettleTicks] = 0
=============================================================================
