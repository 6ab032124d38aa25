--------------------------- MODULE SmoothingProofs ---------------------------
(***************************************************************************)
(* The velocity filter, for every limit, time constant, tick and command:  *)
(* it never leaves the limit, never overshoots, and settles at zero in the *)
(* time the slowest decay needs.                                           *)
(***************************************************************************)
EXTENDS Smoothing, TLAPS

-----------------------------------------------------------------------------
(* Rounding *)

\* What \div is, for a product to compare with.
LEMMA Quotient ==
  ASSUME NEW a \in Int, NEW b \in Nat \ {0}
  PROVE  /\ a \div b \in Int
         /\ b * (a \div b) <= a /\ a < b * (a \div b) + b
<1> QED
  BY Z3

\* A quotient is found by the two products around it.
LEMMA QuotientAtMost ==
  ASSUME NEW a \in Int, NEW b \in Nat \ {0}, NEW q \in Int, a < b * q + b
  PROVE  a \div b <= q
<1> DEFINE r == a \div b
<1>1. r \in Int /\ b * r <= a
  BY Quotient
<1>2. ASSUME q + 1 <= r PROVE FALSE
  <2>1. b * (q + 1) <= b * r
    BY <1>1, <1>2, Z3
  <2> QED
    BY <1>1, <2>1, Z3
<1> QED
  BY <1>1, <1>2

LEMMA QuotientAtLeast ==
  ASSUME NEW a \in Int, NEW b \in Nat \ {0}, NEW q \in Int, b * q <= a
  PROVE  q <= a \div b
<1> DEFINE r == a \div b
<1>1. r \in Int /\ a < b * r + b
  BY Quotient
<1>2. ASSUME r + 1 <= q PROVE FALSE
  <2>1. b * (r + 1) <= b * q
    BY <1>1, <1>2, Z3
  <2> QED
    BY <1>1, <2>1, Z3
<1> QED
  BY <1>1, <1>2

\* Rounding keeps the order of the dividends.
LEMMA RoundedMonotone ==
  ASSUME NEW a \in Int, NEW b \in Int, a <= b, NEW v \in Nat \ {0}
  PROVE  Rounded(a, v) \in Int /\ Rounded(b, v) \in Int /\ Rounded(a, v) <= Rounded(b, v)
<1> DEFINE q == (2 * b + v) \div (2 * v)
<1>1. 2 * v \in Nat \ {0} /\ 2 * a + v \in Int /\ 2 * b + v \in Int
  OBVIOUS
<1>2. q \in Int /\ 2 * b + v < (2 * v) * q + 2 * v
  BY <1>1, Quotient
<1>3. 2 * a + v < (2 * v) * q + 2 * v
  <2> HIDE DEF q
  <2>1. (2 * v) * q \in Int
    BY <1>1, <1>2
  <2> QED
    BY <1>2, <2>1
<1>4. (2 * a + v) \div (2 * v) <= q
  <2> HIDE DEF q
  <2> QED
    BY <1>1, <1>2, <1>3, QuotientAtMost
<1>5. (2 * a + v) \div (2 * v) \in Int
  BY <1>1, Quotient
<1> QED
  BY <1>2, <1>4, <1>5 DEF Rounded

\* Whole multiples of the divisor are not rounded.
LEMMA RoundedExact ==
  ASSUME NEW d \in Int, NEW v \in Nat \ {0}
  PROVE  Rounded(d * v, v) = d
<1>1. 2 * v \in Nat \ {0} /\ 2 * (d * v) + v \in Int
  BY Z3
<1>2. (2 * v) * d <= 2 * (d * v) + v /\ 2 * (d * v) + v < (2 * v) * d + 2 * v
  BY Z3
<1>3. (2 * (d * v) + v) \div (2 * v) <= d /\ d <= (2 * (d * v) + v) \div (2 * v)
  BY <1>1, <1>2, QuotientAtMost, QuotientAtLeast
<1>4. (2 * (d * v) + v) \div (2 * v) \in Int
  BY <1>1, Quotient
<1> QED
  BY <1>3, <1>4 DEF Rounded

\* Rounding the opposite gives no less than the opposite of the rounded.
LEMMA RoundedOpposite ==
  ASSUME NEW a \in Int, NEW v \in Nat \ {0}
  PROVE  -Rounded(a, v) <= Rounded(-a, v)
<1> DEFINE q == (2 * a + v) \div (2 * v)
<1>1. 2 * v \in Nat \ {0} /\ 2 * a + v \in Int /\ 2 * (-a) + v \in Int
  OBVIOUS
<1>2. q \in Int /\ (2 * v) * q <= 2 * a + v /\ 2 * a + v < (2 * v) * q + 2 * v
  BY <1>1, Quotient
<1>3. (2 * v) * (-q) <= 2 * (-a) + v
  <2> HIDE DEF q
  <2>1. (2 * v) * (-q) = -((2 * v) * q) /\ (2 * v) * q \in Int
    BY <1>1, <1>2, Z3
  <2> QED
    BY <1>2, <2>1
<1> QED
  <2>1. -q \in Int
    BY <1>2
  <2>2. -q <= (2 * (-a) + v) \div (2 * v)
    <3> HIDE DEF q
    <3> QED
      BY <1>1, <1>3, <2>1, QuotientAtLeast
  <2> QED
    BY <2>2 DEF Rounded

-----------------------------------------------------------------------------
(* One axis, one tick *)

\* What the low-pass leaves of a distance is between nothing and all of it.
LEMMA PartOfDistance ==
  ASSUME NEW d \in Int, NEW t \in Nat, NEW dt \in Nat \ {0}
  PROVE  LET left == Rounded(d * t, t + dt)
         IN  left \in Int /\ Between(left, 0, d)
<1> DEFINE v == t + dt
           part == d * t
           whole == d * v
<1>1. v \in Nat \ {0} /\ part \in Int /\ whole \in Int /\ 0 \in Int /\ 0 * v = 0
  BY Z3
<1>2. Rounded(whole, v) = d /\ Rounded(0, v) = 0
  BY <1>1, RoundedExact
<1>3. (0 <= d => 0 <= part /\ part <= whole) /\ (d <= 0 => part <= 0 /\ whole <= part)
  BY Z3
<1> HIDE DEF v, part, whole
<1>4. CASE 0 <= d
  <2>1. 0 <= part /\ part <= whole
    BY <1>3, <1>4
  <2>2. Rounded(part, v) \in Int /\ Rounded(0, v) <= Rounded(part, v)
    BY <1>1, <2>1, RoundedMonotone
  <2>3. Rounded(part, v) <= Rounded(whole, v)
    BY <1>1, <2>1, RoundedMonotone
  <2> QED
    BY <1>2, <2>2, <2>3 DEF Between, v, part
<1>5. CASE d <= 0
  <2>1. part <= 0 /\ whole <= part
    BY <1>3, <1>5
  <2>2. Rounded(part, v) \in Int /\ Rounded(part, v) <= Rounded(0, v)
    BY <1>1, <2>1, RoundedMonotone
  <2>3. Rounded(whole, v) <= Rounded(part, v)
    BY <1>1, <2>1, RoundedMonotone
  <2> QED
    BY <1>2, <2>2, <2>3 DEF Between, v, part
<1> QED
  BY <1>4, <1>5

\* A tick takes an axis towards its command, whatever the two are.
LEMMA AxisStep ==
  ASSUME NEW c \in Int, NEW t \in Int, NEW dt \in TickTimes, tau \in Nat
  PROVE  LET next == Snapped(Filtered(c, t, dt), t)
         IN  next \in Int /\ Between(next, c, t)
<1> DEFINE left == Rounded((t - c) * tau, tau + dt)
<1>1. dt \in Nat \ {0} /\ NaN \notin {c, t} /\ Deadband \in Nat
  BY SmoothingAssumption
<1>2. left \in Int /\ Between(left, 0, t - c)
  <2>1. t - c \in Int
    OBVIOUS
  <2> QED
    BY <1>1, <2>1, PartOfDistance
<1>3. Filtered(c, t, dt) = t - left
  BY <1>1 DEF Filtered
<1> QED
  <2> HIDE DEF left
  <2>1. CASE t = 0 /\ t - left \in (1 - Deadband)..(Deadband - 1)
    BY <1>3, <2>1 DEF Snapped, Between
  <2>2. CASE ~(t = 0 /\ t - left \in (1 - Deadband)..(Deadband - 1))
    BY <1>2, <1>3, <2>2 DEF Snapped, Between
  <2> QED
    BY <2>1, <2>2

\* Under a zero command, a tick leaves no more of an axis than of a bound on it,
\* and nothing below the deadband.
LEMMA AxisDecay ==
  ASSUME NEW c \in Int, NEW bound \in Nat, -bound <= c, c <= bound,
         NEW dt \in TickTimes, tau \in Nat
  PROVE  LET next == Snapped(Filtered(c, 0, dt), 0)
             left == Rounded(bound * tau, tau + dt)
         IN  next = 0 \/ (left >= Deadband /\ -left <= next /\ next <= left)
<1> DEFINE v == tau + dt
           left == Rounded(bound * tau, v)
           part == Rounded((0 - c) * tau, v)
<1>1. dt \in Nat \ {0} /\ NaN \notin {c, 0} /\ Deadband \in Nat
  BY SmoothingAssumption
<1>2. /\ v \in Nat \ {0} /\ bound * tau \in Int /\ (0 - c) * tau \in Int
      /\ -(bound * tau) \in Int
      /\ -(bound * tau) <= (0 - c) * tau /\ (0 - c) * tau <= bound * tau
  <2>1. (bound + c) * tau >= 0 /\ (bound - c) * tau >= 0
    BY Z3
  <2> QED
    BY <1>1, <2>1, Z3
<1>3. left \in Int /\ part \in Int /\ part <= left
  <2> HIDE DEF v
  <2> QED
    BY <1>2, RoundedMonotone
<1>4. Rounded(-(bound * tau), v) \in Int /\ Rounded(-(bound * tau), v) <= part
  <2> HIDE DEF v
  <2> QED
    BY <1>2, RoundedMonotone
<1>5. -left <= part
  <2>1. -left <= Rounded(-(bound * tau), v)
    <3> HIDE DEF v
    <3> QED
      BY <1>2, RoundedOpposite
  <2> QED
    <3> HIDE DEF left, part, v
    <3> QED
      BY <1>3, <1>4, <2>1
<1>6. Filtered(c, 0, dt) = 0 - part
  BY <1>1 DEF Filtered
<1> QED
  <2> SUFFICES Snapped(0 - part, 0) = 0
               \/ (left >= Deadband /\ -left <= Snapped(0 - part, 0) /\ Snapped(0 - part, 0) <= left)
    BY <1>6
  <2> HIDE DEF left, part, v
  <2> QED
    BY <1>1, <1>3, <1>5 DEF Snapped

-----------------------------------------------------------------------------
(* The invariant *)

\* Off its feet the robot has no command and no velocity, so the limit may change.
RestInv == ~up => target = Zero /\ smoothed = Zero

IInv == TypeOK /\ RestInv

LEMMA Ranges ==
  ASSUME TypeOK
  PROVE  /\ limit \in Nat /\ tau \in Nat /\ held \in Nat
         /\ \A axis \in Axes : /\ target[axis] \in (-limit)..limit \cup {NaN}
                               /\ smoothed[axis] \in (-limit)..limit \cup {NaN}
BY SmoothingAssumption DEF TypeOK

\* Nothing moves and nothing is commanded, within any limit.
LEMMA ZeroInRange ==
  ASSUME NEW l \in Limits
  PROVE  Zero \in [Axes -> (-l)..l \cup {NaN}]
<1>1. l \in Nat
  BY SmoothingAssumption
<1> QED
  BY <1>1 DEF Zero

LEMMA TickInRange ==
  ASSUME TypeOK, NEW dt \in TickTimes, Tick(dt)
  PROVE  smoothed' \in [Axes -> (-limit)..limit \cup {NaN}]
<1> SUFFICES ASSUME NEW axis \in Axes
             PROVE  Snapped(Filtered(smoothed[axis], target[axis], dt), target[axis])
                      \in (-limit)..limit \cup {NaN}
  BY DEF Tick
<1>1. CASE NaN \in {smoothed[axis], target[axis]}
  <2>1. Filtered(smoothed[axis], target[axis], dt) = NaN
    BY <1>1 DEF Filtered
  <2>2. NaN \notin (1 - Deadband)..(Deadband - 1)
    BY SmoothingAssumption
  <2> QED
    BY <2>1, <2>2 DEF Snapped
<1>2. CASE NaN \notin {smoothed[axis], target[axis]}
  <2>1. /\ smoothed[axis] \in (-limit)..limit /\ target[axis] \in (-limit)..limit
        /\ limit \in Nat /\ tau \in Nat
    BY <1>2, Ranges
  <2> DEFINE next == Snapped(Filtered(smoothed[axis], target[axis], dt), target[axis])
  <2>2. next \in Int /\ Between(next, smoothed[axis], target[axis])
    BY <2>1, AxisStep
  <2> HIDE DEF next
  <2>3. next \in (-limit)..limit
    BY <2>1, <2>2 DEF Between
  <2> QED
    BY <2>3 DEF next
<1> QED
  BY <1>1, <1>2

THEOREM Invariance == Spec => []IInv
<1>1. Init => IInv
  <2> SUFFICES ASSUME Init PROVE IInv
    OBVIOUS
  <2>1. Zero \in [Axes -> (-limit)..limit \cup {NaN}]
    BY ZeroInRange DEF Init
  <2>2. 0 \in 0..SettleTicks
    BY SmoothingAssumption
  <2> QED
    BY <2>1, <2>2 DEF Init, IInv, TypeOK, RestInv
<1>2. IInv /\ [Next]_vars => IInv'
  <2> SUFFICES ASSUME IInv, [Next]_vars PROVE IInv'
    OBVIOUS
  <2>0. /\ TypeOK /\ RestInv /\ limit \in Nat /\ 0 \in 0..SettleTicks /\ SettleTicks \in Nat
        /\ held \in 0..SettleTicks /\ Zero \in [Axes -> (-limit)..limit \cup {NaN}]
    BY Ranges, ZeroInRange, SmoothingAssumption DEF IInv, TypeOK
  <2>1. ASSUME NEW velocity \in [Axes -> Commands], SetVelocity(velocity) PROVE IInv'
    <3>1. ASSUME NEW axis \in Axes
          PROVE  Clamp(velocity[axis]) \in (-limit)..limit \cup {NaN}
      <4>1. velocity[axis] \in Int \cup {NaN}
        BY SmoothingAssumption
      <4> HIDE DEF IInv
      <4> QED
        BY <2>0, <4>1 DEF Clamp
    <3>2. target' \in [Axes -> (-limit)..limit \cup {NaN}] /\ held' \in 0..SettleTicks
      BY <2>0, <2>1, <3>1 DEF SetVelocity, Aim
    <3> QED
      BY <2>0, <2>1, <3>2 DEF SetVelocity, IInv, TypeOK, RestInv, config
  <2>2. CASE Stop
    BY <2>0, <2>2 DEF Stop, Aim, IInv, TypeOK, RestInv, config
  <2>3. CASE StandUp
    BY <2>0, <2>3 DEF StandUp, Aim, IInv, TypeOK, RestInv, config
  <2>4. CASE Leave
    BY <2>0, <2>4 DEF Leave, Aim, IInv, TypeOK, RestInv, config
  <2>5. ASSUME NEW newLimit \in Limits, NEW newTau \in Taus, Provision(newLimit, newTau)
        PROVE  IInv'
    <3>1. Zero \in [Axes -> (-newLimit)..newLimit \cup {NaN}]
      BY ZeroInRange
    <3> QED
      BY <2>0, <2>5, <3>1 DEF Provision, IInv, TypeOK, RestInv
  <2>6. ASSUME NEW dt \in TickTimes, Tick(dt) PROVE IInv'
    <3>1. smoothed' \in [Axes -> (-limit)..limit \cup {NaN}]
      BY <2>0, <2>6, TickInRange
    <3>2. held' \in 0..SettleTicks
      BY <2>0, <2>6 DEF Tick
    <3> QED
      BY <2>0, <2>6, <3>1, <3>2 DEF Tick, IInv, TypeOK, RestInv, config
  <2>7. CASE UNCHANGED vars
    BY <2>0, <2>7 DEF vars, config, IInv, TypeOK, RestInv
  <2> QED
    BY <2>1, <2>2, <2>3, <2>4, <2>5, <2>6, <2>7 DEF Next
<1> QED
  BY <1>1, <1>2, PTL DEF Spec

\* The velocity and its command stay within the limit that holds now.
THEOREM TypeCorrect == Spec => []TypeOK
<1> QED
  BY Invariance, PTL DEF IInv

\* However late the tick, the velocity goes towards its command and never past it.
THEOREM NoOvershoot == Spec => NeverOvershoots
<1> DEFINE Towards ==
      \A axis \in Axes, dt \in TickTimes :
        Tick(dt) /\ NaN \notin {smoothed[axis], target[axis]}
          => Between(smoothed'[axis], smoothed[axis], target[axis])
<1>1. IInv => Towards
  <2> SUFFICES ASSUME IInv,
                      NEW axis \in Axes, NEW dt \in TickTimes, Tick(dt),
                      NaN \notin {smoothed[axis], target[axis]}
               PROVE  Between(smoothed'[axis], smoothed[axis], target[axis])
    OBVIOUS
  <2>1. smoothed[axis] \in Int /\ target[axis] \in Int /\ tau \in Nat
    BY Ranges DEF IInv
  <2>2. smoothed'[axis] = Snapped(Filtered(smoothed[axis], target[axis], dt), target[axis])
    BY DEF Tick
  <2> QED
    BY <2>1, <2>2, AxisStep
<1>2. Spec => [][Towards]_vars
  BY <1>1, Invariance, PTL
<1> QED
  BY <1>2 DEF NeverOvershoots

-----------------------------------------------------------------------------
(* Settling *)

\* An axis whose command has been zero for held ticks is within what is left.
Decays(decay) ==
  \A axis \in Axes :
    target[axis] = 0 =>
      smoothed[axis] = NaN \/ smoothed[axis] \in (-decay[held])..decay[held]

\* When the command changes, the velocity may be all that the limit allows.
LEMMA FreshDecay ==
  ASSUME NEW decay, Settles(decay), TypeOK, smoothed' = smoothed \/ smoothed' = Zero, held' = 0
  PROVE  Decays(decay)'
<1> SUFFICES ASSUME NEW axis \in Axes, smoothed'[axis] # NaN
             PROVE  smoothed'[axis] \in (-decay[0])..decay[0]
  BY DEF Decays
<1>1. limit <= decay[0] /\ decay[0] \in Nat /\ limit \in Nat
  BY SmoothingAssumption DEF Settles, TypeOK
<1>2. smoothed'[axis] \in (-limit)..limit
  <2>1. CASE smoothed' = smoothed
    BY <2>1, Ranges
  <2>2. CASE smoothed' = Zero
    BY <1>1, <2>2 DEF Zero
  <2> QED
    BY <2>1, <2>2
<1> QED
  BY <1>1, <1>2

\* When it does not, they keep their bound, or are zero.
LEMMA KeptDecay ==
  ASSUME NEW decay, Settles(decay), TypeOK, Decays(decay), target' = target,
         smoothed' = smoothed \/ smoothed' = Zero, held' = held
  PROVE  Decays(decay)'
<1>1. decay[held] \in Nat
  BY DEF Settles, TypeOK
<1> QED
  BY <1>1 DEF Decays, Zero

LEMMA AimDecay ==
  ASSUME NEW decay, Settles(decay), TypeOK, Decays(decay), NEW velocity, Aim(velocity),
         smoothed' = smoothed \/ smoothed' = Zero
  PROVE  Decays(decay)'
<1>1. (target' = target /\ held' = held) \/ held' = 0
  BY DEF Aim
<1> QED
  BY <1>1, FreshDecay, KeptDecay

\* A tick takes every axis to the next bound.
LEMMA TickDecay ==
  ASSUME NEW decay, Settles(decay), TypeOK, Decays(decay), NEW dt \in TickTimes, Tick(dt)
  PROVE  Decays(decay)'
<1> DEFINE bound == decay[held]
           left == Rounded(bound * tau, tau + dt)
<1>1. /\ held \in 0..SettleTicks /\ SettleTicks \in Nat /\ tau \in Nat /\ tau \in Taus
      /\ bound \in Nat /\ held' \in 0..SettleTicks /\ decay[held'] \in Nat
      /\ dt \in Nat \ {0} /\ Deadband \in Nat
  BY SmoothingAssumption, Ranges DEF Settles, TypeOK, Tick
<1>2. left \in Int /\ (left < Deadband \/ left <= decay[held'])
  <2>1. left \in Int /\ Between(left, 0, bound)
    BY <1>1, PartOfDistance
  <2>2. CASE held = SettleTicks
    <3>1. bound = 0 /\ held' = held
      BY <2>2 DEF Settles, Tick
    <3> QED
      BY <2>1, <3>1 DEF Between
  <2>3. CASE held # SettleTicks
    <3>1. held \in 0..(SettleTicks - 1) /\ held' = held + 1
      BY <1>1, <2>3 DEF Tick
    <3>2. left < Deadband \/ left <= decay[held + 1]
      BY <1>1, <3>1 DEF Settles
    <3> QED
      BY <2>1, <3>1, <3>2
  <2> QED
    BY <2>2, <2>3
<1> SUFFICES ASSUME NEW axis \in Axes, target[axis] = 0, smoothed'[axis] # NaN
             PROVE  smoothed'[axis] \in (-decay[held'])..decay[held']
  BY DEF Decays, Tick
<1> DEFINE next == Snapped(Filtered(smoothed[axis], 0, dt), 0)
<1>3. smoothed'[axis] = next
  BY DEF Tick
<1>4. smoothed[axis] # NaN
  <2>1. NaN \notin (1 - Deadband)..(Deadband - 1)
    BY SmoothingAssumption
  <2> QED
    BY <1>3, <2>1 DEF Filtered, Snapped
<1>5. smoothed[axis] \in Int /\ -bound <= smoothed[axis] /\ smoothed[axis] <= bound
  BY <1>1, <1>4 DEF Decays
<1>6. next = 0 \/ (left >= Deadband /\ -left <= next /\ next <= left)
  BY <1>1, <1>5, AxisDecay
<1>7. next \in Int
  BY <1>1, <1>5, AxisStep
<1> QED
  <2> HIDE DEF next, left
  <2> QED
    BY <1>1, <1>2, <1>3, <1>6, <1>7

\* A zero command settles to exactly zero, in the ticks that the slowest decay
\* from the largest limit takes to fall below the deadband.
THEOREM SettlesInTime ==
  ASSUME NEW CONSTANT decay, Settles(decay)
  PROVE  Spec => []ZeroSettles
<1>1. Init => Decays(decay)
  <2> SUFFICES ASSUME Init PROVE Decays(decay)
    OBVIOUS
  <2>1. decay[held] \in Nat
    BY SmoothingAssumption DEF Init, Settles
  <2> QED
    BY <2>1 DEF Init, Decays, Zero
<1>2. TypeOK /\ Decays(decay) /\ [Next]_vars => Decays(decay)'
  <2> SUFFICES ASSUME TypeOK, Decays(decay), [Next]_vars PROVE Decays(decay)'
    OBVIOUS
  <2>1. ASSUME NEW velocity \in [Axes -> Commands], SetVelocity(velocity)
        PROVE  Decays(decay)'
    BY <2>1, AimDecay DEF SetVelocity
  <2>2. CASE Stop
    BY <2>2, AimDecay DEF Stop
  <2>3. CASE StandUp
    BY <2>3, AimDecay DEF StandUp
  <2>4. CASE Leave
    BY <2>4, AimDecay DEF Leave
  <2>5. ASSUME NEW newLimit \in Limits, NEW newTau \in Taus, Provision(newLimit, newTau)
        PROVE  Decays(decay)'
    BY <2>5, KeptDecay DEF Provision
  <2>6. ASSUME NEW dt \in TickTimes, Tick(dt) PROVE Decays(decay)'
    BY <2>6, TickDecay
  <2>7. CASE UNCHANGED vars
    BY <2>7, KeptDecay DEF vars
  <2> QED
    BY <2>1, <2>2, <2>3, <2>4, <2>5, <2>6, <2>7 DEF Next
<1>3. TypeOK /\ Decays(decay) => ZeroSettles
  BY DEF Settles, Decays, ZeroSettles
<1> QED
  BY <1>1, <1>2, <1>3, TypeCorrect, PTL DEF Spec
=============================================================================
