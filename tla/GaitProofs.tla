------------------------------ MODULE GaitProofs ------------------------------
(***************************************************************************)
(* The walk cycle, for every length of the cycle and of a tick, and every  *)
(* duty and overlap: a frozen cycle has every foot down, a stop ends at    *)
(* the first moment that has, no foot drops or is snatched up, and the     *)
(* module implements GaitCycle.                                            *)
(***************************************************************************)
EXTENDS Gait, TLAPS, WellFoundedInduction

-----------------------------------------------------------------------------
(* Greatest elements, and phases *)

LEMMA LeastNatural ==
  ASSUME NEW T \in SUBSET Nat, T # {}
  PROVE  \E n \in T : \A m \in T : n <= m
<1>1. PICK n \in T : \A m \in T : ~(<<m, n>> \in OpToRel(<, Nat))
  BY NatLessThanWellFounded, WFMin
<1>2. \A m \in T : ~(m < n)
  BY <1>1 DEF OpToRel
<1> QED
  BY <1>2

LEMMA MaxOfBounded ==
  ASSUME NEW S \in SUBSET Int, S # {}, NEW n \in Int, \A x \in S : x <= n
  PROVE  Max(S) \in S /\ \A x \in S : x <= Max(S)
<1> DEFINE T == {n - x : x \in S}
<1>1. T \in SUBSET Nat /\ T # {}
  <2>1. \A x \in S : n - x \in Nat
    OBVIOUS
  <2>2. PICK x \in S : TRUE
    OBVIOUS
  <2> QED
    BY <2>1, <2>2
<1> HIDE DEF T
<1>2. PICK t \in T : \A m \in T : t <= m
  BY <1>1, LeastNatural
<1>3. PICK x \in S : t = n - x
  BY DEF T
<1>4. \A y \in S : n - y \in T
  BY DEF T
<1>5. \A y \in S : x >= y
  BY <1>2, <1>3, <1>4
<1> QED
  BY <1>5 DEF Max

LEMMA MaxFacts ==
  ASSUME NEW a \in Int, NEW b \in Int
  PROVE  Max({a, b}) = IF a >= b THEN a ELSE b
<1>1. \E m \in {a, b} : \A x \in {a, b} : m >= x
  OBVIOUS
<1> QED
  BY <1>1 DEF Max

LEMMA MinFacts ==
  ASSUME NEW a \in Int, NEW b \in Int
  PROVE  Min({a, b}) = IF a <= b THEN a ELSE b
<1>1. \E m \in {a, b} : \A x \in {a, b} : m <= x
  OBVIOUS
<1> QED
  BY <1>1 DEF Min

LEMMA Remainder ==
  ASSUME NEW a \in Int
  PROVE  a % Cycle \in Phases /\ a = Cycle * (a \div Cycle) + (a % Cycle) /\ a \div Cycle \in Int
BY CycleAssumption DEF Phases

\* The remainder is the only one of its kind.
LEMMA RemainderUnique ==
  ASSUME NEW r \in Phases, NEW q \in Int
  PROVE  (Cycle * q + r) % Cycle = r
BY CycleAssumption DEF Phases

LEMMA RemainderAdds ==
  ASSUME NEW a \in Int, NEW b \in Int
  PROVE  ((a % Cycle) + b) % Cycle = (a + b) % Cycle
<1> DEFINE r == a % Cycle
           q == a \div Cycle
           s == (r + b) % Cycle
           t == (r + b) \div Cycle
<1>1. r \in Phases /\ q \in Int /\ a = Cycle * q + r /\ Cycle \in Nat \ {0} /\ r \in Int
  BY Remainder, CycleAssumption DEF Phases
<1> HIDE DEF r, q
<1>2. s \in Phases /\ t \in Int /\ r + b = Cycle * t + s /\ s \in Int
  BY <1>1, Remainder DEF Phases
<1> HIDE DEF s, t
<1>3. a + b = Cycle * (q + t) + s
  BY <1>1, <1>2
<1>4. (Cycle * (q + t) + s) % Cycle = s
  BY <1>1, <1>2, RemainderUnique
<1> QED
  BY <1>3, <1>4 DEF s, r

\* A phase moves on by a cycle at most: it wraps once, or not.
LEMMA PhaseMoves ==
  ASSUME NEW r \in Phases, NEW k \in 0..Cycle
  PROVE  (r + k) % Cycle = IF r + k < Cycle THEN r + k ELSE r + k - Cycle
<1>1. CASE r + k < Cycle
  <2>1. r + k \in Phases /\ r + k = Cycle * 0 + (r + k) /\ 0 \in Int
    BY <1>1, CycleAssumption DEF Phases
  <2> QED
    BY <1>1, <2>1, RemainderUnique
<1>2. CASE ~(r + k < Cycle)
  <2>1. r + k - Cycle \in Phases /\ r + k = Cycle * 1 + (r + k - Cycle) /\ 1 \in Int
    BY <1>2, CycleAssumption DEF Phases
  <2> QED
    BY <1>2, <2>1, RemainderUnique
<1> QED
  BY <1>1, <1>2

-----------------------------------------------------------------------------
(* The phase of a leg *)

LEMMA SetupFacts ==
  ASSUME NEW c \in Setups, NEW g \in Gaits
  PROVE  /\ Cycle \in Nat \ {0} /\ c.duty[g] \in 1..(Cycle - 1) /\ c.overlap[g] \in 0..Cycle
         /\ SwingLength(c, g) \in 1..(Cycle - 1) /\ c.duty[g] + SwingLength(c, g) = Cycle
<1>1. /\ Cycle \in Nat \ {0} /\ c.duty[g] \in 1..(Cycle - 1) /\ c.overlap[g] \in 0..Cycle
  BY CycleAssumption, ParamsAssumption
<1> QED
  BY <1>1 DEF SwingLength

Offset(c, g, leg) == (GroupOf[g][leg] * (Cycle - c.overlap[g])) \div NumGroups[g]

LEMMA OffsetType ==
  ASSUME NEW c \in Setups, NEW g \in Gaits, NEW leg \in Legs
  PROVE  Offset(c, g, leg) \in Int
<1>1. GroupOf[g][leg] \in Int /\ NumGroups[g] \in Nat \ {0}
  BY DEF Gaits, Legs, GroupOf, NumGroups
<1>2. Cycle - c.overlap[g] \in Int
  BY SetupFacts
<1> QED
  BY <1>1, <1>2 DEF Offset

LEMMA LegPhaseFacts ==
  ASSUME NEW c \in Setups, NEW g \in Gaits, NEW leg \in Legs, NEW p \in Int
  PROVE  /\ LegPhase(c, g, leg, p) \in Phases
         /\ \A n \in Int : LegPhase(c, g, leg, (p % Cycle) + n) = LegPhase(c, g, leg, p + n)
         /\ \A k \in 0..Cycle :
              LegPhase(c, g, leg, p + k) =
                IF LegPhase(c, g, leg, p) + k < Cycle
                THEN LegPhase(c, g, leg, p) + k
                ELSE LegPhase(c, g, leg, p) + k - Cycle
<1> DEFINE o == Offset(c, g, leg)
<1>1. o \in Int
  BY OffsetType
<1>2. \A q : LegPhase(c, g, leg, q) = (q + o) % Cycle
  BY DEF LegPhase, Offset
<1> HIDE DEF o
<1>3. LegPhase(c, g, leg, p) \in Phases
  BY <1>1, <1>2, Remainder
<1>4. ASSUME NEW n \in Int
      PROVE  LegPhase(c, g, leg, (p % Cycle) + n) = LegPhase(c, g, leg, p + n)
  <2> DEFINE r == p % Cycle
  <2>1. r \in Int /\ n + o \in Int
    BY <1>1, Remainder DEF Phases
  <2>2. (r + (n + o)) % Cycle = (p + (n + o)) % Cycle
    BY <2>1, RemainderAdds
  <2> HIDE DEF r
  <2>3. r + (n + o) = (r + n) + o /\ p + (n + o) = (p + n) + o
    BY <1>1, <2>1
  <2>4. LegPhase(c, g, leg, r + n) = LegPhase(c, g, leg, p + n)
    BY <1>2, <2>2, <2>3
  <2> QED
    BY <2>4 DEF r
<1>5. ASSUME NEW k \in 0..Cycle
      PROVE  LegPhase(c, g, leg, p + k) =
               IF LegPhase(c, g, leg, p) + k < Cycle
               THEN LegPhase(c, g, leg, p) + k
               ELSE LegPhase(c, g, leg, p) + k - Cycle
  <2>1. p + o \in Int /\ (p + k) + o = (p + o) + k /\ k \in Int
    BY <1>1, CycleAssumption
  <2>2. ((p + o) + k) % Cycle = (((p + o) % Cycle) + k) % Cycle
    BY <2>1, RemainderAdds
  <2>3. LegPhase(c, g, leg, p + k) = (LegPhase(c, g, leg, p) + k) % Cycle
    BY <1>2, <2>1, <2>2
  <2> QED
    BY <1>3, <2>3, PhaseMoves
<1> QED
  BY <1>3, <1>4, <1>5

\* What holds of the feet at a phase holds a whole number of cycles on.
LEMMA FeetRepeat ==
  ASSUME NEW c \in Setups, NEW g \in Gaits, NEW p \in Int, NEW n \in Int
  PROVE  Grounded(c, g, (p % Cycle) + n) <=> Grounded(c, g, p + n)
BY LegPhaseFacts DEF Grounded, Airborne

LEMMA AirborneFacts ==
  ASSUME NEW c \in Setups, NEW g \in Gaits, NEW leg \in Legs, NEW p \in Int,
         Airborne(c, g, leg, p)
  PROVE  LegPhase(c, g, leg, p) > c.duty[g]
<1>1. LegPhase(c, g, leg, p) \in Int /\ c.duty[g] \in Int /\ SwingLength(c, g) \in Nat
  BY LegPhaseFacts, SetupFacts DEF Phases
<1> QED
  BY <1>1 DEF Airborne

-----------------------------------------------------------------------------
(* The way to rest *)

\* Some leg is in its swing at every phase from p on, for the next t units.
SwingsFor(c, g, p, t) ==
  \A on \in 0..(t - 1) : \E leg \in Legs : LegPhase(c, g, leg, p + on) > c.duty[g]

LEMMA LandingFacts ==
  ASSUME NEW c \in Setups, NEW g \in Gaits, NEW p \in Int
  PROVE  /\ Landing(c, g, p) \in 0..Cycle
         /\ Landing(c, g, p) = 0 <=> Grounded(c, g, p)
         /\ SwingsFor(c, g, p, Landing(c, g, p))
<1> DEFINE InAir == {l \in Legs : Airborne(c, g, l, p)}
           Waits == {0} \cup {Cycle - LegPhase(c, g, leg, p) : leg \in InAir}
           w == Landing(c, g, p)
<1>1. Cycle \in Nat \ {0} /\ \A leg \in InAir : LegPhase(c, g, leg, p) \in 0..(Cycle - 1)
  BY LegPhaseFacts, CycleAssumption DEF Phases
<1>2. Waits \in SUBSET Int /\ Waits # {} /\ \A x \in Waits : x <= Cycle
  BY <1>1
<1>3. w = Max(Waits)
  BY DEF Landing
<1>4. w \in Waits /\ \A x \in Waits : x <= w
  <2> HIDE DEF Waits, w
  <2> QED
    BY <1>1, <1>2, <1>3, MaxOfBounded
<1> HIDE DEF w
<1>5. w \in 0..Cycle
  <2>1. 0 \in Waits
    OBVIOUS
  <2> QED
    BY <1>1, <1>2, <1>4, <2>1
<1>6. w = 0 <=> Grounded(c, g, p)
  <2>1. CASE InAir = {}
    <3>1. w = 0
      BY <1>4, <2>1
    <3> QED
      BY <2>1, <3>1 DEF Grounded
  <2>2. CASE InAir # {}
    <3>1. PICK leg \in InAir : TRUE
      BY <2>2
    <3>2. Cycle - LegPhase(c, g, leg, p) \in Waits /\ Cycle - LegPhase(c, g, leg, p) >= 1
      BY <1>1, <3>1
    <3> DEFINE x == Cycle - LegPhase(c, g, leg, p)
    <3>3. x <= w /\ x \in Int /\ x >= 1
      BY <1>1, <1>4, <3>1, <3>2
    <3> HIDE DEF x
    <3>5. w # 0
      BY <1>5, <3>3
    <3>4. ~Grounded(c, g, p)
      BY <3>1 DEF Grounded
    <3> QED
      BY <3>4, <3>5
  <2> QED
    BY <2>1, <2>2
<1>7. SwingsFor(c, g, p, w)
  <2> SUFFICES ASSUME NEW on \in 0..(w - 1)
               PROVE  \E leg \in Legs : LegPhase(c, g, leg, p + on) > c.duty[g]
    BY DEF SwingsFor
  <2>1. w # 0 /\ w \in 1..Cycle /\ on \in 0..Cycle /\ on < w
    BY <1>1, <1>5
  <2>2. PICK leg \in InAir : w = Cycle - LegPhase(c, g, leg, p)
    BY <1>4, <2>1
  <2>3. LegPhase(c, g, leg, p + on) = LegPhase(c, g, leg, p) + on
    <3>1. LegPhase(c, g, leg, p) + on < Cycle
      BY <1>1, <2>1, <2>2
    <3> QED
      BY <2>1, <3>1, LegPhaseFacts
  <2>4. LegPhase(c, g, leg, p) > c.duty[g]
    BY <2>2, AirborneFacts
  <2>5. c.duty[g] \in Int
    BY SetupFacts
  <2> QED
    BY <1>1, <2>1, <2>3, <2>4, <2>5
<1> QED
  BY <1>5, <1>6, <1>7 DEF w

LEMMA SwingsChain ==
  ASSUME NEW c \in Setups, NEW g \in Gaits, NEW p \in Int, NEW t \in Nat, NEW u \in Nat,
         SwingsFor(c, g, p, t), SwingsFor(c, g, p + t, u)
  PROVE  SwingsFor(c, g, p, t + u)
<1> SUFFICES ASSUME NEW on \in 0..(t + u - 1)
             PROVE  \E leg \in Legs : LegPhase(c, g, leg, p + on) > c.duty[g]
  BY DEF SwingsFor
<1>1. CASE on < t
  <2>1. on \in 0..(t - 1)
    BY <1>1
  <2> QED
    BY <2>1 DEF SwingsFor
<1>2. CASE ~(on < t)
  <2>1. on - t \in 0..(u - 1) /\ (p + t) + (on - t) = p + on
    BY <1>2
  <2>2. \E leg \in Legs : LegPhase(c, g, leg, (p + t) + (on - t)) > c.duty[g]
    BY <2>1 DEF SwingsFor
  <2> QED
    BY <2>1, <2>2
<1> QED
  BY <1>1, <1>2

\* One more round lands the swings that began in the ones before.
LEMMA RoundFacts ==
  ASSUME NEW c \in Setups, NEW g \in Gaits, NEW p \in Int, NEW t \in Nat, SwingsFor(c, g, p, t)
  PROVE  LET u == t + Landing(c, g, p + t)
         IN  u \in Nat /\ u <= t + Cycle /\ SwingsFor(c, g, p, u)
<1>1. /\ p + t \in Int /\ Landing(c, g, p + t) \in 0..Cycle /\ Cycle \in Nat
      /\ SwingsFor(c, g, p + t, Landing(c, g, p + t))
  BY LandingFacts, CycleAssumption
<1>2. Landing(c, g, p + t) \in Nat
  BY <1>1
<1> QED
  BY <1>1, <1>2, SwingsChain

\* What rest_distance() returns: -1, or the way to the first moment at which no
\* foot is in the air, with some leg in its swing at every moment before.
LEMMA RestFacts ==
  ASSUME NEW c \in Setups, NEW g \in Gaits, NEW p \in Phases
  PROVE  LET d == RestDistance[c][g][p]
         IN  \/ d = -1
             \/ d \in 0..RunMax /\ Grounded(c, g, p + d) /\ SwingsFor(c, g, p, d)
<1> DEFINE Step(f) == [round \in 0..6 |->
             IF round = 0 THEN 0 ELSE f[round - 1] + Landing(c, g, p + f[round - 1])]
           Travelled == CHOOSE f : f = Step(f)
           L(t) == Landing(c, g, p + t)
<1>1. Travelled = Step(Travelled)
  <2>1. \E h : h = Step(h)
    <3> DEFINE v1 == 0 + L(0)
               v2 == v1 + L(v1)
               v3 == v2 + L(v2)
               v4 == v3 + L(v3)
               v5 == v4 + L(v4)
               v6 == v5 + L(v5)
               h == [round \in 0..6 |-> CASE round = 0 -> 0 [] round = 1 -> v1
                       [] round = 2 -> v2 [] round = 3 -> v3 [] round = 4 -> v4
                       [] round = 5 -> v5 [] round = 6 -> v6]
    <3>1. ASSUME NEW round \in 0..6
          PROVE  h[round] = IF round = 0 THEN 0 ELSE h[round - 1] + L(h[round - 1])
      <4>1. round \in {0, 1, 2, 3, 4, 5, 6}
        OBVIOUS
      <4>2. v1 = 0 + L(0) /\ v2 = v1 + L(v1) /\ v3 = v2 + L(v2) /\ v4 = v3 + L(v3)
            /\ v5 = v4 + L(v4) /\ v6 = v5 + L(v5)
        OBVIOUS
      <4> HIDE DEF v1, v2, v3, v4, v5, v6, L
      <4>3. h[0] = 0 /\ h[1] = v1 /\ h[2] = v2 /\ h[3] = v3 /\ h[4] = v4 /\ h[5] = v5 /\ h[6] = v6
        OBVIOUS
      <4> HIDE DEF h
      <4> QED
        BY <4>1, <4>2, <4>3
    <3>2. h = Step(h)
      BY <3>1
    <3> QED
      BY <3>2
  <2> QED
    BY <2>1
<1>2. RestDistance[c][g][p] = IF Grounded(c, g, p + Travelled[6]) THEN Travelled[6] ELSE -1
  BY DEF RestDistance
<1> DEFINE Reached(r) == /\ Travelled[r] \in Nat /\ Travelled[r] <= r * Cycle
                         /\ SwingsFor(c, g, p, Travelled[r])
<1>3. p \in Int /\ Cycle \in Nat
  BY CycleAssumption DEF Phases
<1>4. Travelled[0] = 0 /\ \A r \in 1..6 : Travelled[r] = Travelled[r - 1] + L(Travelled[r - 1])
  <2> HIDE DEF Travelled, L
  <2>1. DOMAIN Travelled = 0..6
    BY <1>1
  <2> QED
    BY <1>1 DEF L
<1> HIDE DEF Travelled
<1>5. Reached(0)
  <2>1. SwingsFor(c, g, p, 0)
    BY DEF SwingsFor
  <2> QED
    BY <1>3, <1>4, <2>1
<1>6. ASSUME NEW r \in 1..6, Reached(r - 1)
      PROVE  Reached(r)
  <2> DEFINE t == Travelled[r - 1]
  <2>1. t \in Nat /\ t <= (r - 1) * Cycle /\ SwingsFor(c, g, p, t) /\ Travelled[r] = t + L(t)
    BY <1>4, <1>6
  <2> HIDE DEF t
  <2>2. t + L(t) \in Nat /\ t + L(t) <= t + Cycle /\ SwingsFor(c, g, p, t + L(t))
    BY <1>3, <2>1, RoundFacts
  <2>3. (r - 1) * Cycle + Cycle = r * Cycle /\ (r - 1) * Cycle \in Int
    BY <1>3
  <2>4. t + L(t) <= r * Cycle
    BY <1>3, <2>1, <2>2, <2>3
  <2> QED
    BY <2>1, <2>2, <2>4
<1>7. Reached(6)
  <2>1. \A r \in 1..6 : Reached(r - 1) => Reached(r)
    BY <1>6
  <2> HIDE DEF Reached
  <2>2. Reached(1)
    BY <1>5, <2>1
  <2>3. Reached(2)
    BY <2>1, <2>2
  <2>4. Reached(3)
    BY <2>1, <2>3
  <2>5. Reached(4)
    BY <2>1, <2>4
  <2>6. Reached(5)
    BY <2>1, <2>5
  <2> QED
    BY <2>1, <2>6
<1>8. Travelled[6] \in 0..RunMax
  BY <1>3, <1>7 DEF RunMax
<1> QED
  BY <1>2, <1>7, <1>8

LEMMA SettleFacts ==
  ASSUME NEW c \in Setups, NEW g \in Gaits, NEW p \in Phases
  PROVE  SettlePhase(c, g, p) \in Phases /\ (CanRest[c][g] => Grounded(c, g, SettlePhase(c, g, p)))
<1> DEFINE d == RestDistance[c][g][p]
<1>1. \/ d = -1
      \/ d \in 0..RunMax /\ Grounded(c, g, p + d)
  BY RestFacts
<1>2. CanRest[c][g] => d # -1
  BY DEF CanRest
<1>3. SettlePhase(c, g, p) = IF d > 0 THEN (p + d) % Cycle ELSE p
  BY DEF SettlePhase
<1> HIDE DEF d
<1>4. p \in Int /\ RunMax \in Nat
  BY CycleAssumption DEF Phases, RunMax
<1>5. CASE d > 0
  <2>1. d \in Int /\ p + d \in Int /\ Grounded(c, g, p + d)
    BY <1>1, <1>4, <1>5
  <2>2. (p + d) % Cycle \in Phases
    BY <2>1, Remainder
  <2>3. Grounded(c, g, ((p + d) % Cycle) + 0)
    <3>1. (p + d) + 0 = p + d
      BY <2>1
    <3> QED
      BY <2>1, <3>1, FeetRepeat
  <2>4. ((p + d) % Cycle) + 0 = (p + d) % Cycle
    BY <2>2, CycleAssumption DEF Phases
  <2> QED
    BY <1>3, <1>5, <2>2, <2>3, <2>4
<1>6. CASE ~(d > 0)
  <2>1. d = -1 \/ d = 0
    BY <1>1, <1>4, <1>6
  <2>2. d = 0 => Grounded(c, g, p)
    <3>1. p + 0 = p
      BY <1>4
    <3> QED
      BY <1>1, <3>1
  <2> QED
    BY <1>2, <1>3, <1>6, <2>1, <2>2
<1> QED
  BY <1>5, <1>6

-----------------------------------------------------------------------------
(* The invariant *)

\* While a stop is under way, what it still has to run ends with every foot
\* down, and some leg is in its swing until then.
StopInv ==
  driven /\ stopping =>
    /\ Grounded(setup, gait, phase + stopLeft)
    /\ SwingsFor(setup, gait, phase, stopLeft)

IInv ==
  /\ TypeOK
  /\ stopping => walking
  /\ FrozenIsGrounded
  /\ StopInv

\* What a stop has to run, measured now or left of it, ends with every foot down
\* if the gait comes to rest at all.
LEMMA StopDistanceFacts ==
  ASSUME IInv, driven
  PROVE  /\ StopDistance \in 0..RunMax
         /\ CanRest[setup][gait] \/ stopping \/ StopDistance > 0 =>
              /\ Grounded(setup, gait, phase + StopDistance)
              /\ SwingsFor(setup, gait, phase, StopDistance)
<1>1. /\ setup \in Setups /\ gait \in Gaits /\ phase \in Phases /\ stopLeft \in 0..RunMax
      /\ stopping \in BOOLEAN
  BY DEF IInv, TypeOK
<1>2. CASE stopping
  BY <1>1, <1>2 DEF StopDistance, IInv, StopInv
<1>3. CASE ~stopping
  <2> DEFINE d == RestDistance[setup][gait][phase]
  <2>1. \/ d = -1
        \/ d \in 0..RunMax /\ Grounded(setup, gait, phase + d) /\ SwingsFor(setup, gait, phase, d)
    BY <1>1, RestFacts
  <2>2. CanRest[setup][gait] => d # -1
    BY <1>1 DEF CanRest
  <2>3. StopDistance = Max({d, 0})
    BY <1>3 DEF StopDistance
  <2> HIDE DEF d
  <2>4. RunMax \in Nat /\ d \in Int
    BY <2>1, CycleAssumption DEF RunMax
  <2>5. StopDistance = IF d >= 0 THEN d ELSE 0
    BY <2>3, <2>4, MaxFacts
  <2>6. CASE d = -1
    BY <1>3, <2>2, <2>4, <2>5, <2>6
  <2>7. CASE d # -1
    BY <2>1, <2>4, <2>5, <2>7
  <2> QED
    BY <2>6, <2>7
<1> QED
  BY <1>1, <1>2, <1>3

LEMMA InitIInv == Init => IInv
<1> SUFFICES ASSUME Init PROVE IInv
  OBVIOUS
<1>1. 0 \in Phases /\ "TRIPOD" \in Gaits /\ 0 \in 0..RunMax
  BY CycleAssumption DEF Phases, Gaits, RunMax
<1>2. phase \in Phases
  BY <1>1, SettleFacts DEF Init
<1> QED
  BY <1>1, <1>2 DEF Init, IInv, TypeOK, FrozenIsGrounded, StopInv

LEMMA SetGaitStep ==
  ASSUME IInv, NEW g \in Gaits, SetGait(g)
  PROVE  IInv'
<1>1. /\ setup \in Setups /\ phase \in Phases /\ walking \in BOOLEAN /\ (stopping => walking)
      /\ UNCHANGED <<setup, driven, moving, walking, stopping, stopLeft>>
  BY DEF IInv, TypeOK, SetGait
<1>2. CASE walking
  <2>1. UNCHANGED <<gait, phase>> /\ pendingGait' = g /\ hasPending' = TRUE
    BY <1>2 DEF SetGait
  <2>2. StopInv' /\ FrozenIsGrounded'
    BY <1>1, <1>2, <2>1 DEF IInv, StopInv, FrozenIsGrounded, SwingsFor
  <2> QED
    BY <1>1, <2>1, <2>2 DEF IInv, TypeOK
<1>3. CASE ~walking
  <2>1. gait' = g /\ hasPending' = FALSE /\ phase' = SettlePhase(setup, g, phase) /\ UNCHANGED pendingGait
    BY <1>3 DEF SetGait
  <2>2. phase' \in Phases /\ (CanRest[setup][g] => Grounded(setup, g, phase'))
    BY <1>1, <2>1, SettleFacts
  <2>3. StopInv' /\ FrozenIsGrounded'
    BY <1>1, <1>3, <2>1, <2>2 DEF StopInv, FrozenIsGrounded
  <2> QED
    BY <1>1, <2>1, <2>2, <2>3 DEF IInv, TypeOK
<1> QED
  BY <1>1, <1>2, <1>3

LEMMA ResetStep ==
  ASSUME IInv, Reset
  PROVE  IInv'
<1>1. /\ setup \in Setups /\ Requested \in Gaits /\ 0 \in Phases
  BY CycleAssumption DEF IInv, TypeOK, Requested, Phases
<1>2. /\ gait' = Requested /\ phase' = SettlePhase(setup, Requested, 0) /\ driven' \in BOOLEAN
      /\ walking' = FALSE /\ stopping' = FALSE /\ hasPending' = FALSE /\ stopLeft' = 0
      /\ moving' = FALSE /\ UNCHANGED <<setup, pendingGait>>
  BY DEF Reset, ResetTo
<1>3. phase' \in Phases /\ (CanRest[setup][gait'] => Grounded(setup, gait', phase'))
  BY <1>1, <1>2, SettleFacts
<1>4. FrozenIsGrounded' /\ StopInv'
  BY <1>2, <1>3 DEF FrozenIsGrounded, StopInv
<1>5. 0 \in 0..RunMax
  BY CycleAssumption DEF RunMax
<1> QED
  BY <1>1, <1>2, <1>3, <1>4, <1>5 DEF IInv, TypeOK

LEMMA AdvanceStep ==
  ASSUME IInv, NEW step \in Steps, Advance(step), UNCHANGED <<setup, driven, moving>>
  PROVE  IInv'
<1>1. phase' \in Phases
  <2>1. phase \in Int /\ step \in Int
    BY CycleAssumption DEF IInv, TypeOK, Phases
  <2> QED
    BY <2>1, Remainder DEF Advance
<1> QED
  BY <1>1 DEF Advance, IInv, TypeOK, FrozenIsGrounded, StopInv

\* Part of the way is run: the rest of it ends where the whole of it did.
LEMMA KeepStoppingStep ==
  ASSUME IInv, driven, NEW step \in Steps, KeepStopping(step), UNCHANGED <<setup, driven, moving>>
  PROVE  IInv'
<1> DEFINE d == StopDistance
           p == phase + step
<1>1. /\ walking /\ step < d /\ stopping' = TRUE /\ stopLeft' = d - step /\ phase' = p % Cycle
      /\ UNCHANGED <<gait, walking, pendingGait, hasPending>>
  BY DEF KeepStopping
<1>2. d \in 0..RunMax /\ step \in Nat \ {0} /\ phase \in Int /\ RunMax \in Nat
  BY StopDistanceFacts, CycleAssumption DEF IInv, TypeOK, Phases, RunMax
<1>3. setup \in Setups /\ gait \in Gaits
  BY DEF IInv, TypeOK
<1>4. Grounded(setup, gait, phase + d) /\ SwingsFor(setup, gait, phase, d)
  <2>1. d > 0
    BY <1>1, <1>2
  <2> QED
    BY <2>1, StopDistanceFacts
<1> HIDE DEF d
<1>5. p \in Int /\ phase' \in Phases
  BY <1>1, <1>2, Remainder
<1>6. Grounded(setup, gait, phase' + stopLeft')
  <2>1. d - step \in Int /\ p + (d - step) = phase + d
    BY <1>2
  <2> HIDE DEF p
  <2> QED
    BY <1>1, <1>3, <1>4, <1>5, <2>1, FeetRepeat
<1>7. SwingsFor(setup, gait, phase', stopLeft')
  <2> SUFFICES ASSUME NEW on \in 0..(stopLeft' - 1)
               PROVE  \E leg \in Legs : LegPhase(setup, gait, leg, phase' + on) > setup.duty[gait]
    BY DEF SwingsFor
  <2>1. on \in Int /\ step + on \in 0..(d - 1) /\ p + on = phase + (step + on)
    BY <1>1, <1>2
  <2>2. PICK leg \in Legs : LegPhase(setup, gait, leg, phase + (step + on)) > setup.duty[gait]
    BY <1>4, <2>1 DEF SwingsFor
  <2> HIDE DEF p
  <2>3. LegPhase(setup, gait, leg, phase' + on) = LegPhase(setup, gait, leg, p + on)
    BY <1>1, <1>3, <1>5, <2>1, LegPhaseFacts
  <2> QED
    BY <2>1, <2>2, <2>3
<1>8. stopLeft' \in 0..RunMax
  BY <1>1, <1>2
<1>9. StopInv' /\ FrozenIsGrounded'
  BY <1>1, <1>6, <1>7 DEF StopInv, FrozenIsGrounded, SwingsFor
<1> QED
  BY <1>1, <1>3, <1>5, <1>8, <1>9 DEF IInv, TypeOK

\* The whole way is run: the cycle freezes where every foot is down, if there is
\* such a moment.
LEMMA FreezeStep ==
  ASSUME IInv, driven, NEW step \in Steps, Freeze(step), UNCHANGED <<setup, driven, moving>>
  PROVE  IInv'
<1> DEFINE d == StopDistance
           rested == (phase + d) % Cycle
<1>1. /\ walking' = FALSE /\ stopping' = FALSE /\ stopLeft' = d /\ hasPending' = FALSE
      /\ hasPending => gait' = pendingGait /\ phase' = SettlePhase(setup, pendingGait, rested)
      /\ ~hasPending => gait' = gait /\ phase' = rested
      /\ UNCHANGED pendingGait
  BY DEF Freeze
<1>2. d \in 0..RunMax /\ phase \in Int /\ RunMax \in Nat
  BY StopDistanceFacts, CycleAssumption DEF IInv, TypeOK, Phases, RunMax
<1>3. setup \in Setups /\ gait \in Gaits /\ pendingGait \in Gaits /\ hasPending \in BOOLEAN
  BY DEF IInv, TypeOK
<1>4. CanRest[setup][gait] => Grounded(setup, gait, phase + d)
  BY StopDistanceFacts
<1> HIDE DEF d
<1>5. phase + d \in Int /\ rested \in Phases
  BY <1>2, Remainder
<1>6. CanRest[setup][gait] => Grounded(setup, gait, rested)
  <2>1. (phase + d) + 0 = phase + d /\ rested + 0 = rested
    BY <1>5, CycleAssumption DEF Phases
  <2>2. Grounded(setup, gait, rested + 0) <=> Grounded(setup, gait, (phase + d) + 0)
    BY <1>3, <1>5, FeetRepeat
  <2> QED
    BY <1>4, <2>1, <2>2
<1> HIDE DEF rested
<1>7. phase' \in Phases /\ gait' \in Gaits /\ (CanRest[setup][gait'] => Grounded(setup, gait', phase'))
  BY <1>1, <1>3, <1>5, <1>6, SettleFacts
<1>8. FrozenIsGrounded' /\ StopInv'
  BY <1>1, <1>7 DEF FrozenIsGrounded, StopInv
<1> QED
  BY <1>1, <1>2, <1>3, <1>7, <1>8 DEF IInv, TypeOK

LEMMA TickStep ==
  ASSUME IInv, Tick
  PROVE  IInv'
<1>1. PICK step \in Steps : Update(moving, step)
  BY DEF Tick
<1>2. driven /\ UNCHANGED <<setup, driven, moving>>
  BY DEF Tick
<1>3. CASE StayFrozen
  BY <1>3 DEF StayFrozen, vars, cycleVars, IInv, TypeOK, FrozenIsGrounded, StopInv, SwingsFor
<1> QED
  BY <1>1, <1>2, <1>3, AdvanceStep, KeepStoppingStep, FreezeStep DEF Update

LEMMA StepIInv == IInv /\ [Next]_vars => IInv'
<1>1. ASSUME IInv, UNCHANGED vars PROVE IInv'
  BY <1>1 DEF vars, cycleVars, IInv, TypeOK, FrozenIsGrounded, StopInv, SwingsFor
<1>2. ASSUME IInv, Abandon PROVE IInv'
  BY <1>2 DEF Abandon, cycleVars, IInv, TypeOK, FrozenIsGrounded, StopInv
<1>3. ASSUME IInv, ProvisionGaits PROVE IInv'
  BY <1>3 DEF ProvisionGaits, cycleVars, IInv, TypeOK, FrozenIsGrounded, StopInv
<1>4. ASSUME IInv, Command PROVE IInv'
  BY <1>4 DEF Command, cycleVars, IInv, TypeOK, FrozenIsGrounded, StopInv, SwingsFor
<1> QED
  BY <1>1, <1>2, <1>3, <1>4, ResetStep, TickStep, SetGaitStep DEF Next

-----------------------------------------------------------------------------
(* The lift of a foot *)

\* The lift of a foot while the cycle runs.
Tent(c, g, leg, p) ==
  LET swing == LegPhase(c, g, leg, p) - c.duty[g]
  IN  Max({0, Min({swing, SwingLength(c, g) - swing})})

LEMMA TentShape ==
  ASSUME NEW c \in Setups, NEW g \in Gaits, NEW leg \in Legs, NEW p \in Int
  PROVE  LET lp == LegPhase(c, g, leg, p)
             df == c.duty[g]
         IN  Tent(c, g, leg, p) =
               IF lp <= df THEN 0 ELSE IF lp - df <= Cycle - lp THEN lp - df ELSE Cycle - lp
<1> DEFINE lp == LegPhase(c, g, leg, p)
           df == c.duty[g]
           up == lp - df
           down == SwingLength(c, g) - (lp - df)
<1>1. lp \in 0..(Cycle - 1) /\ df \in 1..(Cycle - 1) /\ Cycle \in Nat /\ down = Cycle - lp
      /\ up \in Int /\ down \in Int
  <2>1. lp \in 0..(Cycle - 1) /\ df \in 1..(Cycle - 1) /\ Cycle \in Nat
    BY LegPhaseFacts, SetupFacts DEF Phases
  <2>2. down = (Cycle - df) - (lp - df)
    BY DEF SwingLength
  <2> HIDE DEF lp, df, down
  <2> QED
    BY <2>1, <2>2
<1>2. Tent(c, g, leg, p) = Max({0, Min({up, down})})
  BY DEF Tent
<1> HIDE DEF lp, df, down
<1>3. Min({up, down}) = IF up <= down THEN up ELSE down
  BY <1>1, MinFacts
<1> DEFINE m == Min({up, down})
<1>4. m = (IF up <= down THEN up ELSE down) /\ m \in Int
  BY <1>1, <1>3
<1> HIDE DEF m
<1>5. Max({0, m}) = IF 0 >= m THEN 0 ELSE m
  BY <1>4, MaxFacts
<1>6. Tent(c, g, leg, p) = IF lp <= df THEN 0 ELSE IF lp - df <= Cycle - lp THEN lp - df ELSE Cycle - lp
  <2>1. Tent(c, g, leg, p) = IF 0 >= m THEN 0 ELSE m
    BY <1>2, <1>5 DEF m
  <2> QED
    BY <1>1, <1>4, <2>1
<1> QED
  BY <1>6 DEF lp, df

\* The lift changes no faster than the phase.
LEMMA TentMoves ==
  ASSUME NEW c \in Setups, NEW g \in Gaits, NEW leg \in Legs, NEW p \in Int, NEW k \in 0..Cycle
  PROVE  /\ Tent(c, g, leg, p) \in Nat
         /\ Tent(c, g, leg, p + k) - Tent(c, g, leg, p) <= k
         /\ Tent(c, g, leg, p) - Tent(c, g, leg, p + k) <= k
<1> DEFINE lp == LegPhase(c, g, leg, p)
           lq == LegPhase(c, g, leg, p + k)
           df == c.duty[g]
           t == Tent(c, g, leg, p)
           u == Tent(c, g, leg, p + k)
<1>1. Cycle \in Nat \ {0} /\ df \in 1..(Cycle - 1) /\ k \in Int /\ p + k \in Int
  BY SetupFacts
<1>2. lp \in 0..(Cycle - 1) /\ lq = IF lp + k < Cycle THEN lp + k ELSE lp + k - Cycle
  BY LegPhaseFacts DEF Phases
<1>3. t = IF lp <= df THEN 0 ELSE IF lp - df <= Cycle - lp THEN lp - df ELSE Cycle - lp
  BY TentShape
<1>4. u = IF lq <= df THEN 0 ELSE IF lq - df <= Cycle - lq THEN lq - df ELSE Cycle - lq
  BY <1>1, TentShape
<1> HIDE DEF lp, lq, df, t, u
<1>5. lp \in Int /\ lq \in Int /\ df \in Int /\ lp >= 0 /\ lp < Cycle /\ df >= 1 /\ df < Cycle
      /\ k >= 0 /\ k <= Cycle
  BY <1>1, <1>2
<1>6. t \in Nat /\ u - t <= k /\ t - u <= k
  BY <1>1, <1>2, <1>3, <1>4, <1>5
<1> QED
  BY <1>6 DEF t, u

LEMMA TentOfGrounded ==
  ASSUME NEW c \in Setups, NEW g \in Gaits, NEW leg \in Legs, NEW p \in Int, Grounded(c, g, p)
  PROVE  Tent(c, g, leg, p) <= SwingLength(c, g) \div 50
<1> DEFINE lp == LegPhase(c, g, leg, p)
           df == c.duty[g]
           sl == SwingLength(c, g)
           t == Tent(c, g, leg, p)
<1>1. /\ Cycle \in Nat \ {0} /\ df \in 1..(Cycle - 1) /\ sl \in 1..(Cycle - 1) /\ df + sl = Cycle
      /\ lp \in 0..(Cycle - 1)
  BY SetupFacts, LegPhaseFacts DEF Phases
<1>2. ~(50 * (lp - df) > sl /\ 50 * (lp - df) < 49 * sl)
  BY DEF Grounded, Airborne
<1>3. t = IF lp <= df THEN 0 ELSE IF lp - df <= Cycle - lp THEN lp - df ELSE Cycle - lp
  BY TentShape
<1> HIDE DEF lp, df, sl, t
<1>4. 50 * t <= sl /\ t \in Int /\ sl \in Nat
  BY <1>1, <1>2, <1>3
<1>5. t <= sl \div 50
  BY <1>4
<1> QED
  BY <1>5 DEF t, sl

LEMMA LiftIsTent ==
  ASSUME NEW leg \in Legs
  PROVE  /\ Lift(leg) = IF walking THEN Tent(setup, gait, leg, phase) ELSE 0
         /\ Lift(leg)' = IF walking' THEN Tent(setup', gait', leg, phase') ELSE 0
BY DEF Lift, Tent

LEMMA LongestStep ==
  ASSUME NEW step \in Steps
  PROVE  step \in 1..Cycle /\ step <= Max(Steps) /\ Max(Steps) \in Nat
<1> DEFINE longest == Max(Steps)
<1>1. Steps \in SUBSET Int /\ Steps # {} /\ Cycle \in Int /\ \A s \in Steps : s <= Cycle /\ s \in 1..Cycle
  BY CycleAssumption
<1>2. longest \in Steps /\ \A s \in Steps : s <= longest
  BY <1>1, MaxOfBounded
<1> HIDE DEF longest
<1>3. step \in 1..Cycle /\ step <= longest /\ longest \in Nat
  BY <1>1, <1>2
<1> QED
  BY <1>3 DEF longest

\* A tick: the feet in the air move on with the phase; where the cycle starts or
\* freezes, they are down but for the tolerance.
LEMMA FeetOfTick ==
  ASSUME IInv, driven, CanRest[setup][gait], NEW step \in Steps, NEW leg \in Legs,
         Advance(step) \/ KeepStopping(step) \/ Freeze(step), UNCHANGED setup
  PROVE  LET change == Lift(leg)' - Lift(leg)
             bound  == Max(Steps) + SwingLength(setup, gait) \div 50
         IN  change <= bound /\ -change <= bound
<1> DEFINE slack == SwingLength(setup, gait) \div 50
           longest == Max(Steps)
           t == Tent(setup, gait, leg, phase)
<1>1. setup \in Setups /\ gait \in Gaits /\ phase \in Int /\ walking \in BOOLEAN
  BY CycleAssumption DEF IInv, TypeOK, Phases
<1>2. step \in 0..Cycle /\ step <= longest /\ longest \in Nat /\ slack \in Nat /\ step \in Nat
  BY <1>1, LongestStep, SetupFacts, CycleAssumption
<1>3. t \in Nat
  <2>1. 0 \in 0..Cycle
    BY CycleAssumption
  <2> QED
    BY <1>1, <2>1, TentMoves
<1>4. CASE walking' /\ gait' = gait /\ phase' = (phase + step) % Cycle
  <2> DEFINE u == Tent(setup, gait, leg, phase + step)
  <2>1. Tent(setup, gait, leg, phase') = u
    <3>1. phase + step \in Int /\ phase' \in Int /\ 0 \in Int
      BY <1>1, <1>2, <1>4, Remainder, CycleAssumption DEF Phases
    <3>2. LegPhase(setup, gait, leg, phase' + 0) = LegPhase(setup, gait, leg, (phase + step) + 0)
      BY <1>1, <1>4, <3>1, LegPhaseFacts
    <3>3. phase' + 0 = phase' /\ (phase + step) + 0 = phase + step
      <4> DEFINE q == phase'
      <4>1. q \in Int /\ phase + step \in Int
        BY <3>1
      <4> HIDE DEF q
      <4>2. q + 0 = q /\ (phase + step) + 0 = phase + step
        BY <4>1
      <4> QED
        BY <4>2 DEF q
    <3> QED
      BY <3>2, <3>3 DEF Tent
  <2>2. u - t <= step /\ t - u <= step /\ u \in Nat
    <3>1. phase + step \in Int /\ 0 \in 0..Cycle
      BY <1>1, <1>2, CycleAssumption
    <3> QED
      BY <1>1, <1>2, <3>1, TentMoves
  <2>3. Lift(leg)' = u
    BY <1>4, <2>1, LiftIsTent
  <2>4. CASE walking
    <3>1. Lift(leg) = t
      BY <2>4, LiftIsTent
    <3> HIDE DEF t, u, longest, slack
    <3> QED
      BY <1>2, <1>3, <2>2, <2>3, <3>1 DEF longest, slack
  <2>5. CASE ~walking
    <3>1. Lift(leg) = 0
      BY <2>5, LiftIsTent
    <3>2. Grounded(setup, gait, phase)
      BY <2>5 DEF IInv, FrozenIsGrounded
    <3>3. t <= slack
      BY <1>1, <3>2, TentOfGrounded
    <3> HIDE DEF t, u, longest, slack
    <3> QED
      BY <1>2, <1>3, <2>2, <2>3, <3>1, <3>3 DEF longest, slack
  <2> QED
    BY <1>1, <2>4, <2>5
<1>5. CASE Freeze(step)
  <2> DEFINE d == StopDistance
             u == Tent(setup, gait, leg, phase + d)
  <2>1. walking /\ step >= d /\ walking' = FALSE
    BY <1>5 DEF Freeze
  <2>2. d \in 0..RunMax /\ Grounded(setup, gait, phase + d) /\ RunMax \in Nat
    BY StopDistanceFacts, CycleAssumption DEF RunMax
  <2>3. Lift(leg) = t /\ Lift(leg)' = 0
    BY <2>1, LiftIsTent
  <2> HIDE DEF d
  <2>4. d \in 0..Cycle /\ d \in Nat /\ phase + d \in Int
    <3>1. d \in Nat /\ Cycle \in Nat /\ phase + d \in Int
      BY <1>1, <2>2, CycleAssumption
    <3>2. d <= Cycle
      BY <1>2, <2>1, <3>1
    <3> QED
      BY <3>1, <3>2
  <2>5. t - u <= d /\ u <= slack /\ u \in Int
    <3>1. 0 \in 0..Cycle
      BY CycleAssumption
    <3> QED
      BY <1>1, <2>2, <2>4, <3>1, TentMoves, TentOfGrounded
  <2> HIDE DEF t, u, longest, slack
  <2> QED
    BY <1>2, <1>3, <2>1, <2>3, <2>4, <2>5 DEF longest, slack
<1> QED
  BY <1>1, <1>4, <1>5 DEF Advance, KeepStopping

-----------------------------------------------------------------------------
(* The theorems *)

THEOREM Invariance == Spec => []IInv
BY InitIInv, StepIInv, PTL DEF Spec

THEOREM TypeCorrect == Spec => []TypeOK
<1>1. IInv => TypeOK
  BY DEF IInv
<1> QED
  BY <1>1, Invariance, PTL

\* However a frozen cycle came about, no walk starts in mid-swing.
THEOREM FrozenSafe == Spec => []FrozenIsGrounded
<1>1. IInv => FrozenIsGrounded
  BY DEF IInv
<1> QED
  BY <1>1, Invariance, PTL

\* A stop ends neither before the last foot is down nor after the first moment
\* that all are.
THEOREM StopExact == Spec => []StopIsExact
<1>1. ASSUME IInv, driven, stopping, NEW on \in 1..(stopLeft - 1)
      PROVE  \E leg \in Legs : LegPhase(setup, gait, leg, phase + on) > setup.duty[gait]
  <2>1. on \in 0..(stopLeft - 1)
    OBVIOUS
  <2> QED
    BY <1>1, <2>1 DEF IInv, StopInv, SwingsFor
<1>2. IInv => StopIsExact
  BY <1>1 DEF IInv, StopInv, StopIsExact
<1> QED
  BY <1>2, Invariance, PTL

\* No foot drops from the air or is snatched up.
THEOREM FeetContinuous == Spec => FeetMoveContinuously
<1>1. ASSUME IInv, [Next]_vars, driven, driven', CanRest[setup][gait], NEW leg \in Legs
      PROVE  LET change == Lift(leg)' - Lift(leg)
                 bound  == Max(Steps) + SwingLength(setup, gait) \div 50
             IN  change <= bound /\ -change <= bound
  <2>1. Max(Steps) \in Nat /\ SwingLength(setup, gait) \div 50 \in Nat
    <3>1. PICK step \in Steps : TRUE
      BY CycleAssumption
    <3>2. Max(Steps) \in Nat
      BY <3>1, LongestStep
    <3> DEFINE sl == SwingLength(setup, gait)
    <3>3. sl \in 1..(Cycle - 1)
      BY <1>1, SetupFacts DEF IInv, TypeOK
    <3> HIDE DEF sl
    <3>4. sl \div 50 \in Nat
      BY <3>3, CycleAssumption
    <3> QED
      BY <3>2, <3>4 DEF sl
  <2>2. setup \in Setups /\ gait \in Gaits /\ phase \in Int /\ 0 \in 0..Cycle /\ walking \in BOOLEAN
    BY <1>1, CycleAssumption DEF IInv, TypeOK, Phases
  <2>3. Lift(leg) \in Nat
    BY <2>2, LiftIsTent, TentMoves
  <2>4. CASE Lift(leg)' = Lift(leg)
    BY <2>1, <2>3, <2>4
  <2>5. CASE Tick /\ ~StayFrozen
    <3>1. PICK step \in Steps : Advance(step) \/ KeepStopping(step) \/ Freeze(step)
      BY <2>5 DEF Tick, Update
    <3> QED
      BY <1>1, <2>5, <3>1, FeetOfTick DEF Tick
  <2>6. CASE \E g \in Gaits : SetGait(g)
    <3>1. setup' = setup /\ walking' = walking /\ (walking => gait' = gait /\ phase' = phase)
      BY <2>6 DEF SetGait
    <3>2. Lift(leg)' = Lift(leg)
      BY <3>1, LiftIsTent
    <3> QED
      BY <2>4, <3>2
  <2>7. CASE UNCHANGED vars
    <3>1. Lift(leg)' = Lift(leg)
      BY <2>7, LiftIsTent DEF vars, cycleVars
    <3> QED
      BY <2>4, <3>1
  <2>8. CASE Command
    <3>1. Lift(leg)' = Lift(leg)
      BY <2>8, LiftIsTent DEF Command, cycleVars
    <3> QED
      BY <2>4, <3>1
  <2> QED
    BY <1>1, <2>5, <2>6, <2>7, <2>8 DEF Next, Reset, ResetTo, Abandon, ProvisionGaits, StayFrozen
<1>2. ASSUME IInv, [Next]_vars
      PROVE  [driven /\ CanRest[setup][gait] =>
                \A leg \in Legs :
                  LET change == Lift(leg)' - Lift(leg)
                      bound  == Max(Steps) + SwingLength(setup, gait) \div 50
                  IN  driven' => change <= bound /\ -change <= bound]_vars
  BY <1>1, <1>2
<1> QED
  BY <1>2, Invariance, PTL DEF Spec, FeetMoveContinuously

\* What the robot is shown of the generator is what it does.
THEOREM Refinement == Spec => ImplementsGaitCycle
<1>1. Init => Cyc!Init
  BY DEF Init, Cyc!Init
<1>2. ASSUME IInv, [Next]_vars
      PROVE  [Cyc!Next]_(Cyc!vars)
  <2>1. CASE UNCHANGED vars
    BY <2>1 DEF vars, cycleVars, Cyc!vars
  <2>2. CASE Reset
    BY <2>2 DEF Reset, ResetTo, Requested, Cyc!Next, Cyc!Reset, Cyc!ComeToRest
  <2>3. CASE Abandon \/ ProvisionGaits \/ Command
    BY <2>3 DEF Abandon, ProvisionGaits, Command, cycleVars, Cyc!vars
  <2>4. ASSUME NEW g \in Gaits, SetGait(g)
        PROVE  Cyc!Next
    <3>1. Cyc!SetGait(g)
      BY <2>4 DEF SetGait, Cyc!SetGait
    <3> QED
      BY <3>1 DEF Cyc!Next
  <2>5. CASE Tick
    <3>1. PICK step \in Steps : Update(moving, step)
      BY <2>5 DEF Tick
    <3>2. ASSUME moving, Advance(step)
          PROVE  Cyc!Update(moving, step)
      BY <3>2 DEF Advance, Cyc!Update, Cyc!Advance
    <3>3. StopDistance \in Cyc!Distances
      <4>1. StopDistance \in 0..RunMax
        BY <1>2, <2>5, StopDistanceFacts DEF Tick
      <4> QED
        BY <4>1 DEF StopDistance, Cyc!Distances
    <3>4. ASSUME ~moving, KeepStopping(step)
          PROVE  Cyc!Update(moving, step)
      BY <3>3, <3>4 DEF KeepStopping, Cyc!Update, Cyc!WindDown
    <3>5. ASSUME ~moving, Freeze(step)
          PROVE  Cyc!Update(moving, step)
      <4>1. Cyc!ComeToRest
        BY <1>2, <3>5 DEF Freeze, Cyc!ComeToRest, IInv, TypeOK
      <4>2. walking /\ step >= StopDistance /\ stopLeft' = StopDistance
        BY <3>5 DEF Freeze
      <4> QED
        BY <3>3, <3>5, <4>1, <4>2 DEF Cyc!Update, Cyc!WindDown
    <3>6. ASSUME StayFrozen
          PROVE  UNCHANGED Cyc!vars
      BY <3>6 DEF StayFrozen, vars, cycleVars, Cyc!vars
    <3>7. moving \in BOOLEAN
      BY <1>2 DEF IInv, TypeOK
    <3>8. StayFrozen \/ Cyc!Update(moving, step)
      BY <3>1, <3>2, <3>4, <3>5 DEF Update
    <3> QED
      BY <3>6, <3>7, <3>8 DEF Cyc!Next
  <2> QED
    BY <1>2, <2>1, <2>2, <2>3, <2>4, <2>5 DEF Next
<1> QED
  BY <1>1, <1>2, Invariance, PTL DEF Spec, ImplementsGaitCycle, Cyc!Spec
=============================================================================
