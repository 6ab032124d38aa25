------------------------------ MODULE LedsProofs ------------------------------
(***************************************************************************)
(* The LED strip blinks in time, for every half period, tick period and    *)
(* lateness of a tick.                                                     *)
(***************************************************************************)
EXTENDS Leds, TLAPS, FiniteSetTheorems

-----------------------------------------------------------------------------
(* The greatest element of a set *)

\* A finite set of integers has a greatest element, unless it is empty.
LEMMA MaxOfFinite ==
  ASSUME NEW S \in SUBSET Int, IsFiniteSet(S), S # {}
  PROVE  Max(S) \in S /\ \A x \in S : x <= Max(S)
<1> DEFINE Topped(T) == \E m \in T : \A x \in T : x <= m
           Bad == {T \in FiniteSubsetsOf(S) : T # {} /\ ~Topped(T)}
<1>1. Bad = {}
  <2> SUFFICES ASSUME Bad # {} PROVE FALSE
    OBVIOUS
  <2>1. PICK T \in Bad : \A U \in Bad : ~(<<U, T>> \in StrictSubsetOrdering(S))
    BY FS_StrictSubsetOrderingWellFounded, WFMin
  <2>2. PICK x \in T : TRUE
    OBVIOUS
  <2> DEFINE U == T \ {x}
  <2>3. IsFiniteSet(U) /\ U \subseteq T /\ U # T /\ T \subseteq S
    BY <2>2, FS_RemoveElement DEF FiniteSubsetsOf
  <2>4. U \notin Bad
    BY <2>1, <2>3 DEF StrictSubsetOrdering, FiniteSubsetsOf
  <2>5. CASE U = {}
    BY <2>2, <2>3, <2>5
  <2>6. CASE Topped(U)
    <3>1. PICK m \in U : \A y \in U : y <= m
      BY <2>6
    <3>2. m \in Int /\ x \in Int /\ \A y \in T : y = x \/ y <= m
      BY <2>2, <2>3, <3>1
    <3> QED
      BY <2>2, <2>3, <3>1, <3>2
  <2> QED
    BY <2>3, <2>4, <2>5, <2>6 DEF FiniteSubsetsOf
<1>2. S \notin Bad /\ S \in FiniteSubsetsOf(S)
  BY <1>1 DEF FiniteSubsetsOf
<1>3. \E m \in S : \A x \in S : m >= x
  BY <1>2
<1> QED
  BY <1>3 DEF Max

LEMMA MinFacts ==
  ASSUME NEW a \in Nat, NEW b \in Nat
  PROVE  Min({a, b}) = IF a <= b THEN a ELSE b
<1>1. \E m \in {a, b} : \A x \in {a, b} : m <= x
  OBVIOUS
<1> QED
  BY <1>1 DEF Min

LEMMA MaxFacts ==
  ASSUME NEW a \in Nat, NEW b \in Nat
  PROVE  Max({a, b}) = IF a >= b THEN a ELSE b
<1>1. \E m \in {a, b} : \A x \in {a, b} : m >= x
  OBVIOUS
<1> QED
  BY <1>1 DEF Max

\* The clocks are counted up to a bound beyond any half period.
LEMMA LongestFacts == Longest \in Nat /\ \A h \in Halves : h < Longest
<1>1. /\ Halves \cup {0} \in SUBSET Int /\ Halves \cup {0} # {}
      /\ IsFiniteSet(Halves \cup {0})
  BY LedsAssumption, FS_AddElement
<1> DEFINE S == Halves \cup {0}
<1>2. Max(S) \in S /\ \A x \in S : x <= Max(S)
  <2> HIDE DEF S
  <2> QED
    BY <1>1, MaxOfFinite DEF S
<1>3. Max(S) \in Nat /\ \A h \in Halves : h <= Max(S)
  <2>1. S \subseteq Nat /\ Halves \subseteq S
    BY LedsAssumption
  <2> HIDE DEF S
  <2> QED
    BY <1>2, <2>1
<1> QED
  BY <1>3, LedsAssumption DEF Longest

-----------------------------------------------------------------------------
(* The inductive invariant *)

\* The clock that decides and the one that is watched run together; and a phase
\* that blinks was not yet over at the last tick, if it had begun by then.
IInv ==
  /\ LedsTypeOK
  /\ since = shown
  /\ Blinking => shown < Max({half, 1}) + sinceTick

LEMMA HalfFacts == LedsTypeOK /\ Blinking => half \in Halves /\ half \in Nat /\ Max({half, 1}) \in Nat \ {0}
BY MaxFacts, LedsAssumption DEF LedsTypeOK, Blinking

LEMMA InitIInv == LedsInit => IInv
BY LongestFacts, LedsAssumption DEF LedsInit, IInv, LedsTypeOK, Blinking

\* A message lights the strip and starts both clocks.
LEMMA SetLedStep ==
  ASSUME IInv, NEW m \in {"SOLID", "BLINK"}, NEW c \in Colours, NEW h \in Halves \cup {None},
         SetLed(m, c, h)
  PROVE  IInv'
<1>1. LedsTypeOK'
  BY LongestFacts DEF IInv, LedsTypeOK, SetLed, Apply
<1>2. Blinking' => shown' < Max({half, 1})' + sinceTick'
  <2>1. sinceTick' \in Nat
    BY LedsAssumption DEF IInv, LedsTypeOK, SetLed
  <2> QED
    BY <1>1, <2>1, HalfFacts, MaxFacts, LedsAssumption DEF LedsTypeOK, Blinking, SetLed
<1> QED
  BY <1>1, <1>2 DEF IInv, SetLed

\* A tick ends the phase that has lasted its half period.
LEMMA TickStep ==
  ASSUME IInv, Tick
  PROVE  IInv' /\ (on' # on => shown >= half)
<1>1. sinceTick' = 0 /\ UNCHANGED set /\ (Blinking' <=> Blinking)
  BY DEF Tick, set, Blinking
<1>2. CASE Blinking /\ since >= half
  <2>1. on' = ~on /\ since' = 0 /\ shown' = 0 /\ strip' = IF on' THEN colour ELSE Dark
    BY <1>2 DEF Tick, UpdateLeds, UpdateLedsLeaving, Toggle, Apply
  <2>2. LedsTypeOK'
    BY <1>1, <2>1, LongestFacts, LedsAssumption DEF IInv, LedsTypeOK, set
  <2> QED
    BY <1>1, <1>2, <2>1, <2>2, HalfFacts DEF IInv, set
<1>3. CASE ~(Blinking /\ since >= half)
  <2>1. UNCHANGED <<on, since, strip, shown>>
    BY <1>3 DEF Tick, UpdateLeds, UpdateLedsLeaving
  <2>2. LedsTypeOK'
    BY <1>1, <2>1, LedsAssumption DEF IInv, LedsTypeOK, set
  <2>3. Blinking => half \in Nat /\ shown \in Nat /\ shown < half /\ Max({half, 1}) >= half
    BY <1>3, HalfFacts, MaxFacts, LongestFacts DEF IInv, LedsTypeOK
  <2> QED
    BY <1>1, <2>1, <2>2, <2>3, HalfFacts DEF IInv, set
<1> QED
  BY <1>2, <1>3

\* Time passes for both clocks alike.
LEMMA ElapseStep ==
  ASSUME IInv, Elapse
  PROVE  IInv'
<1>1. UNCHANGED <<mode, colour, half, on, strip>> /\ (Blinking' <=> Blinking)
  BY DEF Elapse, set, Blinking
<1>2. since \in 0..Longest /\ shown \in 0..Longest /\ Longest \in Nat /\ sinceTick \in Nat
  BY LongestFacts, LedsAssumption DEF IInv, LedsTypeOK
<1>3. /\ since' \in 0..Longest /\ shown' = since' /\ shown' <= shown + 1
      /\ sinceTick' = sinceTick + 1
  BY <1>2, MinFacts DEF IInv, Elapse
<1>4. sinceTick' \in 0..(Period + Late)
  BY <1>2, <1>3, LedsAssumption DEF Elapse
<1> QED
  BY <1>1, <1>2, <1>3, <1>4, HalfFacts DEF IInv, LedsTypeOK

LEMMA StepIInv == IInv /\ [LedsNext]_ledVars => IInv'
<1>1. IInv /\ UNCHANGED ledVars => IInv'
  BY DEF IInv, LedsTypeOK, Blinking, ledVars, set
<1> QED
  BY <1>1, SetLedStep, TickStep, ElapseStep DEF LedsNext

-----------------------------------------------------------------------------
(* The theorems *)

THEOREM Invariance == LedsSpec => []IInv
BY InitIInv, StepIInv, PTL DEF LedsSpec

\* The types hold, and the strip shows the colour exactly while lit.
THEOREM TypeCorrect == LedsSpec => []LedsTypeOK
BY Invariance, PTL DEF IInv

\* No phase of a blink outlasts its half period by more than the wait for a
\* tick.
THEOREM PhasesEnd == LedsSpec => []NoLongPhase
<1>1. IInv => NoLongPhase
  BY HalfFacts, LedsAssumption, LongestFacts DEF IInv, NoLongPhase, LedsTypeOK
<1> QED
  BY <1>1, Invariance, PTL

\* No phase of a blink is cut short.
THEOREM PhasesLast == LedsSpec => NoShortPhase
<1>1. IInv /\ [LedsNext]_ledVars => [Tick /\ on' # on => shown >= half]_ledVars
  BY TickStep
<1> QED
  BY <1>1, Invariance, PTL DEF LedsSpec, NoShortPhase
=============================================================================
