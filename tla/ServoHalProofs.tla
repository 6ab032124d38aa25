---------------------------- MODULE ServoHalProofs ----------------------------
(***************************************************************************)
(* ServoHal's invariants, for any number of servos. Together they are      *)
(* inductive: the rail is on for the held servos only because the counter  *)
(* counts them, and the robot keeps its power only because a jog is        *)
(* refused while it is energized.                                          *)
(***************************************************************************)
EXTENDS ServoHal, FiniteSetTheorems, TLAPS

IInv ==
  /\ TypeOK
  /\ JogCountIsHeld
  /\ RailHasAReason
  /\ RobotKeepsItsPower
  /\ CalibrationFollowsPins
  /\ JogsAreTracked

\* The held channels are finitely many, N at most.
LEMMA HeldFinite ==
  IsFiniteSet(Held) /\ Cardinality(Held) \in 0..N
<1>1. IsFiniteSet(Channels) /\ Cardinality(Channels) = N
  BY NAssumption, FS_Interval DEF Channels
<1>2. Held \in SUBSET Channels
  BY DEF Held
<1>3. IsFiniteSet(Held) /\ Cardinality(Held) <= Cardinality(Channels)
  BY <1>1, <1>2, FS_Subset
<1>4. Cardinality(Held) \in Nat
  BY <1>3, FS_CardinalityType
<1> QED
  BY <1>1, <1>3, <1>4, NAssumption

LEMMA InitIInv == Init => IInv
<1> SUFFICES ASSUME Init PROVE IInv
  OBVIOUS
<1>1. Held = {}
  BY DEF Init, Held
<1>2. TypeOK
  <2>1. 0 \in 0..N /\ N \in 0..N
    BY NAssumption
  <2> QED
    BY <2>1 DEF Init, TypeOK
<1>3. JogCountIsHeld
  BY <1>1, FS_EmptySet DEF Init, JogCountIsHeld
<1>4. JogsAreTracked
  BY DEF Init, JogsAreTracked
<1> QED
  BY <1>2, <1>3, <1>4 DEF Init, IInv, RailHasAReason, RobotKeepsItsPower, CalibrationFollowsPins

\* What a jog to a pulse does to the set of held channels and their count.
LEMMA HoldCounts ==
  ASSUME IInv, NEW c \in Channels, Hold(c)
  PROVE  Held' = Held \cup {c} /\ JogCountIsHeld' /\ jogActive' \in 0..N
<1>1. Held' = Held \cup {c}
  BY DEF IInv, TypeOK, Held, Hold
<1>2. c \in Held <=> jogHeld[c]
  BY DEF Held
<1>3. JogCountIsHeld'
  BY <1>1, <1>2, HeldFinite, FS_AddElement DEF IInv, JogCountIsHeld, Hold
<1>4. Cardinality(Held') \in 0..N
  <2>1. IsFiniteSet(Channels) /\ Cardinality(Channels) = N
    BY NAssumption, FS_Interval DEF Channels
  <2>2. Held' \in SUBSET Channels
    BY DEF Held
  <2>3. IsFiniteSet(Held') /\ Cardinality(Held') <= N
    BY <2>1, <2>2, FS_Subset
  <2> QED
    BY <2>3, FS_CardinalityType, NAssumption
<1> QED
  BY <1>1, <1>3, <1>4 DEF JogCountIsHeld

LEMMA ReleaseCounts ==
  ASSUME IInv, NEW c \in Channels, Release(c)
  PROVE  Held' = Held \ {c} /\ JogCountIsHeld' /\ jogActive' \in 0..N
<1>1. Held' = Held \ {c}
  BY DEF IInv, TypeOK, Held, Release, ReleaseSetting
<1>2. c \in Held <=> jogHeld[c]
  BY DEF Held
<1>3. JogCountIsHeld'
  BY <1>1, <1>2, HeldFinite, FS_RemoveElement DEF IInv, JogCountIsHeld, Release, ReleaseSetting
<1>4. IsFiniteSet(Held')
  BY <1>1, HeldFinite, FS_RemoveElement
<1>5. Cardinality(Held') \in Nat
  BY <1>4, FS_CardinalityType
<1> QED
  BY <1>1, <1>3, <1>5, HeldFinite, NAssumption DEF IInv, TypeOK, JogCountIsHeld, Release, ReleaseSetting

LEMMA NextIInv == IInv /\ [Next]_vars => IInv'
<1> SUFFICES ASSUME IInv, [Next]_vars PROVE IInv'
  OBVIOUS
<1> USE DEF IInv
<1>1. CASE Energize
  <2>1. Held' = Held
    BY <1>1 DEF Energize, Held, jog
  <2>2. TypeOK'
    BY <1>1 DEF Energize, SetPower, TypeOK, wiring, output, jog
  <2> QED
    BY <1>1, <2>1, <2>2 DEF Energize, SetPower, wiring, jog, JogCountIsHeld, JogsAreTracked,
       RailHasAReason, RobotKeepsItsPower, CalibrationFollowsPins, IsPermutation
<1>2. CASE DeEnergize
  <2>1. Held' = Held
    BY <1>2 DEF DeEnergize, Held, jog
  <2>2. TypeOK'
    BY <1>2 DEF DeEnergize, SetPower, TypeOK, wiring, jog
  <2> QED
    BY <1>2, <2>1, <2>2 DEF DeEnergize, SetPower, wiring, jog, JogCountIsHeld, JogsAreTracked,
       RailHasAReason, RobotKeepsItsPower, CalibrationFollowsPins, IsPermutation
<1>3. ASSUME NEW c \in Channels, Hold(c) PROVE IInv'
  <2>1. Held' = Held \cup {c} /\ JogCountIsHeld' /\ jogActive' \in 0..N
    BY <1>3, HoldCounts
  <2>2. TypeOK'
    BY <1>3, <2>1 DEF Hold, TypeOK, wiring
  <2>3. RailHasAReason' /\ RobotKeepsItsPower'
    BY <1>3, <2>1 DEF Hold, Provisionable, RailHasAReason, RobotKeepsItsPower
  <2>4. CalibrationFollowsPins'
    BY <1>3 DEF Hold, wiring, CalibrationFollowsPins, IsPermutation
  <2>5. JogsAreTracked'
    BY <1>3, <2>1 DEF Hold, wiring, Provisionable, TypeOK, JogsAreTracked
  <2> QED
    BY <2>1, <2>2, <2>3, <2>4, <2>5
<1>4. ASSUME NEW c \in Channels, Release(c) PROVE IInv'
  <2>1. Held' = Held \ {c} /\ JogCountIsHeld' /\ jogActive' \in 0..N
    BY <1>4, ReleaseCounts
  <2>2. TypeOK'
    BY <1>4, <2>1 DEF Release, ReleaseSetting, TypeOK, wiring, output
  <2>3. RailHasAReason'
    <3>1. SUFFICES ASSUME railPin' PROVE Held' # {}
      BY DEF RailHasAReason
    <3>2. jogActive' # 0
      BY <1>4, <3>1 DEF Release, ReleaseSetting
    <3> QED
      BY <2>1, <3>2, FS_EmptySet DEF JogCountIsHeld
  <2>4. RobotKeepsItsPower'
    BY <1>4 DEF Release, ReleaseSetting, Provisionable, RobotKeepsItsPower
  <2>5. CalibrationFollowsPins'
    BY <1>4 DEF Release, ReleaseSetting, wiring, CalibrationFollowsPins, IsPermutation
  <2>6. JogsAreTracked'
    BY <1>4, <2>1 DEF Release, ReleaseSetting, wiring, output, Provisionable, TypeOK,
       JogsAreTracked
  <2> QED
    BY <2>1, <2>2, <2>3, <2>4, <2>5, <2>6
<1>5. ASSUME NEW pins \in [Channels -> PinBytes], ProvisionPins(pins) PROVE IInv'
  <2>1. Held' = Held
    BY <1>5 DEF ProvisionPins, Held, jog
  <2>2. \A c \in Channels : pins[c] < N => pins[c] \in Channels
    <3>1. \A c \in Channels : pins[c] \in PinBytes
      OBVIOUS
    <3>2. \A i \in PinBytes : i \in Int /\ 0 <= i
      BY PinBytesAssumption
    <3>3. \A i \in Int : 0 <= i /\ i < N => i \in Channels
      BY NAssumption DEF Channels
    <3> QED
      BY <3>1, <3>2, <3>3
  <2>3. TypeOK'
    <3>1. pinMap' \in [Channels -> Channels]
      BY <1>5, <2>2 DEF ProvisionPins, TypeOK
    <3>2. calCurrent' \in BOOLEAN /\ repinned' \in BOOLEAN
      BY <1>5 DEF ProvisionPins, TypeOK
    <3> QED
      BY <1>5, <3>1, <3>2 DEF ProvisionPins, TypeOK, power, jog
  <2>4. CalibrationFollowsPins'
    BY <1>5 DEF ProvisionPins, CalibrationFollowsPins, IsPermutation
  <2>5. JogsAreTracked'
    BY <1>5, <2>1 DEF ProvisionPins, power, JogsAreTracked, Held
  <2> QED
    BY <1>5, <2>1, <2>3, <2>4, <2>5 DEF ProvisionPins, power, jog, JogCountIsHeld,
       RailHasAReason, RobotKeepsItsPower
<1>6. CASE ProvisionServoCal
  <2>1. Held' = Held
    BY <1>6 DEF ProvisionServoCal, Calibrate, Held, jog
  <2>2. TypeOK'
    BY <1>6 DEF ProvisionServoCal, Calibrate, TypeOK, power, output, jog
  <2>3. CalibrationFollowsPins'
    <3>1. SUFFICES ASSUME IsPermutation, NEW c \in Channels
                   PROVE  calOf'[pinMap[c]] = c
      BY <1>6 DEF ProvisionServoCal, Calibrate, CalibrationFollowsPins, IsPermutation
    <3>2. pinMap[c] \in Channels
      BY DEF TypeOK
    <3>3. {d \in Channels : pinMap[d] = pinMap[c]} = {c}
      BY <3>1 DEF IsPermutation
    <3>4. calOf'[pinMap[c]] \in {d \in Channels : pinMap[d] = pinMap[c]}
      BY <1>6, <3>2, <3>3 DEF ProvisionServoCal, Calibrate
    <3> QED
      BY <3>3, <3>4
  <2> QED
    BY <1>6, <2>1, <2>2, <2>3 DEF ProvisionServoCal, Calibrate, power, output, jog,
       JogCountIsHeld, JogsAreTracked, RailHasAReason, RobotKeepsItsPower
<1>7. CASE WriteServos
  <2>1. Held' = Held
    BY <1>7 DEF WriteServos, Held, jog
  <2>2. TypeOK'
    BY <1>7 DEF WriteServos, TypeOK, wiring, jog
  <2>3. RobotKeepsItsPower'
    BY <1>7 DEF WriteServos, RobotKeepsItsPower
  <2>4. JogsAreTracked'
    BY <1>7, <2>1 DEF WriteServos, wiring, TypeOK, JogsAreTracked
  <2> QED
    BY <1>7, <2>1, <2>2, <2>3, <2>4 DEF WriteServos, wiring, jog, JogCountIsHeld,
       RailHasAReason, CalibrationFollowsPins, IsPermutation
<1>8. CASE UNCHANGED vars
  BY <1>8 DEF vars, power, output, wiring, jog, TypeOK, JogCountIsHeld, Held, JogsAreTracked,
     RailHasAReason, RobotKeepsItsPower, CalibrationFollowsPins, IsPermutation
<1> QED
  BY <1>1, <1>2, <1>3, <1>4, <1>5, <1>6, <1>7, <1>8 DEF Next

\* The inductive invariant holds in every reachable state.
THEOREM Invariance == Spec => []IInv
<1> QED
  BY InitIInv, NextIInv, PTL DEF Spec

\* Every variable keeps its type: the count of held servos stays a byte no larger
\* than the number of servos, and every output has the calibration of some channel.
THEOREM TypeCorrect == Spec => []TypeOK
<1>1. IInv => TypeOK
  BY DEF IInv
<1> QED
  BY <1>1, Invariance, PTL

\* No output of a robot at rest is left driven by a jog nobody holds, unless the
\* pins changed under a held servo.
THEOREM JogsTracked == Spec => []JogsAreTracked
<1>1. IInv => JogsAreTracked
  BY DEF IInv
<1> QED
  BY <1>1, Invariance, PTL

\* The counter that decides over the rail is the number of held servos.
THEOREM JogCount == Spec => []JogCountIsHeld
<1>1. IInv => JogCountIsHeld
  BY DEF IInv
<1> QED
  BY <1>1, Invariance, PTL

\* The rail is on only for an energized robot or a held servo.
THEOREM RailReason == Spec => []RailHasAReason
<1>1. IInv => RailHasAReason
  BY DEF IInv
<1> QED
  BY <1>1, Invariance, PTL

\* No jog takes the rail or an output from under an energized robot.
THEOREM PowerKept == Spec => []RobotKeepsItsPower
<1>1. IInv => RobotKeepsItsPower
  BY DEF IInv
<1> QED
  BY <1>1, Invariance, PTL

\* Calibrations applied under a permutation of the pins reach their own servos.
THEOREM CalibrationSafe == Spec => []CalibrationFollowsPins
<1>1. IInv => CalibrationFollowsPins
  BY DEF IInv
<1> QED
  BY <1>1, Invariance, PTL
=============================================================================
