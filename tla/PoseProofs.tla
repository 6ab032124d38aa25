------------------------------ MODULE PoseProofs ------------------------------
(***************************************************************************)
(* The servos follow the pose, for every set of legs, every reach, every   *)
(* stride and every body pose a command may ask for.                       *)
(***************************************************************************)
EXTENDS Pose, TLAPS

-----------------------------------------------------------------------------
(* The inductive invariant *)

Rising == {<<"Curl", "LegsToNeutral", "RaiseBody">>, <<"LegsToNeutral", "RaiseBody">>,
           <<"RaiseBody">>}
Sitting == {<<"LegsToNeutral", "LowerBody", "Curl">>, <<"LowerBody", "Curl">>, <<"Curl">>}

\* A stand-up is at one of its steps: it folds with the body on the ground, and
\* raises it on feet at neutral. So is a sit-down.
StepsInv ==
  /\ state = "SETUP" => steps \in Rising
  /\ state = "SHUTDOWN" => steps \in Sitting
  /\ state \notin {"SETUP", "SHUTDOWN"} => steps = <<>>
  /\ steps = <<"Curl", "LegsToNeutral", "RaiseBody">> => body = Origin
  /\ steps = <<"RaiseBody">> => legs = Neutral

\* Between folds the servos are where the feet and the body put them, but for
\* the moves of the ticks whose pose was not written.
Following == state = "STAND" \/ (steps # <<>> /\ Head(steps) # "Curl")
Lagging ==
  \A leg \in Legs : \A i \in 1..2 : legs[leg][i] - body[i] - servos[leg][i] \in -2 * held .. 2 * held
FollowInv == Following /\ held < HoldMax => Lagging

IInv == TypeOK /\ StepsInv /\ FollowInv

-----------------------------------------------------------------------------
(* Points and steps *)

Points == Int \X Int

\* A rate-limited move stays on the grid and goes one unit at most along each
\* axis; and it has arrived once the target is where it ended.
LEMMA TowardFacts ==
  ASSUME NEW p \in Points, NEW q \in Points
  PROVE  /\ Toward(p, q) \in Points
         /\ \A i \in 1..2 : Toward(p, q)[i] - p[i] \in -1..1
<1>1. p[1] \in Int /\ p[2] \in Int /\ q[1] \in Int /\ q[2] \in Int
  BY DEF Points
<1>2. \A n \in Int : Near(n) \in -1..1
  BY DEF Near
<1>3. Near(q[1] - p[1]) \in -1..1 /\ Near(q[2] - p[2]) \in -1..1
  BY <1>1, <1>2
<1> DEFINE a == p[1] + Near(q[1] - p[1])
           b == p[2] + Near(q[2] - p[2])
<1>4. a \in Int /\ b \in Int /\ a - p[1] \in -1..1 /\ b - p[2] \in -1..1
  BY <1>1, <1>3
<1>5. Toward(p, q) = <<a, b>>
  BY DEF Toward
<1> QED
  BY <1>4, <1>5 DEF Points

LEMMA MinusFacts ==
  ASSUME NEW p \in Points, NEW q \in Points
  PROVE  /\ Minus(p, q) \in Points
         /\ \A i \in 1..2 : Minus(p, q)[i] = p[i] - q[i]
         /\ q = Origin => Minus(p, q) = p
BY DEF Minus, Points, Origin

LEMMA ConstantFacts ==
  /\ Origin \in Points /\ Standing \in Points
  /\ Neutral \in [Legs -> Points] /\ Folded \in [Legs -> Points]
  /\ BodyPoses \subseteq Points
  /\ \A leg \in Legs : Swing(leg) \subseteq Points
BY PoseAssumption DEF Origin, Standing, Points, Swing, Plus

\* The steps come off one by one.
LEMMA HeadsAndTails ==
  /\ LET s == <<"Curl", "LegsToNeutral", "RaiseBody">>
     IN  s # <<>> /\ Head(s) = "Curl" /\ Tail(s) = <<"LegsToNeutral", "RaiseBody">>
  /\ LET s == <<"LegsToNeutral", "RaiseBody">>
     IN  s # <<>> /\ Head(s) = "LegsToNeutral" /\ Tail(s) = <<"RaiseBody">>
  /\ LET s == <<"RaiseBody">>
     IN  s # <<>> /\ Head(s) = "RaiseBody" /\ Tail(s) = <<>>
  /\ LET s == <<"LegsToNeutral", "LowerBody", "Curl">>
     IN  s # <<>> /\ Head(s) = "LegsToNeutral" /\ Tail(s) = <<"LowerBody", "Curl">>
  /\ LET s == <<"LowerBody", "Curl">>
     IN  s # <<>> /\ Head(s) = "LowerBody" /\ Tail(s) = <<"Curl">>
  /\ LET s == <<"Curl">>
     IN  s # <<>> /\ Head(s) = "Curl" /\ Tail(s) = <<>>
OBVIOUS

LEMMA RisingIsNotSitting ==
  \A s \in Sitting : s # <<"Curl", "LegsToNeutral", "RaiseBody">> /\ s # <<"RaiseBody">>
BY DEF Sitting

\* What it takes for the legs and the body to be typed, and to have moved by no
\* more than a tick's worth.
PostureOK == {legs, servos} \subseteq [Legs -> Points] /\ body \in Points
MovedLittle ==
  /\ \A leg \in Legs : \A i \in 1..2 : legs'[leg][i] - legs[leg][i] \in -1..1
  /\ \A i \in 1..2 : body'[i] - body[i] \in -1..1

\* No two feet left at their distance are put at another.
NoSlip == \A a, b \in Legs : SameDistance(a, b)

LEMMA HoldMaxFacts == HoldMax \in Nat /\ HoldMax > 0
BY PoseAssumption

\* Servos that lag by nothing place the feet where they are wanted.
LEMMA DistanceFacts ==
  ASSUME PostureOK, PostureOK',
         \A leg \in Legs : \A i \in 1..2 : servos[leg][i] = legs[leg][i] - body[i],
         \A leg \in Legs : \A i \in 1..2 : servos'[leg][i] = legs'[leg][i] - body'[i]
  PROVE  NoSlip
<1> SUFFICES ASSUME NEW a \in Legs, NEW b \in Legs,
                    Minus(legs'[a], legs'[b]) = Minus(legs[a], legs[b])
             PROVE  Minus(servos'[a], servos'[b]) = Minus(servos[a], servos[b])
  BY DEF NoSlip, SameDistance
<1>1. /\ {legs[a], legs[b], legs'[a], legs'[b]} \subseteq Points
      /\ {servos[a], servos[b], servos'[a], servos'[b]} \subseteq Points
      /\ body \in Points /\ body' \in Points
  BY DEF PostureOK
<1>2. \A i \in 1..2 : legs'[a][i] - legs'[b][i] = legs[a][i] - legs[b][i]
  <2>1. \A i \in 1..2 : Minus(legs'[a], legs'[b])[i] = Minus(legs[a], legs[b])[i]
    OBVIOUS
  <2> QED
    BY <1>1, <2>1, MinusFacts
<1>3. \A i \in 1..2 : servos'[a][i] - servos'[b][i] = servos[a][i] - servos[b][i]
  <2> SUFFICES ASSUME NEW i \in 1..2
               PROVE  servos'[a][i] - servos'[b][i] = servos[a][i] - servos[b][i]
    OBVIOUS
  <2>1. /\ legs[a][i] \in Int /\ legs[b][i] \in Int /\ legs'[a][i] \in Int /\ legs'[b][i] \in Int
        /\ body[i] \in Int /\ body'[i] \in Int
    BY <1>1 DEF Points
  <2>2. legs'[a][i] - legs'[b][i] = legs[a][i] - legs[b][i]
    BY <1>2
  <2>3. /\ servos[a][i] = legs[a][i] - body[i] /\ servos[b][i] = legs[b][i] - body[i]
        /\ servos'[a][i] = legs'[a][i] - body'[i] /\ servos'[b][i] = legs'[b][i] - body'[i]
    OBVIOUS
  <2> QED
    BY <2>1, <2>2, <2>3
<1> QED
  BY <1>3 DEF Minus

\* A write shows the new pose, or holds the old one, on all legs alike; what the
\* servos lag grows by one tick's moves at most, and so does what they make good.
LEMMA WriteFacts ==
  ASSUME PostureOK, legs' \in [Legs -> Points], body' \in Points, held \in 0..HoldMax,
         held < HoldMax => Lagging, MovedLittle, ResolveWrite
  PROVE  /\ PostureOK' /\ held' \in 0..HoldMax
         /\ held' < HoldMax => Lagging'
         /\ Reachable => servos' = Posture
         /\ held < HoldMax => Smooth
         /\ ~EndsHold => NoSlip
<1>1. Posture \in [Legs -> Points]
  BY MinusFacts DEF Posture
<1>2. held \in Nat /\ held <= HoldMax
  BY HoldMaxFacts
<1>3. \A leg \in Legs : \A i \in 1..2 :
         /\ legs[leg][i] \in Int /\ legs'[leg][i] \in Int /\ servos[leg][i] \in Int
         /\ body[i] \in Int /\ body'[i] \in Int
         /\ legs'[leg][i] - legs[leg][i] \in -1..1 /\ body'[i] - body[i] \in -1..1
  BY DEF PostureOK, Points, MovedLittle
<1>4. CASE ~Reachable
  <2>1. servos' = servos /\ held' = IF held < HoldMax THEN held + 1 ELSE held
    BY <1>4 DEF ResolveWrite, Resolve
  <2>2. PostureOK' /\ held' \in 0..HoldMax /\ held' # 0
    BY <1>2, <2>1, HoldMaxFacts DEF PostureOK
  <2>3. ASSUME held' < HoldMax
        PROVE  Lagging'
    <3>1. held' = held + 1 /\ held < HoldMax
      BY <1>2, <2>1, <2>3, HoldMaxFacts
    <3> SUFFICES ASSUME NEW leg \in Legs, NEW i \in 1..2
                 PROVE  legs'[leg][i] - body'[i] - servos'[leg][i] \in -2 * held' .. 2 * held'
      BY DEF Lagging
    <3>2. legs[leg][i] - body[i] - servos[leg][i] \in -2 * held .. 2 * held
      BY <3>1 DEF Lagging
    <3>3. servos'[leg][i] = servos[leg][i]
      BY <2>1
    <3> QED
      BY <1>2, <1>3, <3>1, <3>2, <3>3
  <2>4. Smooth
    <3>1. \A leg \in Legs : \A i \in 1..2 : servos'[leg][i] - servos[leg][i] = 0
      BY <1>3, <2>1
    <3>2. 0 \in Catching
      BY <1>2 DEF Catching
    <3> QED
      BY <3>1, <3>2 DEF Smooth
  <2>5. ~EndsHold /\ NoSlip
    BY <2>1, <2>2 DEF EndsHold, NoSlip, SameDistance
  <2> QED
    BY <1>4, <2>2, <2>3, <2>4, <2>5
<1>5. CASE Reachable
  <2>1. servos' = Posture /\ held' = 0
    BY <1>5 DEF ResolveWrite, Resolve
  <2>2. PostureOK' /\ held' \in 0..HoldMax
    BY <1>1, <2>1, HoldMaxFacts DEF PostureOK
  <2>3. \A leg \in Legs : \A i \in 1..2 : servos'[leg][i] = legs'[leg][i] - body'[i]
    BY <2>1, MinusFacts DEF Posture
  <2>4. Lagging'
    <3> SUFFICES ASSUME NEW leg \in Legs, NEW i \in 1..2
                 PROVE  legs'[leg][i] - body'[i] - servos'[leg][i] \in -2 * held' .. 2 * held'
      BY DEF Lagging
    <3> QED
      BY <1>3, <2>1, <2>3
  <2>5. ASSUME held < HoldMax
        PROVE  Smooth
    <3> SUFFICES ASSUME NEW leg \in Legs, NEW i \in 1..2
                 PROVE  servos'[leg][i] - servos[leg][i] \in Catching
      BY DEF Smooth
    <3>1. legs[leg][i] - body[i] - servos[leg][i] \in -2 * held .. 2 * held
      BY <2>5 DEF Lagging
    <3> QED
      BY <1>2, <1>3, <2>3, <3>1 DEF Catching
  <2>6. ASSUME ~EndsHold
        PROVE  NoSlip
    <3>1. held = 0 /\ Lagging
      BY <2>1, <2>6, HoldMaxFacts DEF EndsHold
    <3>2. \A leg \in Legs : \A i \in 1..2 : servos[leg][i] = legs[leg][i] - body[i]
      <4> SUFFICES ASSUME NEW leg \in Legs, NEW i \in 1..2
                   PROVE  servos[leg][i] = legs[leg][i] - body[i]
        OBVIOUS
      <4>1. legs[leg][i] - body[i] - servos[leg][i] \in 0..0
        BY <3>1 DEF Lagging
      <4>2. legs[leg][i] \in Int /\ body[i] \in Int /\ servos[leg][i] \in Int
        BY <1>3
      <4>3. \A m, n, k \in Int : m - n - k \in 0..0 => k = m - n
        OBVIOUS
      <4> QED
        BY <4>1, <4>2, <4>3
    <3> QED
      BY <2>2, <2>3, <3>2, DistanceFacts
  <2> QED
    BY <1>5, <2>1, <2>2, <2>4, <2>5, <2>6
<1> QED
  BY <1>4, <1>5

LEMMA EachTowardFacts ==
  ASSUME NEW ps \in [Legs -> Points], NEW targets \in [Legs -> Points]
  PROVE  /\ EachToward(ps, targets) \in [Legs -> Points]
         /\ \A leg \in Legs : \A i \in 1..2 :
              EachToward(ps, targets)[leg][i] - ps[leg][i] \in -1..1
BY TowardFacts DEF EachToward

TypeFacts ==
  /\ state \in {"OFF", "SETUP", "STAND", "SHUTDOWN", "FAULT"}
  /\ steps # <<>> <=> state \in {"SETUP", "SHUTDOWN"}
  /\ PostureOK /\ bodyT \in Points /\ held \in 0..HoldMax

LEMMA TypeParts == (TypeOK <=> TypeFacts) /\ (TypeOK' <=> TypeFacts')
BY DEF TypeOK, TypeFacts, PostureOK, Points

-----------------------------------------------------------------------------
(* Every step keeps the invariant, moves the servos a little, and arrives *)

StepOK ==
  /\ IInv'
  /\ Powered /\ Powered' /\ held < HoldMax => Smooth
  /\ Powered /\ Powered' /\ ~Folding /\ ~EndsHold => NoSlip
  /\ state = "SETUP" /\ state' = "STAND" /\ CanStand => servos' = Stance
  /\ state = "SHUTDOWN" /\ state' = "OFF" => servos' = Folded

LEMMA InitIInv == Init => IInv
<1> SUFFICES ASSUME Init PROVE IInv
  OBVIOUS
<1>1. TypeOK
  BY ConstantFacts, HoldMaxFacts, TypeParts DEF TypeFacts, Init, PostureOK
<1> QED
  BY <1>1 DEF Init, IInv, StepsInv, FollowInv, Following

\* A step that leaves the pose and the servos alone does not disturb what relates
\* them.
LEMMA IdleFacts ==
  ASSUME IInv, UNCHANGED <<legs, body, servos, held>>
  PROVE  /\ PostureOK' /\ held' \in 0..HoldMax /\ (Lagging' <=> Lagging)
         /\ Smooth /\ NoSlip
<1>1. PostureOK /\ held \in 0..HoldMax
  BY TypeParts DEF TypeFacts, IInv
<1>2. Smooth
  <2>1. \A leg \in Legs : \A i \in 1..2 : servos'[leg][i] - servos[leg][i] = 0
    BY <1>1 DEF PostureOK, Points
  <2>2. 0 \in Catching
    BY <1>1, HoldMaxFacts DEF Catching
  <2> QED
    BY <2>1, <2>2 DEF Smooth
<1> QED
  BY <1>1, <1>2 DEF PostureOK, Lagging, NoSlip, SameDistance

\* Nothing is written, but when the configuration changes at rest.
LEMMA CommandStep ==
  ASSUME IInv,
         \/ Enable \/ StartSitDown \/ TripFault \/ Reconfigure
         \/ \E pose \in BodyPoses : SetBodyPose(pose)
  PROVE  StepOK
<1>0. TypeOK /\ PostureOK /\ bodyT \in Points /\ held \in 0..HoldMax
  BY TypeParts DEF TypeFacts, IInv
<1>1. CASE Enable
  <2>1. /\ state' = "SETUP" /\ ~Powered /\ steps' \in Rising /\ steps' # <<>>
        /\ Head(steps') = "Curl" /\ body' = Origin /\ bodyT' = Origin
        /\ steps' # <<"RaiseBody">>
    BY <1>1, HeadsAndTails DEF Enable, StartStandUp, Rising, Powered
  <2>2. PostureOK' /\ held' \in 0..HoldMax /\ state # "SHUTDOWN" /\ state # "SETUP"
    BY <1>0, <1>1, ConstantFacts, HoldMaxFacts DEF Enable, StartStandUp, SeedLegs, PostureOK
  <2>3. TypeOK'
    BY <2>1, <2>2, ConstantFacts, TypeParts DEF TypeFacts, PostureOK
  <2> QED
    BY <2>1, <2>2, <2>3 DEF StepOK, IInv, StepsInv, FollowInv, Following
<1>2. CASE StartSitDown
  <2>1. /\ state = "STAND" /\ state' = "SHUTDOWN" /\ steps' \in Sitting /\ steps' # <<>>
        /\ UNCHANGED <<legs, body, bodyT, servos, held>>
    BY <1>2, HeadsAndTails DEF StartSitDown, Sitting
  <2>2. TypeOK'
    BY <1>0, <2>1, IdleFacts, TypeParts DEF TypeFacts
  <2> QED
    BY <2>1, <2>2, IdleFacts, RisingIsNotSitting
       DEF StepOK, IInv, StepsInv, FollowInv, Following
<1>3. CASE TripFault
  <2>1. /\ state' = "FAULT" /\ steps' = <<>> /\ ~Powered'
        /\ UNCHANGED <<legs, body, bodyT, servos, held>>
    BY <1>3 DEF TripFault, Powered
  <2>2. TypeOK'
    BY <1>0, <2>1, IdleFacts, TypeParts DEF TypeFacts
  <2> QED
    BY <2>1, <2>2, IdleFacts, HeadsAndTails DEF StepOK, IInv, StepsInv, FollowInv, Following
<1>4. CASE Reconfigure
  <2>1. /\ state \in {"OFF", "FAULT"} /\ UNCHANGED <<state, steps, legs, body, bodyT>>
        /\ servos' = Folded /\ held' = 0 /\ ~Powered
    BY <1>4 DEF Reconfigure, Powered
  <2>2. TypeOK'
    BY <1>0, <2>1, ConstantFacts, HoldMaxFacts, TypeParts DEF TypeFacts, PostureOK
  <2>3. steps = <<>>
    BY <2>1 DEF IInv, StepsInv
  <2> QED
    BY <2>1, <2>2, <2>3, HeadsAndTails
       DEF StepOK, IInv, StepsInv, FollowInv, Following
<1>5. ASSUME NEW pose \in BodyPoses, SetBodyPose(pose)
      PROVE  StepOK
  <2>1. /\ state = "STAND" /\ bodyT' \in Points
        /\ UNCHANGED <<state, steps, legs, body, servos, held>>
    BY <1>5, ConstantFacts DEF SetBodyPose
  <2>2. TypeOK'
    BY <1>0, <2>1, IdleFacts, TypeParts DEF TypeFacts
  <2> QED
    BY <2>1, <2>2, IdleFacts DEF StepOK, IInv, StepsInv, FollowInv, Following
<1> QED
  BY <1>1, <1>2, <1>3, <1>4, <1>5
\* What each kind of step leaves to be done.
LEMMA StepFacts ==
  ASSUME StepsInv, TypeOK, steps # <<>>
  PROVE  /\ state \in {"SETUP", "SHUTDOWN"}
         /\ Head(steps) = "Curl" =>
              \/ /\ state = "SETUP" /\ body = Origin
                 /\ steps = <<"Curl", "LegsToNeutral", "RaiseBody">>
                 /\ Tail(steps) = <<"LegsToNeutral", "RaiseBody">>
              \/ state = "SHUTDOWN" /\ steps = <<"Curl">> /\ Tail(steps) = <<>>
         /\ Head(steps) = "LegsToNeutral" =>
              \/ state = "SETUP" /\ Tail(steps) = <<"RaiseBody">>
              \/ state = "SHUTDOWN" /\ Tail(steps) = <<"LowerBody", "Curl">>
         /\ Head(steps) = "RaiseBody" => state = "SETUP" /\ legs = Neutral /\ Tail(steps) = <<>>
         /\ Head(steps) = "LowerBody" => state = "SHUTDOWN" /\ Tail(steps) = <<"Curl">>
<1>1. state \in {"SETUP", "SHUTDOWN"}
  BY DEF TypeOK
<1>2. CASE state = "SETUP"
  <2>1. steps \in Rising
    BY <1>2 DEF StepsInv
  <2> QED
    BY <1>2, <2>1, HeadsAndTails DEF Rising, StepsInv
<1>3. CASE state = "SHUTDOWN"
  <2>1. steps \in Sitting
    BY <1>3 DEF StepsInv
  <2> QED
    BY <1>3, <2>1, HeadsAndTails DEF Sitting
<1> QED
  BY <1>1, <1>2, <1>3

\* The next step, or the end of the animation.
LEMMA ProceedFacts ==
  ASSUME StepsInv, TypeOK, steps # <<>>, NEW done \in BOOLEAN, Proceed(done)
  PROVE  /\ ~done => UNCHANGED <<steps, state>>
         /\ done => steps' = Tail(steps)
         /\ state' = IF steps' # <<>> THEN state ELSE IF state = "SETUP" THEN "STAND" ELSE "OFF"
         /\ steps' # <<>> <=> state' \in {"SETUP", "SHUTDOWN"}
         /\ state' \in {"OFF", "SETUP", "STAND", "SHUTDOWN", "FAULT"}
BY DEF Proceed, TypeOK

\* A fold moves the servos only, and ends with the legs seeded from them.
LEMMA CurlStepOK ==
  ASSUME IInv, steps # <<>>, Head(steps) = "Curl", CurlStep
  PROVE  StepOK
<1>0. TypeOK /\ StepsInv /\ PostureOK /\ bodyT \in Points /\ held \in 0..HoldMax
  BY TypeParts DEF TypeFacts, IInv
<1> DEFINE done == servos' = Folded
<1>1. Proceed(done) /\ UNCHANGED <<body, bodyT>> /\ held' = 0
  BY DEF CurlStep
<1>2. /\ servos' \in [Legs -> Points] /\ legs' \in [Legs -> Points]
      /\ done => legs' = servos'
      /\ ~done => legs' = legs
  BY <1>0, ConstantFacts, EachTowardFacts DEF CurlStep, PostureOK, SeedLegs
<1>3. Smooth /\ Folding
  <2>1. \A leg \in Legs : \A i \in 1..2 : servos'[leg][i] - servos[leg][i] \in -1..1
    BY <1>0, ConstantFacts, EachTowardFacts DEF CurlStep, PostureOK
  <2>2. -1..1 \subseteq Catching
    BY <1>0, HoldMaxFacts DEF Catching
  <2> QED
    BY <2>1, <2>2 DEF Smooth, Folding
<1>4. TypeOK'
  <2>1. PostureOK' /\ held' \in 0..HoldMax /\ bodyT' \in Points
    BY <1>0, <1>1, <1>2, HoldMaxFacts DEF PostureOK
  <2>2. done \in BOOLEAN
    OBVIOUS
  <2> QED
    BY <1>0, <1>1, <2>1, <2>2, ProceedFacts, TypeParts DEF TypeFacts
<1>5. CASE ~done
  <2>1. UNCHANGED <<steps, state, legs, body>>
    BY <1>0, <1>1, <1>2, <1>5, ProceedFacts
  <2>2. StepsInv' /\ FollowInv' /\ state \in {"SETUP", "SHUTDOWN"}
    BY <1>0, <2>1, StepFacts DEF StepsInv, FollowInv, Following
  <2> QED
    BY <1>1, <1>3, <1>4, <2>1, <2>2 DEF StepOK, IInv
<1>6. CASE done /\ state = "SETUP"
  <2>1. steps' = <<"LegsToNeutral", "RaiseBody">> /\ state' = "SETUP" /\ body' = Origin
    BY <1>0, <1>1, <1>6, ProceedFacts, StepFacts, HeadsAndTails
  <2>2. StepsInv'
    BY <2>1 DEF StepsInv, Rising
  <2>3. Lagging'
    <3> SUFFICES ASSUME NEW leg \in Legs, NEW i \in 1..2
                 PROVE  legs'[leg][i] - body'[i] - servos'[leg][i] \in -2 * held' .. 2 * held'
      BY DEF Lagging
    <3>1. legs'[leg][i] = servos'[leg][i] /\ servos'[leg][i] \in Int /\ body'[i] = 0
      BY <1>2, <1>6, <2>1 DEF Origin, Points
    <3> QED
      BY <1>1, <3>1
  <2> QED
    BY <1>1, <1>3, <1>4, <1>6, <2>1, <2>2, <2>3 DEF StepOK, IInv, FollowInv
<1>7. CASE done /\ state = "SHUTDOWN"
  <2>1. steps' = <<>> /\ state' = "OFF"
    BY <1>0, <1>1, <1>7, ProceedFacts, StepFacts
  <2>2. StepsInv' /\ FollowInv'
    BY <2>1, HeadsAndTails DEF StepsInv, FollowInv, Following
  <2> QED
    BY <1>1, <1>3, <1>4, <1>7, <2>1, <2>2 DEF StepOK, IInv
<1> QED
  BY <1>0, <1>5, <1>6, <1>7, StepFacts

\* While the feet and the body move, the servos follow them.
LEMMA FollowFacts ==
  ASSUME IInv, Following, legs' \in [Legs -> Points], body' \in Points, MovedLittle, ResolveWrite
  PROVE  /\ PostureOK' /\ held' \in 0..HoldMax
         /\ held' < HoldMax => Lagging'
         /\ held < HoldMax => Smooth
         /\ ~EndsHold => NoSlip
<1>1. PostureOK /\ held \in 0..HoldMax
  BY TypeParts DEF TypeFacts, IInv
<1>2. held < HoldMax => Lagging
  BY DEF IInv, FollowInv
<1> QED
  BY <1>1, <1>2, WriteFacts

LEMMA LegsToNeutralStepOK ==
  ASSUME IInv, steps # <<>>, Head(steps) = "LegsToNeutral", LegsToNeutralStep
  PROVE  StepOK
<1>0. TypeOK /\ StepsInv /\ PostureOK /\ bodyT \in Points /\ Following
  BY TypeParts DEF TypeFacts, IInv, Following
<1>1. UNCHANGED <<body, bodyT>> /\ ResolveWrite /\ Proceed(legs' = Neutral)
  BY DEF LegsToNeutralStep
<1>2. legs' \in [Legs -> Points] /\ body' \in Points /\ MovedLittle
  <2>1. \A i \in 1..2 : body'[i] - body[i] \in -1..1
    BY <1>0, <1>1 DEF PostureOK, Points
  <2> QED
    BY <1>0, <1>1, <2>1, ConstantFacts, EachTowardFacts
       DEF LegsToNeutralStep, PostureOK, MovedLittle
<1>3. /\ PostureOK' /\ held' \in 0..HoldMax /\ FollowInv'
      /\ (held < HoldMax => Smooth) /\ (~EndsHold => NoSlip)
  BY <1>0, <1>1, <1>2, FollowFacts DEF FollowInv
<1>4. TypeOK'
  BY <1>0, <1>1, <1>3, ProceedFacts, TypeParts DEF TypeFacts
<1>5. StepsInv' /\ state' = state
  <2>1. CASE legs' # Neutral
    <3>1. UNCHANGED <<steps, state>>
      BY <1>0, <1>1, <2>1, ProceedFacts
    <3> QED
      BY <1>0, <3>1, HeadsAndTails, StepFacts, <1>1 DEF StepsInv
  <2>2. CASE legs' = Neutral /\ state = "SETUP"
    <3>1. steps' = <<"RaiseBody">> /\ state' = "SETUP"
      BY <1>0, <1>1, <2>2, ProceedFacts, StepFacts, HeadsAndTails
    <3> QED
      BY <2>2, <3>1, HeadsAndTails DEF StepsInv, Rising
  <2>3. CASE legs' = Neutral /\ state = "SHUTDOWN"
    <3>1. steps' = <<"LowerBody", "Curl">> /\ state' = "SHUTDOWN"
      BY <1>0, <1>1, <2>3, ProceedFacts, StepFacts, HeadsAndTails
    <3> QED
      BY <2>3, <3>1, RisingIsNotSitting DEF StepsInv, Sitting
  <2> QED
    BY <1>0, <2>1, <2>2, <2>3, StepFacts
<1>6. state \in {"SETUP", "SHUTDOWN"}
  BY <1>0, StepFacts
<1> QED
  BY <1>3, <1>4, <1>5, <1>6 DEF StepOK, IInv

\* The body is raised on feet at neutral: the stand-up ends in the stance.
LEMMA RaiseBodyStepOK ==
  ASSUME IInv, steps # <<>>, Head(steps) = "RaiseBody", BodyStep(Standing)
  PROVE  StepOK
<1>0. TypeFacts /\ TypeOK /\ StepsInv /\ Following
  BY TypeParts DEF IInv, Following
<1>1. /\ bodyT' = Standing /\ body' = Toward(body, Standing) /\ legs' = legs
      /\ ResolveWrite /\ Proceed(body' = Standing)
  BY DEF BodyStep
<1>2. state = "SETUP" /\ legs = Neutral /\ Tail(steps) = <<>>
  BY <1>0, StepFacts
<1>3. legs' \in [Legs -> Points] /\ body' \in Points /\ bodyT' \in Points /\ MovedLittle
  <2>1. \A leg \in Legs : \A i \in 1..2 : legs'[leg][i] - legs[leg][i] \in -1..1
    BY <1>0, <1>1 DEF TypeFacts, PostureOK, Points
  <2> QED
    BY <1>0, <1>1, <2>1, ConstantFacts, TowardFacts DEF TypeFacts, PostureOK, MovedLittle
<1>4. /\ PostureOK' /\ held' \in 0..HoldMax /\ FollowInv'
      /\ (held < HoldMax => Smooth) /\ (~EndsHold => NoSlip)
  BY <1>0, <1>1, <1>3, FollowFacts DEF FollowInv
<1>5. TypeOK'
  BY <1>0, <1>1, <1>3, <1>4, ProceedFacts, TypeParts DEF TypeFacts
<1>6. CASE body' # Standing
  <2>1. UNCHANGED <<steps, state, legs>>
    BY <1>0, <1>1, <1>6, ProceedFacts
  <2>2. StepsInv'
    BY <1>0, <1>2, <2>1, StepFacts, HeadsAndTails DEF StepsInv
  <2> QED
    BY <1>2, <1>4, <1>5, <2>1, <2>2 DEF StepOK, IInv
<1>7. CASE body' = Standing
  <2>1. steps' = <<>> /\ state' = "STAND"
    BY <1>0, <1>1, <1>2, <1>7, ProceedFacts
  <2>2. StepsInv'
    BY <2>1, HeadsAndTails DEF StepsInv
  <2>3. Posture = Stance
    BY <1>1, <1>2, <1>7 DEF Posture, Stance
  <2>4. CanStand => servos' = Stance
    BY <1>1, <2>3 DEF ResolveWrite, Resolve, Reachable, CanStand
  <2> QED
    BY <1>2, <1>4, <1>5, <2>1, <2>2, <2>4 DEF StepOK, IInv
<1> QED
  BY <1>6, <1>7

LEMMA LowerBodyStepOK ==
  ASSUME IInv, steps # <<>>, Head(steps) = "LowerBody", BodyStep(Origin)
  PROVE  StepOK
<1>0. TypeFacts /\ TypeOK /\ StepsInv /\ Following
  BY TypeParts DEF IInv, Following
<1>1. /\ bodyT' = Origin /\ body' = Toward(body, Origin) /\ legs' = legs
      /\ ResolveWrite /\ Proceed(body' = Origin)
  BY DEF BodyStep
<1>2. state = "SHUTDOWN" /\ Tail(steps) = <<"Curl">>
  BY <1>0, StepFacts
<1>3. legs' \in [Legs -> Points] /\ body' \in Points /\ bodyT' \in Points /\ MovedLittle
  <2>1. \A leg \in Legs : \A i \in 1..2 : legs'[leg][i] - legs[leg][i] \in -1..1
    BY <1>0, <1>1 DEF TypeFacts, PostureOK, Points
  <2> QED
    BY <1>0, <1>1, <2>1, ConstantFacts, TowardFacts DEF TypeFacts, PostureOK, MovedLittle
<1>4. /\ PostureOK' /\ held' \in 0..HoldMax /\ FollowInv'
      /\ (held < HoldMax => Smooth) /\ (~EndsHold => NoSlip)
  BY <1>0, <1>1, <1>3, FollowFacts DEF FollowInv
<1>5. TypeOK'
  BY <1>0, <1>1, <1>3, <1>4, ProceedFacts, TypeParts DEF TypeFacts
<1>6. state' = "SHUTDOWN" /\ steps' \in Sitting
  <2>1. steps \in Sitting /\ <<"Curl">> \in Sitting /\ <<"Curl">> # <<>>
    BY <1>0, <1>2, HeadsAndTails DEF StepsInv, Sitting
  <2> QED
    BY <1>0, <1>1, <1>2, <2>1, ProceedFacts
<1>7. StepsInv'
  BY <1>6, RisingIsNotSitting DEF StepsInv
<1> QED
  BY <1>2, <1>4, <1>5, <1>6, <1>7 DEF StepOK, IInv

\* A walk moves feet and body within a tick's worth, and the servos with them.
LEMMA RunActiveOK ==
  ASSUME IInv, RunActive
  PROVE  StepOK
<1>0. TypeFacts /\ StepsInv /\ Following /\ state = "STAND"
  BY TypeParts DEF IInv, Following, RunActive
<1>1. ResolveWrite /\ UNCHANGED <<state, steps, bodyT>> /\ body' = Toward(body, bodyT)
  BY DEF RunActive
<1>2. legs' \in [Legs -> Points]
  BY ConstantFacts DEF RunActive
<1>3. \A leg \in Legs : \A i \in 1..2 : legs'[leg][i] - legs[leg][i] \in -1..1
  <2>1. \A leg \in Legs : Toward(legs[leg], legs'[leg]) = legs'[leg]
    BY DEF RunActive
  <2> SUFFICES ASSUME NEW leg \in Legs
               PROVE  \A i \in 1..2 : legs'[leg][i] - legs[leg][i] \in -1..1
    OBVIOUS
  <2>2. legs[leg] \in Points /\ legs'[leg] \in Points
    BY <1>0, <1>2 DEF TypeFacts, PostureOK
  <2>3. \A i \in 1..2 : Toward(legs[leg], legs'[leg])[i] - legs[leg][i] \in -1..1
    BY <2>2, TowardFacts
  <2> QED
    BY <2>1, <2>3
<1>4. body' \in Points /\ MovedLittle
  BY <1>0, <1>1, <1>3, TowardFacts DEF TypeFacts, PostureOK, MovedLittle
<1>5. /\ PostureOK' /\ held' \in 0..HoldMax /\ FollowInv'
      /\ (held < HoldMax => Smooth) /\ (~EndsHold => NoSlip)
  BY <1>0, <1>1, <1>2, <1>4, FollowFacts DEF FollowInv
<1>6. TypeOK'
  BY <1>0, <1>1, <1>5, TypeParts DEF TypeFacts
<1>7. StepsInv'
  BY <1>0, <1>1, HeadsAndTails DEF StepsInv
<1> QED
  BY <1>0, <1>1, <1>5, <1>6, <1>7 DEF StepOK, IInv

LEMMA NextStep == IInv /\ Next => StepOK
<1> SUFFICES ASSUME IInv, Next PROVE StepOK
  OBVIOUS
<1>1. RunStep => StepOK
  BY CurlStepOK, LegsToNeutralStepOK, RaiseBodyStepOK, LowerBodyStepOK DEF RunStep
<1> QED
  BY <1>1, CommandStep, RunActiveOK DEF Next

LEMMA StutterKeepsIInv == IInv /\ UNCHANGED vars => IInv'
BY DEF vars, IInv, TypeOK, StepsInv, FollowInv, Following, Lagging

-----------------------------------------------------------------------------
(* The theorems *)

THEOREM Invariance == Spec => []IInv
<1>1. IInv /\ [Next]_vars => IInv'
  BY NextStep, StutterKeepsIInv DEF StepOK
<1> QED
  BY <1>1, InitIInv, PTL DEF Spec

\* Feet left at their distance are kept at it, by every leg or by none.
THEOREM NoFootSlips == Spec => PlantedFeetStay
<1>1. IInv /\ [Next]_vars =>
        [Powered /\ Powered' /\ ~Folding /\ ~EndsHold => \A a, b \in Legs : SameDistance(a, b)]_vars
  BY NextStep DEF StepOK, NoSlip
<1> QED
  BY <1>1, Invariance, PTL DEF Spec, PlantedFeetStay

\* A powered robot's servos never jump, but by the moves that a hold left out.
THEOREM NoJumps == Spec => MovesOnFromWhereItIs
<1>1. IInv /\ [Next]_vars => [Powered /\ Powered' /\ held < HoldMax => Smooth]_vars
  BY NextStep DEF StepOK
<1> QED
  BY <1>1, Invariance, PTL DEF Spec, MovesOnFromWhereItIs

\* Every stand-up ends in the stance, if the legs reach it, and every sit-down
\* folded.
THEOREM Arrivals == Spec => AnimationsArrive
<1>1. ASSUME IInv, [Next]_vars
      PROVE  [/\ state = "SETUP" /\ state' = "STAND" /\ CanStand => servos' = Stance
              /\ state = "SHUTDOWN" /\ state' = "OFF" => servos' = Folded]_vars
  BY <1>1, NextStep DEF StepOK
<1> QED
  BY <1>1, Invariance, PTL DEF Spec, AnimationsArrive
=============================================================================
