------------------------------- MODULE MCRobot -------------------------------
(***************************************************************************)
(* Instances of Robot for TLC. A time unit is a control period; a tick may *)
(* see one or two of them (the loop's jitter).                             *)
(***************************************************************************)
EXTENDS Robot, TLC

MCGaits == {"TRIPOD", "WAVE"}

\* The axes of a velocity command are interchangeable.
AxisSymmetry == Permutations(Axes)
=============================================================================
