------------------------------- MODULE MCPose -------------------------------
(***************************************************************************)
(* Pose with one leg on either side. A leg reaches so far out and down     *)
(* that the body may shift or rise a little, not both; and not to a foot   *)
(* under the body.                                                         *)
(***************************************************************************)
EXTENDS Pose

MCLegs == {1, 2}
MCNeutral == <<<<4, 0>>, <<-4, 0>>>>
MCFolded == <<<<1, 1>>, <<-1, 1>>>>
MCReach == {p \in (-8..8) \X (-8..2) : p[1] # 0 /\ Abs(p[1]) + Abs(p[2]) <= 8}
MCStride == {<<-1, 0>>, <<0, 0>>, <<0, 1>>}
MCBodyPoses == {<<0, 4>>, <<3, 4>>, <<3, 1>>, <<-1, 3>>}
=============================================================================
