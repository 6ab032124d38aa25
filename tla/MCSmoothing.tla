------------------------------ MODULE MCSmoothing ------------------------------
(***************************************************************************)
(* Instances of Smoothing for TLC, in units of 0.1 mm/s: the shipped limit *)
(* and a smaller one, full speed both ways and too fast, a command below   *)
(* the deadband; ticks on time, one period late and stuck for 120 ms.      *)
(***************************************************************************)
EXTENDS Smoothing

MCCommands == {-3000, 0, 3, 700, 4000, NaN}
MCLimits == {1000, 3000}

\* The slowest decay: the longer time constant and ticks on time.
MCDecay[n \in 0..SettleTicks] ==
  IF n = 0 THEN 3000
  ELSE LET left == Rounded(MCDecay[n - 1] * 50, 50 + 20) IN IF left < Deadband THEN 0 ELSE left

ASSUME ZeroInTime == Settles(MCDecay)
=============================================================================
