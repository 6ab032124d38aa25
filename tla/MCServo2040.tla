------------------------------ MODULE MCServo2040 ------------------------------
(***************************************************************************)
(* Instances of hal::Servo2040 for TLC: the rail and the servos (ServoHal) *)
(* and the LED strip (Leds) of one board. Three servos, the first and the  *)
(* last pin, and one pin too many; half periods of none, less than a tick, *)
(* and some ticks.                                                         *)
(*                                                                         *)
(* The two share no state, so whatever a run of the board does to one of   *)
(* them, it does to it also in a run that leaves the other as it was at    *)
(* boot. These are the runs that TLC looks at: the states of the two add   *)
(* up, where those of all interleavings multiply.                          *)
(***************************************************************************)
EXTENDS ServoHal, Leds

VARIABLE moves   (* the half of the board that this run is about           *)

MCPinBytes == {0, N - 1, N}

MCHalves == {0, 2, 7}

BoardInit == Init /\ LedsInit /\ moves \in {"servos", "strip"}

BoardNext ==
  \/ moves = "servos" /\ Next /\ UNCHANGED <<moves, ledVars>>
  \/ moves = "strip" /\ LedsNext /\ UNCHANGED <<moves, vars>>

BoardSpec == BoardInit /\ [][BoardNext]_<<moves, vars, ledVars>>
=============================================================================
