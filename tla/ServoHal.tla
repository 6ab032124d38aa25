------------------------------- MODULE ServoHal -------------------------------
(***************************************************************************)
(* hal::Servo2040 (src/communication/servo2040_hal.hpp): the power cutoff  *)
(* pin, the servo outputs and the jog, under the two users that share      *)
(* them: the robot, which powers the board for a stand-up and cuts it at a *)
(* fault or the end of a sit-down, and the dispatcher, which jogs and      *)
(* provisions the board while the robot is de-energized (router.hpp).      *)
(*                                                                         *)
(* Logical channels and physical outputs are both 0..N-1. Angles and LEDs  *)
(* are left out: what counts is which output is enabled, whether its pulse *)
(* is a joint angle or raw, whose calibration it has, and whether the rail *)
(* is on.                                                                  *)
(***************************************************************************)
EXTENDS Integers, FiniteSets

CONSTANTS
  N,          (* cfg::N_SERVOS                                            *)
  PinBytes    (* the pins a ProvisionPins message may name, valid or not  *)

ASSUME NAssumption == N \in Nat \ {0} /\ N < 256

ASSUME PinBytesAssumption == PinBytes \subseteq 0..255

Channels == 0..(N - 1)

VARIABLES
  energized,    (* Robot::energized_                                      *)
  railPin,      (* the level of POWER_CUTOFF_PIN                          *)
  enabled,      (* per output: is its PWM enabled                         *)
  pulse,        (* per output: "pose", from write_servos, or "jog", raw   *)
  pinMap,       (* pin_map_: the output of each channel                   *)
  calOf,        (* per output: the channel whose calibration it was given;
                   N: none yet                                            *)
  jogHeld,      (* jog_held_                                              *)
  jogActive,    (* jog_active_                                            *)
  repinned,     (* history: the pins changed while a servo was held       *)
  calCurrent    (* history: all calibrations were applied under this pin map *)

jog     == <<jogHeld, jogActive>>
power   == <<energized, railPin, enabled>>
output  == <<pulse, repinned>>
wiring  == <<pinMap, calOf, calCurrent>>
vars    == <<power, output, wiring, jog>>

TypeOK ==
  /\ energized \in BOOLEAN /\ railPin \in BOOLEAN /\ {calCurrent, repinned} \subseteq BOOLEAN
  /\ enabled \in [Channels -> BOOLEAN]
  /\ pulse \in [Channels -> {"pose", "jog"}]
  /\ pinMap \in [Channels -> Channels]
  /\ calOf \in [Channels -> 0..N]
  /\ jogHeld \in [Channels -> BOOLEAN]
  /\ jogActive \in 0..N

Init ==
  /\ energized = FALSE
  /\ railPin = FALSE
  /\ enabled = [p \in Channels |-> FALSE]
  /\ pulse = [p \in Channels |-> "pose"]
  /\ repinned = FALSE
  /\ pinMap = [c \in Channels |-> c]
  /\ calOf = [p \in Channels |-> N]
  /\ jogHeld = [c \in Channels |-> FALSE]
  /\ jogActive = 0
  /\ calCurrent = FALSE

-----------------------------------------------------------------------------
(* The robot: set_power() *)

SetPower(on) ==
  /\ railPin' = on
  /\ enabled' = [p \in Channels |-> on]

\* Robot::start_stand_up, at rest only.
Energize ==
  /\ ~energized
  /\ SetPower(TRUE)
  /\ energized' = TRUE
  /\ UNCHANGED <<output, wiring, jog>>

\* Robot::trip_fault, or the end of a sit-down.
DeEnergize ==
  /\ energized
  /\ SetPower(FALSE)
  /\ energized' = FALSE
  /\ repinned' = FALSE
  /\ UNCHANGED <<pulse, wiring, jog>>

Wired == {pinMap[c] : c \in Channels}

\* Every tick of an energized robot, and every provisioning that moves the rest
\* pose of one that is not. Whether setting a value also enables an output is the
\* servo driver's.
WriteServos ==
  /\ pulse' = [p \in Channels |-> IF p \in Wired THEN "pose" ELSE pulse[p]]
  /\ enabled' \in {enabled, [p \in Channels |-> enabled[p] \/ p \in Wired]}
  /\ UNCHANGED <<energized, railPin, repinned, wiring, jog>>

-----------------------------------------------------------------------------
(* The dispatcher, while the robot is de-energized *)

Provisionable_Always == TRUE

Provisionable == ~energized

\* jog_servo() to a pulse: the rail comes on with the first held servo.
Hold(c) ==
  /\ Provisionable
  /\ railPin' = (railPin \/ jogActive = 0)
  /\ enabled' = [enabled EXCEPT ![pinMap[c]] = TRUE]
  /\ pulse' = [pulse EXCEPT ![pinMap[c]] = "jog"]
  /\ jogHeld' = [jogHeld EXCEPT ![c] = TRUE]
  /\ jogActive' = IF jogHeld[c] THEN jogActive ELSE jogActive + 1
  /\ UNCHANGED <<energized, repinned, wiring>>

ReleaseSetting(c, rail, outputs) ==
  /\ Provisionable
  /\ jogHeld' = [jogHeld EXCEPT ![c] = FALSE]
  /\ jogActive' = IF jogHeld[c] THEN jogActive - 1 ELSE jogActive
  /\ railPin' = (railPin /\ (rail \/ jogActive' # 0))
  /\ enabled' = outputs
  /\ UNCHANGED <<energized, output, wiring>>

Release_KeepsRail(c) == ReleaseSetting(c, TRUE, [enabled EXCEPT ![pinMap[c]] = FALSE])
Release_KeepsOutput(c) == ReleaseSetting(c, FALSE, enabled)
\* jog_servo() to 0: the rail goes off with the last one.
Release(c) == ReleaseSetting(c, FALSE, [enabled EXCEPT ![pinMap[c]] = FALSE])

\* ProvisionPins: a pin the board does not have leaves its channel as it was.
ProvisionPins(pins) ==
  /\ Provisionable
  /\ pinMap' = [c \in Channels |-> IF pins[c] < N THEN pins[c] ELSE pinMap[c]]
  /\ calCurrent' = (calCurrent /\ pinMap' = pinMap)
  /\ repinned' = (repinned \/ (pinMap' # pinMap /\ \E c \in Channels : jogHeld[c]))
  /\ UNCHANGED <<calOf, power, pulse, jog>>

Calibrate(by) ==
  /\ Provisionable
  /\ calOf' \in {cal \in [Channels -> 0..N] :
                 \A p \in Channels :
                   LET drivers == {c \in Channels : by[c] = p}
                   IN  IF drivers = {} THEN cal[p] = calOf[p]
                       ELSE cal[p] \in drivers /\ \A c \in drivers : c <= cal[p]}
  /\ calCurrent' = TRUE
  /\ UNCHANGED <<pinMap, power, output, jog>>

ProvisionServoCal_ByChannel == Calibrate([c \in Channels |-> c])
\* ProvisionServoCal: channel after channel, each to the output it drives now;
\* of two channels wired to one output the later wins.
ProvisionServoCal == Calibrate(pinMap)

Next ==
  \/ Energize
  \/ DeEnergize
  \/ \E c \in Channels : Hold(c) \/ Release(c)
  \/ \E pins \in [Channels -> PinBytes] : ProvisionPins(pins)
  \/ ProvisionServoCal
  \/ WriteServos

Spec == Init /\ [][Next]_vars

-----------------------------------------------------------------------------
(* Properties *)

Held == {c \in Channels : jogHeld[c]}

\* The counter that decides over the rail counts the held servos, whatever is
\* held twice, released twice, re-wired meanwhile or carried over a stand-up.
JogCountIsHeld == jogActive = Cardinality(Held)

\* The rail is never on without a reason: an energized robot, or a held servo.
RailHasAReason == railPin => energized \/ Held # {}

\* While the robot is energized no jog takes the rail or an output from under
\* it, even one begun before the stand-up and released after it.
RobotKeepsItsPower == energized => railPin /\ \A p \in Channels : enabled[p]

\* A servo let go is let go: no output of a robot at rest is still driven by a raw
\* pulse unless the servo it drives is held, through holds and releases of servos
\* that share an output, stand-ups, faults and provisionings; except that pins
\* changed under a held servo leave the output it had behind.
JogsAreTracked ==
  ~energized /\ ~repinned =>
    \A p \in Channels : enabled[p] /\ pulse[p] = "jog" => \E c \in Held : pinMap[c] = p

IsPermutation == \A c, d \in Channels : pinMap[c] = pinMap[d] => c = d

\* Pins before calibration: each channel's output has that channel's own
\* calibration, whatever wirings and calibrations went before.
CalibrationFollowsPins ==
  calCurrent /\ IsPermutation => \A c \in Channels : calOf[pinMap[c]] = c

\* hardware.hpp and servo2040_hal.hpp: a jog energizes the rail on demand.
JogEnergizesTheRail == [][\A c \in Channels : Hold(c) => railPin']_vars
=============================================================================
