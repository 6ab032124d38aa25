# A TLA+ model of the hexapod firmware

The firmware runs on a Servo2040 board between a Raspberry Pi and the eighteen
servos of a six-legged robot. The Pi sends framed commands over a UART; the
board keeps the robot's lifecycle, walks, and answers queries. This directory
models the parts of it that decide *when* something happens: the state machine,
the gait's phase, the pose and velocity it is given, the frame parser, the
dispatcher, the main loop between its FIFOs, the servo rail and the LEDs. Files are
named as in the repository; `robot.hpp:245` is line 245 of `src/core/robot.hpp`.

## 1. Inventory

| Component | State it keeps | Operations | Talks to |
|---|---|---|---|
| main loop, `src/main.cpp` | `last_us` | drain the UART; tick at 50 Hz | parser, router, robot |
| frame parser, `communication/protocol.hpp` | `phase_`, `length_`, `opcode_`, `idx_`, `crc_`, `rx_crc_`, `payload_` | `feed`, `encode_frame` | fed by the main loop |
| dispatcher, `core/router.hpp` | none of its own; assigns `cfg::` | `dispatch` | robot's intent API, `cfg::` |
| robot, `core/robot.hpp` | lifecycle state, velocities, body and foot targets, servo angles, sequencer, watchdog, odometry | `enable`, `shutdown`, `stop`, `set_*`, `heartbeat`, provisioning, `update` | gait generator, hardware interface |
| gait generator, `core/gait.hpp` | gait, phase, `walking_`, `stopping_`, `stop_left_`, held request | `set_gait`, `reset`, `update`, `reconfigure` | used by robot |
| servo board, `communication/servo2040_hal.hpp` | rail pin, PWM outputs, pin map, calibrations, jog bookkeeping, LEDs | `set_power`, `jog_servo`, `set_servo_pin`, `set_servo_calibration`, `write_servos`, `read_servos` | driven by robot, and by the dispatcher through it |
| configuration, `core/config.hpp` | the provisionable globals | assigned by the dispatcher | read everywhere |
| kinematics, `core/kinematics.hpp`, `utils/math.hpp` | none | forward and inverse kinematics | used by robot |
| `protocol_test.py` | none | polls telemetry | the wire |

Everything on the board runs in one thread: no interrupt handler and no second
core touches this state. So a tick and a dispatched frame are each atomic, and
the concurrency is in their *order*: any command may arrive between any two
ticks, and the line may deliver anything.

What is hard, and what correctness means there:

* **robot** - faults and the watchdog break in anywhere; an animation must run
  to its end whatever is commanded; nothing of the life before a fault may show
  after the next `enable()`; power may be cut only under a folded robot.
* **gait** - stops can be cancelled and repeated, gaits switched at any moment,
  and yet no foot may jump, and the cycle must come to rest with every foot down.
* **parser** - resynchronisation after noise, cut frames and damage; state of an
  earlier frame leaking into the next.
* **dispatcher** - two tables (`kind_of` and the `switch`) that must agree;
  refusals that must do nothing; provisioning at rest only.
* **servo board** - two users of one rail; a counter that must follow what is
  held; calibrations that depend on the wiring at the time they are applied.
* **main loop** - bytes keep arriving while it sends a reply or steps the robot:
  the FIFO must bridge that, ticks must come in time, and a watchdog that is
  fed late must not trip on a link in use.
* **pose** - feet, body and servos are three records of one posture; a held
  pose, a new animation or a fault must not make them part.

`PROJECT.json` lists each hazard at its line with the properties that cover it.

## 2. Modules

| Module | Models | State ↔ code |
|---|---|---|
| `Lifecycle` | what the firmware promises of its states (`protocol.hpp:48-60`): abstract specification | `state`, `rail` |
| `GaitCycle` | the generator as the robot sees it: abstract specification, composed into `Robot` | `gait_`, `walking_`, `stopping_`, `stop_left_`, `pending_gait_`, `has_pending_` |
| `Robot` | `robot::Robot`, all of its operations | the private members of `Robot`, see below |
| `Gait` | `gait::Generator`, with the phase and the shipped pattern tables; implements `GaitCycle` | as `GaitCycle`, and `phase_` in integer units |
| `Pose` | where `Robot` wants feet and body, what it makes of that, and what it holds when a foot is out of reach | `leg_`, `body_pos_`, `body_rpy_`, their targets, `servos_`, `seq_` |
| `Smoothing` | the velocity command: clamp, low-pass, deadband | `tvx_`..`twz_`, `cvx_`..`cwz_`, `cfg::LIN_VEL_MAX`, `VEL_SMOOTH_TAU` |
| `Crc16`, `FrameParser` | `crc16_update`; `FrameParser::feed`, `encode_frame`, and a line | the parser's members; `wire`, `sent`, `damaged` are the line |
| `Router` | `router::dispatch`, composed with `Robot`; implements it | `frame`, `reply`, `config` |
| `MainLoop` | the loop of `main()` between the UART FIFOs, with the sender and the watchdog | `last_us` (as `sinceTick`), the loop variables, `since_cmd_` |
| `ServoHal` | the rail, outputs, pins and jog of `hal::Servo2040` | `POWER_CUTOFF_PIN`, `pin_map_`, `jog_held_`, `jog_active_` |
| `Leds` | `set_led`, `update_leds` and their clock | `led_mode_`, `led_freq_` (as `half`), `led_toggle_us_`, `led_on_` |
| `MC*` | instances for TLC; `MCServo2040` is of `ServoHal` and `Leds`, the two halves of the board | |
| `RobotProofs` (with `Router`), `ServoHalProofs`, `GaitProofs`, `FrameParserProofs`, `PoseProofs`, `SmoothingProofs`, `LedsProofs`, `MainLoopProofs` | theorems | |

    Lifecycle  <-- implemented by --  Robot  <-- implemented by --  Router
                                        |
    GaitCycle  <--- composed into ------+
        ^------ implemented by --  Gait

`Pose` and `Smoothing` open up what `Robot` abstracts to the time a move still
needs; `MainLoop` opens up what `Robot` and `Router` assume of the loop: that
ticks and frames interleave, and that ticks go on. These are links by reading,
not by refinement.

Definitions named `X_Something` beside a definition `X` (`LinkLost_OnTargets`,
`TakeLen_DropsSof`) are seeded faults: plausible slips in that piece of code,
each of which makes one of the properties fail when it stands in for `X`. No
specification uses them.

### Robot

An action per method of the intent API, one for each kind of provisioning, and
`Tick`, which is all of `update(dt)`: readings, over-current, then sequencer,
`run_active` or nothing by state. `energized_` and the level last given to
`set_power` are separate variables (`energized`, `power`).

Geometry is left to what control flow reads from it. A rate-limited move
(`slew_legs`, `slew_body`, `curl_step`) is the *time it still needs*: `legs`,
`bodyErr`, `fold`. It shrinks by the tick's `dt` and is done when no more than
`dt` is left, as in the code (`d > step`). Where the code computes a new target
or seeds a position by kinematics, the distance is any value. `board` is what
the servo board holds, as its distance to the fold: it parts from `fold` when a
jog or a pin change moves it behind the robot's back. `resolve_write()` either
writes new angles or, with a foot out of reach, the old ones again: both are
choices. A velocity axis is `tv` (is the target nonzero) and `cv` (ticks the
smoothed value needs to enter the deadband once the target is zero).

Two actions deserve a word. `Advancing` ties the gait's `max_speed > 1e-3` to
the smoothed velocity: with every target zero the velocity is zero or above the
deadband. `MoveBody` sets its target on every tick, as `RaiseBody` and
`LowerBody` do, and measures the distance anew only when that is a change.

### Gait

`setup` holds the duty and overlap of every gait, which `ProvisionGaits`
changes while the robot is at rest, under the phase as it is. `driven` says that
the feet follow the generator: from a `Reset` until `Abandon`, which is a
sit-down or a fault in mid-stride and leaves the cycle as it was. `moving` says
what the next `update()` will find of the velocity it is given: some foot has to
move (`max_speed > 1e-3`), or none. `Command` changes it between any two ticks,
for a new target as for a velocity that fades; whatever takes the feet off the
generator zeroes it.

Phase is an integer in `0..Cycle-1`. The instance has 1200 units to a cycle,
which represents the group offsets 1/2, 1/3, 1/6 and the duties 0.55 and 0.67
exactly; 0.8333 is 999.96 units and is rounded down to 999, so that the wave's
swings overlap by a sliver as they do in the code. `SwingLength \div 50` is
`REST_TOL`. `RestDistance` is the loop of `rest_distance()`, with its
seven rounds, tabulated by setup, gait and phase. `CanRest` says whether a
gait, as provisioned, comes to rest from every phase; of one that does not (a
tripod with a duty of 0.45 is among the provisioned gaits) nothing can be
promised and nothing is. In the run's setups that is every gait that has all
feet down at some phase, which `MCGait` assumes and TLC evaluates; see point 6
below for one that has, and does not get there.
`reset()` is called by the robot only while the feet are driven by something
else, which is why `Reset` needs `~driven`.

### Pose

A leg's angles are given by the place of its foot relative to the body: within
`Reach` that is a bijection (`kin::inverse`, `kin::forward`), and outside it
`resolve()` fails. Places are points of a small grid, a rate-limited move is one
unit along each axis a tick, `body` stands for position and orientation.
`held` is a history variable: the writes that have held the same posture, up to
`HoldMax`. It says how much of a move the servos have yet to make good.
Joint clamps (`cfg::RANGE`) are taken not to bind within `Reach`.

### Smoothing

Each axis is smoothed for itself, in units of 0.1 mm/s, rounded; `NaN` is a value of its
own that passes `Clamp` and stays in `Filtered`, as IEEE comparisons and
arithmetic have it. `held` is a history variable: ticks since the target last
changed.

### MainLoop

Time is counted in byte times of the line (10.9 us at 921600 baud). The loop's own
instructions take none; what takes time is sending into a full transmit FIFO
(`Push` waits for `Room`) and `Robot::update()` (`working`). Whenever the loop
waits, `Elapse` passes a byte time: the hardware shifts one byte out and one in,
and drops the one that finds the receive FIFO full. Frames are queries and
commands. The parser is reduced to what a cut frame does to it: it counts the
bytes the frame announced and drops the result if one is missing (`Intact`).
The sender is `protocol_test.py` together with a command stream: it has `Window`
queries unanswered at most, gives up after `Patience`, and paces its commands.

### FrameParser

Bytes, the CRC and `MAX_PAYLOAD` are parameters. The line carries three things:
whole frames begun while the parser hunts for a start of frame, frames with one
byte behind LEN changed, and arbitrary noise, which may also cut a frame short.
`recent` is a history variable: the bytes since the parser last hunted.

A damaged LEN is not `Corrupt`ion but noise: it makes the parser read a
different number of bytes, and only the CRC stands between that and a forged
frame; `NoForgedFrame` says what is left to say about it. Bytes taken for a
false frame are lost, and there is no inter-byte timeout. `ResyncIsBounded`
therefore reads: whenever the parser is not hunting, an SOF is among the last
`LEN+4` bytes it took at most. With SOF bytes inside payloads a parser out of
step may start on a false frame again and again; that it recovers then is not
promised by the code and not claimed here.

### Router

A frame is its opcode, whether its length is the right one, and whether the id
in it exists (SetGait, JogServo). `config` flips with each section that is
applied. The dispatcher calls `Robot`'s actions, so the product is the robot
behind the wire, and `ImplementsRobot` is the specification of `Robot` itself.

### ServoHal

Two users share the rail: `Energize`/`DeEnergize` are the robot's, the others
the dispatcher's while the robot is at rest. `calOf` is the channel whose
calibration an output carries; `calCurrent` remembers whether all calibrations
were applied under the present wiring. `pulse` says whether the last value of an
output was an angle or a raw jog; `WriteServos` is any `write_servos()`, by a
tick or by `reconfigure()`. Whether the servo driver enables an output that is
given a value is its own affair, and a choice here. `repinned` excepts the one
way to lose track of a jog: new pins while a servo is held.

### Leds

`half` is `half_us`, or `None` for a frequency that is not positive. Ticks come
every `Period`, or up to `Late` later; a `SetLed` comes at any moment. For a NaN
or next to no frequency the conversion to `uint64_t` is undefined; the board's
yields 0 or a value longer than any run, and a short and a long half period
stand for them.

## 3. Runs

| Run | Question | States | Bounds, and why they suffice |
|---|---|---|---|
| `robot` | the robot's invariants and action properties; its animations end, a silent link ends all motion, a stop settles | 115,000 | two axes (an axis can stop while another moves), ticks of one and two periods, a timeout of 2, moves of 0..2 units, stops of 0..3: each animation step takes one tick or several, a stop may outlast the watchdog, which expires in IDLE and in WALK, and its count may pass the timeout in animations, where it must not matter |
| `gait` | feet, stops, freezes, held gaits, provisioned gaits; refinement of `GaitCycle`; a zero velocity freezes the cycle | 233,000 | the three shipped gaits, and a setup with overlapping groups and a tripod that never rests; ticks of 20 ms and 40 ms |
| `pose` | planted feet, jumps, animations arrive | 236,000 | two legs, a grid of some 16 by 10 places, body poses with the feet in reach, out of it for one leg, and out for both; holds are counted to 6, and writes that make good a hold move a servo by up to 4 |
| `smoothing` | settling, no overshoot | 149,000 | one axis (each is smoothed for itself), units of 0.1 mm/s, two limits, tau 0 and 50 ms, ticks of 20, 40 and 120 ms, commands at, below and past the limit, within the deadband, and NaN |
| `main_loop` | bytes, ticks, replies and the watchdog of a well-paced sender | 471,000 | everything scaled down to a FIFO of 5 bytes, keeping the order: query < FIFO, reply > query, an update longer than the FIFO fills; with one byte less of FIFO, or one byte time less of command gap, `NothingLost` fails. That the instance is one the theorems speak of (`Paced`, `Deep`, `Spaced`) is an `ASSUME`. A FIFO of 3 bytes shows what is left when bytes are lost. |
| `frame_parser` | what is handed out is what arrived | 266,000 | 3-bit bytes, payloads of 0, 1 and 2 bytes, a 6-bit CRC of the same construction, SOF also as opcode and payload; three messages, four noise bytes. The real polynomial at the real width is checked against the CRC-16/CCITT check value in an `ASSUME`. |
| `servo2040` | rail, counter, outputs, jogs, calibrations; steady and blinking LEDs | 251,000 | three servos, pins 0, 2 and one too many: two channels can be swapped, or share an output while a third does not; half periods of 0, less than a tick, and some ticks |
| `router` | replies, refusals, provisioning, refinement of `Robot` | 73,000 | every opcode in every state; animations as short as they get |
| `robot_low_voltage`, `robot_lost_link`, `servo_hal_jog`, `main_loop_flood` | what the repository says and the code does not do | | see section 6 |

The servos and the LED strip share no state and each has its own invariants, so
a behaviour of the board shows each of them a behaviour of its own, with stutters.
`servo2040` therefore lets one half move and leaves the other as it is at boot,
either one: the states of the two add up instead of multiplying.

The narrow CRC detects every single changed byte, as the real one does (a burst
of at most 8 bits against a 16-bit CRC); it does not, and the real one does
not, detect everything that noise can put together, which is why
`NoForgedFrame` compares with the bytes received and not with those sent.

The properties, by module:

* `Robot`: `NoStaleMotion`, `IdleIsStill`, `WalkEndsWithTheLink`,
  `BoardHoldsCommand`; `PowerCutIsSafe`, `StandUpIsComplete`,
  `GaitSwitchesAtRest`, `HeldGaitTakesEffect`; `ImplementsLifecycle`,
  `LinkLossEndsMotion`, `StopSettles`. Of the watchdog these say what the code
  and the repository agree on, that a walk and all motion end with the link;
  where they part is a run of its own (section 6).
* `Gait`: `FrozenIsGrounded`, `StopIsExact`, `FeetMoveContinuously`,
  `ImplementsGaitCycle`, `ZeroCommandFreezes`.
* `Pose`: `PlantedFeetStay`, `MovesOnFromWhereItIs`, `AnimationsArrive`.
* `Smoothing`: `ZeroSettles`, `NeverOvershoots`.
* `MainLoop`: `NothingLost`, `TickIsPunctual`, `TripIsDeserved`,
  `TripIsPrompt`, `ReplyIsExpected`.
* `Leds`: `NoShortPhase`, `NoLongPhase`.
* `FrameParser`: `TypeOK`, which bounds the index into the payload;
  `NoForgedFrame`, `FrameGetsThrough`, `DamageIsDetected`, `ResyncIsBounded`.
* `ServoHal`: `RailHasAReason`, `JogsAreTracked`, `RobotKeepsItsPower`,
  `CalibrationFollowsPins`.
* `Router`: `ReplyMatchesKind`, `ConfigChangesAtRest`, `ImplementsRobot`.

A few more are proved and, that being more than a run can show, no longer run:
the type invariants of all modules but `FrameParser`,
`RailMatchesState`, `OdometryRestarts`, `LifecycleSteps` (the safety part of
`ImplementsLifecycle`), `JogCountIsHeld`, `RefusalIsInert` and
`PollingIsNoHeartbeat`.

### Fairness

`Robot` and `Gait` assume weak fairness of `Tick` and of nothing else: no
command ever has to arrive. In `Gait` a tick under a zero velocity leaves a
frozen cycle as it is, so that a robot which is told to stand may stand for ever:
that is the behaviour `ZeroCommandFreezes` is about. `MainLoop` shows what that rests on: for a sender
that waits for its replies a tick is late by a reply's overhang over the
transmit FIFO at most (`TickIsPunctual`, a safety property, also when bytes are
lost), and for one that does not, ticks may never come again although the
processor and the clock go on (`main_loop_flood`, under weak fairness of `Loop`
and `Elapse`). The liveness results of `Robot` assume the former.

In real numbers: the receive FIFO of 32 bytes bridges 347 us. A query is 5
bytes, the longest reply 77, so a reply keeps the loop for some 490 us after the
transmit FIFO is full; whether the FIFO overflows is a matter of how the Pi
paces its frames (a velocity and a body pose back to back are 46 bytes). `Deep`
says how: a command of at most 27 bytes, and from one to the next its own bytes,
the time of an update and 12 byte times more, and no less than an update takes.
`Spaced` asks only for the last of these and for 45 byte times between commands,
a reply's overhang, whatever the FIFO.

## 4. Proofs

TLAPS checks these for every value of the constants that satisfies the named
assumptions of the modules: bounds are naturals, tick lengths positive, TRIPOD
a gait, readings of two kinds; at least one and at most 255 servos; places in
`Pose` are pairs of integers; a cycle in `Gait` has a length, and its groups,
duties and overlaps lie in it; half periods in `Leds` are finitely many. Two
assumptions are about the code rather than about bounds. `CrcAssumption` says
that the CRC's update is one-to-one in the register and in the byte; TLC checks
it of the narrow CRC, and of the real one that its shift is one-to-one.
`Paced`, `Deep` and `Spaced`, of the sender and the FIFOs, are not assumed by
`MainLoop` but are hypotheses of the theorems that need them, and so is `Settles`
of the numbers in `Smoothing`; TLC evaluates all four for the instances it runs.

**`RobotProofs`.** `IInv` is the type invariant, five safety invariants, and
four parts that the properties need one step earlier:

* `WatchdogInv`: the watchdog's count is within the timeout in IDLE as in WALK;
  of a walk alone (`WalkEndsWithTheLink`) it would not be inductive, a robot
  being free to start one with the count it has;
* `RisingInv`: a running stand-up is at one of its three steps; past
  `LegsToNeutral` the feet are at neutral, and the gait has not run since
  `start_stand_up()` reset it. Without it `finalize_sequence()` could find the
  feet anywhere (`StandUpIsComplete`, `IdleIsStill`);
* `SittingInv`: a running sit-down is at one of its three steps; past
  `LowerBody` the body lies on the ground. Without it the power could be cut
  under a standing robot (`PowerCutIsSafe`);
* `GaitInv`: a gait is held only while the cycle runs, and a standing robot
  whose cycle is frozen has its feet at neutral (`IdleIsStill`,
  `GaitSwitchesAtRest`). `walking` itself may stay true across a sit-down or a
  fault, which is why nothing stronger holds.

`Invariance` is the inductive argument, one step per action; the theorems
`TypeCorrect` to `OdometrySafe` draw the properties from it, and `Refinement`
shows that each step is a step of `Lifecycle` or stutters (`LifecycleSteps`).

**`ServoHalProofs`.** The five properties are inductive together with the types:
the counter follows the held set by the cardinality lemmas for adding and
removing one element, the rail follows the counter, and the robot keeps its
power because no jog is accepted while it is energized. `JogsAreTracked` holds
of itself, step by step: what a release leaves enabled was held by another
channel, a power cut disables every output, and pins change either under no held
servo or with `repinned` set.

**`RobotProofs`, behind the dispatcher.** `Implementation` shows that every frame is a step of
`Robot` or leaves it alone; `BehindTheWire` carries the robot's invariant over;
`ConfigSafe`, `RefusalSafe` and `PollingSafe` follow with it. `RepliesSafe` goes
through the opcodes, since `kind_of` and the switch are two tables.

**`GaitProofs`.** The heart is `RestFacts`: if the seven rounds of
`rest_distance()` end at all, every foot is down where they end, and at every
phase before some foot swings. It holds because each round goes to the last
landing of the swings in progress, so that a foot that is up stays up until
then. The invariant adds to the types that a stop is on only while walking, that
a frozen cycle is grounded, and `StopInv`: the phase `stop_left_` ahead is that
rest, however many ticks of whatever length have gone by, and whatever the
provisioned gaits. `StopExact` and `FrozenSafe` are parts of it. A tick that
freezes the cycle lands at the rest or within `REST_TOL` of it, which with the
shape of a foot's lift gives `FeetContinuous`. `Refinement` maps each step to one
of `GaitCycle`, the abstraction `Robot` is composed with.

**`FrameParserProofs`.** What the parser holds of a frame (`Taken`) is what the
receiver took last: `ParserOK` has it well-formed phase by phase, with `crc_` the
CRC of the bytes so far, and `ReceiverInv` finds it at the end of `recent`. So a
frame handed out is the encoding of its content, byte for byte
(`NothingForged`). `LineOK` and `InStep` tie parser and line: the bytes taken and
those on the wire are together the frame sent. `Encode` is injective, and so the
frame sent is the one handed out, on its last byte (`GetsThrough`). `DamageInv`
follows a changed byte: the CRC register differs from the sender's from there on,
because the update is one-to-one. The CRC of a sequence is a fold; what it does
when a byte is appended (`CrcAppend`) rests on the existence and uniqueness of a
function that accumulates it, by well-founded induction on its length.

**`PoseProofs`.** `StepsInv` has an animation at one of its three steps, with the
body on the ground before a stand-up unfolds and the feet at neutral before it
raises the body; `FollowInv` has the servos where legs and body put them, but for
two units along each axis for every write that held the pose (`Lagging`). A held
write adds one tick's moves to the lag, the write that ends the hold makes all of
it good: `NoJumps`, for holds of any length. Without a lag two feet are as far
apart as they are wanted, and held legs are all held: `NoFootSlips`. `Arrivals`
says of a stand-up only that it arrives where the stance can be reached.

**`SmoothingProofs`.** The arithmetic comes first: `Rounded` keeps the order of its
dividends, is exact on multiples, and rounds the opposite to no less than the
opposite. So what the low-pass leaves of a distance is between nothing and all of
it (`PartOfDistance`), for every time constant, zero included, and every length of
a tick. From that `NoOvershoot`, and that the velocity stays within the limit in
force (`TypeCorrect`); the latter needs `RestInv`, since the limit changes only
off the robot's feet, where command and velocity are zero. `SettlesInTime` bounds
an axis whose command has been zero for `held` ticks by `decay[held]`, for any
sequence `decay` that starts at the largest limit or above, shrinks no faster than
the filter does with any time constant and tick, and is zero, the deadband's
doing, at the end (`Settles`). That the numbers of a configuration have such
a sequence is arithmetic on one sequence, not on the robot's runs: TLC computes
`MCDecay` and evaluates `Settles` of it, for a full-speed walk with the shipped
time constant.

**`LedsProofs`.** The strip's own clock and the time for which the colour has
been shown agree, and neither passes the half period by more than the time since
the last tick.

**`MainLoopProofs`.** In four layers:

* `StreamInv`: as long as no byte is lost, what is in the parser, in the FIFO and
  with the sender is whole frames in a row, so that each is read to its end and
  taken for what it is. On it stands the watchdog's invariant, which compares
  what the watchdog has counted with the silence on the line, a command waiting
  in the FIFO apart (`NoticedInTime`, `TripsWhenSilent`).
* `SenderInv` and `TimeInv`, for a sender with one query at a time and patience
  for the reply (`Paced`): there is nothing to reply to, or the query is on its
  way with time left for its reply, or the reply is; and a tick is late only while
  a reply is under way. A query whose last byte is dropped leaves nothing that
  could be answered (`QueryGone`): the parser swallows what it has of it with the
  bytes of a later frame. So the sender gives up only in vain (`GivesUpInVain`),
  and no second reply follows on the first before the tick that is due:
  `TicksInTime` and `RepliesExpected` hold whatever the FIFO drops.
* `LoadInv`, for a FIFO that is `Deep`, shows that it drops nothing. It keeps an
  account of the FIFO: `Most(g, w)` is the most bytes of commands that can have
  come in `w` byte times when the latest began `g` ago. During an update `w` and
  the time left come to an update's length; behind a query there is only what
  came since; a reply sent adds to `w` no more than its overhang over the
  transmit FIFO. Then a byte always finds room (`NoneDropped`), and
  `NoByteLost` and `WatchdogIsJust` hold without a condition.
* `SilenceInv`, for commands that are `Spaced`: a line that falls silent is noticed
  in time also when commands are cut (`TripsPromptly`). What could go wrong is that
  the bytes left of two cut commands make up a whole one and feed the watchdog
  long after both. `HeardInv` says that whatever passes for a command was whole on
  the line, and so ended the silence; it rests on `CutInv`, that of a command
  which has lost a byte the first bytes are not the last ones taken. A byte that
  is dropped would have to follow, in the full FIFO, on the byte before it of the
  command before: but that one came a `CommandGap` ago, and `StuckInv` has the
  FIFO full for no longer than one update, or one reply's overhang. Without
  `Spaced` this fails: with updates of 8 byte times and commands every 3, TLC finds
  a watchdog fed by such a mixture.

`Deep` is tight for the instance of `main_loop`: a byte less of FIFO, or a byte time
less of gap, makes `NothingLost` fail.

Only model-checked: the liveness properties (`LinkLossEndsMotion`,
`StopSettles`, `ZeroCommandFreezes`, `TicksGoOn`) and the fairness part of
`ImplementsLifecycle`, which are beyond the prover. Each property that a passing
run checks and that is not one of these is stated by a theorem. What depends on the
numbers of a configuration, that its gaits come to a rest (`CanRest`) and that its
filter `Settles`, the theorems take as given, and TLC evaluates it for the shipped
ones.

## 5. Not modelled, and assumptions

* Geometry: inverse kinematics, strides, the angles themselves. A foot out of
  reach is a choice of `ResolveWrite` in `Robot` and a set of places in `Pose`;
  the trigonometry of `kinematics.hpp` and `math.hpp` is out of TLC's reach.
* Floats are finite, except for velocities in `Smoothing`. A NaN limit would never trip.
  Provisioned values are not validated by the code.
* Provisioned rates are positive: `Toward` takes `dt` off every distance.
* `AnimationsArrive` takes the standing and the folded pose to be within reach,
  as they are with the shipped geometry. Out of reach, a stand-up ends all the
  same, the servos where they were.
* `BoardHoldsCommand` takes the pin map for a permutation, as the default is.
  With two channels on one output the board cannot hold both angles.
* Voltage and current are two readings each; the ADC multiplexer, the boot
  animation, and the timing of the PIO are left out. A jog draws no current.
* The loop's own instructions take no time in `MainLoop`, and the sender puts
  the bytes of a frame on the line without a gap.
* The receiver of `protocol_test.py`, the host tests and the build files.

## 6. Where the repository and the code part

Shown by runs expected to end in a violation:

1. Low voltage does not trip (`robot.hpp:190`), by intent of the comment above
   it; the state diagram, the configuration, the README and a test say that it
   does (`robot_low_voltage`).
2. A lost link sits the robot down and powers it off, also from IDLE
   (`robot.hpp:245`; `config.hpp:187` says so too). A test has it stop and keep
   standing, powered (`test_robot.cpp:124-133`), and the README has it stop on its
   own (`README.md:200`) (`robot_lost_link`).
3. A servo held by a jog stays counted through a stand-up and a power cut; the
   next jog then does not energize the rail (`servo2040_hal.hpp:172`,
   `servo_hal_jog`).
4. The drain loop ends only on an empty receive FIFO (`main.cpp:46`): a sender
   that always has its next query waiting there keeps the ticks from coming,
   though every byte is delivered and answered; "step the robot at
   cfg::CONTROL_RATE_HZ" (`main.cpp:4`) then fails (`main_loop_flood`).

Built into the models, and met while building them:

5. Enable, Shutdown, Stop and Heartbeat are obeyed whatever their length
   (`router.hpp:79-94`); the dispatcher's comments say malformed ones are
   ignored.
6. `rest_distance()` looks for a rest only where the last swing in progress
   lands (`gait.hpp:166-181`). With swings that overlap a little (a wave with a
   duty of 0.828) it returns -1 from 99 % of the phases, though there is a phase
   with every foot down; "-1 if the gait never has every foot down" says the
   comment. `update()` then freezes with feet in the air. `CanRest` excepts it.
7. A pose held for being out of reach is left in one tick, however far the
   target has moved on meanwhile (`robot.hpp:407-408`, "rather than lunge").
   `MovesOnFromWhereItIs` bounds that jump by the moves the hold left out, and
   by nothing else.
8. A NaN velocity passes the clamp (`robot.hpp:128`) and never leaves the
   smoothed velocity, also after a stop, until a sit-down or a fault; WALK does
   not end meanwhile, where `robot.hpp:448` has a zero command settle.
   `ZeroSettles` excepts it.
9. Pins provisioned while a servo is held: its release disables another output,
   and the one it held stays driven (`servo2040_hal.hpp:165`; `repinned` in
   `ServoHal`).

Of words only: `protocol.hpp:116` has Shutdown end in SETUP (it ends in OFF);
`config.hpp:197` calls the 72 bytes of GetJoints the largest payload (ServoCal
has 108); the README's instruction set lacks GetBodyPose.

## 7. Plan

Done: sections 2 to 4. The safety properties of all modules are proved.

What could follow:

1. `ServoHal` composed with `Robot`'s current reading: over-current in a jog.
2. The bridge from `Smoothing` and `Pose` to `Robot`, where an axis and a move are
   the ticks they still need, as a refinement instead of by reading.
3. The liveness properties, once the prover takes `ENABLED`.
