-------------------------------- MODULE Router --------------------------------
(***************************************************************************)
(* router::dispatch (src/core/router.hpp): what each decoded frame does to *)
(* the robot, to the configuration and to the reply, composed with Robot,  *)
(* whose operations it calls. A payload is abstracted to whether its       *)
(* length is the one of its message, and whether the id it carries (a      *)
(* gait, a channel) exists; the configuration to a mark that every applied *)
(* section flips. Implements Robot.                                        *)
(***************************************************************************)
EXTENDS Robot

VARIABLES
  frame,    (* the frame dispatched last, NoFrame after a tick            *)
  reply,    (* what dispatch() answered it with: opcode and status        *)
  config    (* flips whenever a provisioning section is applied            *)

routerVars == <<vars, frame, reply, config>>

Setpoints == {"SetVelocity", "SetBodyPose", "SetGait", "SetLed"}
Bare      == {"Enable", "Shutdown", "Stop", "Heartbeat"}
Remodels  == {"ProvisionBody", "ProvisionMounts", "ProvisionDirection",
              "ProvisionTrim", "ProvisionRanges"}
Retunes   == {"ProvisionGaits", "ProvisionLimits", "ProvisionBodyPose"}
Rewires   == {"ProvisionServoCal", "ProvisionPins"}
Queries   == {"GetTelemetry", "GetVoltage", "GetCurrent", "GetJoints", "GetBodyPose"}
Acked     == {"JogServo"} \cup Remodels \cup Retunes \cup Rewires

\* "Error" is the board's own opcode, "unassigned" stands for all others.
Opcodes == Setpoints \cup Bare \cup Acked \cup Queries \cup {"Error", "unassigned"}

Frames == {f \in [op : Opcodes, sized : BOOLEAN, known : BOOLEAN] :
             f.known \/ f.op \in {"SetGait", "JogServo"}}

NoFrame == [op |-> "none", sized |-> TRUE, known |-> TRUE]
NoReply == [op |-> "none", status |-> "none"]

kind_of(op) == IF op \in Setpoints \cup Bare THEN "FireAndForget" ELSE "RequestReply"

error(status) == [op |-> "Error", status |-> status]

RouterTypeOK ==
  /\ TypeOK
  /\ frame \in Frames \cup {NoFrame}
  /\ reply \in [op : Opcodes \cup {"none"},
                status : {"none", "OK", "answer", "BAD_LENGTH", "REJECTED", "BAD_OPCODE"}]
  /\ config \in {0, 1}

RouterInit == Init /\ frame = NoFrame /\ reply = NoReply /\ config = 0

-----------------------------------------------------------------------------
(* dispatch() *)

\* A setpoint of the wrong length, or a gait that does not exist, is ignored.
SetpointFrame(f) ==
  /\ f.op \in Setpoints
  /\ IF f.sized /\ (f.op = "SetGait" => f.known)
     THEN \/ f.op = "SetVelocity" /\ \E target \in [Axes -> BOOLEAN] : SetVelocity(target)
          \/ f.op = "SetBodyPose" /\ SetBodyPose
          \/ f.op = "SetGait" /\ \E g \in Gaits : SetGait(g)
          \/ f.op = "SetLed" /\ Heartbeat
     ELSE UNCHANGED vars
  /\ reply' = NoReply
  /\ UNCHANGED config

BareFrame_Acks(f) ==
  /\ f.op \in Bare
  /\ \/ f.op = "Enable" /\ Enable
     \/ f.op = "Shutdown" /\ Shutdown
     \/ f.op = "Stop" /\ Stop
     \/ f.op = "Heartbeat" /\ Heartbeat
  /\ reply' = [op |-> f.op, status |-> "OK"]
  /\ UNCHANGED config

\* A command without a payload takes effect whatever its length says.
BareFrame(f) ==
  /\ f.op \in Bare
  /\ \/ f.op = "Enable" /\ Enable
     \/ f.op = "Shutdown" /\ Shutdown
     \/ f.op = "Stop" /\ Stop
     \/ f.op = "Heartbeat" /\ Heartbeat
  /\ reply' = NoReply
  /\ UNCHANGED config

Refusal_LengthOnly(f) == IF ~f.sized THEN "BAD_LENGTH" ELSE "none"

\* Why a jog or a provisioning frame is refused, if it is.
Refusal(f) ==
  IF ~f.sized THEN "BAD_LENGTH"
  ELSE IF ~Provisionable \/ (f.op = "JogServo" /\ ~f.known) THEN "REJECTED"
  ELSE "none"

RefusedFrame(f) ==
  /\ f.op \in Acked
  /\ Refusal(f) # "none"
  /\ reply' = error(Refusal(f))
  /\ UNCHANGED <<vars, config>>

AppliedFrame(f) ==
  /\ f.op \in Acked
  /\ Refusal(f) = "none"
  /\ reply' = [op |-> f.op, status |-> "OK"]
  /\ config' = IF f.op = "JogServo" THEN config ELSE 1 - config
  /\ \/ f.op \in Remodels /\ Reconfigure
     \/ f.op = "ProvisionLimits" /\ ProvisionLimits
     \/ f.op \in Retunes \ {"ProvisionLimits"} /\ UNCHANGED vars
     \/ f.op \in Rewires \cup {"JogServo"} /\ DisturbBoard

QueryFrame(f) ==
  /\ f.op \in Queries
  /\ reply' = [op |-> f.op, status |-> "answer"]
  /\ UNCHANGED <<vars, config>>

UnknownFrame(f) ==
  /\ f.op \in {"Error", "unassigned"}
  /\ reply' = error("BAD_OPCODE")
  /\ UNCHANGED <<vars, config>>

Dispatch(f) ==
  /\ frame' = f
  /\ \/ SetpointFrame(f)
     \/ BareFrame(f)
     \/ RefusedFrame(f)
     \/ AppliedFrame(f)
     \/ QueryFrame(f)
     \/ UnknownFrame(f)

RouterTick == Tick /\ frame' = NoFrame /\ reply' = NoReply /\ UNCHANGED config

RouterNext == RouterTick \/ \E f \in Frames : Dispatch(f)

RouterSpec == RouterInit /\ [][RouterNext]_routerVars

-----------------------------------------------------------------------------
(* Properties *)

\* The Pi waits for a reply exactly when kind_of() says it must, and gets one,
\* with the request's opcode or as an Error: two tables, in two files and two
\* languages, that must agree for every opcode, length and robot state.
ReplyMatchesKind ==
  frame # NoFrame =>
    /\ reply # NoReply <=> kind_of(frame.op) = "RequestReply"
    /\ reply.op \in {"none", "Error", frame.op}

\* What the board refuses it has not done: an Error leaves the robot and the
\* configuration as they were.
RefusalIsInert == [][reply'.op = "Error" => UNCHANGED <<vars, config>>]_routerVars

\* Nothing is reconfigured in motion: whenever a section changes the rail is off
\* and no animation is under way (protocol.hpp: "so nothing reconfigures
\* mid-motion").
ConfigChangesAtRest ==
  [][config' # config => ~energized /\ ~energized' /\ state' \in Resting]_routerVars

\* Only commands keep a standing robot up: no amount of polling or of refused
\* provisioning puts the watchdog off.
PollingIsNoHeartbeat ==
  [][sinceCmd' < sinceCmd /\ state \in Standing =>
       frame' # NoFrame /\ kind_of(frame'.op) = "FireAndForget"]_routerVars

\* Whatever the line delivers, the dispatcher does to the robot only what Robot's
\* users may do.
ImplementsRobot == Spec
=============================================================================
