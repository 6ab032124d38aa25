------------------------------ MODULE MainLoop ------------------------------
(***************************************************************************)
(* The loop of src/main.cpp between its two UART FIFOs: drain what has     *)
(* arrived, send each reply blocking, tick the robot when a period has     *)
(* gone by. Time is counted in byte times of the line. What the loop does  *)
(* itself takes none; sending into a full FIFO and Robot::update() do.     *)
(*                                                                         *)
(* Frames are of two kinds: a query, which is answered, and a command,     *)
(* which is not, and which restarts the watchdog. Of a byte the model      *)
(* keeps the frame kind and its place in the frame. Of the robot it keeps  *)
(* the watchdog. The sender (the Pi) is part of the model.                 *)
(***************************************************************************)
EXTENDS Naturals, FiniteSetsExt, SequencesExt

CONSTANTS
  Size,         (* the bytes of a frame, per kind                         *)
  ReplySize,    (* the bytes of a reply                                   *)
  RxDepths,     (* depths of the receive FIFO: the last of them bridges    *)
                (* every wait of the loop, the others need not             *)
  TxDepth,      (* depth of the transmit FIFO                             *)
  Period,       (* period_us                                              *)
  Timeout,      (* WATCHDOG_TIMEOUT_MS                                    *)
  UpdateTimes,  (* how long one update may take                           *)
  CommandGap,   (* the least time between two commands of the sender      *)
  Window,       (* the queries the sender has unanswered at most          *)
  Patience      (* how long the sender waits for a reply                  *)

Kinds == {"query", "command"}

ASSUME LoopAssumption ==
  /\ Size \in [Kinds -> Nat \ {0}]
  /\ RxDepths \cup {ReplySize, TxDepth, Period, Timeout} \subseteq Nat \ {0}
  /\ UpdateTimes \cup {CommandGap, Window, Patience} \subseteq Nat

VARIABLES
  coming,     (* the bytes of a frame the sender has still to put on the line *)
  rxDepth,    (* the depth of the receive FIFO                            *)
  rx,         (* the receive FIFO                                         *)
  reading,    (* the bytes the parser holds of a frame                    *)
  toSend,     (* the bytes of a reply not yet given to uart_putc_raw      *)
  tx,         (* the transmit FIFO: for each byte, is it a reply's last   *)
  working,    (* the time the update in progress still takes              *)
  sinceTick,  (* now - last_us, counted as far as the longest gap         *)
  standing,   (* is the robot in IDLE or WALK                             *)
  sinceCmd,   (* since_cmd_                                               *)
  awaiting,   (* history: how many queries are unanswered                 *)
  waited,     (* history: for how long no reply has ended                 *)
  gap,        (* history: time since the sender's last command            *)
  silence,    (* history: time since a command arrived whole, or since    *)
              (* the robot stood up                                       *)
  lost        (* history: a byte of the latest frame found the FIFO full  *)

lineVars == <<coming, awaiting, waited, gap>>
parserVars == <<rx, reading>>
replyVars == <<toSend, tx>>
robotVars == <<standing, sinceCmd>>
vars == <<lineVars, parserVars, replyVars, robotVars, working, sinceTick, silence, lost, rxDepth>>

\* Bounds: a gap between ticks is counted up to MostGap, silence up to
\* MostSilence, and the sender's own clock up to CommandGap.
MostGap == 2 * Period + ReplySize
MostSilence == Timeout + MostGap

Bytes == UNION {[kind : {k}, at : 1..Size[k]] : k \in Kinds}

Init ==
  /\ rxDepth \in RxDepths
  /\ coming = <<>> /\ rx = <<>> /\ reading = <<>>
  /\ toSend = 0 /\ tx = <<>> /\ working = 0 /\ sinceTick = 0
  /\ standing = TRUE /\ sinceCmd = 0
  /\ awaiting = 0 /\ waited = 0 /\ gap = CommandGap /\ silence = 0 /\ lost = FALSE

-----------------------------------------------------------------------------
(* The sender *)

\* One frame on the line at a time; commands are paced, and so are queries, by
\* the replies.
Post(kind) ==
  /\ coming = <<>>
  /\ kind = "query" => awaiting < Window
  /\ kind = "command" => gap = CommandGap
  /\ coming' = [i \in 1..Size[kind] |-> [kind |-> kind, at |-> i]]
  /\ awaiting' = IF kind = "query" THEN awaiting + 1 ELSE awaiting
  /\ waited' = IF awaiting = 0 THEN 0 ELSE waited
  /\ gap' = IF kind = "command" THEN 0 ELSE gap
  /\ lost' = FALSE
  /\ UNCHANGED <<parserVars, replyVars, robotVars, working, sinceTick, silence, rxDepth>>

\* protocol_test.py reads with a timeout and carries on.
GiveUp ==
  /\ awaiting > 0 /\ waited = Patience
  /\ awaiting' = 0
  /\ UNCHANGED <<coming, waited, gap, parserVars, replyVars, robotVars, working, sinceTick,
                 silence, lost, rxDepth>>

-----------------------------------------------------------------------------
(* The loop *)

Free == working = 0 /\ toSend = 0

\* uart_putc_raw returns once there is room.
Room_WhenEmpty == tx = <<>>
Room == Len(tx) < TxDepth

\* update() runs, a byte waits for room, or there is nothing to do.
Waits ==
  \/ working > 0
  \/ toSend > 0 /\ ~Room
  \/ Free /\ rx = <<>> /\ sinceTick < Period

Pet == sinceCmd' = 0

Dispatch(kind) ==
  \/ kind = "query" /\ toSend' = ReplySize /\ UNCHANGED sinceCmd
  \/ kind = "command" /\ Pet /\ UNCHANGED toSend

\* One with a byte missing fails its CRC.
Intact_Always(taken) == TRUE
Intact(taken) == \A i \in DOMAIN taken : taken[i] = [kind |-> Head(taken).kind, at |-> i]

\* A frame is as long as it announced.
Feed(byte) ==
  LET taken == Append(reading, byte)
      frame == Head(taken)
  IN  \/ /\ reading = <<>> /\ byte.at # 1
         /\ UNCHANGED <<reading, toSend, sinceCmd>>
      \/ /\ frame.at = 1 /\ Len(taken) < Size[frame.kind]
         /\ reading' = taken
         /\ UNCHANGED <<toSend, sinceCmd>>
      \/ /\ frame.at = 1 /\ Len(taken) = Size[frame.kind]
         /\ reading' = <<>>
         /\ IF Intact(taken) THEN Dispatch(frame.kind) ELSE UNCHANGED <<toSend, sinceCmd>>

Drain ==
  /\ Free /\ rx # <<>>
  /\ Feed(Head(rx))
  /\ rx' = Tail(rx)
  /\ UNCHANGED <<lineVars, tx, standing, working, sinceTick, silence, lost, rxDepth>>

Push ==
  /\ toSend > 0 /\ Room
  /\ toSend' = toSend - 1
  /\ tx' = Append(tx, toSend = 1)
  /\ UNCHANGED <<lineVars, parserVars, robotVars, working, sinceTick, silence, lost, rxDepth>>

\* Robot::update(): the watchdog counts in IDLE and WALK and sits the robot
\* down; the end of a later stand-up starts it anew.
Watch(dt) ==
  \/ /\ standing
     /\ sinceCmd' = sinceCmd + dt
     /\ standing' = (sinceCmd' <= Timeout)
     /\ UNCHANGED silence
  \/ ~standing /\ UNCHANGED <<robotVars, silence>>
  \/ ~standing /\ standing' = TRUE /\ Pet /\ silence' = 0

TickWith(due, dt) ==
  /\ due
  /\ sinceTick' = 0
  /\ Watch(dt)
  /\ working' \in UpdateTimes
  /\ UNCHANGED <<lineVars, parserVars, replyVars, lost, rxDepth>>

Tick_BeforeDrain == TickWith(Free /\ sinceTick >= Period, sinceTick)
Tick_CountsPeriods == TickWith(Free /\ rx = <<>> /\ sinceTick >= Period, Period)
Tick == TickWith(Free /\ rx = <<>> /\ sinceTick >= Period, sinceTick)

-----------------------------------------------------------------------------
(* The line *)

\* A byte time goes by while the loop waits. The hardware shifts one byte out
\* and one in; a byte that finds the FIFO full is dropped.
Elapse ==
  /\ Waits
  /\ working' = Max({working, 1}) - 1
  /\ IF tx = <<>>
     THEN UNCHANGED <<tx, awaiting>>
     ELSE /\ tx' = Tail(tx)
          /\ awaiting' = IF Head(tx) THEN Max({awaiting, 1}) - 1 ELSE awaiting
  /\ waited' = IF awaiting' = awaiting THEN Min({waited + 1, Patience}) ELSE 0
  /\ sinceTick' = Min({sinceTick + 1, MostGap})
  /\ gap' = Min({gap + 1, CommandGap})
  /\ coming' = IF coming = <<>> THEN <<>> ELSE Tail(coming)
  /\ LET arriving == coming # <<>>
         stored   == arriving /\ Len(rx) < rxDepth
         whole    == stored /\ ~lost /\ Head(coming) = [kind |-> "command", at |-> Size["command"]]
     IN  /\ rx' = IF stored THEN Append(rx, Head(coming)) ELSE rx
         /\ lost' = (lost \/ (arriving /\ ~stored))
         /\ silence' = IF whole \/ ~standing THEN 0 ELSE Min({silence + 1, MostSilence})
  /\ UNCHANGED <<reading, toSend, robotVars, rxDepth>>

Loop == Drain \/ Push \/ Tick

Next == Loop \/ Elapse \/ GiveUp \/ \E kind \in Kinds : Post(kind)

Spec == Init /\ [][Next]_vars

\* Neither the processor nor the clock stops.
FairSpec == Spec /\ WF_vars(Loop) /\ WF_vars(Elapse)

-----------------------------------------------------------------------------
(* Properties *)

\* The sender has one query at a time unanswered, and waits for its reply as long
\* as it may take: the query's bytes, an update that has just begun when the last
\* of them comes, and the reply's bytes. Replies are longer than the transmit
\* FIFO, and an update is done within its period.
Paced ==
  /\ Window <= 1 /\ TxDepth <= ReplySize
  /\ \A u \in UpdateTimes \cup {1} :
        u <= Period /\ Size["query"] + u + ReplySize <= Patience + 1

\* The deepest receive FIFO takes a query with a command, and what comes in while
\* the loop is held up for longest, by an update and then by a reply's overhang
\* over the transmit FIFO: a command, and of the next one what comes after the gap.
Deep ==
  /\ Size["query"] + Size["command"] <= Max(RxDepths) /\ Size["command"] <= CommandGap
  /\ \A u \in UpdateTimes \cup {1} :
        /\ u <= CommandGap
        /\ Size["command"] + u + ReplySize <= Max(RxDepths) + CommandGap + TxDepth + 1

TypeOK ==
  /\ coming \in Seq(Bytes) /\ rx \in Seq(Bytes) /\ reading \in Seq(Bytes)
  /\ rxDepth \in RxDepths /\ Len(rx) <= rxDepth
  /\ tx \in Seq(BOOLEAN) /\ Len(tx) <= TxDepth /\ toSend \in 0..ReplySize
  /\ working = 0 \/ \E u \in UpdateTimes : working \in 0..u
  /\ sinceTick \in 0..MostGap /\ sinceCmd \in 0..MostSilence
  /\ {standing, lost} \subseteq BOOLEAN /\ awaiting \in 0..Window /\ waited \in 0..Patience
  /\ gap \in 0..CommandGap /\ silence \in 0..MostSilence

\* A receive FIFO deep enough bridges every wait of the loop, an update followed
\* by a blocking reply: no byte of a sender that paces its commands and waits for
\* its replies is dropped, and no frame is cut.
Bridged == rxDepth = Max(RxDepths)
NothingLost == Bridged => ~lost

\* A tick is late by no more than one reply held up by the transmit FIFO, also
\* when bytes are lost and frames are cut.
Lateness == ReplySize - TxDepth
TickIsPunctual == sinceTick <= Period + Lateness

\* The watchdog is fed only when the loop gets round to a command, and counts
\* in ticks; yet it trips only on a line that has been silent for the timeout,
\* less one tick, at the least, whatever update and replies held the loop up.
TripIsDeserved ==
  [][Bridged /\ standing /\ ~standing' => silence + Period + Lateness > Timeout]_vars

\* No hold-up of the loop, by an update or by a reply's overhang, lasts from one
\* command to the next. Else a byte of each of two commands could be dropped such
\* that what is left looks like one, and fed the watchdog long after.
Spaced ==
  /\ Size["command"] <= CommandGap /\ Lateness <= CommandGap
  /\ \A u \in UpdateTimes \cup {1} : u <= CommandGap

\* And a line that stays silent is noticed within the timeout and one tick, also
\* when bytes are lost: no command that has been cut is taken for a whole one.
TripIsPrompt == standing => silence <= Timeout + Period + Lateness

\* A reply, once begun, reaches a sender that still waits for it: also when
\* others have been given up because the overrun cut their queries, it is never
\* taken for the answer to a later query.
ReplyIsExpected == toSend > 0 \/ tx # <<>> => awaiting > 0

\* "step the robot at cfg::CONTROL_RATE_HZ" (main.cpp:4).
TicksGoOn == []<><<Tick>>_vars
=============================================================================
