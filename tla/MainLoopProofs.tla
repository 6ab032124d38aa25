---------------------------- MODULE MainLoopProofs ----------------------------
(***************************************************************************)
(* The main loop, for every size of frames and FIFOs, period and timeout.  *)
(* Where the sender waits for its replies (Paced), ticks are punctual and  *)
(* replies expected, whatever the receive FIFO drops; a silent line is     *)
(* noticed in time, if commands are far enough apart (Spaced); and where   *)
(* the receive FIFO takes what comes in while the loop is held up (Deep)   *)
(* none is dropped, and the watchdog trips on a silent line only.          *)
(***************************************************************************)
EXTENDS MainLoop, TLAPS, SequenceTheorems

-----------------------------------------------------------------------------
(* Greatest and least elements *)

LEMMA MaxFacts ==
  ASSUME NEW a \in Nat, NEW b \in Nat
  PROVE  Max({a, b}) = IF a >= b THEN a ELSE b
<1>1. \E m \in {a, b} : \A x \in {a, b} : m >= x
  OBVIOUS
<1> QED
  BY <1>1 DEF Max

LEMMA MinFacts ==
  ASSUME NEW a \in Nat, NEW b \in Nat
  PROVE  Min({a, b}) = IF a <= b THEN a ELSE b
<1>1. \E m \in {a, b} : \A x \in {a, b} : m <= x
  OBVIOUS
<1> QED
  BY <1>1 DEF Min

-----------------------------------------------------------------------------
(* Types *)

LEMMA ByteFacts ==
  /\ \A b \in Bytes : /\ b.kind \in Kinds /\ b.at \in 1..Size[b.kind] /\ b.at \in Nat
                      /\ b = [kind |-> b.kind, at |-> b.at]
  /\ \A k \in Kinds : Size[k] \in Nat \ {0} /\ \A i \in 1..Size[k] : [kind |-> k, at |-> i] \in Bytes
<1>1. \A k \in Kinds : Size[k] \in Nat \ {0}
  BY LoopAssumption
<1>2. ASSUME NEW b \in Bytes
      PROVE  b.kind \in Kinds /\ b.at \in 1..Size[b.kind] /\ b = [kind |-> b.kind, at |-> b.at]
  BY DEF Bytes
<1>3. ASSUME NEW k \in Kinds, NEW i \in 1..Size[k]
      PROVE  [kind |-> k, at |-> i] \in Bytes
  BY DEF Bytes
<1> QED
  BY <1>1, <1>2, <1>3

LEMMA NumberFacts ==
  /\ ReplySize \in Nat \ {0} /\ TxDepth \in Nat \ {0} /\ Period \in Nat \ {0} /\ Timeout \in Nat \ {0}
  /\ CommandGap \in Nat /\ Window \in Nat /\ Patience \in Nat
  /\ MostGap \in Nat /\ MostSilence \in Nat /\ MostSilence = Timeout + MostGap
  /\ RxDepths \subseteq Nat /\ UpdateTimes \subseteq Nat
BY LoopAssumption DEF MostGap, MostSilence

\* A robot that stands has been ticked with the watchdog still counting.
TypeInv == TypeOK /\ (standing => sinceCmd <= Timeout)

LEMMA InitTypes == Init => TypeInv
<1> SUFFICES ASSUME Init PROVE TypeInv
  OBVIOUS
<1>1. <<>> \in Seq(Bytes) /\ <<>> \in Seq(BOOLEAN) /\ Len(<<>>) = 0
  OBVIOUS
<1>2. 0 <= rxDepth /\ 0 <= TxDepth
  BY NumberFacts DEF Init
<1>3. /\ rxDepth \in RxDepths /\ coming = <<>> /\ rx = <<>> /\ reading = <<>>
      /\ toSend = 0 /\ tx = <<>> /\ working = 0 /\ sinceTick = 0
      /\ standing = TRUE /\ sinceCmd = 0
      /\ awaiting = 0 /\ waited = 0 /\ gap = CommandGap /\ silence = 0 /\ lost = FALSE
  BY DEF Init
<1>4. TypeOK
  <2>1. coming \in Seq(Bytes) /\ rx \in Seq(Bytes) /\ reading \in Seq(Bytes) /\ tx \in Seq(BOOLEAN)
        /\ Len(rx) <= rxDepth /\ Len(tx) <= TxDepth
    BY <1>1, <1>2, <1>3
  <2>2. /\ toSend \in 0..ReplySize /\ sinceTick \in 0..MostGap /\ sinceCmd \in 0..MostSilence
        /\ awaiting \in 0..Window /\ waited \in 0..Patience /\ gap \in 0..CommandGap
        /\ silence \in 0..MostSilence
    BY <1>3, NumberFacts
  <2>3. working = 0 /\ standing \in BOOLEAN /\ lost \in BOOLEAN
    BY <1>3
  <2> QED
    BY <1>3, <2>1, <2>2, <2>3 DEF TypeOK
<1> QED
  BY <1>3, <1>4, NumberFacts DEF TypeInv

LEMMA PostTypes ==
  ASSUME TypeInv, NEW kind \in Kinds, Post(kind)
  PROVE  TypeInv'
<1>1. coming' \in Seq(Bytes)
  <2>1. Size[kind] \in Nat /\ \A i \in 1..Size[kind] : [kind |-> kind, at |-> i] \in Bytes
    BY ByteFacts
  <2>2. [i \in 1..Size[kind] |-> [kind |-> kind, at |-> i]] \in Seq(Bytes)
    BY <2>1, SeqDef
  <2> QED
    BY <2>2 DEF Post
<1>2. awaiting' \in 0..Window /\ waited' \in 0..Patience /\ gap' \in 0..CommandGap
  <2>1. awaiting \in 0..Window /\ waited \in 0..Patience /\ gap \in 0..CommandGap
    BY DEF TypeInv, TypeOK
  <2>2. /\ kind = "query" => awaiting < Window
        /\ awaiting' = (IF kind = "query" THEN awaiting + 1 ELSE awaiting)
        /\ waited' = (IF awaiting = 0 THEN 0 ELSE waited)
        /\ gap' = (IF kind = "command" THEN 0 ELSE gap)
    BY DEF Post
  <2> QED
    BY <2>1, <2>2, NumberFacts
<1>3. lost' = FALSE /\ UNCHANGED <<rx, reading, toSend, tx, standing, sinceCmd, working, sinceTick, silence, rxDepth>>
  BY DEF Post, parserVars, replyVars, robotVars
<1> QED
  BY <1>1, <1>2, <1>3 DEF TypeInv, TypeOK

LEMMA GiveUpTypes ==
  ASSUME TypeInv, GiveUp
  PROVE  TypeInv'
BY NumberFacts DEF GiveUp, TypeInv, TypeOK, parserVars, replyVars, robotVars

LEMMA PushTypes ==
  ASSUME TypeInv, Push
  PROVE  TypeInv'
<1>1. /\ toSend > 0 /\ Len(tx) < TxDepth /\ toSend' = toSend - 1 /\ tx' = Append(tx, toSend = 1)
      /\ UNCHANGED <<coming, awaiting, waited, gap, rx, reading, standing, sinceCmd, working, sinceTick,
                     silence, lost, rxDepth>>
  BY DEF Push, Room, lineVars, parserVars, robotVars
<1>2. tx \in Seq(BOOLEAN) /\ (toSend = 1) \in BOOLEAN /\ toSend \in 0..ReplySize
  BY DEF TypeInv, TypeOK
<1>3. tx' \in Seq(BOOLEAN) /\ Len(tx') = Len(tx) + 1
  BY <1>1, <1>2, AppendProperties
<1>4. Len(tx') <= TxDepth /\ toSend' \in 0..ReplySize
  BY <1>1, <1>2, <1>3, NumberFacts
<1> QED
  BY <1>1, <1>3, <1>4 DEF TypeInv, TypeOK

LEMMA DrainTypes ==
  ASSUME TypeInv, Drain
  PROVE  TypeInv'
<1>1. /\ Free /\ rx # <<>> /\ Feed(Head(rx)) /\ rx' = Tail(rx)
      /\ UNCHANGED <<coming, awaiting, waited, gap, tx, standing, working, sinceTick, silence, lost, rxDepth>>
  BY DEF Drain, lineVars
<1>2. rx \in Seq(Bytes) /\ reading \in Seq(Bytes) /\ Len(rx) <= rxDepth /\ rxDepth \in Nat
  BY NumberFacts DEF TypeInv, TypeOK
<1>3. Head(rx) \in Bytes /\ rx' \in Seq(Bytes) /\ Len(rx') = Len(rx) - 1 /\ Len(rx) \in Nat
  BY <1>1, <1>2
<1>4. Append(reading, Head(rx)) \in Seq(Bytes)
  BY <1>2, <1>3, AppendProperties
<1>5. /\ reading' \in {reading, Append(reading, Head(rx)), <<>>}
      /\ toSend' \in {toSend, ReplySize} /\ sinceCmd' \in {sinceCmd, 0}
  BY <1>1 DEF Feed, Dispatch, Pet
<1>6. reading' \in Seq(Bytes) /\ Len(rx') <= rxDepth
  <2> DEFINE held == Len(rx)
  <2>1. reading' \in Seq(Bytes)
    <3>1. <<>> \in Seq(Bytes)
      OBVIOUS
    <3> QED
      BY <1>2, <1>4, <1>5, <3>1, Zenon
  <2>2. held \in Nat /\ held <= rxDepth /\ Len(rx') = held - 1 /\ rxDepth \in Nat
    BY <1>2, <1>3
  <2> HIDE DEF held
  <2>3. Len(rx') <= rxDepth
    BY <2>2
  <2> QED
    BY <2>1, <2>3
<1>7. /\ toSend' \in 0..ReplySize /\ sinceCmd' \in 0..MostSilence
      /\ standing => sinceCmd' <= Timeout
  BY <1>5, NumberFacts DEF TypeInv, TypeOK
<1> QED
  BY <1>1, <1>3, <1>6, <1>7 DEF TypeInv, TypeOK

LEMMA TickTypes ==
  ASSUME TypeInv, Tick
  PROVE  TypeInv'
<1>1. /\ sinceTick' = 0 /\ Watch(sinceTick) /\ working' \in UpdateTimes
      /\ UNCHANGED <<coming, awaiting, waited, gap, rx, reading, toSend, tx, lost, rxDepth>>
  BY DEF Tick, TickWith, lineVars, parserVars, replyVars
<1>2. standing \in BOOLEAN /\ sinceTick \in 0..MostGap /\ sinceCmd \in 0..MostSilence
      /\ silence \in 0..MostSilence /\ (standing => sinceCmd <= Timeout)
  BY DEF TypeInv, TypeOK
<1>3. /\ standing' \in BOOLEAN /\ sinceCmd' \in 0..MostSilence /\ silence' \in 0..MostSilence
      /\ standing' => sinceCmd' <= Timeout
  <2>1. CASE standing /\ sinceCmd' = sinceCmd + sinceTick /\ standing' = (sinceCmd' <= Timeout) /\ UNCHANGED silence
    <3>1. sinceCmd' \in 0..MostSilence
      BY <1>2, <2>1, NumberFacts
    <3>2. (sinceCmd' <= Timeout) \in BOOLEAN
      OBVIOUS
    <3>3. standing' \in BOOLEAN /\ (standing' => sinceCmd' <= Timeout)
      BY <2>1, <3>2, Zenon
    <3>4. silence' \in 0..MostSilence
      BY <1>2, <2>1
    <3> QED
      BY <3>1, <3>3, <3>4
  <2>2. CASE ~standing /\ UNCHANGED <<standing, sinceCmd, silence>>
    BY <1>2, <2>2
  <2>3. CASE ~standing /\ standing' = TRUE /\ sinceCmd' = 0 /\ silence' = 0
    BY <2>3, NumberFacts
  <2> QED
    BY <1>1, <2>1, <2>2, <2>3 DEF Watch, Pet, robotVars
<1>4. (working' = 0 \/ \E u \in UpdateTimes : working' \in 0..u) /\ sinceTick' \in 0..MostGap
  <2>1. working' \in UpdateTimes /\ working' \in Nat
    BY <1>1, NumberFacts
  <2>2. working' \in 0..working'
    BY <2>1
  <2>3. sinceTick' \in 0..MostGap
    BY <1>1, NumberFacts
  <2> QED
    BY <2>1, <2>2, <2>3
<1> QED
  BY <1>1, <1>3, <1>4 DEF TypeInv, TypeOK

\* A byte time: what has gone by of the line and of the clocks.
LEMMA ElapseFacts ==
  ASSUME TypeInv, Elapse
  PROVE  /\ UNCHANGED <<reading, toSend, standing, sinceCmd, rxDepth>>
         /\ sinceTick' = IF sinceTick + 1 <= MostGap THEN sinceTick + 1 ELSE MostGap
         /\ coming = <<>> => coming' = <<>> /\ rx' = rx
         /\ coming # <<>> =>
              /\ Head(coming) \in Bytes /\ coming' = Tail(coming)
              /\ ~lost' => rx' = Append(rx, Head(coming)) /\ Len(rx) < rxDepth
              /\ rx' \in {rx, Append(rx, Head(coming))} /\ (rx' = rx \/ Len(rx) < rxDepth)
         /\ silence' = 0 \/ silence' = IF silence + 1 <= MostSilence THEN silence + 1 ELSE MostSilence
         /\ ~standing => silence' = 0
         /\ coming # <<>> /\ ~lost' /\ Head(coming) = [kind |-> "command", at |-> Size["command"]]
              => silence' = 0
         /\ standing /\ (coming = <<>> \/ Head(coming) # [kind |-> "command", at |-> Size["command"]])
              => silence' = IF silence + 1 <= MostSilence THEN silence + 1 ELSE MostSilence
<1> DEFINE last == [kind |-> "command", at |-> Size["command"]]
           arriving == coming # <<>>
           stored   == arriving /\ Len(rx) < rxDepth
           whole    == stored /\ ~lost /\ Head(coming) = last
<1>1. /\ sinceTick' = Min({sinceTick + 1, MostGap})
      /\ coming' = (IF coming = <<>> THEN <<>> ELSE Tail(coming))
      /\ rx' = (IF stored THEN Append(rx, Head(coming)) ELSE rx)
      /\ lost' = (lost \/ (arriving /\ ~stored))
      /\ silence' = (IF whole \/ ~standing THEN 0 ELSE Min({silence + 1, MostSilence}))
      /\ UNCHANGED <<reading, toSend, standing, sinceCmd, rxDepth>>
  BY DEF Elapse, robotVars
<1>2. sinceTick + 1 \in Nat /\ silence + 1 \in Nat /\ MostGap \in Nat /\ MostSilence \in Nat
      /\ coming \in Seq(Bytes)
  BY NumberFacts DEF TypeInv, TypeOK
<1>3. /\ Min({sinceTick + 1, MostGap}) = IF sinceTick + 1 <= MostGap THEN sinceTick + 1 ELSE MostGap
      /\ Min({silence + 1, MostSilence}) = IF silence + 1 <= MostSilence THEN silence + 1 ELSE MostSilence
  BY <1>2, MinFacts
<1>4. coming # <<>> => Head(coming) \in Bytes
  BY <1>2
<1> HIDE DEF last
<1>5. coming = <<>> => coming' = <<>> /\ rx' = rx
  BY <1>1
<1>6. coming # <<>> =>
        /\ Head(coming) \in Bytes /\ coming' = Tail(coming)
        /\ ~lost' => rx' = Append(rx, Head(coming)) /\ Len(rx) < rxDepth
        /\ rx' \in {rx, Append(rx, Head(coming))} /\ (rx' = rx \/ Len(rx) < rxDepth)
  BY <1>1, <1>4
<1> DEFINE more == IF silence + 1 <= MostSilence THEN silence + 1 ELSE MostSilence
<1>7. silence' = IF whole \/ ~standing THEN 0 ELSE more
  BY <1>1, <1>3
<1> HIDE DEF more
<1>8. /\ silence' = 0 \/ silence' = more
      /\ ~standing => silence' = 0
      /\ coming # <<>> /\ ~lost' /\ Head(coming) = last => silence' = 0
      /\ standing /\ (coming = <<>> \/ Head(coming) # last) => silence' = more
  BY <1>1, <1>7
<1> QED
  BY <1>1, <1>3, <1>5, <1>6, <1>8 DEF last, more

LEMMA ElapseTypes ==
  ASSUME TypeInv, Elapse
  PROVE  TypeInv'
<1>1. /\ coming \in Seq(Bytes) /\ rx \in Seq(Bytes) /\ reading \in Seq(Bytes)
      /\ rxDepth \in RxDepths /\ rxDepth \in Nat /\ Len(rx) <= rxDepth
      /\ tx \in Seq(BOOLEAN) /\ Len(tx) <= TxDepth
  BY NumberFacts DEF TypeInv, TypeOK
<1>2. rx' \in Seq(Bytes) /\ coming' \in Seq(Bytes) /\ Len(rx') <= rxDepth
  <2>1. CASE coming = <<>>
    BY <1>1, <2>1, ElapseFacts
  <2>2. CASE coming # <<>>
    <3>1. /\ Head(coming) \in Bytes /\ coming' = Tail(coming)
          /\ rx' \in {rx, Append(rx, Head(coming))} /\ (rx' = rx \/ Len(rx) < rxDepth)
      BY <2>2, ElapseFacts
    <3>2. Append(rx, Head(coming)) \in Seq(Bytes) /\ Len(Append(rx, Head(coming))) = Len(rx) + 1
      BY <1>1, <3>1, AppendProperties
    <3>3. Tail(coming) \in Seq(Bytes)
      BY <1>1, <2>2
    <3> DEFINE held == Len(rx)
               held1 == Len(rx')
    <3>4. rx' \in Seq(Bytes) /\ coming' \in Seq(Bytes)
      BY <1>1, <3>1, <3>2, <3>3
    <3>5. held \in Nat /\ rxDepth \in Nat /\ held <= rxDepth
      BY <1>1
    <3>6. held1 = held \/ (held1 = held + 1 /\ held < rxDepth)
      BY <3>1, <3>2
    <3> HIDE DEF held, held1
    <3>7. held1 <= rxDepth
      BY <3>5, <3>6
    <3> QED
      BY <3>4, <3>7 DEF held1
  <2> QED
    BY <2>1, <2>2
<1>3. tx' \in Seq(BOOLEAN) /\ Len(tx') <= TxDepth
  <2>1. tx' = tx \/ (tx # <<>> /\ tx' = Tail(tx))
    BY DEF Elapse
  <2>2. tx # <<>> => Tail(tx) \in Seq(BOOLEAN) /\ Len(Tail(tx)) = Len(tx) - 1
    BY <1>1
  <2> DEFINE held == Len(tx)
             held1 == Len(tx')
  <2>3. held \in Nat /\ TxDepth \in Nat /\ held <= TxDepth
    BY <1>1, NumberFacts
  <2>4. held1 = held \/ held1 = held - 1
    BY <2>1, <2>2
  <2> HIDE DEF held, held1
  <2>5. held1 <= TxDepth
    BY <2>3, <2>4
  <2> QED
    BY <1>1, <2>1, <2>2, <2>5 DEF held1
<1>4. working' = 0 \/ \E u \in UpdateTimes : working' \in 0..u
  <2>1. working = 0 \/ \E u \in UpdateTimes : working \in 0..u
    BY DEF TypeInv, TypeOK
  <2>2. working' = Max({working, 1}) - 1
    BY DEF Elapse
  <2>3. CASE working = 0
    BY <2>2, <2>3, MaxFacts
  <2>4. ASSUME NEW u \in UpdateTimes, working \in 0..u PROVE working' \in 0..u
    <3>1. working \in Nat /\ u \in Nat /\ working <= u
      BY <2>4, NumberFacts
    <3>2. working' = IF working >= 1 THEN working - 1 ELSE 0
      BY <2>2, <3>1, MaxFacts
    <3> QED
      BY <3>1, <3>2
  <2> QED
    BY <2>1, <2>3, <2>4
<1>5. awaiting' \in 0..Window /\ waited' \in 0..Patience /\ gap' \in 0..CommandGap
  <2>1. awaiting \in 0..Window /\ waited \in 0..Patience /\ gap \in 0..CommandGap
    BY DEF TypeInv, TypeOK
  <2>2. /\ awaiting' = awaiting \/ awaiting' = Max({awaiting, 1}) - 1
        /\ waited' = (IF awaiting' = awaiting THEN Min({waited + 1, Patience}) ELSE 0)
        /\ gap' = Min({gap + 1, CommandGap})
    BY DEF Elapse
  <2>3. Max({awaiting, 1}) = IF awaiting >= 1 THEN awaiting ELSE 1
    BY <2>1, NumberFacts, MaxFacts
  <2>4. /\ Min({waited + 1, Patience}) = IF waited + 1 <= Patience THEN waited + 1 ELSE Patience
        /\ Min({gap + 1, CommandGap}) = IF gap + 1 <= CommandGap THEN gap + 1 ELSE CommandGap
    BY <2>1, NumberFacts, MinFacts
  <2> QED
    BY <2>1, <2>2, <2>3, <2>4, NumberFacts
<1>6. sinceTick' \in 0..MostGap /\ silence' \in 0..MostSilence
  <2>1. sinceTick \in 0..MostGap /\ silence \in 0..MostSilence
    BY DEF TypeInv, TypeOK
  <2>2. sinceTick' = IF sinceTick + 1 <= MostGap THEN sinceTick + 1 ELSE MostGap
    BY ElapseFacts
  <2>3. silence' = 0 \/ silence' = IF silence + 1 <= MostSilence THEN silence + 1 ELSE MostSilence
    BY ElapseFacts
  <2> QED
    BY <2>1, <2>2, <2>3, NumberFacts
<1>7. lost' \in BOOLEAN
  BY DEF Elapse
<1>8. UNCHANGED <<reading, toSend, standing, sinceCmd, rxDepth>>
  BY ElapseFacts
<1> QED
  BY <1>1, <1>2, <1>3, <1>4, <1>5, <1>6, <1>7, <1>8 DEF TypeInv, TypeOK

LEMMA StepTypes == TypeInv /\ [Next]_vars => TypeInv'
<1>1. ASSUME TypeInv, UNCHANGED vars PROVE TypeInv'
  BY <1>1 DEF vars, lineVars, parserVars, replyVars, robotVars, TypeInv, TypeOK
<1> QED
  BY <1>1, DrainTypes, PushTypes, TickTypes, ElapseTypes, GiveUpTypes, PostTypes DEF Next, Loop

\* The variables keep their types: no FIFO holds more than its depth, no clock of
\* the loop counts past its bound, and a robot that stands has a watchdog that
\* has not run out.
THEOREM TypeCorrect == Spec => []TypeInv
<1>1. Init => TypeInv
  BY InitTypes
<1>2. TypeInv /\ [Next]_vars => TypeInv'
  BY StepTypes
<1> QED
  BY <1>1, <1>2, PTL DEF Spec

-----------------------------------------------------------------------------
(* What is on its way: whole frames, one after the other *)

CommandLast == [kind |-> "command", at |-> Size["command"]]
QueryLast == [kind |-> "query", at |-> Size["query"]]

\* A command has arrived whole and is not yet read to its end.
Pending == \E i \in 1..Len(rx) : rx[i] = CommandLast

\* The bytes from the parser to the sender.
Stream == reading \o (rx \o coming)

Follows(a, b) == IF a.at = Size[a.kind] THEN b.at = 1 ELSE b = [kind |-> a.kind, at |-> a.at + 1]

InRow(s) ==
  /\ \A i \in 1..(Len(s) - 1) : Follows(s[i], s[i + 1])
  /\ s # <<>> => s[1].at = 1 /\ s[Len(s)].at = Size[s[Len(s)].kind]

\* The parser holds the beginning of a frame, which is not all of it.
ReadingInv ==
  /\ \A i \in 1..Len(reading) : reading[i] = [kind |-> reading[1].kind, at |-> i]
  /\ reading # <<>> => Len(reading) < Size[reading[1].kind]

StreamInv == InRow(Stream) /\ ReadingInv

\* Frames in a row stay in a row when a frame is put behind them.
LEMMA FrameBehind ==
  ASSUME NEW s \in Seq(Bytes), InRow(s), NEW kind \in Kinds
  PROVE  InRow(s \o [i \in 1..Size[kind] |-> [kind |-> kind, at |-> i]])
<1> DEFINE n == Size[kind]
           f == [i \in 1..n |-> [kind |-> kind, at |-> i]]
           m == Len(s)
           t == s \o f
<1>1. n \in Nat \ {0} /\ m \in Nat
  BY ByteFacts
<1>2. f \in Seq(Bytes) /\ Len(f) = n /\ \A i \in 1..n : f[i] = [kind |-> kind, at |-> i]
  <2>1. \A i \in 1..n : [kind |-> kind, at |-> i] \in Bytes
    BY ByteFacts
  <2>2. f \in Seq(Bytes)
    BY <1>1, <2>1, SeqDef
  <2>3. Len(f) = n
    BY <1>1
  <2> QED
    BY <2>2, <2>3
<1> HIDE DEF f
<1>3. /\ Len(t) = m + n
      /\ \A i \in 1..m : t[i] = s[i]
      /\ \A i \in (m + 1)..(m + n) : t[i] = f[i - m]
  <2>1. Len(t) = m + n /\ \A i \in 1..(m + n) : t[i] = IF i <= m THEN s[i] ELSE f[i - m]
    BY <1>2, ConcatProperties
  <2> QED
    BY <1>1, <2>1
<1> HIDE DEF n, m, t
<1>4. /\ \A i \in 1..(m - 1) : Follows(s[i], s[i + 1])
      /\ m # 0 => s[1].at = 1 /\ s[m].at = Size[s[m].kind]
  <2>1. m # 0 => s # <<>>
    BY DEF m
  <2>2. s # <<>> => s[1].at = 1 /\ s[m].at = Size[s[m].kind]
    BY DEF InRow, m
  <2> QED
    BY <2>1, <2>2 DEF InRow, m
<1>5. ASSUME NEW i \in 1..(m + n - 1) PROVE Follows(t[i], t[i + 1])
  <2>1. CASE i < m
    <3>1. i \in 1..(m - 1) /\ i \in 1..m /\ i + 1 \in 1..m
      BY <1>1, <2>1
    <3> QED
      BY <1>3, <1>4, <3>1
  <2>2. CASE i = m
    <3>1. m # 0 /\ i \in 1..m /\ i + 1 \in (m + 1)..(m + n) /\ (i + 1) - m = 1 /\ 1 \in 1..n
      BY <1>1, <2>2
    <3>2. t[i] = s[m] /\ t[i + 1] = [kind |-> kind, at |-> 1]
      BY <1>2, <1>3, <2>2, <3>1
    <3> QED
      BY <1>4, <3>1, <3>2 DEF Follows
  <2>3. CASE i > m
    <3>1. /\ i \in (m + 1)..(m + n) /\ i + 1 \in (m + 1)..(m + n)
          /\ i - m \in 1..n /\ (i + 1) - m \in 1..n /\ (i + 1) - m = (i - m) + 1 /\ i - m # n
      BY <1>1, <2>3
    <3>2. t[i] = [kind |-> kind, at |-> i - m] /\ t[i + 1] = [kind |-> kind, at |-> (i - m) + 1]
      BY <1>2, <1>3, <3>1
    <3> QED
      BY <3>1, <3>2 DEF Follows, n
  <2> QED
    BY <1>1, <2>1, <2>2, <2>3
<1>6. t[1].at = 1
  <2>1. CASE m = 0
    <3>1. 1 \in (m + 1)..(m + n) /\ 1 - m = 1 /\ 1 \in 1..n
      BY <1>1, <2>1
    <3> QED
      BY <1>2, <1>3, <3>1
  <2>2. CASE m # 0
    <3>1. 1 \in 1..m
      BY <1>1, <2>2
    <3> QED
      BY <1>3, <1>4, <2>2, <3>1
  <2> QED
    BY <2>1, <2>2
<1>7. t[m + n].at = Size[t[m + n].kind]
  <2>1. m + n \in (m + 1)..(m + n) /\ (m + n) - m = n /\ n \in 1..n
    BY <1>1
  <2>2. t[m + n] = [kind |-> kind, at |-> n]
    BY <1>2, <1>3, <2>1
  <2> QED
    BY <2>2 DEF n
<1>8. InRow(t)
  <2>1. \A i \in 1..(Len(t) - 1) : Follows(t[i], t[i + 1])
    BY <1>1, <1>3, <1>5
  <2>2. t[1].at = 1 /\ t[Len(t)].at = Size[t[Len(t)].kind]
    BY <1>3, <1>6, <1>7
  <2> QED
    BY <2>1, <2>2 DEF InRow
<1> QED
  BY <1>8 DEF t, f, n

\* Frames in a row stay in a row when whole frames are taken from the front.
LEMMA FrameTaken ==
  ASSUME NEW a \in Seq(Bytes), NEW v \in Seq(Bytes), InRow(a \o v),
         a # <<>>, a[Len(a)].at = Size[a[Len(a)].kind]
  PROVE  InRow(v)
<1> DEFINE n == Len(a)
           m == Len(v)
           t == a \o v
<1>1. n \in Nat \ {0} /\ m \in Nat
  BY LenProperties, EmptySeq
<1>2. Len(t) = n + m /\ \A i \in 1..(n + m) : t[i] = IF i <= n THEN a[i] ELSE v[i - n]
  BY ConcatProperties
<1>3. /\ \A i \in 1..(Len(t) - 1) : Follows(t[i], t[i + 1])
      /\ t # <<>> => t[Len(t)].at = Size[t[Len(t)].kind]
  BY DEF InRow, t
<1>4. a[n].at = Size[a[n].kind]
  OBVIOUS
<1>5. v # <<>> => m # 0
  BY EmptySeq
<1>6. Len(t) # 0 => t # <<>>
  BY EmptySeq
<1> HIDE DEF n, m, t
<1>7. ASSUME NEW i \in 1..m PROVE t[n + i] = v[i]
  <2>1. n + i \in 1..(n + m) /\ ~(n + i <= n) /\ (n + i) - n = i
    BY <1>1
  <2> QED
    BY <1>2, <2>1
<1>8. ASSUME NEW i \in 1..(m - 1) PROVE Follows(v[i], v[i + 1])
  <2>1. i \in 1..m /\ i + 1 \in 1..m /\ n + i \in 1..(Len(t) - 1) /\ (n + i) + 1 = n + (i + 1)
    BY <1>1, <1>2
  <2>2. t[n + i] = v[i] /\ t[n + (i + 1)] = v[i + 1]
    BY <1>7, <2>1
  <2> QED
    BY <1>3, <2>1, <2>2
<1>9. ASSUME m # 0 PROVE v[1].at = 1 /\ v[m].at = Size[v[m].kind]
  <2>1. 1 \in 1..m /\ m \in 1..m /\ n \in 1..(Len(t) - 1) /\ n \in 1..(n + m) /\ n <= n /\ Len(t) # 0
    BY <1>1, <1>2, <1>9
  <2>2. t[n] = a[n] /\ t[n + 1] = v[1] /\ t[n + m] = v[m]
    BY <1>2, <1>7, <2>1
  <2>3. Follows(t[n], t[n + 1])
    BY <1>3, <2>1
  <2> QED
    BY <1>2, <1>3, <1>4, <1>6, <2>1, <2>2, <2>3 DEF Follows
<1> QED
  BY <1>5, <1>8, <1>9 DEF InRow, m

\* What stands at the head of the one stands at the end of the other.
LEMMA HeadPassed ==
  ASSUME NEW s \in Seq(Bytes), NEW t \in Seq(Bytes), t # <<>>
  PROVE  s \o t = Append(s, Head(t)) \o Tail(t)
<1> DEFINE h == Head(t)
           r == Tail(t)
<1>1. h \in Bytes /\ r \in Seq(Bytes) /\ <<h>> \in Seq(Bytes)
  BY HeadTailProperties
<1>2. t = <<h>> \o r
  <2>1. Len(t) \in Nat \ {0}
    BY EmptySeq
  <2> DEFINE n == Len(t)
  <2>2. 1 \in 1..n /\ n \in 1..n
    BY <2>1
  <2>3. SubSeq(t, 1, n) = t /\ r = SubSeq(t, 2, n) /\ h = t[1]
    BY SubSeqFull, TailIsSubSeq
  <2>4. SubSeq(t, 1, n) = <<t[1]>> \o SubSeq(t, 1 + 1, n)
    BY <2>2, SubSeqRecursiveFirst
  <2> QED
    BY <2>3, <2>4
<1> HIDE DEF h, r
<1>3. Append(s, h) = s \o <<h>>
  BY <1>1, AppendIsConcat
<1>4. (s \o <<h>>) \o r = s \o (<<h>> \o r)
  BY <1>1, ConcatAssociative
<1> QED
  BY <1>2, <1>3, <1>4 DEF h, r

\* With frames in a row the parser reads each frame from its first byte to its
\* last: the watchdog is fed by the last byte of a command and by nothing else,
\* and a reply follows on the last byte of a query and on nothing else.
LEMMA DrainReads ==
  ASSUME TypeInv, StreamInv, Drain
  PROVE  /\ StreamInv'
         /\ Head(rx) = CommandLast => sinceCmd' = 0
         /\ Head(rx) # CommandLast => UNCHANGED sinceCmd
         /\ Head(rx) = QueryLast => toSend' = ReplySize
         /\ Head(rx) # QueryLast => UNCHANGED toSend
<1> DEFINE b == Head(rx)
           n == Len(reading)
           taken == Append(reading, b)
           rest == Tail(rx) \o coming
<1>1. /\ rx # <<>> /\ Feed(b) /\ rx' = Tail(rx) /\ coming' = coming
  BY DEF Drain, lineVars
<1>2. coming \in Seq(Bytes) /\ rx \in Seq(Bytes) /\ reading \in Seq(Bytes)
  BY DEF TypeInv, TypeOK
<1>3. b \in Bytes /\ Tail(rx) \in Seq(Bytes)
  BY <1>1, <1>2
<1>4. rest \in Seq(Bytes) /\ taken \in Seq(Bytes)
  BY <1>2, <1>3, ConcatProperties, AppendProperties
<1>5. Stream = taken \o rest
  <2>1. reading \o (rx \o coming) = (reading \o rx) \o coming
    BY <1>2, ConcatAssociative
  <2>2. reading \o rx = taken \o Tail(rx)
    BY <1>1, <1>2, HeadPassed
  <2>3. (taken \o Tail(rx)) \o coming = taken \o rest
    <3> DEFINE r == Tail(rx)
    <3>1. r \in Seq(Bytes) /\ taken \in Seq(Bytes) /\ coming \in Seq(Bytes)
      BY <1>2, <1>3, <1>4
    <3> HIDE DEF r, taken
    <3>2. (taken \o r) \o coming = taken \o (r \o coming)
      BY <3>1, ConcatAssociative
    <3> QED
      BY <3>2 DEF r
  <2> QED
    BY <2>1, <2>2, <2>3 DEF Stream
<1>6. /\ n \in Nat /\ Len(taken) = n + 1 /\ taken[n + 1] = b
      /\ \A i \in 1..n : taken[i] = reading[i]
  BY <1>2, <1>3, AppendProperties, LenProperties
<1>7. InRow(Stream) /\ ReadingInv
  BY DEF StreamInv
<1> HIDE DEF b, taken, rest
<1>8. /\ Len(Stream) \in Nat /\ Len(Stream) >= n + 1 /\ Stream # <<>>
      /\ \A i \in 1..(n + 1) : Stream[i] = taken[i]
  <2> DEFINE m == Len(rest)
  <2>1. m \in Nat /\ Len(taken) = n + 1 /\ n \in Nat
    BY <1>4, <1>6, LenProperties
  <2> DEFINE l == Len(taken)
  <2>2. /\ Len(taken \o rest) = l + m
        /\ \A i \in 1..(l + m) : (taken \o rest)[i] = IF i <= l THEN taken[i] ELSE rest[i - l]
    BY <1>4, ConcatProperties
  <2>5. l = n + 1
    BY <1>6
  <2> HIDE DEF l, m, n
  <2>3. Len(Stream) \in Nat /\ Len(Stream) >= n + 1 /\ \A i \in 1..(n + 1) : Stream[i] = taken[i]
    BY <1>5, <2>1, <2>2, <2>5
  <2>4. Stream # <<>>
    BY <2>1, <2>3, EmptySeq
  <2> QED
    BY <2>3, <2>4
<1>9. /\ b.kind \in Kinds /\ b = [kind |-> b.kind, at |-> b.at] /\ b.at \in 1..Size[b.kind] /\ b.at \in Nat
      /\ Size[b.kind] \in Nat
  BY <1>3, ByteFacts
\* The next byte continues the frame.
<1>10. b.at = n + 1 /\ \A i \in 1..(n + 1) : taken[i] = [kind |-> b.kind, at |-> i]
  <2>1. CASE n = 0
    <3>1. Stream[1] = b /\ 1 \in 1..(n + 1)
      BY <1>6, <1>8, <2>1
    <3>2. b.at = 1
      BY <1>7, <1>8, <3>1 DEF InRow
    <3>3. \A i \in 1..(n + 1) : i = 1
      BY <2>1
    <3> QED
      BY <1>6, <1>9, <2>1, <3>2, <3>3
  <2>2. CASE n # 0
    <3>1. reading # <<>> /\ n \in 1..n /\ 1 \in 1..n /\ n \in 1..(n + 1) /\ n + 1 \in 1..(n + 1)
      BY <1>6, <2>2, EmptySeq
    <3>2. /\ \A i \in 1..n : reading[i] = [kind |-> reading[1].kind, at |-> i]
          /\ n < Size[reading[1].kind]
      BY <1>7, <3>1 DEF ReadingInv
    <3>3. Follows(Stream[n], Stream[n + 1])
      <4>1. n \in 1..(Len(Stream) - 1)
        BY <1>6, <1>8, <2>2
      <4> QED
        BY <1>7, <4>1 DEF InRow
    <3> DEFINE k == reading[1].kind
    <3>4. Stream[n] = [kind |-> k, at |-> n] /\ Stream[n + 1] = b
      BY <1>6, <1>8, <3>1, <3>2
    <3> HIDE DEF n, k
    <3>5. n # Size[k]
      BY <1>6, <3>2 DEF k
    <3>6. b = [kind |-> k, at |-> n + 1]
      BY <3>3, <3>4, <3>5 DEF Follows
    <3>7. \A i \in 1..n : taken[i] = [kind |-> k, at |-> i]
      BY <1>6, <3>2 DEF k, n
    <3>8. \A i \in 1..(n + 1) : taken[i] = [kind |-> k, at |-> i]
      <4>1. \A i \in 1..(n + 1) : i \in 1..n \/ i = n + 1
        BY <1>6 DEF n
      <4>2. taken[n + 1] = [kind |-> k, at |-> n + 1]
        BY <1>6, <3>6 DEF n
      <4> QED
        BY <3>7, <4>1, <4>2
    <3> QED
      BY <3>6, <3>8
  <2> QED
    BY <2>1, <2>2
<1>11. /\ n + 1 \in Nat /\ n + 1 <= Size[b.kind] /\ Head(taken) = [kind |-> b.kind, at |-> 1]
       /\ Len(taken) = n + 1 /\ ~(reading = <<>> /\ b.at # 1)
  <2>1. n + 1 \in Nat /\ n + 1 <= Size[b.kind] /\ 1 \in 1..(n + 1)
    BY <1>6, <1>9, <1>10
  <2>2. taken[1] = [kind |-> b.kind, at |-> 1] /\ Head(taken) = taken[1]
    BY <1>4, <1>10, <2>1
  <2>3. reading = <<>> => n = 0
    BY EmptySeq
  <2> QED
    BY <1>6, <1>10, <2>1, <2>2, <2>3
<1>12. /\ n + 1 < Size[b.kind] => reading' = taken /\ UNCHANGED <<toSend, sinceCmd>>
       /\ n + 1 = Size[b.kind] => reading' = <<>> /\ Dispatch(b.kind)
  <2>1. \/ Len(taken) < Size[b.kind] /\ reading' = taken /\ UNCHANGED <<toSend, sinceCmd>>
        \/ /\ Len(taken) = Size[b.kind] /\ reading' = <<>>
           /\ IF Intact(taken) THEN Dispatch(b.kind) ELSE UNCHANGED <<toSend, sinceCmd>>
    BY <1>1, <1>11 DEF Feed, taken
  <2>2. Intact(taken)
    <3>1. DOMAIN taken = 1..(n + 1)
      BY <1>4, <1>11, LenProperties
    <3> QED
      BY <1>10, <1>11, <3>1 DEF Intact
  <2> HIDE DEF n
  <2> QED
    BY <1>9, <1>11, <2>1, <2>2
<1>13. CASE n + 1 < Size[b.kind]
  <2>1. reading' = taken /\ UNCHANGED <<toSend, sinceCmd>>
    BY <1>12, <1>13
  <2>2. b # CommandLast /\ b # QueryLast
    BY <1>9, <1>10, <1>13 DEF CommandLast, QueryLast
  <2>3. Stream' = Stream
    BY <1>1, <1>5, <2>1 DEF Stream, rest
  <2>4. ReadingInv'
    <3>1. taken[1].kind = b.kind
      <4>1. 1 \in 1..(n + 1)
        BY <1>6
      <4> HIDE DEF n
      <4>2. taken[1] = [kind |-> b.kind, at |-> 1]
        BY <1>10, <4>1
      <4> QED
        BY <4>2
    <3> QED
      BY <1>10, <1>11, <1>13, <2>1, <3>1 DEF ReadingInv
  <2>5. StreamInv'
    BY <1>7, <2>3, <2>4 DEF StreamInv, InRow
  <2> QED
    BY <2>1, <2>2, <2>5 DEF b
<1>14. CASE n + 1 = Size[b.kind]
  <2>1. reading' = <<>> /\ Dispatch(b.kind)
    BY <1>12, <1>14
  <2>2. /\ b = CommandLast <=> b.kind = "command"
        /\ b = QueryLast <=> b.kind = "query"
    BY <1>9, <1>10, <1>14 DEF CommandLast, QueryLast
  <2>3. b.kind = "command" => sinceCmd' = 0 /\ UNCHANGED toSend
    BY <2>1 DEF Dispatch, Pet
  <2>4. b.kind = "query" => UNCHANGED sinceCmd /\ toSend' = ReplySize
    BY <2>1 DEF Dispatch
  <2>9. b.kind = "command" \/ b.kind = "query"
    BY <1>9 DEF Kinds
  <2>5. Stream' = rest
    <3>1. Stream' = <<>> \o rest
      BY <1>1, <2>1 DEF Stream, rest
    <3> QED
      BY <1>4, <3>1, ConcatEmptySeq
  <2>6. InRow(rest)
    <3>1. taken # <<>> /\ taken[Len(taken)] = b
      BY <1>4, <1>6, EmptySeq
    <3>2. b.at = Size[b.kind]
      BY <1>10, <1>14
    <3> QED
      BY <1>4, <1>5, <1>7, <3>1, <3>2, FrameTaken
  <2>7. ReadingInv'
    BY <2>1 DEF ReadingInv
  <2>8. StreamInv'
    BY <2>5, <2>6, <2>7 DEF StreamInv, InRow
  <2> QED
    BY <2>2, <2>3, <2>4, <2>8, <2>9 DEF b
<1> QED
  <2> HIDE DEF n
  <2>1. n + 1 < Size[b.kind] \/ n + 1 = Size[b.kind]
    BY <1>9, <1>11
  <2> QED
    BY <1>13, <1>14, <2>1

LEMMA InitStream == Init => StreamInv
<1> SUFFICES ASSUME Init PROVE StreamInv
  OBVIOUS
<1>1. reading = <<>> /\ rx = <<>> /\ coming = <<>>
  BY DEF Init
<1>2. <<>> \in Seq(Bytes) /\ Len(<<>>) = 0
  OBVIOUS
<1>3. Stream = <<>>
  <2>1. \A s \in Seq(Bytes) : <<>> \o s = s
    BY ConcatEmptySeq
  <2> QED
    BY <1>1, <1>2, <2>1 DEF Stream
<1>4. InRow(Stream)
  BY <1>2, <1>3 DEF InRow
<1>5. ReadingInv
  BY <1>1, <1>2 DEF ReadingInv
<1> QED
  BY <1>4, <1>5 DEF StreamInv

\* The frames stay in a row as long as no byte is lost.
LEMMA StreamStep == TypeInv /\ StreamInv /\ ~lost' /\ [Next]_vars => StreamInv'
<1> SUFFICES ASSUME TypeInv, StreamInv, ~lost', [Next]_vars PROVE StreamInv'
  OBVIOUS
<1>0. coming \in Seq(Bytes) /\ rx \in Seq(Bytes) /\ reading \in Seq(Bytes)
  BY DEF TypeInv, TypeOK
<1>1. ASSUME UNCHANGED reading, Stream' = Stream PROVE StreamInv'
  BY <1>1 DEF StreamInv, ReadingInv, InRow
<1>2. ASSUME UNCHANGED <<reading, rx, coming>> PROVE StreamInv'
  BY <1>1, <1>2 DEF Stream
<1>3. CASE UNCHANGED vars
  BY <1>2, <1>3 DEF vars, lineVars, parserVars
<1>4. CASE Push \/ Tick
  BY <1>2, <1>4 DEF Push, Tick, TickWith, lineVars, parserVars
<1>5. CASE GiveUp
  BY <1>2, <1>5 DEF GiveUp, parserVars
<1>6. CASE Drain
  BY <1>6, DrainReads
<1>7. CASE Elapse
  <2>1. CASE coming = <<>>
    BY <1>2, <1>7, <2>1, ElapseFacts
  <2>2. CASE coming # <<>>
    <3>1. rx' = Append(rx, Head(coming)) /\ coming' = Tail(coming) /\ reading' = reading
      BY <1>7, <2>2, ElapseFacts
    <3>2. rx \o coming = Append(rx, Head(coming)) \o Tail(coming)
      BY <1>0, <2>2, HeadPassed
    <3> QED
      BY <1>1, <3>1, <3>2 DEF Stream
  <2> QED
    BY <2>1, <2>2
<1>8. ASSUME NEW kind \in Kinds, Post(kind) PROVE StreamInv'
  <2> DEFINE f == [i \in 1..Size[kind] |-> [kind |-> kind, at |-> i]]
  <2>1. coming = <<>> /\ coming' = f /\ reading' = reading /\ rx' = rx
    BY <1>8 DEF Post, parserVars
  <2>2. f \in Seq(Bytes)
    <3>1. coming' \in Seq(Bytes)
      BY <1>8, PostTypes DEF TypeInv, TypeOK
    <3> QED
      BY <2>1, <3>1
  <2> HIDE DEF f
  <2>3. Stream \in Seq(Bytes) /\ Stream = reading \o rx
    <3>1. rx \o coming = rx
      BY <1>0, <2>1, ConcatEmptySeq
    <3> QED
      BY <1>0, <3>1, ConcatProperties DEF Stream
  <2>4. Stream' = Stream \o f
    <3>1. Stream' = reading \o (rx \o f)
      BY <2>1 DEF Stream
    <3>2. (reading \o rx) \o f = reading \o (rx \o f)
      BY <1>0, <2>2, ConcatAssociative
    <3> QED
      BY <2>3, <3>1, <3>2
  <2>5. InRow(Stream \o f)
    BY <2>3, FrameBehind DEF StreamInv, f
  <2>6. ReadingInv'
    BY <2>1 DEF StreamInv, ReadingInv
  <2> QED
    BY <2>4, <2>5, <2>6 DEF StreamInv, InRow
<1> QED
  BY <1>3, <1>4, <1>5, <1>6, <1>7, <1>8 DEF Next, Loop

-----------------------------------------------------------------------------
(* The watchdog *)

\* The silence the watchdog knows of: what it has counted, and what has gone by
\* since the last tick. It knows of no less than there is, and, a command that
\* is not yet read apart, of no more than a tick's worth more.
PromptInv ==
  /\ standing => silence <= sinceCmd + sinceTick
  /\ Pending => silence <= sinceTick

DeservedInv == standing /\ ~Pending => sinceCmd + sinceTick <= silence + Period + Lateness

WatchdogInv == TypeInv /\ StreamInv /\ PromptInv /\ DeservedInv

\* What the watchdog relies on.
Relied == TickIsPunctual /\ ~lost

LEMMA InitWatchdog == Init /\ Relied => WatchdogInv
<1> SUFFICES ASSUME Init, Relied PROVE WatchdogInv
  OBVIOUS
<1>1. sinceTick = 0 /\ sinceCmd = 0 /\ silence = 0 /\ rx = <<>>
  BY DEF Init
<1>2. sinceTick <= Period + Lateness
  BY DEF Relied, TickIsPunctual
<1>3. PromptInv
  BY <1>1 DEF PromptInv
<1>4. DeservedInv
  BY <1>1, <1>2, NumberFacts DEF DeservedInv, Lateness
<1> QED
  BY <1>3, <1>4, InitTypes, InitStream DEF WatchdogInv

\* A byte put behind the others is pending if it is the last of a command.
LEMMA PendingBehind ==
  ASSUME rx \in Seq(Bytes), NEW b \in Bytes, rx' = Append(rx, b)
  PROVE  Pending' <=> Pending \/ b = CommandLast
<1> DEFINE n == Len(rx)
<1>1. /\ n \in Nat /\ Len(rx') = n + 1 /\ rx'[n + 1] = b /\ \A i \in 1..n : rx'[i] = rx[i]
  BY AppendProperties, LenProperties
<1>2. CommandLast' = CommandLast
  BY DEF CommandLast
<1>3. Pending <=> \E i \in 1..n : rx[i] = CommandLast
  BY DEF Pending
<1>4. Pending' <=> \E i \in 1..(n + 1) : rx'[i] = CommandLast
  BY <1>1, <1>2 DEF Pending
<1> HIDE DEF n
<1>5. \A i \in 1..(n + 1) : i \in 1..n \/ i = n + 1
  BY <1>1
<1>6. n + 1 \in 1..(n + 1) /\ \A i \in 1..n : i \in 1..(n + 1)
  BY <1>1
<1> QED
  BY <1>1, <1>3, <1>4, <1>5, <1>6

\* A byte taken from the front was pending if it is the last of a command.
LEMMA PendingBefore ==
  ASSUME rx \in Seq(Bytes), rx # <<>>, rx' = Tail(rx)
  PROVE  Pending <=> Pending' \/ Head(rx) = CommandLast
<1> DEFINE n == Len(rx)
<1>1. n \in Nat \ {0}
  BY EmptySeq
<1>2. Len(rx') = n - 1 /\ (\A i \in 1..(n - 1) : rx'[i] = rx[i + 1]) /\ Head(rx) = rx[1]
  BY HeadTailProperties
<1>3. CommandLast' = CommandLast
  BY DEF CommandLast
<1>4. Pending <=> \E i \in 1..n : rx[i] = CommandLast
  BY DEF Pending
<1>5. Pending' <=> \E i \in 1..(n - 1) : rx'[i] = CommandLast
  BY <1>2, <1>3 DEF Pending
<1> HIDE DEF n
<1>6. ASSUME NEW i \in 1..n PROVE i = 1 \/ (i - 1 \in 1..(n - 1) /\ (i - 1) + 1 = i)
  BY <1>1
<1>7. 1 \in 1..n /\ \A i \in 1..(n - 1) : i + 1 \in 1..n
  BY <1>1
<1>8. ASSUME Pending PROVE Pending' \/ Head(rx) = CommandLast
  <2>1. PICK i \in 1..n : rx[i] = CommandLast
    BY <1>4, <1>8
  <2>2. CASE i = 1
    BY <1>2, <2>1, <2>2
  <2>3. CASE i - 1 \in 1..(n - 1) /\ (i - 1) + 1 = i
    <3>1. rx'[i - 1] = CommandLast
      BY <1>2, <2>1, <2>3
    <3> QED
      BY <1>5, <2>3, <3>1
  <2> QED
    BY <1>6, <2>2, <2>3
<1>9. ASSUME Pending' PROVE Pending
  <2>1. PICK i \in 1..(n - 1) : rx'[i] = CommandLast
    BY <1>5, <1>9
  <2>2. rx[i + 1] = CommandLast
    BY <1>2, <2>1
  <2> QED
    BY <1>4, <1>7, <2>2
<1>10. Head(rx) = CommandLast => Pending
  BY <1>2, <1>4, <1>7
<1> QED
  BY <1>8, <1>9, <1>10

LEMMA WatchdogStep == WatchdogInv /\ Relied /\ Relied' /\ [Next]_vars => WatchdogInv'
<1> SUFFICES ASSUME WatchdogInv, Relied, Relied', [Next]_vars PROVE WatchdogInv'
  OBVIOUS
<1> DEFINE L == Period + Lateness
<1>1. /\ L \in Int /\ L < MostGap /\ sinceTick <= L /\ sinceTick' <= L
      /\ sinceTick \in Nat /\ sinceTick <= MostGap
      /\ sinceCmd \in Nat /\ silence \in Nat /\ standing \in BOOLEAN /\ ~lost /\ ~lost'
      /\ (standing => sinceCmd <= Timeout) /\ Timeout \in Nat
      /\ MostSilence \in Nat /\ MostSilence = Timeout + MostGap /\ MostGap \in Nat
      /\ coming \in Seq(Bytes) /\ rx \in Seq(Bytes)
  <2>1. sinceTick <= L /\ sinceTick' <= L /\ ~lost /\ ~lost'
    <3>1. TickIsPunctual' <=> sinceTick' <= L
      BY DEF TickIsPunctual, Lateness
    <3> QED
      BY <3>1 DEF Relied, TickIsPunctual
  <2>2. L \in Int /\ L < MostGap
    BY NumberFacts DEF Lateness, MostGap
  <2>3. /\ sinceTick \in 0..MostGap /\ sinceCmd \in 0..MostSilence /\ silence \in 0..MostSilence
        /\ standing \in BOOLEAN /\ (standing => sinceCmd <= Timeout)
        /\ coming \in Seq(Bytes) /\ rx \in Seq(Bytes)
    BY DEF WatchdogInv, TypeInv, TypeOK
  <2> QED
    BY <2>1, <2>2, <2>3, NumberFacts
<1>2. TypeInv /\ StreamInv /\ TypeInv' /\ StreamInv'
  BY <1>1, StepTypes, StreamStep DEF WatchdogInv
<1>3. /\ standing => silence <= sinceCmd + sinceTick
      /\ Pending => silence <= sinceTick
      /\ standing /\ ~Pending => sinceCmd + sinceTick <= silence + L
  <2>1. DeservedInv => (standing /\ ~Pending => sinceCmd + sinceTick <= silence + L)
    BY <1>1, NumberFacts DEF DeservedInv, Lateness
  <2> QED
    BY <2>1 DEF WatchdogInv, PromptInv
<1>4. ASSUME /\ standing' => silence' <= sinceCmd' + sinceTick'
             /\ Pending' => silence' <= sinceTick'
             /\ standing' /\ ~Pending' => sinceCmd' + sinceTick' <= silence' + L,
             silence' \in Nat
      PROVE  WatchdogInv'
  <2>1. DeservedInv'
    BY <1>4, NumberFacts DEF DeservedInv, Lateness
  <2>2. PromptInv'
    BY <1>4 DEF PromptInv
  <2> QED
    BY <1>2, <2>1, <2>2 DEF WatchdogInv
<1> HIDE DEF L
<1>5. UNCHANGED rx => (Pending' <=> Pending)
  BY DEF Pending, CommandLast
<1>6. ASSUME UNCHANGED <<rx, standing, sinceCmd, sinceTick, silence>> PROVE WatchdogInv'
  BY <1>1, <1>3, <1>4, <1>5, <1>6
<1>7. CASE UNCHANGED vars
  BY <1>6, <1>7 DEF vars, robotVars, parserVars
<1>8. CASE Push
  BY <1>6, <1>8 DEF Push, robotVars, parserVars
<1>9. CASE GiveUp
  BY <1>6, <1>9 DEF GiveUp, robotVars, parserVars
<1>10. ASSUME NEW kind \in Kinds, Post(kind) PROVE WatchdogInv'
  BY <1>6, <1>10 DEF Post, robotVars, parserVars
<1>11. CASE Tick
  <2>1. rx = <<>> /\ rx' = rx /\ sinceTick' = 0 /\ Watch(sinceTick)
    BY <1>11 DEF Tick, TickWith, parserVars
  <2>2. ~Pending /\ ~Pending'
    <3>1. ~Pending
      BY <2>1 DEF Pending
    <3> QED
      BY <1>5, <2>1, <3>1
  <2>3. CASE standing /\ sinceCmd' = sinceCmd + sinceTick /\ UNCHANGED silence
    BY <1>1, <1>3, <1>4, <2>1, <2>2, <2>3
  <2>4. CASE ~standing /\ UNCHANGED <<standing, sinceCmd, silence>>
    BY <1>1, <1>4, <2>2, <2>4
  <2>5. CASE ~standing /\ sinceCmd' = 0 /\ silence' = 0
    BY <1>1, <1>4, <2>1, <2>2, <2>5
  <2> QED
    BY <2>1, <2>3, <2>4, <2>5 DEF Watch, Pet, robotVars
<1>12. CASE Drain
  <2>1. rx # <<>> /\ rx' = Tail(rx) /\ UNCHANGED <<standing, sinceTick, silence>>
    BY <1>12 DEF Drain
  <2>2. Pending <=> Pending' \/ Head(rx) = CommandLast
    BY <1>1, <2>1, PendingBefore
  <2>3. /\ Head(rx) = CommandLast => sinceCmd' = 0
        /\ Head(rx) # CommandLast => sinceCmd' = sinceCmd
    BY <1>2, <1>12, DrainReads
  <2>4. CASE Head(rx) = CommandLast
    BY <1>1, <1>3, <1>4, <2>1, <2>2, <2>3, <2>4
  <2>5. CASE Head(rx) # CommandLast
    BY <1>1, <1>3, <1>4, <2>1, <2>2, <2>3, <2>5
  <2> QED
    BY <2>4, <2>5
<1>13. CASE Elapse
  <2>1. UNCHANGED <<standing, sinceCmd>>
    BY <1>2, <1>13, ElapseFacts
  <2>2. sinceTick' = sinceTick + 1
    <3>1. sinceTick' = IF sinceTick + 1 <= MostGap THEN sinceTick + 1 ELSE MostGap
      BY <1>2, <1>13, ElapseFacts
    <3> QED
      BY <1>1, <3>1
  <2>3. silence' = 0 \/ silence' = IF silence + 1 <= MostSilence THEN silence + 1 ELSE MostSilence
    BY <1>2, <1>13, ElapseFacts
  <2>4. silence' \in Nat /\ silence' <= silence + 1
    BY <1>1, <2>3
  <2>5. ASSUME standing, silence' = IF silence + 1 <= MostSilence THEN silence + 1 ELSE MostSilence,
               sinceCmd + sinceTick <= silence + L
        PROVE  sinceCmd' + sinceTick' <= silence' + L
    <3>1. CASE silence' = silence + 1
      BY <1>1, <2>1, <2>2, <2>5, <3>1
    <3>2. CASE silence' = Timeout + MostGap
      BY <1>1, <2>1, <2>2, <2>5, <3>2
    <3> QED
      BY <1>1, <2>5, <3>1, <3>2
  <2>6. CASE coming # <<>> /\ Head(coming) = CommandLast
    <3>1. rx' = Append(rx, Head(coming)) /\ Head(coming) \in Bytes
      BY <1>1, <1>2, <1>13, <2>6, ElapseFacts
    <3>2. silence' = 0
      BY <1>1, <1>2, <1>13, <2>6, ElapseFacts DEF CommandLast
    <3>3. Pending'
      BY <1>1, <2>6, <3>1, PendingBehind
    <3> QED
      BY <1>1, <1>4, <2>1, <2>2, <3>2, <3>3
  <2>7. CASE coming = <<>> \/ Head(coming) # CommandLast
    <3>1. Pending' <=> Pending
      <4>1. CASE coming = <<>>
        BY <1>2, <1>5, <1>13, <4>1, ElapseFacts
      <4>2. CASE coming # <<>>
        <5>1. rx' = Append(rx, Head(coming)) /\ Head(coming) \in Bytes
          BY <1>1, <1>2, <1>13, <4>2, ElapseFacts
        <5> QED
          BY <1>1, <2>7, <4>2, <5>1, PendingBehind
      <4> QED
        BY <4>1, <4>2
    <3>2. standing => silence' = IF silence + 1 <= MostSilence THEN silence + 1 ELSE MostSilence
      BY <1>2, <1>13, <2>7, ElapseFacts DEF CommandLast
    <3>3. standing' => silence' <= sinceCmd' + sinceTick'
      BY <1>1, <1>3, <2>1, <2>2, <2>4
    <3>4. Pending' => silence' <= sinceTick'
      BY <1>1, <1>3, <2>2, <2>4, <3>1
    <3>5. standing' /\ ~Pending' => sinceCmd' + sinceTick' <= silence' + L
      BY <1>3, <2>1, <2>5, <3>1, <3>2
    <3> QED
      BY <1>4, <2>4, <3>3, <3>4, <3>5
  <2> QED
    BY <2>6, <2>7
<1> QED
  BY <1>7, <1>8, <1>9, <1>10, <1>11, <1>12, <1>13 DEF Next, Loop

\* If ticks are punctual and no byte is lost, a silent line is noticed within
\* the timeout and one tick (Robot::update(), Router::dispatch()).
THEOREM NoticedInTime == Spec /\ []TickIsPunctual /\ []~lost => []TripIsPrompt
<1>1. Init /\ Relied => WatchdogInv
  BY InitWatchdog
<1>2. WatchdogInv /\ Relied /\ Relied' /\ [Next]_vars => WatchdogInv'
  BY WatchdogStep
<1>3. WatchdogInv /\ Relied => TripIsPrompt
  <2> SUFFICES ASSUME WatchdogInv, Relied, standing PROVE silence <= Timeout + Period + Lateness
    BY DEF TripIsPrompt
  <2>1. /\ silence <= sinceCmd + sinceTick /\ sinceCmd <= Timeout /\ sinceTick <= Period + Lateness
        /\ sinceCmd \in Nat /\ sinceTick \in Nat /\ silence \in Nat
    BY NumberFacts DEF WatchdogInv, PromptInv, TypeInv, TypeOK, Relied, TickIsPunctual
  <2> QED
    BY <2>1, NumberFacts DEF Lateness
<1>4. TickIsPunctual /\ ~lost <=> Relied
  BY DEF Relied
<1> QED
  BY <1>1, <1>2, <1>3, <1>4, PTL DEF Spec

\* Under the same conditions the watchdog trips only on a line that has been
\* silent for the timeout, less one tick at the least: neither an update nor the
\* replies that hold the loop up make it trip on a sender that keeps going.
THEOREM TripsWhenSilent == Spec /\ []TickIsPunctual /\ []~lost => TripIsDeserved
<1>1. Init /\ Relied => WatchdogInv
  BY InitWatchdog
<1>2. WatchdogInv /\ Relied /\ Relied' /\ [Next]_vars => WatchdogInv'
  BY WatchdogStep
<1>3. WatchdogInv /\ Relied /\ [Next]_vars
        => [Bridged /\ standing /\ ~standing' => silence + Period + Lateness > Timeout]_vars
  <2> SUFFICES ASSUME WatchdogInv, Relied, [Next]_vars, standing, ~standing'
               PROVE  silence + Period + Lateness > Timeout
    OBVIOUS
  <2>1. Tick
    <3>1. UNCHANGED standing => FALSE
      BY DEF WatchdogInv, TypeInv, TypeOK
    <3>2. Elapse => UNCHANGED standing
      BY ElapseFacts DEF WatchdogInv
    <3> QED
      BY <3>1, <3>2 DEF Next, Loop, Drain, Push, GiveUp, Post, vars, robotVars
  <2>2. rx = <<>> /\ standing /\ sinceCmd' = sinceCmd + sinceTick /\ standing' = (sinceCmd' <= Timeout)
    BY <2>1 DEF Tick, TickWith, Watch, robotVars
  <2>3. ~(sinceCmd + sinceTick <= Timeout)
    BY <2>2
  <2>4. sinceCmd + sinceTick <= silence + Period + Lateness
    <3>1. ~Pending
      BY <2>2 DEF Pending
    <3> QED
      BY <3>1 DEF WatchdogInv, DeservedInv
  <2>5. sinceCmd \in Nat /\ sinceTick \in Nat /\ silence \in Nat
    BY NumberFacts DEF WatchdogInv, TypeInv, TypeOK
  <2> QED
    BY <2>3, <2>4, <2>5, NumberFacts DEF Lateness
<1>4. TickIsPunctual /\ ~lost <=> Relied
  BY DEF Relied
<1> QED
  BY <1>1, <1>2, <1>3, <1>4, PTL DEF Spec, TripIsDeserved

-----------------------------------------------------------------------------
(* A query and its reply *)

\* The bytes on their way to the parser.
Ahead == rx \o coming

NoQueryIn(s) == \A i \in 1..Len(s) : s[i] # QueryLast
OneQueryIn(s, k) == k \in 1..Len(s) /\ \A i \in 1..Len(s) : s[i] = QueryLast <=> i = k

LEMMA AheadFacts ==
  ASSUME TypeInv
  PROVE  /\ Ahead \in Seq(Bytes) /\ Len(Ahead) \in Nat /\ Len(rx) \in Nat
         /\ Len(Ahead) = Len(rx) + Len(coming) /\ Len(coming) \in Nat
         /\ coming = <<>> => Ahead = rx
         /\ coming # <<>> => Len(rx) < Len(Ahead)
<1>1. rx \in Seq(Bytes) /\ coming \in Seq(Bytes)
  BY DEF TypeInv, TypeOK
<1>2. /\ Ahead \in Seq(Bytes) /\ Len(Ahead) = Len(rx) + Len(coming)
      /\ Len(rx) \in Nat /\ Len(coming) \in Nat
  BY <1>1, ConcatProperties, LenProperties DEF Ahead
<1>3. coming = <<>> => Ahead = rx
  BY <1>1, ConcatEmptySeq DEF Ahead
<1>4. coming # <<>> => Len(coming) \in Nat \ {0}
  BY <1>1, EmptySeq
<1>5. coming # <<>> => Len(rx) < Len(Ahead)
  <2> DEFINE a == Len(Ahead)
             b == Len(rx)
             c == Len(coming)
  <2>1. a = b + c /\ b \in Nat /\ (coming # <<>> => c \in Nat \ {0})
    BY <1>2, <1>4
  <2> HIDE DEF a, b, c
  <2>2. coming # <<>> => b < a
    BY <2>1
  <2> QED
    BY <2>2 DEF a, b
<1> QED
  BY <1>2, <1>3, <1>5

\* A byte time moves a byte from the sender to the FIFO, unless it is dropped.
LEMMA AheadStored ==
  ASSUME TypeInv, Elapse, coming = <<>> \/ Len(rx) < rxDepth
  PROVE  /\ Ahead' = Ahead
         /\ coming = <<>> => Len(rx') = Len(rx)
         /\ coming # <<>> => Len(rx') = Len(rx) + 1
<1>1. rx \in Seq(Bytes) /\ coming \in Seq(Bytes)
  BY DEF TypeInv, TypeOK
<1>2. CASE coming = <<>>
  BY <1>2, ElapseFacts DEF Ahead
<1>3. CASE coming # <<>>
  <2>1. rx' = Append(rx, Head(coming)) /\ coming' = Tail(coming) /\ Head(coming) \in Bytes
    BY <1>3, ElapseFacts DEF Elapse
  <2>2. rx \o coming = Append(rx, Head(coming)) \o Tail(coming)
    BY <1>1, <1>3, HeadPassed
  <2>3. Len(rx') = Len(rx) + 1
    BY <1>1, <2>1, AppendProperties
  <2> QED
    BY <1>3, <2>1, <2>2, <2>3 DEF Ahead
<1> QED
  BY <1>2, <1>3

LEMMA AheadElapse ==
  ASSUME TypeInv, Elapse, ~lost'
  PROVE  /\ Ahead' = Ahead
         /\ coming = <<>> => Len(rx') = Len(rx)
         /\ coming # <<>> => Len(rx') = Len(rx) + 1
BY AheadStored, ElapseFacts

\* A byte that finds the FIFO full is gone from among them.
LEMMA AheadDropped ==
  ASSUME TypeInv, Elapse, coming # <<>>, ~(Len(rx) < rxDepth)
  PROVE  /\ rx' = rx /\ Len(Ahead') = Len(Ahead) - 1 /\ Len(rx) < Len(Ahead)
         /\ \A i \in 1..Len(Ahead') : Ahead'[i] = IF i <= Len(rx) THEN Ahead[i] ELSE Ahead[i + 1]
<1> DEFINE n == Len(rx)
           m == Len(coming)
           t == Tail(coming)
<1>1. rx \in Seq(Bytes) /\ coming \in Seq(Bytes) /\ rx' = rx /\ coming' = t
  BY DEF TypeInv, TypeOK, Elapse
<1>2. /\ n \in Nat /\ m \in Nat \ {0} /\ t \in Seq(Bytes) /\ Len(t) = m - 1
      /\ \A i \in 1..(m - 1) : t[i] = coming[i + 1]
  BY <1>1, EmptySeq, LenProperties, HeadTailProperties
<1>3. /\ Len(Ahead) = n + m
      /\ \A i \in 1..(n + m) : Ahead[i] = IF i <= n THEN rx[i] ELSE coming[i - n]
  BY <1>1, ConcatProperties DEF Ahead
<1>4. Ahead' = rx \o t
  BY <1>1 DEF Ahead
<1> HIDE DEF t
<1>5. /\ Len(rx \o t) = n + Len(t)
      /\ \A i \in 1..(n + Len(t)) : (rx \o t)[i] = IF i <= n THEN rx[i] ELSE t[i - n]
  BY <1>1, <1>2, ConcatProperties
<1> HIDE DEF n, m
<1>6. Len(Ahead') = n + (m - 1) /\ Len(Ahead') = Len(Ahead) - 1 /\ n < Len(Ahead)
  BY <1>2, <1>3, <1>4, <1>5
<1>7. ASSUME NEW i \in 1..(n + (m - 1))
      PROVE  Ahead'[i] = IF i <= n THEN Ahead[i] ELSE Ahead[i + 1]
  <2>1. i \in 1..(n + m) /\ i + 1 \in 1..(n + m) /\ i \in 1..(n + Len(t))
    BY <1>2
  <2>2. CASE i <= n
    BY <1>3, <1>4, <1>5, <2>1, <2>2
  <2>3. CASE ~(i <= n)
    <3>1. i - n \in 1..(m - 1) /\ ~(i + 1 <= n) /\ (i + 1) - n = (i - n) + 1
      BY <1>2, <2>3
    <3>2. Ahead'[i] = t[i - n] /\ Ahead[i + 1] = coming[(i - n) + 1]
      BY <1>3, <1>4, <1>5, <2>1, <2>3, <3>1
    <3> QED
      BY <1>2, <2>3, <3>1, <3>2
  <2> QED
    BY <2>2, <2>3
<1> QED
  BY <1>1, <1>6, <1>7 DEF n

\* The parser takes the first of them.
LEMMA AheadDrain ==
  ASSUME TypeInv, Drain
  PROVE  /\ Len(rx') = Len(rx) - 1 /\ Len(rx) >= 1
         /\ Len(Ahead') = Len(Ahead) - 1 /\ Ahead[1] = Head(rx)
         /\ \A i \in 1..Len(Ahead') : Ahead'[i] = Ahead[i + 1]
<1> DEFINE h == Head(rx)
           t == Tail(rx) \o coming
<1>1. rx \in Seq(Bytes) /\ coming \in Seq(Bytes) /\ rx # <<>> /\ rx' = Tail(rx) /\ coming' = coming
  BY DEF TypeInv, TypeOK, Drain, lineVars
<1>2. /\ Len(rx) \in Nat \ {0} /\ Len(rx') = Len(rx) - 1 /\ Tail(rx) \in Seq(Bytes) /\ h \in Bytes
  BY <1>1, EmptySeq, HeadTailProperties
<1>3. t \in Seq(Bytes) /\ Ahead' = t /\ Len(t) \in Nat
  BY <1>1, <1>2, ConcatProperties, LenProperties DEF Ahead
<1>4. Ahead = <<h>> \o t
  <2>1. <<>> \in Seq(Bytes)
    OBVIOUS
  <2>2. <<>> \o rx = Append(<<>>, h) \o Tail(rx)
    BY <1>1, <2>1, HeadPassed
  <2>3. <<>> \o rx = rx /\ Append(<<>>, h) = <<h>> /\ <<h>> \in Seq(Bytes)
    BY <1>1, <1>2, ConcatEmptySeq
  <2> DEFINE r == Tail(rx)
             one == <<h>>
  <2>4. rx = one \o r /\ one \in Seq(Bytes) /\ r \in Seq(Bytes)
    BY <1>2, <2>2, <2>3
  <2> HIDE DEF one, r
  <2>5. (one \o r) \o coming = one \o (r \o coming)
    BY <1>1, <2>4, ConcatAssociative
  <2> QED
    BY <2>4, <2>5 DEF Ahead, one, r
<1> HIDE DEF t, h
<1>5. Len(Ahead) = 1 + Len(t) /\ \A i \in 1..(1 + Len(t)) : Ahead[i] = IF i <= 1 THEN <<h>>[i] ELSE t[i - 1]
  <2> DEFINE one == <<h>>
  <2>1. one \in Seq(Bytes) /\ Len(one) = 1
    BY <1>2
  <2> HIDE DEF one
  <2>2. /\ Len(one \o t) = Len(one) + Len(t)
        /\ \A i \in 1..(Len(one) + Len(t)) : (one \o t)[i] = IF i <= Len(one) THEN one[i] ELSE t[i - Len(one)]
    BY <1>3, <2>1, ConcatProperties
  <2> QED
    BY <1>4, <2>1, <2>2 DEF one
<1> DEFINE n == Len(t)
<1>6. n \in Nat
  BY <1>3
<1> HIDE DEF n
<1>7. Ahead[1] = h /\ \A i \in 1..n : Ahead[i + 1] = t[i]
  <2>1. 1 \in 1..(1 + n) /\ <<h>>[1] = h
    BY <1>6
  <2>2. ASSUME NEW i \in 1..n PROVE Ahead[i + 1] = t[i]
    <3>1. i + 1 \in 1..(1 + n) /\ ~(i + 1 <= 1) /\ (i + 1) - 1 = i
      BY <1>6
    <3> QED
      BY <1>5, <3>1 DEF n
  <2> QED
    BY <1>5, <2>1, <2>2 DEF n
<1>8. Len(Ahead') = Len(Ahead) - 1
  BY <1>3, <1>5, <1>6 DEF n
<1> QED
  BY <1>2, <1>3, <1>7, <1>8 DEF h, n

\* The sender puts a whole frame behind them.
LEMMA AheadPost ==
  ASSUME TypeInv, NEW kind \in Kinds, Post(kind)
  PROVE  /\ rx' = rx /\ Ahead = rx
         /\ Len(Ahead') = Len(Ahead) + Size[kind]
         /\ \A i \in 1..Len(Ahead) : Ahead'[i] = Ahead[i]
         /\ \A i \in 1..Size[kind] : Ahead'[Len(Ahead) + i] = [kind |-> kind, at |-> i]
<1> DEFINE f == [i \in 1..Size[kind] |-> [kind |-> kind, at |-> i]]
<1>1. coming = <<>> /\ coming' = f /\ rx' = rx
  BY DEF Post, parserVars
<1>2. rx \in Seq(Bytes) /\ f \in Seq(Bytes) /\ Len(f) = Size[kind] /\ Size[kind] \in Nat /\ Len(rx) \in Nat
  <2>1. coming' \in Seq(Bytes) /\ rx \in Seq(Bytes)
    BY PostTypes DEF TypeInv, TypeOK
  <2>2. Size[kind] \in Nat
    BY ByteFacts
  <2> QED
    BY <1>1, <2>1, <2>2, LenProperties
<1>3. \A i \in 1..Size[kind] : f[i] = [kind |-> kind, at |-> i]
  OBVIOUS
<1> HIDE DEF f
<1>4. Ahead = rx /\ Ahead' = rx \o f
  BY <1>1, AheadFacts DEF Ahead
<1>5. /\ Len(rx \o f) = Len(rx) + Len(f)
      /\ \A i \in 1..(Len(rx) + Len(f)) : (rx \o f)[i] = IF i <= Len(rx) THEN rx[i] ELSE f[i - Len(rx)]
  BY <1>2, ConcatProperties
<1> DEFINE n == Len(rx)
           m == Size[kind]
<1>6. n \in Nat /\ m \in Nat
  BY <1>2
<1> HIDE DEF n, m
<1>7. Len(Ahead') = n + m /\ \A i \in 1..(n + m) : Ahead'[i] = IF i <= n THEN rx[i] ELSE f[i - n]
  BY <1>2, <1>4, <1>5 DEF n, m
<1>8. \A i \in 1..n : Ahead'[i] = rx[i]
  <2>1. \A i \in 1..n : i \in 1..(n + m) /\ i <= n
    BY <1>6
  <2> QED
    BY <1>7, <2>1
<1>9. \A i \in 1..m : Ahead'[n + i] = [kind |-> kind, at |-> i]
  <2>1. \A i \in 1..m : n + i \in 1..(n + m) /\ ~(n + i <= n) /\ (n + i) - n = i
    BY <1>6
  <2> QED
    BY <1>3, <1>7, <2>1 DEF m
<1> QED
  BY <1>1, <1>4, <1>7, <1>8, <1>9 DEF n, m

\* Without the byte behind the n-th there is still at most one query, further
\* ahead by one if it was behind that byte, and none if the byte was its last.
LEMMA QueryGone ==
  ASSUME NEW s \in Seq(Bytes), NEW t \in Seq(Bytes), NEW n \in Nat, n < Len(s),
         Len(t) = Len(s) - 1, \A i \in 1..Len(t) : t[i] = IF i <= n THEN s[i] ELSE s[i + 1]
  PROVE  /\ NoQueryIn(s) => NoQueryIn(t)
         /\ OneQueryIn(s, n + 1) => NoQueryIn(t)
         /\ \A k : k <= n /\ OneQueryIn(s, k) => OneQueryIn(t, k)
         /\ \A k : k > n + 1 /\ OneQueryIn(s, k) => OneQueryIn(t, k - 1)
<1> DEFINE m == Len(t)
<1>1. m \in Nat /\ Len(s) = m + 1 /\ n <= m
  <2> DEFINE l == Len(s)
  <2>1. m \in Nat /\ l \in Nat /\ m = l - 1 /\ n < l
    BY LenProperties
  <2> HIDE DEF m, l
  <2>2. l = m + 1 /\ n <= m
    BY <2>1
  <2> QED
    BY <2>1, <2>2 DEF l
<1>2. \A i \in 1..m : t[i] = IF i <= n THEN s[i] ELSE s[i + 1]
  OBVIOUS
<1>3. /\ \A x : NoQueryIn(x) <=> \A i \in 1..Len(x) : x[i] # QueryLast
      /\ \A x, k : OneQueryIn(x, k) <=> k \in 1..Len(x) /\ \A i \in 1..Len(x) : x[i] = QueryLast <=> i = k
  BY DEF NoQueryIn, OneQueryIn
<1> HIDE DEF m
<1>4. \A i \in 1..m : i \in 1..(m + 1) /\ i + 1 \in 1..(m + 1) /\ (i <= n => i # n + 1)
                      /\ (~(i <= n) => i + 1 # n + 1)
  BY <1>1
<1>5. ASSUME NoQueryIn(s) \/ OneQueryIn(s, n + 1) PROVE NoQueryIn(t)
  <2>1. \A i \in 1..(m + 1) : i # n + 1 => s[i] # QueryLast
    BY <1>1, <1>3, <1>5
  <2>2. \A i \in 1..m : t[i] # QueryLast
    BY <1>2, <1>4, <2>1
  <2> QED
    BY <1>3, <2>2 DEF m
<1>6. ASSUME NEW k, k <= n, OneQueryIn(s, k) PROVE OneQueryIn(t, k)
  <2>1. k \in 1..(m + 1) /\ \A i \in 1..(m + 1) : s[i] = QueryLast <=> i = k
    BY <1>1, <1>3, <1>6
  <2>2. k \in 1..m /\ \A i \in 1..m : ~(i <= n) => i + 1 # k /\ i # k
    BY <1>1, <1>6, <2>1
  <2>3. \A i \in 1..m : t[i] = QueryLast <=> i = k
    BY <1>2, <1>4, <2>1, <2>2
  <2> QED
    BY <1>3, <2>2, <2>3 DEF m
<1>7. ASSUME NEW k, k > n + 1, OneQueryIn(s, k) PROVE OneQueryIn(t, k - 1)
  <2>1. k \in 1..(m + 1) /\ \A i \in 1..(m + 1) : s[i] = QueryLast <=> i = k
    BY <1>1, <1>3, <1>7
  <2>2. /\ k - 1 \in 1..m /\ \A i \in 1..m : i + 1 = k <=> i = k - 1
        /\ \A i \in 1..m : i <= n => i # k /\ i # k - 1
    BY <1>1, <1>7, <2>1
  <2>3. \A i \in 1..m : t[i] = QueryLast <=> i = k - 1
    BY <1>2, <1>4, <2>1, <2>2
  <2> QED
    BY <1>3, <2>2, <2>3 DEF m
<1> QED
  BY <1>5, <1>6, <1>7

\* A byte taken from the front: of a query, if it was the last of one.
LEMMA QueryTaken ==
  ASSUME NEW s \in Seq(Bytes), NEW t \in Seq(Bytes), Len(t) = Len(s) - 1,
         \A i \in 1..Len(t) : t[i] = s[i + 1]
  PROVE  /\ NoQueryIn(s) => NoQueryIn(t)
         /\ OneQueryIn(s, 1) => NoQueryIn(t)
         /\ \A k : k # 1 /\ OneQueryIn(s, k) => OneQueryIn(t, k - 1)
<1> DEFINE l == Len(s)
           m == Len(t)
<1>1. l \in Nat /\ m \in Nat /\ m = l - 1
  BY LenProperties
<1> HIDE DEF l, m
<1>2. 0 < l /\ \A i \in 1..m : ~(i <= 0)
  BY <1>1
<1>3. \A k \in 1..l : k # 1 => k > 0 + 1
  BY <1>1
<1>4. \A i \in 1..Len(t) : t[i] = IF i <= 0 THEN s[i] ELSE s[i + 1]
  BY <1>2 DEF m
<1>5. 0 < Len(s) /\ 0 \in Nat /\ 0 + 1 = 1
  BY <1>2 DEF l
<1>6. /\ NoQueryIn(s) => NoQueryIn(t)
      /\ OneQueryIn(s, 0 + 1) => NoQueryIn(t)
      /\ \A k : k > 0 + 1 /\ OneQueryIn(s, k) => OneQueryIn(t, k - 1)
  BY <1>4, <1>5, QueryGone
<1>7. \A k : OneQueryIn(s, k) => k \in 1..l
  BY DEF OneQueryIn, l
<1> QED
  BY <1>3, <1>5, <1>6, <1>7

\* In a byte time a query whose last byte has still to come gets nearer to the
\* FIFO by one, or loses that byte.
LEMMA QueryElapse ==
  ASSUME TypeInv, Elapse
  PROVE  /\ NoQueryIn(Ahead) => NoQueryIn(Ahead')
         /\ Len(rx') \in {Len(rx), Len(rx) + 1}
         /\ \A k \in Nat : OneQueryIn(Ahead, k) =>
              \/ NoQueryIn(Ahead')
              \/ \E j \in Nat : /\ OneQueryIn(Ahead', j)
                                /\ k > Len(rx) => j - Len(rx') = (k - Len(rx)) - 1
                                /\ k <= Len(rx) => j = k
<1> DEFINE n == Len(rx)
           n1 == Len(rx')
<1>1. n \in Nat /\ Ahead \in Seq(Bytes) /\ Len(Ahead) \in Nat
  BY AheadFacts
<1>2. CASE coming = <<>> \/ n < rxDepth
  <2>1. Ahead' = Ahead /\ (coming = <<>> => n1 = n) /\ (coming # <<>> => n1 = n + 1)
    BY <1>2, AheadStored
  <2>2. ASSUME NEW k \in Nat, OneQueryIn(Ahead, k), k > n
        PROVE  k - n1 = (k - n) - 1
    <3>1. k \in 1..Len(Ahead)
      BY <2>2 DEF OneQueryIn
    <3>2. coming = <<>> => Len(Ahead) = n
      BY AheadFacts
    <3> DEFINE a == Len(Ahead)
    <3>3. a \in Nat /\ k \in 1..a /\ (coming = <<>> => a = n)
      BY <1>1, <3>1, <3>2
    <3> HIDE DEF a, n, n1
    <3>4. coming # <<>>
      BY <1>1, <2>2, <3>3
    <3>5. n1 = n + 1
      BY <2>1, <3>4
    <3> QED
      BY <1>1, <3>5
  <2> QED
    BY <2>1, <2>2
<1>3. CASE ~(coming = <<>> \/ n < rxDepth)
  <2>1. /\ rx' = rx /\ Len(Ahead') = Len(Ahead) - 1 /\ n < Len(Ahead)
        /\ \A i \in 1..Len(Ahead') : Ahead'[i] = IF i <= n THEN Ahead[i] ELSE Ahead[i + 1]
    BY <1>3, AheadDropped
  <2>2. Ahead' \in Seq(Bytes)
    <3>1. rx' \in Seq(Bytes) /\ coming' \in Seq(Bytes)
      BY ElapseTypes DEF TypeInv, TypeOK
    <3>2. rx' \o coming' \in Seq(Bytes)
      BY <3>1, ConcatProperties
    <3> QED
      BY <3>2 DEF Ahead
  <2>3. /\ NoQueryIn(Ahead) => NoQueryIn(Ahead')
        /\ OneQueryIn(Ahead, n + 1) => NoQueryIn(Ahead')
        /\ \A k : k <= n /\ OneQueryIn(Ahead, k) => OneQueryIn(Ahead', k)
        /\ \A k : k > n + 1 /\ OneQueryIn(Ahead, k) => OneQueryIn(Ahead', k - 1)
    BY <1>1, <2>1, <2>2, QueryGone
  <2>4. n1 = n
    BY <2>1
  <2>5. ASSUME NEW k \in Nat, OneQueryIn(Ahead, k), ~NoQueryIn(Ahead')
        PROVE  \E j \in Nat : /\ OneQueryIn(Ahead', j)
                              /\ k > n => j - n1 = (k - n) - 1
                              /\ k <= n => j = k
    <3> HIDE DEF n, n1
    <3>1. CASE k <= n
      <4>1. OneQueryIn(Ahead', k) /\ ~(k > n)
        BY <1>1, <2>3, <2>5, <3>1
      <4> QED
        BY <4>1
    <3>2. CASE ~(k <= n)
      <4>1. k # n + 1
        BY <2>3, <2>5
      <4>2. k > n + 1 /\ k - 1 \in Nat /\ (k - 1) - n1 = (k - n) - 1
        BY <1>1, <2>4, <3>2, <4>1
      <4>3. OneQueryIn(Ahead', k - 1)
        BY <2>3, <2>5, <4>2
      <4> QED
        BY <3>2, <4>2, <4>3
    <3> QED
      BY <3>1, <3>2
  <2> QED
    BY <2>3, <2>4, <2>5
<1> QED
  BY <1>2, <1>3

\* Only the last byte of a query makes the parser reply, and not even that if
\* the query was cut.
LEMMA DrainReplies ==
  ASSUME TypeInv, Drain
  PROVE  /\ Head(rx) # QueryLast => toSend' = toSend
         /\ toSend' \in {toSend, ReplySize}
<1> DEFINE b == Head(rx)
           taken == Append(reading, b)
<1>1. Feed(b) /\ reading \in Seq(Bytes) /\ b \in Bytes
  BY DEF Drain, TypeInv, TypeOK
<1>2. Len(reading) \in Nat /\ Len(taken) = Len(reading) + 1 /\ taken[Len(reading) + 1] = b
  BY <1>1, LenProperties, AppendProperties
<1>3. CASE toSend' = toSend
  BY <1>3
<1>4. CASE toSend' # toSend
  <2>1. Len(taken) = Size[Head(taken).kind] /\ Intact(taken) /\ Dispatch(Head(taken).kind)
    BY <1>1, <1>4 DEF Feed
  <2>2. Head(taken).kind = "query" /\ toSend' = ReplySize
    BY <1>4, <2>1 DEF Dispatch
  <2> HIDE DEF taken
  <2>3. Len(taken) \in DOMAIN taken
    <3>1. taken \in Seq(Bytes)
      BY <1>1, AppendProperties DEF taken
    <3>2. Len(taken) \in 1..Len(taken)
      BY <1>2
    <3> QED
      BY <3>1, <3>2, LenProperties
  <2>4. taken[Len(taken)] = [kind |-> "query", at |-> Size["query"]]
    BY <2>1, <2>2, <2>3 DEF Intact
  <2> QED
    BY <1>2, <2>2, <2>4 DEF QueryLast
<1> QED
  BY <1>3, <1>4

\* What is left of the reply.
Left == toSend + Len(tx)

\* There is nothing to reply to: nobody asks, or the query has been cut, and the
\* sender waits in vain until it gives up.
Quiet == NoQueryIn(Ahead) /\ toSend = 0 /\ tx = <<>>

\* The query is on its way, its last byte the k-th ahead: it is read when it has
\* arrived and the update is done, and there is time for the reply.
AskedAt(k) ==
  /\ awaiting = 1 /\ OneQueryIn(Ahead, k) /\ toSend = 0 /\ tx = <<>>
  /\ k > Len(rx) => waited + (k - Len(rx)) = Size["query"]
  /\ k <= Len(rx) => waited + working + ReplySize <= Patience
Asked == \E k \in Nat : AskedAt(k)

\* The reply is on its way, and the sender will not give up before its end.
Answering ==
  /\ awaiting = 1 /\ NoQueryIn(Ahead)
  /\ Left > 0 /\ waited + Left <= Patience /\ (toSend > 0 => Left >= TxDepth)

SenderInv ==
  /\ Quiet \/ Asked \/ Answering
  /\ \A i \in 1..Len(tx) : tx[i] <=> toSend = 0 /\ i = Len(tx)

\* The loop is late only while a reply is under way.
TimeInv ==
  /\ working > 0 => toSend = 0 /\ sinceTick + working <= Period
  /\ toSend > 0 => sinceTick + Left <= Period + ReplySize
  /\ sinceTick <= Period \/ (Answering /\ sinceTick <= Period + Lateness)

QueryInv == TypeInv /\ SenderInv /\ TimeInv

LEMMA OneQuery ==
  /\ \A s, k : OneQueryIn(s, k) => ~NoQueryIn(s)
  /\ \A s, j, k : OneQueryIn(s, j) /\ OneQueryIn(s, k) => j = k
BY DEF OneQueryIn, NoQueryIn

\* One of the three at a time.
LEMMA Apart ==
  /\ Quiet => Left = 0 /\ NoQueryIn(Ahead)
  /\ Answering => awaiting = 1 /\ Left > 0 /\ NoQueryIn(Ahead)
  /\ \A k \in Nat : AskedAt(k) => awaiting = 1 /\ Left = 0 /\ OneQueryIn(Ahead, k)
<1>1. tx = <<>> => Len(tx) = 0
  OBVIOUS
<1> QED
  BY <1>1 DEF Quiet, Answering, AskedAt, Left

LEMMA PacedFacts ==
  ASSUME Paced
  PROVE  /\ Window <= 1 /\ TxDepth <= ReplySize /\ Lateness \in Nat /\ Lateness = ReplySize - TxDepth
         /\ \A u \in UpdateTimes : u \in Nat /\ u <= Period /\ Size["query"] + u + ReplySize <= Patience + 1
         /\ Size["query"] + ReplySize <= Patience /\ Size["query"] \in Nat \ {0}
<1>1. Size["query"] \in Nat \ {0}
  BY ByteFacts DEF Kinds
<1>2. Size["query"] + 1 + ReplySize <= Patience + 1
  BY DEF Paced
<1>3. \A u \in UpdateTimes : u \in Nat /\ u <= Period /\ Size["query"] + u + ReplySize <= Patience + 1
  BY NumberFacts DEF Paced
<1>4. Window <= 1 /\ TxDepth <= ReplySize
  BY DEF Paced
<1> QED
  BY <1>1, <1>2, <1>3, <1>4, NumberFacts DEF Lateness

\* The types, unfolded once for the steps below.
LEMMA TypeFacts ==
  ASSUME TypeInv
  PROVE  /\ coming \in Seq(Bytes) /\ rx \in Seq(Bytes) /\ tx \in Seq(BOOLEAN) /\ Len(tx) \in Nat
         /\ toSend \in Nat /\ working \in Nat /\ sinceTick \in Nat /\ sinceTick <= MostGap
         /\ awaiting \in Nat /\ awaiting <= Window /\ waited \in Nat /\ waited <= Patience
         /\ tx = <<>> <=> Len(tx) = 0
<1>1. /\ coming \in Seq(Bytes) /\ rx \in Seq(Bytes) /\ tx \in Seq(BOOLEAN)
      /\ toSend \in 0..ReplySize /\ sinceTick \in 0..MostGap
      /\ awaiting \in 0..Window /\ waited \in 0..Patience
  BY DEF TypeInv, TypeOK
<1>2. working \in Nat
  <2>1. working = 0 \/ \E u \in UpdateTimes : working \in 0..u
    BY DEF TypeInv, TypeOK
  <2> QED
    BY <2>1, NumberFacts
<1>3. Len(tx) \in Nat /\ (tx = <<>> <=> Len(tx) = 0)
  BY <1>1, EmptySeq, LenProperties
<1> QED
  BY <1>1, <1>2, <1>3, NumberFacts

LEMMA InitQuery ==
  ASSUME Init
  PROVE  QueryInv
<1>1. /\ rx = <<>> /\ coming = <<>> /\ tx = <<>> /\ toSend = 0 /\ awaiting = 0 /\ working = 0 /\ sinceTick = 0
  BY DEF Init
<1>2. TypeInv
  BY InitTypes
<1>3. Ahead = <<>>
  BY <1>1, <1>2, AheadFacts
<1>4. Quiet
  BY <1>1, <1>3 DEF Quiet, NoQueryIn
<1>5. SenderInv
  BY <1>1, <1>4 DEF SenderInv
<1>6. TimeInv
  BY <1>1, NumberFacts DEF TimeInv
<1> QED
  BY <1>2, <1>5, <1>6 DEF QueryInv

\* A sender that waits long enough gives up only a query that has been cut.
LEMMA GivesUpInVain ==
  ASSUME Paced, QueryInv, GiveUp
  PROVE  Quiet
<1> SUFFICES ASSUME waited = Patience PROVE Quiet
  BY DEF GiveUp
<1>1. TypeInv /\ (Quiet \/ Asked \/ Answering)
  BY DEF QueryInv, SenderInv
<1>2. CASE Quiet
  BY <1>2
<1>3. CASE Asked
  <2>1. PICK k \in Nat : AskedAt(k)
    BY <1>3 DEF Asked
  <2> DEFINE n == Len(rx)
  <2>2. n \in Nat
    BY <1>1, AheadFacts
  <2>3. /\ k > n => waited + (k - n) = Size["query"]
        /\ k <= n => waited + working + ReplySize <= Patience
    BY <2>1 DEF AskedAt
  <2> HIDE DEF n
  <2> QED
    BY <1>1, <2>2, <2>3, PacedFacts, TypeFacts, NumberFacts
<1>4. CASE Answering
  <2>1. waited + Left <= Patience /\ Left > 0
    BY <1>4 DEF Answering
  <2>2. Left \in Nat
    BY <1>1, TypeFacts DEF Left
  <2> QED
    BY <2>1, <2>2, NumberFacts
<1> QED
  BY <1>1, <1>2, <1>3, <1>4

LEMMA GiveUpQuery ==
  ASSUME Paced, QueryInv, GiveUp
  PROVE  SenderInv' /\ TimeInv'
<1>1. SenderInv /\ TimeInv /\ Quiet /\ ~Answering
  BY GivesUpInVain, Apart DEF QueryInv
<1>2. UNCHANGED <<coming, rx, toSend, tx, working, sinceTick>>
  BY DEF GiveUp, parserVars, replyVars
<1>3. Quiet'
  BY <1>1, <1>2 DEF Quiet, NoQueryIn, Ahead, QueryLast
<1>4. TimeInv'
  BY <1>1, <1>2 DEF TimeInv, Left
<1> QED
  BY <1>1, <1>2, <1>3, <1>4 DEF SenderInv

LEMMA PostQuery ==
  ASSUME Paced, QueryInv, NEW kind \in Kinds, Post(kind)
  PROVE  SenderInv' /\ TimeInv'
<1> DEFINE n == Len(Ahead)
           m == Size[kind]
<1>1. TypeInv /\ SenderInv /\ TimeInv
  BY DEF QueryInv
<1>2. /\ UNCHANGED <<rx, toSend, tx, working, sinceTick>> /\ coming = <<>>
      /\ kind = "query" => awaiting < Window
      /\ awaiting' = (IF kind = "query" THEN awaiting + 1 ELSE awaiting)
      /\ waited' = (IF awaiting = 0 THEN 0 ELSE waited)
  BY DEF Post, parserVars, replyVars
<1>3. n \in Nat /\ m \in Nat \ {0} /\ Len(rx) = n
  BY <1>1, <1>2, AheadFacts, ByteFacts
<1>4. /\ Len(Ahead') = n + m
      /\ \A i \in 1..n : Ahead'[i] = Ahead[i]
      /\ \A i \in 1..m : Ahead'[n + i] = [kind |-> kind, at |-> i]
  BY <1>1, AheadPost
<1>5. Left' = Left /\ (\A i \in 1..Len(tx') : tx'[i] <=> toSend' = 0 /\ i = Len(tx'))
  BY <1>1, <1>2 DEF Left, SenderInv
<1> HIDE DEF n, m
<1>6. ASSUME NEW i \in 1..(n + m), i > n
      PROVE  Ahead'[i] = QueryLast <=> kind = "query" /\ i = n + m
  <2>1. i - n \in 1..m /\ n + (i - n) = i
    BY <1>3, <1>6
  <2>2. Ahead'[i] = [kind |-> kind, at |-> i - n]
    BY <1>4, <2>1
  <2>3. Ahead'[i] = QueryLast <=> kind = "query" /\ i - n = m
    BY <2>2 DEF QueryLast, m
  <2> QED
    BY <1>3, <2>1, <2>3
<1>7. \A i \in 1..(n + m) : i \in 1..n \/ i > n
  BY <1>3
<1>8. CASE kind = "query"
  <2>1. awaiting = 0 /\ awaiting' = 1 /\ waited' = 0
    BY <1>1, <1>2, <1>8, TypeFacts, PacedFacts, NumberFacts
  <2>2. Quiet
    <3>1. ~Asked /\ ~Answering
      BY <2>1 DEF Asked, AskedAt, Answering
    <3> QED
      BY <1>1, <3>1 DEF SenderInv
  <2>3. \A i \in 1..n : Ahead[i] # QueryLast
    BY <2>2 DEF Quiet, NoQueryIn, n
  <2>4. \A i \in 1..(n + m) : Ahead'[i] = QueryLast <=> i = n + m
    <3>1. \A i \in 1..n : Ahead'[i] # QueryLast /\ i # n + m
      BY <1>3, <1>4, <2>3
    <3> QED
      BY <1>6, <1>7, <1>8, <3>1
  <2>5. n + m \in 1..(n + m) /\ n + m \in Nat /\ n + m > n /\ (n + m) - n = m
    BY <1>3
  <2>7. PICK k \in Nat : k = n + m
    BY <2>5
  <2>8. AskedAt(k)'
    <3>1. OneQueryIn(Ahead, k)'
      BY <1>4, <2>4, <2>5, <2>7 DEF OneQueryIn, QueryLast
    <3>2. toSend' = 0 /\ tx' = <<>>
      BY <1>2, <2>2 DEF Quiet
    <3>3. Len(rx') = n
      BY <1>2, <1>3
    <3>4. k > Len(rx') => waited' + (k - Len(rx')) = Size["query"]
      BY <1>3, <1>8, <2>1, <2>5, <2>7, <3>3 DEF m
    <3>5. ~(k <= Len(rx'))
      BY <1>3, <2>5, <2>7, <3>3
    <3> QED
      BY <2>1, <3>1, <3>2, <3>4, <3>5 DEF AskedAt
  <2>9. Asked'
    BY <2>8 DEF Asked
  <2>10. ~Answering
    BY <2>2, Apart
  <2>11. TimeInv'
    BY <1>1, <1>2, <1>5, <2>10 DEF TimeInv
  <2> QED
    BY <1>5, <2>9, <2>11 DEF SenderInv
<1>9. CASE kind # "query"
  <2>1. awaiting' = awaiting
    BY <1>2, <1>9
  <2>2. \A i \in 1..(n + m) : i > n => Ahead'[i] # QueryLast
    BY <1>6, <1>9
  <2>3. ASSUME NoQueryIn(Ahead) PROVE NoQueryIn(Ahead)'
    <3>1. \A i \in 1..n : Ahead'[i] # QueryLast
      BY <1>4, <2>3 DEF NoQueryIn, n
    <3>2. \A i \in 1..Len(Ahead') : Ahead'[i] # QueryLast
      BY <1>4, <1>7, <2>2, <3>1
    <3> QED
      BY <3>2 DEF NoQueryIn, QueryLast
  <2>4. ASSUME NEW k \in Nat, OneQueryIn(Ahead, k) PROVE OneQueryIn(Ahead, k)'
    <3>1. k \in 1..n /\ \A i \in 1..n : Ahead'[i] = QueryLast <=> i = k
      BY <1>4, <2>4 DEF OneQueryIn, n
    <3>2. k \in 1..(n + m) /\ \A i \in 1..(n + m) : i > n => i # k
      BY <1>3, <3>1
    <3>3. \A i \in 1..Len(Ahead') : Ahead'[i] = QueryLast <=> i = k
      BY <1>4, <1>7, <2>2, <3>1, <3>2
    <3> QED
      BY <1>4, <3>2, <3>3 DEF OneQueryIn, QueryLast
  <2>5. Quiet => Quiet'
    BY <1>2, <2>1, <2>3 DEF Quiet
  <2>6. Asked => Asked'
    <3> SUFFICES ASSUME NEW k \in Nat, AskedAt(k) PROVE AskedAt(k)'
      BY DEF Asked
    <3>1. waited' = waited
      BY <1>2 DEF AskedAt
    <3> QED
      BY <1>2, <2>1, <2>4, <3>1 DEF AskedAt
  <2>7. Answering => Answering'
    <3> SUFFICES ASSUME Answering PROVE Answering'
      OBVIOUS
    <3>1. waited' = waited
      BY <1>2 DEF Answering
    <3> QED
      BY <1>2, <1>5, <2>1, <2>3, <3>1 DEF Answering
  <2>8. TimeInv'
    BY <1>1, <1>2, <1>5, <2>7 DEF TimeInv
  <2> QED
    BY <1>1, <1>5, <2>5, <2>6, <2>7, <2>8 DEF SenderInv
<1> QED
  BY <1>8, <1>9

LEMMA PushQuery ==
  ASSUME Paced, QueryInv, Push
  PROVE  SenderInv' /\ TimeInv'
<1> DEFINE l == Len(tx)
           l1 == Len(tx')
<1>1. TypeInv /\ SenderInv /\ TimeInv
  BY DEF QueryInv
<1>2. /\ toSend > 0 /\ l < TxDepth /\ toSend' = toSend - 1 /\ tx' = Append(tx, toSend = 1)
      /\ UNCHANGED <<coming, awaiting, waited, rx, working, sinceTick>>
  BY DEF Push, Room, lineVars, parserVars
<1>3. l \in Nat /\ toSend \in Nat /\ working \in Nat /\ sinceTick \in Nat /\ waited \in Nat
  BY <1>1, TypeFacts
<1>4. /\ l1 = l + 1 /\ (\A i \in 1..l : tx'[i] = tx[i]) /\ tx'[l + 1] = (toSend = 1)
  <2>1. tx \in Seq(BOOLEAN) /\ (toSend = 1) \in BOOLEAN
    BY <1>1, TypeFacts
  <2> QED
    BY <1>2, <2>1, AppendProperties
<1>5. Answering
  <2>1. ~Quiet /\ ~Asked
    BY <1>2 DEF Quiet, Asked, AskedAt
  <2> QED
    BY <1>1, <2>1 DEF SenderInv
<1>6. Left = toSend + l /\ Left' = toSend' + l1
  BY DEF Left
<1>7. /\ awaiting = 1 /\ NoQueryIn(Ahead) /\ waited + Left <= Patience /\ Left >= TxDepth
      /\ sinceTick + Left <= Period + ReplySize /\ working = 0
      /\ \A i \in 1..l : ~tx[i]
  <2>1. \A i \in 1..l : tx[i] <=> toSend = 0 /\ i = l
    BY <1>1 DEF SenderInv
  <2>2. working > 0 => toSend = 0
    BY <1>1 DEF TimeInv
  <2>3. \A i \in 1..l : ~tx[i]
    BY <1>2, <2>1
  <2>4. working = 0
    BY <1>2, <1>3, <2>2
  <2> QED
    BY <1>1, <1>2, <1>5, <2>3, <2>4 DEF Answering, TimeInv
<1> HIDE DEF l, l1
<1>8. Left' = Left /\ Left \in Nat /\ Left > 0
  BY <1>2, <1>3, <1>4, <1>6
<1>9. Answering'
  <2>1. NoQueryIn(Ahead)'
    BY <1>2, <1>7 DEF NoQueryIn, Ahead, QueryLast
  <2> QED
    BY <1>2, <1>7, <1>8, <2>1 DEF Answering
<1>10. \A i \in 1..l1 : tx'[i] <=> toSend' = 0 /\ i = l1
  <2>1. \A i \in 1..l1 : (i \in 1..l /\ i # l1) \/ i = l + 1
    BY <1>3, <1>4
  <2>2. toSend = 1 <=> toSend' = 0
    BY <1>2, <1>3
  <2>3. tx'[l + 1] <=> toSend' = 0
    BY <1>4, <2>2
  <2>4. \A i \in 1..l : ~tx'[i]
    BY <1>4, <1>7
  <2> QED
    BY <1>4, <2>1, <2>3, <2>4
<1>11. TimeInv'
  <2>1. sinceTick <= Period + Lateness
    BY <1>3, <1>7, <1>8, PacedFacts, NumberFacts
  <2> QED
    BY <1>2, <1>7, <1>8, <1>9, <2>1 DEF TimeInv
<1> QED
  BY <1>9, <1>10, <1>11 DEF SenderInv, l1

LEMMA DrainQuery ==
  ASSUME Paced, QueryInv, Drain
  PROVE  SenderInv' /\ TimeInv'
<1> DEFINE n == Len(rx)
           n1 == Len(rx')
<1>1. TypeInv /\ SenderInv /\ TimeInv
  BY DEF QueryInv
<1>2. /\ working = 0 /\ toSend = 0 /\ UNCHANGED <<coming, awaiting, waited, tx, working, sinceTick>>
  BY DEF Drain, Free, lineVars
<1>3. Head(rx) # QueryLast => toSend' = toSend
  BY <1>1, DrainReplies
<1>4. /\ n1 = n - 1 /\ n >= 1 /\ n \in Nat
      /\ Len(Ahead') = Len(Ahead) - 1 /\ Ahead[1] = Head(rx)
      /\ \A i \in 1..Len(Ahead') : Ahead'[i] = Ahead[i + 1]
  BY <1>1, AheadDrain, AheadFacts
<1>5. Ahead \in Seq(Bytes) /\ Ahead' \in Seq(Bytes) /\ Len(Ahead) \in Nat /\ n <= Len(Ahead)
  <2>1. TypeInv'
    BY <1>1, DrainTypes
  <2>2. Ahead' \in Seq(Bytes)
    <3>1. rx' \in Seq(Bytes) /\ coming' \in Seq(Bytes)
      BY <2>1 DEF TypeInv, TypeOK
    <3>2. rx' \o coming' \in Seq(Bytes)
      BY <3>1, ConcatProperties
    <3> QED
      BY <3>2 DEF Ahead
  <2>3. n <= Len(Ahead)
    <3> DEFINE a == Len(Ahead)
               c == Len(coming)
    <3>1. a = n + c /\ n \in Nat /\ c \in Nat
      BY <1>1, AheadFacts
    <3> HIDE DEF a, c, n
    <3>2. n <= a
      BY <3>1
    <3> QED
      BY <3>2 DEF a
  <2> QED
    BY <1>1, <2>2, <2>3, AheadFacts
<1>6. /\ NoQueryIn(Ahead) => NoQueryIn(Ahead')
      /\ OneQueryIn(Ahead, 1) => NoQueryIn(Ahead')
      /\ \A k : k # 1 /\ OneQueryIn(Ahead, k) => OneQueryIn(Ahead', k - 1)
  BY <1>4, <1>5, QueryTaken
<1>7. \A k : OneQueryIn(Ahead, k) => (Head(rx) = QueryLast <=> k = 1)
  <2>1. 1 \in 1..Len(Ahead)
    BY <1>4, <1>5
  <2> QED
    BY <1>4, <2>1 DEF OneQueryIn
<1>8. NoQueryIn(Ahead) => Head(rx) # QueryLast
  <2>1. 1 \in 1..Len(Ahead)
    BY <1>4, <1>5
  <2> QED
    BY <1>4, <2>1 DEF NoQueryIn
<1>9. \A i \in 1..Len(tx) : tx[i] <=> toSend = 0 /\ i = Len(tx)
  BY <1>1 DEF SenderInv
<1>10. sinceTick <= Period \/ (Answering /\ sinceTick <= Period + Lateness)
  BY <1>1 DEF TimeInv
<1>11. QueryLast' = QueryLast
  BY DEF QueryLast
<1> HIDE DEF n, n1
<1>12. CASE Quiet
  <2>1. toSend' = 0
    BY <1>2, <1>3, <1>8, <1>12 DEF Quiet
  <2>2. Quiet'
    BY <1>2, <1>6, <1>12, <2>1 DEF Quiet, NoQueryIn, QueryLast
  <2>3. ~Answering
    BY <1>12, Apart
  <2>4. TimeInv'
    BY <1>2, <1>10, <2>1, <2>3 DEF TimeInv
  <2> QED
    BY <1>2, <1>9, <2>1, <2>2, <2>4 DEF SenderInv
<1>13. CASE Answering
  <2>1. toSend' = 0 /\ Left' = Left
    BY <1>2, <1>3, <1>8, <1>13 DEF Answering, Left
  <2>2. Answering'
    BY <1>2, <1>6, <1>13, <2>1 DEF Answering, NoQueryIn, QueryLast
  <2>3. TimeInv'
    BY <1>2, <1>10, <2>1, <2>2 DEF TimeInv, Lateness
  <2> QED
    BY <1>2, <1>9, <2>1, <2>2, <2>3 DEF SenderInv
<1>14. CASE Asked
  <2>1. PICK k \in Nat : AskedAt(k)
    BY <1>14 DEF Asked
  <2>2. /\ awaiting = 1 /\ OneQueryIn(Ahead, k) /\ tx = <<>> /\ k >= 1
        /\ k > n => waited + (k - n) = Size["query"]
        /\ k <= n => waited + working + ReplySize <= Patience
    <3>1. OneQueryIn(Ahead, k) => k >= 1
      BY <1>5 DEF OneQueryIn
    <3> QED
      BY <2>1, <3>1 DEF AskedAt, n
  <2>3. ~Answering /\ sinceTick <= Period
    <3>1. ~Answering
      <4>1. k \in 1..Len(Ahead) /\ Ahead[k] = QueryLast
        BY <2>2 DEF OneQueryIn
      <4> QED
        BY <4>1 DEF Answering, NoQueryIn
    <3> QED
      BY <1>10, <3>1
  <2>4. CASE k = 1 /\ toSend' = ReplySize
    <3>1. toSend' = ReplySize /\ Left' = ReplySize
      <4>1. Len(tx') = 0
        BY <1>2, <2>2
      <4> QED
        BY <2>4, <4>1, NumberFacts DEF Left
    <3>2. waited + ReplySize <= Patience
      BY <1>1, <1>2, <1>4, <2>2, <2>4, TypeFacts, NumberFacts
    <3>3. NoQueryIn(Ahead')
      BY <1>6, <2>2, <2>4
    <3>4. Answering'
      BY <1>2, <2>2, <3>1, <3>2, <3>3, PacedFacts, NumberFacts DEF Answering, NoQueryIn, QueryLast
    <3>5. TimeInv'
      <4>1. sinceTick' + Left' <= Period + ReplySize
        BY <1>1, <1>2, <2>3, <3>1, TypeFacts, NumberFacts
      <4> QED
        BY <1>2, <2>3, <4>1 DEF TimeInv
    <3>6. \A i \in 1..Len(tx') : tx'[i] <=> toSend' = 0 /\ i = Len(tx')
      BY <1>2, <2>2
    <3> QED
      BY <3>4, <3>5, <3>6 DEF SenderInv
  <2>6. CASE k = 1 /\ toSend' # ReplySize
    <3>1. toSend' = 0
      BY <1>1, <1>2, <2>6, DrainReplies
    <3>2. Quiet'
      BY <1>2, <1>6, <2>2, <2>6, <3>1 DEF Quiet, NoQueryIn, QueryLast
    <3>3. TimeInv'
      BY <1>2, <2>3, <3>1 DEF TimeInv
    <3> QED
      BY <1>2, <1>9, <3>1, <3>2, <3>3 DEF SenderInv
  <2>5. CASE k # 1
    <3>1. toSend' = 0
      BY <1>2, <1>3, <1>7, <2>2, <2>5
    <3>2. PICK j \in Nat : j = k - 1
      BY <2>2, <2>5
    <3>3. OneQueryIn(Ahead', j)
      BY <1>6, <2>2, <2>5, <3>2
    <3>4. /\ j > n1 => waited + (j - n1) = Size["query"]
          /\ j <= n1 => waited + working + ReplySize <= Patience
      BY <1>1, <1>4, <2>2, <3>2, TypeFacts
    <3>5. AskedAt(j)'
      BY <1>2, <2>2, <3>1, <3>3, <3>4 DEF AskedAt, OneQueryIn, QueryLast, n1
    <3>6. TimeInv'
      BY <1>2, <2>3, <3>1 DEF TimeInv
    <3>7. Asked'
      BY <3>5 DEF Asked
    <3> QED
      BY <1>2, <1>9, <3>1, <3>6, <3>7 DEF SenderInv
  <2> QED
    BY <2>4, <2>5, <2>6
<1> QED
  BY <1>1, <1>12, <1>13, <1>14 DEF SenderInv

LEMMA TickQuery ==
  ASSUME Paced, QueryInv, Tick
  PROVE  SenderInv' /\ TimeInv'
<1>1. TypeInv /\ SenderInv /\ TimeInv
  BY DEF QueryInv
<1>2. /\ rx = <<>> /\ toSend = 0 /\ sinceTick' = 0 /\ working' \in UpdateTimes
      /\ UNCHANGED <<coming, awaiting, waited, rx, toSend, tx>>
  BY DEF Tick, TickWith, Free, lineVars, parserVars, replyVars
<1>3. working' \in Nat /\ working' <= Period
  BY <1>2, PacedFacts
<1>4. TimeInv'
  <2> DEFINE w == working'
  <2>1. sinceTick' = 0 /\ toSend' = 0 /\ w \in Nat /\ w <= Period /\ Period \in Nat
    BY <1>2, <1>3, NumberFacts
  <2> HIDE DEF w
  <2>2. 0 + w <= Period /\ 0 <= Period /\ ~(0 > 0)
    BY <2>1
  <2>3. sinceTick' + working' <= Period /\ sinceTick' <= Period /\ ~(toSend' > 0)
    BY <2>1, <2>2 DEF w
  <2> QED
    BY <2>1, <2>3 DEF TimeInv
<1>5. NoQueryIn(Ahead)' <=> NoQueryIn(Ahead)
  BY <1>2 DEF NoQueryIn, Ahead, QueryLast
<1>6. ASSUME NEW k \in Nat, AskedAt(k) PROVE AskedAt(k)'
  <2>1. Len(rx') = 0 /\ rx' = rx
    BY <1>2
  <2>2. ~(k <= Len(rx'))
    <3>1. k \in 1..Len(Ahead) /\ Len(Ahead) \in Nat
      BY <1>1, <1>6, AheadFacts DEF AskedAt, OneQueryIn
    <3> QED
      BY <2>1, <3>1
  <2>3. OneQueryIn(Ahead, k)' <=> OneQueryIn(Ahead, k)
    BY <1>2 DEF OneQueryIn, Ahead, QueryLast
  <2> QED
    BY <1>2, <1>6, <2>1, <2>2, <2>3 DEF AskedAt
<1>7. /\ Quiet => Quiet'
      /\ Answering => Answering'
  BY <1>2, <1>5 DEF Quiet, Answering, Left
<1>8. Asked => Asked'
  BY <1>6 DEF Asked
<1> QED
  BY <1>1, <1>2, <1>4, <1>7, <1>8 DEF SenderInv

LEMMA ElapseQuery ==
  ASSUME Paced, QueryInv, Elapse
  PROVE  SenderInv' /\ TimeInv'
<1> DEFINE n == Len(rx)
           n1 == Len(rx')
           l == Len(tx)
           l1 == Len(tx')
<1>1. TypeInv /\ SenderInv /\ TimeInv
  BY DEF QueryInv
<1>2. UNCHANGED toSend
  BY DEF Elapse
<1>3. /\ l \in Nat /\ n \in Nat /\ toSend \in Nat /\ working \in Nat /\ sinceTick \in Nat
      /\ awaiting \in Nat /\ waited \in Nat /\ waited <= Patience
      /\ tx = <<>> <=> l = 0
  BY <1>1, TypeFacts, AheadFacts
<1>4. /\ NoQueryIn(Ahead) => NoQueryIn(Ahead')
      /\ n1 \in {n, n + 1}
      /\ \A k \in Nat : OneQueryIn(Ahead, k) =>
           \/ NoQueryIn(Ahead')
           \/ \E j \in Nat : /\ OneQueryIn(Ahead', j)
                             /\ k > n => j - n1 = (k - n) - 1
                             /\ k <= n => j = k
  BY <1>1, QueryElapse
<1>5. working' = IF working >= 1 THEN working - 1 ELSE 0
  <2>1. working' = Max({working, 1}) - 1
    BY DEF Elapse
  <2> QED
    BY <1>3, <2>1, MaxFacts
<1>6. sinceTick' <= sinceTick + 1 /\ sinceTick' \in Nat
  <2>1. sinceTick' = IF sinceTick + 1 <= MostGap THEN sinceTick + 1 ELSE MostGap
    BY <1>1, ElapseFacts
  <2> QED
    BY <1>3, <2>1, NumberFacts
<1>7. /\ awaiting' = awaiting => waited' \in Nat /\ waited' <= waited + 1
      /\ awaiting' = awaiting /\ waited < Patience => waited' = waited + 1
  <2>1. awaiting' = awaiting => waited' = Min({waited + 1, Patience})
    BY DEF Elapse
  <2>2. Min({waited + 1, Patience}) = IF waited + 1 <= Patience THEN waited + 1 ELSE Patience
    BY <1>3, NumberFacts, MinFacts
  <2> QED
    BY <1>3, <2>1, <2>2, NumberFacts
<1>8. NoQueryIn(Ahead)' <=> NoQueryIn(Ahead')
  BY DEF NoQueryIn, QueryLast
<1>9. \A k \in Nat : OneQueryIn(Ahead, k)' <=> OneQueryIn(Ahead', k)
  BY DEF OneQueryIn, QueryLast
<1>10. /\ working > 0 => toSend = 0 /\ sinceTick + working <= Period
       /\ toSend > 0 => sinceTick + Left <= Period + ReplySize
       /\ sinceTick <= Period \/ (Answering /\ sinceTick <= Period + Lateness)
  BY <1>1 DEF TimeInv
\* What the loop waits for.
<1>11. /\ toSend = 0 => working > 0 \/ (rx = <<>> /\ sinceTick < Period)
       /\ toSend > 0 => ~(l < TxDepth) /\ working = 0
  <2>1. working > 0 \/ (toSend > 0 /\ ~(l < TxDepth)) \/ (toSend = 0 /\ rx = <<>> /\ sinceTick < Period)
    BY DEF Elapse, Waits, Free, Room
  <2> HIDE DEF l
  <2> QED
    BY <1>3, <1>10, <2>1
<1>12. rx = <<>> => n = 0
  OBVIOUS
<1>13. /\ working' > 0 => toSend' = 0 /\ sinceTick' + working' <= Period
       /\ toSend = 0 => sinceTick' <= Period
  <2> DEFINE w == working'
             s == sinceTick'
  <2>1. /\ w = (IF working >= 1 THEN working - 1 ELSE 0) /\ s <= sinceTick + 1 /\ s \in Nat
        /\ working \in Nat /\ sinceTick \in Nat /\ Period \in Nat
    BY <1>3, <1>5, <1>6, NumberFacts
  <2>2. /\ working > 0 => toSend = 0 /\ sinceTick + working <= Period
        /\ toSend = 0 => working > 0 \/ sinceTick < Period
    BY <1>10, <1>11
  <2> HIDE DEF n, n1, l, l1, w, s
  <2>3. w > 0 => toSend = 0 /\ s + w <= Period
    BY <2>1, <2>2
  <2>4. toSend = 0 => s <= Period
    BY <2>1, <2>2
  <2> QED
    BY <1>2, <2>3, <2>4 DEF w, s
<1>14. CASE tx = <<>>
  <2>1. tx' = <<>> /\ awaiting' = awaiting
    BY <1>14 DEF Elapse
  <2>2. toSend = 0
    <3>1. TxDepth \in Nat \ {0} /\ l = 0
      BY <1>3, <1>14, NumberFacts
    <3> HIDE DEF l
    <3> QED
      BY <1>3, <1>11, <3>1
  <2>3. ~Answering
    <3>1. Left = 0
      BY <1>3, <1>14, <2>2 DEF Left
    <3> QED
      BY <3>1 DEF Answering
  <2>4. TimeInv'
    BY <1>2, <1>13, <2>2 DEF TimeInv
  <2>5. NoQueryIn(Ahead') => Quiet'
    BY <1>2, <1>8, <2>1, <2>2 DEF Quiet
  <2>6. ASSUME NEW k \in Nat, AskedAt(k) PROVE Quiet' \/ Asked'
    <3>1. /\ k > n => waited + (k - n) = Size["query"]
          /\ k <= n => waited + working + ReplySize <= Patience
          /\ awaiting = 1 /\ OneQueryIn(Ahead, k)
      BY <2>6 DEF AskedAt
    <3>2. SUFFICES ASSUME ~NoQueryIn(Ahead') PROVE Asked'
      BY <2>5
    <3>3. PICK j \in Nat : /\ OneQueryIn(Ahead', j)
                           /\ k > n => j - n1 = (k - n) - 1
                           /\ k <= n => j = k
      BY <1>4, <3>1, <3>2
    <3>4. n1 \in Nat /\ (n1 = n \/ n1 = n + 1)
      BY <1>3, <1>4
    <3>5. SUFFICES /\ j > n1 => waited' + (j - n1) = Size["query"]
                   /\ j <= n1 => waited' + working' + ReplySize <= Patience
      <4>1. AskedAt(j)'
        BY <1>2, <1>9, <2>1, <2>2, <3>1, <3>3, <3>5 DEF AskedAt, n1
      <4> QED
        BY <4>1 DEF Asked
    <3> HIDE DEF n, n1, l, l1
    <3>6. CASE k > n
      <4>1. waited < Patience
        BY <1>3, <3>1, <3>6, PacedFacts, NumberFacts
      <4>2. waited' = waited + 1
        BY <1>7, <2>1, <4>1
      <4>3. waited' + (j - n1) = Size["query"]
        BY <1>3, <3>1, <3>3, <3>4, <3>6, <4>2, PacedFacts
      <4>4. ASSUME j <= n1 PROVE waited' + working' + ReplySize <= Patience
        <5>1. waited' = Size["query"]
          BY <1>3, <3>3, <3>4, <3>6, <4>2, <4>3, <4>4, PacedFacts
        <5>2. CASE working = 0
          <6>1. working' = 0
            BY <1>5, <5>2
          <6> QED
            BY <5>1, <6>1, PacedFacts, NumberFacts
        <5>3. CASE working # 0
          <6>1. PICK u \in UpdateTimes : working \in 0..u
            BY <1>1, <5>3 DEF TypeInv, TypeOK
          <6>2. u \in Nat /\ working <= u /\ Size["query"] + u + ReplySize <= Patience + 1
            BY <6>1, PacedFacts
          <6>3. working' = working - 1
            BY <1>3, <1>5, <5>3
          <6> QED
            BY <1>3, <5>1, <6>2, <6>3, PacedFacts, NumberFacts
        <5> QED
          BY <5>2, <5>3
      <4> QED
        BY <4>3, <4>4
    <3>7. CASE ~(k > n)
      <4>1. k <= n /\ j = k /\ ~(j > n1)
        BY <1>3, <3>3, <3>4, <3>7
      <4>2. working > 0
        <5>1. k >= 1
          BY <1>1, <3>1, AheadFacts DEF OneQueryIn
        <5>2. n # 0
          BY <1>3, <4>1, <5>1
        <5> QED
          BY <1>11, <1>12, <2>2, <5>2
      <4>3. waited + working + ReplySize <= Patience
        BY <3>1, <4>1
      <4>4. waited' <= waited + 1 /\ waited' \in Nat
        BY <1>7, <2>1
      <4>5. working' = working - 1
        BY <1>3, <1>5, <4>2
      <4>6. waited' + working' + ReplySize <= Patience
        <5> DEFINE w == working'
                   d == waited'
        <5>1. /\ d \in Nat /\ d <= waited + 1 /\ w = working - 1 /\ waited + working + ReplySize <= Patience
              /\ waited \in Nat /\ working \in Nat /\ ReplySize \in Nat /\ Patience \in Nat
          BY <1>3, <4>3, <4>4, <4>5, NumberFacts
        <5> HIDE DEF w, d
        <5>2. d + w + ReplySize <= Patience
          BY <5>1
        <5> QED
          BY <5>2 DEF w, d
      <4> QED
        BY <4>1, <4>6
    <3> QED
      BY <3>6, <3>7
  <2>7. Quiet => Quiet'
    BY <1>4, <2>5 DEF Quiet
  <2>8. \A i \in 1..Len(tx') : tx'[i] <=> toSend' = 0 /\ i = Len(tx')
    BY <2>1
  <2> QED
    BY <1>1, <2>3, <2>4, <2>6, <2>7, <2>8 DEF SenderInv, Asked
<1>15. CASE tx # <<>>
  <2>1. tx' = Tail(tx) /\ awaiting' = (IF Head(tx) THEN Max({awaiting, 1}) - 1 ELSE awaiting)
    BY <1>15 DEF Elapse
  <2>2. Answering
    BY <1>1, <1>15 DEF SenderInv, Quiet, Asked, AskedAt
  <2>3. /\ l1 = l - 1 /\ l >= 1 /\ Head(tx) = tx[1]
        /\ \A i \in 1..l1 : tx'[i] = tx[i + 1]
    <3>1. tx \in Seq(BOOLEAN) /\ l # 0
      BY <1>1, <1>3, <1>15, TypeFacts
    <3>2. l1 = l - 1 /\ \A i \in 1..l1 : tx'[i] = tx[i + 1]
      BY <1>15, <2>1, <3>1, HeadTailProperties
    <3>3. l >= 1
      <4> HIDE DEF l
      <4> QED
        BY <1>3, <3>1
    <3> QED
      BY <3>1, <3>2, <3>3
  <2>4. \A i \in 1..l : tx[i] <=> toSend = 0 /\ i = l
    BY <1>1 DEF SenderInv
  <2>5. /\ awaiting = 1 /\ NoQueryIn(Ahead) /\ Left > 0 /\ waited + Left <= Patience
        /\ toSend > 0 => Left >= TxDepth
    BY <2>2 DEF Answering
  <2>6. Left = toSend + l /\ Left' = toSend' + l1
    BY DEF Left
  <2>7. /\ tx' = <<>> <=> l1 = 0
        /\ Head(tx) <=> toSend = 0 /\ l = 1
    <3>1. tx' \in Seq(BOOLEAN)
      BY <1>1, <1>15, <2>1, TypeFacts, HeadTailProperties
    <3>2. tx' = <<>> <=> l1 = 0
      BY <3>1, EmptySeq
    <3> HIDE DEF l
    <3>3. 1 \in 1..l
      BY <1>3, <2>3
    <3> QED
      BY <2>3, <2>4, <3>2, <3>3
  <2> HIDE DEF n, n1, l, l1
  <2>8. Left' = Left - 1 /\ Left \in Nat
    BY <1>2, <1>3, <2>3, <2>6
  <2>9. \A i \in 1..l1 : tx'[i] <=> toSend' = 0 /\ i = l1
    <3>1. \A i \in 1..l1 : i + 1 \in 1..l /\ (i + 1 = l <=> i = l1)
      BY <1>3, <2>3
    <3> QED
      BY <1>2, <2>3, <2>4, <3>1
  <2>10. CASE Head(tx)
    <3>1. toSend = 0 /\ l1 = 0 /\ tx' = <<>>
      <4>1. toSend = 0 /\ l = 1
        BY <2>7, <2>10, Zenon
      <4>2. l1 = 0
        BY <2>3, <4>1
      <4> QED
        BY <2>7, <4>1, <4>2, Zenon
    <3>2. awaiting' = 0
      <4>1. Max({awaiting, 1}) = 1
        BY <2>5, MaxFacts
      <4>2. awaiting' = Max({awaiting, 1}) - 1
        BY <2>1, <2>10, Zenon
      <4> QED
        BY <4>1, <4>2
    <3>3. Quiet'
      BY <1>2, <1>4, <1>8, <2>5, <3>1, <3>2 DEF Quiet
    <3>4. TimeInv'
      BY <1>2, <1>13, <3>1 DEF TimeInv
    <3> QED
      BY <2>9, <3>3, <3>4 DEF SenderInv, l1
  <2>11. CASE ~Head(tx)
    <3>1. awaiting' = awaiting
      BY <2>1, <2>11
    <3> DEFINE r == Left
               r1 == Left'
               s == sinceTick'
               d == waited'
    <3>2. ~(toSend = 0 /\ l = 1)
      BY <2>7, <2>11, Zenon
    <3>3. /\ r1 = r - 1 /\ r \in Nat /\ r = toSend + l /\ waited + r <= Patience /\ r > 0
          /\ s \in Nat /\ s <= sinceTick + 1 /\ (toSend = 0 => s <= Period)
          /\ toSend > 0 => sinceTick + r <= Period + ReplySize
          /\ toSend > 0 => ~(l < TxDepth)
          /\ waited < Patience => d = waited + 1
      BY <1>6, <1>7, <1>10, <1>11, <1>13, <2>5, <2>6, <2>8, <3>1 DEF l
    <3>4. /\ Period \in Nat /\ ReplySize \in Nat /\ TxDepth \in Nat /\ Patience \in Nat /\ Lateness \in Nat
          /\ Lateness = ReplySize - TxDepth /\ l >= 1
      BY <2>3, PacedFacts, NumberFacts
    <3> HIDE DEF r, r1, s, d
    <3>5. r1 > 0 /\ d + r1 <= Patience /\ (toSend > 0 => r1 >= TxDepth)
      <4>1. r1 \in Nat /\ r1 > 0
        BY <1>3, <3>2, <3>3, <3>4
      <4>2. d + r1 <= Patience
        BY <1>3, <3>3, <3>4
      <4>3. toSend > 0 => r1 >= TxDepth
        BY <1>3, <3>3, <3>4
      <4> QED
        BY <4>1, <4>2, <4>3
    <3>6. Answering'
      BY <1>2, <1>4, <1>8, <2>5, <3>1, <3>5 DEF Answering, r1, d
    <3>7. (toSend > 0 => s + r1 <= Period + ReplySize) /\ s <= Period + Lateness
      <4>1. toSend > 0 => s + r1 <= Period + ReplySize
        BY <1>3, <3>3, <3>4
      <4>2. CASE toSend = 0
        BY <3>3, <3>4, <4>1, <4>2
      <4>3. CASE toSend > 0
        BY <3>3, <3>4, <3>5, <4>1, <4>3
      <4> QED
        BY <1>3, <4>1, <4>2, <4>3
    <3>8. TimeInv'
      BY <1>2, <1>13, <3>6, <3>7 DEF TimeInv, Lateness, s, r1
    <3> QED
      BY <2>9, <3>6, <3>8 DEF SenderInv, l1
  <2> QED
    BY <2>10, <2>11
<1> QED
  BY <1>14, <1>15

LEMMA QueryStep == Paced /\ QueryInv /\ [Next]_vars => QueryInv'
<1> SUFFICES ASSUME Paced, QueryInv, [Next]_vars PROVE QueryInv'
  OBVIOUS
<1>1. TypeInv'
  BY StepTypes DEF QueryInv
<1>2. CASE UNCHANGED vars
  <2>1. SenderInv'
    BY <1>2 DEF vars, lineVars, parserVars, replyVars, QueryInv, SenderInv, Quiet, Asked, AskedAt,
                Answering, Left, Ahead, NoQueryIn, OneQueryIn, QueryLast
  <2>2. TimeInv'
    BY <1>2 DEF vars, lineVars, parserVars, replyVars, QueryInv, TimeInv,
                Answering, Left, Ahead, NoQueryIn, QueryLast, Lateness
  <2> QED
    BY <1>1, <2>1, <2>2 DEF QueryInv
<1> QED
  BY <1>1, <1>2, PostQuery, GiveUpQuery, PushQuery, DrainQuery, TickQuery, ElapseQuery
  DEF Next, Loop, QueryInv

-----------------------------------------------------------------------------
(* What the receive FIFO has to take *)

LEMMA DeepFacts ==
  ASSUME TypeInv, Deep, Paced, Bridged
  PROVE  /\ Size["query"] \in Nat \ {0} /\ Size["command"] \in Nat \ {0}
         /\ Size["query"] + Size["command"] <= rxDepth /\ Size["command"] <= CommandGap
         /\ \A u \in UpdateTimes \cup {1} :
              /\ u \in Nat /\ u <= CommandGap
              /\ Size["command"] + u + Lateness <= rxDepth + CommandGap + 1
<1>1. Size["query"] \in Nat \ {0} /\ Size["command"] \in Nat \ {0}
  BY ByteFacts DEF Kinds
<1>2. rxDepth = Max(RxDepths) /\ rxDepth \in Nat
  BY NumberFacts DEF Bridged, TypeInv, TypeOK
<1>3. /\ Size["query"] + Size["command"] <= rxDepth /\ Size["command"] <= CommandGap
  BY <1>2 DEF Deep
<1>4. ASSUME NEW u \in UpdateTimes \cup {1}
      PROVE  /\ u \in Nat /\ u <= CommandGap
             /\ Size["command"] + u + Lateness <= rxDepth + CommandGap + 1
  <2>1. u \in Nat /\ u <= CommandGap
    BY <1>4, NumberFacts DEF Deep
  <2>2. Size["command"] + u + ReplySize <= rxDepth + CommandGap + TxDepth + 1
    BY <1>2, <1>4 DEF Deep
  <2> QED
    BY <1>1, <1>2, <2>1, <2>2, PacedFacts, NumberFacts
<1> QED
  BY <1>1, <1>3, <1>4

\* The most bytes of commands that can have come in the last w byte times when
\* the latest command began g byte times ago, g being counted up to CommandGap:
\* those of the latest, and one per byte time before what the gap keeps free.
Most(g, w) ==
  LET size == Size["command"] IN
  IF w <= g
  THEN IF g <= size THEN w ELSE IF g <= size + w THEN (size + w) - g ELSE 0
  ELSE (IF g <= size THEN g ELSE size)
         + (IF g + CommandGap <= size + w THEN (size + w) - (g + CommandGap) ELSE 0)

\* A byte time later it is one more when a byte may have come; the next command
\* has its gap behind it; and the gap keeps it small.
LEMMA MostFacts ==
  ASSUME Size["command"] <= CommandGap, NEW g \in 0..CommandGap, NEW w \in Nat
  PROVE  /\ Most(g, w) \in Nat
         /\ \A h \in 0..CommandGap : h = (IF g + 1 <= CommandGap THEN g + 1 ELSE CommandGap)
              => /\ Most(h, w + 1) >= Most(g, w)
                 /\ g < Size["command"] => Most(h, w + 1) >= Most(g, w) + 1
         /\ Most(0, w) >= Most(CommandGap, w)
         /\ w <= CommandGap => Most(g, w) <= Size["command"]
         /\ g < Size["command"] => Most(g, w) < Size["command"] \/ Most(g, w) + CommandGap <= Size["command"] + w
<1> DEFINE size == Size["command"]
<1>1. size \in Nat \ {0} /\ CommandGap \in Nat /\ size <= CommandGap
  BY ByteFacts, NumberFacts DEF Kinds
<1>2. \A a, b \in Nat :
        Most(a, b) = IF b <= a
                     THEN IF a <= size THEN b ELSE IF a <= size + b THEN (size + b) - a ELSE 0
                     ELSE (IF a <= size THEN a ELSE size)
                            + (IF a + CommandGap <= size + b THEN (size + b) - (a + CommandGap) ELSE 0)
  BY DEF Most
<1> HIDE DEF size
<1>3. g \in Nat /\ g <= CommandGap /\ w + 1 \in Nat /\ 0 \in Nat
  BY <1>1
<1>4. Most(g, w) \in Nat
  BY <1>1, <1>2, <1>3
<1>5. ASSUME NEW h \in 0..CommandGap, h = (IF g + 1 <= CommandGap THEN g + 1 ELSE CommandGap)
      PROVE  Most(h, w + 1) >= Most(g, w) /\ (g < size => Most(h, w + 1) >= Most(g, w) + 1)
  <2> DEFINE m == Most(g, w)
             v == w + 1
             n == Most(h, v)
  <2>1. h \in Nat /\ v \in Nat /\ v = w + 1 /\ g \in Nat /\ w \in Nat
    BY <1>1, <1>5
  <2> HIDE DEF v
  <2>2. /\ m = IF w <= g
               THEN IF g <= size THEN w ELSE IF g <= size + w THEN (size + w) - g ELSE 0
               ELSE (IF g <= size THEN g ELSE size)
                      + (IF g + CommandGap <= size + w THEN (size + w) - (g + CommandGap) ELSE 0)
        /\ n = IF v <= h
               THEN IF h <= size THEN v ELSE IF h <= size + v THEN (size + v) - h ELSE 0
               ELSE (IF h <= size THEN h ELSE size)
                      + (IF h + CommandGap <= size + v THEN (size + v) - (h + CommandGap) ELSE 0)
    BY <1>2, <2>1
  <2> HIDE DEF m, n
  <2>3. CASE g + 1 <= CommandGap
    <3>1. h = g + 1
      BY <1>5, <2>3
    <3>2. n >= m
      BY <1>1, <2>1, <2>2, <2>3, <3>1
    <3>3. g < size => n >= m + 1
      BY <1>1, <2>1, <2>2, <2>3, <3>1
    <3> QED
      BY <3>2, <3>3 DEF m, n, v
  <2>4. CASE g = CommandGap
    <3>1. h = g
      BY <1>1, <1>5, <2>4
    <3>2. n >= m /\ ~(g < size)
      BY <1>1, <2>1, <2>2, <2>4, <3>1
    <3> QED
      BY <3>2 DEF m, n, v
  <2> QED
    BY <1>1, <1>3, <2>3, <2>4
<1>6. Most(0, w) >= Most(CommandGap, w)
  BY <1>1, <1>2, <1>3
<1>7. w <= CommandGap => Most(g, w) <= size
  BY <1>1, <1>2, <1>3
<1>8. g < size => Most(g, w) < size \/ Most(g, w) + CommandGap <= size + w
  BY <1>1, <1>2, <1>3
<1> QED
  BY <1>4, <1>5, <1>6, <1>7, <1>8 DEF size

\* What the sender has still to put on the line is the rest of one frame; of a
\* command, as much as has not had time to come since it began.
ComingInv ==
  coming # <<>> => \E kind \in Kinds :
    /\ Len(coming) <= Size[kind]
    /\ \A i \in 1..Len(coming) : coming[i] = [kind |-> kind, at |-> (Size[kind] - Len(coming)) + i]
    /\ kind = "command" => gap + Len(coming) = Size["command"]

LEMMA ComingStep ==
  ASSUME TypeInv, ComingInv, Size["command"] <= CommandGap, [Next]_vars
  PROVE  ComingInv'
<1>0. coming \in Seq(Bytes) /\ gap \in 0..CommandGap
  BY DEF TypeInv, TypeOK
<1>1. ASSUME UNCHANGED <<coming, gap>> PROVE ComingInv'
  BY <1>1 DEF ComingInv
<1>2. CASE UNCHANGED vars
  BY <1>1, <1>2 DEF vars, lineVars
<1>3. CASE Drain \/ Push \/ Tick \/ GiveUp
  BY <1>1, <1>3 DEF Drain, Push, Tick, TickWith, GiveUp, lineVars
<1>4. ASSUME NEW kind \in Kinds, Post(kind) PROVE ComingInv'
  <2> DEFINE n == Size[kind]
             f == [i \in 1..n |-> [kind |-> kind, at |-> i]]
  <2>1. coming' = f /\ gap' = (IF kind = "command" THEN 0 ELSE gap)
    BY <1>4 DEF Post
  <2>2. n \in Nat
    BY ByteFacts
  <2>3. Len(f) = n /\ \A i \in 1..n : f[i] = [kind |-> kind, at |-> i]
    BY <2>2
  <2>4. kind = "command" => n = Size["command"]
    OBVIOUS
  <2> HIDE DEF n, f
  <2>5. \A i \in 1..n : (n - n) + i = i
    BY <2>2
  <2>6. /\ Len(coming') <= n
        /\ \A i \in 1..Len(coming') : coming'[i] = [kind |-> kind, at |-> (n - Len(coming')) + i]
        /\ kind = "command" => gap' + Len(coming') = n
    BY <2>1, <2>2, <2>3, <2>5
  <2> QED
    BY <2>4, <2>6 DEF ComingInv, n
<1>5. CASE Elapse
  <2>1. CASE coming = <<>>
    BY <1>5, <2>1, ElapseFacts DEF ComingInv
  <2>2. CASE coming # <<>>
    <3> DEFINE l == Len(coming)
               l1 == Len(coming')
    <3>1. PICK kind \in Kinds :
            /\ l <= Size[kind]
            /\ \A i \in 1..l : coming[i] = [kind |-> kind, at |-> (Size[kind] - l) + i]
            /\ kind = "command" => gap + l = Size["command"]
      BY <2>2 DEF ComingInv
    <3> DEFINE n == Size[kind]
    <3>2. coming' = Tail(coming)
      BY <1>5, <2>2, ElapseFacts
    <3>3. l1 = l - 1 /\ \A i \in 1..l1 : coming'[i] = coming[i + 1]
      BY <1>0, <2>2, <3>2, HeadTailProperties
    <3>4. l \in Nat \ {0} /\ n \in Nat \ {0} /\ l <= n
      BY <1>0, <2>2, <3>1, ByteFacts, EmptySeq
    <3>5. gap' = Min({gap + 1, CommandGap})
      BY <1>5 DEF Elapse
    <3>6. gap' = IF gap + 1 <= CommandGap THEN gap + 1 ELSE CommandGap
      BY <1>0, <3>5, NumberFacts, MinFacts
    <3>7. /\ \A i \in 1..l : coming[i] = [kind |-> kind, at |-> (n - l) + i]
          /\ kind = "command" => gap + l = n
      BY <3>1
    <3>8. kind = "command" => n = Size["command"]
      OBVIOUS
    <3> HIDE DEF n, l, l1
    <3>9. \A i \in 1..l1 : i + 1 \in 1..l /\ (n - l) + (i + 1) = (n - l1) + i
      BY <3>3, <3>4
    <3>10. \A i \in 1..l1 : coming'[i] = [kind |-> kind, at |-> (n - l1) + i]
      BY <3>3, <3>7, <3>9
    <3>11. kind = "command" => gap' + l1 = n
      BY <1>0, <3>3, <3>4, <3>6, <3>7, <3>8, NumberFacts
    <3>12. l1 <= n
      BY <3>3, <3>4
    <3> QED
      BY <3>8, <3>10, <3>11, <3>12 DEF ComingInv, l1, n
  <2> QED
    BY <2>1, <2>2
<1> QED
  BY <1>2, <1>3, <1>4, <1>5 DEF Next, Loop

\* A query is on the line only when its last byte has still to come.
LEMMA OnlyCommands ==
  ASSUME TypeInv, ComingInv, coming # <<>>,
         NoQueryIn(Ahead) \/ \E k \in Nat : OneQueryIn(Ahead, k) /\ k <= Len(rx)
  PROVE  gap < Size["command"]
<1> DEFINE l == Len(coming)
           n == Len(rx)
           a == Len(Ahead)
<1>0. coming \in Seq(Bytes) /\ rx \in Seq(Bytes) /\ gap \in Nat
  BY NumberFacts DEF TypeInv, TypeOK
<1>1. PICK kind \in Kinds :
        /\ l <= Size[kind]
        /\ \A i \in 1..l : coming[i] = [kind |-> kind, at |-> (Size[kind] - l) + i]
        /\ kind = "command" => gap + l = Size["command"]
  BY DEF ComingInv
<1>2. l \in Nat \ {0} /\ n \in Nat /\ a = n + l /\ Size[kind] \in Nat
  BY <1>0, AheadFacts, ByteFacts, EmptySeq
<1>3. \A i \in 1..(n + l) : Ahead[i] = IF i <= n THEN rx[i] ELSE coming[i - n]
  BY <1>0, ConcatProperties DEF Ahead
<1> DEFINE s == Size[kind]
<1>4. s \in Nat /\ l <= s /\ \A i \in 1..l : coming[i] = [kind |-> kind, at |-> (s - l) + i]
  BY <1>1, <1>2
<1> HIDE DEF l, n, a, s
<1>5. Ahead[a] = [kind |-> kind, at |-> s] /\ a \in 1..a /\ a > n
  <2>1. a \in 1..(n + l) /\ ~(a <= n) /\ a - n = l /\ l \in 1..l /\ (s - l) + l = s
    BY <1>2, <1>4
  <2> QED
    BY <1>2, <1>3, <1>4, <2>1
<1>6. kind # "query"
  <2> SUFFICES ASSUME kind = "query" PROVE FALSE
    OBVIOUS
  <2>1. Ahead[a] = QueryLast
    BY <1>5 DEF QueryLast, s
  <2>2. ~NoQueryIn(Ahead)
    BY <1>5, <2>1 DEF NoQueryIn, a
  <2>3. \A k \in Nat : OneQueryIn(Ahead, k) => k = a
    BY <1>5, <2>1 DEF OneQueryIn, a
  <2> QED
    BY <1>2, <1>5, <2>2, <2>3 DEF n
<1>7. gap + l = Size["command"]
  BY <1>1, <1>6 DEF Kinds, l
<1>8. Size["command"] \in Nat
  BY ByteFacts DEF Kinds
<1> QED
  BY <1>0, <1>2, <1>7, <1>8

Updates == UpdateTimes \cup {1}

\* For w byte times commands have come in, w and what is left of the update being
\* no more than an update takes; q bytes of the FIFO are left out of account, the
\* query's.
InUpdate(q) == \E w \in Nat, u \in Updates : Len(rx) <= q + Most(gap, w) /\ w + working <= u

\* Behind the query, whose last byte is the k-th, there is only what has come in
\* since; and that byte came when the update had begun.
BehindQuery(k) == \E w \in Nat, u \in Updates : Len(rx) <= k + Most(gap, w) /\ w + working + 1 <= u

\* While the reply is sent, there is only what has come in behind the query.
InReply ==
  \E w \in Nat, u \in Updates :
    /\ Len(rx) <= Most(gap, w) /\ w + 1 <= u + Lateness
    /\ toSend > 0 => w + Left + 1 <= u + ReplySize

\* What the receive FIFO holds.
LoadInv ==
  /\ Quiet => InUpdate(0)
  /\ Answering => (toSend = 0 /\ InUpdate(0)) \/ (working = 0 /\ InReply)
  /\ \A k \in Nat : AskedAt(k) =>
        /\ k > Len(rx) => InUpdate(waited)
        /\ k <= Len(rx) => InUpdate(Size["query"]) /\ BehindQuery(k)

\* A byte time adds no more to the FIFO than to the account, if it is one of a
\* command; in any case no more than one byte.
LEMMA LoadElapse ==
  ASSUME TypeInv, Size["command"] <= CommandGap, Elapse, ~lost', NEW q \in Nat, NEW w \in Nat,
         Len(rx) <= q + Most(gap, w)
  PROVE  /\ Len(rx') <= (q + 1) + Most(gap', w + 1)
         /\ (coming # <<>> => gap < Size["command"]) => Len(rx') <= q + Most(gap', w + 1)
<1> DEFINE n == Len(rx)
           n1 == Len(rx')
           g == gap
           h == gap'
           m == Most(g, w)
           m1 == Most(h, w + 1)
           s == Size["command"]
<1>1. g \in 0..CommandGap /\ n \in Nat /\ s \in Nat
  <2>1. s \in Nat
    BY ByteFacts DEF Kinds
  <2> QED
    BY <2>1, AheadFacts DEF TypeInv, TypeOK
<1>2. h = IF g + 1 <= CommandGap THEN g + 1 ELSE CommandGap
  <2>1. h = Min({g + 1, CommandGap})
    BY DEF Elapse
  <2> QED
    BY <1>1, <2>1, NumberFacts, MinFacts
<1>3. h \in 0..CommandGap
  BY <1>1, <1>2, NumberFacts
<1>4. n1 = IF coming = <<>> THEN n ELSE n + 1
  BY AheadElapse
<1>5. m \in Nat /\ m1 >= m /\ (g < s => m1 >= m + 1)
  BY <1>1, <1>2, <1>3, MostFacts
<1>6. m1 \in Nat
  <2>1. ASSUME NEW a \in 0..CommandGap, NEW v \in Nat PROVE Most(a, v) \in Nat
    BY MostFacts
  <2>2. w + 1 \in Nat
    OBVIOUS
  <2> QED
    BY <1>3, <2>1, <2>2
<1>7. n <= q + m
  OBVIOUS
<1> HIDE DEF n, n1, m, m1, s, g
<1>8. n1 <= (q + 1) + m1
  BY <1>1, <1>4, <1>5, <1>6, <1>7
<1>9. (coming # <<>> => g < s) => n1 <= q + m1
  BY <1>1, <1>4, <1>5, <1>6, <1>7
<1> QED
  BY <1>8, <1>9 DEF n1, m1, s, g

\* So the account stands while an update runs, and starts afresh when the FIFO
\* is empty and the loop waits for something to do.
LEMMA UpdateElapse ==
  ASSUME TypeInv, Size["command"] <= CommandGap, Elapse, ~lost', NEW q \in Nat, InUpdate(q),
         working > 0 \/ rx = <<>>
  PROVE  /\ \A p \in Nat : p = q + 1 => InUpdate(p)'
         /\ (coming # <<>> => gap < Size["command"]) => InUpdate(q)'
<1>1. working \in Nat /\ gap \in 0..CommandGap
  BY TypeFacts DEF TypeInv, TypeOK
<1>2. working' = IF working >= 1 THEN working - 1 ELSE 0
  <2>1. working' = Max({working, 1}) - 1
    BY DEF Elapse
  <2> QED
    BY <1>1, <2>1, MaxFacts
<1>3. PICK w \in Nat, u \in Updates : Len(rx) <= q + Most(gap, w) /\ w + 1 + working' <= u
  <2>1. CASE working > 0
    <3>1. PICK w \in Nat, u \in Updates : Len(rx) <= q + Most(gap, w) /\ w + working <= u
      BY DEF InUpdate
    <3>2. u \in Nat
      BY NumberFacts DEF Updates
    <3> DEFINE left == working'
    <3>3. left = working - 1
      BY <1>1, <1>2, <2>1
    <3> HIDE DEF left
    <3>4. w + 1 + left <= u
      BY <1>1, <2>1, <3>1, <3>2, <3>3
    <3> QED
      BY <3>1, <3>4 DEF left
  <2>2. CASE rx = <<>> /\ ~(working > 0)
    <3>1. Len(rx) = 0 /\ working' = 0
      BY <1>1, <1>2, <2>2
    <3>2. Most(gap, 0) \in Nat
      BY <1>1, MostFacts
    <3>3. Len(rx) <= q + Most(gap, 0) /\ 0 + 1 + working' <= 1
      BY <3>1, <3>2
    <3> QED
      BY <3>3 DEF Updates
  <2> QED
    BY <2>1, <2>2
<1>4. /\ Len(rx') <= (q + 1) + Most(gap', w + 1)
      /\ (coming # <<>> => gap < Size["command"]) => Len(rx') <= q + Most(gap', w + 1)
  BY <1>3, LoadElapse
<1>5. PICK v \in Nat : v = w + 1
  OBVIOUS
<1>6. v + working' <= u
  BY <1>3, <1>5
<1>7. /\ Len(rx') <= (q + 1) + Most(gap', v)
      /\ (coming # <<>> => gap < Size["command"]) => Len(rx') <= q + Most(gap', v)
  BY <1>4, <1>5
<1> QED
  BY <1>6, <1>7 DEF InUpdate, Most, Updates

\* The deepest FIFO takes whatever comes.
LEMMA NoneDropped ==
  ASSUME Paced, Deep, Bridged, QueryInv, ComingInv, LoadInv, ~lost, Elapse
  PROVE  ~lost'
<1> DEFINE n == Len(rx)
           s == Size["command"]
           sq == Size["query"]
<1>1. TypeInv /\ SenderInv /\ TimeInv
  BY DEF QueryInv
<1> SUFFICES ASSUME coming # <<>> PROVE n < rxDepth
  BY DEF Elapse
<1>2. /\ sq \in Nat \ {0} /\ s \in Nat \ {0} /\ sq + s <= rxDepth /\ s <= CommandGap
      /\ \A u \in Updates : u \in Nat /\ u <= CommandGap /\ s + u + Lateness <= rxDepth + CommandGap + 1
  BY <1>1, DeepFacts DEF Updates
<1>3. /\ n \in Nat /\ rxDepth \in Nat /\ toSend \in Nat /\ working \in Nat /\ waited \in Nat
      /\ gap \in 0..CommandGap /\ Len(tx) \in Nat /\ CommandGap \in Nat
  BY <1>1, TypeFacts, AheadFacts, NumberFacts DEF TypeInv, TypeOK
<1>4. /\ rx = <<>> => n = 0
      /\ working > 0 \/ (toSend > 0 /\ ~(Len(tx) < TxDepth)) \/ (toSend = 0 /\ rx = <<>>)
      /\ working > 0 => toSend = 0
  BY <1>1 DEF Elapse, Waits, Free, Room, TimeInv
<1>5. \A w \in Nat : /\ Most(gap, w) \in Nat
                     /\ w <= CommandGap => Most(gap, w) <= s
                     /\ gap < s => Most(gap, w) < s \/ Most(gap, w) + CommandGap <= s + w
  BY <1>2, <1>3, MostFacts
<1>6. CASE rx = <<>>
  BY <1>2, <1>3, <1>4, <1>6
\* While an update runs, less than one command comes in.
<1>7. ASSUME working > 0, gap < s, NEW q \in Nat, InUpdate(q)
      PROVE  n < q + s
  <2>1. PICK w \in Nat, u \in Updates : n <= q + Most(gap, w) /\ w + working <= u
    BY <1>7 DEF InUpdate
  <2> DEFINE m == Most(gap, w)
  <2>2. m \in Nat /\ (m < s \/ m + CommandGap <= s + w) /\ n <= q + m
    BY <1>5, <1>7, <2>1
  <2>3. u \in Nat /\ u <= CommandGap
    BY <1>2
  <2> HIDE DEF n, m, s
  <2>4. w < CommandGap
    BY <1>3, <1>7, <2>1, <2>3
  <2>5. m < s
    BY <1>2, <1>3, <2>2, <2>4
  <2> QED
    BY <1>2, <1>3, <2>2, <2>5
<1>8. CASE Quiet
  <2>1. gap < s
    BY <1>1, <1>8, OnlyCommands DEF Quiet
  <2>2. toSend = 0 /\ InUpdate(0)
    BY <1>8 DEF Quiet, LoadInv
  <2>3. working > 0 \/ rx = <<>>
    BY <1>4, <2>2
  <2>4. working > 0 => n < 0 + s
    BY <1>7, <2>1, <2>2
  <2> HIDE DEF n, s, sq
  <2> QED
    BY <1>2, <1>3, <1>6, <2>3, <2>4
<1>9. CASE Asked
  <2>1. PICK k \in Nat : AskedAt(k)
    BY <1>9 DEF Asked
  <2>2. /\ toSend = 0 /\ OneQueryIn(Ahead, k)
        /\ k > n => waited + (k - n) = sq /\ InUpdate(waited)
        /\ k <= n => InUpdate(sq)
    BY <2>1 DEF AskedAt, LoadInv
  <2>3. working > 0 \/ rx = <<>>
    BY <1>4, <2>2
  <2>4. k <= n => gap < s
    BY <1>1, <2>2, OnlyCommands
  <2>5. CASE k <= n /\ working > 0
    <3>1. n < sq + s
      BY <1>2, <1>7, <2>2, <2>4, <2>5
    <3> HIDE DEF n, s, sq
    <3> QED
      BY <1>2, <1>3, <3>1
  <2>6. CASE k > n /\ working > 0
    <3>1. PICK w \in Nat, u \in Updates : n <= waited + Most(gap, w) /\ w + working <= u
      BY <2>2, <2>6 DEF InUpdate
    <3> DEFINE m == Most(gap, w)
    <3>2. m \in Nat /\ (w <= CommandGap => m <= s) /\ n <= waited + m
      BY <1>5, <3>1
    <3>3. u \in Nat /\ u <= CommandGap
      BY <1>2
    <3>4. waited + (k - n) = sq
      BY <2>2, <2>6
    <3> HIDE DEF n, m, s, sq
    <3>5. w <= CommandGap
      BY <1>3, <3>1, <3>3
    <3>6. waited < sq
      BY <1>2, <1>3, <2>6, <3>4
    <3> QED
      BY <1>2, <1>3, <3>2, <3>5, <3>6
  <2> HIDE DEF n
  <2> QED
    BY <1>3, <1>6, <2>3, <2>5, <2>6
<1>10. CASE Answering
  <2>1. gap < s
    BY <1>1, <1>10, OnlyCommands DEF Answering
  <2>2. (toSend = 0 /\ InUpdate(0)) \/ (working = 0 /\ InReply)
    BY <1>10 DEF LoadInv
  <2>3. CASE toSend = 0 /\ InUpdate(0) /\ working > 0
    <3>1. n < 0 + s
      BY <1>7, <2>1, <2>3
    <3> HIDE DEF n, s, sq
    <3> QED
      BY <1>2, <1>3, <3>1
  <2>4. CASE working = 0 /\ InReply /\ toSend > 0
    <3>1. PICK w \in Nat, u \in Updates :
            n <= Most(gap, w) /\ w + 1 <= u + Lateness /\ w + Left + 1 <= u + ReplySize
      BY <2>4 DEF InReply
    <3> DEFINE m == Most(gap, w)
               l == Len(tx)
    <3>2. m \in Nat /\ (m < s \/ m + CommandGap <= s + w) /\ n <= m
      BY <1>5, <2>1, <3>1
    <3>3. u \in Nat /\ s + u + Lateness <= rxDepth + CommandGap + 1
      BY <1>2
    <3>4. Left = toSend + l /\ l >= TxDepth /\ l \in Nat
      BY <1>3, <1>4, <2>4, NumberFacts DEF Left
    <3> HIDE DEF n, m, s, sq, l
    <3>5. w + 2 <= u + Lateness
      BY <1>3, <2>4, <3>1, <3>3, <3>4, PacedFacts, NumberFacts
    <3> QED
      BY <1>2, <1>3, <3>2, <3>3, <3>5, PacedFacts
  <2>5. toSend = 0 => working > 0 \/ rx = <<>>
    BY <1>4
  <2> QED
    BY <1>3, <1>6, <2>2, <2>3, <2>4, <2>5
<1> QED
  BY <1>1, <1>8, <1>9, <1>10 DEF SenderInv

LEMMA PostLoad ==
  ASSUME Paced, QueryInv, LoadInv, Size["command"] <= CommandGap, NEW kind \in Kinds, Post(kind)
  PROVE  LoadInv'
<1>1. TypeInv /\ SenderInv /\ gap \in 0..CommandGap
  BY DEF QueryInv, TypeInv, TypeOK
<1>2. /\ UNCHANGED <<rx, toSend, tx, working>> /\ coming = <<>>
      /\ kind = "query" => awaiting < Window
      /\ kind = "command" => gap = CommandGap
      /\ awaiting' = (IF kind = "query" THEN awaiting + 1 ELSE awaiting)
      /\ waited' = (IF awaiting = 0 THEN 0 ELSE waited)
      /\ gap' = (IF kind = "command" THEN 0 ELSE gap)
  BY DEF Post, parserVars, replyVars
<1>3. UNCHANGED <<Len(rx), Len(tx), Left>>
  BY <1>2 DEF Left
\* A command that follows has the gap behind it.
<1>4. ASSUME NEW w \in Nat PROVE Most(gap', w) >= Most(gap, w)
  <2>1. CASE gap' = gap
    <3>1. Most(gap, w) \in Nat
      BY <1>1, MostFacts
    <3> QED
      BY <2>1, <3>1
  <2>2. CASE gap = CommandGap /\ gap' = 0
    <3>1. Most(0, w) >= Most(CommandGap, w)
      BY <1>1, MostFacts
    <3> QED
      BY <2>2, <3>1
  <2> QED
    BY <1>2, <2>1, <2>2
<1>5. gap' \in 0..CommandGap
  BY <1>1, <1>2, NumberFacts
<1>6. ASSUME NEW n \in Nat, NEW q \in Nat, NEW w \in Nat, n <= q + Most(gap, w)
      PROVE  n <= q + Most(gap', w)
  <2> DEFINE m == Most(gap, w)
             m1 == Most(gap', w)
  <2>1. m1 >= m /\ m \in Nat /\ m1 \in Nat /\ n <= q + m
    <3>1. \A a \in 0..CommandGap : Most(a, w) \in Nat
      BY MostFacts
    <3> QED
      BY <1>1, <1>4, <1>5, <1>6, <3>1
  <2> HIDE DEF m, m1
  <2>2. n <= q + m1
    BY <2>1
  <2> QED
    BY <2>2 DEF m1
<1>7. Len(rx) \in Nat /\ waited \in Nat /\ Size["query"] \in Nat
  BY <1>1, AheadFacts, TypeFacts, PacedFacts
<1>8. \A q \in Nat : /\ InUpdate(q) => InUpdate(q)'
                     /\ BehindQuery(q) => BehindQuery(q)'
  BY <1>2, <1>3, <1>6, <1>7 DEF InUpdate, BehindQuery, Most, Updates
<1>9. InReply => InReply'
  <2>1. \A w \in Nat : Len(rx) <= Most(gap, w) => Len(rx') <= Most(gap', w)
    <3> SUFFICES ASSUME NEW w \in Nat, Len(rx) <= Most(gap, w) PROVE Len(rx') <= Most(gap', w)
      OBVIOUS
    <3> DEFINE m == Most(gap, w)
               m1 == Most(gap', w)
    <3>1. m1 >= m /\ m \in Nat /\ m1 \in Nat /\ Len(rx) <= m
      <4>1. \A a \in 0..CommandGap : Most(a, w) \in Nat
        BY MostFacts
      <4> QED
        BY <1>1, <1>4, <1>5, <4>1
    <3> HIDE DEF m, m1
    <3>2. Len(rx) <= m1
      BY <1>7, <3>1
    <3> QED
      BY <1>3, <3>2 DEF m1
  <2> QED
    BY <1>2, <1>3, <2>1 DEF InReply, Updates, Lateness
<1>10. CASE kind = "query"
  <2>1. awaiting = 0 /\ awaiting' = 1 /\ waited' = 0
    BY <1>1, <1>2, <1>10, TypeFacts, PacedFacts, NumberFacts
  <2>2. Quiet
    <3>1. ~Asked /\ ~Answering
      BY <2>1 DEF Asked, AskedAt, Answering
    <3> QED
      BY <1>1, <3>1 DEF SenderInv
  <2>3. Left' = 0 /\ InUpdate(0)'
    BY <1>3, <1>8, <2>2, Apart DEF LoadInv
  <2>4. ~Answering'
    BY <2>3 DEF Answering
  <2>5. ASSUME NEW k \in Nat, AskedAt(k)' PROVE k > Len(rx') /\ InUpdate(waited)'
    <3>1. k \in 1..Len(Ahead') /\ Ahead'[k] = QueryLast
      BY <2>5 DEF AskedAt, OneQueryIn, QueryLast
    <3> DEFINE n == Len(rx)
    <3>2. Ahead = rx /\ \A i \in 1..n : Ahead'[i] = Ahead[i]
      BY <1>1, AheadPost
    <3>3. \A i \in 1..n : Ahead[i] # QueryLast
      BY <2>2, <3>2 DEF Quiet, NoQueryIn
    <3>4. k >= 1
      <4>1. Len(Ahead') \in Nat
        BY <1>1, PostTypes, AheadFacts, AheadPost, ByteFacts
      <4> QED
        BY <3>1, <4>1
    <3>5. k \notin 1..n
      BY <3>1, <3>2, <3>3
    <3>6. k > Len(rx')
      <4>1. n \in Nat /\ Len(rx') = n
        BY <1>3, <1>7
      <4> HIDE DEF n
      <4> QED
        BY <3>4, <3>5, <4>1
    <3>7. InUpdate(waited)'
      BY <2>1, <2>3 DEF InUpdate
    <3> QED
      BY <3>6, <3>7
  <2> QED
    <3>1. \A k \in Nat : AskedAt(k)' => ~(k <= Len(rx'))
      <4> SUFFICES ASSUME NEW k \in Nat, AskedAt(k)' PROVE ~(k <= Len(rx'))
        OBVIOUS
      <4>1. k > Len(rx') /\ Len(rx') \in Nat
        BY <1>3, <1>7, <2>5
      <4> HIDE DEF Ahead
      <4> QED
        BY <4>1
    <3> QED
      BY <2>3, <2>4, <2>5, <3>1 DEF LoadInv
<1>11. CASE kind # "query"
  <2>1. awaiting' = awaiting
    BY <1>2, <1>11
  <2>2. Quiet' => InUpdate(0)'
    <3> SUFFICES ASSUME Quiet' PROVE InUpdate(0)'
      OBVIOUS
    <3>1. ~Answering
      <4>1. tx = <<>> /\ toSend = 0
        BY <1>2 DEF Quiet
      <4> QED
        BY <4>1 DEF Answering, Left
    <3>2. ASSUME NEW k \in Nat, AskedAt(k) PROVE FALSE
      <4>1. k \in 1..Len(Ahead) /\ Ahead[k] = QueryLast
        BY <3>2 DEF AskedAt, OneQueryIn
      <4>2. Ahead'[k] = QueryLast /\ k \in 1..Len(Ahead')
        <5> DEFINE a == Len(Ahead)
                   a1 == Len(Ahead')
        <5>1. a1 = a + Size[kind] /\ a \in Nat /\ Size[kind] \in Nat /\ k \in 1..a
          BY <1>1, <4>1, AheadPost, AheadFacts, ByteFacts
        <5> HIDE DEF a, a1
        <5>2. k \in 1..a1
          BY <5>1
        <5> QED
          BY <1>1, <4>1, <5>2, AheadPost DEF a1
      <4> QED
        BY <4>2 DEF Quiet, NoQueryIn, QueryLast
    <3>3. Quiet
      BY <1>1, <3>1, <3>2 DEF SenderInv, Asked
    <3> QED
      BY <1>8, <3>3 DEF LoadInv
  <2>3. Answering' => (toSend' = 0 /\ InUpdate(0)') \/ (working' = 0 /\ InReply')
    <3> SUFFICES ASSUME Answering' PROVE (toSend' = 0 /\ InUpdate(0)') \/ (working' = 0 /\ InReply')
      OBVIOUS
    <3>1. Left > 0
      BY <1>3 DEF Answering
    <3>2. Answering
      BY <1>1, <3>1, Apart DEF SenderInv, Asked
    <3> QED
      BY <1>2, <1>8, <1>9, <3>2 DEF LoadInv
  <2>4. ASSUME NEW k \in Nat, AskedAt(k)'
        PROVE  /\ k > Len(rx') => InUpdate(waited)'
               /\ k <= Len(rx') => InUpdate(Size["query"])' /\ BehindQuery(k)'
    <3>1. awaiting = 1 /\ Left = 0
      <4>1. tx' = <<>> /\ toSend' = 0 /\ awaiting' = 1
        BY <2>4 DEF AskedAt
      <4>2. Len(tx') = 0
        BY <4>1
      <4> QED
        BY <1>3, <2>1, <4>1, <4>2 DEF Left
    <3>2. PICK j \in Nat : AskedAt(j)
      <4>1. k \in 1..Len(Ahead') /\ Ahead'[k] = QueryLast
        BY <2>4 DEF AskedAt, OneQueryIn, QueryLast
      <4>2. ASSUME Quiet PROVE FALSE
        <5> DEFINE a == Len(Ahead)
                   m == Size[kind]
        <5>1. a \in Nat /\ m \in Nat /\ Len(Ahead') = a + m
          BY <1>1, AheadPost, AheadFacts, ByteFacts
        <5>2. \A i \in 1..a : Ahead'[i] = Ahead[i]
          BY <1>1, AheadPost
        <5>3. \A i \in 1..a : Ahead[i] # QueryLast
          BY <4>2 DEF Quiet, NoQueryIn
        <5>4. \A i \in 1..m : Ahead'[a + i] = [kind |-> kind, at |-> i]
          BY <1>1, AheadPost
        <5>5. \A i \in 1..m : [kind |-> kind, at |-> i] # QueryLast
          BY <1>11 DEF QueryLast
        <5>6. k \in 1..(a + m)
          BY <4>1, <5>1
        <5> HIDE DEF a, m
        <5>7. k \in 1..a \/ (k - a \in 1..m /\ a + (k - a) = k)
          BY <5>1, <5>6
        <5> QED
          BY <4>1, <5>2, <5>3, <5>4, <5>5, <5>7
      <4> QED
        BY <1>1, <3>1, <4>2, Apart DEF SenderInv, Asked
    <3>3. k = j
      <4>1. j \in 1..Len(Ahead) /\ Ahead[j] = QueryLast
        BY <3>2 DEF AskedAt, OneQueryIn
      <4>2. Ahead'[j] = QueryLast
        BY <1>1, <4>1, AheadPost
      <4>3. j \in 1..Len(Ahead')
        <5> DEFINE a == Len(Ahead)
                   a1 == Len(Ahead')
        <5>1. a1 = a + Size[kind] /\ a \in Nat /\ Size[kind] \in Nat
          BY <1>1, AheadPost, AheadFacts, ByteFacts
        <5>2. j \in 1..a
          BY <4>1
        <5> HIDE DEF a, a1
        <5>3. j \in 1..a1
          BY <5>1, <5>2
        <5> QED
          BY <5>3 DEF a1
      <4>4. \A i \in 1..Len(Ahead') : Ahead'[i] = QueryLast <=> i = k
        BY <2>4 DEF AskedAt, OneQueryIn, QueryLast
      <4> QED
        BY <4>2, <4>3, <4>4
    <3>4. waited' = waited
      BY <1>2, <3>1
    <3>5. /\ k > Len(rx) => InUpdate(waited)
          /\ k <= Len(rx) => InUpdate(Size["query"]) /\ BehindQuery(k)
      BY <3>2, <3>3 DEF LoadInv
    <3>6. PICK v \in Nat : v = waited
      BY <1>7
    <3>7. k > Len(rx') => InUpdate(waited)'
      <4>1. k > Len(rx') => InUpdate(v)'
        BY <1>3, <1>8, <3>5, <3>6
      <4> QED
        BY <3>4, <3>6, <4>1 DEF InUpdate
    <3> QED
      BY <1>3, <1>7, <1>8, <3>5, <3>7
  <2> QED
    BY <2>2, <2>3, <2>4 DEF LoadInv
<1> QED
  BY <1>10, <1>11

\* A tick finds the FIFO empty.
LEMMA TickLoad ==
  ASSUME QueryInv, LoadInv, Size["command"] <= CommandGap, Tick
  PROVE  LoadInv'
<1>1. /\ rx' = <<>> /\ toSend' = 0 /\ working' \in UpdateTimes /\ UNCHANGED <<gap, waited>>
  BY DEF Tick, TickWith, Free, lineVars, parserVars, replyVars
<1>2. gap \in 0..CommandGap /\ waited \in Nat /\ working' \in Nat
  BY <1>1, TypeFacts, NumberFacts DEF QueryInv, TypeInv, TypeOK
<1>3. Len(rx') = 0 /\ Most(gap', 0) \in Nat
  BY <1>1, <1>2, MostFacts
<1>4. \A q \in Nat : InUpdate(q)'
  <2> SUFFICES ASSUME NEW q \in Nat PROVE InUpdate(q)'
    OBVIOUS
  <2>1. Len(rx') <= q + Most(gap', 0) /\ 0 + working' <= working'
    <3> DEFINE n == Len(rx')
               m == Most(gap', 0)
               left == working'
    <3>1. n = 0 /\ m \in Nat /\ left \in Nat
      BY <1>2, <1>3
    <3> HIDE DEF n, m, left
    <3>2. n <= q + m /\ 0 + left <= left
      BY <3>1
    <3> QED
      BY <3>2 DEF n, m, left
  <2>2. working' \in Updates
    BY <1>1 DEF Updates
  <2>3. \E w \in Nat, u \in Updates : Len(rx') <= q + Most(gap', w) /\ w + working' <= u
    BY <2>1, <2>2
  <2> QED
    BY <2>3 DEF InUpdate, Most, Updates
<1>5. InUpdate(0)' /\ InUpdate(waited)'
  <2>1. PICK v \in Nat : v = waited'
    BY <1>1, <1>2
  <2>2. InUpdate(v)'
    BY <1>4
  <2>3. InUpdate(waited)'
    BY <2>1, <2>2 DEF InUpdate
  <2> QED
    BY <1>4, <2>3
<1>6. \A k \in Nat : AskedAt(k)' => k > Len(rx') /\ ~(k <= Len(rx'))
  <2> SUFFICES ASSUME NEW k \in Nat, AskedAt(k)' PROVE k > 0 /\ ~(k <= 0)
    BY <1>3
  <2>1. k \in 1..Len(Ahead')
    BY DEF AskedAt, OneQueryIn
  <2>2. Len(Ahead') \in Nat
    BY TickTypes, AheadFacts DEF QueryInv
  <2> QED
    BY <2>1, <2>2
<1> QED
  BY <1>1, <1>5, <1>6 DEF LoadInv

\* The bytes given to the transmit FIFO are still on their way.
LEMMA PushLoad ==
  ASSUME QueryInv, LoadInv, Push
  PROVE  LoadInv'
<1>1. /\ toSend > 0 /\ toSend' = toSend - 1 /\ tx' = Append(tx, toSend = 1)
      /\ UNCHANGED <<awaiting, waited, gap, rx, coming, working>>
  BY DEF Push, lineVars, parserVars
<1>2. TypeInv /\ SenderInv
  BY DEF QueryInv
<1>3. tx \in Seq(BOOLEAN) /\ Len(tx) \in Nat /\ toSend \in Nat
  BY <1>2, TypeFacts
<1>4. Len(tx') = Len(tx) + 1
  <2>1. (toSend = 1) \in BOOLEAN
    OBVIOUS
  <2> QED
    BY <1>1, <1>3, <2>1, AppendProperties
<1>5. Left' = Left /\ Left > 0 /\ Left \in Nat
  <2> DEFINE l == Len(tx)
             l1 == Len(tx')
  <2>1. Left = toSend + l /\ Left' = toSend' + l1 /\ l \in Nat /\ l1 = l + 1
    BY <1>3, <1>4 DEF Left
  <2> HIDE DEF l, l1
  <2> QED
    BY <1>1, <1>3, <2>1
<1>6. Answering /\ awaiting = 1
  <2>1. ~Quiet /\ ~Asked
    BY <1>1 DEF Quiet, Asked, AskedAt
  <2> QED
    BY <1>2, <2>1, Apart DEF SenderInv
<1>7. ~Quiet' /\ \A k \in Nat : ~AskedAt(k)'
  <2>1. tx' # <<>>
    BY <1>3, <1>4
  <2> QED
    BY <2>1 DEF Quiet, AskedAt
<1>8. working = 0 /\ InReply
  BY <1>1, <1>3, <1>6 DEF LoadInv
<1>9. InReply'
  BY <1>1, <1>5, <1>8 DEF InReply, Most, Updates, Lateness
<1> QED
  BY <1>1, <1>7, <1>8, <1>9 DEF LoadInv

\* When the query is taken, nothing but what has come in behind it is left.
LEMMA DrainLoad ==
  ASSUME Paced, QueryInv, StreamInv, LoadInv, Size["command"] <= CommandGap, Drain
  PROVE  LoadInv'
<1> DEFINE n == Len(rx)
           n1 == Len(rx')
<1>1. TypeInv /\ StreamInv /\ SenderInv /\ gap \in 0..CommandGap
  BY DEF QueryInv, TypeInv, TypeOK
<1>2. /\ working = 0 /\ toSend = 0 /\ UNCHANGED <<coming, awaiting, waited, tx, working, gap>>
  BY DEF Drain, Free, lineVars
<1>3. /\ Head(rx) = QueryLast => toSend' = ReplySize
      /\ Head(rx) # QueryLast => toSend' = toSend
  BY <1>1, DrainReads
<1>4. /\ n1 = n - 1 /\ n >= 1 /\ n \in Nat
      /\ Len(Ahead') = Len(Ahead) - 1 /\ Ahead[1] = Head(rx)
      /\ \A i \in 1..Len(Ahead') : Ahead'[i] = Ahead[i + 1]
  BY <1>1, AheadDrain, AheadFacts
<1>5. Ahead \in Seq(Bytes) /\ Ahead' \in Seq(Bytes) /\ Len(Ahead) \in Nat /\ Len(Ahead) >= 1
  <2>1. Ahead' \in Seq(Bytes) /\ Len(Ahead') \in Nat
    <3>1. TypeInv'
      BY <1>1, DrainTypes
    <3>2. rx' \in Seq(Bytes) /\ coming' \in Seq(Bytes)
      BY <3>1 DEF TypeInv, TypeOK
    <3>3. rx' \o coming' \in Seq(Bytes)
      BY <3>2, ConcatProperties
    <3> QED
      BY <3>3, LenProperties DEF Ahead
  <2>2. Ahead \in Seq(Bytes) /\ Len(Ahead) \in Nat
    BY <1>1, AheadFacts
  <2> DEFINE a == Len(Ahead)
             a1 == Len(Ahead')
  <2>3. a1 \in Nat /\ a \in Nat /\ a1 = a - 1
    BY <1>4, <2>1, <2>2
  <2> HIDE DEF a, a1
  <2>4. a >= 1
    BY <2>3
  <2> QED
    BY <2>1, <2>2, <2>4 DEF a
<1>6. /\ NoQueryIn(Ahead) => NoQueryIn(Ahead')
      /\ OneQueryIn(Ahead, 1) => NoQueryIn(Ahead')
      /\ \A k : k # 1 /\ OneQueryIn(Ahead, k) => OneQueryIn(Ahead', k - 1)
  BY <1>4, <1>5, QueryTaken
<1>7. NoQueryIn(Ahead) => Head(rx) # QueryLast
  <2>1. 1 \in 1..Len(Ahead)
    BY <1>5
  <2> QED
    BY <1>4, <2>1 DEF NoQueryIn
<1>8. waited \in Nat /\ \A w \in Nat : Most(gap, w) \in Nat
  BY <1>1, MostFacts, TypeFacts
<1>9. NoQueryIn(Ahead)' <=> NoQueryIn(Ahead')
  BY DEF NoQueryIn, QueryLast
<1>10. \A k : OneQueryIn(Ahead, k)' <=> OneQueryIn(Ahead', k)
  BY DEF OneQueryIn, QueryLast
<1>11. \A q \in Nat : InUpdate(q) => InUpdate(q)'
  <2> SUFFICES ASSUME NEW q \in Nat, InUpdate(q) PROVE InUpdate(q)'
    OBVIOUS
  <2>1. PICK w \in Nat, u \in Updates : n <= q + Most(gap, w) /\ w + working <= u
    BY DEF InUpdate
  <2> DEFINE m == Most(gap, w)
  <2>2. m \in Nat /\ n <= q + m
    BY <1>8, <2>1
  <2> HIDE DEF n, n1, m
  <2>3. n1 <= q + m
    BY <1>4, <2>2
  <2>4. \E v \in Nat, u1 \in Updates : Len(rx') <= q + Most(gap', v) /\ v + working' <= u1
    BY <1>2, <2>1, <2>3 DEF n1, m
  <2> QED
    BY <2>4 DEF InUpdate, Most, Updates
<1> HIDE DEF n, n1
<1>12. Quiet' => InUpdate(0)'
  <2> SUFFICES ASSUME Quiet' PROVE InUpdate(0)'
    OBVIOUS
  <2>1. toSend' = 0 /\ tx = <<>> /\ NoQueryIn(Ahead')
    BY <1>2, <1>9 DEF Quiet
  <2>2. ~Answering
    BY <1>2, <2>1 DEF Answering, Left
  <2>3. ASSUME NEW k \in Nat, AskedAt(k) PROVE FALSE
    <3>1. k = 1
      BY <1>6, <2>1, <2>3, OneQuery, Apart
    <3>2. Head(rx) = QueryLast
      BY <1>4, <1>5, <2>3, <3>1 DEF AskedAt, OneQueryIn
    <3> QED
      BY <1>3, <2>1, <3>2, NumberFacts
  <2>4. Quiet
    BY <1>1, <2>2, <2>3 DEF SenderInv, Asked
  <2> QED
    BY <1>11, <2>4 DEF LoadInv
<1>13. Answering' => (toSend' = 0 /\ InUpdate(0)') \/ (working' = 0 /\ InReply')
  <2> SUFFICES ASSUME Answering' PROVE (toSend' = 0 /\ InUpdate(0)') \/ (working' = 0 /\ InReply')
    OBVIOUS
  <2>1. awaiting = 1 /\ NoQueryIn(Ahead')
    BY <1>2, <1>9 DEF Answering
  <2>2. CASE Answering
    <3>1. toSend' = 0
      BY <1>2, <1>3, <1>7, <2>2, Apart
    <3>2. CASE InUpdate(0)
      BY <1>11, <3>1, <3>2
    <3>3. CASE InReply
      <4>1. PICK w \in Nat, u \in Updates : n <= Most(gap, w) /\ w + 1 <= u + Lateness
        BY <3>3 DEF InReply, n
      <4> DEFINE m == Most(gap, w)
      <4>2. m \in Nat /\ n <= m
        BY <1>8, <4>1
      <4> HIDE DEF m
      <4>3. n1 <= m
        BY <1>4, <4>2
      <4>4. \E v \in Nat, u1 \in Updates : Len(rx') <= Most(gap', v) /\ v + 1 <= u1 + Lateness
        BY <1>2, <4>1, <4>3 DEF m, n1
      <4>5. ~(toSend' > 0)
        BY <3>1
      <4>6. InReply'
        BY <4>4, <4>5 DEF InReply, Most, Updates, Lateness
      <4> QED
        BY <1>2, <4>6
    <3> QED
      BY <2>2, <3>2, <3>3 DEF LoadInv
  <2>3. CASE Asked
    <3>1. PICK k \in Nat : AskedAt(k)
      BY <2>3 DEF Asked
    <3>2. OneQueryIn(Ahead, k) /\ Left = 0 /\ tx = <<>>
      BY <3>1, Apart DEF AskedAt
    <3>3. k = 1
      BY <1>6, <2>1, <3>2, OneQuery
    <3>4. k <= n /\ BehindQuery(k)
      <4>1. k <= n
        BY <1>4, <3>3
      <4> QED
        BY <3>1, <4>1 DEF LoadInv, n
    <3>5. PICK w \in Nat, u \in Updates : n <= k + Most(gap, w) /\ w + working + 1 <= u
      BY <3>4 DEF BehindQuery, n
    <3>6. toSend' = ReplySize /\ Left' = ReplySize
      <4>1. Head(rx) = QueryLast
        BY <1>4, <1>5, <3>2, <3>3 DEF OneQueryIn
      <4>2. Len(tx') = 0
        BY <1>2, <3>2
      <4> QED
        BY <1>3, <4>1, <4>2, NumberFacts DEF Left
    <3> DEFINE m == Most(gap, w)
    <3>7. m \in Nat /\ u \in Nat /\ n <= k + m
      BY <1>8, <3>5, NumberFacts DEF Updates
    <3> HIDE DEF m
    <3>8. n1 <= m
      BY <1>4, <3>3, <3>7
    <3>9. w + 1 <= u + Lateness /\ w + ReplySize + 1 <= u + ReplySize
      BY <1>2, <3>5, <3>7, PacedFacts, NumberFacts
    <3>10. \E v \in Nat, u1 \in Updates :
             /\ Len(rx') <= Most(gap', v) /\ v + 1 <= u1 + Lateness
             /\ v + Left' + 1 <= u1 + ReplySize
      BY <1>2, <3>6, <3>8, <3>9 DEF m, n1
    <3>11. InReply'
      BY <3>10 DEF InReply, Most, Updates, Lateness
    <3> QED
      BY <1>2, <3>11
  <2>4. ~Quiet
    <3> SUFFICES ASSUME Quiet PROVE FALSE
      OBVIOUS
    <3>1. toSend' = 0 /\ tx' = <<>>
      BY <1>2, <1>3, <1>7 DEF Quiet
    <3> QED
      BY <3>1 DEF Answering, Left
  <2> QED
    BY <1>1, <2>2, <2>3, <2>4 DEF SenderInv
<1>14. ASSUME NEW j \in Nat, AskedAt(j)'
       PROVE  /\ j > n1 => InUpdate(waited)'
              /\ j <= n1 => InUpdate(Size["query"])' /\ BehindQuery(j)'
  <2>1. awaiting = 1 /\ OneQueryIn(Ahead', j)
    BY <1>2, <1>10, <1>14 DEF AskedAt
  <2>2. ~Answering /\ ~Quiet
    BY <1>6, <2>1, OneQuery, Apart
  <2>3. PICK k \in Nat : AskedAt(k)
    BY <1>1, <2>1, <2>2, Apart DEF SenderInv, Asked
  <2>4. OneQueryIn(Ahead, k) /\ k # 1
    BY <1>6, <2>1, <2>3, OneQuery, Apart
  <2>5. j = k - 1
    BY <1>6, <2>1, <2>4, OneQuery
  <2>6. /\ k > n => InUpdate(waited)
        /\ k <= n => InUpdate(Size["query"]) /\ BehindQuery(k)
    BY <2>3 DEF LoadInv, n
  <2>7. (j > n1 <=> k > n) /\ (j <= n1 <=> k <= n)
    BY <1>4, <2>5
  <2>8. InUpdate(waited) => InUpdate(waited)'
    <3>1. PICK v \in Nat : v = waited
      BY <1>8
    <3>2. InUpdate(waited) => InUpdate(v)'
      BY <1>11, <3>1
    <3> QED
      BY <1>2, <3>1, <3>2 DEF InUpdate
  <2>9. InUpdate(Size["query"]) => InUpdate(Size["query"])'
    BY <1>11, PacedFacts
  <2>10. ASSUME BehindQuery(k) PROVE BehindQuery(j)'
    <3>1. PICK w \in Nat, u \in Updates : n <= k + Most(gap, w) /\ w + working + 1 <= u
      BY <2>10 DEF BehindQuery, n
    <3> DEFINE m == Most(gap, w)
    <3>2. m \in Nat /\ n <= k + m
      BY <1>8, <3>1
    <3> HIDE DEF m
    <3>3. n1 <= j + m
      BY <1>4, <2>5, <3>2
    <3>4. \E v \in Nat, u1 \in Updates : Len(rx') <= j + Most(gap', v) /\ v + working' + 1 <= u1
      BY <1>2, <3>1, <3>3 DEF m, n1
    <3> QED
      BY <3>4 DEF BehindQuery, Most, Updates
  <2> QED
    BY <2>6, <2>7, <2>8, <2>9, <2>10
<1> QED
  BY <1>12, <1>13, <1>14 DEF LoadInv, n1

LEMMA ElapseLoad ==
  ASSUME Paced, QueryInv, ComingInv, LoadInv, Size["command"] <= CommandGap, Elapse, ~lost'
  PROVE  LoadInv'
<1> DEFINE n == Len(rx)
           n1 == Len(rx')
           l == Len(tx)
           l1 == Len(tx')
           sq == Size["query"]
<1>1. TypeInv /\ SenderInv /\ TimeInv /\ gap \in 0..CommandGap
  BY DEF QueryInv, TypeInv, TypeOK
<1>2. UNCHANGED toSend
  BY DEF Elapse
<1>3. /\ l \in Nat /\ n \in Nat /\ toSend \in Nat /\ working \in Nat
      /\ awaiting \in Nat /\ waited \in Nat /\ waited <= Patience
      /\ tx = <<>> <=> l = 0
  BY <1>1, TypeFacts, AheadFacts
<1>4. /\ Ahead' = Ahead
      /\ n1 = IF coming = <<>> THEN n ELSE n + 1
  BY <1>1, AheadElapse
<1>5. working' = IF working >= 1 THEN working - 1 ELSE 0
  <2>1. working' = Max({working, 1}) - 1
    BY DEF Elapse
  <2> QED
    BY <1>3, <2>1, MaxFacts
<1>6. \A k \in Nat : OneQueryIn(Ahead, k)' <=> OneQueryIn(Ahead, k)
  BY <1>4 DEF OneQueryIn, QueryLast
<1>7. /\ toSend = 0 => working > 0 \/ rx = <<>>
      /\ toSend > 0 => ~(l < TxDepth) /\ working = 0
  <2>1. working > 0 \/ (toSend > 0 /\ ~(l < TxDepth)) \/ (toSend = 0 /\ rx = <<>>)
    BY DEF Elapse, Waits, Free, Room
  <2>2. working > 0 => toSend = 0
    BY <1>1 DEF TimeInv
  <2> HIDE DEF l
  <2> QED
    BY <1>3, <2>1, <2>2
<1>8. rx = <<>> => n = 0
  OBVIOUS
<1>9. tx = <<>> => tx' = <<>> /\ awaiting' = awaiting
  BY DEF Elapse
<1>10. tx # <<>> => l1 = l - 1 /\ awaiting' = (IF Head(tx) THEN Max({awaiting, 1}) - 1 ELSE awaiting)
  <2>1. tx # <<>> => tx' = Tail(tx) /\ awaiting' = (IF Head(tx) THEN Max({awaiting, 1}) - 1 ELSE awaiting)
    BY DEF Elapse
  <2>2. tx # <<>> => Len(Tail(tx)) = l - 1
    BY <1>1, TypeFacts, HeadTailProperties
  <2> QED
    BY <2>1, <2>2
\* An empty FIFO at rest starts the account afresh.
<1>11. ASSUME rx = <<>>, working = 0 PROVE InUpdate(0)
  <2>1. Most(gap, 0) \in Nat
    BY <1>1, MostFacts
  <2> DEFINE m == Most(gap, 0)
  <2>2. m \in Nat /\ n = 0
    BY <1>8, <1>11, <2>1
  <2> HIDE DEF m, n
  <2>3. n <= 0 + m /\ 0 + 0 <= 1
    BY <2>2
  <2>4. \E w \in Nat, u \in Updates : Len(rx) <= 0 + Most(gap, w) /\ w + working <= u
    BY <1>11, <2>3 DEF Updates, m, n
  <2> QED
    BY <2>4 DEF InUpdate
<1>12. (Quiet \/ Answering) /\ coming # <<>> => gap < Size["command"]
  BY <1>1, OnlyCommands DEF Quiet, Answering
<1>13. ASSUME Quiet \/ Answering, toSend = 0 PROVE InUpdate(0)'
  <2>1. working > 0 \/ rx = <<>>
    BY <1>7, <1>13
  <2>2. InUpdate(0)
    BY <1>3, <1>11, <1>13, <2>1 DEF LoadInv
  <2> QED
    BY <1>1, <1>12, <1>13, <2>1, <2>2, UpdateElapse
<1> HIDE DEF n, n1, l, l1, sq
<1>14. ASSUME Quiet' PROVE InUpdate(0)'
  <2>1. toSend = 0 /\ NoQueryIn(Ahead)
    BY <1>2, <1>4, <1>14 DEF Quiet, NoQueryIn, QueryLast
  <2>2. Quiet \/ Answering
    <3> SUFFICES ASSUME NEW k \in Nat, AskedAt(k) PROVE FALSE
      BY <1>1 DEF SenderInv, Asked
    <3> QED
      BY <2>1, OneQuery, Apart
  <2> QED
    BY <1>13, <2>1, <2>2
<1>15. ASSUME Answering' PROVE (toSend' = 0 /\ InUpdate(0)') \/ (working' = 0 /\ InReply')
  <2>1. Answering
    <3>1. Left' > 0 /\ Left' = toSend' + l1
      BY <1>15 DEF Answering, Left, l1
    <3>2. ~Quiet
      <4> SUFFICES ASSUME Quiet PROVE FALSE
        OBVIOUS
      <4>1. toSend' = 0 /\ l1 = 0
        BY <1>2, <1>9 DEF Quiet, l1
      <4> QED
        BY <3>1, <4>1
    <3>3. ASSUME NEW k \in Nat, AskedAt(k) PROVE FALSE
      <4>1. tx = <<>> /\ toSend = 0
        BY <3>3 DEF AskedAt
      <4>2. l1 = 0
        BY <1>9, <4>1 DEF l1
      <4> QED
        BY <1>2, <3>1, <4>1, <4>2
    <3> QED
      BY <1>1, <3>2, <3>3 DEF SenderInv, Asked
  <2>2. CASE toSend = 0
    BY <1>2, <1>13, <2>1, <2>2
  <2>3. CASE toSend > 0
    <3>1. working = 0 /\ ~(l < TxDepth) /\ InReply
      BY <1>7, <2>1, <2>3 DEF LoadInv
    <3>2. PICK w \in Nat, u \in Updates :
            Len(rx) <= Most(gap, w) /\ w + 1 <= u + Lateness /\ w + Left + 1 <= u + ReplySize
      BY <2>3, <3>1 DEF InReply
    <3>3. u \in Nat
      BY NumberFacts DEF Updates
    <3>4. TxDepth \in Nat \ {0}
      BY NumberFacts
    <3>5. l >= 1 /\ tx # <<>>
      BY <1>3, <3>1, <3>4
    <3>6. Left = toSend + l /\ Left' = toSend + l1 /\ l1 = l - 1
      BY <1>2, <1>10, <3>5 DEF Left, l, l1
    <3> DEFINE r == Left
               r1 == Left'
    <3>7. r = toSend + l /\ r1 = r - 1 /\ r \in Nat
      BY <1>3, <3>5, <3>6
    <3> HIDE DEF r, r1
    <3>8. w + 2 <= u + Lateness
      BY <1>3, <2>3, <3>1, <3>2, <3>3, <3>7, PacedFacts, NumberFacts DEF r
    <3>9. Len(rx') <= Most(gap', w + 1)
      <4>1. Len(rx) <= 0 + Most(gap, w)
        <5> DEFINE m == Most(gap, w)
        <5>1. m \in Nat /\ n <= m
          BY <1>1, <3>2, MostFacts DEF n
        <5> HIDE DEF m
        <5>2. n <= 0 + m
          BY <1>3, <5>1
        <5> QED
          BY <5>2 DEF m, n
      <4>2. Len(rx') <= 0 + Most(gap', w + 1)
        BY <1>1, <1>12, <2>1, <4>1, LoadElapse
      <4>3. Most(gap', w + 1) \in Nat
        <5>1. gap' \in 0..CommandGap
          BY <1>1, ElapseTypes DEF TypeInv, TypeOK
        <5>2. ASSUME NEW a \in 0..CommandGap, NEW v \in Nat PROVE Most(a, v) \in Nat
          BY MostFacts
        <5>3. w + 1 \in Nat
          OBVIOUS
        <5> QED
          BY <5>1, <5>2, <5>3
      <4> DEFINE m == Most(gap', w + 1)
      <4> HIDE DEF m
      <4>4. n1 <= m
        BY <4>2, <4>3 DEF m, n1
      <4> QED
        BY <4>4 DEF m, n1
    <3>10. PICK v \in Nat : v = w + 1
      OBVIOUS
    <3>11. /\ Len(rx') <= Most(gap', v) /\ v + 1 <= u + Lateness
           /\ v + Left' + 1 <= u + ReplySize
      <4>1. v + 1 <= u + Lateness
        BY <3>8, <3>10, <3>3, PacedFacts
      <4>2. v + r1 + 1 <= u + ReplySize
        BY <3>2, <3>3, <3>7, <3>10, NumberFacts DEF r
      <4> QED
        BY <3>9, <3>10, <4>1, <4>2 DEF r1
    <3>12. InReply'
      BY <3>11 DEF InReply, Most, Updates, Lateness
    <3>13. working' = 0
      BY <1>5, <3>1
    <3> QED
      BY <3>12, <3>13
  <2> QED
    BY <1>3, <2>2, <2>3
<1>16. ASSUME NEW k \in Nat, AskedAt(k)'
       PROVE  /\ k > n1 => InUpdate(waited)'
              /\ k <= n1 => InUpdate(Size["query"])' /\ BehindQuery(k)'
  <2>1. OneQueryIn(Ahead, k)
    BY <1>6, <1>16 DEF AskedAt
  <2>2. AskedAt(k)
    <3>1. ~Quiet /\ ~Answering
      BY <2>1, OneQuery DEF Quiet, Answering
    <3>2. PICK j \in Nat : AskedAt(j)
      BY <1>1, <3>1 DEF SenderInv, Asked
    <3>3. j = k
      BY <2>1, <3>2, OneQuery, Apart
    <3> QED
      BY <3>2, <3>3
  <2>3. /\ toSend = 0 /\ tx = <<>>
        /\ k > n => waited + (k - n) = sq /\ InUpdate(waited)
        /\ k <= n => InUpdate(sq) /\ BehindQuery(k)
    BY <2>2 DEF AskedAt, LoadInv, n, sq
  <2>4. working > 0 \/ rx = <<>>
    BY <1>7, <2>3
  <2>5. sq \in Nat \ {0} /\ sq <= Patience /\ Patience \in Nat
    BY PacedFacts, NumberFacts DEF sq
  <2>6. CASE k > n
    <3>1. waited' = waited + 1
      <4>1. waited < Patience
        BY <1>3, <2>3, <2>5, <2>6
      <4>2. waited' = Min({waited + 1, Patience})
        BY <1>9, <2>3 DEF Elapse
      <4> QED
        BY <1>3, <2>5, <4>1, <4>2, MinFacts
    <3>2. PICK v \in Nat : v = waited + 1
      BY <1>3
    <3>3. InUpdate(v)'
      BY <1>1, <1>3, <2>3, <2>4, <2>6, <3>2, UpdateElapse
    <3>4. InUpdate(waited)'
      BY <3>1, <3>2, <3>3 DEF InUpdate
    <3>5. ASSUME k <= n1 PROVE InUpdate(Size["query"])' /\ BehindQuery(k)'
      <4>1. k = n1
        BY <1>3, <1>4, <2>6, <3>5
      <4>2. v = sq
        BY <1>3, <1>4, <2>3, <2>5, <2>6, <3>2, <4>1
      <4>3. InUpdate(Size["query"])'
        BY <3>3, <4>2 DEF sq
      <4>4. \E u \in Updates : working' + 1 <= u
        <5>1. CASE working = 0
          BY <1>5, <5>1 DEF Updates
        <5>2. CASE working # 0
          <6>1. PICK u \in UpdateTimes : working \in 0..u
            BY <1>1, <5>2 DEF TypeInv, TypeOK
          <6>2. working' + 1 = working
            BY <1>3, <1>5, <5>2
          <6>3. working <= u
            BY <6>1, NumberFacts
          <6> QED
            BY <6>2, <6>3 DEF Updates
        <5> QED
          BY <5>1, <5>2
      <4>5. gap' \in 0..CommandGap
        BY <1>1, ElapseTypes DEF TypeInv, TypeOK
      <4>6. Len(rx') <= k + Most(gap', 0)
        <5> DEFINE m == Most(gap', 0)
        <5>1. m \in Nat
          BY <4>5, MostFacts
        <5> HIDE DEF m
        <5>2. n1 <= k + m
          BY <4>1, <5>1
        <5> QED
          BY <5>2 DEF m, n1
      <4>7. PICK u \in Updates : working' + 1 <= u
        BY <4>4
      <4>8. 0 + working' + 1 <= u
        <5> DEFINE left == working'
        <5>1. left \in Nat /\ left + 1 <= u
          BY <1>3, <1>5, <4>7
        <5> HIDE DEF left
        <5>2. 0 + left + 1 <= u
          BY <5>1
        <5> QED
          BY <5>2 DEF left
      <4>9. BehindQuery(k)'
        BY <4>6, <4>8 DEF BehindQuery, Most, Updates
      <4> QED
        BY <4>3, <4>9
    <3> QED
      BY <3>4, <3>5
  <2>7. CASE ~(k > n)
    <3>1. k <= n /\ ~(k > n1)
      BY <1>3, <1>4, <2>7
    <3>2. coming # <<>> => gap < Size["command"]
      BY <1>1, <2>1, <3>1, OnlyCommands DEF n
    <3>3. InUpdate(Size["query"])'
      BY <1>1, <2>3, <2>4, <2>5, <3>1, <3>2, UpdateElapse DEF sq
    <3>4. working > 0
      <4>1. k >= 1
        BY <1>1, <2>1, AheadFacts DEF OneQueryIn
      <4> QED
        BY <1>3, <1>8, <2>4, <3>1, <4>1
    <3>5. PICK w \in Nat, u \in Updates : Len(rx) <= k + Most(gap, w) /\ w + working + 1 <= u
      BY <2>3, <3>1 DEF BehindQuery
    <3>6. Len(rx') <= k + Most(gap', w + 1)
      BY <1>1, <3>2, <3>5, LoadElapse
    <3>7. PICK v \in Nat : v = w + 1
      OBVIOUS
    <3>8. v + working' + 1 <= u
      <4>1. u \in Nat
        BY NumberFacts DEF Updates
      <4> DEFINE left == working'
      <4>2. left = working - 1
        BY <1>3, <1>5, <3>4
      <4> HIDE DEF left
      <4>3. v + left + 1 <= u
        BY <1>3, <3>4, <3>5, <3>7, <4>1, <4>2
      <4> QED
        BY <4>3 DEF left
    <3>9. BehindQuery(k)'
      BY <3>6, <3>7, <3>8 DEF BehindQuery, Most, Updates
    <3> QED
      BY <3>1, <3>3, <3>9
  <2> QED
    BY <2>6, <2>7
<1> QED
  BY <1>14, <1>15, <1>16 DEF LoadInv, n1

-----------------------------------------------------------------------------
(* The deepest FIFO *)

\* What holds behind it.
Kept == QueryInv /\ StreamInv /\ ComingInv /\ LoadInv /\ ~lost

LEMMA InitKept == Init => Kept
<1> SUFFICES ASSUME Init PROVE Kept
  OBVIOUS
<1>1. rx = <<>> /\ coming = <<>> /\ tx = <<>> /\ toSend = 0 /\ working = 0 /\ lost = FALSE
      /\ awaiting = 0 /\ gap = CommandGap
  BY DEF Init
<1>2. QueryInv /\ StreamInv /\ ComingInv
  BY <1>1, InitQuery, InitStream DEF ComingInv
<1>3. Len(rx) = 0 /\ Most(gap, 0) = 0
  <2>1. Size["command"] \in Nat \ {0} /\ CommandGap \in Nat
    BY ByteFacts, NumberFacts DEF Kinds
  <2>2. Most(gap, 0) = IF 0 <= gap
                       THEN IF gap <= Size["command"] THEN 0
                            ELSE IF gap <= Size["command"] + 0 THEN (Size["command"] + 0) - gap ELSE 0
                       ELSE Most(gap, 0)
    BY <1>1, <2>1 DEF Most
  <2>3. 0 <= gap /\ (gap <= Size["command"] \/ ~(gap <= Size["command"] + 0))
    BY <1>1, <2>1
  <2> QED
    BY <1>1, <2>2, <2>3
<1>4. InUpdate(0)
  <2>1. Len(rx) <= 0 + Most(gap, 0) /\ 0 + working <= 1
    BY <1>1, <1>3
  <2> QED
    BY <2>1 DEF InUpdate, Updates
<1>5. ~Answering /\ \A k \in Nat : ~AskedAt(k)
  BY <1>1 DEF Answering, AskedAt
<1>6. LoadInv
  BY <1>4, <1>5 DEF LoadInv
<1> QED
  BY <1>1, <1>2, <1>6 DEF Kept

LEMMA KeptStep == Paced /\ Deep /\ Bridged /\ Kept /\ [Next]_vars => Kept'
<1> SUFFICES ASSUME Paced, Deep, Bridged, Kept, [Next]_vars PROVE Kept'
  OBVIOUS
<1>1. QueryInv /\ StreamInv /\ ComingInv /\ LoadInv /\ ~lost /\ TypeInv
  BY DEF Kept, QueryInv
<1>2. Size["command"] <= CommandGap
  BY DEF Deep
<1>3. ~lost'
  <2>1. CASE Elapse
    BY <1>1, <2>1, NoneDropped
  <2>2. CASE UNCHANGED vars
    BY <1>1, <2>2 DEF vars
  <2>3. CASE Drain \/ Push \/ Tick \/ GiveUp \/ \E kind \in Kinds : Post(kind)
    BY <1>1, <2>3 DEF Drain, Push, Tick, TickWith, GiveUp, Post
  <2> QED
    BY <2>1, <2>2, <2>3 DEF Next, Loop
<1>4. QueryInv' /\ StreamInv'
  BY <1>1, <1>3, QueryStep, StreamStep
<1>5. ComingInv'
  BY <1>1, <1>2, ComingStep
<1>6. LoadInv'
  <2>1. CASE UNCHANGED vars
    BY <1>1, <2>1 DEF vars, lineVars, parserVars, replyVars, LoadInv, InUpdate, InReply, BehindQuery,
                      Quiet, Answering, AskedAt, Left, Ahead, NoQueryIn, OneQueryIn, QueryLast,
                      Updates, Most, Lateness
  <2>2. CASE Drain
    BY <1>1, <1>2, <2>2, DrainLoad
  <2>3. CASE Push
    BY <1>1, <2>3, PushLoad
  <2>4. CASE Tick
    BY <1>1, <1>2, <2>4, TickLoad
  <2>5. CASE Elapse
    BY <1>1, <1>2, <1>3, <2>5, ElapseLoad
  <2>6. CASE GiveUp
    <3>1. /\ UNCHANGED <<coming, rx, toSend, tx, working, gap>> /\ awaiting' = 0
          /\ Quiet
      BY <1>1, <2>6, GivesUpInVain DEF GiveUp, parserVars, replyVars
    <3>2. InUpdate(0)'
      BY <1>1, <3>1 DEF LoadInv, InUpdate, Most, Updates
    <3>3. ~Answering' /\ \A k \in Nat : ~AskedAt(k)'
      BY <3>1 DEF Answering, AskedAt
    <3> QED
      BY <3>2, <3>3 DEF LoadInv
  <2>7. CASE \E kind \in Kinds : Post(kind)
    BY <1>1, <1>2, <2>7, PostLoad
  <2> QED
    BY <2>1, <2>2, <2>3, <2>4, <2>5, <2>6, <2>7 DEF Next, Loop
<1> QED
  BY <1>3, <1>4, <1>5, <1>6 DEF Kept

\* The FIFO is as deep as it was.
LEMMA SameDepth == [Next]_vars => (Bridged' <=> Bridged)
<1> SUFFICES ASSUME [Next]_vars PROVE rxDepth' = rxDepth
  BY DEF Bridged
<1> QED
  BY DEF Next, Loop, Drain, Push, Tick, TickWith, Elapse, GiveUp, Post, vars

-----------------------------------------------------------------------------
(* A silent line, when bytes are lost *)

CommandByte(i) == [kind |-> "command", at |-> i]

\* What the firmware has of the line: the bytes the parser holds and those in the
\* FIFO.
Taken == reading \o rx

\* The last m bytes of s are the first m of a command.
EndsIn(s, m) == m <= Len(s) /\ \A i \in 1..m : s[(Len(s) - m) + i] = CommandByte(i)

\* A whole command, or what passes for one, ends at the p-th byte of s.
WholeAt(s, p) ==
  /\ Size["command"] <= p /\ p <= Len(s)
  /\ \A i \in 1..Size["command"] : s[(p - Size["command"]) + i] = CommandByte(i)

\* Of a command that has been cut, the first bytes are not the last ones taken.
CutInv ==
  coming # <<>> /\ Head(coming).kind = "command" /\ lost => ~EndsIn(Taken, gap)

\* So what passes for a whole command is one, which has ended the silence.
HeardInv == \A p \in 1..Len(rx) : WholeAt(Taken, Len(reading) + p) => silence <= sinceTick

\* How long ago, at the least, the i-th byte of a command came last.
Age(i) == IF i <= gap THEN gap - i ELSE (CommandGap - i) + gap

\* A FIFO that has been full since a command's i-th byte came has been so for no
\* longer than an update, or a reply, holds the loop up.
StuckInv ==
  /\ toSend > 0 => Left <= ReplySize
  /\ \A i \in 1..Size["command"] :
       Len(rx) = rxDepth /\ rx[Len(rx)] = CommandByte(i) =>
         /\ working > 0 => \E u \in Updates : Age(i) + working + 1 <= u
         /\ toSend > 0 => Age(i) + Left + 1 <= ReplySize

\* The watchdog knows of no less silence than there is.
NoticedInv == standing => silence <= sinceCmd + sinceTick

SilenceInv == CutInv /\ HeardInv /\ StuckInv /\ NoticedInv

HearingInv == QueryInv /\ ComingInv /\ SilenceInv

LEMMA SpacedFacts ==
  ASSUME Spaced
  PROVE  /\ Size["command"] \in Nat \ {0} /\ CommandGap \in Nat /\ Size["command"] <= CommandGap
         /\ Lateness <= CommandGap /\ \A u \in Updates : u \in Nat /\ u <= CommandGap
<1>1. Size["command"] \in Nat \ {0}
  BY ByteFacts DEF Kinds
<1> QED
  BY <1>1, NumberFacts DEF Spaced, Updates

LEMMA BehindEachOther ==
  ASSUME NEW s \in Seq(Bytes), NEW t \in Seq(Bytes)
  PROVE  /\ Len(s) \in Nat /\ Len(t) \in Nat /\ Len(s \o t) = Len(s) + Len(t)
         /\ Len(s \o t) \in Nat
         /\ \A i \in 1..Len(s \o t) : (s \o t)[i] = IF i <= Len(s) THEN s[i] ELSE t[i - Len(s)]
         /\ \A i \in 1..Len(t) : (s \o t)[Len(s) + i] = t[i]
<1> DEFINE a == Len(s)
           b == Len(t)
<1>1. a \in Nat /\ b \in Nat
  BY LenProperties
<1>2. /\ Len(s \o t) = a + b
      /\ \A i \in 1..(a + b) : (s \o t)[i] = IF i <= a THEN s[i] ELSE t[i - a]
  BY <1>1, ConcatProperties
<1> HIDE DEF a, b
<1>3. \A i \in 1..b : (s \o t)[a + i] = t[i]
  <2> SUFFICES ASSUME NEW i \in 1..b PROVE (s \o t)[a + i] = t[i]
    OBVIOUS
  <2>1. a + i \in 1..(a + b) /\ ~(a + i <= a) /\ (a + i) - a = i
    BY <1>1
  <2> QED
    BY <1>2, <2>1
<1> QED
  BY <1>1, <1>2, <1>3 DEF a, b

LEMMA TakenFacts ==
  ASSUME TypeInv
  PROVE  /\ Len(reading) \in Nat /\ Len(rx) \in Nat /\ Len(Taken) = Len(reading) + Len(rx)
         /\ Len(Taken) \in Nat
         /\ \A i \in 1..Len(Taken) :
              Taken[i] = IF i <= Len(reading) THEN reading[i] ELSE rx[i - Len(reading)]
         /\ \A i \in 1..Len(rx) : Taken[Len(reading) + i] = rx[i]
<1>1. reading \in Seq(Bytes) /\ rx \in Seq(Bytes)
  BY DEF TypeInv, TypeOK
<1> QED
  BY <1>1, BehindEachOther DEF Taken

\* A byte that is stored is put behind the others.
LEMMA TakenStored ==
  ASSUME TypeInv, TypeInv', reading' = reading, NEW b \in Bytes, rx' = Append(rx, b)
  PROVE  /\ Len(rx') = Len(rx) + 1 /\ Len(Taken') = Len(Taken) + 1 /\ Taken'[Len(Taken) + 1] = b
         /\ rx'[Len(rx')] = b
         /\ \A i \in 1..Len(Taken) : Taken'[i] = Taken[i]
<1> DEFINE r == Len(reading)
           n == Len(rx)
           n1 == Len(rx')
           t == Len(Taken)
           t1 == Len(Taken')
<1>1. rx \in Seq(Bytes)
  BY DEF TypeInv, TypeOK
<1>2. n1 = n + 1 /\ rx'[n + 1] = b /\ \A i \in 1..n : rx'[i] = rx[i]
  BY <1>1, AppendProperties, LenProperties
<1>3. r \in Nat /\ n \in Nat /\ t = r + n
      /\ \A i \in 1..t : Taken[i] = IF i <= r THEN reading[i] ELSE rx[i - r]
  BY TakenFacts
<1>4. /\ t1 = r + n1
      /\ \A i \in 1..t1 : Taken'[i] = IF i <= r THEN reading[i] ELSE rx'[i - r]
  <2>1. reading \in Seq(Bytes) /\ rx' \in Seq(Bytes)
    BY <1>1, AppendProperties DEF TypeInv, TypeOK
  <2> QED
    BY <2>1, BehindEachOther DEF Taken
<1> HIDE DEF r, n, n1, t, t1
<1>5. t1 = t + 1 /\ t \in Nat
  BY <1>2, <1>3, <1>4
<1>6. Taken'[t + 1] = b
  <2>1. t + 1 \in 1..t1 /\ ~(t + 1 <= r) /\ (t + 1) - r = n + 1
    BY <1>3, <1>5
  <2> QED
    BY <1>2, <1>4, <2>1
<1>7. ASSUME NEW i \in 1..t PROVE Taken'[i] = Taken[i]
  <2>1. i \in 1..t1 /\ (~(i <= r) => i - r \in 1..n)
    BY <1>3, <1>5
  <2> QED
    BY <1>2, <1>3, <1>4, <2>1
<1> QED
  BY <1>2, <1>5, <1>6, <1>7 DEF n, n1, t, t1

\* Draining takes bytes from the front only.
LEMMA TakenDrained ==
  ASSUME TypeInv, TypeInv', Drain
  PROVE  /\ Len(rx) = Len(rx') + 1
         /\ \E d \in Nat :
              /\ Len(Taken) = d + Len(Taken') /\ d + Len(reading') = Len(reading) + 1
              /\ \A i \in 1..Len(Taken') : Taken'[i] = Taken[i + d]
<1> DEFINE b == Head(rx)
           r == Len(reading)
           n == Len(rx)
           n1 == Len(rx')
           t == Len(Taken)
           t1 == Len(Taken')
<1>1. rx # <<>> /\ Feed(b) /\ rx' = Tail(rx) /\ rx \in Seq(Bytes) /\ reading \in Seq(Bytes)
      /\ b \in Bytes
  BY DEF Drain, TypeInv, TypeOK
<1>2. n1 = n - 1 /\ n \in Nat \ {0} /\ \A i \in 1..n1 : rx'[i] = rx[i + 1]
  BY <1>1, HeadTailProperties, EmptySeq
<1>3. r \in Nat /\ t = r + n /\ \A i \in 1..n : Taken[r + i] = rx[i]
  BY TakenFacts
<1>4. t1 = Len(reading') + n1 /\ \A i \in 1..n1 : Taken'[Len(reading') + i] = rx'[i]
  <2>1. reading' \in Seq(Bytes) /\ rx' \in Seq(Bytes)
    BY DEF TypeInv, TypeOK
  <2> QED
    BY <2>1, BehindEachOther DEF Taken
<1>5. CASE reading' = <<>>
  <2>1. Len(reading') = 0
    BY <1>5
  <2> HIDE DEF n, n1, t, t1, r
  <2>2. r + 1 \in Nat /\ t = (r + 1) + t1 /\ t1 = n1 /\ (r + 1) + 0 = r + 1
    BY <1>2, <1>3, <1>4, <2>1
  <2>3. ASSUME NEW i \in 1..t1 PROVE Taken'[i] = Taken[i + (r + 1)]
    <3>1. i \in 1..n1 /\ i + 1 \in 1..n /\ 0 + i = i /\ r + (i + 1) = i + (r + 1)
      BY <1>2, <1>3, <2>2
    <3>2. Taken'[i] = rx'[i] /\ rx'[i] = rx[i + 1] /\ Taken[r + (i + 1)] = rx[i + 1]
      BY <1>2, <1>3, <1>4, <2>1, <3>1
    <3> QED
      BY <3>1, <3>2
  <2>4. PICK d \in Nat : d = r + 1
    BY <2>2
  <2>5. /\ n = n1 + 1 /\ t = d + t1 /\ d + Len(reading') = r + 1
        /\ \A i \in 1..t1 : Taken'[i] = Taken[i + d]
    BY <1>2, <1>3, <2>1, <2>2, <2>3, <2>4
  <2> QED
    BY <2>5 DEF n, n1, t, t1, r
<1>6. CASE reading' = Append(reading, b)
  <2>1. Taken' = Taken
    <3>1. reading \o rx = Append(reading, b) \o Tail(rx)
      BY <1>1, HeadPassed
    <3> QED
      BY <1>1, <1>6, <3>1 DEF Taken
  <2>2. Len(reading') = r + 1
    BY <1>1, <1>6, AppendProperties
  <2> HIDE DEF n, n1, r
  <2>3. n = n1 + 1
    BY <1>2
  <2>4. t \in Nat /\ t1 = t
    BY <1>3, <2>1, TakenFacts
  <2> HIDE DEF t, t1
  <2>5. PICK d \in Nat : d = 0
    OBVIOUS
  <2>6. t = d + t1 /\ d + Len(reading') = r + 1 /\ \A i \in 1..t1 : i + d = i
    BY <1>3, <2>2, <2>4, <2>5
  <2>7. \A i \in 1..t1 : Taken'[i] = Taken[i + d]
    BY <2>1, <2>6
  <2> QED
    BY <2>3, <2>6, <2>7 DEF n, n1, t, t1, r
<1> QED
  BY <1>1, <1>5, <1>6 DEF Feed

\* The watchdog is fed by what passes for a whole command, and by nothing else.
LEMMA DrainFeeds ==
  ASSUME TypeInv, Drain, sinceCmd' # sinceCmd
  PROVE  sinceCmd' = 0 /\ WholeAt(Taken, Len(reading) + 1)
<1> DEFINE b == Head(rx)
           r == Len(reading)
           taken == Append(reading, b)
           s == Size["command"]
<1>1. /\ Feed(b) /\ rx # <<>> /\ rx \in Seq(Bytes) /\ reading \in Seq(Bytes) /\ b \in Bytes
      /\ b = rx[1]
  BY DEF Drain, TypeInv, TypeOK
<1>2. r \in Nat /\ taken \in Seq(Bytes) /\ Len(taken) = r + 1 /\ taken[r + 1] = b
      /\ \A i \in 1..r : taken[i] = reading[i]
  BY <1>1, LenProperties, AppendProperties
<1>3. Len(taken) = Size[Head(taken).kind] /\ Intact(taken) /\ Dispatch(Head(taken).kind)
  BY <1>1 DEF Feed
<1>4. Head(taken).kind = "command" /\ sinceCmd' = 0
  BY <1>3 DEF Dispatch, Pet
<1>5. r + 1 = s
  BY <1>2, <1>3, <1>4
<1>6. \A i \in 1..(r + 1) : taken[i] = CommandByte(i)
  <2>1. DOMAIN taken = 1..(r + 1)
    BY <1>2, LenProperties
  <2> QED
    BY <1>3, <1>4, <2>1 DEF Intact, CommandByte
<1>7. /\ Len(Taken) = r + Len(rx) /\ Len(rx) \in Nat \ {0}
      /\ \A i \in 1..Len(Taken) : Taken[i] = IF i <= r THEN reading[i] ELSE rx[i - r]
  BY <1>1, TakenFacts, EmptySeq
<1> DEFINE n == Len(rx)
           t == Len(Taken)
<1> HIDE DEF b, r, taken, s, n, t
<1>8. r + 1 <= t
  BY <1>2, <1>7 DEF n, t
<1>9. ASSUME NEW i \in 1..s PROVE Taken[((r + 1) - s) + i] = CommandByte(i)
  <2>1. ((r + 1) - s) + i = i /\ i \in 1..t /\ i \in 1..(r + 1)
    BY <1>2, <1>5, <1>8, <1>7 DEF n, t
  <2>2. Taken[i] = taken[i]
    <3>1. CASE i <= r
      <4>1. i \in 1..r
        BY <1>2, <2>1, <3>1
      <4> QED
        BY <1>2, <1>7, <2>1, <3>1, <4>1 DEF t
    <3>2. CASE ~(i <= r)
      <4>1. i = r + 1 /\ i - r = 1
        BY <1>2, <2>1, <3>2
      <4> QED
        BY <1>1, <1>2, <1>7, <2>1, <3>2, <4>1 DEF t
    <3> QED
      BY <3>1, <3>2
  <2> QED
    BY <1>6, <2>1, <2>2
<1> QED
  BY <1>2, <1>4, <1>5, <1>8, <1>9 DEF WholeAt, r, s, t

\* The next byte on the line, when it is a command's.
LEMMA NextByte ==
  ASSUME TypeInv, ComingInv, coming # <<>>, Head(coming).kind = "command"
  PROVE  Head(coming) = CommandByte(gap + 1) /\ gap \in Nat /\ gap < Size["command"]
<1> DEFINE l == Len(coming)
<1>1. coming \in Seq(Bytes) /\ gap \in Nat /\ l \in Nat \ {0} /\ Head(coming) = coming[1]
  BY NumberFacts, EmptySeq DEF TypeInv, TypeOK
<1>2. PICK kind \in Kinds :
        /\ \A i \in 1..l : coming[i] = [kind |-> kind, at |-> (Size[kind] - l) + i]
        /\ kind = "command" => gap + l = Size["command"]
  BY DEF ComingInv
<1>3. coming[1] = [kind |-> kind, at |-> (Size[kind] - l) + 1]
  BY <1>1, <1>2
<1>4. kind = "command"
  BY <1>1, <1>3
<1> DEFINE s == Size["command"]
<1>5. s \in Nat /\ gap + l = s
  BY <1>2, <1>4, ByteFacts
<1> HIDE DEF l, s
<1>6. (s - l) + 1 = gap + 1 /\ gap < s
  BY <1>1, <1>5
<1> QED
  BY <1>1, <1>3, <1>4, <1>6 DEF CommandByte, s

LEMMA InitHearing == Init => HearingInv
<1> SUFFICES ASSUME Init PROVE HearingInv
  OBVIOUS
<1>1. /\ rx = <<>> /\ coming = <<>> /\ toSend = 0 /\ silence = 0 /\ sinceTick = 0 /\ sinceCmd = 0
      /\ rxDepth \in RxDepths
  BY DEF Init
<1>2. Len(rx) = 0 /\ Len(rx) # rxDepth
  BY <1>1, LoopAssumption
<1>3. CutInv /\ HeardInv /\ StuckInv /\ NoticedInv
  BY <1>1, <1>2 DEF CutInv, HeardInv, StuckInv, NoticedInv
<1> QED
  BY <1>1, <1>3, InitQuery DEF HearingInv, SilenceInv, ComingInv

\* Steps that leave the line, the FIFOs, the clocks and the watchdog alone.
LEMMA SilenceKept ==
  ASSUME SilenceInv,
         UNCHANGED <<coming, lost, gap, reading, rx, rxDepth, working, sinceTick, standing, sinceCmd,
                     silence>>,
         toSend' > 0 => toSend > 0 /\ Left' = Left
  PROVE  SilenceInv'
<1>1. CutInv' /\ HeardInv' /\ NoticedInv'
  BY DEF SilenceInv, CutInv, HeardInv, NoticedInv, EndsIn, WholeAt, Taken, CommandByte
<1>2. StuckInv'
  BY DEF SilenceInv, StuckInv, Age, Updates, CommandByte
<1> QED
  BY <1>1, <1>2 DEF SilenceInv

LEMMA PostSilence ==
  ASSUME Spaced, TypeInv, SilenceInv, NEW kind \in Kinds, Post(kind)
  PROVE  SilenceInv'
<1>1. /\ UNCHANGED <<reading, rx, rxDepth, toSend, tx, working, sinceTick, standing, sinceCmd, silence>>
      /\ lost' = FALSE /\ (gap' = gap \/ (gap = CommandGap /\ gap' = 0))
  BY DEF Post, parserVars, replyVars, robotVars
<1>2. CutInv' /\ HeardInv' /\ NoticedInv'
  BY <1>1 DEF SilenceInv, CutInv, HeardInv, NoticedInv, WholeAt, Taken, CommandByte
<1>3. ASSUME NEW i \in 1..Size["command"] PROVE Age(i)' = Age(i)
  <2>1. i \in Nat \ {0} /\ i <= CommandGap /\ CommandGap \in Nat
    BY SpacedFacts
  <2> QED
    BY <1>1, <2>1 DEF Age
<1>4. StuckInv'
  <2>1. Left' = Left
    BY <1>1 DEF Left
  <2> QED
    BY <1>1, <1>3, <2>1 DEF SilenceInv, StuckInv, Updates, CommandByte
<1> QED
  BY <1>2, <1>4 DEF SilenceInv

LEMMA PushSilence ==
  ASSUME TypeInv, SilenceInv, Push
  PROVE  SilenceInv'
<1>1. /\ UNCHANGED <<coming, lost, gap, reading, rx, rxDepth, working, sinceTick, standing, sinceCmd,
                     silence>>
      /\ toSend > 0 /\ toSend' = toSend - 1 /\ tx' = Append(tx, toSend = 1)
  BY DEF Push, lineVars, parserVars, robotVars
<1>2. toSend \in Nat /\ tx \in Seq(BOOLEAN) /\ Len(tx) \in Nat
  BY TypeFacts
<1>3. Len(tx') = Len(tx) + 1
  <2>1. (toSend = 1) \in BOOLEAN
    OBVIOUS
  <2> QED
    BY <1>1, <1>2, <2>1, AppendProperties
<1>4. Left' = Left
  <2> DEFINE l == Len(tx)
             l1 == Len(tx')
  <2>1. Left = toSend + l /\ Left' = toSend' + l1 /\ l \in Nat /\ l1 = l + 1
    BY <1>2, <1>3 DEF Left
  <2> HIDE DEF l, l1
  <2> QED
    BY <1>1, <1>2, <2>1
<1> QED
  BY <1>1, <1>4, SilenceKept

LEMMA TickSilence ==
  ASSUME TypeInv, SilenceInv, Tick
  PROVE  SilenceInv'
<1>1. /\ UNCHANGED <<coming, lost, gap, reading, rx, rxDepth, toSend, tx>> /\ rx = <<>> /\ toSend = 0
      /\ sinceTick' = 0 /\ Watch(sinceTick)
  BY DEF Tick, TickWith, Free, lineVars, parserVars, replyVars
<1>2. Len(rx') = 0 /\ Len(rx') # rxDepth'
  <2>1. rxDepth \in Nat \ {0}
    BY LoopAssumption DEF TypeInv, TypeOK
  <2> QED
    BY <1>1, <2>1
<1>3. CutInv'
  BY <1>1 DEF SilenceInv, CutInv, EndsIn, Taken, CommandByte
<1>4. HeardInv' /\ StuckInv'
  BY <1>1, <1>2 DEF HeardInv, StuckInv
<1>5. sinceCmd \in Nat /\ sinceTick \in Nat /\ silence \in Nat
  BY TypeFacts, NumberFacts DEF TypeInv, TypeOK
<1>6. NoticedInv'
  <2>1. standing => silence <= sinceCmd + sinceTick
    BY DEF SilenceInv, NoticedInv
  <2>2. CASE standing /\ sinceCmd' = sinceCmd + sinceTick /\ UNCHANGED silence
    BY <1>1, <1>5, <2>1, <2>2 DEF NoticedInv
  <2>3. CASE ~standing /\ UNCHANGED <<standing, sinceCmd, silence>>
    BY <2>3 DEF NoticedInv
  <2>4. CASE ~standing /\ sinceCmd' = 0 /\ silence' = 0
    BY <1>1, <2>4 DEF NoticedInv
  <2> QED
    BY <1>1, <2>2, <2>3, <2>4 DEF Watch, Pet, robotVars
<1> QED
  BY <1>3, <1>4, <1>6 DEF SilenceInv

LEMMA DrainSilence ==
  ASSUME QueryInv, TypeInv', SilenceInv, Drain
  PROVE  SilenceInv'
<1>1. /\ UNCHANGED <<coming, lost, gap, rxDepth, tx, working, sinceTick, standing, silence>>
      /\ rx # <<>> /\ toSend = 0 /\ TypeInv
  BY DEF Drain, Free, lineVars, QueryInv
<1> DEFINE r == Len(reading)
           r1 == Len(reading')
           n == Len(rx)
           n1 == Len(rx')
           t == Len(Taken)
           t1 == Len(Taken')
           s == Size["command"]
<1>2. n = n1 + 1
  BY <1>1, TakenDrained
<1>3. PICK d \in Nat : /\ t = d + t1 /\ d + r1 = r + 1
                       /\ \A i \in 1..t1 : Taken'[i] = Taken[i + d]
  BY <1>1, TakenDrained
<1>4. /\ r \in Nat /\ n \in Nat /\ t \in Nat /\ t = r + n /\ r1 \in Nat /\ n1 \in Nat /\ t1 \in Nat
      /\ t1 = r1 + n1
      /\ s \in Nat \ {0} /\ gap \in Nat
  <2>1. reading' \in Seq(Bytes) /\ rx' \in Seq(Bytes)
    BY DEF TypeInv, TypeOK
  <2>2. r1 \in Nat /\ n1 \in Nat /\ t1 \in Nat /\ t1 = r1 + n1
    BY <2>1, BehindEachOther DEF Taken
  <2>3. s \in Nat \ {0}
    BY ByteFacts DEF Kinds
  <2> QED
    BY <1>1, <2>2, <2>3, TakenFacts, NumberFacts DEF TypeInv, TypeOK
<1>5. rxDepth \in Nat /\ n <= rxDepth /\ Len(rx') = n1
  BY <1>1, NumberFacts DEF TypeInv, TypeOK
<1>6. CutInv'
  <2> SUFFICES ASSUME coming # <<>>, Head(coming).kind = "command", lost, EndsIn(Taken', gap)
               PROVE  FALSE
    BY <1>1 DEF CutInv, EndsIn, CommandByte
  <2>1. ~EndsIn(Taken, gap)
    BY DEF SilenceInv, CutInv
  <2>2. gap <= t1 /\ \A i \in 1..gap : Taken'[(t1 - gap) + i] = CommandByte(i)
    BY DEF EndsIn
  <2> HIDE DEF t, t1, r, r1
  <2>3. gap <= t
    BY <1>3, <1>4, <2>2
  <2>4. ASSUME NEW i \in 1..gap PROVE Taken[(t - gap) + i] = CommandByte(i)
    <3>1. (t1 - gap) + i \in 1..t1 /\ ((t1 - gap) + i) + d = (t - gap) + i
      BY <1>3, <1>4, <2>2
    <3> QED
      BY <1>3, <2>2, <3>1
  <2> QED
    BY <2>1, <2>3, <2>4 DEF EndsIn, t
<1>7. HeardInv'
  <2> SUFFICES ASSUME NEW p \in 1..n1, WholeAt(Taken', r1 + p) PROVE silence <= sinceTick
    BY <1>1 DEF HeardInv, WholeAt, CommandByte
  <2>1. /\ s <= r1 + p /\ r1 + p <= t1
        /\ \A i \in 1..s : Taken'[((r1 + p) - s) + i] = CommandByte(i)
    BY DEF WholeAt
  <2> HIDE DEF t, t1, r, r1, n, n1, s
  <2>2. /\ p + 1 \in 1..n /\ s <= r + (p + 1) /\ r + (p + 1) <= t
    BY <1>2, <1>3, <1>4, <2>1
  <2>3. ASSUME NEW i \in 1..s PROVE Taken[((r + (p + 1)) - s) + i] = CommandByte(i)
    <3>1. /\ ((r1 + p) - s) + i \in 1..t1
          /\ (((r1 + p) - s) + i) + d = ((r + (p + 1)) - s) + i
      BY <1>3, <1>4, <2>1
    <3> QED
      BY <1>3, <2>1, <3>1
  <2>4. WholeAt(Taken, r + (p + 1))
    BY <2>2, <2>3 DEF WholeAt, s, t
  <2> QED
    BY <2>2, <2>4 DEF SilenceInv, HeardInv, r, n
<1>8. StuckInv'
  <2>1. Len(rx') # rxDepth'
    BY <1>1, <1>2, <1>4, <1>5
  <2>2. ASSUME toSend' > 0 PROVE Left' <= ReplySize
    <3>1. Head(rx) = QueryLast /\ toSend' = ReplySize
      BY <1>1, <2>2, DrainReplies
    <3>2. ~NoQueryIn(Ahead)
      <4>1. rx \in Seq(Bytes) /\ coming \in Seq(Bytes)
        BY <1>1, TypeFacts
      <4>2. 1 \in 1..Len(rx) /\ Head(rx) = rx[1]
        BY <1>1, <4>1, EmptySeq
      <4>3. 1 \in 1..Len(Ahead) /\ Ahead[1] = rx[1]
        BY <4>1, <4>2, ConcatProperties DEF Ahead
      <4> QED
        BY <3>1, <4>2, <4>3 DEF NoQueryIn
    <3>3. Asked
      BY <3>2 DEF QueryInv, SenderInv, Quiet, Answering
    <3>4. tx = <<>>
      BY <3>3 DEF Asked, AskedAt
    <3>5. Len(tx') = 0
      BY <1>1, <3>4
    <3> QED
      BY <3>1, <3>5, NumberFacts DEF Left
  <2> QED
    BY <2>1, <2>2 DEF StuckInv
<1>9. NoticedInv'
  <2>1. CASE sinceCmd' = sinceCmd
    BY <1>1, <2>1 DEF SilenceInv, NoticedInv
  <2>2. CASE sinceCmd' # sinceCmd
    <3>1. sinceCmd' = 0 /\ WholeAt(Taken, r + 1)
      BY <1>1, <2>2, DrainFeeds
    <3>2. 1 \in 1..n
      BY <1>2, <1>4
    <3>3. silence <= sinceTick
      BY <3>1, <3>2 DEF SilenceInv, HeardInv
    <3>4. sinceTick \in Nat
      BY <1>1, TypeFacts
    <3> QED
      BY <1>1, <3>1, <3>3, <3>4 DEF NoticedInv
  <2> QED
    BY <2>1, <2>2
<1> QED
  BY <1>6, <1>7, <1>8, <1>9 DEF SilenceInv

\* What a byte time does to the clocks and to what holds the loop up.
LEMMA ElapseClocks ==
  ASSUME Paced, QueryInv, Elapse
  PROVE  /\ sinceTick' = sinceTick + 1
         /\ silence' \in Nat /\ silence' <= silence + 1
         /\ gap' = IF gap + 1 <= CommandGap THEN gap + 1 ELSE CommandGap
         /\ working' > 0 => working' = working - 1
         /\ toSend > 0 => working = 0 /\ Len(tx) = TxDepth /\ Left' = Left - 1
         /\ rx # <<>> => working > 0 \/ toSend > 0
<1>1. TypeInv /\ TimeInv /\ SenderInv
  BY DEF QueryInv
<1>2. /\ sinceTick \in Nat /\ working \in Nat /\ toSend \in Nat /\ tx \in Seq(BOOLEAN) /\ Len(tx) \in Nat
      /\ gap \in Nat /\ silence \in Nat /\ Len(tx) <= TxDepth
  BY <1>1, TypeFacts, NumberFacts DEF TypeInv, TypeOK
<1>3. sinceTick' = sinceTick + 1
  <2>1. sinceTick <= Period + Lateness
    BY <1>1, <1>2, PacedFacts, NumberFacts DEF TimeInv
  <2>2. sinceTick + 1 <= MostGap
    BY <1>2, <2>1, NumberFacts DEF Lateness, MostGap
  <2> QED
    BY <1>1, <2>2, ElapseFacts
<1>4. silence' \in Nat /\ silence' <= silence + 1
  BY <1>1, <1>2, ElapseFacts, NumberFacts
<1>5. gap' = IF gap + 1 <= CommandGap THEN gap + 1 ELSE CommandGap
  <2>1. gap' = Min({gap + 1, CommandGap})
    BY DEF Elapse
  <2> QED
    BY <1>2, <2>1, NumberFacts, MinFacts
<1>6. working' > 0 => working' = working - 1
  <2>1. working' = Max({working, 1}) - 1
    BY DEF Elapse
  <2> QED
    BY <1>2, <2>1, MaxFacts
<1>7. ASSUME toSend > 0 PROVE working = 0 /\ Len(tx) = TxDepth /\ Left' = Left - 1
  <2>1. working = 0
    BY <1>1, <1>2, <1>7 DEF TimeInv
  <2>2. ~(Len(tx) < TxDepth)
    <3>1. working > 0 \/ (toSend > 0 /\ ~(Len(tx) < TxDepth)) \/ (toSend = 0 /\ rx = <<>>)
      BY DEF Elapse, Waits, Free, Room
    <3> QED
      BY <1>2, <1>7, <2>1, <3>1
  <2>3. Len(tx) = TxDepth
    BY <1>2, <2>2, NumberFacts
  <2>4. tx # <<>> /\ tx' = Tail(tx) /\ toSend' = toSend
    <3>1. tx # <<>>
      BY <2>3, NumberFacts
    <3> QED
      BY <3>1 DEF Elapse
  <2>5. Len(tx') = Len(tx) - 1
    BY <1>2, <2>4, HeadTailProperties
  <2> DEFINE l == Len(tx)
             l1 == Len(tx')
  <2>6. Left = toSend + l /\ Left' = toSend' + l1 /\ l \in Nat /\ l1 = l - 1
    BY <1>2, <2>5 DEF Left
  <2> HIDE DEF l, l1
  <2>7. Left' = Left - 1
    BY <1>2, <2>4, <2>6
  <2> QED
    BY <2>1, <2>3, <2>7
<1>8. rx # <<>> => working > 0 \/ toSend > 0
  BY DEF Elapse, Waits, Free
<1> QED
  BY <1>3, <1>4, <1>5, <1>6, <1>7, <1>8

\* The next command does not go on where a full FIFO ends: by the time it does,
\* the loop has come round.
LEMMA NotContinued ==
  ASSUME Paced, Spaced, QueryInv, StuckInv, Elapse, Len(rx) = rxDepth, gap < Size["command"],
         rx[Len(rx)] = CommandByte(gap + 1)
  PROVE  FALSE
<1> DEFINE s == Size["command"]
<1>1. /\ working \in Nat /\ toSend \in Nat /\ gap \in Nat /\ Len(rx) \in Nat \ {0}
  BY TypeFacts, LoopAssumption DEF QueryInv, TypeInv, TypeOK
<1>2. s \in Nat \ {0} /\ s <= CommandGap /\ CommandGap \in Nat
  BY SpacedFacts
<1> HIDE DEF s
<1>3. gap + 1 \in 1..s
  BY <1>1, <1>2 DEF s
<1>4. Age(gap + 1) = CommandGap - 1
  BY <1>1, <1>2 DEF Age
<1>5. /\ working > 0 => \E u \in Updates : Age(gap + 1) + working + 1 <= u
      /\ toSend > 0 => Age(gap + 1) + Left + 1 <= ReplySize
  BY <1>3 DEF StuckInv, s
<1>6. working > 0 \/ toSend > 0
  <2>1. rx # <<>>
    BY <1>1
  <2> QED
    BY <2>1, ElapseClocks
<1>7. CASE working > 0
  BY <1>1, <1>2, <1>4, <1>5, <1>7, SpacedFacts
<1>8. CASE toSend > 0
  <2>1. Len(tx) = TxDepth
    BY <1>8, ElapseClocks
  <2>2. Left = toSend + TxDepth
    BY <2>1 DEF Left
  <2> QED
    BY <1>1, <1>2, <1>4, <1>5, <1>8, <2>2, SpacedFacts, NumberFacts DEF Lateness
<1> QED
  BY <1>6, <1>7, <1>8

\* The first bytes of a command are the last ones taken only if it has not been
\* cut: each has been stored behind the one before.
LEMMA ElapseCut ==
  ASSUME Paced, Spaced, QueryInv, TypeInv', ComingInv, CutInv, StuckInv, Elapse
  PROVE  CutInv'
<1> SUFFICES ASSUME coming' # <<>>, Head(coming').kind = "command", lost', EndsIn(Taken', gap')
             PROVE  FALSE
  BY DEF CutInv, EndsIn, CommandByte
<1>1. TypeInv /\ coming \in Seq(Bytes) /\ gap \in Nat
  BY NumberFacts DEF QueryInv, TypeInv, TypeOK
<1>2. coming # <<>> /\ coming' = Tail(coming) /\ Head(coming) \in Bytes /\ reading' = reading
      /\ rxDepth' = rxDepth
  BY <1>1, ElapseFacts
<1>3. Head(coming).kind = "command" /\ gap + 1 < Size["command"]
  <2> DEFINE l == Len(coming)
             l1 == Len(coming')
  <2>1. /\ l \in Nat \ {0} /\ l1 = l - 1 /\ l1 \in Nat \ {0}
        /\ Head(coming) = coming[1] /\ Head(coming') = coming[2]
    <3>1. l \in Nat \ {0} /\ l1 = l - 1 /\ \A i \in 1..l1 : coming'[i] = coming[i + 1]
      BY <1>1, <1>2, HeadTailProperties, EmptySeq
    <3>2. coming' \in Seq(Bytes) /\ l1 \in Nat \ {0} /\ Head(coming') = coming'[1]
      BY <1>1, <1>2, HeadTailProperties, EmptySeq
    <3>3. 1 \in 1..l1
      BY <3>2
    <3> QED
      BY <1>1, <1>2, <3>1, <3>2, <3>3
  <2>2. PICK kind \in Kinds :
          /\ \A i \in 1..l : coming[i] = [kind |-> kind, at |-> (Size[kind] - l) + i]
          /\ kind = "command" => gap + l = Size["command"]
    BY <1>2 DEF ComingInv
  <2> HIDE DEF l, l1
  <2>3. 1 \in 1..l /\ 2 \in 1..l
    BY <2>1
  <2>4. Head(coming).kind = kind /\ Head(coming').kind = kind
    <3>1. coming[1] = [kind |-> kind, at |-> (Size[kind] - l) + 1]
      BY <2>2, <2>3
    <3>2. coming[2] = [kind |-> kind, at |-> (Size[kind] - l) + 2]
      BY <2>2, <2>3
    <3> QED
      BY <2>1, <3>1, <3>2
  <2>5. gap + l = Size["command"] /\ Size["command"] \in Nat
    BY <2>2, <2>4, ByteFacts DEF Kinds
  <2> QED
    BY <1>1, <2>1, <2>4, <2>5
<1>4. Head(coming) = CommandByte(gap + 1)
  BY <1>1, <1>2, <1>3, NextByte
<1>5. gap' = gap + 1
  <2>1. gap' = IF gap + 1 <= CommandGap THEN gap + 1 ELSE CommandGap
    BY ElapseClocks
  <2> DEFINE s == Size["command"]
  <2>2. s \in Nat /\ CommandGap \in Nat /\ s <= CommandGap /\ gap + 1 < s
    BY <1>3, SpacedFacts
  <2> HIDE DEF s
  <2> QED
    BY <1>1, <2>1, <2>2
<1> DEFINE t == Len(Taken)
           t1 == Len(Taken')
           g == gap
           h == gap + 1
<1>6. g \in Nat /\ h = g + 1 /\ t \in Nat
  BY <1>1, TakenFacts
<1>7. h <= t1 /\ \A i \in 1..h : Taken'[(t1 - h) + i] = CommandByte(i)
  BY <1>5 DEF EndsIn
<1> HIDE DEF t, t1, h, g
\* The byte was stored: the command had been cut before.
<1>8. CASE Len(rx) < rxDepth
  <2>1. rx' = Append(rx, Head(coming)) /\ lost
    BY <1>2, <1>8 DEF Elapse
  <2>2. t1 = t + 1 /\ \A i \in 1..t : Taken'[i] = Taken[i]
    BY <1>1, <1>2, <2>1, TakenStored DEF t, t1
  <2>3. ~EndsIn(Taken, gap)
    BY <1>2, <1>3, <2>1 DEF CutInv
  <2>4. ASSUME NEW i \in 1..g PROVE Taken[(t - g) + i] = CommandByte(i)
    <3>1. (t - g) + i \in 1..t /\ i \in 1..h /\ (t1 - h) + i = (t - g) + i
      BY <1>6, <1>7, <2>2
    <3> QED
      BY <1>7, <2>2, <3>1
  <2>5. g <= t
    BY <1>6, <1>7, <2>2
  <2> QED
    BY <2>3, <2>4, <2>5 DEF EndsIn, g, t
\* It was dropped: then the last byte of the full FIFO is the one it would follow.
<1>9. CASE ~(Len(rx) < rxDepth)
  <2>1. rx' = rx /\ Taken' = Taken
    BY <1>2, <1>9 DEF Elapse, Taken
  <2>2. Len(rx) \in Nat \ {0} /\ Len(rx) = rxDepth
    <3>1. rxDepth \in RxDepths /\ Len(rx) <= rxDepth /\ Len(rx) \in Nat
      BY <1>1, TakenFacts DEF TypeInv, TypeOK
    <3>2. rxDepth \in Nat \ {0}
      BY <3>1, LoopAssumption
    <3> QED
      BY <1>9, <3>1, <3>2
  <2>3. Taken[t] = CommandByte(h)
    <3>1. t1 = t /\ h \in 1..h /\ (t - h) + h = t
      BY <1>6, <2>1 DEF t, t1
    <3> QED
      BY <1>7, <2>1, <3>1
  <2>4. Taken[t] = rx[Len(rx)]
    <3> DEFINE n == Len(rx)
    <3>1. t = Len(reading) + n /\ \A i \in 1..n : Taken[Len(reading) + i] = rx[i]
      BY <1>1, TakenFacts DEF t
    <3>2. n \in 1..n
      BY <2>2
    <3> QED
      BY <3>1, <3>2
  <2>5. gap < Size["command"]
    BY <1>1, <1>2, <1>3, NextByte
  <2> QED
    BY <2>2, <2>3, <2>4, <2>5, NotContinued DEF h
<1> QED
  BY <1>8, <1>9

\* A command that ends the row of its bytes is a whole one, and ends the silence.
LEMMA ElapseHeard ==
  ASSUME Paced, QueryInv, TypeInv', ComingInv, CutInv, HeardInv, Elapse
  PROVE  HeardInv'
<1>1. TypeInv /\ sinceTick' = sinceTick + 1 /\ silence' <= silence + 1 /\ silence' \in Nat
      /\ reading' = reading
  BY ElapseClocks, ElapseFacts DEF QueryInv
<1>2. sinceTick \in Nat /\ silence \in Nat /\ Len(rx) \in Nat /\ Len(reading) \in Nat
  BY <1>1, TypeFacts, TakenFacts, NumberFacts DEF TypeInv, TypeOK
<1>3. CASE rx' = rx
  <2>1. Taken' = Taken
    BY <1>1, <1>3 DEF Taken
  <2> SUFFICES ASSUME NEW p \in 1..Len(rx), WholeAt(Taken, Len(reading) + p)
               PROVE  silence' <= sinceTick'
    BY <1>1, <1>3, <2>1 DEF HeardInv, WholeAt, CommandByte
  <2>2. silence <= sinceTick
    BY DEF HeardInv
  <2> QED
    BY <1>1, <1>2, <2>2
<1>4. CASE rx' # rx
  <2>1. coming # <<>> /\ Len(rx) < rxDepth /\ rx' = Append(rx, Head(coming)) /\ Head(coming) \in Bytes
    BY <1>1, <1>4, ElapseFacts
  <2> DEFINE r == Len(reading)
             n == Len(rx)
             t == Len(Taken)
             t1 == Len(Taken')
             s == Size["command"]
  <2>2. /\ Len(rx') = n + 1 /\ t1 = t + 1 /\ Taken'[t + 1] = Head(coming)
        /\ \A i \in 1..t : Taken'[i] = Taken[i]
    BY <1>1, <2>1, TakenStored
  <2>3. t = r + n /\ t \in Nat /\ s \in Nat \ {0}
    BY <1>1, TakenFacts, ByteFacts DEF Kinds
  <2> SUFFICES ASSUME NEW p \in 1..(n + 1), WholeAt(Taken', r + p)
               PROVE  silence' <= sinceTick'
    BY <1>1, <2>2 DEF HeardInv, WholeAt, CommandByte
  <2>4. s <= r + p /\ \A i \in 1..s : Taken'[((r + p) - s) + i] = CommandByte(i)
    BY DEF WholeAt
  <2> HIDE DEF r, n, t, t1, s
  <2>5. CASE p <= n
    <3>1. p \in 1..n /\ r + p <= t
      BY <1>2, <2>3, <2>5 DEF r, n
    <3>2. ASSUME NEW i \in 1..s PROVE Taken[((r + p) - s) + i] = CommandByte(i)
      <4>1. ((r + p) - s) + i \in 1..t
        BY <1>2, <2>3, <2>4, <3>1 DEF r, n
      <4> QED
        BY <2>2, <2>4, <4>1
    <3>3. WholeAt(Taken, r + p)
      BY <2>4, <3>1, <3>2 DEF WholeAt, s, t
    <3>4. silence <= sinceTick
      BY <3>1, <3>3 DEF HeardInv, r, n
    <3> QED
      BY <1>1, <1>2, <3>4
  <2>6. CASE p = n + 1
    <3>1. r + p = t + 1
      BY <1>2, <2>3, <2>6 DEF r, n
    <3>2. Head(coming) = CommandByte(s)
      <4>1. ((t + 1) - s) + s = t + 1 /\ s \in 1..s
        BY <2>3
      <4> QED
        BY <2>2, <2>4, <3>1, <4>1
    <3>3. Head(coming).kind = "command" /\ Head(coming).at = s
      BY <3>2 DEF CommandByte
    <3>4. gap + 1 = s /\ gap \in Nat
      <4>1. Head(coming) = CommandByte(gap + 1) /\ gap \in Nat
        BY <1>1, <2>1, <3>3, NextByte
      <4> QED
        BY <3>3, <4>1 DEF CommandByte
    <3>5. EndsIn(Taken, gap)
      <4>1. gap <= t
        BY <2>3, <2>4, <3>1, <3>4
      <4>2. ASSUME NEW i \in 1..gap PROVE Taken[(t - gap) + i] = CommandByte(i)
        <5>1. i \in 1..s /\ ((t + 1) - s) + i = (t - gap) + i /\ (t - gap) + i \in 1..t
          BY <2>3, <3>4, <4>1
        <5> QED
          BY <2>2, <2>4, <3>1, <5>1
      <4> QED
        BY <4>1, <4>2 DEF EndsIn, t
    <3>6. ~lost
      BY <2>1, <3>3, <3>5 DEF CutInv
    <3>7. silence' = 0
      <4>1. ~lost'
        BY <2>1, <3>6 DEF Elapse
      <4> QED
        BY <1>1, <2>1, <3>2, <4>1, ElapseFacts DEF CommandByte, s
    <3> QED
      BY <1>1, <1>2, <3>7
  <2>7. p <= n \/ p = n + 1
    BY <1>2 DEF n
  <2> QED
    BY <2>5, <2>6, <2>7
<1> QED
  BY <1>3, <1>4

\* Since a byte has filled the FIFO an update, or a reply, has been under way.
LEMMA ElapseStuck ==
  ASSUME Paced, Spaced, QueryInv, TypeInv', ComingInv, StuckInv, Elapse
  PROVE  StuckInv'
<1>1. /\ TypeInv /\ toSend' = toSend /\ rxDepth' = rxDepth /\ reading' = reading
      /\ gap' = IF gap + 1 <= CommandGap THEN gap + 1 ELSE CommandGap
      /\ working' > 0 => working' = working - 1
      /\ toSend > 0 => Len(tx) = TxDepth /\ Left' = Left - 1
  BY ElapseClocks, ElapseFacts DEF QueryInv
<1>2. /\ working \in Nat /\ toSend \in Nat /\ gap \in Nat /\ gap <= CommandGap /\ Len(tx) \in Nat
      /\ working' \in Nat /\ Left \in Nat /\ ReplySize \in Nat
  <2>1. working \in Nat /\ toSend \in Nat /\ Len(tx) \in Nat
    BY <1>1, TypeFacts
  <2>2. working' \in Nat
    <3>1. working' = 0 \/ \E u \in UpdateTimes : working' \in 0..u
      BY DEF TypeInv, TypeOK
    <3> QED
      BY <3>1, NumberFacts
  <2>3. Left \in Nat
    BY <2>1 DEF Left
  <2> QED
    BY <1>1, <2>1, <2>2, <2>3, NumberFacts DEF TypeInv, TypeOK
<1>3. ASSUME toSend' > 0 PROVE Left' <= ReplySize
  BY <1>1, <1>2, <1>3 DEF StuckInv
<1>4. ASSUME NEW i \in 1..Size["command"], Len(rx') = rxDepth, rx'[Len(rx')] = CommandByte(i)
      PROVE  /\ working' > 0 => \E u \in Updates : Age(i)' + working' + 1 <= u
             /\ toSend' > 0 => Age(i)' + Left' + 1 <= ReplySize
  <2>1. i \in Nat \ {0} /\ i <= CommandGap /\ CommandGap \in Nat
    BY SpacedFacts
  <2>2. CASE rx' = rx
    <3> DEFINE a == Age(i)
               a1 == Age(i)'
    <3>1. a \in Nat /\ a1 \in Nat /\ a1 <= a + 1
      BY <1>1, <1>2, <2>1 DEF Age
    <3>2. /\ working > 0 => \E u \in Updates : a + working + 1 <= u
          /\ toSend > 0 => a + Left + 1 <= ReplySize
      BY <1>4, <2>2 DEF StuckInv
    <3> HIDE DEF a, a1
    <3>3. ASSUME working' > 0 PROVE \E u \in Updates : a1 + working' + 1 <= u
      <4> DEFINE w == working'
      <4>1. w = working - 1 /\ w > 0 /\ w \in Nat
        BY <1>1, <1>2, <3>3
      <4> HIDE DEF w
      <4>2. PICK u \in Updates : a + working + 1 <= u
        BY <1>2, <3>2, <4>1
      <4>3. u \in Nat
        BY SpacedFacts
      <4>4. a1 + w + 1 <= u
        BY <1>2, <3>1, <4>1, <4>2, <4>3
      <4> QED
        BY <4>4 DEF w
    <3>4. ASSUME toSend' > 0 PROVE a1 + Left' + 1 <= ReplySize
      <4> DEFINE m == Left'
      <4>1. m = Left - 1 /\ a + Left + 1 <= ReplySize
        BY <1>1, <3>2, <3>4
      <4> HIDE DEF m
      <4>2. a1 + m + 1 <= ReplySize
        BY <1>2, <3>1, <4>1
      <4> QED
        BY <4>2 DEF m
    <3> QED
      BY <3>3, <3>4 DEF a1
  <2>3. CASE rx' # rx
    <3>1. coming # <<>> /\ rx' = Append(rx, Head(coming)) /\ Head(coming) \in Bytes
      BY <1>1, <2>3, ElapseFacts
    <3>2. Head(coming) = CommandByte(i)
      BY <1>1, <1>4, <3>1, TakenStored
    <3>3. gap + 1 = i
      <4>1. Head(coming).kind = "command" /\ Head(coming).at = i
        BY <3>2 DEF CommandByte
      <4>2. Head(coming) = CommandByte(gap + 1)
        BY <1>1, <3>1, <4>1, NextByte
      <4> QED
        BY <4>1, <4>2 DEF CommandByte
    <3>4. Age(i)' = 0
      BY <1>1, <1>2, <2>1, <3>3 DEF Age
    <3>5. ASSUME working' > 0 PROVE \E u \in Updates : 0 + working' + 1 <= u
      <4> DEFINE w == working'
      <4>1. w = working - 1 /\ w > 0 /\ w \in Nat
        BY <1>1, <1>2, <3>5
      <4>2. PICK u \in UpdateTimes : working \in 0..u
        <5>1. working # 0
          BY <1>2, <4>1
        <5> QED
          BY <1>1, <5>1 DEF TypeInv, TypeOK
      <4>3. u \in Nat /\ u \in Updates
        BY NumberFacts DEF Updates
      <4> HIDE DEF w
      <4>4. 0 + w + 1 <= u
        BY <1>2, <4>1, <4>2, <4>3
      <4> QED
        BY <4>3, <4>4 DEF w
    <3>6. ASSUME toSend' > 0 PROVE 0 + Left' + 1 <= ReplySize
      <4> DEFINE m == Left'
      <4>1. m = Left - 1 /\ Left <= ReplySize
        BY <1>1, <3>6 DEF StuckInv
      <4> HIDE DEF m
      <4>2. 0 + m + 1 <= ReplySize
        BY <1>2, <4>1
      <4> QED
        BY <4>2 DEF m
    <3> QED
      BY <3>4, <3>5, <3>6
  <2> QED
    BY <2>2, <2>3
<1> QED
  BY <1>1, <1>3, <1>4 DEF StuckInv, CommandByte, Updates

LEMMA ElapseSilence ==
  ASSUME Paced, Spaced, QueryInv, TypeInv', ComingInv, SilenceInv, Elapse
  PROVE  SilenceInv'
<1>1. CutInv' /\ HeardInv' /\ StuckInv'
  BY ElapseCut, ElapseHeard, ElapseStuck DEF SilenceInv
<1>2. /\ sinceTick' = sinceTick + 1 /\ silence' <= silence + 1 /\ silence' \in Nat
      /\ UNCHANGED <<standing, sinceCmd>>
  BY ElapseClocks, ElapseFacts DEF QueryInv
<1>3. sinceTick \in Nat /\ silence \in Nat /\ sinceCmd \in Nat
  BY TypeFacts, NumberFacts DEF QueryInv, TypeInv, TypeOK
<1>4. NoticedInv'
  BY <1>2, <1>3 DEF SilenceInv, NoticedInv
<1> QED
  BY <1>1, <1>4 DEF SilenceInv

LEMMA HearingStep == Paced /\ Spaced /\ HearingInv /\ [Next]_vars => HearingInv'
<1> SUFFICES ASSUME Paced, Spaced, HearingInv, [Next]_vars PROVE HearingInv'
  OBVIOUS
<1>1. QueryInv /\ ComingInv /\ SilenceInv /\ TypeInv
  BY DEF HearingInv, QueryInv
<1>2. Size["command"] <= CommandGap
  BY DEF Spaced
<1>3. QueryInv' /\ ComingInv' /\ TypeInv'
  BY <1>1, <1>2, QueryStep, ComingStep, StepTypes
<1>4. CASE UNCHANGED vars
  <2>1. /\ UNCHANGED <<coming, lost, gap, reading, rx, rxDepth, working, sinceTick, standing, sinceCmd,
                       silence, toSend, tx>>
    BY <1>4 DEF vars, lineVars, parserVars, replyVars, robotVars
  <2>2. Left' = Left
    BY <2>1 DEF Left
  <2>3. SilenceInv'
    BY <1>1, <2>1, <2>2, SilenceKept
  <2> QED
    BY <1>3, <2>3 DEF HearingInv
<1>5. CASE GiveUp
  <2>1. /\ UNCHANGED <<coming, lost, gap, reading, rx, rxDepth, working, sinceTick, standing, sinceCmd,
                       silence, toSend, tx>>
    BY <1>5 DEF GiveUp, parserVars, replyVars, robotVars
  <2>2. Left' = Left
    BY <2>1 DEF Left
  <2>3. SilenceInv'
    BY <1>1, <2>1, <2>2, SilenceKept
  <2> QED
    BY <1>3, <2>3 DEF HearingInv
<1>6. ASSUME NEW kind \in Kinds, Post(kind) PROVE HearingInv'
  BY <1>1, <1>3, <1>6, PostSilence DEF HearingInv
<1>7. CASE Drain
  BY <1>1, <1>3, <1>7, DrainSilence DEF HearingInv
<1>8. CASE Push
  BY <1>1, <1>3, <1>8, PushSilence DEF HearingInv
<1>9. CASE Tick
  BY <1>1, <1>3, <1>9, TickSilence DEF HearingInv
<1>10. CASE Elapse
  BY <1>1, <1>3, <1>10, ElapseSilence DEF HearingInv
<1> QED
  BY <1>4, <1>5, <1>6, <1>7, <1>8, <1>9, <1>10 DEF Next, Loop

-----------------------------------------------------------------------------
(* The theorems on a sender that waits for its replies *)

\* Queries are answered one by one, each in time, or not at all.
THEOREM OneByOne ==
  ASSUME Paced
  PROVE  Spec => []QueryInv
<1>1. Init => QueryInv
  BY InitQuery
<1>2. QueryInv /\ [Next]_vars => QueryInv'
  BY QueryStep
<1> QED
  BY <1>1, <1>2, PTL DEF Spec

\* A tick is late by no more than a reply's overhang over the transmit FIFO:
\* no second reply can follow on the first before the tick that is due, whatever
\* the receive FIFO has dropped.
THEOREM TicksInTime ==
  ASSUME Paced
  PROVE  Spec => []TickIsPunctual
<1>1. QueryInv => TickIsPunctual
  <2> SUFFICES ASSUME QueryInv PROVE sinceTick <= Period + Lateness
    BY DEF TickIsPunctual
  <2>1. sinceTick \in Nat /\ (sinceTick <= Period \/ sinceTick <= Period + Lateness)
    BY TypeFacts DEF QueryInv, TimeInv
  <2> QED
    BY <2>1, PacedFacts, NumberFacts
<1> QED
  BY <1>1, OneByOne, PTL

\* Whatever is on its way back is what the sender is waiting for, also when
\* queries before it have been cut and given up.
THEOREM RepliesExpected ==
  ASSUME Paced
  PROVE  Spec => []ReplyIsExpected
<1>1. QueryInv => ReplyIsExpected
  <2> SUFFICES ASSUME QueryInv, toSend > 0 \/ tx # <<>> PROVE awaiting > 0
    BY DEF ReplyIsExpected
  <2>1. Answering
    BY DEF QueryInv, SenderInv, Quiet, Asked, AskedAt
  <2>2. awaiting = 1
    BY <2>1 DEF Answering
  <2> QED
    BY <2>2
<1> QED
  BY <1>1, OneByOne, PTL

\* For such a sender the watchdog is prompt, and just, as long as no byte is lost.
THEOREM WatchdogWorks ==
  ASSUME Paced
  PROVE  Spec /\ []~lost => []TripIsPrompt /\ TripIsDeserved
BY TicksInTime, NoticedInTime, TripsWhenSilent, PTL

\* And with the deepest receive FIFO no byte is lost: it bridges every wait of the
\* loop, whatever update and replies hold the loop up, and whenever commands come.
THEOREM NoByteLost ==
  ASSUME Paced, Deep
  PROVE  Spec => []NothingLost
<1>1. Init => (Bridged => Kept)
  BY InitKept
<1>2. (Bridged => Kept) /\ [Next]_vars => (Bridged => Kept)'
  BY KeptStep, SameDepth
<1>3. (Bridged => Kept) => NothingLost
  BY DEF Kept, NothingLost
<1> QED
  BY <1>1, <1>2, <1>3, PTL DEF Spec

\* So behind that FIFO the watchdog never powers the robot down while commands
\* keep coming in: not because of an update, and not because of a reply.
THEOREM WatchdogIsJust ==
  ASSUME Paced, Deep
  PROVE  Spec => TripIsDeserved
<1>1. [Next]_vars => (Bridged' <=> Bridged)
  BY SameDepth
<1>2. Bridged /\ NothingLost => ~lost
  BY DEF NothingLost
<1>3. ~Bridged => [Bridged /\ standing /\ ~standing' => silence + Period + Lateness > Timeout]_vars
  OBVIOUS
<1>4. Spec /\ []~lost => TripIsDeserved
  BY WatchdogWorks, PTL
<1> QED
  BY <1>1, <1>2, <1>3, <1>4, NoByteLost, PTL DEF Spec, TripIsDeserved

\* A line that falls silent is noticed within the timeout and one tick, however
\* small the receive FIFO: where commands are cut, no mixture of them passes for
\* one, as long as no hold-up of the loop spans two of them.
THEOREM TripsPromptly ==
  ASSUME Paced, Spaced
  PROVE  Spec => []TripIsPrompt
<1>1. Init => HearingInv
  BY InitHearing
<1>2. HearingInv /\ [Next]_vars => HearingInv'
  BY HearingStep
<1>3. HearingInv /\ TickIsPunctual => TripIsPrompt
  <2> SUFFICES ASSUME HearingInv, TickIsPunctual, standing
               PROVE  silence <= Timeout + Period + Lateness
    BY DEF TripIsPrompt
  <2>1. /\ silence <= sinceCmd + sinceTick /\ sinceCmd <= Timeout /\ sinceTick <= Period + Lateness
        /\ sinceCmd \in Nat /\ sinceTick \in Nat /\ silence \in Nat
    BY NumberFacts DEF HearingInv, SilenceInv, NoticedInv, QueryInv, TypeInv, TypeOK, TickIsPunctual
  <2> QED
    BY <2>1, NumberFacts DEF Lateness
<1> QED
  BY <1>1, <1>2, <1>3, TicksInTime, PTL DEF Spec
=============================================================================
