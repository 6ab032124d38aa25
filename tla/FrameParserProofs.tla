--------------------------- MODULE FrameParserProofs ---------------------------
(***************************************************************************)
(* What the receiver promises, for every byte width, SOF, longest payload, *)
(* CRC and set of messages: nothing is handed out that did not arrive, an  *)
(* undamaged frame gets through, one with a byte changed does not, and the *)
(* hunt resumes in time.                                                   *)
(***************************************************************************)
EXTENDS FrameParser, TLAPS, SequenceTheorems, WellFoundedInduction

-----------------------------------------------------------------------------
(* The CRC of a sequence, byte by byte *)

\* The principle the proofs by induction use: a non-empty set of naturals has a
\* least element.
LEMMA LeastNatural ==
  ASSUME NEW T \in SUBSET Nat, T # {}
  PROVE  \E n \in T : \A m \in T : n <= m
<1>1. PICK n \in T : \A m \in T : ~(<<m, n>> \in OpToRel(<, Nat))
  BY NatLessThanWellFounded, WFMin
<1>2. \A m \in T : ~(m < n)
  BY <1>1 DEF OpToRel
<1> QED
  BY <1>2

\* after is the CRC of every beginning of s.
Accumulates(after, s) ==
  /\ DOMAIN after = 0..Len(s)
  /\ after[0] = InitialCrc
  /\ \A i \in 1..Len(s) : after[i] = CrcUpdate(after[i - 1], s[i])

LEMMA InitialCrcType == InitialCrc \in Crcs
<1>1. Base * Base \in Nat \ {0}
  BY FrameAssumption
<1> QED
  BY <1>1 DEF InitialCrc, Crcs

LEMMA AccumulationExists ==
  ASSUME NEW s \in Seq(Bytes)
  PROVE  \E after \in [0..Len(s) -> Crcs] : Accumulates(after, s)
<1> DEFINE Upto(n, after) ==
             /\ after[0] = InitialCrc
             /\ \A i \in 1..n : after[i] = CrcUpdate(after[i - 1], s[i])
           Bad == {n \in 0..Len(s) : ~\E after \in [0..n -> Crcs] : Upto(n, after)}
<1>1. Bad = {}
  <2> SUFFICES ASSUME Bad # {} PROVE FALSE
    OBVIOUS
  <2>0. Bad \in SUBSET Nat
    OBVIOUS
  <2>1. PICK n \in Bad : \A m \in Bad : n <= m
    <3> HIDE DEF Bad
    <3> QED
      BY <2>0, LeastNatural
  <2>2. CASE n = 0
    <3>1. [i \in 0..0 |-> InitialCrc] \in [0..0 -> Crcs]
      BY InitialCrcType
    <3>2. Upto(0, [i \in 0..0 |-> InitialCrc])
      OBVIOUS
    <3> QED
      BY <2>2, <3>1, <3>2
  <2>3. CASE n # 0
    <3>0. n \in 0..Len(s) /\ n - 1 \in 0..Len(s)
      BY <2>3
    <3>1. n - 1 \notin Bad
      <4> HIDE DEF Bad
      <4> QED
        BY <2>1, <3>0
    <3>2. PICK after \in [0..(n - 1) -> Crcs] : Upto(n - 1, after)
      BY <3>0, <3>1
    <3> DEFINE longer == [i \in 0..n |-> IF i = n THEN CrcUpdate(after[n - 1], s[n]) ELSE after[i]]
    <3>3. CrcUpdate(after[n - 1], s[n]) \in Crcs
      BY <2>3, FrameAssumption, ElementOfSeq
    <3>4. longer \in [0..n -> Crcs]
      BY <3>3
    <3>5. Upto(n, longer)
      <4>1. longer[0] = InitialCrc
        BY <2>3, <3>2
      <4>2. ASSUME NEW i \in 1..n
            PROVE  longer[i] = CrcUpdate(longer[i - 1], s[i])
        <5>1. CASE i = n
          BY <2>3, <5>1
        <5>2. CASE i # n
          BY <2>3, <3>2, <5>2
        <5> QED
          BY <5>1, <5>2
      <4> QED
        BY <4>1, <4>2
    <3> QED
      BY <3>4, <3>5
  <2> QED
    BY <2>2, <2>3
<1>2. Len(s) \in 0..Len(s) /\ Len(s) \notin Bad
  BY <1>1
<1> QED
  BY <1>2 DEF Accumulates

\* Two accumulations agree as far as their sequences do.
LEMMA AccumulationUnique ==
  ASSUME NEW s \in Seq(Bytes), NEW t \in Seq(Bytes), NEW f, NEW g,
         Accumulates(f, s), Accumulates(g, t),
         NEW n \in Nat, n <= Len(s), n <= Len(t),
         \A i \in 1..n : s[i] = t[i]
  PROVE  f[n] = g[n]
<1> DEFINE Bad == {i \in 0..n : f[i] # g[i]}
<1>1. Bad = {}
  <2> SUFFICES ASSUME Bad # {} PROVE FALSE
    OBVIOUS
  <2>0. Bad \in SUBSET Nat
    OBVIOUS
  <2>1. PICK i \in Bad : \A j \in Bad : i <= j
    <3> HIDE DEF Bad
    <3> QED
      BY <2>0, LeastNatural
  <2>2. i # 0
    BY <2>1 DEF Accumulates
  <2>3. f[i - 1] = g[i - 1]
    BY <2>1, <2>2
  <2>4. f[i] = CrcUpdate(f[i - 1], s[i]) /\ g[i] = CrcUpdate(g[i - 1], t[i]) /\ s[i] = t[i]
    BY <2>1, <2>2 DEF Accumulates
  <2> QED
    BY <2>1, <2>3, <2>4
<1> QED
  BY <1>1

\* So the CRC of a sequence is the last value of its accumulation.
LEMMA CrcIsAccumulated ==
  ASSUME NEW s \in Seq(Bytes)
  PROVE  \E after \in [0..Len(s) -> Crcs] : Accumulates(after, s) /\ CrcOf(s) = after[Len(s)]
<1> DEFINE Step(after) == [i \in 0..Len(s) |->
             IF i = 0 THEN InitialCrc ELSE CrcUpdate(after[i - 1], s[i])]
           After == CHOOSE after : after = Step(after)
<1>1. PICK f \in [0..Len(s) -> Crcs] : Accumulates(f, s)
  BY AccumulationExists
<1>2. f = Step(f)
  BY <1>1 DEF Accumulates
<1>3. After = Step(After)
  BY <1>2
<1>4. CrcOf(s) = After[Len(s)]
  BY DEF CrcOf
<1>5. Accumulates(After, s)
  <2> HIDE DEF After
  <2> QED
    BY <1>3 DEF Accumulates
<1>6. \A n \in 0..Len(s) : After[n] = f[n]
  <2> HIDE DEF After
  <2> QED
    BY <1>1, <1>5, AccumulationUnique
<1> QED
  BY <1>1, <1>4, <1>6

LEMMA CrcType ==
  ASSUME NEW s \in Seq(Bytes)
  PROVE  CrcOf(s) \in Crcs
<1>1. PICK f \in [0..Len(s) -> Crcs] : CrcOf(s) = f[Len(s)]
  BY CrcIsAccumulated
<1> QED
  BY <1>1

LEMMA CrcEmpty == CrcOf(<<>>) = InitialCrc
<1>1. <<>> \in Seq(Bytes) /\ Len(<<>>) = 0
  OBVIOUS
<1>2. PICK f : Accumulates(f, <<>>) /\ CrcOf(<<>>) = f[Len(<<>>)]
  BY <1>1, CrcIsAccumulated
<1> QED
  BY <1>1, <1>2 DEF Accumulates

\* One more byte costs one more update.
LEMMA CrcAppend ==
  ASSUME NEW s \in Seq(Bytes), NEW b \in Bytes
  PROVE  CrcOf(Append(s, b)) = CrcUpdate(CrcOf(s), b)
<1> DEFINE t == Append(s, b)
<1>1. /\ t \in Seq(Bytes) /\ Len(t) = Len(s) + 1 /\ Len(s) \in Nat
      /\ \A i \in 1..Len(s) : s[i] = t[i]
      /\ t[Len(s) + 1] = b
  BY AppendProperties
<1> HIDE DEF t
<1>2. PICK f : Accumulates(f, s) /\ CrcOf(s) = f[Len(s)]
  BY CrcIsAccumulated
<1>3. PICK g : Accumulates(g, t) /\ CrcOf(t) = g[Len(t)]
  BY <1>1, CrcIsAccumulated
<1>4. f[Len(s)] = g[Len(s)]
  BY <1>1, <1>2, <1>3, AccumulationUnique
<1>5. g[Len(s) + 1] = CrcUpdate(g[Len(s)], b)
  BY <1>1, <1>3 DEF Accumulates
<1> QED
  BY <1>1, <1>2, <1>3, <1>4, <1>5 DEF t

\* The two bytes a CRC travels in give it back, and no others do.
LEMMA CrcBytes ==
  ASSUME NEW c \in Crcs
  PROVE  /\ c % Base \in Bytes /\ c \div Base \in Bytes
         /\ c = (c % Base) + (c \div Base) * Base
<1>1. Base \in Nat \ {0} /\ c \in Nat /\ c <= Base * Base - 1
  BY FrameAssumption DEF Crcs
<1>2. c % Base \in 0..(Base - 1) /\ c \div Base \in Nat /\ c = Base * (c \div Base) + (c % Base)
  BY <1>1
<1>3. c \div Base <= Base - 1
  BY <1>1, <1>2
<1> QED
  BY <1>1, <1>2, <1>3 DEF Bytes

LEMMA BytesOfCrc ==
  ASSUME NEW lo \in Bytes, NEW hi \in Bytes
  PROVE  /\ lo + hi * Base \in Crcs
         /\ (lo + hi * Base) % Base = lo /\ (lo + hi * Base) \div Base = hi
<1>1. /\ Base \in Nat \ {0} /\ lo \in Nat /\ hi \in Nat
      /\ lo <= Base - 1 /\ hi <= Base - 1
  BY FrameAssumption DEF Bytes
<1>2. hi * Base <= (Base - 1) * Base /\ hi * Base \in Nat
  BY <1>1
<1>3. lo + hi * Base \in Crcs
  BY <1>1, <1>2 DEF Crcs
<1>4. (lo + hi * Base) % Base = lo /\ (lo + hi * Base) \div Base = hi
  BY <1>1
<1> QED
  BY <1>3, <1>4

-----------------------------------------------------------------------------
(* The receiver *)

\* What the CRC covers, and what has been taken of the frame, in each phase.
Covered == <<length, opcode>> \o payload

Taken ==
  CASE phase = "Sof" -> <<>>
    [] phase = "Len" -> <<SOF>>
    [] phase = "Opcode" -> <<SOF, length>>
    [] phase \in {"Payload", "CrcLo"} -> <<SOF>> \o Covered
    [] phase = "CrcHi" -> Append(<<SOF>> \o Covered, rxCrc)

\* The receiver's own part of TypeOK, with what each phase says of the payload,
\* and the CRC of what has been taken.
ParserOK ==
  /\ phase \in {"Sof", "Len", "Opcode", "Payload", "CrcLo", "CrcHi"}
  /\ length \in 0..MaxPayload /\ opcode \in Bytes
  /\ payload \in Seq(Bytes) /\ Len(payload) <= MaxPayload
  /\ crc \in Crcs /\ rxCrc \in Crcs /\ complete \in BOOLEAN
  /\ phase = "Payload" => Len(payload) < length
  /\ phase \in {"CrcLo", "CrcHi"} => Len(payload) = length
  /\ phase = "CrcHi" => rxCrc \in Bytes
  /\ phase = "Opcode" => crc = CrcOf(<<length>>)
  /\ phase \in {"Payload", "CrcLo", "CrcHi"} => crc = CrcOf(Covered)
  /\ complete => phase = "Sof"

LEMMA ByteFacts ==
  /\ SOF \in Bytes /\ \A n \in 0..MaxPayload : n \in Bytes
  /\ Bytes \subseteq Crcs /\ Bytes \subseteq Nat
  /\ InitialCrc \in Crcs /\ FrameMax \in Nat /\ FrameMax >= 5
<1>1. Base * Base >= Base
  BY FrameAssumption
<1> QED
  BY <1>1, FrameAssumption, InitialCrcType DEF Bytes, Crcs, FrameMax

LEMMA CoveredFacts ==
  ASSUME ParserOK
  PROVE  /\ Covered \in Seq(Bytes) /\ Len(Covered) = Len(payload) + 2
         /\ <<SOF>> \o Covered \in Seq(Bytes)
         /\ Len(<<SOF>> \o Covered) = Len(payload) + 3
<1>1. <<length, opcode>> \in Seq(Bytes) /\ payload \in Seq(Bytes) /\ <<SOF>> \in Seq(Bytes)
  BY ByteFacts DEF ParserOK
<1>2. Covered \in Seq(Bytes) /\ Len(Covered) = Len(payload) + 2
  BY <1>1, ConcatProperties DEF Covered
<1> QED
  BY <1>1, <1>2, ConcatProperties

LEMMA TakenFacts ==
  ASSUME ParserOK
  PROVE  /\ Taken \in Seq(Bytes) /\ Len(Taken) < FrameMax
         /\ phase # "Sof" => Len(Taken) > 0 /\ Taken[1] = SOF
         /\ phase = "Len" => Len(Taken) = 1
         /\ phase = "Opcode" => Len(Taken) = 2
         /\ phase \notin {"Sof", "Len"} => Taken[2] = length
         /\ phase \in {"Payload", "CrcLo"} => Len(Taken) = Len(payload) + 3
         /\ phase = "CrcHi" => Len(Taken) = length + 4
<1>0. MaxPayload \in Nat
  BY FrameAssumption
<1>1. CASE phase \in {"Sof", "Len", "Opcode"}
  BY <1>0, <1>1, ByteFacts DEF ParserOK, Taken, FrameMax
<1> DEFINE s == <<SOF>> \o Covered
<1>2. /\ s \in Seq(Bytes) /\ Len(s) = Len(payload) + 3 /\ Len(payload) \in Nat
      /\ s[1] = SOF /\ s[2] = length
  <2>1. <<length, opcode>> \in Seq(Bytes) /\ payload \in Seq(Bytes)
    BY ByteFacts DEF ParserOK
  <2>2. Covered[1] = length
    BY <2>1, ConcatProperties DEF Covered
  <2>3. s[1] = SOF /\ s[2] = Covered[1]
    BY CoveredFacts, ByteFacts
  <2> QED
    BY <2>2, <2>3, CoveredFacts DEF ParserOK
<1>3. CASE phase \in {"Payload", "CrcLo"}
  <2>1. Taken = s
    BY <1>3 DEF Taken
  <2> QED
    BY <1>0, <1>2, <1>3, <2>1 DEF ParserOK, FrameMax
<1>4. CASE phase = "CrcHi"
  <2>1. Taken = Append(s, rxCrc) /\ rxCrc \in Bytes
    BY <1>4 DEF Taken, ParserOK
  <2>2. Taken \in Seq(Bytes) /\ Len(Taken) = Len(s) + 1 /\ Taken[1] = s[1] /\ Taken[2] = s[2]
    BY <1>2, <2>1, AppendProperties
  <2> QED
    BY <1>0, <1>2, <1>4, <2>2 DEF ParserOK, FrameMax
<1> QED
  BY <1>1, <1>3, <1>4 DEF ParserOK

\* What the receiver hands out, encoded again.
LEMMA EncodeFacts ==
  ASSUME NEW m, m.opcode \in Bytes, m.payload \in Seq(Bytes), Len(m.payload) <= MaxPayload
  PROVE  LET covered == <<Len(m.payload), m.opcode>> \o m.payload
             sum     == CrcOf(covered)
         IN  /\ covered \in Seq(Bytes) /\ Len(covered) = Len(m.payload) + 2
             /\ <<SOF>> \o covered \in Seq(Bytes)
             /\ sum \in Crcs /\ sum % Base \in Bytes /\ sum \div Base \in Bytes
             /\ Encode(m) = Append(Append(<<SOF>> \o covered, sum % Base), sum \div Base)
             /\ Encode(m) \in Seq(Bytes) /\ Len(Encode(m)) = Len(m.payload) + 5
<1> DEFINE covered == <<Len(m.payload), m.opcode>> \o m.payload
           sum == CrcOf(covered)
           lo == sum % Base
           hi == sum \div Base
           head == <<SOF>> \o covered
<1>1. <<Len(m.payload), m.opcode>> \in Seq(Bytes) /\ <<SOF>> \in Seq(Bytes)
  BY ByteFacts
<1>2. covered \in Seq(Bytes) /\ Len(covered) = Len(m.payload) + 2
  BY <1>1, ConcatProperties
<1>3. head \in Seq(Bytes) /\ Len(head) = Len(m.payload) + 3
  BY <1>1, <1>2, ConcatProperties
<1>4. sum \in Crcs /\ lo \in Bytes /\ hi \in Bytes
  BY <1>2, CrcType, CrcBytes
<1>5. Encode(m) = head \o <<lo, hi>>
  BY DEF Encode
<1> HIDE DEF lo, hi, head
<1>6. Encode(m) = Append(Append(head, lo), hi) /\ Encode(m) \in Seq(Bytes) /\ Len(Encode(m)) = Len(head) + 2
  BY <1>3, <1>4, <1>5
<1> QED
  BY <1>2, <1>3, <1>4, <1>6 DEF head, lo, hi

\* A byte is added to what has been taken of the frame, begins a frame, or ends
\* or abandons one; and a frame that is handed out is what has been taken and
\* this byte.
Extends(b) ==
  /\ phase # "Sof" /\ phase' # "Sof" /\ ~complete'
  /\ Taken' = Append(Taken, b)
Begins(b) ==
  /\ phase \in {"Sof", "Len"} /\ phase' = "Len" /\ ~complete'
  /\ b = SOF /\ Taken' = <<b>>
Abandons == phase \in {"Sof", "Len", "CrcHi"} /\ phase' = "Sof" /\ ~complete'
Completes(b) ==
  /\ phase = "CrcHi" /\ phase' = "Sof" /\ complete'
  /\ Encode(Received') = Append(Taken, b)

LEMMA TakeLenFacts ==
  ASSUME ParserOK, NEW b \in Bytes, TakeLen(b)
  PROVE  ParserOK' /\ (Extends(b) \/ Begins(b) \/ Abandons)
<1>1. CASE b > MaxPayload
  <2>1. /\ phase = "Len" /\ phase' = (IF b = SOF THEN "Len" ELSE "Sof") /\ complete' = FALSE
        /\ UNCHANGED <<length, opcode, payload, crc, rxCrc>>
    BY <1>1, FrameAssumption DEF TakeLen, Bytes
  <2>2. ParserOK'
    BY <2>1 DEF ParserOK
  <2> QED
    BY <2>1, <2>2 DEF Begins, Abandons, Taken
<1>2. CASE b <= MaxPayload
  <2>1. /\ phase = "Len" /\ phase' = "Opcode" /\ length' = b /\ crc' = CrcUpdate(InitialCrc, b)
        /\ ~complete' /\ UNCHANGED <<opcode, payload, rxCrc>>
    BY <1>2, FrameAssumption DEF TakeLen, Bytes
  <2>2. b \in 0..MaxPayload
    BY <1>2, FrameAssumption DEF Bytes
  <2>3. <<>> \in Seq(Bytes) /\ <<b>> = Append(<<>>, b)
    OBVIOUS
  <2>4. crc' = CrcOf(<<b>>) /\ crc' \in Crcs
    BY <2>1, <2>3, CrcAppend, CrcEmpty, FrameAssumption, ByteFacts
  <2>5. ParserOK'
    BY <2>1, <2>2, <2>4 DEF ParserOK, TakeLen
  <2>6. Taken' = Append(Taken, b)
    BY <2>1 DEF Taken
  <2> QED
    BY <2>1, <2>5, <2>6 DEF Extends
<1> QED
  BY <1>1, <1>2, FrameAssumption DEF Bytes

LEMMA TakeOpcodeFacts ==
  ASSUME ParserOK, NEW b \in Bytes, TakeOpcode(b)
  PROVE  ParserOK' /\ Extends(b)
<1>1. /\ phase = "Opcode" /\ phase' \in {"CrcLo", "Payload"} /\ (phase' = "CrcLo" <=> length = 0)
      /\ opcode' = b /\ payload' = <<>> /\ crc' = CrcUpdate(crc, b)
      /\ complete' = FALSE /\ UNCHANGED <<length, rxCrc>>
  BY DEF TakeOpcode
<1>2. length \in Bytes /\ <<length>> \in Seq(Bytes) /\ <<length, b>> = Append(<<length>>, b)
  BY ByteFacts DEF ParserOK
<1>3. Covered' = <<length, b>>
  BY <1>1, <1>2 DEF Covered
<1>4. crc' = CrcOf(Covered') /\ crc' \in Crcs
  BY <1>1, <1>2, <1>3, CrcAppend, FrameAssumption DEF ParserOK
<1>5. ParserOK'
  <2>1. <<>> \in Seq(Bytes) /\ Len(<<>>) = 0 /\ MaxPayload \in Nat
    BY FrameAssumption
  <2>2. length \in 0..MaxPayload /\ MaxPayload \in Nat /\ rxCrc \in Crcs
    BY FrameAssumption DEF ParserOK
  <2>3. phase' = "Payload" => Len(payload') < length'
    BY <1>1, <2>1, <2>2
  <2>4. phase' = "CrcLo" => Len(payload') = length'
    BY <1>1, <2>1, <2>2
  <2>5. payload' \in Seq(Bytes) /\ Len(payload') <= MaxPayload
    BY <1>1, <2>1, <2>2
  <2> QED
    BY <1>1, <1>4, <2>2, <2>3, <2>4, <2>5 DEF ParserOK
<1>6. Taken' = Append(Taken, b)
  <2>1. Taken' = <<SOF>> \o <<length, b>> /\ Taken = <<SOF, length>>
    BY <1>1, <1>3 DEF Taken
  <2> QED
    BY <1>2, <2>1, ByteFacts
<1> QED
  BY <1>1, <1>5, <1>6 DEF Extends

\* Appending to the second half appends to the whole.
LEMMA ConcatAppend ==
  ASSUME NEW s \in Seq(Bytes), NEW t \in Seq(Bytes), NEW b \in Bytes
  PROVE  s \o Append(t, b) = Append(s \o t, b)
<1>1. /\ Append(t, b) = t \o <<b>> /\ <<b>> \in Seq(Bytes)
      /\ s \o t \in Seq(Bytes) /\ Append(s \o t, b) = (s \o t) \o <<b>>
  BY AppendIsConcat, ConcatProperties
<1> QED
  BY <1>1, ConcatAssociative

LEMMA TakePayloadFacts ==
  ASSUME ParserOK, NEW b \in Bytes, TakePayload(b)
  PROVE  ParserOK' /\ Extends(b)
<1>1. /\ phase = "Payload" /\ phase' \in {"CrcLo", "Payload"}
      /\ (phase' = "CrcLo" <=> Len(payload') >= length)
      /\ payload' = Append(payload, b) /\ crc' = CrcUpdate(crc, b)
      /\ complete' = FALSE /\ UNCHANGED <<length, opcode, rxCrc>>
  BY DEF TakePayload
<1>2. payload' \in Seq(Bytes) /\ Len(payload') = Len(payload) + 1 /\ Len(payload) \in Nat
  BY <1>1, AppendProperties DEF ParserOK
<1>3. <<length, opcode>> \in Seq(Bytes) /\ payload \in Seq(Bytes) /\ <<SOF>> \in Seq(Bytes)
  BY ByteFacts DEF ParserOK
<1>4. Covered' = Append(Covered, b)
  BY <1>1, <1>3, ConcatAppend DEF Covered
<1>5. crc' = CrcOf(Covered') /\ crc' \in Crcs
  BY <1>1, <1>4, CrcAppend, CoveredFacts, FrameAssumption DEF ParserOK
<1>6. ParserOK'
  <2>1. Len(payload) < length /\ length \in 0..MaxPayload /\ MaxPayload \in Nat
    BY <1>1, FrameAssumption DEF ParserOK
  <2>2. phase' = "Payload" => Len(payload') < length'
    BY <1>1, <1>2, <2>1
  <2>3. phase' = "CrcLo" => Len(payload') = length'
    BY <1>1, <1>2, <2>1
  <2>4. Len(payload') <= MaxPayload /\ opcode \in Bytes /\ rxCrc \in Crcs
    BY <1>1, <1>2, <2>1 DEF ParserOK
  <2> QED
    BY <1>1, <1>2, <1>5, <2>1, <2>2, <2>3, <2>4 DEF ParserOK
<1>7. Taken' = Append(Taken, b)
  BY <1>1, <1>3, <1>4, CoveredFacts, ConcatAppend DEF Taken
<1> QED
  BY <1>1, <1>6, <1>7 DEF Extends

LEMMA TakeCrcLoFacts ==
  ASSUME ParserOK, NEW b \in Bytes, TakeCrcLo(b)
  PROVE  ParserOK' /\ Extends(b)
<1>1. /\ phase = "CrcLo" /\ phase' = "CrcHi" /\ rxCrc' = b /\ complete' = FALSE
      /\ UNCHANGED <<length, opcode, payload, crc>> /\ Covered' = Covered
  BY DEF TakeCrcLo, Covered
<1>2. ParserOK'
  BY <1>1, ByteFacts DEF ParserOK
<1> QED
  BY <1>1, <1>2 DEF Extends, Taken

LEMMA TakeCrcHiFacts ==
  ASSUME ParserOK, NEW b \in Bytes, TakeCrcHi(b)
  PROVE  ParserOK' /\ (Abandons \/ Completes(b))
<1>1. /\ phase = "CrcHi" /\ phase' = "Sof" /\ rxCrc' = rxCrc + b * Base
      /\ complete' = (rxCrc' = crc) /\ UNCHANGED <<length, opcode, payload, crc>>
  BY DEF TakeCrcHi
<1>2. rxCrc \in Bytes /\ Len(payload) = length /\ crc = CrcOf(Covered)
  BY <1>1 DEF ParserOK
<1>3. rxCrc' \in Crcs /\ rxCrc' % Base = rxCrc /\ rxCrc' \div Base = b
  BY <1>1, <1>2, BytesOfCrc
<1>4. ParserOK'
  BY <1>1, <1>3 DEF ParserOK
<1>5. CASE ~complete'
  BY <1>1, <1>4, <1>5 DEF Abandons
<1>6. CASE complete'
  <2>1. crc % Base = rxCrc /\ crc \div Base = b
    BY <1>1, <1>3, <1>6
  <2>2. /\ Received' = Received /\ Received.opcode = opcode /\ Received.payload = payload
    BY <1>1 DEF Received
  <2>3. Encode(Received) = Append(Append(<<SOF>> \o Covered, crc % Base), crc \div Base)
    BY <1>2, <2>2, EncodeFacts DEF ParserOK, Covered
  <2>4. Taken = Append(<<SOF>> \o Covered, rxCrc)
    BY <1>1 DEF Taken
  <2> QED
    BY <1>1, <1>4, <1>6, <2>1, <2>2, <2>3, <2>4 DEF Completes
<1> QED
  BY <1>5, <1>6

LEMMA FeedFacts ==
  ASSUME ParserOK, NEW b \in Bytes, Feed(b)
  PROVE  ParserOK' /\ (Extends(b) \/ Begins(b) \/ Abandons \/ Completes(b))
<1>1. CASE AwaitSof(b)
  <2>1. ParserOK'
    BY <1>1 DEF AwaitSof, ParserOK
  <2> QED
    BY <1>1, <2>1 DEF AwaitSof, Begins, Abandons, Taken
<1> QED
  BY <1>1, TakeLenFacts, TakeOpcodeFacts, TakePayloadFacts, TakeCrcLoFacts, TakeCrcHiFacts
     DEF Feed

-----------------------------------------------------------------------------
(* The bytes received *)

EndsWith(s, t) ==
  /\ Len(t) <= Len(s)
  /\ \A i \in 1..Len(t) : s[Len(s) - Len(t) + i] = t[i]

LEMMA LastOfFacts ==
  ASSUME NEW s \in Seq(Bytes), NEW n \in Nat
  PROVE  /\ LastOf(s, n) \in Seq(Bytes) /\ Len(LastOf(s, n)) = IF Len(s) > n THEN n ELSE Len(s)
         /\ \A i \in 1..Len(LastOf(s, n)) : LastOf(s, n)[i] = s[Len(s) - Len(LastOf(s, n)) + i]
<1> DEFINE first == IF Len(s) > n THEN Len(s) - n + 1 ELSE 1
<1>1. first \in 1..(Len(s) + 1) /\ Len(s) \in Nat /\ \A i \in first..Len(s) : s[i] \in Bytes
  OBVIOUS
<1>2. LastOf(s, n) = SubSeq(s, first, Len(s))
  BY DEF LastOf
<1> HIDE DEF first
<1>3. /\ SubSeq(s, first, Len(s)) \in Seq(Bytes)
      /\ Len(SubSeq(s, first, Len(s))) = IF first <= Len(s) THEN Len(s) - first + 1 ELSE 0
      /\ \A i \in 1..(Len(s) - first + 1) : SubSeq(s, first, Len(s))[i] = s[first + i - 1]
  BY <1>1, SubSeqProperties
<1> DEFINE t == LastOf(s, n)
<1>4. t \in Seq(Bytes) /\ Len(t) = Len(s) - first + 1
  BY <1>1, <1>2, <1>3
<1>5. \A i \in 1..Len(t) : t[i] = s[first + i - 1]
  BY <1>2, <1>3, <1>4
<1>6. Len(t) = IF Len(s) > n THEN n ELSE Len(s)
  BY <1>1, <1>4 DEF first
<1>7. \A i \in 1..Len(t) : first + i - 1 = Len(s) - Len(t) + i
  BY <1>1, <1>4
<1> QED
  BY <1>4, <1>5, <1>6, <1>7

LEMMA LastOfEnding ==
  ASSUME NEW s \in Seq(Bytes), NEW t \in Seq(Bytes), EndsWith(s, t)
  PROVE  LastOf(s, Len(t)) = t
<1>1. Len(LastOf(s, Len(t))) = Len(t)
  BY LastOfFacts DEF EndsWith
<1>2. \A i \in 1..Len(t) : LastOf(s, Len(t))[i] = t[i]
  BY <1>1, LastOfFacts DEF EndsWith
<1> QED
  BY <1>1, <1>2, LastOfFacts, SeqEqual

\* What a sequence ends with, a cut that is long enough ends with.
LEMMA EndingOfCut ==
  ASSUME NEW s \in Seq(Bytes), NEW t \in Seq(Bytes), EndsWith(s, t), NEW n \in Nat, Len(t) <= n
  PROVE  EndsWith(LastOf(s, n), t)
<1> DEFINE u == LastOf(s, n)
<1>1. /\ u \in Seq(Bytes) /\ Len(u) = IF Len(s) > n THEN n ELSE Len(s)
      /\ \A i \in 1..Len(u) : u[i] = s[Len(s) - Len(u) + i]
  BY LastOfFacts
<1> HIDE DEF u
<1>2. Len(t) <= Len(u) /\ Len(u) \in Nat /\ Len(t) \in Nat /\ Len(s) \in Nat
  BY <1>1 DEF EndsWith
<1>3. ASSUME NEW i \in 1..Len(t)
      PROVE  u[Len(u) - Len(t) + i] = t[i]
  <2>1. Len(u) - Len(t) + i \in 1..Len(u)
    BY <1>2
  <2>2. u[Len(u) - Len(t) + i] = s[Len(s) - Len(u) + (Len(u) - Len(t) + i)]
    BY <1>1, <2>1
  <2>3. Len(s) - Len(u) + (Len(u) - Len(t) + i) = Len(s) - Len(t) + i
    BY <1>2
  <2> QED
    BY <2>2, <2>3 DEF EndsWith
<1> QED
  BY <1>2, <1>3 DEF EndsWith, u

LEMMA EndingGrows ==
  ASSUME NEW s \in Seq(Bytes), NEW t \in Seq(Bytes), EndsWith(s, t), NEW b \in Bytes
  PROVE  EndsWith(Append(s, b), Append(t, b))
<1>1. /\ Len(Append(s, b)) = Len(s) + 1 /\ Len(Append(t, b)) = Len(t) + 1
      /\ Len(s) \in Nat /\ Len(t) \in Nat
  OBVIOUS
<1>2. ASSUME NEW i \in 1..(Len(t) + 1)
      PROVE  Append(s, b)[Len(s) - Len(t) + i] = Append(t, b)[i]
  <2>1. CASE i = Len(t) + 1
    BY <1>1, <2>1, AppendProperties
  <2>2. CASE i # Len(t) + 1
    <3>1. i \in 1..Len(t) /\ Len(s) - Len(t) + i \in 1..Len(s)
      BY <1>1, <2>2 DEF EndsWith
    <3> QED
      BY <3>1, AppendProperties DEF EndsWith
  <2> QED
    BY <2>1, <2>2
<1> DEFINE u == Append(s, b)
           v == Append(t, b)
<1> HIDE DEF u, v
<1>3. Len(v) <= Len(u) /\ Len(u) - Len(v) = Len(s) - Len(t)
  BY <1>1 DEF EndsWith, u, v
<1>4. \A i \in 1..Len(v) : u[Len(u) - Len(v) + i] = v[i]
  BY <1>1, <1>2, <1>3 DEF u, v
<1>5. EndsWith(u, v)
  BY <1>3, <1>4 DEF EndsWith
<1> QED
  BY <1>5 DEF u, v

\* The parser and the bytes it has received: what is taken of a frame came last,
\* and so did a frame handed out.
ReceiverInv ==
  /\ ParserOK
  /\ recent \in Seq(Bytes) /\ Len(recent) <= FrameMax
  /\ EndsWith(recent, Taken)
  /\ complete => EndsWith(recent, Encode(Received))

LEMMA ReceiverStep ==
  ASSUME ReceiverInv, NEW b \in Bytes, Feed(b)
  PROVE  ReceiverInv' /\ (Extends(b) \/ Begins(b) \/ Abandons \/ Completes(b))
<1>1. ParserOK' /\ (Extends(b) \/ Begins(b) \/ Abandons \/ Completes(b))
  BY FeedFacts DEF ReceiverInv
<1>2. /\ recent \in Seq(Bytes) /\ EndsWith(recent, Taken)
      /\ Taken \in Seq(Bytes) /\ Len(Taken) < FrameMax
      /\ FrameMax \in Nat /\ FrameMax >= 5
  BY TakenFacts, ByteFacts DEF ReceiverInv
<1> DEFINE cut == LastOf(Append(recent, b), FrameMax)
<1>3. recent' = IF phase = "Sof" THEN <<b>> ELSE cut
  BY DEF Feed
<1>a. Append(recent, b) \in Seq(Bytes) /\ Append(Taken, b) \in Seq(Bytes)
      /\ Len(Append(Taken, b)) = Len(Taken) + 1 /\ Len(Taken) \in Nat
  BY <1>2, AppendProperties
<1>b. cut \in Seq(Bytes) /\ Len(cut) <= FrameMax
  <2> DEFINE more == Append(recent, b)
  <2>1. more \in Seq(Bytes) /\ Len(more) \in Nat
    BY <1>a
  <2> HIDE DEF more
  <2>2. LastOf(more, FrameMax) \in Seq(Bytes) /\ Len(LastOf(more, FrameMax)) <= FrameMax
    BY <1>2, <2>1, LastOfFacts
  <2> QED
    BY <2>2 DEF more
<1>4. recent' \in Seq(Bytes) /\ Len(recent') <= FrameMax /\ <<>> \in Seq(Bytes)
  <2>1. <<b>> \in Seq(Bytes) /\ Len(<<b>>) = 1
    OBVIOUS
  <2> HIDE DEF cut
  <2> QED
    BY <1>2, <1>3, <1>b, <2>1
<1>5. EndsWith(cut, Append(Taken, b))
  <2>1. EndsWith(Append(recent, b), Append(Taken, b))
    BY <1>2, EndingGrows
  <2>2. Len(Append(Taken, b)) <= FrameMax
    BY <1>2, <1>a
  <2> QED
    BY <1>2, <1>a, <2>1, <2>2, EndingOfCut
<1>6. CASE Extends(b)
  <2>1. EndsWith(recent', Taken') /\ ~complete'
    BY <1>3, <1>5, <1>6 DEF Extends
  <2> QED
    BY <1>1, <1>4, <2>1 DEF ReceiverInv
<1>7. CASE Begins(b)
  <2>1. <<b>> \in Seq(Bytes) /\ Len(<<b>>) = 1 /\ EndsWith(<<b>>, <<b>>)
    BY DEF EndsWith
  <2>2. EndsWith(Append(recent, b), <<b>>)
    <3>1. /\ Len(Append(recent, b)) = Len(recent) + 1 /\ Len(recent) \in Nat
          /\ Append(recent, b)[Len(recent) + 1] = b
      BY <1>2, AppendProperties
    <3> QED
      BY <2>1, <3>1 DEF EndsWith
  <2>3. EndsWith(cut, <<b>>)
    <3> DEFINE one == <<b>>
    <3>1. one \in Seq(Bytes) /\ Len(one) <= FrameMax
      BY <1>2, <2>1
    <3> HIDE DEF one
    <3>2. EndsWith(Append(recent, b), one)
      BY <2>2 DEF one
    <3>3. EndsWith(cut, one)
      BY <1>2, <1>a, <3>1, <3>2, EndingOfCut
    <3> QED
      BY <3>3 DEF one
  <2>4. EndsWith(recent', Taken') /\ ~complete'
    BY <1>3, <1>7, <2>1, <2>3 DEF Begins
  <2> QED
    BY <1>1, <1>4, <2>4 DEF ReceiverInv
<1>8. CASE Abandons
  <2>1. Taken' = <<>> /\ ~complete'
    BY <1>8 DEF Abandons, Taken
  <2>2. EndsWith(recent', <<>>)
    BY <1>4 DEF EndsWith
  <2> QED
    BY <1>1, <1>4, <2>1, <2>2 DEF ReceiverInv
<1>9. CASE Completes(b)
  <2>1. EndsWith(recent', Encode(Received'))
    BY <1>3, <1>5, <1>9 DEF Completes
  <2>2. Taken' = <<>> /\ EndsWith(recent', <<>>)
    BY <1>4, <1>9 DEF Completes, Taken, EndsWith
  <2>3. Encode(Received') = Encode(Received)'
    BY DEF Encode, InitialCrc, CrcOf
  <2> QED
    BY <1>1, <1>4, <2>1, <2>2, <2>3 DEF ReceiverInv
<1> QED
  BY <1>1, <1>6, <1>7, <1>8, <1>9

-----------------------------------------------------------------------------
(* The line *)

LineOK ==
  /\ wire \in Seq(Bytes) /\ sent \in Messages \cup {NoMessage}
  /\ damaged \in BOOLEAN

\* Of an undamaged frame under way, what has been taken and what is to come
\* make up the frame.
InStep ==
  wire # <<>> /\ ~damaged =>
    sent \in Messages /\ phase # "Sof" /\ Taken \o wire = Encode(sent)

IInv == ReceiverInv /\ LineOK /\ InStep

LEMMA SentFacts ==
  ASSUME NEW m \in Messages
  PROVE  /\ m.opcode \in Bytes /\ m.payload \in Seq(Bytes) /\ Len(m.payload) <= MaxPayload
         /\ m = [opcode |-> m.opcode, payload |-> m.payload]
         /\ Encode(m) \in Seq(Bytes) /\ Len(Encode(m)) = Len(m.payload) + 5
         /\ Encode(m)[1] = SOF /\ Encode(m)[2] = Len(m.payload)
         /\ Len(m.payload) \in 0..MaxPayload
<1>1. /\ m.opcode \in Bytes /\ m.payload \in Seq(Bytes) /\ Len(m.payload) <= MaxPayload
      /\ m = [opcode |-> m.opcode, payload |-> m.payload] /\ Len(m.payload) \in 0..MaxPayload
  BY FrameAssumption
<1> DEFINE covered == <<Len(m.payload), m.opcode>> \o m.payload
           sum == CrcOf(covered)
           head == <<SOF>> \o covered
           lo == sum % Base
           hi == sum \div Base
<1>2. /\ covered \in Seq(Bytes) /\ Len(covered) = Len(m.payload) + 2
      /\ head \in Seq(Bytes) /\ lo \in Bytes /\ hi \in Bytes
      /\ Encode(m) = Append(Append(head, lo), hi)
      /\ Encode(m) \in Seq(Bytes) /\ Len(Encode(m)) = Len(m.payload) + 5
  BY <1>1, EncodeFacts
<1>3. covered[1] = Len(m.payload)
  BY <1>1, ByteFacts, ConcatProperties
<1>4. Len(head) >= 2 /\ head[1] = SOF /\ head[2] = covered[1]
  <2> HIDE DEF covered
  <2> QED
    BY <1>1, <1>2, ByteFacts
<1>5. Encode(m)[1] = head[1] /\ Encode(m)[2] = head[2]
  <2> HIDE DEF head, lo, hi
  <2>1. Append(head, lo) \in Seq(Bytes) /\ Len(Append(head, lo)) = Len(head) + 1
    BY <1>2, AppendProperties
  <2> QED
    BY <1>2, <1>4, <2>1, AppendProperties
<1> QED
  BY <1>1, <1>2, <1>3, <1>4, <1>5

LEMMA HeadAndTail ==
  ASSUME NEW s \in Seq(Bytes), s # <<>>
  PROVE  /\ Head(s) \in Bytes /\ Tail(s) \in Seq(Bytes) /\ Len(Tail(s)) = Len(s) - 1
         /\ s = <<Head(s)>> \o Tail(s)
         /\ \A t \in Seq(Bytes) : Append(t, Head(s)) \o Tail(s) = t \o s
<1>1. Head(s) \in Bytes /\ Tail(s) \in Seq(Bytes) /\ Len(Tail(s)) = Len(s) - 1 /\ s = <<Head(s)>> \o Tail(s)
  OBVIOUS
<1>2. ASSUME NEW t \in Seq(Bytes)
      PROVE  Append(t, Head(s)) \o Tail(s) = t \o s
  <2>1. Append(t, Head(s)) = t \o <<Head(s)>> /\ <<Head(s)>> \in Seq(Bytes)
    BY <1>1, AppendIsConcat
  <2> QED
    BY <1>1, <2>1, ConcatAssociative
<1> QED
  BY <1>1, <1>2

\* A frame that begins is taken up, wherever the hunt for one stands.
LEMMA SendStep ==
  ASSUME IInv, NEW m \in Messages, Send(m)
  PROVE  IInv'
<1>1. /\ phase \in {"Sof", "Len"} /\ wire = <<>> /\ wire' = Tail(Encode(m)) /\ sent' = m
      /\ Feed(Head(Encode(m))) /\ damaged' = damaged
  BY DEF Send
<1>2. /\ Encode(m) \in Seq(Bytes) /\ Encode(m) # <<>> /\ Head(Encode(m)) = SOF
      /\ SOF \in Bytes /\ SOF > MaxPayload /\ MaxPayload \in Nat
  <2>1. Len(Encode(m)) >= 5 /\ Encode(m) \in Seq(Bytes) /\ Encode(m)[1] = SOF
    BY SentFacts
  <2> QED
    BY <2>1, FrameAssumption
<1>3. ReceiverInv' /\ (Extends(SOF) \/ Begins(SOF) \/ Abandons \/ Completes(SOF))
  BY <1>1, <1>2, ReceiverStep DEF IInv
<1>4. phase' = "Len"
  BY <1>1, <1>2 DEF Feed, AwaitSof, TakeLen, TakeOpcode, TakePayload, TakeCrcLo, TakeCrcHi, Bytes
<1>5. Taken' = <<SOF>>
  BY <1>4 DEF Taken
<1>6. Taken' \o wire' = Encode(m)
  BY <1>1, <1>2, <1>5, HeadAndTail
<1> QED
  BY <1>1, <1>2, <1>3, <1>4, <1>6, HeadAndTail DEF IInv, LineOK, InStep

\* Where an undamaged frame stands.
LEMMA Position ==
  ASSUME IInv, wire # <<>>, ~damaged
  PROVE  /\ Len(Taken) + Len(wire) = Len(sent.payload) + 5
         /\ phase = "Len" => Head(wire) = Len(sent.payload)
         /\ phase \notin {"Sof", "Len"} => length = Len(sent.payload)
         /\ phase # "CrcHi" => Len(wire) > 1
         /\ phase = "CrcHi" => Len(wire) = 1
         /\ sent \in Messages /\ phase # "Sof" /\ Taken \o wire = Encode(sent)
<1>1. sent \in Messages /\ phase # "Sof" /\ Taken \o wire = Encode(sent)
  BY DEF IInv, InStep
<1>2. wire \in Seq(Bytes) /\ Taken \in Seq(Bytes) /\ ParserOK
  BY TakenFacts DEF IInv, ReceiverInv, LineOK
<1>3. Len(Encode(sent)) = Len(sent.payload) + 5 /\ Encode(sent)[2] = Len(sent.payload)
      /\ Len(sent.payload) \in Nat
  BY <1>1, SentFacts
<1>4. /\ Len(Taken) + Len(wire) = Len(sent.payload) + 5
      /\ \A i \in 1..(Len(Taken) + Len(wire)) :
           Encode(sent)[i] = IF i <= Len(Taken) THEN Taken[i] ELSE wire[i - Len(Taken)]
  BY <1>1, <1>2, <1>3, ConcatProperties
<1>5. ASSUME phase = "Len" PROVE Head(wire) = Len(sent.payload)
  <2>1. Len(Taken) = 1 /\ Len(wire) >= 1 /\ Len(wire) \in Nat /\ Head(wire) = wire[1]
    BY <1>2, <1>5, TakenFacts
  <2>2. 2 \in 1..(Len(Taken) + Len(wire)) /\ ~(2 <= Len(Taken)) /\ 2 - Len(Taken) = 1
    BY <2>1
  <2>3. Encode(sent)[2] = wire[1]
    BY <1>4, <2>2
  <2> QED
    BY <1>3, <2>1, <2>3
<1>6. phase \notin {"Sof", "Len"} => length = Len(sent.payload)
  <2>1. phase \notin {"Sof", "Len"} => Len(Taken) >= 2 /\ Taken[2] = length
    BY <1>2, TakenFacts DEF ParserOK
  <2>2. phase \notin {"Sof", "Len"} => 2 \in 1..(Len(Taken) + Len(wire))
    BY <1>2, <2>1
  <2> QED
    BY <1>3, <1>4, <2>1, <2>2
<1>7. /\ phase = "Len" => Len(Taken) = 1
      /\ phase = "Opcode" => Len(Taken) = 2
      /\ phase = "Payload" => Len(Taken) < length + 3
      /\ phase = "CrcLo" => Len(Taken) = length + 3
      /\ phase = "CrcHi" => Len(Taken) = length + 4
  <2>1. /\ length \in Nat /\ Len(payload) \in Nat
        /\ phase = "Payload" => Len(payload) < length
        /\ phase = "CrcLo" => Len(payload) = length
    BY <1>2, FrameAssumption DEF ParserOK
  <2>2. Len(Taken) \in Nat
    BY <1>2
  <2>3. phase = "Payload" => Len(Taken) = Len(payload) + 3
    BY <1>2, TakenFacts
  <2>4. phase = "CrcLo" => Len(Taken) = Len(payload) + 3
    BY <1>2, TakenFacts
  <2>5. phase = "Payload" => Len(Taken) < length + 3
    BY <2>1, <2>2, <2>3
  <2> QED
    BY <1>2, <2>1, <2>4, <2>5, TakenFacts
<1>8. (phase # "CrcHi" => Len(wire) > 1) /\ (phase = "CrcHi" => Len(wire) = 1)
  <2>1. phase \in {"Sof", "Len", "Opcode", "Payload", "CrcLo", "CrcHi"} /\ Len(wire) \in Nat /\ Len(Taken) \in Nat
    BY <1>2 DEF ParserOK
  <2>2. Len(Taken) + Len(wire) = Len(sent.payload) + 5 /\ Len(sent.payload) \in Nat
    BY <1>3, <1>4
  <2> DEFINE t == Len(Taken)
             w == Len(wire)
             n == Len(sent.payload)
  <2> HIDE DEF t, w, n
  <2>3. t + w = n + 5 /\ t \in Nat /\ w \in Nat /\ n \in Nat
    BY <2>1, <2>2 DEF t, w, n
  <2>4. CASE phase = "Len" \/ phase = "Opcode"
    <3>1. t \in {1, 2} /\ phase # "CrcHi"
      BY <1>7, <2>4 DEF t
    <3>2. w > 1
      BY <2>3, <3>1
    <3> QED
      BY <3>1, <3>2 DEF w
  <2>5. CASE phase = "Payload" \/ phase = "CrcLo"
    <3>1. t <= n + 3 /\ phase # "CrcHi"
      BY <1>6, <1>7, <2>3, <2>5 DEF t, n
    <3>2. w > 1
      BY <2>3, <3>1
    <3> QED
      BY <3>1, <3>2 DEF w
  <2>6. CASE phase = "CrcHi"
    <3>1. t = n + 4
      BY <1>6, <1>7, <2>6 DEF t, n
    <3>2. w = 1
      BY <2>3, <3>1
    <3> QED
      BY <2>6, <3>2 DEF w
  <2> QED
    BY <1>1, <2>1, <2>4, <2>5, <2>6
<1> QED
  BY <1>1, <1>4, <1>5, <1>6, <1>8

LEMMA AppendCancels ==
  ASSUME NEW s \in Seq(Bytes), NEW t \in Seq(Bytes), NEW b \in Bytes, NEW c \in Bytes,
         Append(s, b) = Append(t, c)
  PROVE  s = t /\ b = c
BY AppendInjective

\* A frame determines what the receiver has taken of it.
LEMMA EncodeInjective ==
  ASSUME ParserOK, phase = "CrcHi", NEW m \in Messages, NEW b \in Bytes,
         Append(Taken, b) = Encode(m)
  PROVE  Received = m /\ rxCrc + b * Base = crc
<1> DEFINE covered == <<Len(m.payload), m.opcode>> \o m.payload
           sum == CrcOf(covered)
           lo == sum % Base
           hi == sum \div Base
<1>1. /\ m.opcode \in Bytes /\ m.payload \in Seq(Bytes)
      /\ m = [opcode |-> m.opcode, payload |-> m.payload]
  BY SentFacts
<1>2. /\ covered \in Seq(Bytes) /\ <<SOF>> \o covered \in Seq(Bytes)
      /\ sum \in Crcs /\ lo \in Bytes /\ hi \in Bytes
      /\ Encode(m) = Append(Append(<<SOF>> \o covered, lo), hi)
  BY SentFacts, EncodeFacts
<1>3. Taken = Append(<<SOF>> \o Covered, rxCrc) /\ rxCrc \in Bytes /\ crc = CrcOf(Covered)
  BY DEF Taken, ParserOK
<1>4. Covered \in Seq(Bytes) /\ <<SOF>> \o Covered \in Seq(Bytes) /\ <<SOF>> \in Seq(Bytes)
  BY CoveredFacts, ByteFacts
<1> DEFINE u == <<SOF>> \o Covered
           v == <<SOF>> \o covered
<1> HIDE DEF covered, lo, hi, u, v
<1>5. Append(u, rxCrc) = Append(v, lo) /\ b = hi
  <2> DEFINE x == Append(u, rxCrc)
             y == Append(v, lo)
  <2>1. x \in Seq(Bytes) /\ y \in Seq(Bytes)
    BY <1>2, <1>3, <1>4, AppendProperties DEF u, v
  <2>2. Append(x, b) = Append(y, hi) /\ hi \in Bytes
    BY <1>2, <1>3 DEF u, v
  <2> HIDE DEF x, y
  <2>3. x = y /\ b = hi
    BY <2>1, <2>2, AppendCancels
  <2> QED
    BY <2>3 DEF x, y
<1>6. <<SOF>> \o Covered = <<SOF>> \o covered /\ rxCrc = lo
  <2>1. u \in Seq(Bytes) /\ v \in Seq(Bytes)
    BY <1>2, <1>4 DEF u, v
  <2>2. u = v /\ rxCrc = lo
    BY <1>2, <1>3, <1>5, <2>1, AppendCancels
  <2> QED
    BY <2>2 DEF u, v
<1>7. Covered = covered
  BY <1>2, <1>4, <1>6, ConcatSimplifications
<1>8. crc = sum /\ crc = lo + hi * Base
  BY <1>2, <1>3, <1>7, CrcBytes DEF lo, hi
<1>9. length = Len(m.payload) /\ opcode = m.opcode /\ payload = m.payload
  <2>1. /\ <<length, opcode>> \in Seq(Bytes) /\ payload \in Seq(Bytes)
        /\ <<Len(m.payload), m.opcode>> \in Seq(Bytes)
    BY <1>1, SentFacts, ByteFacts DEF ParserOK
  <2>2. Covered[1] = length /\ Covered[2] = opcode
    BY <2>1, ConcatProperties DEF Covered
  <2>3. covered[1] = Len(m.payload) /\ covered[2] = m.opcode
    BY <1>1, <2>1, ConcatProperties DEF covered
  <2>4. length = Len(m.payload) /\ opcode = m.opcode
    BY <1>7, <2>2, <2>3
  <2>5. <<length, opcode>> \o payload = <<length, opcode>> \o m.payload
    BY <1>7, <2>4 DEF Covered, covered
  <2> QED
    BY <1>1, <2>1, <2>4, <2>5, ConcatSimplifications
<1> QED
  BY <1>1, <1>5, <1>6, <1>8, <1>9 DEF Received

\* The next byte of an undamaged frame keeps the receiver in step; the last one,
\* and no other, completes it.
LEMMA ArriveStep ==
  ASSUME IInv, Arrive
  PROVE  /\ IInv'
         /\ ~damaged => IF wire' = <<>> THEN complete' /\ Received' = sent ELSE ~complete'
<1> DEFINE b == Head(wire)
<1>1. /\ wire # <<>> /\ wire \in Seq(Bytes) /\ Feed(b) /\ wire' = Tail(wire)
      /\ sent' = (IF wire' = <<>> THEN NoMessage ELSE sent)
      /\ damaged' = (damaged /\ wire' # <<>>) /\ damaged \in BOOLEAN
      /\ sent \in Messages \cup {NoMessage}
  BY DEF Arrive, Transmit, IInv, LineOK
<1>2. b \in Bytes /\ Tail(wire) \in Seq(Bytes) /\ Len(Tail(wire)) = Len(wire) - 1
  BY <1>1, HeadAndTail
<1> HIDE DEF b
<1>3. ReceiverInv' /\ (Extends(b) \/ Begins(b) \/ Abandons \/ Completes(b))
  BY <1>1, <1>2, ReceiverStep DEF IInv
<1>4. LineOK'
  BY <1>1, <1>2 DEF LineOK
<1>5. CASE damaged
  BY <1>1, <1>3, <1>4, <1>5 DEF IInv, InStep
<1>6. CASE ~damaged /\ phase # "CrcHi"
  <2>1. /\ sent \in Messages /\ phase # "Sof" /\ Taken \o wire = Encode(sent) /\ Len(wire) > 1
        /\ phase = "Len" => b = Len(sent.payload)
    BY <1>1, <1>6, Position DEF b
  <2>2. ParserOK /\ Taken \in Seq(Bytes)
    BY TakenFacts DEF IInv, ReceiverInv
  <2>3. Extends(b)
    <3>1. phase = "Len" => phase' = "Opcode"
      <4>1. phase = "Len" => b \in 0..MaxPayload
        BY <2>1, SentFacts
      <4> QED
        BY <1>1, <4>1, FrameAssumption
           DEF Feed, AwaitSof, TakeLen, TakeOpcode, TakePayload, TakeCrcLo, TakeCrcHi
    <3> QED
      BY <1>3, <1>6, <2>1, <3>1 DEF Begins, Abandons, Completes
  <2>4. Taken' \o wire' = Encode(sent)
    BY <1>1, <2>1, <2>2, <2>3, HeadAndTail DEF Extends, b
  <2>5. wire' # <<>>
    <3>1. Len(wire') = Len(wire) - 1 /\ Len(wire) \in Nat /\ Len(<<>>) = 0
      BY <1>1, <1>2
    <3> QED
      BY <2>1, <3>1
  <2>6. ~complete' /\ phase' # "Sof" /\ sent' = sent
    BY <1>1, <2>3, <2>5 DEF Extends
  <2>7. InStep'
    <3>1. Encode(sent)' = Encode(sent)
      BY <2>6 DEF Encode, CrcOf
    <3> QED
      BY <2>1, <2>4, <2>6, <3>1 DEF InStep
  <2>8. IInv'
    BY <1>3, <1>4, <2>7 DEF IInv
  <2> QED
    BY <2>5, <2>6, <2>8
<1>7. CASE ~damaged /\ phase = "CrcHi"
  <2>1. sent \in Messages /\ Taken \o wire = Encode(sent) /\ Len(wire) = 1
    BY <1>1, <1>7, Position
  <2>2. ParserOK /\ Taken \in Seq(Bytes)
    BY TakenFacts DEF IInv, ReceiverInv
  <2>3. wire' = <<>>
    BY <1>1, <1>2, <2>1
  <2>4. Append(Taken, b) = Encode(sent)
    <3>1. Append(Taken, b) \o Tail(wire) = Taken \o wire /\ Append(Taken, b) \in Seq(Bytes)
      BY <1>1, <1>2, <2>2, HeadAndTail, AppendProperties DEF b
    <3> QED
      BY <1>1, <2>1, <2>3, <3>1, ConcatEmptySeq
  <2>5. Received = sent /\ rxCrc + b * Base = crc
    BY <1>2, <1>7, <2>1, <2>2, <2>4, EncodeInjective
  <2>6. TakeCrcHi(b)
    BY <1>1, <1>7 DEF Feed, AwaitSof, TakeLen, TakeOpcode, TakePayload, TakeCrcLo
  <2>7. complete' /\ Received' = sent
    BY <2>5, <2>6 DEF TakeCrcHi, Received
  <2> QED
    BY <1>3, <1>4, <2>3, <2>7 DEF IInv, InStep
<1> QED
  BY <1>1, <1>5, <1>6, <1>7

LEMMA CorruptStep ==
  ASSUME IInv, NEW b \in Bytes, Corrupt(b)
  PROVE  IInv'
<1>1. /\ wire # <<>> /\ wire \in Seq(Bytes) /\ Feed(b) /\ wire' = Tail(wire)
      /\ sent' = (IF wire' = <<>> THEN NoMessage ELSE sent)
      /\ damaged' = (wire' # <<>>) /\ sent \in Messages \cup {NoMessage}
  BY DEF Corrupt, Transmit, IInv, LineOK
<1>2. ReceiverInv'
  BY <1>1, ReceiverStep DEF IInv
<1>3. LineOK'
  <2>1. wire' \in Seq(Bytes)
    BY <1>1, HeadAndTail
  <2> QED
    BY <1>1, <2>1 DEF LineOK
<1>4. InStep'
  BY <1>1 DEF InStep
<1> QED
  BY <1>2, <1>3, <1>4 DEF IInv

LEMMA NoiseStep ==
  ASSUME IInv, NEW b \in NoiseBytes, Noise(b)
  PROVE  IInv'
<1>1. b \in Bytes /\ Feed(b) /\ wire' = <<>> /\ sent' = NoMessage /\ damaged' = FALSE
  BY FrameAssumption DEF Noise
<1>2. ReceiverInv'
  BY <1>1, ReceiverStep DEF IInv
<1>3. LineOK' /\ InStep'
  <2>1. <<>> \in Seq(Bytes)
    OBVIOUS
  <2> QED
    BY <1>1, <2>1 DEF LineOK, InStep
<1> QED
  BY <1>2, <1>3 DEF IInv

LEMMA InitIInv == Init => IInv
<1> SUFFICES ASSUME Init PROVE IInv
  OBVIOUS
<1>1. <<>> \in Seq(Bytes) /\ Len(<<>>) = 0 /\ 0 \in Bytes /\ 0 \in Crcs /\ 0 \in 0..MaxPayload
  BY FrameAssumption, ByteFacts DEF Bytes
<1>2. ParserOK
  <2>1. MaxPayload \in Nat /\ 0 <= MaxPayload
    BY FrameAssumption
  <2>2. /\ phase = "Sof" /\ length = 0 /\ opcode = 0 /\ payload = <<>> /\ crc = 0 /\ rxCrc = 0
        /\ complete = FALSE
    BY DEF Init
  <2> QED
    BY <1>1, <2>1, <2>2 DEF ParserOK
<1>3. Taken = <<>>
  BY DEF Init, Taken
<1>4. recent = <<>> /\ ~complete /\ wire = <<>> /\ sent = NoMessage /\ damaged = FALSE
  BY DEF Init
<1>5. ReceiverInv
  BY <1>1, <1>2, <1>3, <1>4, ByteFacts DEF ReceiverInv, EndsWith
<1>6. LineOK /\ InStep
  BY <1>1, <1>4 DEF LineOK, InStep
<1> QED
  BY <1>5, <1>6 DEF IInv

LEMMA StepIInv == IInv /\ [Next]_vars => IInv'
<1>1. ASSUME IInv, UNCHANGED vars PROVE IInv'
  <2>1. UNCHANGED <<parser, line, recent>> /\ UNCHANGED <<phase, length, opcode, payload, crc, rxCrc, complete>>
        /\ UNCHANGED <<wire, sent, damaged>>
    BY <1>1 DEF vars, parser, line
  <2>2. Covered' = Covered /\ Received' = Received
    BY <2>1 DEF Covered, Received
  <2>3. Taken' = Taken
    BY <2>1, <2>2 DEF Taken
  <2>4. Encode(Received)' = Encode(Received) /\ Encode(sent)' = Encode(sent)
    BY <2>1, <2>2 DEF Encode, CrcOf
  <2>5. ParserOK'
    BY <1>1, <2>1, <2>2 DEF IInv, ReceiverInv, ParserOK
  <2>6. ReceiverInv'
    BY <1>1, <2>1, <2>3, <2>4, <2>5 DEF IInv, ReceiverInv
  <2> QED
    BY <1>1, <2>1, <2>3, <2>4, <2>6 DEF IInv, LineOK, InStep
<1> QED
  BY <1>1, ArriveStep, NoiseStep, CorruptStep, SendStep DEF Next

-----------------------------------------------------------------------------
(* Damage *)

\* A damaged frame keeps its shape, LEN being whole. As long as the CRC is still
\* being formed it differs from the one of the bytes u that were sent; then the
\* CRC that is arriving will not be it.
DamageInv ==
  damaged =>
    /\ phase \in {"Payload", "CrcLo", "CrcHi"}
    /\ wire # <<>> /\ sent \in Messages /\ length = Len(sent.payload)
    /\ phase \in {"Payload", "CrcLo"} =>
         \E u \in Seq(Bytes) : /\ Len(u) = Len(payload) + 2
                               /\ (<<SOF>> \o u) \o wire = Encode(sent)
                               /\ CrcOf(u) # crc
    /\ phase = "CrcHi" => Len(wire) = 1 /\ rxCrc + Head(wire) * Base # crc

LEMMA ConcatCancels ==
  ASSUME NEW s \in Seq(Bytes), NEW t \in Seq(Bytes), NEW u \in Seq(Bytes), NEW v \in Seq(Bytes),
         s \o t = u \o v, Len(s) = Len(u)
  PROVE  s = u /\ t = v
<1>1. Len(t) = Len(v) /\ Len(s) \in Nat /\ Len(t) \in Nat
  BY ConcatProperties
<1>2. \A i \in 1..Len(s) : s[i] = u[i]
  <2>1. ASSUME NEW i \in 1..Len(s) PROVE s[i] = u[i]
    <3>1. (s \o t)[i] = s[i] /\ (u \o v)[i] = u[i]
      BY <1>1, ConcatProperties
    <3> QED
      BY <3>1
  <2> QED
    BY <2>1
<1>3. \A i \in 1..Len(t) : t[i] = v[i]
  <2>1. ASSUME NEW i \in 1..Len(t) PROVE t[i] = v[i]
    <3>1. /\ i \in 1..Len(v) /\ Len(s) + i \in 1..(Len(s) + Len(t)) /\ ~(Len(s) + i <= Len(s))
          /\ (Len(s) + i) - Len(s) = i
      BY <1>1
    <3>2. (s \o t)[Len(s) + i] = t[i]
      BY <1>1, <3>1, ConcatProperties
    <3>3. (u \o v)[Len(s) + i] = v[i]
      BY <1>1, <3>1, ConcatProperties
    <3> QED
      BY <3>2, <3>3
  <2> QED
    BY <2>1
<1> QED
  BY <1>1, <1>2, <1>3, SeqEqual

\* What follows the covered bytes of a frame is their CRC, low byte first.
LEMMA ChecksumFollows ==
  ASSUME NEW m \in Messages, NEW u \in Seq(Bytes), NEW w \in Seq(Bytes),
         Len(u) = Len(m.payload) + 2, (<<SOF>> \o u) \o w = Encode(m)
  PROVE  /\ Len(w) = 2 /\ w[1] + w[2] * Base = CrcOf(u)
         /\ Head(w) = w[1] /\ Len(Tail(w)) = 1 /\ Head(Tail(w)) = w[2]
         /\ w[1] \in Bytes /\ w[2] \in Bytes
<1> DEFINE covered == <<Len(m.payload), m.opcode>> \o m.payload
           sum == CrcOf(covered)
           lo == sum % Base
           hi == sum \div Base
           head == <<SOF>> \o covered
           begin == <<SOF>> \o u
<1>1. /\ covered \in Seq(Bytes) /\ Len(covered) = Len(m.payload) + 2
      /\ head \in Seq(Bytes) /\ sum \in Crcs /\ lo \in Bytes /\ hi \in Bytes
      /\ Encode(m) = Append(Append(head, lo), hi)
  BY SentFacts, EncodeFacts
<1>2. sum = lo + hi * Base
  BY <1>1, CrcBytes
<1>3. <<SOF>> \in Seq(Bytes) /\ begin \in Seq(Bytes)
  BY ByteFacts, ConcatProperties
<1>4. Len(begin) = Len(u) + 1 /\ Len(head) = Len(covered) + 1
  BY <1>1, <1>3, ConcatProperties
<1>5. Append(Append(head, lo), hi) = head \o <<lo, hi>> /\ <<lo, hi>> \in Seq(Bytes)
  <2> HIDE DEF head, lo, hi
  <2>1. head \in Seq(Bytes) /\ lo \in Bytes /\ hi \in Bytes
    BY <1>1
  <2>2. Append(Append(head, lo), hi) = head \o <<lo, hi>>
    BY <2>1
  <2> QED
    BY <2>1, <2>2
<1>6. begin = head /\ w = <<lo, hi>>
  <2>1. begin \o w = head \o <<lo, hi>> /\ Len(begin) = Len(head)
    BY <1>1, <1>4, <1>5
  <2> HIDE DEF begin, head, lo, hi
  <2> QED
    BY <1>1, <1>3, <1>5, <2>1, ConcatCancels
<1>7. u = covered
  <2> HIDE DEF covered
  <2> QED
    BY <1>1, <1>3, <1>6, ConcatSimplifications
<1>8. CrcOf(u) = sum
  BY <1>7
<1> HIDE DEF lo, hi, sum
<1>9. w[1] = lo /\ w[2] = hi /\ Len(w) = 2 /\ Head(w) = lo /\ Tail(w) = <<hi>>
  BY <1>6
<1> QED
  BY <1>1, <1>2, <1>8, <1>9

LEMMA CrcUpdateInjective ==
  ASSUME NEW c1 \in Crcs, NEW c2 \in Crcs, NEW b1 \in Bytes, NEW b2 \in Bytes,
         (c1 # c2 /\ b1 = b2) \/ (c1 = c2 /\ b1 # b2)
  PROVE  CrcUpdate(c1, b1) # CrcUpdate(c2, b2)
BY CrcAssumption

\* While the CRC is still being formed, a frame of which the bytes u were sent,
\* and b' arrives for the byte c: the CRC goes on to differ, or begins to.
LEMMA ByteOfDamaged ==
  ASSUME ReceiverInv, NEW b \in Bytes, Feed(b), phase \in {"Opcode", "Payload"},
         NEW m \in Messages, length = Len(m.payload),
         NEW u \in Seq(Bytes), Len(u) = Len(Taken) - 1, wire \in Seq(Bytes), wire # <<>>,
         (<<SOF>> \o u) \o wire = Encode(m),
         (CrcOf(u) # crc /\ b = Head(wire)) \/ (CrcOf(u) = crc /\ b # Head(wire)),
         wire' = Tail(wire), sent' = m
  PROVE  DamageInv'
<1>1. ReceiverInv' /\ ParserOK /\ ParserOK' /\ Taken \in Seq(Bytes)
  BY ReceiverStep, TakenFacts DEF ReceiverInv
<1>2. Head(wire) \in Bytes /\ Tail(wire) \in Seq(Bytes) /\ Len(Tail(wire)) = Len(wire) - 1
  BY HeadAndTail
<1>3. /\ phase' \in {"CrcLo", "Payload"} /\ length' = length /\ crc' = CrcUpdate(crc, b)
      /\ payload' = (IF phase = "Opcode" THEN <<>> ELSE Append(payload, b))
  BY DEF Feed, AwaitSof, TakeLen, TakeOpcode, TakePayload, TakeCrcLo, TakeCrcHi
<1> DEFINE v == Append(u, Head(wire))
<1>4. v \in Seq(Bytes) /\ Len(v) = Len(u) + 1 /\ CrcOf(v) = CrcUpdate(CrcOf(u), Head(wire))
  BY <1>2, AppendProperties, CrcAppend
<1>5. CrcOf(v) # crc'
  BY <1>1, <1>2, <1>3, <1>4, CrcType, CrcUpdateInjective DEF ParserOK
<1>6. Len(v) = Len(payload') + 2
  <2> HIDE DEF v
  <2>1. CASE phase = "Opcode"
    <3>1. Len(Taken) = 2 /\ payload' = <<>> /\ Len(<<>>) = 0
      BY <1>1, <1>3, <2>1, TakenFacts
    <3> QED
      BY <1>4, <3>1
  <2>2. CASE phase = "Payload"
    <3>1. Len(Taken) = Len(payload) + 3 /\ payload' = Append(payload, b) /\ payload \in Seq(Bytes)
      BY <1>1, <1>3, <2>2, TakenFacts DEF ParserOK
    <3>2. Len(payload') = Len(payload) + 1 /\ Len(payload) \in Nat
      BY <3>1, AppendProperties
    <3> QED
      BY <1>4, <3>1, <3>2
  <2> QED
    BY <2>1, <2>2
<1>7. (<<SOF>> \o v) \o wire' = Encode(m)
  <2>1. /\ <<SOF>> \in Seq(Bytes) /\ <<SOF>> \o u \in Seq(Bytes)
        /\ <<SOF>> \o v = Append(<<SOF>> \o u, Head(wire))
    BY <1>2, ByteFacts, ConcatAppend, ConcatProperties
  <2> QED
    BY <2>1, HeadAndTail
<1>8. wire' # <<>>
  <2>1. <<SOF>> \in Seq(Bytes) /\ <<SOF>> \o v \in Seq(Bytes) /\ Len(<<SOF>> \o v) = Len(v) + 1
    BY <1>4, ByteFacts, ConcatProperties
  <2>2. Len(v) <= Len(m.payload) + 2
    BY <1>1, <1>3, <1>6 DEF ParserOK
  <2>3. Len(Encode(m)) = Len(m.payload) + 5 /\ Len(m.payload) \in Nat
    BY SentFacts
  <2>4. ASSUME wire' = <<>> PROVE FALSE
    <3>1. Encode(m) = <<SOF>> \o v
      BY <1>7, <2>1, <2>4, ConcatEmptySeq
    <3> QED
      BY <1>4, <2>1, <2>2, <2>3, <3>1
  <2> QED
    BY <2>4
<1>9. Encode(sent)' = Encode(m)
  BY DEF Encode, CrcOf
<1> HIDE DEF v
<1> QED
  BY <1>3, <1>4, <1>5, <1>6, <1>7, <1>8, <1>9 DEF DamageInv

LEMMA CrcLoOfDamaged ==
  ASSUME ReceiverInv, NEW b \in Bytes, Feed(b), phase = "CrcLo",
         NEW m \in Messages, length = Len(m.payload),
         NEW u \in Seq(Bytes), Len(u) = Len(payload) + 2, wire \in Seq(Bytes),
         (<<SOF>> \o u) \o wire = Encode(m),
         (CrcOf(u) # crc /\ b = Head(wire)) \/ (CrcOf(u) = crc /\ b # Head(wire)),
         wire' = Tail(wire), sent' = m
  PROVE  DamageInv'
<1>1. Len(payload) = length /\ crc \in Crcs
  BY DEF ReceiverInv, ParserOK
<1>2. /\ Len(wire) = 2 /\ wire[1] + wire[2] * Base = CrcOf(u)
      /\ Head(wire) = wire[1] /\ Len(Tail(wire)) = 1 /\ Head(Tail(wire)) = wire[2]
      /\ wire[1] \in Bytes /\ wire[2] \in Bytes
  BY <1>1, ChecksumFollows
<1>3. phase' = "CrcHi" /\ length' = length /\ crc' = crc /\ rxCrc' = b
  BY DEF Feed, AwaitSof, TakeLen, TakeOpcode, TakePayload, TakeCrcLo, TakeCrcHi
<1>4. wire' # <<>> /\ Len(wire') = 1 /\ Head(wire') = wire[2]
  <2>1. Len(wire') = 1 /\ Head(wire') = wire[2]
    BY <1>2
  <2>2. wire # <<>>
    BY <1>2
  <2>3. wire' \in Seq(Bytes)
    BY <2>2, HeadAndTail
  <2>4. wire' # <<>>
    <3>1. ASSUME wire' = <<>> PROVE FALSE
      <4> DEFINE w == wire'
      <4>1. w = <<>> /\ Len(w) = 1
        BY <2>1, <3>1
      <4> HIDE DEF w
      <4> QED
        BY <4>1
    <3> QED
      BY <3>1
  <2> QED
    BY <2>1, <2>4
<1>5. b + wire[2] * Base # crc
  <2> DEFINE lo == wire[1]
             hi == wire[2] * Base
  <2>1. hi \in Int /\ b \in Int /\ lo \in Int /\ lo + hi = CrcOf(u)
    BY <1>2, FrameAssumption DEF Bytes
  <2>2. (CrcOf(u) # crc /\ b = lo) \/ (CrcOf(u) = crc /\ b # lo)
    BY <1>2
  <2> HIDE DEF lo, hi
  <2>3. b + hi # crc
    BY <2>1, <2>2
  <2> QED
    BY <2>3 DEF hi
<1> QED
  BY <1>3, <1>4, <1>5 DEF DamageInv

\* The last byte of a damaged frame arrives as it was sent: it does not match.
LEMMA DamagedArrives ==
  ASSUME IInv, DamageInv, damaged, Arrive
  PROVE  DamageInv' /\ ~complete'
<1> DEFINE b == Head(wire)
<1>1. /\ wire # <<>> /\ wire \in Seq(Bytes) /\ Feed(b) /\ wire' = Tail(wire)
      /\ sent' = (IF wire' = <<>> THEN NoMessage ELSE sent)
      /\ damaged' = (damaged /\ wire' # <<>>) /\ b \in Bytes
  BY HeadAndTail DEF Arrive, Transmit, IInv, LineOK
<1>2. ReceiverInv /\ ParserOK /\ sent \in Messages /\ length = Len(sent.payload)
      /\ phase \in {"Payload", "CrcLo", "CrcHi"}
  BY DEF IInv, ReceiverInv, DamageInv
<1>3. CASE wire' = <<>>
  <2>1. DamageInv'
    BY <1>1, <1>3 DEF DamageInv
  <2>2. CASE phase = "CrcHi"
    <3>1. complete' = (rxCrc + b * Base = crc)
      BY <1>1, <2>2 DEF Feed, AwaitSof, TakeLen, TakeOpcode, TakePayload, TakeCrcLo, TakeCrcHi
    <3> QED
      BY <2>1, <2>2, <3>1 DEF DamageInv
  <2>3. CASE phase # "CrcHi"
    <3>1. ~complete'
      BY <1>1, <1>2, <2>3 DEF Feed, AwaitSof, TakeLen, TakeOpcode, TakePayload, TakeCrcLo, TakeCrcHi
    <3> QED
      BY <2>1, <3>1
  <2> QED
    BY <2>2, <2>3
<1>4. CASE wire' # <<>>
  <2>1. phase # "CrcHi"
    <3>1. Len(wire') = Len(wire) - 1 /\ wire' \in Seq(Bytes)
      BY <1>1, HeadAndTail
    <3>2. Len(wire') # 0
      BY <1>4, <3>1
    <3> QED
      BY <1>1, <3>1, <3>2 DEF DamageInv
  <2>2. ~complete'
    BY <1>1, <1>2, <2>1 DEF Feed, AwaitSof, TakeLen, TakeOpcode, TakePayload, TakeCrcLo, TakeCrcHi
  <2>3. PICK u \in Seq(Bytes) : /\ Len(u) = Len(payload) + 2
                                /\ (<<SOF>> \o u) \o wire = Encode(sent)
                                /\ CrcOf(u) # crc
    BY <1>2, <2>1 DEF DamageInv
  <2>4. sent' = sent
    BY <1>1, <1>4
  <2>5. CASE phase = "Payload"
    <3>1. Len(Taken) = Len(payload) + 3 /\ payload \in Seq(Bytes)
      BY <1>2, <2>5, TakenFacts DEF ParserOK
    <3>2. Len(u) = Len(Taken) - 1
      BY <2>3, <3>1
    <3> QED
      BY <1>1, <1>2, <2>2, <2>3, <2>4, <2>5, <3>2, ByteOfDamaged
  <2>6. CASE phase = "CrcLo"
    BY <1>1, <1>2, <2>2, <2>3, <2>4, <2>6, CrcLoOfDamaged
  <2> QED
    BY <1>2, <2>1, <2>5, <2>6
<1> QED
  BY <1>3, <1>4

LEMMA ByteIsDamaged ==
  ASSUME IInv, NEW b \in Bytes, Corrupt(b)
  PROVE  DamageInv' /\ ~complete'
<1>1. /\ wire # <<>> /\ wire \in Seq(Bytes) /\ Feed(b) /\ wire' = Tail(wire) /\ ~damaged
      /\ sent' = (IF wire' = <<>> THEN NoMessage ELSE sent)
      /\ damaged' = (wire' # <<>>) /\ Head(wire) \in Bytes
      /\ Len(wire) <= Len(sent.payload) + 3 /\ b # Head(wire)
  BY HeadAndTail DEF Corrupt, Transmit, IInv, LineOK
<1>2. ReceiverInv /\ ParserOK /\ Taken \in Seq(Bytes)
  BY TakenFacts DEF IInv, ReceiverInv
<1>3. /\ Len(Taken) + Len(wire) = Len(sent.payload) + 5
      /\ phase \notin {"Sof", "Len"} => length = Len(sent.payload)
      /\ phase # "CrcHi" => Len(wire) > 1
      /\ phase = "CrcHi" => Len(wire) = 1
      /\ sent \in Messages /\ phase # "Sof" /\ Taken \o wire = Encode(sent)
  BY <1>1, Position
<1>4. phase # "Len"
  <2> DEFINE t == Len(Taken)
             w == Len(wire)
             n == Len(sent.payload)
  <2>1. n \in Nat /\ w \in Nat /\ t \in Nat /\ t + w = n + 5 /\ w <= n + 3
    BY <1>1, <1>2, <1>3, SentFacts
  <2>2. phase = "Len" => t = 1
    BY <1>2, TakenFacts
  <2> HIDE DEF t, w, n
  <2>3. t # 1
    BY <2>1
  <2> QED
    BY <2>2, <2>3
<1>5. CASE phase = "CrcHi"
  <2>1. wire' \in Seq(Bytes) /\ Len(wire') = 0
    BY <1>1, <1>3, <1>5, HeadAndTail
  <2>2. wire' = <<>>
    BY <2>1, EmptySeq
  <2>3. Append(Taken, Head(wire)) = Encode(sent)
    <3>1. Append(Taken, Head(wire)) \o wire' = Taken \o wire /\ Append(Taken, Head(wire)) \in Seq(Bytes)
      BY <1>1, <1>2, HeadAndTail, AppendProperties
    <3> QED
      BY <1>3, <2>2, <3>1, ConcatEmptySeq
  <2>4. rxCrc + Head(wire) * Base = crc
    BY <1>1, <1>2, <1>3, <1>5, <2>3, EncodeInjective
  <2>5. rxCrc \in Bytes
    BY <1>2, <1>5 DEF ParserOK
  <2>6. rxCrc + b * Base # crc
    <3> DEFINE h == Head(wire)
    <3>1. h \in Int /\ b \in Int /\ b # h /\ rxCrc \in Int /\ Base \in Nat \ {0} /\ rxCrc + h * Base = crc
      BY <1>1, <2>4, <2>5, FrameAssumption DEF Bytes
    <3> HIDE DEF h
    <3>2. h * Base \in Int /\ b * Base \in Int /\ b * Base # h * Base
      BY <3>1
    <3> DEFINE p == h * Base
               q == b * Base
    <3> HIDE DEF p, q
    <3>3. p \in Int /\ q \in Int /\ p # q /\ rxCrc \in Int /\ rxCrc + p = crc
      BY <3>1, <3>2 DEF p, q
    <3>4. rxCrc + q # crc
      BY <3>3
    <3> QED
      BY <3>4 DEF q
  <2>7. complete' = (rxCrc + b * Base = crc)
    BY <1>1, <1>5 DEF Feed, AwaitSof, TakeLen, TakeOpcode, TakePayload, TakeCrcLo, TakeCrcHi
  <2> QED
    BY <1>1, <2>2, <2>6, <2>7 DEF DamageInv
<1>6. CASE phase # "CrcHi"
  <2>1. ~complete'
    BY <1>1, <1>2, <1>6 DEF Feed, AwaitSof, TakeLen, TakeOpcode, TakePayload, TakeCrcLo, TakeCrcHi
  <2>2. sent' = sent
    <3>1. wire' \in Seq(Bytes) /\ Len(wire') = Len(wire) - 1 /\ Len(wire) \in Nat
      BY <1>1, HeadAndTail
    <3>2. Len(wire') > 0
      BY <1>3, <1>6, <3>1
    <3>3. wire' # <<>>
      <4>1. ASSUME wire' = <<>> PROVE FALSE
        <5> DEFINE w == wire'
        <5>1. w = <<>> /\ Len(w) > 0
          BY <3>2, <4>1
        <5> HIDE DEF w
        <5> QED
          BY <5>1
      <4> QED
        BY <4>1
    <3> QED
      BY <1>1, <3>3
  <2>3. phase \in {"Opcode", "Payload", "CrcLo"} /\ length = Len(sent.payload)
    BY <1>2, <1>3, <1>4, <1>6 DEF ParserOK
  <2>4. CASE phase = "Opcode"
    <3>a. length \in Bytes /\ SOF \in Bytes /\ Taken = <<SOF, length>> /\ CrcOf(<<length>>) = crc
      BY <1>2, <2>4, ByteFacts DEF ParserOK, Taken
    <3>b. <<SOF>> \o <<length>> = <<SOF, length>> /\ Len(<<length>>) = 1 /\ <<length>> \in Seq(Bytes)
      <4> DEFINE n == length
      <4>0. SOF \in Bytes /\ n \in Bytes
        BY <3>a
      <4> HIDE DEF n
      <4>1. <<SOF>> \in Seq(Bytes) /\ <<n>> \in Seq(Bytes) /\ <<SOF, n>> = Append(<<SOF>>, n)
        BY <4>0
      <4>2. Append(<<SOF>>, n) = <<SOF>> \o <<n>>
        BY <4>0, <4>1, AppendIsConcat
      <4>3. Len(<<n>>) = 1
        OBVIOUS
      <4> QED
        BY <4>1, <4>2, <4>3 DEF n
    <3>c. Len(Taken) = 2
      BY <1>2, <2>4, TakenFacts
    <3>1. /\ <<length>> \in Seq(Bytes) /\ Len(<<length>>) = Len(Taken) - 1
          /\ <<SOF>> \o <<length>> = Taken /\ CrcOf(<<length>>) = crc
      BY <3>a, <3>b, <3>c
    <3> DEFINE u == <<length>>
    <3> HIDE DEF u
    <3>2. u \in Seq(Bytes) /\ Len(u) = Len(Taken) - 1 /\ (<<SOF>> \o u) \o wire = Encode(sent)
          /\ CrcOf(u) = crc
      BY <1>3, <3>1 DEF u
    <3> QED
      BY <1>1, <1>2, <1>3, <2>1, <2>2, <2>3, <2>4, <3>2, ByteOfDamaged
  <2>5. CASE phase \in {"Payload", "CrcLo"}
    <3>1. /\ Covered \in Seq(Bytes) /\ Len(Covered) = Len(payload) + 2
          /\ <<SOF>> \o Covered = Taken /\ CrcOf(Covered) = crc /\ Len(Taken) = Len(payload) + 3
      BY <1>2, <2>5, CoveredFacts, TakenFacts DEF ParserOK, Taken
    <3>2. (<<SOF>> \o Covered) \o wire = Encode(sent) /\ Len(Covered) = Len(Taken) - 1
      <4> DEFINE n == Len(payload)
      <4>1. n \in Nat /\ Len(Covered) = n + 2 /\ Len(Taken) = n + 3
        BY <1>2, <3>1 DEF ParserOK
      <4> HIDE DEF n
      <4>2. Len(Covered) = Len(Taken) - 1
        BY <4>1
      <4> QED
        BY <1>3, <3>1, <4>2
    <3>3. CASE phase = "Payload"
      BY <1>1, <1>2, <1>3, <2>1, <2>2, <2>3, <3>1, <3>2, <3>3, ByteOfDamaged
    <3>4. CASE phase = "CrcLo"
      BY <1>1, <1>2, <1>3, <2>1, <2>2, <2>3, <3>1, <3>2, <3>4, CrcLoOfDamaged
    <3> QED
      BY <2>5, <3>3, <3>4
  <2> QED
    BY <2>3, <2>4, <2>5
<1> QED
  BY <1>5, <1>6

LEMMA DamageStep ==
  ASSUME IInv, DamageInv, [Next]_vars
  PROVE  /\ DamageInv'
         /\ (damaged /\ Arrive) \/ (\E b \in Bytes : Corrupt(b)) => ~complete'
<1>1. ASSUME UNCHANGED vars
      PROVE  DamageInv'
  <2>1. UNCHANGED <<phase, length, payload, crc, rxCrc, wire, sent, damaged>>
    BY <1>1 DEF vars, parser, line
  <2>2. Encode(sent)' = Encode(sent)
    BY <2>1 DEF Encode, CrcOf
  <2> QED
    BY <2>1, <2>2 DEF DamageInv
<1>2. ASSUME NEW b \in NoiseBytes, Noise(b)
      PROVE  DamageInv'
  BY <1>2 DEF Noise, DamageInv
<1>3. ASSUME NEW m \in Messages, Send(m)
      PROVE  DamageInv'
  BY <1>3 DEF Send, DamageInv
<1>4. ASSUME Arrive, ~damaged
      PROVE  DamageInv'
  BY <1>4 DEF Arrive, Transmit, DamageInv
<1> QED
  BY <1>1, <1>2, <1>3, <1>4, DamagedArrives, ByteIsDamaged DEF Next, IInv, LineOK

-----------------------------------------------------------------------------
(* The theorems *)

THEOREM Invariance == Spec => []IInv
BY InitIInv, StepIInv, PTL DEF Spec

THEOREM TypeCorrect == Spec => []TypeOK
<1>1. IInv => TypeOK
  BY DEF IInv, ReceiverInv, ParserOK, LineOK, TypeOK
<1> QED
  BY <1>1, Invariance, PTL

\* Nothing is handed out but what has just been received, byte for byte.
THEOREM NothingForged == Spec => []NoForgedFrame
<1>1. ASSUME IInv, complete
      PROVE  LastOf(recent, Len(payload) + 5) = Encode(Received)
  <2>1. Received.opcode \in Bytes /\ Received.payload \in Seq(Bytes) /\ Len(Received.payload) <= MaxPayload
        /\ Received.payload = payload
    BY <1>1 DEF IInv, ReceiverInv, ParserOK, Received
  <2>2. Encode(Received) \in Seq(Bytes) /\ Len(Encode(Received)) = Len(payload) + 5
    BY <2>1, EncodeFacts
  <2> QED
    BY <1>1, <2>2, LastOfEnding DEF IInv, ReceiverInv
<1>2. IInv => NoForgedFrame
  BY <1>1 DEF NoForgedFrame
<1> QED
  BY <1>2, Invariance, PTL

\* A parser that takes bytes for a frame has seen an SOF in the last of them.
THEOREM Resync == Spec => []ResyncIsBounded
<1>1. ASSUME IInv, phase # "Sof"
      PROVE  SOF \in ToSet(LastOf(recent, FrameMax - 1))
  <2> DEFINE cut == LastOf(recent, FrameMax - 1)
  <2>1. /\ Taken \in Seq(Bytes) /\ Len(Taken) < FrameMax /\ Len(Taken) > 0 /\ Taken[1] = SOF
        /\ FrameMax \in Nat /\ recent \in Seq(Bytes) /\ EndsWith(recent, Taken)
    BY <1>1, TakenFacts, ByteFacts DEF IInv, ReceiverInv
  <2>2. FrameMax - 1 \in Nat /\ Len(Taken) <= FrameMax - 1
    BY <2>1
  <2>3. EndsWith(cut, Taken) /\ cut \in Seq(Bytes)
    BY <2>1, <2>2, EndingOfCut, LastOfFacts
  <2> HIDE DEF cut
  <2>4. Len(cut) - Len(Taken) + 1 \in DOMAIN cut /\ cut[Len(cut) - Len(Taken) + 1] = SOF
    BY <2>1, <2>3 DEF EndsWith
  <2>5. SOF \in ToSet(cut)
    BY <2>4 DEF ToSet
  <2> QED
    BY <2>5 DEF cut
<1>2. IInv => ResyncIsBounded
  BY <1>1 DEF ResyncIsBounded
<1> QED
  BY <1>2, Invariance, PTL

\* An undamaged frame that begins while the parser hunts for one is handed out,
\* on its last byte and on no other.
THEOREM GetsThrough == Spec => FrameGetsThrough
<1>1. ASSUME IInv, [Next]_vars
      PROVE  [Arrive /\ ~damaged =>
                IF wire' = <<>> THEN complete' /\ Received' = sent ELSE ~complete']_vars
  BY <1>1, ArriveStep
<1> QED
  BY <1>1, Invariance, PTL DEF Spec, FrameGetsThrough

\* A frame with a byte changed behind LEN is not handed out as anything, given a
\* CRC whose updates are one-to-one.
THEOREM DamageShows == Spec => DamageIsDetected
<1>1. Init => DamageInv
  BY DEF Init, DamageInv
<1>2. Spec => []DamageInv
  BY <1>1, DamageStep, Invariance, PTL DEF Spec
<1>3. ASSUME IInv, DamageInv, [Next]_vars
      PROVE  [(damaged /\ Arrive) \/ (\E b \in Bytes : Corrupt(b)) => ~complete']_vars
  BY <1>3, DamageStep
<1> QED
  BY <1>2, <1>3, Invariance, PTL DEF Spec, DamageIsDetected
=============================================================================
