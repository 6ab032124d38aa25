----------------------------- MODULE FrameParser -----------------------------
(***************************************************************************)
(* proto::FrameParser and encode_frame (src/communication/protocol.hpp):   *)
(* the byte-at-a-time receiver, fed by a serial line that carries whole    *)
(* frames, frames with a byte damaged, and anything at all: noise, the     *)
(* rest of a frame whose beginning was lost, a frame cut short.            *)
(*                                                                         *)
(* The CRC is a parameter: the control flow does not depend on which one   *)
(* it is. Crc16 has the firmware's.                                        *)
(***************************************************************************)
EXTENDS Integers, SequencesExt

CONSTANTS
  Base,              (* byte values: 0..Base-1 (256)                      *)
  SOF,               (* cfg::SOF                                          *)
  MaxPayload,        (* cfg::MAX_PAYLOAD                                  *)
  CrcUpdate(_, _),   (* crc16_update                                      *)
  Messages,          (* the frames the sender sends: [opcode, payload]    *)
  NoiseBytes         (* the bytes noise may consist of                    *)

Bytes == 0..(Base - 1)
Crcs  == 0..(Base * Base - 1)

ASSUME FrameAssumption ==
  /\ Base \in Nat \ {0}
  /\ SOF \in Bytes
  /\ MaxPayload \in Nat
  /\ MaxPayload < SOF     \* an SOF is never a plausible length
  /\ \A c \in Crcs, b \in Bytes : CrcUpdate(c, b) \in Crcs
  /\ Messages \subseteq [opcode : Bytes, payload : Seq(Bytes)]
  /\ \A m \in Messages : Len(m.payload) <= MaxPayload
  /\ NoiseBytes \subseteq Bytes

\* An update is one-to-one: the bytes are folded into the CRC, and shifted by a
\* polynomial that loses no bit.
ASSUME CrcAssumption ==
  \A c1, c2 \in Crcs, b1, b2 \in Bytes :
     CrcUpdate(c1, b1) = CrcUpdate(c2, b2) => (c1 = c2 <=> b1 = b2)

VARIABLES
  phase,     (* phase_                                                    *)
  length,    (* length_                                                   *)
  opcode,    (* opcode_                                                   *)
  payload,   (* the first idx_ bytes of payload_                          *)
  crc,       (* crc_                                                      *)
  rxCrc,     (* rx_crc_                                                   *)
  complete,  (* what feed() returned for the last byte                    *)
  wire,      (* what is still to arrive of the frame under way            *)
  sent,      (* the message in that frame, NoMessage between frames       *)
  damaged,   (* has a byte of that frame been changed on the way          *)
  recent     (* the bytes received since the parser last hunted for an
                SOF, the last FrameMax of them at most                    *)

parser == <<phase, length, opcode, payload, crc, rxCrc, complete>>
line   == <<wire, sent, damaged>>
vars   == <<parser, line, recent>>

FrameMax == MaxPayload + 5

NoMessage == [opcode |-> 0, payload |-> <<>>]

TypeOK ==
  /\ phase \in {"Sof", "Len", "Opcode", "Payload", "CrcLo", "CrcHi"}
  /\ length \in 0..MaxPayload
  /\ opcode \in Bytes
  /\ payload \in Seq(Bytes)
  /\ Len(payload) <= MaxPayload
  /\ phase = "Payload" => Len(payload) < length
  /\ crc \in Crcs /\ rxCrc \in Crcs
  /\ complete \in BOOLEAN /\ damaged \in BOOLEAN
  /\ wire \in Seq(Bytes) /\ sent \in Messages \cup {NoMessage}
  /\ recent \in Seq(Bytes) /\ Len(recent) <= FrameMax

-----------------------------------------------------------------------------
(* Encoding *)

InitialCrc == Base * Base - 1

CrcOf(s) ==
  LET After[i \in 0..Len(s)] ==
        IF i = 0 THEN InitialCrc ELSE CrcUpdate(After[i - 1], s[i])
  IN  After[Len(s)]

\* LEN, the opcode and the payload are covered by the CRC; it travels low byte
\* first.
Encode(m) ==
  LET covered  == <<Len(m.payload), m.opcode>> \o m.payload
      checksum == CrcOf(covered)
  IN  <<SOF>> \o covered \o <<checksum % Base, checksum \div Base>>

-----------------------------------------------------------------------------
(* feed(), phase by phase *)

AwaitSof(b) ==
  /\ phase = "Sof"
  /\ phase' = IF b = SOF THEN "Len" ELSE "Sof"
  /\ complete' = FALSE
  /\ UNCHANGED <<length, opcode, payload, crc, rxCrc>>

TakeLen_Unchecked(b) ==
  /\ phase = "Len" /\ phase' = "Opcode"
  /\ length' = b /\ crc' = CrcUpdate(InitialCrc, b)
  /\ complete' = FALSE
  /\ UNCHANGED <<opcode, payload, rxCrc>>

TakeLen_DropsSof(b) ==
  /\ phase = "Len"
  /\ IF b > MaxPayload
     THEN phase' = "Sof" /\ UNCHANGED <<length, crc>>
     ELSE phase' = "Opcode" /\ length' = b /\ crc' = CrcUpdate(InitialCrc, b)
  /\ complete' = FALSE
  /\ UNCHANGED <<opcode, payload, rxCrc>>

\* An implausible length starts the hunt again, and may itself be the SOF.
TakeLen(b) ==
  /\ phase = "Len"
  /\ \/ /\ b > MaxPayload
        /\ phase' = IF b = SOF THEN "Len" ELSE "Sof"
        /\ UNCHANGED <<length, crc>>
     \/ /\ b <= MaxPayload
        /\ length' = b
        /\ crc' = CrcUpdate(InitialCrc, b)
        /\ phase' = "Opcode"
  /\ complete' = FALSE
  /\ UNCHANGED <<opcode, payload, rxCrc>>

TakeOpcode_KeepsIndex(b) ==
  /\ phase = "Opcode"
  /\ opcode' = b /\ crc' = CrcUpdate(crc, b)
  /\ phase' = IF length = 0 THEN "CrcLo" ELSE "Payload"
  /\ complete' = FALSE
  /\ UNCHANGED <<length, payload, rxCrc>>

TakeOpcode(b) ==
  /\ phase = "Opcode"
  /\ opcode' = b
  /\ crc' = CrcUpdate(crc, b)
  /\ payload' = <<>>
  /\ phase' = IF length = 0 THEN "CrcLo" ELSE "Payload"
  /\ complete' = FALSE
  /\ UNCHANGED <<length, rxCrc>>

TakePayload(b) ==
  /\ phase = "Payload"
  /\ payload' = Append(payload, b)
  /\ crc' = CrcUpdate(crc, b)
  /\ phase' = IF Len(payload') >= length THEN "CrcLo" ELSE "Payload"
  /\ complete' = FALSE
  /\ UNCHANGED <<length, opcode, rxCrc>>

TakeCrcLo(b) ==
  /\ phase = "CrcLo"
  /\ rxCrc' = b
  /\ phase' = "CrcHi"
  /\ complete' = FALSE
  /\ UNCHANGED <<length, opcode, payload, crc>>

TakeCrcHi_LowByteOnly(b) ==
  /\ phase = "CrcHi" /\ phase' = "Sof"
  /\ rxCrc' = rxCrc + b * Base
  /\ complete' = (rxCrc = crc % Base)
  /\ UNCHANGED <<length, opcode, payload, crc>>

TakeCrcHi_AwaitsMatch(b) ==
  /\ phase = "CrcHi"
  /\ rxCrc' = (rxCrc % Base) + b * Base
  /\ complete' = (rxCrc' = crc)
  /\ phase' = IF complete' THEN "Sof" ELSE "CrcHi"
  /\ UNCHANGED <<length, opcode, payload, crc>>

\* Whether the CRC matches or not, the hunt for the next SOF begins here.
TakeCrcHi(b) ==
  /\ phase = "CrcHi"
  /\ rxCrc' = rxCrc + b * Base
  /\ complete' = (rxCrc' = crc)
  /\ phase' = "Sof"
  /\ UNCHANGED <<length, opcode, payload, crc>>

\* The last n elements of s, or all of them.
LastOf(s, n) == SubSeq(s, IF Len(s) > n THEN Len(s) - n + 1 ELSE 1, Len(s))

Feed(b) ==
  /\ \/ AwaitSof(b)
     \/ TakeLen(b)
     \/ TakeOpcode(b)
     \/ TakePayload(b)
     \/ TakeCrcLo(b)
     \/ TakeCrcHi(b)
  /\ recent' = IF phase = "Sof" THEN <<b>> ELSE LastOf(Append(recent, b), FrameMax)

-----------------------------------------------------------------------------
(* The line *)

Init ==
  /\ phase = "Sof"
  /\ length = 0 /\ opcode = 0 /\ payload = <<>>
  /\ crc = 0 /\ rxCrc = 0
  /\ complete = FALSE
  /\ wire = <<>>
  /\ sent = NoMessage
  /\ damaged = FALSE
  /\ recent = <<>>

\* A byte that belongs to no frame the parser is in step with. It may also cut
\* short the frame under way.
Noise(b) ==
  /\ Feed(b)
  /\ wire' = <<>>
  /\ sent' = NoMessage
  /\ damaged' = FALSE

\* A frame begins while the parser hunts for one.
Send(m) ==
  /\ wire = <<>>
  /\ phase \in {"Sof", "Len"}
  /\ Feed(Head(Encode(m)))
  /\ wire' = Tail(Encode(m))
  /\ sent' = m
  /\ UNCHANGED damaged

Transmit(b, changed) ==
  /\ wire # <<>>
  /\ Feed(b)
  /\ wire' = Tail(wire)
  /\ sent' = IF wire' = <<>> THEN NoMessage ELSE sent
  /\ damaged' = (changed /\ wire' # <<>>)

\* The next byte of the frame, as it was sent.
Arrive == wire # <<>> /\ Transmit(Head(wire), damaged)

\* One byte after LEN is changed.
Corrupt(b) ==
  /\ ~damaged
  /\ wire # <<>> /\ Len(wire) <= Len(sent.payload) + 3
  /\ b # Head(wire)
  /\ Transmit(b, TRUE)

Next ==
  \/ Arrive
  \/ \E b \in NoiseBytes : Noise(b)
  \/ \E b \in Bytes : Corrupt(b)
  \/ \E m \in Messages : Send(m)

Spec == Init /\ [][Next]_vars

-----------------------------------------------------------------------------
(* Properties *)

Received == [opcode |-> opcode, payload |-> payload]

\* What feed() reports is what arrived: the last LEN + 5 bytes received are the
\* very encoding of the opcode and payload handed out, whatever came before
\* them (feed(): "true exactly once, on the byte that completes a valid frame").
NoForgedFrame == complete => LastOf(recent, Len(payload) + 5) = Encode(Received)

\* A frame that starts while the parser hunts for one, straight after noise or a
\* stray SOF included, is handed out on its last byte and on no other, unless it
\* is damaged; so a command is neither lost nor applied twice.
FrameGetsThrough ==
  [][Arrive /\ ~damaged =>
       IF wire' = <<>> THEN complete' /\ Received' = sent ELSE ~complete']_vars

\* A frame with one byte changed behind LEN is never handed out as anything
\* (test_protocol.cpp, crc_rejects_corruption, for every byte and position).
DamageIsDetected ==
  [][(damaged /\ Arrive) \/ (\E b \in Bytes : Corrupt(b)) => ~complete']_vars

\* The parser is out of step for one frame at most: once LEN, opcode, payload
\* and CRC could all have gone by without an SOF, it hunts again. (With SOF
\* bytes in the stream it need not be: see the README.)
ResyncIsBounded ==
  phase # "Sof" => SOF \in ToSet(LastOf(recent, FrameMax - 1))
=============================================================================
