---------------------------- MODULE MCFrameParser ----------------------------
(***************************************************************************)
(* FrameParser with bytes of three bits, payloads of up to two of them, 7  *)
(* as SOF (so 3..6 are implausible lengths), and the 6-bit CRC x^6+x+1.    *)
(***************************************************************************)
EXTENDS FrameParser

Narrow == INSTANCE Crc16 WITH ByteBits <- 3, Poly <- 3

CrcTable == [c \in Crcs, b \in Bytes |-> Narrow!crc16_update(c, b)]
MCCrcUpdate(c, b) == CrcTable[c, b]

\* Every length; an opcode and payload bytes equal to SOF are among them.
MCMessages ==
  {[opcode |-> 1, payload |-> <<>>], [opcode |-> 7, payload |-> <<7>>],
   [opcode |-> 1, payload |-> <<2, 7>>]}

\* At the firmware's width it is CRC-16/CCITT-FALSE: its check value, the CRC of
\* the ASCII digits 1 to 9, is 0x29B1.
Wide == INSTANCE Crc16 WITH ByteBits <- 8, Poly <- 4129

ASSUME WideIsCcitt ==
  FoldLeft(LAMBDA c, b : Wide!crc16_update(c, b), 65535,
           <<49, 50, 51, 52, 53, 54, 55, 56, 57>>) = 10673

\* No two CRCs of that width are shifted to the same one, which makes it, too,
\* as CrcAssumption has it.
ASSUME WideIsInjective == Cardinality({Wide!CrcShift(c) : c \in 0..65535}) = 65536
=============================================================================
