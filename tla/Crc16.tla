-------------------------------- MODULE Crc16 --------------------------------
(***************************************************************************)
(* crc16_update() of src/communication/protocol.hpp, for bytes of ByteBits *)
(* bits and a CRC twice as wide. The firmware's is ByteBits = 8 and Poly = *)
(* 0x1021; a narrower one keeps the parser's state space small and has the *)
(* same structure. (Recursive operators of Bitwise: not for proofs.)       *)
(***************************************************************************)
EXTENDS Integers, Bitwise

CONSTANTS ByteBits, Poly

Width == 2 ^ (2 * ByteBits)

\* One bit out at the top, and the polynomial folded in if it was set.
CrcShift(crc) ==
  LET shifted == (2 * crc) % Width
  IN  IF 2 * crc >= Width THEN shifted ^^ Poly ELSE shifted

\* A byte is folded into the top of the CRC, then shifted through.
crc16_update(crc, byte) ==
  LET Folded[i \in 0..ByteBits] ==
        IF i = 0 THEN crc ^^ (byte * 2 ^ ByteBits) ELSE CrcShift(Folded[i - 1])
  IN  Folded[ByteBits]
=============================================================================
