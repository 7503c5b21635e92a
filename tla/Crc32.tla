------------------------------- MODULE Crc32 -------------------------------
(***************************************************************************)
(* calculate_ccitt32_ansi_crc32 of src/src/misc/bit_math.c, and the        *)
(* division of polynomials that it is a way to compute.                    *)
(*                                                                         *)
(* A 32-bit word is the set of its bits that are 1.  A buffer is the set   *)
(* of the numbers of its bits that are 1: bit b of byte i is 8 * i + b.    *)
(***************************************************************************)
EXTENDS Integers, FiniteSetsExt, SequencesExt, Loops

Xor(s, t) == (s \ t) \cup (t \ s)

-----------------------------------------------------------------------------
(***************************************************************************)
(* The code                                                                *)
(***************************************************************************)

Word32 == 0 .. 31
ShiftedRight(w) == {b - 1 : b \in w \ {0}}

\* 0xEDB88320
POLYNOMIAL == {5, 8, 9, 15, 19, 20, 21, 23, 24, 26, 27, 29, 30, 31}

Byte(buffer, i) == {b \in 0 .. 7 : 8 * i + b \in buffer}

\* Mutated: the bit that leaves the word is looked at after the shift.
CrcBitLate(crc) ==
  IF 0 \in ShiftedRight(crc) THEN Xor(ShiftedRight(crc), POLYNOMIAL)
  ELSE ShiftedRight(crc)

CrcBit(crc) ==
  IF 0 \in crc THEN Xor(ShiftedRight(crc), POLYNOMIAL) ELSE ShiftedRight(crc)

CrcByte(crc, byte) ==
  Loop([i \in 0 .. 7 |-> [c \in SUBSET Word32 |-> CrcBit(c)]], Xor(crc, byte), 8)

calculate_ccitt32_ansi_crc32(buffer, length) ==
  Xor(Word32,
      Loop([i \in 0 .. length - 1 |->
              [crc \in SUBSET Word32 |-> CrcByte(crc, Byte(buffer, i))]],
           Word32, length))

-----------------------------------------------------------------------------
(***************************************************************************)
(* The reference: the remainder of the message, its first 32 bits          *)
(* inverted, times x^32, modulo the generator, inverted.  A polynomial is  *)
(* the set of its exponents; the first bit of a message is its highest.    *)
(***************************************************************************)
Generator == {32, 26, 23, 22, 16, 12, 11, 10, 8, 7, 5, 4, 2, 1, 0}

\* The term of exponent e is cancelled.
Cancelled(r, e) == IF e \in r THEN Xor(r, {k + e - 32 : k \in Generator}) ELSE r

\* The long division, from the highest term down, eight terms at a time; length is
\* how many eights are above the term of exponent 31.
CancelledByte(r, e) ==
  Loop([j \in 0 .. 7 |-> [q \in SUBSET Int |-> Cancelled(q, e - j)]], r, 8)
Remainder(poly, length) ==
  Loop([i \in 0 .. length - 1 |->
          [r \in SUBSET Int |-> CancelledByte(r, 8 * (length - i) + 31)]],
       poly, length)

ReferenceCrc(buffer, length) ==
  LET message == Xor({b \in buffer : b < 8 * length}, Word32)
      degree  == 8 * length + 31
  IN  Xor(Word32, {31 - e : e \in Remainder({degree - b : b \in message}, length)})
=============================================================================
