-------------------------------- MODULE Gpt --------------------------------
(***************************************************************************)
(* gpt_init of src/src/fs/gpt.c: the header of the partition table is read *)
(* from sector 1 into a buffer of the heap and validated.  kmalloc and     *)
(* disk_read are their outcomes here; modules Heap and Disk are about them.*)
(* A header is the set of its bits that are 1, as in Crc32.                *)
(***************************************************************************)
EXTENDS Crc32

CONSTANTS
  Headers,  (* the headers that were written to a disk                      *)
  Damage    (* the bits of one that may have turned since                   *)

VARIABLE gpt  (* what gpt_init has returned, 1 before it has, and what      *)
              (* sector 1 held if it was read: a header as it was written,  *)
              (* or a damaged one                                           *)

GptStart == [ret |-> 1, sector |-> "none"]

\* The bits of size bytes at an offset of the header.
Field(header, offset, size) ==
  {b - 8 * offset : b \in header \cap (8 * offset .. 8 * (offset + size) - 1)}

\* The bits of a sequence of bytes.
BitsOfBytes(bytes) ==
  {p \in 0 .. 8 * Len(bytes) - 1 : (bytes[p \div 8 + 1] \div 2^(p % 8)) % 2 = 1}

Signature == BitsOfBytes(<<69, 70, 73, 32, 80, 65, 82, 84>>) \* "EFI PART"
Revision == BitsOfBytes(<<0, 0, 1, 0>>)
HeaderSize == BitsOfBytes(<<92>>)
HeaderLba == BitsOfBytes(<<1>>)

\* The checksum is computed with its own field zeroed.
Checksummed(header) == header \ (8 * 16 .. 8 * 20 - 1)

\* The checks in their order.
Checks(header) ==
  << Field(header, 0, 8) = Signature,
     Field(header, 8, 4) = Revision,
     Field(header, 12, 4) = HeaderSize,
     calculate_ccitt32_ansi_crc32(Checksummed(header), 92) = Field(header, 16, 4),
     Field(header, 24, 8) = HeaderLba >>

\* The first that fails gives the code, from -3 on.
Verdict(header) ==
  LET failed == {i \in 1 .. 5 : ~Checks(header)[i]}
  IN  IF failed = {} THEN 0 ELSE -2 - Min(failed)

SectorBits == 0 .. 8 * 512 - 1
ChecksumBits == 8 * 16 .. 8 * 20 - 1
FourBytes(i) == 8 * i .. 8 * i + 31

\* What is on a disk is a header that gpt_init knows, with the checksum it should
\* have: version 1.0 of the standard with no fields behind the last of that version.
ASSUME HeadersAssumption ==
  \A header \in Headers :
    /\ header \subseteq SectorBits
    /\ Field(header, 0, 8) = Signature
    /\ Field(header, 8, 4) = Revision
    /\ Field(header, 12, 4) = HeaderSize
    /\ Field(header, 16, 4) = ReferenceCrc(Checksummed(header), 92)
    /\ Field(header, 24, 8) = HeaderLba

\* Bits of the checksum have turned, or of four neighbouring bytes of the rest.
ASSUME DamageAssumption ==
  \A bits \in Damage :
    /\ bits # {}
    /\ \/ bits \subseteq ChecksumBits
       \/ /\ bits \cap ChecksumBits = {}
          /\ \E i \in 0 .. 92 - 4 : bits \subseteq FourBytes(i)

\* What gpt_init makes of what the sector may hold.
Judged ==
  {[ret |-> Verdict(header), sector |-> "intact"] : header \in Headers} \cup
  {[ret |-> Verdict(Xor(header, bits)), sector |-> "damaged"] :
     header \in Headers, bits \in Damage}

\* kmalloc or disk_read fails, or the header is judged; every way out frees the buffer.
\* No interrupt comes near it, so it is one step.
GptInit == gpt' \in Judged \cup {[ret |-> error, sector |-> "none"] : error \in {-1, -2}}

(***************************************************************************)
(* gpt_init accepts every header as it was written, and none with damage   *)
(* in it: the checksum, computed with its own field zeroed, is the one     *)
(* that the writer computed, and turns with every change of its field or   *)
(* of up to four neighbouring bytes of the rest (gpt.c:40-74,              *)
(* bit_math.c:21-35).                                                      *)
(***************************************************************************)
DamageIsNoticed == gpt.ret = 0 <=> gpt.sector = "intact"
=============================================================================
