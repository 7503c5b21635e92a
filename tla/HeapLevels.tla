----------------------------- MODULE HeapLevels -----------------------------
(***************************************************************************)
(* How kmalloc finds the level of a request: Heap says what the level is,  *)
(* the code computes it with the bit arithmetic of BitMath.                *)
(***************************************************************************)
EXTENDS HeapAllocator, BitMath

CONSTANT MEM_BLOCKS_BASE_LEVEL

\* A block of level l is one shifted left, and a header, of 16 bytes, is no smaller than
\* a block of level 0, of 8.
ASSUME LevelsAssumption ==
  /\ MEM_BLOCKS_BASE_LEVEL \in Nat
  /\ \A l \in Levels : BlockSize[l] = Pow2(l + MEM_BLOCKS_BASE_LEVEL)
  /\ BlockSize[0] <= MetaSize

\* The level the code computes; a shift of one by the sum gives BlockSize.
TargetLevel(n) == logb(round_pow2_boundary(n)) - MEM_BLOCKS_BASE_LEVEL

\* The largest size whose rounded value still fits an unsigned int.
LargestIntPower == Pow2(IntBits - 1)

(***************************************************************************)
(* For every size that kmalloc gets past its growth loop with, the level it*)
(* computes (mem.c:64) is the smallest one that holds the request, powers  *)
(* of two and their neighbours included.  The bound is that of             *)
(* __builtin_clz (bit_math.c:7): the rounded size of a larger request has  *)
(* no bit in its lower half, for which clz is undefined, although levels   *)
(* 29 to 33 are meant for such sizes.                                      *)
(***************************************************************************)
LevelIsRoundedLogarithm ==
  pc = "grow" /\ bytes <= BlockSize[highest_level] /\ bytes <= LargestIntPower =>
    /\ IsDefinedLogb(round_pow2_boundary(bytes))
    /\ \A l \in Levels : IsTargetLevel(l, bytes) <=> l = TargetLevel(bytes)
=============================================================================
