------------------------------ MODULE BitMath ------------------------------
(***************************************************************************)
(* logb and round_pow2_boundary of src/src/misc/bit_math.c.  A word is the *)
(* set of its bits that are 1.                                             *)
(***************************************************************************)
EXTENDS Integers, FiniteSetsExt, SequencesExt, Loops

CONSTANTS
  WordBits,    (* bits of a uint64_t                                        *)
  IntBits,     (* bits of an unsigned int, which __builtin_clz counts in    *)
  SmearShifts  (* the shifts of round_pow2_boundary: <<1, 2, 4, 8, 16>>     *)

\* Every shift is twice the one before, and the last reaches over an unsigned int.
ASSUME WidthsAssumption ==
  /\ IntBits \in Nat \ {0}
  /\ WordBits \in Nat /\ IntBits <= WordBits
  /\ SmearShifts \in Seq(1 .. IntBits) /\ SmearShifts # <<>>
  /\ SmearShifts[1] = 1
  /\ \A i \in 1 .. Len(SmearShifts) - 1 : SmearShifts[i + 1] = 2 * SmearShifts[i]
  /\ IntBits <= 2 * SmearShifts[Len(SmearShifts)]

\* 1 << n
Pow2(n) == Loop([i \in 0 .. n - 1 |-> [p \in Nat |-> 2 * p]], 1, n)

BitPositions == 0 .. WordBits - 1
ToWord(n) == {b \in BitPositions : (n \div Pow2(b)) % 2 = 1}
ToNumber(w) ==
  Loop([b \in BitPositions |-> [n \in Nat |-> IF b \in w THEN n + Pow2(b) ELSE n]],
       0, WordBits)
ShiftRight(w, k) == {b - k : b \in {c \in w : c >= k}}

\* x |= x >> k, for every k of SmearShifts.
Smeared(word) ==
  Loop([i \in 0 .. Len(SmearShifts) - 1 |->
          [w \in SUBSET BitPositions |-> w \cup ShiftRight(w, SmearShifts[i + 1])]],
       word, Len(SmearShifts))

\* Mutated: x is not decremented first.
RoundPow2BoundaryUp(x) == (ToNumber(Smeared(ToWord(x))) + 1) % Pow2(WordBits)

round_pow2_boundary(x) ==
  (ToNumber(Smeared(ToWord((x - 1) % Pow2(WordBits)))) + 1) % Pow2(WordBits)

\* __builtin_clz sees the lower half of the word and is undefined for 0.
IsDefinedLogb(x) == \E b \in ToWord(x) : b < IntBits
logb(x) == Max({b \in ToWord(x) : b < IntBits})
=============================================================================
