------------------------------- MODULE Loops -------------------------------
(***************************************************************************)
(* Loops of a counted number of rounds, for the arithmetic of              *)
(* src/src/misc/bit_math.c.                                                *)
(***************************************************************************)
EXTENDS Integers

\* What a loop makes of x in n rounds; step[i] is what its round i does.
Loop(step, x, n) ==
  LET after[i \in 0 .. n] == IF i = 0 THEN x ELSE step[i - 1][after[i - 1]]
  IN  after[n]
=============================================================================
