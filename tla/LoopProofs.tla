----------------------------- MODULE LoopProofs -----------------------------
(***************************************************************************)
(* Induction on a set of numbers, and what a loop of Loops computes, for   *)
(* any number of rounds.                                                   *)
(***************************************************************************)
EXTENDS Loops, WellFoundedInduction, TLAPS

\* Induction, on a set of numbers.
LEMMA NatSet ==
  ASSUME NEW T, T \subseteq Nat, 0 \in T, \A n \in T : n + 1 \in T
  PROVE  T = Nat
<1>1. ASSUME NEW n \in Nat, n \notin T PROVE FALSE
  <2> DEFINE U == Nat \ T
  <2>1. PICK m \in U : \A k \in U : ~ (<<k, m>> \in OpToRel(<, Nat))
    <3>1. U \subseteq Nat /\ U # {}
      BY <1>1
    <3> HIDE DEF U
    <3> QED BY <3>1, WFMin, NatLessThanWellFounded
  <2>2. m \in Nat /\ m # 0
    OBVIOUS
  <2>3. m - 1 \in Nat /\ <<m - 1, m>> \in OpToRel(<, Nat)
    BY <2>2 DEF OpToRel
  <2>4. m - 1 \in T
    BY <2>1, <2>3
  <2>5. (m - 1) + 1 \in T
    BY <2>4
  <2>6. (m - 1) + 1 = m
    BY <2>2
  <2> QED BY <2>5, <2>6
<1> QED BY <1>1

\* The function that a loop computes has a value after every round.
IsLoop(f, step, x, n) ==
  f = [i \in 0 .. n |-> IF i = 0 THEN x ELSE step[i - 1][f[i - 1]]]

LEMMA LoopIsDefined ==
  ASSUME NEW step, NEW x, NEW n \in Nat
  PROVE  \E f : IsLoop(f, step, x, n)
<1> DEFINE T == {m \in Nat : \E f : IsLoop(f, step, x, m)}
<1>1. 0 \in T
  <2>1. IsLoop([i \in 0 .. 0 |-> x], step, x, 0)
    BY DEF IsLoop
  <2> QED BY <2>1
<1>2. ASSUME NEW m \in T PROVE m + 1 \in T
  <2>1. m \in Nat /\ m + 1 \in Nat
    OBVIOUS
  <2>2. PICK f : IsLoop(f, step, x, m)
    BY <1>2
  <2> DEFINE g == [i \in 0 .. m + 1 |-> IF i = m + 1 THEN step[m][f[m]] ELSE f[i]]
  <2>3. ASSUME NEW i \in 0 .. m + 1
        PROVE  g[i] = IF i = 0 THEN x ELSE step[i - 1][g[i - 1]]
    <3>1. CASE i = m + 1
      <4>1. i - 1 = m /\ i # 0 /\ m \in 0 .. m + 1 /\ m # m + 1
        BY <2>1, <3>1
      <4>2. g[i] = step[m][f[m]] /\ g[m] = f[m]
        BY <3>1, <4>1
      <4> QED BY <3>1, <4>1, <4>2
    <3>2. CASE i = 0
      <4>1. g[i] = f[i] /\ 0 \in 0 .. m
        BY <2>1, <3>2
      <4>2. f[0] = x
        BY <2>2, <4>1 DEF IsLoop
      <4> QED BY <3>2, <4>1, <4>2
    <3>3. CASE i \in 1 .. m
      <4>1. i # 0 /\ i # m + 1 /\ i - 1 # m + 1 /\ i \in 0 .. m /\ i - 1 \in 0 .. m + 1
        BY <2>1, <3>3
      <4>2. g[i] = f[i] /\ g[i - 1] = f[i - 1]
        BY <4>1
      <4>3. f[i] = step[i - 1][f[i - 1]]
        BY <2>2, <4>1 DEF IsLoop
      <4> QED BY <4>1, <4>2, <4>3
    <3>4. i = m + 1 \/ i = 0 \/ i \in 1 .. m
      BY <2>1
    <3> QED BY <3>1, <3>2, <3>3, <3>4
  <2>4. IsLoop(g, step, x, m + 1)
    <3>1. g = [i \in 0 .. m + 1 |-> g[i]]
      OBVIOUS
    <3> HIDE DEF g
    <3> QED BY <2>3, <3>1 DEF IsLoop
  <2> HIDE DEF g
  <2> QED BY <2>1, <2>4
<1>3. T = Nat
  <2>1. T \subseteq Nat
    OBVIOUS
  <2> HIDE DEF T
  <2> QED BY <1>1, <1>2, <2>1, NatSet
<1> QED BY <1>3

LEMMA LoopSteps ==
  ASSUME NEW step, NEW x, NEW n \in Nat
  PROVE  \E f : /\ f[0] = x /\ Loop(step, x, n) = f[n]
                /\ \A i \in 0 .. n - 1 : f[i + 1] = step[i][f[i]]
<1> DEFINE after == CHOOSE f : IsLoop(f, step, x, n)
<1>1. Loop(step, x, n) = after[n]
  BY DEF Loop, IsLoop
<1>2. IsLoop(after, step, x, n)
  BY LoopIsDefined
<1> HIDE DEF after
<1>3. \A i \in 0 .. n : after[i] = IF i = 0 THEN x ELSE step[i - 1][after[i - 1]]
  BY <1>2 DEF IsLoop
<1>4. \A i \in 0 .. n - 1 : i + 1 \in 0 .. n /\ i + 1 # 0 /\ (i + 1) - 1 = i
  OBVIOUS
<1>5. \A i \in 0 .. n - 1 : after[i + 1] = step[i][after[i]]
  BY <1>3, <1>4
<1>6. after[0] = x
  BY <1>3
<1> QED BY <1>1, <1>5, <1>6
=============================================================================
