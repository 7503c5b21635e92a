---------------------------- MODULE MCPageFrames ----------------------------
(***************************************************************************)
(* Values for the constants of PageFrames.  A bucket has four bits and an  *)
(* int two, the ratio of the kernel's 64 and 32; the bitmap has three      *)
(* buckets.  A page is two units of address space where alignment matters. *)
(***************************************************************************)
EXTENDS PageFrames

Entry(base, length, usable) == [base |-> base, length |-> length, usable |-> usable]

\* For the choice of the region: one to three entries, usable or not, that begin
\* and end on or off a page boundary.
SplitMaps ==
  {<<Entry(a, b - a, u), Entry(b, c - b, ~u), Entry(c, 14 - c, TRUE)>> :
     <<a, b, c, u>> \in
       {t \in {0, 1, 3} \X {2, 5, 8} \X {8, 9, 11} \X BOOLEAN :
          t[1] < t[2] /\ t[2] < t[3]}}
OneEntryMaps == {<<Entry(a, b, TRUE)>> : a \in {0, 1, 3}, b \in 1 .. 14}
BootMaps == SplitMaps \cup OneEntryMaps

\* Where the kernel lies: before, inside, across and after the entries.
BootSpans == {s \in {0, 1, 3, 6} \X {1, 4, 5, 8, 20} : s[1] <= s[2]}

\* Regions of any number of buckets, whole or not, and one that is longer than the
\* bitmap.
LongMaps == {<<Entry(0, PAGE_SIZE * n, TRUE)>> : n \in {8, 9, 10, 11, 12, 15}}
AllMaps == BootMaps \cup LongMaps

\* Regions whose last bucket is full or has at most one page, and others.
ExactMaps == {<<Entry(0, n, TRUE)>> : n \in {4, 5, 8, 9, 12, 15}}
PartialMaps == {<<Entry(0, n, TRUE)>> : n \in {6, 7, 10}}

NoKernel == {<<0, 0>>}
=============================================================================
