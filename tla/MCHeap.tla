------------------------------ MODULE MCHeap ------------------------------
(***************************************************************************)
(* Values for the constants of Heap.  One unit of address space stands for *)
(* the eight bytes of a level-0 block, so a block of level l has 2^l units *)
(* and a header has two, as in the kernel.                                 *)
(***************************************************************************)
EXTENDS HeapLevels

MCBlockSize == [l \in Levels |-> 2^l]

\* Requests of one, two, four and eight smallest blocks, and one too many.
PageRequests == {1, 5, 13, 30, 31}
OnePage == {32}

\* A page of one smallest block.  Requests of one, two and four pages, and one
\* too many; runs that are adjacent and runs that are not, aligned to their size
\* and not.
GrowRequests == {1, 6, 10, 15}
SomePages == {4, 8, 16, 24}

\* The shifts that smear the bits of a four-bit int over its lower half.
FourBitShifts == <<1, 2>>
=============================================================================
