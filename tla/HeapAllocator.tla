--------------------------- MODULE HeapAllocator ---------------------------
(***************************************************************************)
(* The heap as an implementation of Allocator: a call of kmalloc or kfree, *)
(* which takes many steps of Heap, does one thing at one of them and       *)
(* nothing that a caller could see at the others.                          *)
(***************************************************************************)
EXTENDS Heap

\* Every address a page run may reach.
HeapAddresses == UNION {Bytes(run, l) : run \in PageRuns, l \in Levels}

\* The call that is running, as its caller sees it.
Call ==
  CASE shared -> "over"
    [] ~shared /\ pc = "boot" -> "boot"
    [] ~shared /\ pc = "idle" -> "none"
    [] ~shared /\ pc \in {"grow", "scan"} -> "alloc"
    [] ~shared /\ pc = "merge" -> "free"
    [] OTHER -> "over"

A == INSTANCE Allocator WITH
       Addresses <- HeapAddresses,
       Sizes     <- {n + MetaSize : n \in Requests},
       live      <- owned,
       call      <- Call,
       asked     <- bytes

(***************************************************************************)
(* The heap keeps the promise of Allocator (mem.c:24-151): whatever the    *)
(* growth, search, split and merge loops do, each call makes one visible   *)
(* step, with an address whose bytes nobody held when it was made.  It ends*)
(* with the first run of pages that is not fresh.                          *)
(***************************************************************************)
ImplementsAllocator == A!Spec
=============================================================================
