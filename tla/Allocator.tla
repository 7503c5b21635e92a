----------------------------- MODULE Allocator -----------------------------
(***************************************************************************)
(* What the callers of the kernel heap may rely on, without the free lists,*)
(* headers, regions and levels of Heap: a call of kmalloc is answered with *)
(* memory that nobody holds or with a refusal, a call of kfree takes back  *)
(* one allocation and leaves the others alone, and one call is answered    *)
(* before the next one begins.  A kmalloc that is given memory which it has*)
(* already ends all promises.                                              *)
(***************************************************************************)
EXTENDS Integers

CONSTANTS
  Addresses, (* the bytes that may ever be handed out                       *)
  Sizes      (* the sizes that may be asked for                             *)

VARIABLES
  live,  (* the allocations: address -> size                                *)
  call,  (* "boot", "none", "alloc", "free", or "over": nothing is promised *)
  asked  (* the size the running kmalloc was called with                    *)

vars == <<live, call, asked>>

\* The n bytes at a are not those of an allocation.
IsUnheld(a, n) ==
  /\ a .. a + n - 1 \subseteq Addresses
  /\ \A b \in DOMAIN live : a + n <= b \/ b + live[b] <= a

Init ==
  /\ live = [a \in {} |-> 0]
  /\ call = "boot"
  /\ asked = 0

Ready ==
  /\ call = "boot"
  /\ call' \in {"none", "over"}
  /\ UNCHANGED <<live, asked>>

Request(n) ==
  /\ call = "none"
  /\ call' = "alloc"
  /\ asked' = n
  /\ UNCHANGED live

Grant(a) ==
  /\ call = "alloc"
  /\ a \notin DOMAIN live
  /\ IsUnheld(a, asked)
  /\ live' = [x \in DOMAIN live \cup {a} |-> IF x = a THEN asked ELSE live[x]]
  /\ call' = "none"
  /\ asked' = 0

Refuse ==
  /\ call = "alloc"
  /\ call' = "none"
  /\ asked' = 0
  /\ UNCHANGED live

Free(a) ==
  /\ call = "none"
  /\ call' = "free"
  /\ live' = [x \in DOMAIN live \ {a} |-> live[x]]
  /\ UNCHANGED asked

\* The memory kmalloc obtained was its own: whoever gets it may share it.
Breaks ==
  /\ call \in {"alloc", "over"}
  /\ call' = "over"

\* kfree returns, or never does: the memory it merged was not the heap's.
Freed ==
  /\ call = "free"
  /\ call' \in {"none", "over"}
  /\ UNCHANGED <<live, asked>>

Next ==
  \/ Ready
  \/ \E n \in Sizes : Request(n)
  \/ \E a \in Addresses : Grant(a)
  \/ Refuse
  \/ Breaks
  \/ \E a \in DOMAIN live : Free(a)
  \/ Freed

Spec == Init /\ [][Next]_vars
=============================================================================
