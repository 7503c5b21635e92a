-------------------------------- MODULE Heap --------------------------------
(***************************************************************************)
(* The kernel heap of src/src/mem/mem.c: a binary buddy allocator whose    *)
(* first region is one page and which asks the page allocator for a region *)
(* twice as large whenever a request does not fit the largest level.       *)
(*                                                                         *)
(* kmalloc and kfree are modelled at the grain of their loops: one action  *)
(* per iteration.  Addresses are natural numbers.  Memory is represented   *)
(* by the block headers it is known to hold: hdr maps the address of every *)
(* current block to the level and is_free fields stored there.  Any other  *)
(* address holds payload, stale headers or memory that was never part of   *)
(* the heap, so a header read from it has arbitrary contents.  The next    *)
(* pointers are represented by the sequences they link, first block first. *)
(*                                                                         *)
(* A further run of pages may be any of PageRuns.  kmalloc takes it to be  *)
(* fresh; paging.c hands out runs that begin with a page in use (module    *)
(* PageFrames), so the run may have bytes the heap already has, and its    *)
(* header is then written over whatever is there (shared).                 *)
(*                                                                         *)
(* Two things end the model.  After the call that obtained such a run, no  *)
(* other is made: callers would write over headers and each other's data.  *)
(* And pc = "corrupt" when kfree takes memory that is no free block of the *)
(* heap for the buddy it merges with: from there on the kernel runs on an  *)
(* allocator that owns foreign memory.                                     *)
(***************************************************************************)
EXTENDS Integers, SequencesExt

CONSTANTS
  MEM_BLOCKS_MAX_LEVEL_COUNT, (* number of free lists; 34 in the kernel     *)
  PageLevel,  (* level of a one-page block, LOG2_PAGE_SIZE - BASE_LEVEL: 18 *)
  BlockSize,  (* BlockSize[l] is 1 << (l + MEM_BLOCKS_BASE_LEVEL)           *)
  MetaSize,   (* sizeof(mem_block_t) rounded up to KERNEL_MEM_ALIGNMENT     *)
  Requests,   (* the sizes kmalloc is called with, 0 excepted: that call    *)
              (* returns NULL at once                                       *)
  PageRuns,   (* the addresses paging_alloc_pages may return                *)
  NULL

Levels == 0 .. MEM_BLOCKS_MAX_LEVEL_COUNT - 1

ASSUME LevelAssumption ==
  /\ MEM_BLOCKS_MAX_LEVEL_COUNT \in Nat
  /\ PageLevel \in Levels

\* Shifting left doubles, so a larger block is a multiple of the parent of a
\* smaller one.
ASSUME SizeAssumption ==
  /\ BlockSize \in [Levels -> Nat \ {0}]
  /\ \A l \in Levels : l + 1 \in Levels => BlockSize[l + 1] = 2 * BlockSize[l]
  /\ \A l, m \in Levels : l < m => BlockSize[m] % (2 * BlockSize[l]) = 0
  /\ MetaSize \in Nat

ASSUME EnvironmentAssumption ==
  /\ Requests \subseteq Nat \ {0}
  /\ PageRuns \subseteq Nat
  /\ \A run \in PageRuns : run % BlockSize[PageLevel] = 0
  /\ NULL \notin Nat

VARIABLES
  mem_blocks,    (* the free list of every level                            *)
  highest_level, (* static int highest_level; highest_block_size is         *)
                 (* BlockSize[highest_level] throughout                     *)
  hdr,           (* address of a current block -> its header                *)
  regions,       (* the page runs obtained: address -> level                *)
  shared,        (* whether two of them had bytes in common                 *)
  owned,         (* what the callers hold: block address -> bytes promised, *)
                 (* the header included                                     *)
  pc,            (* where the running call is; "idle" between calls         *)
  bytes,         (* kmalloc: the request, the header included               *)
  target_level,  (* kmalloc: the level that fits bytes                      *)
  curr_level,    (* kmalloc: loop variable of the search                    *)
  block          (* kfree: the block being freed, growing as it merges      *)

locals == <<bytes, target_level, curr_level, block>>
vars == <<mem_blocks, highest_level, hdr, regions, shared, owned, pc, locals>>

Header == [level : Levels, is_free : BOOLEAN]

\* What a read of the header at a can return.
HeaderAt(a) == IF a \in DOMAIN hdr THEN {hdr[a]} ELSE Header

\* The headers after the fields of the one at a were assigned.
WriteHeader(h, a, l, free) ==
  [x \in DOMAIN h \cup {a} |->
     IF x = a THEN [level |-> l, is_free |-> free] ELSE h[x]]

\* block ^ block_size: flips the bit of the address that block_size stands for.
Buddy(a, size) == IF a % (2 * size) < size THEN a + size ELSE a - size

\* Mutated: the logarithm is taken without rounding up first.
IsTargetLevelRoundedDown(l, n) ==
  /\ BlockSize[l] <= n
  /\ l + 1 \in Levels => n < BlockSize[l + 1]

\* round_pow2_boundary and logb: l is the smallest level that holds n bytes.
IsTargetLevel(l, n) ==
  /\ n <= BlockSize[l]
  /\ l - 1 \in Levels => BlockSize[l - 1] < n

\* The bytes of a block of level l at a.
Bytes(a, l) == a .. a + BlockSize[l] - 1

\* A page run of level l at a has bytes of the heap.
Overlaps(a, l) ==
  \E r \in DOMAIN regions : Bytes(a, l) \cap Bytes(r, regions[r]) # {}

\* A free list after the next field of the block at a was set to NULL.
CutAfter(list, a) ==
  IF a \in ToSet(list) THEN SubSeq(list, 1, CHOOSE i \in DOMAIN list : list[i] = a)
  ELSE list

\* paging_alloc_pages has returned a run of level l at a, which becomes the one
\* block of that level's list.  Its header is written whatever was there.
AddRegion(a, l) ==
  /\ mem_blocks' = [m \in Levels |-> IF m = l THEN <<a>> ELSE CutAfter(mem_blocks[m], a)]
  /\ hdr' = WriteHeader(hdr, a, l, TRUE)
  /\ regions' = [x \in DOMAIN regions \cup {a} |->
                   IF x = a THEN l ELSE regions[x]]
  /\ shared' = (shared \/ Overlaps(a, l))

Return ==
  /\ pc' = "idle"
  /\ bytes' = 0
  /\ target_level' = 0
  /\ curr_level' = 0
  /\ block' = NULL

Init ==
  /\ mem_blocks = [l \in Levels |-> <<>>]
  /\ highest_level = PageLevel
  /\ hdr = [a \in {} |-> [level |-> 0, is_free |-> FALSE]]
  /\ regions = [a \in {} |-> 0]
  /\ shared = FALSE
  /\ owned = [a \in {} |-> 0]
  /\ pc = "boot"
  /\ bytes = 0
  /\ target_level = 0
  /\ curr_level = 0
  /\ block = NULL

-----------------------------------------------------------------------------
\* kalloc_init, when paging_alloc_pages(1) finds a page.
KallocInit ==
  /\ pc = "boot"
  /\ \E run \in PageRuns : AddRegion(run, PageLevel)
  /\ Return
  /\ UNCHANGED <<highest_level, owned>>

\* kalloc_init, when it does not: kmain reports a fatal error and stops.
KallocInitFails ==
  /\ pc = "boot"
  /\ pc' = "stopped"
  /\ UNCHANGED <<mem_blocks, highest_level, hdr, regions, shared, owned, locals>>

-----------------------------------------------------------------------------
\* Mutated: the header is subtracted from the request.
KmallocHeaderSubtracted(n) ==
  /\ pc = "idle"
  /\ pc' = "grow"
  /\ bytes' = n - MetaSize
  /\ UNCHANGED <<mem_blocks, highest_level, hdr, regions, shared, owned,
                 target_level, curr_level, block>>

\* The entry of kmalloc, which makes room for the header.
Kmalloc(n) ==
  /\ pc = "idle" /\ ~shared
  /\ pc' = "grow"
  /\ bytes' = n + MetaSize
  /\ UNCHANGED <<mem_blocks, highest_level, hdr, regions, shared, owned,
                 target_level, curr_level, block>>

\* One iteration of the growth loop that obtains a region of the next level.
KmallocGrow ==
  /\ pc = "grow"
  /\ bytes > BlockSize[highest_level]
  /\ highest_level + 1 < MEM_BLOCKS_MAX_LEVEL_COUNT
  /\ highest_level' = highest_level + 1
  /\ \E run \in PageRuns : AddRegion(run, highest_level + 1)
  /\ UNCHANGED <<owned, pc, locals>>

\* The same iteration when no pages are left: kmalloc returns NULL, and
\* highest_level stays raised.
KmallocGrowFails ==
  /\ pc = "grow"
  /\ bytes > BlockSize[highest_level]
  /\ highest_level + 1 < MEM_BLOCKS_MAX_LEVEL_COUNT
  /\ highest_level' = highest_level + 1
  /\ mem_blocks' = [mem_blocks EXCEPT ![highest_level + 1] = <<>>]
  /\ Return
  /\ UNCHANGED <<hdr, regions, shared, owned>>

\* No level is large enough: kmalloc returns NULL.
KmallocTooLarge ==
  /\ pc = "grow"
  /\ bytes > BlockSize[highest_level]
  /\ highest_level + 1 >= MEM_BLOCKS_MAX_LEVEL_COUNT
  /\ Return
  /\ UNCHANGED <<mem_blocks, highest_level, hdr, regions, shared, owned>>

\* Mutated: the block handed out stays on its list.
TakeKeepsListed(l) ==
  LET free_block == Head(mem_blocks[l]) IN
  /\ hdr' = [hdr EXCEPT ![free_block].is_free = FALSE]
  /\ owned' = [x \in DOMAIN owned \cup {free_block} |->
                 IF x = free_block THEN bytes ELSE owned[x]]
  /\ Return
  /\ UNCHANGED <<mem_blocks, highest_level, regions, shared>>

\* kmalloc hands the first block of free list l to its caller.
Take(l) ==
  LET free_block == Head(mem_blocks[l]) IN
  /\ mem_blocks' = [mem_blocks EXCEPT ![l] = Tail(@)]
  /\ hdr' = [hdr EXCEPT ![free_block].is_free = FALSE]
  /\ owned' = [x \in DOMAIN owned \cup {free_block} |->
                 IF x = free_block THEN bytes ELSE owned[x]]
  /\ Return
  /\ UNCHANGED <<highest_level, regions, shared>>

\* The request fits: the list of its own level serves it, or the search starts.
KmallocTarget ==
  /\ pc = "grow"
  /\ bytes <= BlockSize[highest_level]
  /\ \E l \in Levels :
       /\ IsTargetLevel(l, bytes)
       /\ \/ /\ mem_blocks[l] # <<>>
             /\ Take(l)
          \/ /\ mem_blocks[l] = <<>>
             /\ pc' = "scan"
             /\ target_level' = l
             /\ curr_level' = highest_level
             /\ UNCHANGED <<mem_blocks, highest_level, hdr, regions, shared, owned,
                            bytes, block>>

\* Mutated: the loop does not get past an empty list.
KmallocSkipNothing ==
  /\ pc = "scan"
  /\ curr_level >= target_level
  /\ mem_blocks[curr_level] = <<>>
  /\ UNCHANGED vars

\* A level of the search whose list is empty.
KmallocSkip ==
  /\ pc = "scan"
  /\ curr_level >= target_level
  /\ mem_blocks[curr_level] = <<>>
  /\ curr_level' = curr_level - 1
  /\ UNCHANGED <<mem_blocks, highest_level, hdr, regions, shared, owned, pc,
                 bytes, target_level, block>>

\* A level above the target: its first block is split in two halves, which
\* become the first blocks of the next list down.
KmallocSplit ==
  /\ pc = "scan"
  /\ curr_level > target_level
  /\ mem_blocks[curr_level] # <<>>
  /\ LET block1 == Head(mem_blocks[curr_level])
         block2 == block1 + BlockSize[curr_level] \div 2
         half   == curr_level - 1
     IN  /\ mem_blocks' = [mem_blocks EXCEPT
                             ![curr_level] = Tail(@),
                             ![half] = <<block2, block1>> \o @]
         /\ hdr' = WriteHeader(WriteHeader(hdr, block1, half, TRUE),
                               block2, half, TRUE)
         /\ curr_level' = half
  /\ UNCHANGED <<highest_level, regions, shared, owned, pc, bytes, target_level, block>>

\* The search has reached the target level and found a block there.
KmallocFound ==
  /\ pc = "scan"
  /\ curr_level = target_level
  /\ mem_blocks[curr_level] # <<>>
  /\ Take(curr_level)

\* Mutated: the loop condition is curr_level > target_level.
KmallocExhaustedEarly ==
  /\ pc = "scan"
  /\ curr_level <= target_level
  /\ Return
  /\ UNCHANGED <<mem_blocks, highest_level, hdr, regions, shared, owned>>

\* The search ran out of levels: kmalloc returns NULL.
KmallocExhausted ==
  /\ pc = "scan"
  /\ curr_level < target_level
  /\ Return
  /\ UNCHANGED <<mem_blocks, highest_level, hdr, regions, shared, owned>>

-----------------------------------------------------------------------------
\* kfree of a block some caller holds.
Kfree(a) ==
  /\ pc = "idle" /\ ~shared
  /\ pc' = "merge"
  /\ block' = a
  /\ hdr' = [hdr EXCEPT ![a].is_free = TRUE]
  /\ owned' = [x \in DOMAIN owned \ {a} |-> owned[x]]
  /\ UNCHANGED <<mem_blocks, highest_level, regions, shared,
                 bytes, target_level, curr_level>>

BuddyOfBlock == Buddy(block, BlockSize[hdr[block].level])

\* Mutated: the loop stops one level early.
BelowHighestByTwo == hdr[block].level + 1 < highest_level

\* The condition of the merge loop.
BelowHighest == hdr[block].level < highest_level

\* Mutated: the level of the buddy is not compared.
IsMergeableAnyLevel(h) == h.is_free

\* Whether a header makes its block one that kfree merges with.
IsMergeable(h) == h.is_free /\ h.level = hdr[block].level

\* The merge loop goes on: the buddy's header reads as a free block's.
MergeGoesOn ==
  /\ pc = "merge"
  /\ BelowHighest
  /\ \E h \in HeaderAt(BuddyOfBlock) : IsMergeable(h)

\* The place in a free list where the walk for b stops.
IsFirst(list, i, b) == list[i] = b /\ \A j \in 1 .. i - 1 : list[j] # b

\* Mutated: the freed block absorbs its buddy, whichever comes first.
LowerOfFirst(a, b) == a

\* The block with the lower address.
LowerOf(a, b) == IF b < a THEN b ELSE a

BuddyIsListed == BuddyOfBlock \in ToSet(mem_blocks[hdr[block].level])

\* One iteration of the merge loop: the buddy leaves its free list, and the
\* lower of the two addresses becomes the block of twice the size.
KfreeMerge ==
  /\ MergeGoesOn
  /\ BuddyIsListed
  /\ LET level == hdr[block].level
         low   == LowerOf(block, BuddyOfBlock)
         high  == block + BuddyOfBlock - low
     IN  /\ \E i \in DOMAIN mem_blocks[level] :
              /\ IsFirst(mem_blocks[level], i, BuddyOfBlock)
              /\ mem_blocks' = [mem_blocks EXCEPT ![level] = RemoveAt(@, i)]
         /\ hdr' = [x \in DOMAIN hdr \ {high} |->
                      IF x = low THEN [level |-> level + 1, is_free |-> TRUE]
                                 ELSE hdr[x]]
         /\ block' = low
  /\ UNCHANGED <<highest_level, regions, shared, owned, pc,
                 bytes, target_level, curr_level>>

\* The same iteration when the walk along the list does not find the buddy: the
\* block grows over memory that was not free, and the model ends.
KfreeMergeForeign ==
  /\ MergeGoesOn
  /\ ~BuddyIsListed
  /\ pc' = "corrupt"
  /\ UNCHANGED <<mem_blocks, highest_level, hdr, regions, shared, owned, locals>>

\* The merge loop ends, and the block goes to the front of its free list.
KfreeInsert ==
  /\ pc = "merge"
  /\ \/ ~BelowHighest
     \/ \E h \in HeaderAt(BuddyOfBlock) : ~IsMergeable(h)
  /\ mem_blocks' = [mem_blocks EXCEPT ![hdr[block].level] = Cons(block, @)]
  /\ Return
  /\ UNCHANGED <<highest_level, hdr, regions, shared, owned>>

-----------------------------------------------------------------------------
\* The steps of a call that has begun.
Step ==
  \/ KallocInit \/ KallocInitFails
  \/ KmallocGrow \/ KmallocGrowFails \/ KmallocTooLarge
  \/ KmallocTarget
  \/ KmallocSkip \/ KmallocSplit \/ KmallocFound \/ KmallocExhausted
  \/ KfreeMerge \/ KfreeMergeForeign \/ KfreeInsert

Next ==
  \/ Step
  \/ \E n \in Requests : Kmalloc(n)
  \/ \E a \in DOMAIN owned : Kfree(a)

\* The processor goes on executing a call it has entered.
Fairness == WF_vars(Step)

Spec == Init /\ [][Next]_vars /\ Fairness

-----------------------------------------------------------------------------
TypeOK ==
  /\ mem_blocks \in [Levels -> Seq(Nat)]
  /\ highest_level \in Levels
  /\ DOMAIN hdr \subseteq Nat /\ \A a \in DOMAIN hdr : hdr[a] \in Header
  /\ DOMAIN regions \subseteq PageRuns /\ shared \in BOOLEAN
  /\ \A r \in DOMAIN regions : regions[r] \in Levels
  /\ DOMAIN owned \subseteq Nat /\ \A a \in DOMAIN owned : owned[a] \in Nat
  /\ pc \in {"boot", "stopped", "idle", "grow", "scan", "merge", "corrupt"}
  /\ bytes \in Nat
  /\ target_level \in Levels
  /\ curr_level \in Levels \cup {-1}
  /\ block \in Nat \cup {NULL}

\* The memory the page allocator gave to the heap.
HeapBytes == UNION {Bytes(r, regions[r]) : r \in DOMAIN regions}

\* The bytes of a current block, by its header.
Extent(a) == Bytes(a, hdr[a].level)

\* A free block: it is on the list of the level its header names.
IsListed(a) == a \in ToSet(mem_blocks[hdr[a].level])

\* kmalloc has not tried to obtain a second run of pages.
BeforeGrowth == highest_level = PageLevel

\* No two callers hold the same byte.
HeldOnce == \A a, b \in DOMAIN owned : a < b => a + owned[a] <= b

(***************************************************************************)
(* As long as no run of pages had bytes of another, no two callers hold    *)
(* the same byte, and what they hold is memory of the heap, in whatever    *)
(* order calls split and merge blocks (mem.c:37-109 with mem.c:111-151) and*)
(* growths are refused.                                                    *)
(***************************************************************************)
LiveRangesDisjoint ==
  ~shared => /\ HeldOnce
             /\ \A a \in DOMAIN owned : a .. a + owned[a] - 1 \subseteq HeapBytes

(***************************************************************************)
(* As long as that holds, no byte of the heap is lost: each one belongs to *)
(* a block that a caller holds, that is on the free list of its level, or  *)
(* that kfree is merging (the splits of mem.c:92-105, the merges of        *)
(* mem.c:121-150).                                                         *)
(***************************************************************************)
NoByteLost ==
  ~shared =>
    \A x \in HeapBytes :
      \E a \in DOMAIN hdr :
        /\ x \in Extent(a)
        /\ \/ a \in DOMAIN owned
           \/ IsListed(a)
           \/ pc \in {"merge", "corrupt"} /\ a = block

(***************************************************************************)
(* "Remove the buddy from the free list" (mem.c:128): a block that kfree   *)
(* takes for the buddy to merge with is on the free list of its level.     *)
(***************************************************************************)
MergesListedBuddy == MergeGoesOn => BuddyIsListed

(***************************************************************************)
(* As long as the heap is the page of kalloc_init, it is so: every header  *)
(* that kfree reads is the header of a block.  It takes the alignment of   *)
(* all blocks, and that they leave no gap, for the XOR of mem.c:123 to     *)
(* name one.                                                               *)
(***************************************************************************)
MergesListedBuddyBeforeGrowth == BeforeGrowth => MergesListedBuddy

(***************************************************************************)
(* Between calls two buddies are never both free, so freeing everything    *)
(* gives back the whole page (the merge loop, mem.c:120-146, against the   *)
(* split loop of kmalloc, mem.c:76-106).                                   *)
(***************************************************************************)
FullyCoalesced ==
  BeforeGrowth /\ pc = "idle" =>
    \A l \in 0 .. PageLevel - 1 : \A a, b \in ToSet(mem_blocks[l]) :
      b # Buddy(a, BlockSize[l])

(***************************************************************************)
(* A search that returns NULL (mem.c:108) leaves no free block of the      *)
(* target level or above, the levels the split loop has passed included.   *)
(***************************************************************************)
NullMeansNoFit ==
  [][pc = "scan" /\ pc' = "idle" /\ owned' = owned =>
       \A l \in target_level .. highest_level : mem_blocks[l] = <<>>]_vars

(***************************************************************************)
(* Every call of kalloc_init, kmalloc and kfree returns: the growth, split *)
(* and merge loops all end.                                                *)
(***************************************************************************)
EveryCallReturns == (pc # "idle") ~> (pc \in {"idle", "stopped", "corrupt"})
=============================================================================
