----------------------------- MODULE PageFrames -----------------------------
(***************************************************************************)
(* The physical page allocator of src/src/mem/paging.c: the choice of the  *)
(* region it manages, the bitmap that says which of its pages are free and *)
(* the scan that looks for a run of them.                                  *)
(*                                                                         *)
(* The bitmap is the set of page indexes whose bit is set; page p is bit   *)
(* p % BUCKET_SIZE of bucket p \div BUCKET_SIZE.  Addresses count in any   *)
(* unit that divides a page.  A step is one iteration of a loop: an entry  *)
(* of the memory map, a bit of the bitmap or a bucket that is passed over. *)
(* The mapping of a page (paging_map_page) is not part of the module: it   *)
(* neither reads nor writes the bitmap.                                    *)
(***************************************************************************)
EXTENDS Integers, Sequences, FiniteSetsExt

CONSTANTS
  BUCKET_SIZE,        (* bits of a bucket of the bitmap; 64 in the kernel   *)
  TOTAL_BUCKET_COUNT, (* 40 in the kernel                                   *)
  IntBits,            (* bits of an int; 32 in the kernel                   *)
  PAGE_SIZE,
  MemoryMaps,         (* the memory maps the boot loader may pass: sequences*)
                      (* of [base, length, usable] records                  *)
  KernelSpans,        (* the pairs <<start, end>> that virt_kernel_start and*)
                      (* virt_kernel_end may hold, less the offset of the   *)
                      (* direct map                                         *)
  Counts,             (* the sizes of the runs that are asked for           *)
  NULL

MAX_PAGES == BUCKET_SIZE * TOTAL_BUCKET_COUNT
PageIndexes == 0 .. MAX_PAGES - 1

ASSUME SizesAssumption ==
  /\ BUCKET_SIZE \in Nat \ {0}
  /\ TOTAL_BUCKET_COUNT \in Nat \ {0}
  /\ IntBits \in 1 .. BUCKET_SIZE
  /\ PAGE_SIZE \in Nat \ {0}
  /\ Counts \subseteq Nat \ {0}

ASSUME MemoryAssumption ==
  /\ MemoryMaps \subseteq Seq([base : Nat, length : Nat, usable : BOOLEAN])
  /\ KernelSpans \subseteq Nat \X Nat
  /\ NULL \notin PageIndexes

VARIABLES
  status,                    (* "boot", "ready", "scan" (paging_alloc_pages *)
                             (* runs) or "failed"                           *)
  memory_map, kernel,        (* the inputs of paging_init_frame_allocator   *)
  mmap_entry, best,          (* its locals: the entry it looks at, the best *)
                             (* region so far                               *)
  pages,                     (* the indexes whose bit in pages[] is set     *)
  paging_phys_page_base,
  paging_present_page_count,
  scan,   (* the locals of paging_alloc_pages: the page it looks at, the    *)
          (* free pages counted, the first page of the run (candidate_addr) *)
  grants, (* how often a page was handed out, counted up to GrantBound      *)
  last    (* the latest call of paging_alloc_pages: count and first page of *)
          (* the run, NULL if there was none                                *)

inputs == <<memory_map, kernel>>
managed == <<paging_phys_page_base, paging_present_page_count>>
vars == <<status, inputs, mmap_entry, best, pages, managed, scan, grants, last>>

GrantBound == 2

AlignDown(a) == (a \div PAGE_SIZE) * PAGE_SIZE
AlignUp(a) == AlignDown(a + PAGE_SIZE - 1)

-----------------------------------------------------------------------------
(***************************************************************************)
(* paging_init_frame_allocator                                             *)
(***************************************************************************)

NoRegion == [first |-> 0, end |-> 0]
Length(r) == r.end - r.first

\* Mutated: the smaller part.
OutsideKernelSmaller(r, kstart, kend) ==
  LET before == IF kstart > r.first THEN kstart - r.first ELSE 0
      after  == IF r.end > kend THEN r.end - kend ELSE 0
  IN  IF ~(r.first < kend /\ r.end > kstart) THEN r
      ELSE IF before < after THEN [r EXCEPT !.end = kstart]
      ELSE [r EXCEPT !.first = kend]

\* The larger part of region r outside the kernel's pages from kstart to kend.
OutsideKernel(r, kstart, kend) ==
  LET before == IF kstart > r.first THEN kstart - r.first ELSE 0
      after  == IF r.end > kend THEN r.end - kend ELSE 0
  IN  IF ~(r.first < kend /\ r.end > kstart) THEN r
      ELSE IF before >= after THEN [r EXCEPT !.end = kstart]
      ELSE [r EXCEPT !.first = kend]

\* Mutated: the partial pages at both ends of an entry are counted in.
WholePagesRoundedOut(entry) ==
  [first |-> AlignDown(entry.base), end |-> AlignUp(entry.base + entry.length)]

\* The whole pages of a memory map entry.
WholePages(entry) ==
  [first |-> AlignUp(entry.base), end |-> AlignDown(entry.base + entry.length)]

\* What is left of an entry once it passes every filter of the loop.
Candidate(entry, span) ==
  LET region == WholePages(entry)
      usable == OutsideKernel(region, AlignUp(span[1]), AlignDown(span[2]))
  IN  IF entry.usable /\ Length(region) > 0 /\ Length(usable) > PAGE_SIZE
      THEN usable ELSE NoRegion

\* One entry of the loop over the memory map: the first of the longest candidates
\* is kept.
ConsiderEntry ==
  /\ status = "boot" /\ mmap_entry <= Len(memory_map)
  /\ LET candidate == Candidate(memory_map[mmap_entry], kernel)
     IN  best' = IF Length(candidate) > Length(best) THEN candidate ELSE best
  /\ mmap_entry' = mmap_entry + 1
  /\ UNCHANGED <<status, inputs, pages, managed, scan, grants, last>>

BucketStart(p) == (p \div BUCKET_SIZE) * BUCKET_SIZE

\* Where a shift of an int by the bit of page p leaves the 1: the processor takes
\* the count modulo the width of an int.
ShiftedBit(p) == BucketStart(p) + ((p % BUCKET_SIZE) % IntBits)

\* The bits of its bucket that "|= 1 << bit" sets for page p: the shifted int is
\* sign-extended to the width of a bucket.
BitsSetFor(p) ==
  IF (p % BUCKET_SIZE) % IntBits = IntBits - 1
  THEN ShiftedBit(p) .. BucketStart(p) + BUCKET_SIZE - 1
  ELSE {ShiftedBit(p)}

\* Mutated: the loop runs to the page count inclusive.
BitmapOfTooMany(count) == UNION {BitsSetFor(p) : p \in 0 .. count}

\* Mutated: the shifted int is not sign-extended.
BitmapOfUnsigned(count) == {ShiftedBit(p) : p \in 0 .. count - 1}

BitmapOf(count) == UNION {BitsSetFor(p) : p \in 0 .. count - 1}

InitFrameAllocator ==
  /\ status = "boot" /\ mmap_entry > Len(memory_map)
  /\ Length(best) > 0
  /\ LET count == Min({Length(best) \div PAGE_SIZE, MAX_PAGES})
     IN  /\ pages' = BitmapOf(count)
         /\ paging_present_page_count' = count
  /\ paging_phys_page_base' = best.first
  /\ status' = "ready"
  /\ UNCHANGED <<inputs, mmap_entry, best, scan, grants, last>>

\* No region is usable: the kernel reports a fatal error and stops.
InitFrameAllocatorFails ==
  /\ status = "boot" /\ mmap_entry > Len(memory_map)
  /\ best = NoRegion
  /\ status' = "failed"
  /\ UNCHANGED <<inputs, mmap_entry, best, pages, managed, scan, grants, last>>

-----------------------------------------------------------------------------
(***************************************************************************)
(* paging_alloc_pages                                                      *)
(***************************************************************************)

NoScan == [count |-> 0, page |-> 0, run |-> 0, candidate |-> 0]

AllocPages(count) ==
  /\ status = "ready"
  /\ status' = "scan"
  /\ scan' = [NoScan EXCEPT !.count = count]
  /\ UNCHANGED <<inputs, mmap_entry, best, pages, managed, grants, last>>

\* No page of the bucket of page p is free.
InEmptyBucket(p) == \A q \in pages : q \div BUCKET_SIZE # p \div BUCKET_SIZE

\* Whether the scan looks at a page, in a bucket that is not passed over.
LooksAtPage ==
  /\ status = "scan" /\ scan.page < MAX_PAGES
  /\ ~InEmptyBucket(scan.page)

\* A bucket of zero is passed over; the count of the run goes on behind it.
SkipBucket ==
  /\ status = "scan" /\ scan.page < MAX_PAGES
  /\ scan.page % BUCKET_SIZE = 0 /\ InEmptyBucket(scan.page)
  /\ scan' = [scan EXCEPT !.page = @ + BUCKET_SIZE]
  /\ UNCHANGED <<status, inputs, mmap_entry, best, pages, managed, grants, last>>

\* The page after page p.
\* Mutated: the last bit of a bucket is not looked at.
NextPageShort(p) == IF (p + 2) % BUCKET_SIZE = 0 THEN p + 2 ELSE p + 1
NextPage(p) == p + 1

\* A page in use ends the run, and becomes the candidate for the first page of the
\* next one.
\* Mutated: the page after it does.
ScanUsedPageNext ==
  /\ LooksAtPage /\ scan.page \notin pages
  /\ scan' = [scan EXCEPT !.page = NextPage(@), !.run = 0, !.candidate = NextPage(scan.page)]
  /\ UNCHANGED <<status, inputs, mmap_entry, best, pages, managed, grants, last>>

ScanUsedPage ==
  /\ LooksAtPage /\ scan.page \notin pages
  /\ scan' = [scan EXCEPT !.page = NextPage(@), !.run = 0, !.candidate = scan.page]
  /\ UNCHANGED <<status, inputs, mmap_entry, best, pages, managed, grants, last>>

\* A free page lengthens the run.
ScanFreePage ==
  /\ LooksAtPage /\ scan.page \in pages
  /\ scan.run + 1 # scan.count
  /\ scan' = [scan EXCEPT !.page = NextPage(@), !.run = @ + 1]
  /\ UNCHANGED <<status, inputs, mmap_entry, best, pages, managed, grants, last>>

\* The pages the marking loop clears the bits of.
Marked(first, count) == first .. first + count - 1

\* The run is long enough: its pages are marked as used and handed out.
Grant ==
  /\ LooksAtPage /\ scan.page \in pages
  /\ scan.run + 1 = scan.count
  /\ pages' = pages \ Marked(scan.candidate, scan.count)
  /\ grants' = [p \in PageIndexes |->
       IF p \in scan.candidate .. scan.candidate + scan.count - 1
       THEN Min({grants[p] + 1, GrantBound}) ELSE grants[p]]
  /\ last' = [count |-> scan.count, first |-> scan.candidate]
  /\ status' = "ready"
  /\ scan' = NoScan
  /\ UNCHANGED <<inputs, mmap_entry, best, managed>>

AllocPagesFails ==
  /\ status = "scan" /\ scan.page >= MAX_PAGES
  /\ last' = [count |-> scan.count, first |-> NULL]
  /\ status' = "ready"
  /\ scan' = NoScan
  /\ UNCHANGED <<inputs, mmap_entry, best, pages, managed, grants>>

Init ==
  /\ status = "boot"
  /\ memory_map \in MemoryMaps
  /\ kernel \in KernelSpans
  /\ mmap_entry = 1
  /\ best = NoRegion
  /\ pages = {}
  /\ paging_phys_page_base = 0
  /\ paging_present_page_count = 0
  /\ scan = NoScan
  /\ grants = [p \in PageIndexes |-> 0]
  /\ last = [count |-> 0, first |-> NULL]

Next ==
  \/ ConsiderEntry \/ InitFrameAllocator \/ InitFrameAllocatorFails
  \/ \E count \in Counts : AllocPages(count)
  \/ SkipBucket \/ ScanUsedPage \/ ScanFreePage \/ Grant \/ AllocPagesFails

Spec == Init /\ [][Next]_vars

-----------------------------------------------------------------------------
TypeOK ==
  /\ status \in {"boot", "ready", "scan", "failed"}
  /\ mmap_entry \in 1 .. Len(memory_map) + 1
  /\ best \in [first : Nat, end : Nat]
  /\ pages \subseteq PageIndexes
  /\ paging_phys_page_base \in Nat
  /\ paging_present_page_count \in 0 .. MAX_PAGES
  /\ scan \in [count : Counts \cup {0}, page : 0 .. MAX_PAGES,
               run : 0 .. MAX_PAGES, candidate : 0 .. MAX_PAGES]
  /\ grants \in [PageIndexes -> 0 .. GrantBound]
  /\ last \in [count : Counts \cup {0}, first : PageIndexes \cup {NULL}]

Initialised == status \in {"ready", "scan"}
RegionEnd == paging_phys_page_base + paging_present_page_count * PAGE_SIZE

(***************************************************************************)
(* The managed pages are memory the boot loader calls usable, and hold no  *)
(* whole page of the kernel (the rounding and the cut of paging.c:109-136).*)
(***************************************************************************)
RegionIsUsable ==
  Initialised =>
    /\ \E i \in DOMAIN memory_map :
         /\ memory_map[i].usable
         /\ memory_map[i].base <= paging_phys_page_base
         /\ RegionEnd <= memory_map[i].base + memory_map[i].length
    /\ \/ RegionEnd <= AlignUp(kernel[1])
       \/ AlignDown(kernel[2]) <= paging_phys_page_base

\* The page-aligned runs of pages in usable memory that hold no byte of a page
\* the kernel touches.
RunsAroundKernel ==
  LET Top   == Max({0} \cup
               {memory_map[i].base + memory_map[i].length : i \in DOMAIN memory_map})
      Edges == {PAGE_SIZE * n : n \in 0 .. Top \div PAGE_SIZE}
  IN  {r \in [first : Edges, end : Edges] :
         /\ \E i \in DOMAIN memory_map :
              /\ memory_map[i].usable
              /\ memory_map[i].base <= r.first
              /\ r.end <= memory_map[i].base + memory_map[i].length
         /\ r.end <= AlignDown(kernel[1]) \/ AlignUp(kernel[2]) <= r.first}

(***************************************************************************)
(* "Update largest usable block" (paging.c:140): no run of pages around    *)
(* the kernel is longer than the one chosen, and paging_init_frame_        *)
(* allocator fails only when none has two pages.                           *)
(***************************************************************************)
LargestRegionChosen ==
  last.count = 0 => \A r \in RunsAroundKernel :
    /\ Initialised =>
         Min({Length(r) \div PAGE_SIZE, MAX_PAGES}) <= paging_present_page_count
    /\ status = "failed" => Length(r) <= PAGE_SIZE

(***************************************************************************)
(* Every page of the region can be handed out from the start, the shift of *)
(* an int by up to 63 in paging.c:157 notwithstanding.                     *)
(***************************************************************************)
PresentPagesStartFree ==
  Initialised /\ last.count = 0 =>
    0 .. paging_present_page_count - 1 \subseteq pages

(***************************************************************************)
(* "Determine the usable subregion" (paging.c:119): what is handed out is  *)
(* part of the region.                                                     *)
(***************************************************************************)
GrantsInsideRegion ==
  \A p \in PageIndexes : grants[p] > 0 => p < paging_present_page_count

(***************************************************************************)
(* The regions for which that is true: those that leave the bits of the    *)
(* last bucket from the sign bit of an int on alone (paging.c:157).  Up to *)
(* there, no sequence of runs, those marked one page too low included,     *)
(* reaches a page behind the region.                                       *)
(***************************************************************************)
GrantsInsideShortRegion ==
  paging_present_page_count % BUCKET_SIZE < IntBits => GrantsInsideRegion

(***************************************************************************)
(* "Mark pages as used" (paging.c:182): no page is handed out twice.       *)
(***************************************************************************)
NoPageGrantedTwice == \A p \in PageIndexes : grants[p] < 2

(***************************************************************************)
(* paging_alloc_pages gives up (paging.c:197) only when no run of free     *)
(* pages is long enough, runs across two buckets included.                 *)
(***************************************************************************)
NullMeansNoRun ==
  last.count > 0 /\ last.first = NULL =>
    ~ \E first \in PageIndexes : first .. first + last.count - 1 \subseteq pages

(***************************************************************************)
(* What callers of paging_alloc_pages get all the same: once a page has    *)
(* been handed out, every further run begins with a page that somebody     *)
(* has.  The scan takes the page that ended the run before for the first   *)
(* page of the next one (paging.c:178), and over full buckets, which it    *)
(* passes, page 0 (paging.c:168).                                          *)
(***************************************************************************)
LaterRunsBeginInUse ==
  [][/\ status = "scan" /\ status' = "ready" /\ last'.first # NULL
     /\ \E p \in PageIndexes : grants[p] > 0
     => grants[last'.first] > 0]_vars
=============================================================================
