----------------------------- MODULE HeapProofs -----------------------------
(***************************************************************************)
(* Proofs about Heap, for any number of levels, any block sizes that       *)
(* double, any requests and any page runs.  The inductive invariant says   *)
(* what the free lists, the headers and the callers' blocks have to do     *)
(* with each other in every state of every call: the blocks of the heap    *)
(* tile it, and each is owned, listed at its level, or being merged.  That *)
(* lasts until a run of pages has bytes of another: what is left then is   *)
(* that the call which obtained it takes it from its list and returns.     *)
(*                                                                         *)
(* While the heap is the page of kalloc_init, every block begins at a      *)
(* multiple of its size, so that the exclusive or of kfree names a block   *)
(* of the heap, and buddies that are both free are merged before the next  *)
(* call.  The last part is about the bit arithmetic that finds the level   *)
(* of a request.                                                           *)
(***************************************************************************)
EXTENDS HeapLevels, LoopProofs, SequenceTheorems, TLAPS

Distinct(s) == \A i, j \in DOMAIN s : s[i] = s[j] => i = j

BootState ==
  pc = "boot" => /\ DOMAIN hdr = {}
                 /\ DOMAIN regions = {}
                 /\ DOMAIN owned = {}
                 /\ highest_level = PageLevel
                 /\ \A l \in Levels : mem_blocks[l] = <<>>

BlocksApart ==
  \A a, b \in DOMAIN hdr : a < b => a + BlockSize[hdr[a].level] <= b

BlocksInHeap == \A a \in DOMAIN hdr : Extent(a) \subseteq HeapBytes

HeapCovered == \A x \in HeapBytes : \E a \in DOMAIN hdr : x \in Extent(a)

LevelsBounded == \A a \in DOMAIN hdr : hdr[a].level <= highest_level

ListsOk ==
  \A l \in Levels :
    /\ Distinct(mem_blocks[l])
    /\ \A b \in ToSet(mem_blocks[l]) :
         b \in DOMAIN hdr /\ hdr[b].level = l /\ hdr[b].is_free

OwnedOk ==
  \A a \in DOMAIN owned :
    /\ a \in DOMAIN hdr
    /\ ~hdr[a].is_free
    /\ owned[a] <= BlockSize[hdr[a].level]

Merging == pc \in {"merge", "corrupt"}

BlocksAccounted ==
  \A a \in DOMAIN hdr : a \in DOMAIN owned \/ IsListed(a) \/ (Merging /\ a = block)

MergingOk ==
  Merging => block \in DOMAIN hdr /\ hdr[block].is_free /\ ~IsListed(block)

SearchOk == pc = "scan" => bytes <= BlockSize[target_level]

\* What depends on the memory alone, not on the running call.
Memory ==
  /\ BlocksApart
  /\ BlocksInHeap
  /\ HeapCovered
  /\ LevelsBounded
  /\ ListsOk
  /\ OwnedOk

IInv ==
  /\ TypeOK
  /\ BootState
  /\ Memory
  /\ BlocksAccounted
  /\ MergingOk
  /\ SearchOk

\* The call that obtained a run which is not fresh ends with it.
SharedOk ==
  shared =>
    /\ pc \in {"idle", "grow"}
    /\ highest_level > PageLevel
    /\ pc = "grow" => /\ mem_blocks[highest_level] # <<>>
                      /\ BlockSize[highest_level - 1] < bytes

HeapInv ==
  /\ TypeOK
  /\ highest_level >= PageLevel
  /\ SharedOk
  /\ ~shared => IInv

-----------------------------------------------------------------------------
\* Facts about the levels and the sequences the lists are.

LEMMA LevelFacts ==
  /\ Levels \subseteq Nat
  /\ 0 \in Levels
  /\ PageLevel \in Levels
  /\ \A l \in Levels : BlockSize[l] \in Nat /\ BlockSize[l] > 0
  /\ \A l \in Levels, k \in Nat : k <= l => k \in Levels
  /\ \A l \in Levels : l + 1 < MEM_BLOCKS_MAX_LEVEL_COUNT => l + 1 \in Levels
  /\ \A l \in Levels : l > 0 => BlockSize[l] = 2 * BlockSize[l - 1]
<1>1. Levels \subseteq Nat /\ 0 \in Levels /\ PageLevel \in Levels
  BY LevelAssumption DEF Levels
<1>2. \A l \in Levels : BlockSize[l] \in Nat /\ BlockSize[l] > 0
  BY SizeAssumption
<1>3. \A l \in Levels, k \in Nat : k <= l => k \in Levels
  BY LevelAssumption DEF Levels
<1>4. \A l \in Levels : l + 1 < MEM_BLOCKS_MAX_LEVEL_COUNT => l + 1 \in Levels
  BY LevelAssumption DEF Levels
<1>5. ASSUME NEW l \in Levels, l > 0
      PROVE  BlockSize[l] = 2 * BlockSize[l - 1]
  <2>1. l - 1 \in Levels /\ (l - 1) + 1 = l
    BY <1>5, LevelAssumption DEF Levels
  <2>2. QED BY <2>1, SizeAssumption
<1>6. QED BY <1>1, <1>2, <1>3, <1>4, <1>5

\* Taking the first block off a list.
LEMMA TailFacts ==
  ASSUME NEW s \in Seq(Nat), s # <<>>, Distinct(s)
  PROVE  /\ Head(s) \in ToSet(s)
         /\ Tail(s) \in Seq(Nat)
         /\ Distinct(Tail(s))
         /\ ToSet(Tail(s)) = ToSet(s) \ {Head(s)}
<1>1. Len(s) \in Nat /\ Len(s) > 0 /\ DOMAIN s = 1 .. Len(s) /\ Head(s) = s[1]
  OBVIOUS
<1>2. Tail(s) \in Seq(Nat) /\ DOMAIN Tail(s) = 1 .. Len(s) - 1
  BY <1>1
<1>3. \A i \in DOMAIN Tail(s) : i + 1 \in DOMAIN s /\ Tail(s)[i] = s[i + 1]
  BY <1>1, <1>2
<1>4. \A j \in DOMAIN s : j # 1 => j - 1 \in DOMAIN Tail(s) /\ Tail(s)[j - 1] = s[j]
  BY <1>1, <1>2
<1>5. Head(s) \in ToSet(s)
  BY <1>1 DEF ToSet
<1>6. Distinct(Tail(s))
  BY <1>2, <1>3 DEF Distinct
<1>7. ToSet(Tail(s)) \subseteq ToSet(s) \ {Head(s)}
  <2> SUFFICES ASSUME NEW i \in DOMAIN Tail(s)
               PROVE  Tail(s)[i] \in ToSet(s) /\ Tail(s)[i] # Head(s)
    BY DEF ToSet
  <2>1. i + 1 \in DOMAIN s /\ Tail(s)[i] = s[i + 1]
    BY <1>3
  <2>2. i + 1 # 1 /\ 1 \in DOMAIN s
    BY <1>1, <1>2
  <2>3. QED BY <1>1, <2>1, <2>2 DEF ToSet, Distinct
<1>8. ToSet(s) \ {Head(s)} \subseteq ToSet(Tail(s))
  BY <1>1, <1>4 DEF ToSet
<1>9. QED BY <1>2, <1>5, <1>6, <1>7, <1>8

\* Unlinking the block at position k.
LEMMA RemoveAtFacts ==
  ASSUME NEW s \in Seq(Nat), NEW k \in DOMAIN s, Distinct(s)
  PROVE  /\ RemoveAt(s, k) \in Seq(Nat)
         /\ Distinct(RemoveAt(s, k))
         /\ ToSet(RemoveAt(s, k)) = ToSet(s) \ {s[k]}
<1> DEFINE r == RemoveAt(s, k)
           from(i) == IF i < k THEN i ELSE i + 1
<1>1. Len(s) \in Nat /\ DOMAIN s = 1 .. Len(s) /\ k \in 1 .. Len(s)
  OBVIOUS
<1> DEFINE p == SubSeq(s, 1, k - 1)
           q == SubSeq(s, k + 1, Len(s))
<1>2. /\ p \in Seq(Nat) /\ Len(p) = k - 1
      /\ \A i \in 1 .. k - 1 : p[i] = s[i]
  BY <1>1, SubSeqProperties
<1>3. /\ q \in Seq(Nat) /\ Len(q) = Len(s) - k
      /\ \A i \in 1 .. Len(s) - k : q[i] = s[k + i]
  <2>1. \A i \in k + 1 .. Len(s) : s[i] \in Nat
    BY <1>1
  <2>2. /\ q \in Seq(Nat)
        /\ Len(q) = IF k + 1 <= Len(s) THEN Len(s) - (k + 1) + 1 ELSE 0
        /\ \A i \in 1 .. Len(s) - (k + 1) + 1 : q[i] = s[k + 1 + i - 1]
    <3>1. k + 1 \in Int /\ Len(s) \in Int
      BY <1>1
    <3>2. \A m, n \in Int : (\A i \in m .. n : s[i] \in Nat) =>
            /\ SubSeq(s, m, n) \in Seq(Nat)
            /\ Len(SubSeq(s, m, n)) = IF m <= n THEN n - m + 1 ELSE 0
            /\ \A i \in 1 .. n - m + 1 : SubSeq(s, m, n)[i] = s[m + i - 1]
      BY SubSeqProperties
    <3>3. k + 1 \in Int
      BY <1>1
    <3>4. QED BY <2>1, <3>1, <3>2, <3>3, Zenon
  <2> HIDE DEF q
  <2>3. \A i \in 1 .. Len(s) - k : k + 1 + i - 1 = k + i
    BY <1>1
  <2>4. Len(q) = Len(s) - k
    <3>1. Len(s) \in Int /\ k \in Int /\ k <= Len(s)
      BY <1>1
    <3>2. CASE k + 1 <= Len(s)
      <4>1. Len(q) = Len(s) - (k + 1) + 1
        BY <2>2, <3>2
      <4>2. QED BY <3>1, <4>1
    <3>3. CASE ~(k + 1 <= Len(s))
      <4>1. Len(q) = 0
        BY <2>2, <3>3
      <4>2. QED BY <3>1, <3>3, <4>1
    <3>4. QED BY <3>2, <3>3
  <2>5. 1 .. Len(s) - (k + 1) + 1 = 1 .. Len(s) - k
    BY <1>1
  <2>6. QED BY <2>2, <2>3, <2>4, <2>5
<1>4. /\ r \in Seq(Nat) /\ Len(r) = Len(s) - 1 /\ DOMAIN r = 1 .. Len(s) - 1
      /\ \A i \in 1 .. Len(s) - 1 :
           r[i] = IF i <= k - 1 THEN p[i] ELSE q[i - (k - 1)]
  <2>1. r = p \o q
    BY DEF RemoveAt
  <2> HIDE DEF p, q, r
  <2>2. /\ r \in Seq(Nat) /\ Len(r) = Len(p) + Len(q)
        /\ \A i \in 1 .. Len(p) + Len(q) :
             r[i] = IF i <= Len(p) THEN p[i] ELSE q[i - Len(p)]
    BY <1>2, <1>3, <2>1, ConcatProperties
  <2>3. Len(p) = k - 1 /\ Len(p) + Len(q) = Len(s) - 1
    BY <1>1, <1>2, <1>3
  <2>4. DOMAIN r = 1 .. Len(r)
    BY <2>2
  <2>5. QED BY <2>2, <2>3, <2>4
<1> HIDE DEF p, q, r
<1>5. ASSUME NEW i \in DOMAIN r
      PROVE  from(i) \in DOMAIN s /\ from(i) # k /\ r[i] = s[from(i)]
  <2>1. i \in 1 .. Len(s) - 1 /\ k \in 1 .. Len(s) /\ Len(s) \in Nat
    BY <1>1, <1>4
  <2>2. from(i) \in 1 .. Len(s) /\ from(i) # k
    BY <2>1
  <2>3. CASE i < k
    <3>1. i <= k - 1 /\ i \in 1 .. k - 1
      BY <2>1, <2>3
    <3>2. QED BY <1>1, <1>2, <1>4, <2>1, <2>2, <2>3, <3>1
  <2>4. CASE ~(i < k)
    <3>1. ~(i <= k - 1) /\ i - (k - 1) \in 1 .. Len(s) - k /\ k + (i - (k - 1)) = i + 1
      <4>1. \A n, a, b \in Nat : b <= a /\ a <= n - 1 =>
              ~(a <= b - 1) /\ a - (b - 1) \in 1 .. n - b /\ b + (a - (b - 1)) = a + 1
        OBVIOUS
      <4>2. i \in Nat /\ k \in Nat /\ k <= i /\ i <= Len(s) - 1
        BY <2>1, <2>4
      <4>3. QED BY <2>1, <4>1, <4>2, Zenon
    <3>2. r[i] = q[i - (k - 1)]
      <4>1. i \in 1 .. Len(s) - 1 /\ ~(i <= k - 1)
        BY <2>1, <3>1
      <4>2. r[i] = IF i <= k - 1 THEN p[i] ELSE q[i - (k - 1)]
        BY <1>4, <4>1, Zenon
      <4>3. QED BY <4>1, <4>2, Zenon
    <3>3. \A j \in 1 .. Len(s) - k : k + j = i + 1 => q[j] = s[i + 1]
      BY <1>3
    <3>4. q[i - (k - 1)] = s[i + 1]
      BY <3>1, <3>3
    <3>5. from(i) = i + 1
      BY <2>4
    <3>6. QED BY <1>1, <2>2, <3>2, <3>4, <3>5
  <2>5. QED BY <2>3, <2>4
<1>6. Distinct(r)
  <2> SUFFICES ASSUME NEW i \in DOMAIN r, NEW j \in DOMAIN r, r[i] = r[j]
               PROVE  i = j
    BY DEF Distinct
  <2>1. from(i) = from(j)
    BY <1>5 DEF Distinct
  <2>2. i \in Int /\ j \in Int /\ k \in Int
    BY <1>1, <1>4
  <2>3. QED BY <2>1, <2>2
<1>7. ToSet(r) \subseteq ToSet(s) \ {s[k]}
  <2> SUFFICES ASSUME NEW i \in DOMAIN r
               PROVE  r[i] \in ToSet(s) /\ r[i] # s[k]
    BY DEF ToSet
  <2>1. from(i) \in DOMAIN s /\ from(i) # k /\ r[i] = s[from(i)]
    BY <1>5
  <2> HIDE DEF from
  <2>2. QED BY <2>1 DEF ToSet, Distinct
<1>8. ASSUME NEW j \in DOMAIN s, j # k
      PROVE  s[j] \in ToSet(r)
  <2> DEFINE i == IF j < k THEN j ELSE j - 1
  <2>1. i \in DOMAIN r /\ from(i) = j
    <3>1. j \in 1 .. Len(s) /\ k \in 1 .. Len(s) /\ Len(s) \in Nat
      BY <1>1
    <3>2. i \in 1 .. Len(s) - 1 /\ from(i) = j
      BY <1>8, <3>1
    <3>3. QED BY <1>4, <3>2
  <2>2. QED BY <2>1, <1>5 DEF ToSet
<1>9. ToSet(s) \ {s[k]} \subseteq ToSet(r)
  BY <1>8 DEF ToSet
<1>10. QED BY <1>4, <1>6, <1>7, <1>9 DEF r

\* Putting a block in front of a list.
LEMMA ConsFacts ==
  ASSUME NEW s \in Seq(Nat), NEW e \in Nat, Distinct(s), e \notin ToSet(s)
  PROVE  /\ <<e>> \o s \in Seq(Nat)
         /\ Distinct(<<e>> \o s)
         /\ ToSet(<<e>> \o s) = ToSet(s) \cup {e}
<1> DEFINE r == <<e>> \o s
<1>1. Len(s) \in Nat /\ DOMAIN s = 1 .. Len(s)
  OBVIOUS
<1>2. r \in Seq(Nat) /\ DOMAIN r = 1 .. Len(s) + 1 /\ r[1] = e
  BY <1>1
<1>3. \A i \in DOMAIN r : i # 1 => i - 1 \in DOMAIN s /\ r[i] = s[i - 1]
  BY <1>1, <1>2
<1>4. \A j \in DOMAIN s : j + 1 \in DOMAIN r /\ r[j + 1] = s[j]
  BY <1>1, <1>2
<1>5. \A i \in DOMAIN r : i # 1 => r[i] \in ToSet(s)
  BY <1>3 DEF ToSet
<1>6. Distinct(r)
  BY <1>1, <1>2, <1>3, <1>5 DEF Distinct
<1>7. ToSet(r) \subseteq ToSet(s) \cup {e}
  BY <1>2, <1>5 DEF ToSet
<1>8. ToSet(s) \cup {e} \subseteq ToSet(r)
  <2>1. e \in ToSet(r)
    BY <1>1, <1>2 DEF ToSet
  <2>2. ToSet(s) \subseteq ToSet(r)
    BY <1>4 DEF ToSet
  <2>3. QED BY <2>1, <2>2
<1>9. QED BY <1>2, <1>6, <1>7, <1>8

-----------------------------------------------------------------------------
\* Steps that leave the memory alone.

LEMMA MemoryUnchanged ==
  ASSUME Memory, UNCHANGED <<mem_blocks, highest_level, hdr, regions, owned>>
  PROVE  Memory'
BY DEF Memory, BlocksApart, BlocksInHeap, HeapCovered, LevelsBounded, ListsOk,
       OwnedOk, Extent, Bytes, HeapBytes, Distinct

LEMMA InitEstablishes == Init => IInv
<1> SUFFICES ASSUME Init PROVE IInv
  OBVIOUS
<1>1. TypeOK
  <2>1. shared \in BOOLEAN
    BY DEF Init
  <2>2. mem_blocks \in [Levels -> Seq(Nat)]
    BY DEF Init
  <2> QED BY <2>1, <2>2, LevelFacts, EnvironmentAssumption DEF Init, TypeOK
<1>2. DOMAIN hdr = {} /\ DOMAIN regions = {} /\ DOMAIN owned = {}
  BY DEF Init
<1>3. HeapBytes = {}
  BY <1>2 DEF HeapBytes
<1>4. ListsOk
  BY DEF Init, ListsOk, Distinct, ToSet
<1>5. Memory
  BY <1>2, <1>3, <1>4 DEF Memory, BlocksApart, BlocksInHeap, HeapCovered,
     LevelsBounded, OwnedOk
<1>6. BootState /\ BlocksAccounted /\ MergingOk /\ SearchOk
  BY <1>2 DEF Init, BootState, BlocksAccounted, MergingOk, SearchOk, Merging
<1>7. QED BY <1>1, <1>5, <1>6 DEF IInv

LEMMA QuietStep ==
  ASSUME IInv,
         UNCHANGED <<mem_blocks, highest_level, hdr, regions, owned>>,
         TypeOK', SearchOk',
         pc' # "boot",
         Merging' <=> Merging,
         Merging => block' = block
  PROVE  IInv'
<1>1. Memory'
  BY MemoryUnchanged DEF IInv
<1>2. BlocksAccounted' /\ MergingOk'
  BY DEF IInv, BlocksAccounted, MergingOk, Merging, IsListed
<1>3. BootState'
  BY DEF BootState
<1>4. QED BY <1>1, <1>2, <1>3 DEF IInv

LEMMA KallocInitFailsStep == IInv /\ KallocInitFails => IInv'
<1> SUFFICES ASSUME IInv, KallocInitFails PROVE IInv'
  OBVIOUS
<1>1. TypeOK' /\ SearchOk'
  BY DEF IInv, TypeOK, KallocInitFails, locals, SearchOk
<1>2. QED BY <1>1, QuietStep DEF KallocInitFails, locals, Merging

LEMMA KmallocStep ==
  ASSUME IInv, NEW n \in Requests, Kmalloc(n)
  PROVE  IInv'
<1>1. n + MetaSize \in Nat
  BY EnvironmentAssumption, SizeAssumption
<1>2. TypeOK' /\ SearchOk'
  BY <1>1 DEF IInv, TypeOK, Kmalloc, SearchOk
<1>3. QED BY <1>2, QuietStep DEF Kmalloc, Merging

LEMMA KmallocTooLargeStep == IInv /\ KmallocTooLarge => IInv'
<1> SUFFICES ASSUME IInv, KmallocTooLarge PROVE IInv'
  OBVIOUS
<1>1. TypeOK' /\ SearchOk'
  BY LevelFacts DEF IInv, TypeOK, KmallocTooLarge, Return, SearchOk
<1>2. QED BY <1>1, QuietStep DEF KmallocTooLarge, Return, Merging

LEMMA KmallocSkipStep == IInv /\ KmallocSkip => IInv'
<1> SUFFICES ASSUME IInv, KmallocSkip PROVE IInv'
  OBVIOUS
<1>1. curr_level - 1 \in Levels \cup {-1}
  BY LevelAssumption DEF IInv, TypeOK, KmallocSkip, Levels
<1>2. TypeOK' /\ SearchOk'
  BY <1>1 DEF IInv, TypeOK, KmallocSkip, SearchOk
<1>3. QED BY <1>2, QuietStep DEF KmallocSkip, Merging

LEMMA KmallocExhaustedStep == IInv /\ KmallocExhausted => IInv'
<1> SUFFICES ASSUME IInv, KmallocExhausted PROVE IInv'
  OBVIOUS
<1>1. TypeOK' /\ SearchOk'
  BY LevelFacts DEF IInv, TypeOK, KmallocExhausted, Return, SearchOk
<1>2. QED BY <1>1, QuietStep DEF KmallocExhausted, Return, Merging

LEMMA KfreeMergeForeignStep == IInv /\ KfreeMergeForeign => IInv'
<1> SUFFICES ASSUME IInv, KfreeMergeForeign PROVE IInv'
  OBVIOUS
<1>1. TypeOK' /\ SearchOk'
  BY DEF IInv, TypeOK, KfreeMergeForeign, locals, SearchOk
<1>2. QED BY <1>1, QuietStep
          DEF KfreeMergeForeign, MergeGoesOn, locals, Merging

-----------------------------------------------------------------------------
\* Steps that obtain pages.

\* A run that is no block leaves the lists alone.
LEMMA CutFacts ==
  ASSUME NEW list \in Seq(Nat), NEW a
  PROVE  /\ CutAfter(list, a) \in Seq(Nat)
         /\ a \notin ToSet(list) => CutAfter(list, a) = list
<1>1. CASE a \notin ToSet(list)
  BY <1>1 DEF CutAfter
<1>2. CASE a \in ToSet(list)
  <2> DEFINE i == CHOOSE i \in DOMAIN list : list[i] = a
  <2>1. i \in DOMAIN list
    BY <1>2 DEF ToSet
  <2>2. CutAfter(list, a) = SubSeq(list, 1, i)
    BY <1>2 DEF CutAfter
  <2> HIDE DEF i
  <2>3. Len(list) \in Nat /\ i \in 1 .. Len(list)
    BY <2>1
  <2> QED BY <1>2, <2>2, <2>3
<1> QED BY <1>1, <1>2

LEMMA AddRegionFacts ==
  ASSUME IInv, ~Merging, NEW run \in PageRuns, NEW l \in Levels,
         mem_blocks[l] = <<>>, highest_level <= l, highest_level' = l,
         ~Overlaps(run, l), AddRegion(run, l), owned' = owned
  PROVE  /\ Memory'
         /\ \A a \in DOMAIN hdr' : a \in DOMAIN owned' \/ IsListed(a)'
         /\ mem_blocks' \in [Levels -> Seq(Nat)]
         /\ DOMAIN hdr' \subseteq Nat /\ \A a \in DOMAIN hdr' : hdr'[a] \in Header
         /\ DOMAIN regions' \subseteq PageRuns
         /\ \A r \in DOMAIN regions' : regions'[r] \in Levels
<1> USE DEF AddRegion
<1>1. run \in Nat /\ BlockSize[l] \in Nat /\ BlockSize[l] > 0
  BY EnvironmentAssumption, LevelFacts
<1>2. /\ DOMAIN hdr \subseteq Nat
      /\ \A a \in DOMAIN hdr : hdr[a] \in Header /\ BlockSize[hdr[a].level] \in Nat
                               /\ BlockSize[hdr[a].level] > 0
  BY LevelFacts DEF IInv, TypeOK, Header
<1>3. /\ DOMAIN hdr' = DOMAIN hdr \cup {run}
      /\ hdr'[run] \in Header /\ hdr'[run].level = l /\ hdr'[run].is_free
      /\ \A a \in DOMAIN hdr : a # run => hdr'[a] = hdr[a]
  BY DEF WriteHeader, Header
<1>4. /\ DOMAIN regions' = DOMAIN regions \cup {run}
      /\ regions'[run] = l
      /\ \A r \in DOMAIN regions : r # run => regions'[r] = regions[r]
  OBVIOUS
<1>5. Bytes(run, l) \cap HeapBytes = {}
  BY DEF Overlaps, HeapBytes
<1>6. \A a \in DOMAIN hdr : a \in Extent(a)
  BY <1>2 DEF Extent, Bytes
<1>7. run \in Bytes(run, l)
  BY <1>1 DEF Bytes
<1>8. run \notin DOMAIN hdr
  BY <1>5, <1>6, <1>7 DEF IInv, Memory, BlocksInHeap
<1>9. run \notin DOMAIN regions
  <2> SUFFICES ASSUME run \in DOMAIN regions PROVE FALSE
    OBVIOUS
  <2>1. run \in Bytes(run, regions[run])
    <3>1. regions[run] \in Levels
      BY DEF IInv, TypeOK
    <3>2. BlockSize[regions[run]] \in Nat /\ BlockSize[regions[run]] > 0
      BY <3>1, LevelFacts
    <3>3. QED BY <1>1, <3>2 DEF Bytes
  <2>2. QED BY <2>1, <1>5, <1>7 DEF HeapBytes
<1>10. HeapBytes' = HeapBytes \cup Bytes(run, l)
  <2>1. \A r \in DOMAIN regions : Bytes(r, regions'[r]) = Bytes(r, regions[r])
    BY <1>4, <1>9
  <2>2. Bytes(run, regions'[run]) = Bytes(run, l)
    BY <1>4
  <2>3. HeapBytes' = UNION {Bytes(r, regions'[r]) : r \in DOMAIN regions'}
    BY DEF HeapBytes, Bytes
  <2>4. ASSUME NEW x
        PROVE  x \in HeapBytes' <=> x \in HeapBytes \/ x \in Bytes(run, l)
    <3> HIDE DEF AddRegion
    <3>1. x \in HeapBytes' <=> \E r \in DOMAIN regions' : x \in Bytes(r, regions'[r])
      BY <2>3
    <3>2. x \in HeapBytes <=> \E r \in DOMAIN regions : x \in Bytes(r, regions[r])
      BY DEF HeapBytes
    <3>3. QED BY <1>4, <2>1, <2>2, <3>1, <3>2
  <2>5. QED BY <2>4
<1>11. \A a \in DOMAIN hdr : hdr'[a] = hdr[a] /\ Extent(a)' = Extent(a)
  BY <1>3, <1>8 DEF Extent, Bytes
<1>12. Extent(run)' = Bytes(run, l)
  BY <1>3 DEF Extent, Bytes
<1>13. BlocksApart'
  <2>1. ASSUME NEW a \in DOMAIN hdr
        PROVE  /\ a < run => a + BlockSize[hdr[a].level] <= run
               /\ run < a => run + BlockSize[l] <= a
    <3>1. Extent(a) \cap Bytes(run, l) = {}
      BY <1>5 DEF IInv, Memory, BlocksInHeap
    <3>2. a \in Nat /\ BlockSize[hdr[a].level] \in Nat
      BY <1>2
    <3> HIDE DEF AddRegion
    <3>3. a < run => a + BlockSize[hdr[a].level] <= run
      <4>1. run \notin Extent(a)
        BY <1>7, <3>1
      <4>2. QED BY <1>1, <3>2, <4>1 DEF Extent, Bytes
    <3>4. run < a => run + BlockSize[l] <= a
      <4>1. a \notin Bytes(run, l)
        BY <1>6, <3>1
      <4>2. QED BY <1>1, <3>2, <4>1 DEF Bytes
    <3>5. QED BY <3>3, <3>4
  <2>2. \A a, b \in DOMAIN hdr : a < b => a + BlockSize[hdr[a].level] <= b
    BY DEF IInv, Memory, BlocksApart
  <2>3. SUFFICES ASSUME NEW a \in DOMAIN hdr', NEW b \in DOMAIN hdr', a < b
                 PROVE  a + BlockSize[hdr'[a].level] <= b
    BY DEF BlocksApart
  <2>4. CASE a = run /\ b = run
    BY <1>1, <2>3, <2>4
  <2>5. CASE a = run /\ b \in DOMAIN hdr
    <3>1. hdr'[a].level = l /\ run < b
      BY <1>3, <2>3, <2>5
    <3>2. QED BY <2>1, <2>5, <3>1
  <2>6. CASE a \in DOMAIN hdr /\ b = run
    BY <1>11, <2>1, <2>3, <2>6
  <2>7. CASE a \in DOMAIN hdr /\ b \in DOMAIN hdr
    BY <1>11, <2>2, <2>3, <2>7
  <2>8. QED BY <1>3, <2>4, <2>5, <2>6, <2>7
<1>14. BlocksInHeap'
  BY <1>3, <1>10, <1>11, <1>12 DEF BlocksInHeap, IInv, Memory
<1>15. HeapCovered'
  <2> SUFFICES ASSUME NEW x \in HeapBytes'
               PROVE  \E a \in DOMAIN hdr' : x \in Extent(a)'
    BY DEF HeapCovered
  <2>1. CASE x \in HeapBytes
    <3>1. PICK a \in DOMAIN hdr : x \in Extent(a)
      BY <2>1 DEF IInv, Memory, HeapCovered
    <3>2. a \in DOMAIN hdr' /\ Extent(a)' = Extent(a)
      BY <1>3, <1>11
    <3>3. QED BY <3>1, <3>2
  <2>2. CASE x \in Bytes(run, l)
    BY <1>3, <1>12, <2>2
  <2>3. QED BY <1>10, <2>1, <2>2
<1>16. LevelsBounded'
  <2>1. \A a \in DOMAIN hdr : hdr[a].level \in Nat /\ hdr[a].level <= highest_level
    BY <1>2, LevelFacts DEF IInv, Memory, LevelsBounded, Header
  <2>2. highest_level \in Nat /\ l \in Nat
    BY LevelFacts DEF IInv, TypeOK
  <2>3. \A a \in DOMAIN hdr : hdr'[a].level <= l
    <3> HIDE DEF AddRegion
    <3>1. TAKE a \in DOMAIN hdr
    <3>2. hdr[a].level \in Nat /\ hdr[a].level <= highest_level
      BY <2>1
    <3>3. hdr[a].level <= l
      BY <2>2, <3>2
    <3>4. QED BY <1>11, <3>3
  <2>4. l <= l
    BY <2>2
  <2>5. SUFFICES ASSUME NEW a \in DOMAIN hdr'
                 PROVE  hdr'[a].level <= l
    BY DEF LevelsBounded
  <2>6. QED BY <1>3, <2>3, <2>4
<1>17. /\ mem_blocks' \in [Levels -> Seq(Nat)]
       /\ mem_blocks'[l] = <<run>>
       /\ \A k \in Levels : k # l => mem_blocks'[k] = mem_blocks[k]
  <2>1. ASSUME NEW k \in Levels
        PROVE  CutAfter(mem_blocks[k], run) = mem_blocks[k] /\ mem_blocks[k] \in Seq(Nat)
    <3>1. run \notin ToSet(mem_blocks[k]) /\ mem_blocks[k] \in Seq(Nat)
      BY <1>8 DEF IInv, TypeOK, Memory, ListsOk
    <3> QED BY <3>1, CutFacts
  <2>2. <<run>> \in Seq(Nat)
    BY <1>1
  <2>3. mem_blocks' = [m \in Levels |-> IF m = l THEN <<run>> ELSE mem_blocks[m]]
    BY <2>1
  <2> HIDE DEF AddRegion
  <2> QED BY <2>1, <2>2, <2>3
<1>18. ToSet(<<run>>) = {run} /\ ToSet(<<>>) = {} /\ Distinct(<<run>>)
  BY DEF ToSet, Distinct
<1>19. ListsOk'
  <2>1. \A k \in Levels : Distinct(mem_blocks'[k])
    BY <1>17, <1>18 DEF IInv, Memory, ListsOk
  <2>2. \A k \in Levels : \A b \in ToSet(mem_blocks'[k]) :
          b \in DOMAIN hdr' /\ hdr'[b].level = k /\ hdr'[b].is_free
    <3>1. \A b \in ToSet(mem_blocks'[l]) : b = run
      BY <1>17, <1>18
    <3>2. ASSUME NEW k \in Levels, k # l, NEW b \in ToSet(mem_blocks'[k])
          PROVE  b \in DOMAIN hdr /\ hdr[b].level = k /\ hdr[b].is_free
      BY <1>17, <3>2 DEF IInv, Memory, ListsOk
    <3>3. TAKE k \in Levels
    <3>4. TAKE b \in ToSet(mem_blocks'[k])
    <3>5. CASE k = l
      BY <1>3, <3>1, <3>5
    <3>6. CASE k # l
      <4> HIDE DEF AddRegion
      <4>1. b \in DOMAIN hdr /\ hdr[b].level = k /\ hdr[b].is_free
        BY <3>2, <3>6
      <4>2. QED BY <1>3, <1>11, <4>1
    <3>7. QED BY <3>5, <3>6
  <2>3. QED BY <2>1, <2>2 DEF ListsOk, Distinct
<1>20. OwnedOk'
  BY <1>3, <1>11 DEF IInv, Memory, OwnedOk
<1>21. \A a \in DOMAIN hdr' : a \in DOMAIN owned' \/ IsListed(a)'
  <2>1. \A a \in DOMAIN hdr : a \in DOMAIN owned \/ a \in ToSet(mem_blocks[hdr[a].level])
    BY DEF IInv, BlocksAccounted, IsListed
  <2>2. \A a \in DOMAIN hdr : hdr[a].level \in Levels
    BY <1>2 DEF Header
  <2>3. run \in ToSet(mem_blocks'[hdr'[run].level])
    BY <1>3, <1>17, <1>18
  <2>4. ASSUME NEW a \in DOMAIN hdr
        PROVE  a \in DOMAIN owned \/ a \in ToSet(mem_blocks'[hdr'[a].level])
    <3>1. CASE hdr[a].level = l
      BY <2>1, <3>1, <1>18
    <3>2. CASE hdr[a].level # l
      BY <1>11, <1>17, <2>1, <2>2, <3>2
    <3>3. QED BY <3>1, <3>2
  <2>5. QED BY <1>3, <2>3, <2>4 DEF IsListed
<1>22. \A a \in DOMAIN hdr' : hdr'[a] \in Header
  BY <1>2, <1>3, <1>11
<1>23. /\ DOMAIN regions' \subseteq PageRuns
       /\ \A r \in DOMAIN regions' : regions'[r] \in Levels
  BY <1>4 DEF IInv, TypeOK
<1>24. Memory'
  BY <1>13, <1>14, <1>15, <1>16, <1>19, <1>20 DEF Memory
<1>25. QED BY <1>1, <1>2, <1>3, <1>17, <1>21, <1>22, <1>23, <1>24

LEMMA KallocInitStep == IInv /\ KallocInit => IInv'
<1> SUFFICES ASSUME IInv, KallocInit PROVE IInv'
  OBVIOUS
<1>1. PICK run \in PageRuns : AddRegion(run, PageLevel)
  BY DEF KallocInit
<1>2. /\ DOMAIN regions = {}
      /\ mem_blocks[PageLevel] = <<>>
      /\ highest_level = PageLevel
      /\ PageLevel \in Nat
  BY LevelFacts DEF IInv, BootState, KallocInit
<1>3. ~Overlaps(run, PageLevel) /\ shared' \in BOOLEAN
  <2>1. ~Overlaps(run, PageLevel)
    BY <1>2 DEF Overlaps
  <2>2. shared' = (shared \/ Overlaps(run, PageLevel))
    BY <1>1 DEF AddRegion
  <2> QED BY <2>1, <2>2
<1>4. ~Merging /\ ~Merging' /\ highest_level' = PageLevel /\ owned' = owned
  BY <1>2 DEF KallocInit, Return, Merging
<1>5. /\ Memory'
      /\ \A a \in DOMAIN hdr' : a \in DOMAIN owned' \/ IsListed(a)'
      /\ mem_blocks' \in [Levels -> Seq(Nat)]
      /\ DOMAIN hdr' \subseteq Nat /\ \A a \in DOMAIN hdr' : hdr'[a] \in Header
      /\ DOMAIN regions' \subseteq PageRuns
      /\ \A r \in DOMAIN regions' : regions'[r] \in Levels
  BY <1>1, <1>2, <1>3, <1>4, LevelFacts, AddRegionFacts
<1>6. TypeOK'
  BY <1>3, <1>4, <1>5, LevelFacts DEF TypeOK, IInv, KallocInit, Return
<1>7. BootState' /\ SearchOk' /\ MergingOk' /\ BlocksAccounted'
  BY <1>4, <1>5 DEF KallocInit, Return, BootState, SearchOk, MergingOk, BlocksAccounted
<1>8. QED BY <1>5, <1>6, <1>7 DEF IInv

\* No block is larger than the largest level, so the list above it is empty.
LEMMA AboveHighestEmpty ==
  ASSUME IInv, highest_level + 1 \in Levels
  PROVE  mem_blocks[highest_level + 1] = <<>>
<1> DEFINE s == mem_blocks[highest_level + 1]
<1>1. s \in Seq(Nat) /\ highest_level \in Nat
  BY LevelFacts DEF IInv, TypeOK
<1>2. SUFFICES ASSUME s # <<>> PROVE FALSE
  OBVIOUS
<1>3. Distinct(s)
  BY DEF IInv, Memory, ListsOk
<1>4. Head(s) \in ToSet(s)
  BY <1>1, <1>2, <1>3, TailFacts
<1>5. Head(s) \in DOMAIN hdr /\ hdr[Head(s)].level = highest_level + 1
  BY <1>4 DEF IInv, Memory, ListsOk
<1>6. hdr[Head(s)].level <= highest_level
  BY <1>5 DEF IInv, Memory, LevelsBounded
<1>7. QED BY <1>1, <1>5, <1>6

LEMMA KmallocGrowStep == IInv /\ KmallocGrow /\ ~shared' => IInv'
<1> SUFFICES ASSUME IInv, KmallocGrow, ~shared' PROVE IInv'
  OBVIOUS
<1> DEFINE l == highest_level + 1
<1>1. PICK run \in PageRuns : ~Overlaps(run, l) /\ AddRegion(run, l)
  BY DEF KmallocGrow, AddRegion
<1>2. l \in Levels /\ highest_level <= l
  BY LevelFacts DEF IInv, TypeOK, KmallocGrow
<1>3. mem_blocks[l] = <<>>
  BY <1>2, AboveHighestEmpty
<1>4. /\ ~Merging /\ ~Merging' /\ highest_level' = l /\ owned' = owned
      /\ shared' \in BOOLEAN
  BY <1>1 DEF KmallocGrow, Merging, AddRegion
<1>5. /\ Memory'
      /\ \A a \in DOMAIN hdr' : a \in DOMAIN owned' \/ IsListed(a)'
      /\ mem_blocks' \in [Levels -> Seq(Nat)]
      /\ DOMAIN hdr' \subseteq Nat /\ \A a \in DOMAIN hdr' : hdr'[a] \in Header
      /\ DOMAIN regions' \subseteq PageRuns
      /\ \A r \in DOMAIN regions' : regions'[r] \in Levels
  <2> HIDE DEF l
  <2>1. QED BY <1>1, <1>2, <1>3, <1>4, AddRegionFacts
<1>6. TypeOK'
  BY <1>2, <1>4, <1>5 DEF TypeOK, IInv, KmallocGrow, locals
<1>7. BootState' /\ SearchOk' /\ MergingOk' /\ BlocksAccounted'
  BY <1>4, <1>5 DEF KmallocGrow, BootState, SearchOk, MergingOk, BlocksAccounted
<1>8. QED BY <1>5, <1>6, <1>7 DEF IInv

LEMMA KmallocGrowFailsStep == IInv /\ KmallocGrowFails => IInv'
<1> SUFFICES ASSUME IInv, KmallocGrowFails PROVE IInv'
  OBVIOUS
<1>1. highest_level + 1 \in Levels /\ highest_level \in Nat
  BY LevelFacts DEF IInv, TypeOK, KmallocGrowFails
<1>2. mem_blocks[highest_level + 1] = <<>>
  BY <1>1, AboveHighestEmpty
<1>3. mem_blocks' = mem_blocks
  BY <1>1, <1>2 DEF IInv, TypeOK, KmallocGrowFails
<1>4. UNCHANGED <<hdr, regions, owned>> /\ highest_level' = highest_level + 1
  BY DEF KmallocGrowFails
<1>5. LevelsBounded'
  <2>1. \A a \in DOMAIN hdr : hdr[a].level \in Nat /\ hdr[a].level <= highest_level
    BY LevelFacts DEF IInv, TypeOK, Memory, LevelsBounded, Header
  <2>2. QED BY <1>1, <1>4, <2>1 DEF LevelsBounded
<1>6. Memory'
  BY <1>3, <1>4, <1>5 DEF IInv, Memory, BlocksApart, BlocksInHeap, HeapCovered,
     ListsOk, OwnedOk, Extent, Bytes, HeapBytes, Distinct
<1>7. ~Merging /\ ~Merging'
  BY DEF KmallocGrowFails, Return, Merging
<1>8. TypeOK'
  BY <1>1, <1>3, LevelFacts DEF TypeOK, IInv, KmallocGrowFails, Return
<1>9. BootState' /\ SearchOk' /\ MergingOk'
  BY <1>7 DEF KmallocGrowFails, Return, BootState, SearchOk, MergingOk
<1>10. BlocksAccounted'
  BY <1>3, <1>4, <1>7 DEF IInv, BlocksAccounted, IsListed
<1>11. QED BY <1>6, <1>8, <1>9, <1>10 DEF IInv

-----------------------------------------------------------------------------
\* Steps that hand out or split a free block.

\* Each list is one of distinct free blocks, and a block is on one list.
LEMMA ListFacts ==
  ASSUME IInv
  PROVE  /\ \A l \in Levels : mem_blocks[l] \in Seq(Nat) /\ Distinct(mem_blocks[l])
         /\ \A l \in Levels : \A b \in ToSet(mem_blocks[l]) :
              /\ b \in DOMAIN hdr /\ hdr[b].level = l /\ hdr[b].is_free
              /\ b \notin DOMAIN owned
              /\ \A k \in Levels : b \in ToSet(mem_blocks[k]) => k = l
BY DEF IInv, TypeOK, Memory, ListsOk, OwnedOk

\* What is known of every header.
LEMMA HeaderFacts ==
  ASSUME IInv
  PROVE  /\ DOMAIN hdr \subseteq Nat
         /\ \A a \in DOMAIN hdr :
              /\ hdr[a] \in Header
              /\ hdr[a].level \in Levels
              /\ BlockSize[hdr[a].level] \in Nat /\ BlockSize[hdr[a].level] > 0
BY LevelFacts DEF IInv, TypeOK, Header

LEMMA TakeStep ==
  ASSUME IInv, NEW l \in Levels, mem_blocks[l] # <<>>,
         bytes <= BlockSize[l], pc \in {"grow", "scan"}, Take(l)
  PROVE  IInv'
<1> DEFINE f == Head(mem_blocks[l])
<1>1. /\ f \in ToSet(mem_blocks[l])
      /\ Tail(mem_blocks[l]) \in Seq(Nat)
      /\ Distinct(Tail(mem_blocks[l]))
      /\ ToSet(Tail(mem_blocks[l])) = ToSet(mem_blocks[l]) \ {f}
  BY ListFacts, TailFacts
<1>2. f \in DOMAIN hdr /\ hdr[f].level = l /\ hdr[f].is_free /\ f \notin DOMAIN owned
  BY <1>1, ListFacts
<1> HIDE DEF f
<1>3. /\ mem_blocks' \in [Levels -> Seq(Nat)]
      /\ mem_blocks'[l] = Tail(mem_blocks[l])
      /\ \A k \in Levels : k # l => mem_blocks'[k] = mem_blocks[k]
  BY <1>1 DEF Take, IInv, TypeOK
<1>4. /\ DOMAIN hdr' = DOMAIN hdr
      /\ hdr'[f].level = l /\ ~hdr'[f].is_free /\ hdr'[f] \in Header
      /\ \A a \in DOMAIN hdr : a # f => hdr'[a] = hdr[a]
      /\ \A a \in DOMAIN hdr : hdr'[a].level = hdr[a].level
  BY <1>2, HeaderFacts DEF Take, Header, f
<1>5. /\ DOMAIN owned' = DOMAIN owned \cup {f}
      /\ owned'[f] = bytes
      /\ \A a \in DOMAIN owned : owned'[a] = owned[a]
  BY <1>2 DEF Take, f
<1>6. highest_level' = highest_level /\ regions' = regions /\ pc' = "idle"
  BY DEF Take, Return
<1>7. HeapBytes' = HeapBytes /\ \A a \in DOMAIN hdr : Extent(a)' = Extent(a)
  BY <1>4, <1>6 DEF HeapBytes, Extent, Bytes
<1>8. BlocksApart' /\ BlocksInHeap' /\ HeapCovered' /\ LevelsBounded'
  BY <1>4, <1>6, <1>7 DEF IInv, Memory, BlocksApart, BlocksInHeap, HeapCovered, LevelsBounded
<1>9. ListsOk'
  <2>1. \A k \in Levels : Distinct(mem_blocks'[k])
    BY <1>1, <1>3, ListFacts
  <2>2. SUFFICES ASSUME NEW k \in Levels, NEW b \in ToSet(mem_blocks'[k])
                 PROVE  b \in DOMAIN hdr' /\ hdr'[b].level = k /\ hdr'[b].is_free
    BY <2>1 DEF ListsOk, Distinct
  <2>3. b \in ToSet(mem_blocks[k]) /\ b # f
    <3>1. CASE k = l
      BY <1>1, <1>3, <2>2, <3>1
    <3>2. CASE k # l
      <4>1. b \in ToSet(mem_blocks[k])
        BY <1>3, <2>2, <3>2
      <4>2. hdr[b].level = k
        BY <4>1, ListFacts
      <4>3. QED BY <1>2, <3>2, <4>1, <4>2
    <3>3. QED BY <3>1, <3>2
  <2>4. b \in DOMAIN hdr /\ hdr[b].level = k /\ hdr[b].is_free
    BY <2>3, ListFacts
  <2>5. QED BY <1>4, <2>3, <2>4
<1>10. OwnedOk'
  BY <1>2, <1>4, <1>5 DEF IInv, Memory, OwnedOk
<1>11. BlocksAccounted'
  <2>1. ASSUME NEW a \in DOMAIN hdr, a # f, a \notin DOMAIN owned
        PROVE  a \in ToSet(mem_blocks'[hdr'[a].level])
    <3>1. a \in ToSet(mem_blocks[hdr[a].level]) /\ hdr[a].level \in Levels
      BY <2>1, HeaderFacts DEF IInv, BlocksAccounted, IsListed, Merging
    <3>2. hdr'[a].level = hdr[a].level
      BY <1>4, <2>1
    <3>3. CASE hdr[a].level = l
      BY <1>1, <1>3, <2>1, <3>1, <3>2, <3>3
    <3>4. CASE hdr[a].level # l
      BY <1>3, <3>1, <3>2, <3>4
    <3>5. QED BY <3>3, <3>4
  <2>2. QED BY <1>4, <1>5, <2>1 DEF BlocksAccounted, IsListed
<1>12. TypeOK'
  <2>1. \A a \in DOMAIN hdr' : hdr'[a] \in Header
    BY <1>4, HeaderFacts
  <2>2. DOMAIN owned' \subseteq Nat /\ \A a \in DOMAIN owned' : owned'[a] \in Nat
    BY <1>2, <1>5, HeaderFacts DEF IInv, TypeOK
  <2>3. QED BY <1>3, <1>4, <2>1, <2>2, LevelFacts DEF IInv, TypeOK, Take, Return
<1>13. BootState' /\ MergingOk' /\ SearchOk'
  BY <1>6 DEF BootState, MergingOk, SearchOk, Merging
<1>14. QED BY <1>8, <1>9, <1>10, <1>11, <1>12, <1>13 DEF IInv, Memory

LEMMA KmallocTargetStep == IInv /\ KmallocTarget => IInv'
<1> SUFFICES ASSUME IInv, KmallocTarget PROVE IInv'
  OBVIOUS
<1>1. PICK l \in Levels :
        /\ IsTargetLevel(l, bytes)
        /\ \/ mem_blocks[l] # <<>> /\ Take(l)
           \/ /\ pc' = "scan"
              /\ target_level' = l
              /\ curr_level' = highest_level
              /\ UNCHANGED <<mem_blocks, highest_level, hdr, regions, shared, owned,
                             bytes, block>>
  BY DEF KmallocTarget
<1>2. bytes <= BlockSize[l] /\ pc = "grow"
  BY <1>1 DEF IsTargetLevel, KmallocTarget
<1>3. CASE mem_blocks[l] # <<>> /\ Take(l)
  BY <1>2, <1>3, TakeStep
<1>4. CASE /\ pc' = "scan"
           /\ target_level' = l
           /\ curr_level' = highest_level
           /\ UNCHANGED <<mem_blocks, highest_level, hdr, regions, shared, owned,
                          bytes, block>>
  <2>1. TypeOK' /\ SearchOk'
    BY <1>2, <1>4 DEF IInv, TypeOK, SearchOk
  <2>2. QED BY <1>2, <1>4, <2>1, QuietStep DEF Merging
<1>5. QED BY <1>1, <1>3, <1>4

LEMMA KmallocFoundStep == IInv /\ KmallocFound => IInv'
<1> SUFFICES ASSUME IInv, KmallocFound PROVE IInv'
  OBVIOUS
<1>1. /\ curr_level \in Levels
      /\ bytes <= BlockSize[curr_level]
      /\ pc \in {"grow", "scan"}
  BY DEF IInv, TypeOK, SearchOk, KmallocFound
<1>2. QED BY <1>1, TakeStep DEF KmallocFound

LEMMA KmallocSplitStep == IInv /\ KmallocSplit => IInv'
<1> SUFFICES ASSUME IInv, KmallocSplit PROVE IInv'
  OBVIOUS
<1> DEFINE l == curr_level
           h == curr_level - 1
           b1 == Head(mem_blocks[l])
           b2 == b1 + BlockSize[l] \div 2
<1>1. /\ l \in Levels /\ h \in Levels /\ l # h /\ l = h + 1 /\ h \in Nat
      /\ BlockSize[l] = 2 * BlockSize[h]
      /\ BlockSize[h] \in Nat /\ BlockSize[h] > 0
  <2>1. l \in Nat /\ l \in Levels /\ l > 0 /\ h \in Nat
    BY LevelFacts DEF IInv, TypeOK, KmallocSplit
  <2>2. QED BY <2>1, LevelFacts
<1>2. /\ b1 \in ToSet(mem_blocks[l])
      /\ Tail(mem_blocks[l]) \in Seq(Nat)
      /\ Distinct(Tail(mem_blocks[l]))
      /\ ToSet(Tail(mem_blocks[l])) = ToSet(mem_blocks[l]) \ {b1}
  BY <1>1, ListFacts, TailFacts DEF KmallocSplit
<1>3. /\ b1 \in DOMAIN hdr /\ hdr[b1].level = l /\ hdr[b1].is_free
      /\ b1 \notin DOMAIN owned /\ b1 \in Nat
  BY <1>1, <1>2, ListFacts, HeaderFacts
<1>4. b2 = b1 + BlockSize[h] /\ b2 \in Nat /\ b2 > b1 /\ b2 + BlockSize[h] = b1 + BlockSize[l]
  BY <1>1, <1>3
<1>5. b2 \notin DOMAIN hdr
  <2>1. ~(b2 >= b1 + BlockSize[l])
    BY <1>1, <1>3, <1>4
  <2>2. \A c \in DOMAIN hdr : b1 < c => b1 + BlockSize[hdr[b1].level] <= c
    BY <1>3 DEF IInv, Memory, BlocksApart
  <2>3. QED BY <1>1, <1>3, <1>4, <2>1, <2>2
<1>6. /\ mem_blocks' = [mem_blocks EXCEPT ![l] = Tail(@), ![h] = <<b2, b1>> \o @]
      /\ hdr' = WriteHeader(WriteHeader(hdr, b1, h, TRUE), b2, h, TRUE)
      /\ curr_level' = h
      /\ UNCHANGED <<highest_level, regions, shared, owned, pc, bytes, target_level,
                     block>>
      /\ pc = "scan"
  BY DEF KmallocSplit
<1> HIDE DEF l, h, b1, b2
<1>7. /\ DOMAIN hdr' = DOMAIN hdr \cup {b2}
      /\ \A b \in {b1, b2} : hdr'[b].level = h /\ hdr'[b].is_free /\ hdr'[b] \in Header
      /\ \A a \in DOMAIN hdr : a # b1 => hdr'[a] = hdr[a]
  <2>1. DOMAIN hdr' = DOMAIN hdr \cup {b2}
    BY <1>3, <1>6 DEF WriteHeader
  <2>2. hdr'[b1] = [level |-> h, is_free |-> TRUE] /\ hdr'[b2] = [level |-> h, is_free |-> TRUE]
    BY <1>3, <1>4, <1>6 DEF WriteHeader
  <2>3. \A a \in DOMAIN hdr : a # b1 => hdr'[a] = hdr[a]
    BY <1>5, <1>6 DEF WriteHeader
  <2>4. [level |-> h, is_free |-> TRUE] \in Header
    BY <1>1 DEF Header
  <2>5. ASSUME NEW b \in {b1, b2}
        PROVE  hdr'[b].level = h /\ hdr'[b].is_free /\ hdr'[b] \in Header
    <3>1. hdr'[b] = [level |-> h, is_free |-> TRUE]
      BY <2>2
    <3>2. QED BY <2>4, <3>1
  <2>6. QED BY <2>1, <2>3, <2>5
<1>8. /\ mem_blocks' \in [Levels -> Seq(Nat)]
      /\ mem_blocks'[l] = Tail(mem_blocks[l])
      /\ mem_blocks'[h] = <<b2, b1>> \o mem_blocks[h]
      /\ \A k \in Levels : k # l /\ k # h => mem_blocks'[k] = mem_blocks[k]
  <2>1. mem_blocks \in [Levels -> Seq(Nat)]
    BY DEF IInv, TypeOK
  <2>2. <<b2, b1>> \o mem_blocks[h] \in Seq(Nat)
    <3>1. mem_blocks[h] \in Seq(Nat) /\ <<b2, b1>> \in Seq(Nat)
      BY <1>1, <1>3, <1>4, <2>1
    <3>2. QED BY <3>1
  <2>3. QED BY <1>1, <1>2, <1>6, <2>1, <2>2
<1>9. b1 \notin ToSet(mem_blocks[h]) /\ b2 \notin ToSet(mem_blocks[h])
  BY <1>1, <1>3, <1>5, ListFacts
<1>10. /\ Distinct(<<b2, b1>> \o mem_blocks[h])
       /\ ToSet(<<b2, b1>> \o mem_blocks[h]) = ToSet(mem_blocks[h]) \cup {b1, b2}
  <2> DEFINE s == <<b1>> \o mem_blocks[h]
  <2>1. s \in Seq(Nat) /\ Distinct(s) /\ ToSet(s) = ToSet(mem_blocks[h]) \cup {b1}
    BY <1>1, <1>3, <1>9, ListFacts, ConsFacts
  <2>2. <<b2, b1>> \o mem_blocks[h] = <<b2>> \o s
    <3>1. mem_blocks[h] \in Seq(Nat) /\ b1 \in Nat /\ b2 \in Nat
      BY <1>1, <1>3, <1>4, ListFacts
    <3>2. <<b2, b1>> = <<b2>> \o <<b1>> /\ <<b2>> \in Seq(Nat) /\ <<b1>> \in Seq(Nat)
      BY <3>1
    <3>3. (<<b2>> \o <<b1>>) \o mem_blocks[h] = <<b2>> \o (<<b1>> \o mem_blocks[h])
      BY <3>1, <3>2, ConcatAssociative
    <3>4. QED BY <3>2, <3>3
  <2> HIDE DEF s
  <2>3. Distinct(<<b2>> \o s) /\ ToSet(<<b2>> \o s) = ToSet(s) \cup {b2}
    BY <1>4, <1>9, <2>1, ConsFacts
  <2>4. QED BY <2>1, <2>2, <2>3
<1>11. HeapBytes' = HeapBytes
  BY <1>6 DEF HeapBytes, Bytes
<1>12. /\ Extent(b1) = Bytes(b1, h) \cup Bytes(b2, h)
       /\ \A a \in {b1, b2} : Extent(a)' = Bytes(a, h)
       /\ \A a \in DOMAIN hdr : a # b1 => Extent(a)' = Extent(a)
  <2>1. Extent(b1) = Bytes(b1, l)
    BY <1>3 DEF Extent
  <2>2. Bytes(b1, l) = Bytes(b1, h) \cup Bytes(b2, h)
    BY <1>1, <1>3, <1>4 DEF Bytes
  <2>3. \A a \in {b1, b2} : Extent(a)' = Bytes(a, h)
    BY <1>7 DEF Extent, Bytes
  <2>4. \A a \in DOMAIN hdr : a # b1 => Extent(a)' = Extent(a)
    BY <1>7 DEF Extent, Bytes
  <2>5. QED BY <2>1, <2>2, <2>3, <2>4
<1>13. BlocksApart'
  <2>1. \A a, b \in DOMAIN hdr : a < b => a + BlockSize[hdr[a].level] <= b
    BY DEF IInv, Memory, BlocksApart
  <2>2. SUFFICES ASSUME NEW a \in DOMAIN hdr', NEW b \in DOMAIN hdr', a < b
                 PROVE  a + BlockSize[hdr'[a].level] <= b
    BY DEF BlocksApart
  <2>3. a \in Nat /\ b \in Nat
    BY <1>4, <1>7, HeaderFacts
  <2>4. ASSUME NEW c \in DOMAIN hdr, b1 < c
        PROVE  b1 + BlockSize[l] <= c
    BY <1>3, <2>1, <2>4
  <2>5. CASE a = b1
    <3>1. b = b2 \/ b1 + BlockSize[l] <= b
      BY <1>7, <2>2, <2>4, <2>5
    <3>2. QED BY <1>1, <1>3, <1>4, <1>7, <2>3, <2>5, <3>1
  <2>6. CASE a = b2
    <3>1. b \in DOMAIN hdr /\ b1 < b
      BY <1>3, <1>4, <1>7, <2>2, <2>3, <2>6
    <3>2. QED BY <1>4, <1>7, <2>4, <2>6, <3>1
  <2>7. CASE a # b1 /\ a # b2
    <3>1. a \in DOMAIN hdr /\ hdr'[a] = hdr[a] /\ BlockSize[hdr[a].level] \in Nat
      BY <1>7, <2>7, HeaderFacts
    <3>2. CASE b = b2
      <4>1. a < b1
        <5>1. SUFFICES ASSUME b1 < a PROVE FALSE
          BY <1>3, <2>3, <2>7
        <5>2. b1 + BlockSize[l] <= a
          BY <2>4, <3>1, <5>1
        <5>3. QED BY <1>1, <1>3, <1>4, <2>2, <2>3, <3>2, <5>2
      <4>2. a + BlockSize[hdr[a].level] <= b1
        BY <1>3, <2>1, <3>1, <4>1
      <4>3. QED BY <1>3, <1>4, <2>3, <3>1, <3>2, <4>2
    <3>3. CASE b # b2
      BY <1>7, <2>1, <2>2, <3>1, <3>3
    <3>4. QED BY <3>2, <3>3
  <2>8. QED BY <2>5, <2>6, <2>7
<1>14. BlocksInHeap'
  <2>1. Extent(b1) \subseteq HeapBytes
    BY <1>3 DEF IInv, Memory, BlocksInHeap
  <2>2. \A a \in {b1, b2} : Extent(a)' \subseteq HeapBytes
    BY <1>12, <2>1
  <2>3. \A a \in DOMAIN hdr : a # b1 => Extent(a)' \subseteq HeapBytes
    BY <1>12 DEF IInv, Memory, BlocksInHeap
  <2>4. \A a \in DOMAIN hdr' : Extent(a)' \subseteq HeapBytes
    BY <1>7, <2>2, <2>3
  <2>5. QED BY <1>11, <2>4 DEF BlocksInHeap
<1>15. HeapCovered'
  <2>1. ASSUME NEW x \in HeapBytes
        PROVE  \E a \in DOMAIN hdr' : x \in Extent(a)'
    <3>1. PICK a \in DOMAIN hdr : x \in Extent(a)
      BY DEF IInv, Memory, HeapCovered
    <3>2. CASE a = b1
      BY <1>3, <1>7, <1>12, <3>1, <3>2
    <3>3. CASE a # b1
      BY <1>7, <1>12, <3>1, <3>3
    <3>4. QED BY <3>2, <3>3
  <2>2. QED BY <1>11, <2>1 DEF HeapCovered
<1>16. LevelsBounded'
  <2>1. l <= highest_level /\ highest_level \in Nat /\ h <= highest_level
    <3>1. highest_level \in Nat
      BY LevelFacts DEF IInv, TypeOK
    <3>2. l <= highest_level
      BY <1>3 DEF IInv, Memory, LevelsBounded
    <3>3. QED BY <1>1, <3>1, <3>2
  <2>2. QED BY <1>6, <1>7, <2>1 DEF IInv, Memory, LevelsBounded
<1>17. ListsOk'
  <2>1. \A k \in Levels : Distinct(mem_blocks'[k])
    BY <1>1, <1>2, <1>8, <1>10, ListFacts
  <2>2. SUFFICES ASSUME NEW k \in Levels, NEW b \in ToSet(mem_blocks'[k])
                 PROVE  b \in DOMAIN hdr' /\ hdr'[b].level = k /\ hdr'[b].is_free
    BY <2>1 DEF ListsOk, Distinct
  <2>3. CASE k = h /\ b \in {b1, b2}
    BY <1>3, <1>7, <2>3
  <2>4. CASE ~(k = h /\ b \in {b1, b2})
    <3>1. b \in ToSet(mem_blocks[k]) /\ b # b1
      <4>1. CASE k = l
        BY <1>2, <1>8, <2>2, <4>1
      <4>2. CASE k = h
        BY <1>8, <1>9, <1>10, <2>2, <2>4, <4>2
      <4>3. CASE k # l /\ k # h
        <5>1. b \in ToSet(mem_blocks[k])
          BY <1>8, <2>2, <4>3
        <5>2. hdr[b].level = k
          BY <5>1, ListFacts
        <5>3. QED BY <1>3, <4>3, <5>1, <5>2
      <4>4. QED BY <4>1, <4>2, <4>3
    <3>2. QED BY <1>7, <3>1, ListFacts
  <2>5. QED BY <2>3, <2>4
<1>18. OwnedOk'
  <2>1. \A a \in DOMAIN owned : a \in DOMAIN hdr /\ a # b1
    BY <1>3 DEF IInv, Memory, OwnedOk
  <2>2. \A a \in DOMAIN owned : a \in DOMAIN hdr' /\ hdr'[a] = hdr[a]
    BY <1>7, <2>1
  <2>3. OwnedOk /\ owned' = owned
    BY <1>6 DEF IInv, Memory
  <2>4. QED BY <2>2, <2>3 DEF OwnedOk
<1>19. BlocksAccounted'
  <2>1. ASSUME NEW b \in {b1, b2}
        PROVE  b \in ToSet(mem_blocks'[hdr'[b].level])
    BY <1>7, <1>8, <1>10
  <2>2. ASSUME NEW a \in DOMAIN hdr, a # b1, a \notin DOMAIN owned
        PROVE  a \in ToSet(mem_blocks'[hdr'[a].level])
    <3>1. a \in ToSet(mem_blocks[hdr[a].level]) /\ hdr[a].level \in Levels
      BY <1>6, <2>2, HeaderFacts DEF IInv, BlocksAccounted, IsListed, Merging
    <3>2. hdr'[a] = hdr[a]
      BY <1>7, <2>2
    <3>3. CASE hdr[a].level = l
      BY <1>2, <1>8, <2>2, <3>1, <3>2, <3>3
    <3>4. CASE hdr[a].level = h
      BY <1>8, <1>10, <3>1, <3>2, <3>4
    <3>5. CASE hdr[a].level # l /\ hdr[a].level # h
      BY <1>8, <3>1, <3>2, <3>5
    <3>6. QED BY <3>3, <3>4, <3>5
  <2>3. QED BY <1>6, <1>7, <2>1, <2>2 DEF BlocksAccounted, IsListed
<1>20. TypeOK'
  <2>1. DOMAIN hdr' \subseteq Nat /\ \A a \in DOMAIN hdr' : hdr'[a] \in Header
    BY <1>4, <1>7, HeaderFacts
  <2>2. QED BY <1>1, <1>6, <1>8, <2>1 DEF IInv, TypeOK
<1>21. BootState' /\ MergingOk' /\ SearchOk'
  BY <1>6 DEF IInv, BootState, MergingOk, SearchOk, Merging
<1>22. QED BY <1>13, <1>14, <1>15, <1>16, <1>17, <1>18, <1>19, <1>20, <1>21
           DEF IInv, Memory

-----------------------------------------------------------------------------
\* Steps of kfree.

LEMMA KfreeStep ==
  ASSUME IInv, NEW a \in DOMAIN owned, Kfree(a)
  PROVE  IInv'
<1>1. a \in DOMAIN hdr /\ ~hdr[a].is_free /\ a \in Nat
  BY HeaderFacts DEF IInv, Memory, OwnedOk
<1>2. /\ DOMAIN hdr' = DOMAIN hdr
      /\ hdr'[a].level = hdr[a].level /\ hdr'[a].is_free /\ hdr'[a] \in Header
      /\ \A x \in DOMAIN hdr : x # a => hdr'[x] = hdr[x]
      /\ \A x \in DOMAIN hdr : hdr'[x].level = hdr[x].level
  BY <1>1, HeaderFacts DEF Kfree, Header
<1>3. /\ DOMAIN owned' = DOMAIN owned \ {a}
      /\ \A x \in DOMAIN owned' : owned'[x] = owned[x]
      /\ UNCHANGED <<mem_blocks, highest_level, regions, shared, bytes, target_level,
                     curr_level>>
      /\ pc = "idle" /\ pc' = "merge" /\ block' = a
  BY DEF Kfree
<1>4. HeapBytes' = HeapBytes /\ \A x \in DOMAIN hdr : Extent(x)' = Extent(x)
  BY <1>2, <1>3 DEF HeapBytes, Extent, Bytes
<1>5. BlocksApart' /\ BlocksInHeap' /\ HeapCovered' /\ LevelsBounded'
  BY <1>2, <1>3, <1>4
     DEF IInv, Memory, BlocksApart, BlocksInHeap, HeapCovered, LevelsBounded
<1>6. ListsOk'
  <2>1. \A k \in Levels : Distinct(mem_blocks'[k])
    BY <1>3, ListFacts
  <2>2. SUFFICES ASSUME NEW k \in Levels, NEW b \in ToSet(mem_blocks'[k])
                 PROVE  b \in DOMAIN hdr' /\ hdr'[b].level = k /\ hdr'[b].is_free
    BY <2>1 DEF ListsOk, Distinct
  <2>3. b \in DOMAIN hdr /\ hdr[b].level = k /\ hdr[b].is_free
    BY <1>3, <2>2, ListFacts
  <2>4. QED BY <1>2, <2>3
<1>7. OwnedOk'
  BY <1>2, <1>3 DEF IInv, Memory, OwnedOk
<1>8. BlocksAccounted'
  BY <1>2, <1>3 DEF IInv, BlocksAccounted, IsListed, Merging
<1>9. MergingOk'
  <2>1. a \notin ToSet(mem_blocks[hdr[a].level])
    BY <1>1, HeaderFacts, ListFacts
  <2>2. QED BY <1>1, <1>2, <1>3, <2>1 DEF MergingOk, IsListed
<1>10. TypeOK'
  <2>1. \A x \in DOMAIN hdr' : hdr'[x] \in Header
    BY <1>2, HeaderFacts
  <2>2. QED BY <1>1, <1>2, <1>3, <2>1 DEF IInv, TypeOK
<1>11. BootState' /\ SearchOk'
  BY <1>3 DEF BootState, SearchOk
<1>12. QED BY <1>5, <1>6, <1>7, <1>8, <1>9, <1>10, <1>11 DEF IInv, Memory

LEMMA KfreeInsertStep == IInv /\ KfreeInsert => IInv'
<1> SUFFICES ASSUME IInv, KfreeInsert PROVE IInv'
  OBVIOUS
<1> DEFINE l == hdr[block].level
<1>1. /\ Merging /\ block \in DOMAIN hdr /\ hdr[block].is_free /\ block \in Nat
      /\ l \in Levels /\ block \notin ToSet(mem_blocks[l])
  BY HeaderFacts DEF IInv, MergingOk, Merging, KfreeInsert, IsListed
<1>2. /\ UNCHANGED <<highest_level, hdr, regions, shared, owned>>
      /\ mem_blocks' = [mem_blocks EXCEPT ![l] = <<block>> \o @]
      /\ pc' = "idle" /\ bytes' = 0 /\ target_level' = 0 /\ curr_level' = 0
      /\ block' = NULL
  BY DEF KfreeInsert, Return, Cons
<1> HIDE DEF l
<1>3. /\ <<block>> \o mem_blocks[l] \in Seq(Nat)
      /\ Distinct(<<block>> \o mem_blocks[l])
      /\ ToSet(<<block>> \o mem_blocks[l]) = ToSet(mem_blocks[l]) \cup {block}
  BY <1>1, ListFacts, ConsFacts
<1>4. /\ mem_blocks' \in [Levels -> Seq(Nat)]
      /\ mem_blocks'[l] = <<block>> \o mem_blocks[l]
      /\ \A k \in Levels : k # l => mem_blocks'[k] = mem_blocks[k]
  BY <1>1, <1>2, <1>3 DEF IInv, TypeOK
<1>5. ListsOk'
  <2>1. \A k \in Levels : Distinct(mem_blocks'[k])
    BY <1>3, <1>4, ListFacts
  <2>2. SUFFICES ASSUME NEW k \in Levels, NEW b \in ToSet(mem_blocks'[k])
                 PROVE  b \in DOMAIN hdr /\ hdr[b].level = k /\ hdr[b].is_free
    BY <1>2, <2>1 DEF ListsOk, Distinct
  <2>3. CASE k = l /\ b = block
    BY <1>1, <2>3 DEF l
  <2>4. CASE ~(k = l /\ b = block)
    <3>1. b \in ToSet(mem_blocks[k])
      BY <1>3, <1>4, <2>2, <2>4
    <3>2. QED BY <3>1, ListFacts
  <2>5. QED BY <2>3, <2>4
<1>6. Memory'
  BY <1>2, <1>5 DEF IInv, Memory, BlocksApart, BlocksInHeap, HeapCovered,
     LevelsBounded, OwnedOk, Extent, Bytes, HeapBytes
<1>7. BlocksAccounted'
  <2>1. ASSUME NEW a \in DOMAIN hdr, a \notin DOMAIN owned
        PROVE  a \in ToSet(mem_blocks'[hdr[a].level])
    <3>1. CASE a = block
      BY <1>3, <1>4, <3>1, <1>1 DEF l
    <3>2. CASE a # block
      <4>1. a \in ToSet(mem_blocks[hdr[a].level]) /\ hdr[a].level \in Levels
        BY <2>1, <3>2, HeaderFacts DEF IInv, BlocksAccounted, IsListed
      <4>2. QED BY <1>3, <1>4, <4>1
    <3>3. QED BY <3>1, <3>2
  <2>2. QED BY <1>2, <2>1 DEF BlocksAccounted, IsListed
<1>8. TypeOK'
  BY <1>2, <1>4, LevelFacts DEF IInv, TypeOK
<1>9. BootState' /\ MergingOk' /\ SearchOk'
  BY <1>2 DEF BootState, MergingOk, SearchOk, Merging
<1>10. QED BY <1>6, <1>7, <1>8, <1>9 DEF IInv

LEMMA KfreeMergeStep == IInv /\ KfreeMerge => IInv'
<1> SUFFICES ASSUME IInv, KfreeMerge PROVE IInv'
  OBVIOUS
<1> DEFINE l == hdr[block].level
           buddy == BuddyOfBlock
           low == LowerOf(block, buddy)
           high == block + buddy - low
           S == BlockSize[l]
<1>1. /\ Merging /\ block \in DOMAIN hdr /\ hdr[block].is_free /\ block \in Nat
      /\ l \in Levels /\ block \notin ToSet(mem_blocks[l])
      /\ S \in Nat /\ S > 0
  BY HeaderFacts DEF IInv, MergingOk, Merging, KfreeMerge, MergeGoesOn, IsListed
<1>2. /\ l + 1 \in Levels /\ l + 1 <= highest_level /\ l \in Nat
      /\ BlockSize[l + 1] = 2 * S
  <2>1. l \in Nat /\ highest_level \in Nat /\ highest_level \in Levels /\ l < highest_level
    BY <1>1, LevelFacts DEF IInv, TypeOK, KfreeMerge, MergeGoesOn, BelowHighest
  <2>2. l + 1 \in Nat /\ l + 1 <= highest_level
    BY <2>1
  <2>3. l + 1 \in Levels
    BY <2>1, <2>2, LevelFacts
  <2>4. QED BY <1>1, <2>1, <2>2, <2>3, SizeAssumption
<1>3. /\ buddy \in ToSet(mem_blocks[l])
      /\ buddy \in DOMAIN hdr /\ hdr[buddy].level = l /\ hdr[buddy].is_free
      /\ buddy \notin DOMAIN owned /\ buddy \in Nat /\ buddy # block
  <2>1. buddy \in ToSet(mem_blocks[l])
    BY DEF KfreeMerge, BuddyIsListed
  <2>2. QED BY <1>1, <2>1, ListFacts, HeaderFacts
<1>4. buddy = block + S \/ buddy = block - S
  BY DEF BuddyOfBlock, Buddy
<1>5. PICK i \in DOMAIN mem_blocks[l] :
        /\ IsFirst(mem_blocks[l], i, buddy)
        /\ mem_blocks' = [mem_blocks EXCEPT ![l] = RemoveAt(@, i)]
  BY DEF KfreeMerge
<1>6. /\ hdr' = [x \in DOMAIN hdr \ {high} |->
                   IF x = low THEN [level |-> l + 1, is_free |-> TRUE] ELSE hdr[x]]
      /\ block' = low
      /\ UNCHANGED <<highest_level, regions, shared, owned, pc, bytes, target_level,
                     curr_level>>
      /\ pc = "merge"
  BY DEF KfreeMerge, MergeGoesOn
<1>7. /\ {low, high} = {block, buddy} /\ high = low + S
      /\ low \in Nat /\ high \in Nat /\ low # high
  BY <1>1, <1>3, <1>4 DEF LowerOf
<1>8. /\ RemoveAt(mem_blocks[l], i) \in Seq(Nat)
      /\ Distinct(RemoveAt(mem_blocks[l], i))
      /\ ToSet(RemoveAt(mem_blocks[l], i)) = ToSet(mem_blocks[l]) \ {buddy}
  <2>1. mem_blocks[l][i] = buddy
    BY <1>5 DEF IsFirst
  <2>2. QED BY <1>1, <2>1, ListFacts, RemoveAtFacts
<1> HIDE DEF l, buddy, low, high, S
<1>9. low \in DOMAIN hdr /\ high \in DOMAIN hdr /\ hdr[low].level = l /\ hdr[high].level = l
  BY <1>1, <1>3, <1>7 DEF l
<1>10. /\ DOMAIN hdr' = DOMAIN hdr \ {high}
       /\ hdr'[low].level = l + 1 /\ hdr'[low].is_free /\ hdr'[low] \in Header
       /\ \A a \in DOMAIN hdr' : a # low => hdr'[a] = hdr[a]
  <2>1. hdr'[low] = [level |-> l + 1, is_free |-> TRUE]
    BY <1>6, <1>7, <1>9
  <2>2. [level |-> l + 1, is_free |-> TRUE] \in Header
    BY <1>2 DEF Header
  <2>3. QED BY <1>6, <2>1, <2>2
<1>11. /\ mem_blocks' \in [Levels -> Seq(Nat)]
       /\ mem_blocks'[l] = RemoveAt(mem_blocks[l], i)
       /\ \A k \in Levels : k # l => mem_blocks'[k] = mem_blocks[k]
  BY <1>1, <1>5, <1>8 DEF IInv, TypeOK
<1>12. HeapBytes' = HeapBytes
  BY <1>6 DEF HeapBytes, Bytes
<1>13. /\ \A a \in {low} : Extent(a)' = Extent(low) \cup Extent(high)
       /\ \A a \in DOMAIN hdr' : a # low => Extent(a)' = Extent(a)
  <2>1. Extent(low) = Bytes(low, l) /\ Extent(high) = Bytes(high, l)
    BY <1>9 DEF Extent
  <2>2. Bytes(low, l + 1) = Bytes(low, l) \cup Bytes(high, l)
    BY <1>1, <1>2, <1>7 DEF Bytes, S
  <2>3. \A a \in {low} : Extent(a)' = Bytes(a, l + 1)
    BY <1>10 DEF Extent, Bytes
  <2>4. \A a \in DOMAIN hdr' : a # low => Extent(a)' = Extent(a)
    BY <1>10 DEF Extent, Bytes
  <2>5. QED BY <2>1, <2>2, <2>3, <2>4
<1>14. BlocksApart'
  <2>1. \A a, b \in DOMAIN hdr : a < b => a + BlockSize[hdr[a].level] <= b
    BY DEF IInv, Memory, BlocksApart
  <2>2. SUFFICES ASSUME NEW a \in DOMAIN hdr', NEW b \in DOMAIN hdr', a < b
                 PROVE  a + BlockSize[hdr'[a].level] <= b
    BY DEF BlocksApart
  <2>3. a \in DOMAIN hdr /\ b \in DOMAIN hdr /\ b # high /\ a \in Nat /\ b \in Nat
    BY <1>10, HeaderFacts
  <2>4. CASE a # low
    BY <1>10, <2>1, <2>2, <2>3, <2>4
  <2>5. CASE a = low
    <3>1. low + S <= b
      BY <1>9, <2>1, <2>2, <2>3, <2>5 DEF S
    <3>2. high < b
      BY <1>7, <2>3, <3>1
    <3>3. high + S <= b
      BY <1>9, <2>1, <2>3, <3>2 DEF S
    <3>4. QED BY <1>1, <1>2, <1>7, <1>10, <2>3, <2>5, <3>3
  <2>6. QED BY <2>4, <2>5
<1>15. BlocksInHeap'
  <2>1. \A a \in DOMAIN hdr : Extent(a) \subseteq HeapBytes
    BY DEF IInv, Memory, BlocksInHeap
  <2>2. Extent(low) \cup Extent(high) \subseteq HeapBytes
    BY <1>9, <2>1
  <2>3. \A a \in DOMAIN hdr' : Extent(a)' \subseteq HeapBytes
    BY <1>10, <1>13, <2>1, <2>2
  <2>4. QED BY <1>12, <2>3 DEF BlocksInHeap
<1>16. HeapCovered'
  <2>1. ASSUME NEW x \in HeapBytes
        PROVE  \E a \in DOMAIN hdr' : x \in Extent(a)'
    <3>1. PICK a \in DOMAIN hdr : x \in Extent(a)
      BY DEF IInv, Memory, HeapCovered
    <3>2. CASE a \in {low, high}
      BY <1>7, <1>9, <1>10, <1>13, <3>1, <3>2
    <3>3. CASE a \notin {low, high}
      BY <1>10, <1>13, <3>1, <3>3
    <3>4. QED BY <3>2, <3>3
  <2>2. QED BY <1>12, <2>1 DEF HeapCovered
<1>17. LevelsBounded'
  BY <1>2, <1>6, <1>10 DEF IInv, Memory, LevelsBounded
<1>18. \A k \in Levels : \A b \in ToSet(mem_blocks'[k]) :
         b \in ToSet(mem_blocks[k]) /\ b # block /\ b # buddy
  <2>1. TAKE k \in Levels
  <2>2. TAKE b \in ToSet(mem_blocks'[k])
  <2>3. CASE k = l
    BY <1>1, <1>8, <1>11, <2>3
  <2>4. CASE k # l
    <3>1. b \in ToSet(mem_blocks[k])
      BY <1>11, <2>4
    <3>2. hdr[b].level = k
      BY <3>1, ListFacts
    <3>3. QED BY <1>3, <2>4, <3>1, <3>2 DEF l
  <2>5. QED BY <2>3, <2>4
<1>19. ListsOk'
  <2>1. \A k \in Levels : Distinct(mem_blocks'[k])
    BY <1>8, <1>11, ListFacts
  <2>2. SUFFICES ASSUME NEW k \in Levels, NEW b \in ToSet(mem_blocks'[k])
                 PROVE  b \in DOMAIN hdr' /\ hdr'[b].level = k /\ hdr'[b].is_free
    BY <2>1 DEF ListsOk, Distinct
  <2>3. b \in ToSet(mem_blocks[k]) /\ b # low /\ b # high
    BY <1>7, <1>18, <2>2
  <2>4. b \in DOMAIN hdr /\ hdr[b].level = k /\ hdr[b].is_free
    BY <2>3, ListFacts
  <2>5. QED BY <1>10, <2>3, <2>4
<1>20. OwnedOk'
  <2>1. \A a \in DOMAIN owned : a \in DOMAIN hdr /\ a # low /\ a # high
    BY <1>1, <1>3, <1>7 DEF IInv, Memory, OwnedOk
  <2>2. QED BY <1>6, <1>10, <2>1 DEF IInv, Memory, OwnedOk
<1>21. BlocksAccounted'
  <2>1. ASSUME NEW a \in DOMAIN hdr', a # low, a \notin DOMAIN owned
        PROVE  a \in ToSet(mem_blocks'[hdr'[a].level])
    <3>1. a \in DOMAIN hdr /\ a # block /\ a # buddy /\ hdr'[a] = hdr[a]
      BY <1>7, <1>10, <2>1
    <3>2. a \in ToSet(mem_blocks[hdr[a].level]) /\ hdr[a].level \in Levels
      BY <2>1, <3>1, HeaderFacts DEF IInv, BlocksAccounted, IsListed
    <3>3. QED BY <1>8, <1>11, <3>1, <3>2
  <2>2. QED BY <1>6, <2>1 DEF BlocksAccounted, IsListed, Merging
<1>22. MergingOk'
  <2>1. low \notin ToSet(mem_blocks'[l + 1])
    BY <1>2, <1>7, <1>18
  <2>2. low \in DOMAIN hdr'
    BY <1>7, <1>9, <1>10
  <2>3. QED BY <1>6, <1>10, <2>1, <2>2 DEF MergingOk, IsListed
<1>23. TypeOK'
  <2>1. DOMAIN hdr' \subseteq Nat /\ \A a \in DOMAIN hdr' : hdr'[a] \in Header
    BY <1>10, HeaderFacts
  <2>2. QED BY <1>6, <1>7, <1>11, <2>1 DEF IInv, TypeOK
<1>24. BootState' /\ SearchOk'
  BY <1>6 DEF BootState, SearchOk
<1>25. QED BY <1>14, <1>15, <1>16, <1>17, <1>19, <1>20, <1>21, <1>22, <1>23, <1>24
           DEF IInv, Memory

-----------------------------------------------------------------------------
LEMMA FreshStep == IInv /\ [Next]_vars /\ ~shared' => IInv'
<1> SUFFICES ASSUME IInv, [Next]_vars, ~shared' PROVE IInv'
  OBVIOUS
<1>1. CASE Step
  BY <1>1, KallocInitStep, KallocInitFailsStep, KmallocGrowStep,
     KmallocGrowFailsStep, KmallocTooLargeStep, KmallocTargetStep,
     KmallocSkipStep, KmallocSplitStep, KmallocFoundStep, KmallocExhaustedStep,
     KfreeMergeStep, KfreeMergeForeignStep, KfreeInsertStep DEF Step
<1>2. CASE \E n \in Requests : Kmalloc(n)
  BY <1>2, KmallocStep
<1>3. CASE \E a \in DOMAIN owned : Kfree(a)
  BY <1>3, KfreeStep
<1>4. CASE UNCHANGED vars
  <2>1. /\ UNCHANGED <<mem_blocks, highest_level, hdr, regions, owned>>
        /\ UNCHANGED <<shared, pc, bytes, target_level, curr_level, block>>
    BY <1>4 DEF vars, locals
  <2>2. Memory'
    BY <2>1, MemoryUnchanged DEF IInv
  <2>3. TypeOK' /\ BootState' /\ BlocksAccounted' /\ MergingOk' /\ SearchOk'
    BY <2>1 DEF IInv, TypeOK, BootState, BlocksAccounted, MergingOk, SearchOk,
       Merging, IsListed
  <2>4. QED BY <2>2, <2>3 DEF IInv
<1>5. QED BY <1>1, <1>2, <1>3, <1>4 DEF Next

\* A larger level has larger blocks.
LEMMA SizesGrow ==
  ASSUME NEW l \in Levels, NEW m \in Levels, l < m
  PROVE  BlockSize[l] < BlockSize[m]
<1>1. /\ BlockSize[l] \in Nat \ {0} /\ BlockSize[m] \in Nat \ {0}
      /\ BlockSize[m] % (2 * BlockSize[l]) = 0
  BY SizeAssumption
<1>2. \A n, k \in Nat \ {0} : n % (2 * k) = 0 => k < n
  OBVIOUS
<1> QED BY <1>1, <1>2

\* A further run of pages.
LEMMA GrowAnyStep ==
  ASSUME HeapInv, KmallocGrow
  PROVE  TypeOK' /\ SharedOk' /\ highest_level' >= PageLevel
<1> DEFINE l == highest_level + 1
<1>1. PICK run \in PageRuns : AddRegion(run, l)
  BY DEF KmallocGrow
<1>2. l \in Levels /\ highest_level \in Nat /\ PageLevel \in Nat
  BY LevelFacts DEF HeapInv, TypeOK, KmallocGrow
<1>3. run \in Nat
  BY EnvironmentAssumption
<1>4. mem_blocks' \in [Levels -> Seq(Nat)] /\ mem_blocks'[l] = <<run>>
  <2>1. \A k \in Levels : CutAfter(mem_blocks[k], run) \in Seq(Nat)
    BY CutFacts DEF HeapInv, TypeOK
  <2>2. <<run>> \in Seq(Nat)
    BY <1>3
  <2>3. mem_blocks' = [m \in Levels |-> IF m = l THEN <<run>>
                                       ELSE CutAfter(mem_blocks[m], run)]
    BY <1>1 DEF AddRegion
  <2> HIDE DEF l
  <2> QED BY <1>2, <2>1, <2>2, <2>3
<1>5. DOMAIN hdr' \subseteq Nat /\ \A a \in DOMAIN hdr' : hdr'[a] \in Header
  <2> HIDE DEF l
  <2>1. hdr' = WriteHeader(hdr, run, l, TRUE)
    BY <1>1 DEF AddRegion
  <2> QED BY <1>2, <1>3, <2>1 DEF WriteHeader, Header, HeapInv, TypeOK
<1>6. /\ DOMAIN regions' \subseteq PageRuns /\ shared' \in BOOLEAN
      /\ \A r \in DOMAIN regions' : regions'[r] \in Levels
  <2> HIDE DEF l
  <2>1. /\ regions' = [x \in DOMAIN regions \cup {run} |->
                         IF x = run THEN l ELSE regions[x]]
        /\ shared' = (shared \/ Overlaps(run, l))
    BY <1>1 DEF AddRegion
  <2>2. DOMAIN regions \subseteq PageRuns /\ \A r \in DOMAIN regions : regions[r] \in Levels
    BY DEF HeapInv, TypeOK
  <2>3. shared' \in BOOLEAN
    BY <2>1
  <2>4. /\ DOMAIN regions' \subseteq PageRuns
        /\ \A r \in DOMAIN regions' : regions'[r] \in Levels
    BY <1>2, <2>1, <2>2
  <2> QED BY <2>3, <2>4
<1>7. highest_level' = l /\ UNCHANGED <<owned, pc, bytes, target_level, curr_level, block>>
      /\ pc = "grow" /\ bytes > BlockSize[highest_level]
  BY DEF KmallocGrow, locals
<1>8. TypeOK'
  BY <1>2, <1>4, <1>5, <1>6, <1>7 DEF HeapInv, TypeOK
<1>9. highest_level' > PageLevel /\ highest_level' - 1 = highest_level
  BY <1>2, <1>7 DEF HeapInv
<1>10. BlockSize[highest_level] < bytes
  BY <1>7, LevelFacts DEF HeapInv, TypeOK
<1>11. mem_blocks'[highest_level'] # <<>> /\ BlockSize[highest_level' - 1] < bytes'
  <2>1. mem_blocks'[highest_level'] = <<run>>
    BY <1>4, <1>7
  <2>2. BlockSize[highest_level' - 1] = BlockSize[highest_level] /\ bytes' = bytes
    BY <1>7, <1>9
  <2> HIDE DEF l
  <2> QED BY <1>10, <2>1, <2>2
<1>12. SharedOk'
  BY <1>7, <1>9, <1>11 DEF SharedOk
<1>13. highest_level' >= PageLevel
  BY <1>2, <1>7 DEF HeapInv
<1> QED BY <1>8, <1>12, <1>13

\* The level of the request is then the highest, whose list has the run.
LEMMA SharedTarget ==
  ASSUME HeapInv, shared, pc = "grow", bytes <= BlockSize[highest_level],
         NEW l \in Levels, IsTargetLevel(l, bytes)
  PROVE  l = highest_level
<1>1. /\ highest_level \in Levels /\ highest_level - 1 \in Levels /\ bytes \in Nat
      /\ l \in Nat /\ highest_level \in Nat /\ BlockSize[highest_level - 1] < bytes
  <2>1. highest_level \in Levels /\ bytes \in Nat /\ l \in Nat /\ highest_level \in Nat
    BY LevelFacts DEF HeapInv, TypeOK
  <2>2. highest_level > PageLevel /\ PageLevel \in Nat
    BY LevelFacts DEF HeapInv, SharedOk
  <2>3. highest_level - 1 \in Nat /\ highest_level - 1 <= highest_level
    BY <2>1, <2>2
  <2> QED BY <2>1, <2>3, LevelFacts DEF HeapInv, SharedOk
<1>2. \A m \in Levels : BlockSize[m] \in Nat
  BY LevelFacts
<1>3. ASSUME l < highest_level PROVE FALSE
  <2>1. l = highest_level - 1 \/ l < highest_level - 1
    BY <1>1, <1>3
  <2>2. BlockSize[l] <= BlockSize[highest_level - 1]
    BY <1>1, <1>2, <2>1, SizesGrow
  <2> QED BY <1>1, <1>2, <2>2 DEF IsTargetLevel
<1>4. ASSUME l > highest_level PROVE FALSE
  <2>1. l - 1 \in Levels /\ (highest_level = l - 1 \/ highest_level < l - 1)
    <3>1. l - 1 \in Nat /\ l - 1 <= l
      BY <1>1, <1>4
    <3> QED BY <1>1, <1>4, <3>1, LevelFacts
  <2>2. BlockSize[highest_level] <= BlockSize[l - 1]
    BY <1>1, <1>2, <2>1, SizesGrow
  <2>3. BlockSize[l - 1] < bytes
    BY <2>1 DEF IsTargetLevel
  <2> QED BY <1>1, <1>2, <2>1, <2>2, <2>3
<1> QED BY <1>1, <1>3, <1>4

\* The rest of that call.
LEMMA SharedStep ==
  ASSUME HeapInv, shared, [Next]_vars
  PROVE  TypeOK' /\ SharedOk' /\ highest_level' >= PageLevel /\ shared'
<1>1. /\ pc \in {"idle", "grow"} /\ highest_level \in Nat /\ PageLevel \in Nat
      /\ highest_level > PageLevel
  BY LevelFacts DEF HeapInv, SharedOk, TypeOK
<1>2. CASE UNCHANGED vars
  BY <1>2 DEF vars, locals, HeapInv, TypeOK, SharedOk
<1>3. CASE KmallocGrow
  <2>1. shared'
    BY <1>3 DEF KmallocGrow, AddRegion
  <2> QED BY <1>3, <2>1, GrowAnyStep
<1>4. CASE KmallocGrowFails
  <2>1. highest_level' = highest_level + 1 /\ pc' = "idle" /\ shared'
    BY <1>4 DEF KmallocGrowFails, Return
  <2>2. highest_level + 1 \in Levels
    BY <1>4, LevelFacts DEF KmallocGrowFails, HeapInv, TypeOK
  <2>3. mem_blocks' \in [Levels -> Seq(Nat)]
    <3>1. mem_blocks \in [Levels -> Seq(Nat)]
      BY DEF HeapInv, TypeOK
    <3>2. mem_blocks' = [mem_blocks EXCEPT ![highest_level + 1] = <<>>]
      BY <1>4 DEF KmallocGrowFails
    <3>3. <<>> \in Seq(Nat)
      OBVIOUS
    <3> QED BY <2>2, <3>1, <3>2, <3>3
  <2>4. TypeOK'
    BY <1>4, <2>2, <2>3, LevelFacts DEF KmallocGrowFails, Return, HeapInv, TypeOK
  <2> QED BY <1>1, <2>1, <2>4 DEF SharedOk
<1>5. CASE KmallocTooLarge
  <2>1. UNCHANGED <<highest_level, shared>> /\ pc' = "idle"
    BY <1>5 DEF KmallocTooLarge, Return
  <2>2. TypeOK'
    BY <1>5, LevelFacts DEF KmallocTooLarge, Return, HeapInv, TypeOK
  <2> QED BY <1>1, <2>1, <2>2 DEF SharedOk
<1>6. CASE KmallocTarget
  <2>1. PICK l \in Levels : /\ IsTargetLevel(l, bytes)
                            /\ \/ mem_blocks[l] # <<>> /\ Take(l)
                               \/ mem_blocks[l] = <<>>
    BY <1>6 DEF KmallocTarget
  <2>2. l = highest_level /\ mem_blocks[l] # <<>>
    <3>1. pc = "grow" /\ bytes <= BlockSize[highest_level]
      BY <1>6 DEF KmallocTarget
    <3> QED BY <2>1, <3>1, SharedTarget DEF HeapInv, SharedOk
  <2>3. Take(l)
    BY <2>1, <2>2
  <2>4. Tail(mem_blocks[l]) \in Seq(Nat) /\ Head(mem_blocks[l]) \in Nat
    BY <2>2 DEF HeapInv, TypeOK
  <2>5. mem_blocks' \in [Levels -> Seq(Nat)]
    BY <2>3, <2>4 DEF Take, HeapInv, TypeOK
  <2>6. DOMAIN hdr' \subseteq Nat /\ \A a \in DOMAIN hdr' : hdr'[a] \in Header
    BY <2>3 DEF Take, HeapInv, TypeOK, Header
  <2>7. DOMAIN owned' \subseteq Nat /\ \A a \in DOMAIN owned' : owned'[a] \in Nat
    BY <2>3, <2>4 DEF Take, HeapInv, TypeOK
  <2>8. TypeOK'
    BY <2>3, <2>5, <2>6, <2>7, LevelFacts DEF Take, Return, HeapInv, TypeOK
  <2>9. UNCHANGED <<highest_level, shared>> /\ pc' = "idle"
    BY <2>3 DEF Take, Return
  <2> QED BY <1>1, <2>8, <2>9 DEF SharedOk
<1>7. UNCHANGED vars \/ KmallocGrow \/ KmallocGrowFails \/ KmallocTooLarge \/ KmallocTarget
  BY <1>1 DEF Next, Step, KallocInit, KallocInitFails, KmallocSkip, KmallocSplit,
     KmallocFound, KmallocExhausted, KfreeMerge, KfreeMergeForeign, KfreeInsert,
     MergeGoesOn, Kmalloc, Kfree
<1> QED BY <1>2, <1>3, <1>4, <1>5, <1>6, <1>7

\* Only a growth obtains memory that the heap has.
LEMMA SharesFirst ==
  ASSUME IInv, ~shared, shared', [Next]_vars
  PROVE  KmallocGrow
<1>1. ~KallocInit
  <2> SUFFICES ASSUME KallocInit PROVE FALSE
    OBVIOUS
  <2>1. DOMAIN regions = {}
    BY DEF KallocInit, IInv, BootState
  <2> QED BY <2>1 DEF KallocInit, AddRegion, Overlaps
<1> QED BY <1>1 DEF Next, Step, vars, KallocInitFails, KmallocGrowFails, KmallocTooLarge,
        KmallocTarget, KmallocSkip, KmallocSplit, KmallocFound, KmallocExhausted,
        KfreeMerge, KfreeMergeForeign, KfreeInsert, Take, Kmalloc, Kfree

\* No step takes highest_level below the page.
LEMMA HighestStep ==
  ASSUME TypeOK, highest_level >= PageLevel, [Next]_vars
  PROVE  highest_level' >= PageLevel
<1>1. highest_level \in Nat /\ PageLevel \in Nat
  BY LevelFacts DEF TypeOK
<1>2. highest_level' = highest_level \/ highest_level' = highest_level + 1
  BY DEF Next, Step, vars, KallocInit, KallocInitFails, KmallocGrow, KmallocGrowFails,
     KmallocTooLarge, KmallocTarget, KmallocSkip, KmallocSplit, KmallocFound,
     KmallocExhausted, KfreeMerge, KfreeMergeForeign, KfreeInsert, Take, Kmalloc, Kfree
<1> QED BY <1>1, <1>2

LEMMA StepPreserves == HeapInv /\ [Next]_vars => HeapInv'
<1> SUFFICES ASSUME HeapInv, [Next]_vars PROVE HeapInv'
  OBVIOUS
<1>1. CASE shared
  <2>1. TypeOK' /\ SharedOk' /\ highest_level' >= PageLevel /\ shared'
    BY <1>1, SharedStep
  <2> QED BY <2>1 DEF HeapInv
<1>2. CASE ~shared /\ shared'
  <2>1. KmallocGrow
    BY <1>2, SharesFirst DEF HeapInv
  <2> QED BY <1>2, <2>1, GrowAnyStep DEF HeapInv
<1>3. CASE ~shared /\ ~shared'
  <2>1. IInv'
    BY <1>3, FreshStep DEF HeapInv
  <2>2. highest_level' >= PageLevel
    BY HighestStep DEF HeapInv
  <2> QED BY <1>3, <2>1, <2>2 DEF HeapInv, SharedOk, IInv
<1> QED BY <1>1, <1>2, <1>3

LEMMA HeapInvHolds == Spec => []HeapInv
<1>1. Init => HeapInv
  <2> SUFFICES ASSUME Init PROVE HeapInv
    OBVIOUS
  <2>1. PageLevel \in Nat
    BY LevelFacts
  <2> QED BY <2>1, InitEstablishes DEF Init, HeapInv, IInv, SharedOk
<1>2. HeapInv /\ [Next]_vars => HeapInv'
  BY StepPreserves
<1>3. QED BY <1>1, <1>2, PTL DEF Spec

(***************************************************************************)
(* Every variable keeps its type: no level leaves the array mem_blocks,    *)
(* whatever splits, merges and failed growths a run strings together.      *)
(***************************************************************************)
THEOREM TypeCorrect == Spec => []TypeOK
<1>1. HeapInv => TypeOK
  BY DEF HeapInv
<1>2. QED BY <1>1, HeapInvHolds, PTL

LEMMA LiveRangesFollow == IInv => LiveRangesDisjoint
<1> SUFFICES ASSUME IInv, NEW a \in DOMAIN owned
             PROVE  /\ a .. a + owned[a] - 1 \subseteq HeapBytes
                    /\ \A b \in DOMAIN owned : a < b => a + owned[a] <= b
  BY DEF LiveRangesDisjoint, HeldOnce
<1>1. /\ a \in DOMAIN hdr /\ a \in Nat /\ owned[a] \in Nat
      /\ owned[a] <= BlockSize[hdr[a].level] /\ BlockSize[hdr[a].level] \in Nat
  BY HeaderFacts DEF IInv, TypeOK, Memory, OwnedOk
<1>2. a .. a + owned[a] - 1 \subseteq Extent(a)
  BY <1>1 DEF Extent, Bytes
<1>3. Extent(a) \subseteq HeapBytes
  BY <1>1 DEF IInv, Memory, BlocksInHeap
<1>4. ASSUME NEW b \in DOMAIN owned, a < b
      PROVE  a + owned[a] <= b
  <2>1. b \in DOMAIN hdr /\ b \in Nat
    BY HeaderFacts DEF IInv, Memory, OwnedOk
  <2>2. a + BlockSize[hdr[a].level] <= b
    BY <1>1, <1>4, <2>1 DEF IInv, Memory, BlocksApart
  <2>3. QED BY <1>1, <2>1, <2>2
<1>5. QED BY <1>2, <1>3, <1>4

(***************************************************************************)
(* Until a run of pages has bytes of another, what kmalloc promised to two *)
(* callers never overlaps and lies in the heap (mem.c:37-151): for any page*)
(* size, any requests and any page runs, through every sequence of splits, *)
(* merges and refused growths.                                             *)
(***************************************************************************)
THEOREM LiveRangesAreDisjoint == Spec => []LiveRangesDisjoint
<1>1. HeapInv => LiveRangesDisjoint
  BY LiveRangesFollow DEF HeapInv, LiveRangesDisjoint
<1> QED BY <1>1, HeapInvHolds, PTL

(***************************************************************************)
(* Until then, every byte the page allocator gave to the heap belongs to a *)
(* block that is owned, listed at its level or being merged (mem.c:76-106  *)
(* and mem.c:120-150): what is freed can be found again.                   *)
(***************************************************************************)
THEOREM NoByteIsLost == Spec => []NoByteLost
<1>1. HeapInv => NoByteLost
  BY DEF HeapInv, IInv, Memory, HeapCovered, BlocksAccounted, Merging, NoByteLost
<1>2. QED BY <1>1, HeapInvHolds, PTL

\* A request is pending in kmalloc only.
NoRequest == pc \notin {"grow", "scan"} => bytes = 0

LEMMA NoRequestHolds == Spec => []NoRequest
<1>1. Init => NoRequest
  BY DEF Init, NoRequest
<1>2. NoRequest /\ [Next]_vars => NoRequest'
  <2> SUFFICES ASSUME NoRequest, [Next]_vars PROVE NoRequest'
    OBVIOUS
  <2>1. CASE pc' = pc /\ bytes' = bytes
    BY <2>1 DEF NoRequest
  <2>2. CASE bytes' = 0
    BY <2>2 DEF NoRequest
  <2>3. CASE pc' \in {"grow", "scan"}
    BY <2>3 DEF NoRequest
  <2>4. CASE KallocInitFails \/ KfreeMergeForeign
    BY <2>4 DEF KallocInitFails, KfreeMergeForeign, MergeGoesOn, locals, NoRequest
  <2>5. CASE \E a \in DOMAIN owned : Kfree(a)
    BY <2>5 DEF Kfree, NoRequest
  <2>6. CASE KmallocTarget
    BY <2>2, <2>3, <2>6 DEF KmallocTarget, Take, Return
  <2>7. CASE KallocInit \/ KmallocGrowFails \/ KmallocTooLarge \/ KmallocFound
             \/ KmallocExhausted \/ KfreeInsert
    BY <2>2, <2>7 DEF KallocInit, KmallocGrowFails, KmallocTooLarge, KmallocFound,
       KmallocExhausted, KfreeInsert, Take, Return
  <2>8. CASE KmallocGrow \/ KmallocSkip \/ KmallocSplit \/ KfreeMerge
    BY <2>1, <2>8 DEF KmallocGrow, KmallocSkip, KmallocSplit, KfreeMerge, locals
  <2>9. CASE \E n \in Requests : Kmalloc(n)
    BY <2>3, <2>9 DEF Kmalloc
  <2>10. CASE UNCHANGED vars
    BY <2>1, <2>10 DEF vars, locals
  <2>11. QED BY <2>4, <2>5, <2>6, <2>7, <2>8, <2>9, <2>10 DEF Next, Step
<1>3. QED BY <1>1, <1>2, PTL DEF Spec

\* The run of pages that holds an address of the heap is one of PageRuns.
LEMMA HeapIsAddressed == IInv => HeapBytes \subseteq HeapAddresses
BY DEF IInv, TypeOK, HeapBytes, HeapAddresses

\* The one step at which a caller sees kmalloc succeed.
LEMMA TakeGrants ==
  ASSUME IInv, IInv', ~shared, NEW l \in Levels, mem_blocks[l] # <<>>,
         pc \in {"grow", "scan"}, Take(l)
  PROVE  \E a \in HeapAddresses : A!Grant(a)
<1> DEFINE f == Head(mem_blocks[l])
<1>1. /\ f \in DOMAIN hdr /\ f \in Nat /\ f \notin DOMAIN owned
      /\ hdr[f].level \in Levels
  <2>1. f \in ToSet(mem_blocks[l])
    BY ListFacts, TailFacts
  <2>2. f \in DOMAIN hdr /\ hdr[f].is_free
    BY <2>1, ListFacts
  <2>3. QED BY <2>2, HeaderFacts DEF IInv, Memory, OwnedOk
<1>2. /\ owned' = [x \in DOMAIN owned \cup {f} |->
                     IF x = f THEN bytes ELSE owned[x]]
      /\ pc' = "idle" /\ bytes' = 0 /\ ~shared'
  BY DEF Take, Return
<1> HIDE DEF f
<1>3. f \in HeapAddresses
  <2>1. f \in Extent(f)
    BY <1>1, SizeAssumption DEF Extent, Bytes
  <2>2. QED BY <1>1, <2>1, HeapIsAddressed DEF IInv, Memory, BlocksInHeap
<1>4. A!IsUnheld(f, bytes)
  <2>1. LiveRangesDisjoint'
    BY LiveRangesFollow, PTL
  <2>2. f .. f + bytes - 1 \subseteq HeapAddresses
    <3>1. HeapBytes' \subseteq HeapAddresses
      BY DEF IInv, TypeOK, HeapBytes, HeapAddresses
    <3>2. QED BY <1>2, <2>1, <3>1 DEF LiveRangesDisjoint
  <2>3. ASSUME NEW b \in DOMAIN owned
        PROVE  f + bytes <= b \/ b + owned[b] <= f
    <3>1. b # f /\ b \in Nat
      BY <1>1 DEF IInv, TypeOK
    <3>2. f < b \/ b < f
      BY <1>1, <3>1
    <3>3. QED BY <1>1, <1>2, <2>1, <3>1, <3>2 DEF LiveRangesDisjoint, HeldOnce
  <2>4. QED BY <2>2, <2>3 DEF A!IsUnheld
<1>5. Call = "alloc" /\ Call' = "none"
  BY <1>2 DEF Call
<1>6. QED BY <1>1, <1>2, <1>3, <1>4, <1>5 DEF A!Grant

LEMMA FreshRefines ==
  ASSUME IInv, IInv', ~shared, ~shared', NoRequest, [Next]_vars
  PROVE  [A!Next]_A!vars
<1>1. CASE KallocInit \/ KallocInitFails
  <2>1. A!Ready
    BY <1>1 DEF KallocInit, KallocInitFails, Return, locals, Call, A!Ready,
       NoRequest
  <2>2. QED BY <2>1 DEF A!Next
<1>2. CASE \E n \in Requests : Kmalloc(n)
  <2>1. PICK n \in Requests : Kmalloc(n)
    BY <1>2
  <2>2. A!Request(n + MetaSize)
    BY <2>1 DEF Kmalloc, Call, A!Request
  <2>3. QED BY <2>2 DEF A!Next
<1>3. CASE KmallocGrow \/ KmallocSkip \/ KmallocSplit
  <2>1. UNCHANGED <<owned, bytes>> /\ pc' = pc
    BY <1>3 DEF KmallocGrow, KmallocSkip, KmallocSplit, locals
  <2>2. QED BY <2>1 DEF Call, A!vars
<1>4. CASE KmallocGrowFails \/ KmallocTooLarge \/ KmallocExhausted
  <2>1. A!Refuse
    BY <1>4 DEF KmallocGrowFails, KmallocTooLarge, KmallocExhausted, Return,
       Call, A!Refuse
  <2>2. QED BY <2>1 DEF A!Next
<1>5. CASE KmallocTarget
  <2>1. PICK l \in Levels :
          \/ mem_blocks[l] # <<>> /\ Take(l)
          \/ pc' = "scan" /\ UNCHANGED <<owned, bytes>>
    BY <1>5 DEF KmallocTarget
  <2>2. pc = "grow"
    BY <1>5 DEF KmallocTarget
  <2>3. CASE mem_blocks[l] # <<>> /\ Take(l)
    BY <2>2, <2>3, TakeGrants DEF A!Next
  <2>4. CASE pc' = "scan" /\ UNCHANGED <<owned, bytes>>
    BY <2>2, <2>4 DEF Call, A!vars
  <2>5. QED BY <2>1, <2>3, <2>4
<1>6. CASE KmallocFound
  <2>1. target_level \in Levels
    BY DEF IInv, TypeOK
  <2>2. QED BY <1>6, <2>1, TakeGrants DEF KmallocFound, A!Next
<1>7. CASE \E a \in DOMAIN owned : Kfree(a)
  <2>1. PICK a \in DOMAIN owned : Kfree(a)
    BY <1>7
  <2>2. A!Free(a)
    BY <2>1 DEF Kfree, Call, A!Free
  <2>3. QED BY <2>2 DEF A!Next
<1>8. CASE KfreeMerge
  BY <1>8 DEF KfreeMerge, Call, A!vars
<1>9. CASE KfreeMergeForeign \/ KfreeInsert
  <2>1. pc = "merge" /\ UNCHANGED owned /\ pc' \in {"idle", "corrupt"}
    BY <1>9 DEF KfreeMergeForeign, KfreeInsert, MergeGoesOn, Return
  <2>2. bytes' = bytes
    BY <1>9, <2>1 DEF KfreeMergeForeign, KfreeInsert, Return, locals, NoRequest
  <2>3. A!Freed
    BY <2>1, <2>2 DEF Call, A!Freed
  <2>4. QED BY <2>3 DEF A!Next
<1>10. CASE UNCHANGED vars
  BY <1>10 DEF vars, locals, Call, A!vars
<1>11. QED BY <1>1, <1>2, <1>3, <1>4, <1>5, <1>6, <1>7, <1>8, <1>9, <1>10
           DEF Next, Step

LEMMA StepRefines ==
  ASSUME HeapInv, HeapInv', NoRequest, [Next]_vars
  PROVE  [A!Next]_A!vars
<1>1. CASE ~shared'
  <2>1. ~shared
    BY <1>1, SharedStep
  <2> QED BY <1>1, <2>1, FreshRefines DEF HeapInv
<1>2. CASE shared'
  <2>1. Call' = "over"
    BY <1>2 DEF Call
  <2>2. Call \in {"alloc", "over"}
    <3>1. CASE shared
      BY <3>1 DEF Call
    <3>2. CASE ~shared
      <4>1. KmallocGrow
        BY <1>2, <3>2, SharesFirst DEF HeapInv
      <4> QED BY <3>2, <4>1 DEF KmallocGrow, Call
    <3> QED BY <3>1, <3>2
  <2>3. A!Breaks
    BY <2>1, <2>2 DEF A!Breaks
  <2> QED BY <2>3 DEF A!Next
<1> QED BY <1>1, <1>2

(***************************************************************************)
(* The heap implements Allocator, for any levels, sizes, requests and page *)
(* runs (mem.c:24-151): every step of its loops is one visible step of the *)
(* call that is running, or none, until a run of pages has bytes of        *)
(* another.                                                                *)
(***************************************************************************)
THEOREM HeapImplementsAllocator == Spec => ImplementsAllocator
<1>1. Init => A!Init
  BY DEF Init, A!Init, Call
<1>2. HeapInv /\ HeapInv' /\ NoRequest /\ [Next]_vars => [A!Next]_A!vars
  BY StepRefines
<1>3. QED BY <1>1, <1>2, HeapInvHolds, NoRequestHolds, PTL
      DEF Spec, A!Spec, ImplementsAllocator

-----------------------------------------------------------------------------
\* Buddies.

\* One region, of one page, until a growth is tried.
OnePageOnly ==
  /\ highest_level >= PageLevel
  /\ BeforeGrowth =>
       \A r \in DOMAIN regions : regions[r] = PageLevel /\ \A q \in DOMAIN regions : q = r

Aligned == BeforeGrowth => \A a \in DOMAIN hdr : a % BlockSize[hdr[a].level] = 0

\* A search stands at a list with a block, or has found the lists above to be empty.
ScanOk ==
  pc = "scan" =>
    /\ curr_level <= highest_level
    /\ \/ curr_level >= target_level /\ mem_blocks[curr_level] # <<>>
       \/ \A l \in Levels : curr_level < l /\ l <= highest_level => mem_blocks[l] = <<>>

\* One of the two halves that the search has just made, and is about to use.
Splitting(l, a, b) ==
  /\ pc = "scan" /\ l = curr_level /\ curr_level >= target_level
  /\ Head(mem_blocks[l]) \in {a, b}

Coalesced ==
  BeforeGrowth =>
    \A l \in 0 .. PageLevel - 1 : \A a, b \in ToSet(mem_blocks[l]) :
      b = Buddy(a, BlockSize[l]) => Splitting(l, a, b)

BuddyInv == OnePageOnly /\ Aligned /\ ScanOk /\ Coalesced

-----------------------------------------------------------------------------
(***************************************************************************)
(* Multiples                                                               *)
(***************************************************************************)

LEMMA Multiple ==
  ASSUME NEW a \in Nat, NEW n \in Nat \ {0}, a % n = 0
  PROVE  \E q \in Nat : a = q * n
  OBVIOUS

LEMMA MultipleMod ==
  ASSUME NEW q \in Nat, NEW n \in Nat \ {0}, NEW r \in 0 .. n - 1
  PROVE  (q * n + r) % n = r
  OBVIOUS

LEMMA ProductOrder ==
  ASSUME NEW p \in Nat, NEW q \in Nat, NEW n \in Nat \ {0}, p * n < q * n
  PROVE  p * n + n <= q * n
<1>1. p + 1 <= q
  OBVIOUS
<1>2. (p + 1) * n <= q * n
  BY <1>1
<1>3. (p + 1) * n = p * n + n
  OBVIOUS
<1> QED BY <1>2, <1>3

\* A multiple of a multiple.
LEMMA MultipleOfMultiple ==
  ASSUME NEW a \in Nat, NEW m \in Nat \ {0}, NEW n \in Nat \ {0}, a % n = 0, n % m = 0
  PROVE  a % m = 0
<1>1. PICK p \in Nat : a = p * n
  BY Multiple
<1>2. PICK q \in Nat : n = q * m
  BY Multiple
<1>3. p * q \in Nat /\ a = (p * q) * m
  BY <1>1, <1>2
<1> DEFINE k == p * q
<1>4. k \in Nat /\ a = k * m + 0
  BY <1>3
<1> HIDE DEF k
<1>5. (k * m + 0) % m = 0
  BY <1>4, MultipleMod
<1> QED BY <1>4, <1>5

\* Two multiples are at least one size apart.
LEMMA MultiplesApart ==
  ASSUME NEW a \in Nat, NEW b \in Nat, NEW n \in Nat \ {0}, a % n = 0, b % n = 0, a < b
  PROVE  a + n <= b
<1>1. PICK p \in Nat : a = p * n
  BY Multiple
<1>2. PICK q \in Nat : b = q * n
  BY Multiple
<1> QED BY <1>1, <1>2, ProductOrder

\* Half way between two multiples.
LEMMA HalfWay ==
  ASSUME NEW a \in Nat, NEW n \in Nat \ {0}, a % n = 0
  PROVE  a % (2 * n) = 0 \/ (a % (2 * n) = n /\ a >= n /\ (a - n) % (2 * n) = 0)
<1>1. PICK q \in Nat : a = q * n
  BY Multiple
<1>2. PICK p \in Nat : q = 2 * p \/ q = 2 * p + 1
  <2>1. (q \div 2) \in Nat /\ (q = 2 * (q \div 2) \/ q = 2 * (q \div 2) + 1)
    OBVIOUS
  <2> QED BY <2>1
<1>3. 2 * n \in Nat \ {0} /\ 0 \in 0 .. 2 * n - 1 /\ n \in 0 .. 2 * n - 1
  OBVIOUS
<1>4. (p * (2 * n) + 0) % (2 * n) = 0 /\ (p * (2 * n) + n) % (2 * n) = n
  BY <1>3, MultipleMod
<1>5. p * (2 * n) \in Nat /\ (2 * p) * n = p * (2 * n) /\ (2 * p + 1) * n = p * (2 * n) + n
  OBVIOUS
<1>6. CASE q = 2 * p
  <2>1. a = p * (2 * n) + 0
    BY <1>1, <1>5, <1>6
  <2> QED BY <1>4, <2>1
<1>7. CASE q = 2 * p + 1
  <2>1. a = p * (2 * n) + n /\ a - n = p * (2 * n) + 0 /\ a >= n
    BY <1>1, <1>5, <1>7
  <2> QED BY <1>4, <2>1
<1> QED BY <1>2, <1>6, <1>7

\* What is half way after a multiple.
LEMMA NextHalf ==
  ASSUME NEW a \in Nat, NEW n \in Nat \ {0}, a % (2 * n) = 0
  PROVE  (a + n) % (2 * n) = n /\ (a + n) % n = 0 /\ a % n = 0
<1>1. PICK p \in Nat : a = p * (2 * n)
  BY Multiple
<1>2. 2 * n \in Nat \ {0} /\ n \in 0 .. 2 * n - 1 /\ 0 \in 0 .. n - 1
  OBVIOUS
<1>3. (p * (2 * n) + n) % (2 * n) = n
  BY <1>2, MultipleMod
<1>4. 2 * p \in Nat /\ 2 * p + 1 \in Nat /\ a = (2 * p) * n + 0 /\ a + n = (2 * p + 1) * n + 0
  BY <1>1
<1>5. ((2 * p) * n + 0) % n = 0 /\ ((2 * p + 1) * n + 0) % n = 0
  BY <1>2, <1>4, MultipleMod
<1> QED BY <1>1, <1>3, <1>4, <1>5

\* What the exclusive or of an address and the size of its block does.
LEMMA BuddyFacts ==
  ASSUME NEW a \in Nat, NEW n \in Nat \ {0}, a % n = 0
  PROVE  /\ Buddy(a, n) \in Nat /\ Buddy(a, n) # a /\ Buddy(a, n) % n = 0
         /\ Buddy(Buddy(a, n), n) = a
         /\ LowerOf(a, Buddy(a, n)) % (2 * n) = 0
         /\ a % (2 * n) = 0 => Buddy(a, n) = a + n
<1>1. CASE a % (2 * n) = 0
  <2>1. Buddy(a, n) = a + n
    BY <1>1 DEF Buddy
  <2>2. (a + n) % (2 * n) = n /\ (a + n) % n = 0
    BY <1>1, NextHalf
  <2>3. Buddy(a + n, n) = a
    BY <2>2 DEF Buddy
  <2>4. LowerOf(a, a + n) = a
    BY DEF LowerOf
  <2> QED BY <1>1, <2>1, <2>2, <2>3, <2>4
<1>2. CASE a % (2 * n) = n /\ a >= n /\ (a - n) % (2 * n) = 0
  <2>1. Buddy(a, n) = a - n /\ a - n \in Nat
    BY <1>2 DEF Buddy
  <2>2. (a - n) % n = 0
    BY <1>2, <2>1, NextHalf
  <2>3. Buddy(a - n, n) = a
    BY <1>2, <2>1 DEF Buddy
  <2>4. LowerOf(a, a - n) = a - n
    BY DEF LowerOf
  <2> QED BY <1>2, <2>1, <2>2, <2>3, <2>4
<1> QED BY <1>1, <1>2, HalfWay

\* An interval that begins at a multiple of its size, which is a multiple of twice n,
\* contains the buddies of what it contains.
LEMMA BuddyInside ==
  ASSUME NEW b \in Nat, NEW m \in Nat \ {0}, NEW x \in Nat, NEW n \in Nat \ {0},
         b % m = 0, m % (2 * n) = 0, x % n = 0, b <= x, x < b + m
  PROVE  Buddy(x, n) \in b .. b + m - 1
<1>1. 2 * n \in Nat \ {0}
  OBVIOUS
<1>2. b % (2 * n) = 0
  BY <1>1, MultipleOfMultiple
<1>3. (b + m) % (2 * n) = 0
  <2>1. PICK p \in Nat : b = p * (2 * n)
    BY <1>1, <1>2, Multiple
  <2>2. PICK q \in Nat : m = q * (2 * n)
    BY <1>1, Multiple
  <2>3. p + q \in Nat /\ b + m = (p + q) * (2 * n) + 0 /\ 0 \in 0 .. 2 * n - 1
    BY <2>1, <2>2
  <2>4. ((p + q) * (2 * n) + 0) % (2 * n) = 0
    BY <1>1, <2>3, MultipleMod
  <2> QED BY <2>3, <2>4
<1>4. CASE x % (2 * n) = 0
  <2>1. x + 2 * n <= b + m
    BY <1>1, <1>3, <1>4, MultiplesApart
  <2>2. Buddy(x, n) = x + n
    BY <1>4, BuddyFacts
  <2> QED BY <2>1, <2>2
<1>5. CASE x % (2 * n) = n /\ x >= n /\ (x - n) % (2 * n) = 0
  <2>1. x - n \in Nat /\ Buddy(x, n) = x - n
    BY <1>5 DEF Buddy
  <2>2. ~(x - n < b)
    <3> SUFFICES ASSUME x - n < b PROVE FALSE
      OBVIOUS
    <3>1. (x - n) + 2 * n <= b
      BY <1>1, <1>2, <1>5, <2>1, MultiplesApart
    <3> QED BY <3>1
  <2> QED BY <2>1, <2>2
<1> QED BY <1>4, <1>5, HalfWay

\* An interval that begins at a multiple of its size begins at the multiples in it.
LEMMA StartsAt ==
  ASSUME NEW b \in Nat, NEW m \in Nat \ {0}, NEW x \in Nat, b % m = 0, x % m = 0,
         b <= x, x < b + m
  PROVE  x = b
<1> SUFFICES ASSUME b < x PROVE FALSE
  OBVIOUS
<1>1. b + m <= x
  BY MultiplesApart
<1> QED BY <1>1

-----------------------------------------------------------------------------
(***************************************************************************)
(* The buddy of a block                                                    *)
(***************************************************************************)

\* Before the heap has grown, what is below the size of a page has its buddy among the
\* blocks: the page is aligned, the blocks cover it, and each begins at a multiple of its
\* size.
LEMMA BuddyIsBlock ==
  ASSUME IInv, BuddyInv, BeforeGrowth, NEW a \in DOMAIN hdr, hdr[a].level < PageLevel
  PROVE  /\ Buddy(a, BlockSize[hdr[a].level]) \in DOMAIN hdr
         /\ Buddy(a, BlockSize[hdr[a].level]) # a
<1> DEFINE l == hdr[a].level
           n == BlockSize[l]
           P == BlockSize[PageLevel]
           b == Buddy(a, n)
<1>1. /\ a \in Nat /\ l \in Levels /\ l \in Nat /\ n \in Nat \ {0}
      /\ PageLevel \in Levels /\ PageLevel \in Nat /\ P \in Nat \ {0}
  <2>1. a \in Nat /\ l \in Levels /\ n \in Nat /\ n > 0
    BY HeaderFacts
  <2>2. PageLevel \in Levels /\ P \in Nat /\ P > 0 /\ l \in Nat /\ PageLevel \in Nat
    BY <2>1, LevelFacts
  <2> QED BY <2>1, <2>2
<1>2. l < PageLevel /\ P % (2 * n) = 0
  BY <1>1, SizeAssumption
<1>3. a % n = 0
  BY DEF BuddyInv, Aligned
<1>4. a \in Extent(a) /\ Extent(a) = Bytes(a, l)
  BY <1>1 DEF Extent, Bytes
<1>5. PICK r \in DOMAIN regions : a \in Bytes(r, regions[r])
  BY <1>4 DEF IInv, Memory, BlocksInHeap, HeapBytes
<1>6. regions[r] = PageLevel /\ r \in Nat /\ r % P = 0
  <2>1. r \in PageRuns
    BY DEF IInv, TypeOK
  <2> QED BY <2>1, EnvironmentAssumption DEF BuddyInv, OnePageOnly
<1>7. a \in r .. r + P - 1
  BY <1>5, <1>6 DEF Bytes
<1>8. b \in Nat /\ b # a /\ b % n = 0 /\ Buddy(b, n) = a
  BY <1>1, <1>3, BuddyFacts
<1>9. b \in HeapBytes
  <2>1. b \in r .. r + P - 1
    <3>1. r <= a /\ a < r + P
      BY <1>1, <1>6, <1>7
    <3> HIDE DEF l, n, P
    <3> QED BY <1>1, <1>2, <1>3, <1>6, <3>1, BuddyInside
  <2>2. b \in Bytes(r, regions[r])
    BY <1>6, <2>1 DEF Bytes
  <2> QED BY <2>2 DEF HeapBytes
<1>10. PICK c \in DOMAIN hdr : b \in Extent(c)
  BY <1>9 DEF IInv, Memory, HeapCovered
<1> DEFINE k == hdr[c].level
           m == BlockSize[k]
<1>11. c \in Nat /\ k \in Levels /\ k \in Nat /\ m \in Nat \ {0} /\ c % m = 0
  <2>1. c \in Nat /\ k \in Levels /\ m \in Nat /\ m > 0
    BY HeaderFacts
  <2>2. k \in Nat
    BY <2>1, LevelFacts
  <2>3. c % m = 0
    BY DEF BuddyInv, Aligned
  <2> QED BY <2>1, <2>2, <2>3
<1>12. c <= b /\ b < c + m
  <2>1. b \in c .. c + m - 1
    BY <1>10 DEF Extent, Bytes
  <2> QED BY <1>8, <1>11, <2>1
<1>13. k = l => m = n
  OBVIOUS
<1>14. (k < l => n % (2 * m) = 0) /\ (l < k => m % (2 * n) = 0)
  BY <1>1, <1>11, SizeAssumption
<1>15. /\ c < a => c + m <= a
       /\ a < c => a + n <= c
       /\ k # l => c # a
  BY DEF IInv, Memory, BlocksApart
<1> HIDE DEF l, n, P, b, k, m
<1>16. CASE k = l
  BY <1>8, <1>11, <1>12, <1>13, <1>16, StartsAt DEF n, b, l
<1>17. CASE k < l
  <2>1. 2 * m \in Nat \ {0} /\ n % (2 * m) = 0
    BY <1>11, <1>14, <1>17
  <2>2. b % (2 * m) = 0
    BY <1>1, <1>8, <2>1, MultipleOfMultiple
  <2>3. b % m = 0
    BY <1>8, <1>11, <2>2, NextHalf
  <2>4. b = c
    BY <1>8, <1>11, <1>12, <2>3, StartsAt
  <2> QED BY <1>8, <2>4 DEF n, b, l
<1>18. CASE l < k
  <2>1. Buddy(b, n) \in c .. c + m - 1
    BY <1>1, <1>8, <1>11, <1>12, <1>14, <1>18, BuddyInside
  <2>2. c <= a /\ a < c + m
    BY <1>1, <1>8, <1>11, <2>1
  <2>3. c < a \/ a < c
    BY <1>1, <1>11, <1>15, <1>18
  <2> QED BY <1>1, <1>11, <1>15, <2>2, <2>3
<1> QED BY <1>1, <1>11, <1>16, <1>17, <1>18

\* What kfree reads is the header of that block.
LEMMA MergingFacts ==
  ASSUME IInv, BuddyInv, BeforeGrowth, pc = "merge", BelowHighest
  PROVE  /\ block \in DOMAIN hdr /\ block \in Nat
         /\ hdr[block].level \in Levels /\ hdr[block].level < PageLevel
         /\ BuddyOfBlock \in DOMAIN hdr /\ BuddyOfBlock # block
         /\ HeaderAt(BuddyOfBlock) = {hdr[BuddyOfBlock]}
<1>1. block \in DOMAIN hdr
  BY DEF IInv, MergingOk, Merging
<1>2. block \in Nat /\ hdr[block].level \in Levels /\ hdr[block].level < PageLevel
  BY <1>1, HeaderFacts DEF BelowHighest, BeforeGrowth
<1>3. BuddyOfBlock \in DOMAIN hdr /\ BuddyOfBlock # block
  BY <1>1, <1>2, BuddyIsBlock DEF BuddyOfBlock
<1> QED BY <1>1, <1>2, <1>3 DEF HeaderAt

LEMMA MergesListed ==
  ASSUME IInv, BuddyInv, BeforeGrowth, MergeGoesOn
  PROVE  BuddyIsListed
<1> DEFINE b == BuddyOfBlock
<1>1. /\ b \in DOMAIN hdr /\ b # block /\ hdr[b].is_free /\ hdr[b].level = hdr[block].level
  BY MergingFacts DEF MergeGoesOn, IsMergeable
<1>2. b \notin DOMAIN owned
  BY <1>1 DEF IInv, Memory, OwnedOk
<1>3. IsListed(b)
  BY <1>1, <1>2 DEF IInv, BlocksAccounted
<1> QED BY <1>1, <1>3 DEF IsListed, BuddyIsListed

LEMMA InsertsAlone ==
  ASSUME IInv, BuddyInv, BeforeGrowth, pc = "merge", BelowHighest,
         \E h \in HeaderAt(BuddyOfBlock) : ~IsMergeable(h)
  PROVE  ~BuddyIsListed
<1>1. /\ hdr[block].level \in Levels
      /\ ~(hdr[BuddyOfBlock].is_free /\ hdr[BuddyOfBlock].level = hdr[block].level)
  BY MergingFacts DEF IsMergeable
<1> QED BY <1>1, ListFacts DEF BuddyIsListed

-----------------------------------------------------------------------------
(***************************************************************************)
(* The steps                                                               *)
(***************************************************************************)

\* Outside of a search no two buddies are both listed.
LEMMA NoBuddiesListed ==
  ASSUME BuddyInv, BeforeGrowth, NEW l \in 0 .. PageLevel - 1,
         NEW a \in ToSet(mem_blocks[l]), NEW b \in ToSet(mem_blocks[l]),
         pc # "scan" \/ l # curr_level \/ curr_level < target_level
           \/ Head(mem_blocks[l]) \notin {a, b},
         IInv
  PROVE  b # Buddy(a, BlockSize[l])
<1>1. l \in Levels
  BY LevelFacts
<1>2. curr_level >= target_level => ~(curr_level < target_level)
  <2>1. curr_level \in Int /\ target_level \in Int
    BY LevelFacts DEF IInv, TypeOK
  <2> QED BY <2>1
<1> QED BY <1>2 DEF BuddyInv, Coalesced, Splitting

\* A step that changes neither the lists nor the levels of the blocks, and is none of a
\* search.
LEMMA OutsideSearch ==
  ASSUME IInv, BuddyInv, UNCHANGED <<mem_blocks, highest_level, regions>>,
         DOMAIN hdr' = DOMAIN hdr, \A a \in DOMAIN hdr : hdr'[a].level = hdr[a].level,
         pc # "scan", pc' # "scan"
  PROVE  BuddyInv'
<1>1. OnePageOnly' /\ Aligned' /\ ScanOk'
  BY DEF BuddyInv, OnePageOnly, Aligned, ScanOk, BeforeGrowth
<1>2. Coalesced'
  BY DEF BuddyInv, Coalesced, Splitting, BeforeGrowth
<1> QED BY <1>1, <1>2 DEF BuddyInv

LEMMA GrowthStep ==
  ASSUME IInv, BuddyInv, KmallocGrow \/ KmallocGrowFails
  PROVE  BuddyInv'
<1>1. highest_level \in Nat /\ PageLevel \in Nat /\ highest_level >= PageLevel
  BY LevelFacts DEF IInv, TypeOK, BuddyInv, OnePageOnly
<1>2. highest_level' = highest_level + 1 /\ pc' # "scan"
  BY DEF KmallocGrow, KmallocGrowFails, Return
<1>3. highest_level' >= PageLevel /\ ~BeforeGrowth'
  BY <1>1, <1>2 DEF BeforeGrowth
<1> QED BY <1>2, <1>3 DEF BuddyInv, OnePageOnly, Aligned, ScanOk, Coalesced

LEMMA FirstPageStep ==
  ASSUME IInv, BuddyInv, KallocInit
  PROVE  BuddyInv'
<1>1. PICK run \in PageRuns : AddRegion(run, PageLevel)
  BY DEF KallocInit
<1>2. /\ DOMAIN hdr = {} /\ DOMAIN regions = {} /\ \A l \in Levels : mem_blocks[l] = <<>>
      /\ highest_level' = PageLevel /\ pc' = "idle"
  BY DEF KallocInit, Return, IInv, BootState
<1>3. PageLevel \in Levels /\ PageLevel \in Nat /\ run % BlockSize[PageLevel] = 0
  BY LevelFacts, EnvironmentAssumption
<1>4. /\ DOMAIN hdr' = {run} /\ hdr'[run].level = PageLevel
      /\ DOMAIN regions' = {run} /\ regions'[run] = PageLevel
  <2>1. hdr' = WriteHeader(hdr, run, PageLevel, TRUE)
    BY <1>1 DEF AddRegion
  <2>2. regions' = [x \in DOMAIN regions \cup {run} |->
                      IF x = run THEN PageLevel ELSE regions[x]]
    BY <1>1 DEF AddRegion
  <2> QED BY <1>2, <2>1, <2>2 DEF WriteHeader
<1>5. \A l \in 0 .. PageLevel - 1 : mem_blocks'[l] = <<>>
  <2> SUFFICES ASSUME NEW l \in 0 .. PageLevel - 1 PROVE mem_blocks'[l] = <<>>
    OBVIOUS
  <2>1. l \in Levels /\ l # PageLevel
    BY <1>3, LevelFacts
  <2>2. mem_blocks'[l] = CutAfter(<<>>, run)
    <3>1. mem_blocks' = [m \in Levels |-> IF m = PageLevel THEN <<run>>
                                         ELSE CutAfter(mem_blocks[m], run)]
      BY <1>1 DEF AddRegion
    <3> QED BY <1>2, <2>1, <3>1
  <2>3. run \notin ToSet(<<>>)
    BY DEF ToSet
  <2> QED BY <2>2, <2>3 DEF CutAfter
<1>6. OnePageOnly' /\ Aligned' /\ ScanOk'
  BY <1>2, <1>3, <1>4 DEF OnePageOnly, Aligned, ScanOk
<1>7. Coalesced'
  BY <1>5 DEF Coalesced, ToSet
<1> QED BY <1>6, <1>7 DEF BuddyInv

LEMMA HandsOutStep ==
  ASSUME IInv, BuddyInv, NEW l \in Levels, mem_blocks[l] # <<>>, Take(l),
         pc = "scan" => l = curr_level
  PROVE  BuddyInv'
<1> DEFINE f == Head(mem_blocks[l])
<1>1. /\ f \in ToSet(mem_blocks[l])
      /\ ToSet(Tail(mem_blocks[l])) = ToSet(mem_blocks[l]) \ {f}
  BY ListFacts, TailFacts
<1>2. /\ mem_blocks'[l] = Tail(mem_blocks[l])
      /\ \A k \in Levels : k # l => mem_blocks'[k] = mem_blocks[k]
      /\ UNCHANGED <<highest_level, regions>> /\ pc' = "idle"
  BY DEF Take, Return, IInv, TypeOK
<1>3. f \in DOMAIN hdr
  BY <1>1, ListFacts
<1>4. DOMAIN hdr' = DOMAIN hdr /\ \A a \in DOMAIN hdr : hdr'[a].level = hdr[a].level
  <2>1. hdr' = [hdr EXCEPT ![f].is_free = FALSE]
    BY DEF Take
  <2>2. \A a \in DOMAIN hdr : hdr[a] \in Header
    BY HeaderFacts
  <2> HIDE DEF f
  <2> QED BY <1>3, <2>1, <2>2 DEF Header
<1>5. OnePageOnly' /\ Aligned' /\ ScanOk'
  BY <1>2, <1>4 DEF BuddyInv, OnePageOnly, Aligned, ScanOk, BeforeGrowth
<1>6. Coalesced'
  <2> SUFFICES ASSUME BeforeGrowth, NEW k \in 0 .. PageLevel - 1,
                      NEW a \in ToSet(mem_blocks'[k]), NEW b \in ToSet(mem_blocks'[k])
               PROVE  b # Buddy(a, BlockSize[k])
    BY <1>2 DEF Coalesced, BeforeGrowth
  <2>1. k \in Levels
    BY LevelFacts
  <2>2. CASE k = l
    <3>1. /\ a \in ToSet(mem_blocks[k]) /\ b \in ToSet(mem_blocks[k])
          /\ Head(mem_blocks[k]) \notin {a, b}
      BY <1>1, <1>2, <2>2
    <3> QED BY <3>1, NoBuddiesListed
  <2>3. CASE k # l
    <3>1. a \in ToSet(mem_blocks[k]) /\ b \in ToSet(mem_blocks[k])
      BY <1>2, <2>1, <2>3
    <3>2. pc # "scan" \/ k # curr_level
      BY <2>3
    <3> QED BY <3>1, <3>2, NoBuddiesListed
  <2> QED BY <2>2, <2>3
<1> QED BY <1>5, <1>6 DEF BuddyInv

LEMMA TargetStep ==
  ASSUME IInv, BuddyInv, KmallocTarget
  PROVE  BuddyInv'
<1>1. PICK l \in Levels :
        \/ mem_blocks[l] # <<>> /\ Take(l)
        \/ /\ pc' = "scan" /\ target_level' = l /\ curr_level' = highest_level
           /\ UNCHANGED <<mem_blocks, highest_level, hdr, regions>>
  BY DEF KmallocTarget
<1>2. pc = "grow"
  BY DEF KmallocTarget
<1>3. CASE mem_blocks[l] # <<>> /\ Take(l)
  BY <1>2, <1>3, HandsOutStep
<1>4. CASE /\ pc' = "scan" /\ curr_level' = highest_level
           /\ UNCHANGED <<mem_blocks, highest_level, hdr, regions>>
  <2>1. highest_level \in Nat
    BY LevelFacts DEF IInv, TypeOK
  <2>2. ScanOk'
    <3>1. \A k \in Levels : ~(highest_level < k /\ k <= highest_level)
      BY <2>1, LevelFacts
    <3> QED BY <1>4, <2>1, <3>1 DEF ScanOk
  <2>3. OnePageOnly' /\ Aligned'
    BY <1>4 DEF BuddyInv, OnePageOnly, Aligned, BeforeGrowth
  <2>4. Coalesced'
    <3> SUFFICES ASSUME BeforeGrowth, NEW k \in 0 .. PageLevel - 1,
                        NEW a \in ToSet(mem_blocks[k]), NEW b \in ToSet(mem_blocks[k])
                 PROVE  b # Buddy(a, BlockSize[k])
      BY <1>4 DEF Coalesced, BeforeGrowth
    <3> QED BY <1>2, NoBuddiesListed
  <2> QED BY <2>2, <2>3, <2>4 DEF BuddyInv
<1> QED BY <1>1, <1>3, <1>4

\* The search passes an empty list.
LEMMA SkipStep ==
  ASSUME IInv, BuddyInv, KmallocSkip
  PROVE  BuddyInv'
<1>1. /\ pc = "scan" /\ pc' = "scan" /\ curr_level >= target_level
      /\ mem_blocks[curr_level] = <<>> /\ curr_level' = curr_level - 1
      /\ UNCHANGED <<mem_blocks, highest_level, hdr, regions, target_level>>
  BY DEF KmallocSkip
<1>2. curr_level \in Int /\ highest_level \in Int /\ Levels \subseteq Int
  BY LevelFacts DEF IInv, TypeOK
<1>3. OnePageOnly' /\ Aligned'
  BY <1>1 DEF BuddyInv, OnePageOnly, Aligned, BeforeGrowth
<1>4. ScanOk'
  <2>1. /\ curr_level <= highest_level
        /\ \A l \in Levels : curr_level < l /\ l <= highest_level => mem_blocks[l] = <<>>
    BY <1>1 DEF BuddyInv, ScanOk
  <2>2. curr_level - 1 <= highest_level
    BY <1>2, <2>1
  <2>3. \A l \in Levels : curr_level - 1 < l => l = curr_level \/ curr_level < l
    BY <1>2
  <2>4. \A l \in Levels : curr_level - 1 < l /\ l <= highest_level => mem_blocks[l] = <<>>
    BY <1>1, <2>1, <2>3
  <2> QED BY <1>1, <2>2, <2>4 DEF ScanOk
<1>5. Coalesced'
  <2> SUFFICES ASSUME BeforeGrowth, NEW k \in 0 .. PageLevel - 1,
                      NEW a \in ToSet(mem_blocks[k]), NEW b \in ToSet(mem_blocks[k])
               PROVE  b # Buddy(a, BlockSize[k])
    BY <1>1 DEF Coalesced, BeforeGrowth
  <2>1. k # curr_level
    BY <1>1 DEF ToSet
  <2> QED BY <2>1, NoBuddiesListed
<1> QED BY <1>3, <1>4, <1>5 DEF BuddyInv

LEMMA ExhaustedStep ==
  ASSUME IInv, BuddyInv, KmallocExhausted
  PROVE  BuddyInv'
<1>1. /\ pc' = "idle" /\ curr_level < target_level
      /\ UNCHANGED <<mem_blocks, highest_level, hdr, regions>>
  BY DEF KmallocExhausted, Return
<1>2. OnePageOnly' /\ Aligned' /\ ScanOk'
  BY <1>1 DEF BuddyInv, OnePageOnly, Aligned, ScanOk, BeforeGrowth
<1>3. Coalesced'
  <2> SUFFICES ASSUME BeforeGrowth, NEW k \in 0 .. PageLevel - 1,
                      NEW a \in ToSet(mem_blocks[k]), NEW b \in ToSet(mem_blocks[k])
               PROVE  b # Buddy(a, BlockSize[k])
    BY <1>1 DEF Coalesced, BeforeGrowth
  <2> QED BY <1>1, NoBuddiesListed
<1> QED BY <1>2, <1>3 DEF BuddyInv

LEMMA TwoInFront ==
  ASSUME NEW s \in Seq(Nat), NEW x \in Nat, NEW y \in Nat
  PROVE  /\ <<x, y>> \o s # <<>> /\ Head(<<x, y>> \o s) = x
         /\ \A z \in ToSet(<<x, y>> \o s) : z \in {x, y} \cup ToSet(s)
<1> DEFINE r == <<x, y>> \o s
<1>1. /\ r \in Seq(Nat) /\ Len(r) = Len(s) + 2 /\ r[1] = x /\ r[2] = y
      /\ \A i \in 1 .. Len(r) : i > 2 => r[i] = s[i - 2] /\ i - 2 \in 1 .. Len(s)
  OBVIOUS
<1>2. r # <<>> /\ Head(r) = x
  BY <1>1
<1>3. ASSUME NEW i \in 1 .. Len(r)
      PROVE  r[i] \in {x, y} \cup ToSet(s)
  <2>1. i = 1 \/ i = 2 \/ i > 2
    BY <1>1
  <2> HIDE DEF r
  <2>2. i > 2 => r[i] \in ToSet(s)
    <3>1. DOMAIN s = 1 .. Len(s)
      OBVIOUS
    <3> QED BY <1>1, <3>1 DEF ToSet
  <2> QED BY <1>1, <2>1, <2>2
<1> HIDE DEF r
<1>4. \A z \in ToSet(r) : z \in {x, y} \cup ToSet(s)
  BY <1>1, <1>3 DEF ToSet
<1> QED BY <1>2, <1>4 DEF r

\* The search splits a block, and stands at the list of its halves.
LEMMA SplitStep ==
  ASSUME IInv, BuddyInv, KmallocSplit
  PROVE  BuddyInv'
<1> DEFINE l == curr_level
           h == curr_level - 1
           b1 == Head(mem_blocks[l])
           b2 == b1 + BlockSize[l] \div 2
<1>1. /\ l \in Levels /\ h \in Levels /\ l # h /\ l \in Nat /\ h \in Nat
      /\ BlockSize[l] = 2 * BlockSize[h] /\ BlockSize[h] \in Nat \ {0}
  <2>1. l \in Levels /\ l \in Nat /\ l > 0 /\ h \in Nat
    BY LevelFacts DEF IInv, TypeOK, KmallocSplit
  <2>2. h \in Levels
    BY <2>1, LevelFacts
  <2>3. BlockSize[l] = 2 * BlockSize[h] /\ BlockSize[h] \in Nat /\ BlockSize[h] > 0
    BY <2>1, <2>2, LevelFacts
  <2> QED BY <2>1, <2>2, <2>3
<1>2. /\ b1 \in ToSet(mem_blocks[l]) /\ mem_blocks[l] # <<>>
      /\ ToSet(Tail(mem_blocks[l])) = ToSet(mem_blocks[l]) \ {b1}
  BY <1>1, ListFacts, TailFacts DEF KmallocSplit
<1>3. b1 \in DOMAIN hdr /\ hdr[b1].level = l /\ b1 \in Nat
  BY <1>1, <1>2, ListFacts, HeaderFacts
<1>4. b2 = b1 + BlockSize[h] /\ b2 \in Nat /\ b1 < b2 /\ b2 < b1 + BlockSize[l]
  BY <1>1, <1>3
<1>5. b2 \notin DOMAIN hdr
  <2>1. \A c \in DOMAIN hdr : b1 < c => b1 + BlockSize[l] <= c
    BY <1>3 DEF IInv, Memory, BlocksApart
  <2>2. ~(b1 + BlockSize[l] <= b2)
    BY <1>1, <1>3, <1>4
  <2> QED BY <1>4, <2>1, <2>2
<1>6. /\ mem_blocks' = [mem_blocks EXCEPT ![l] = Tail(@), ![h] = <<b2, b1>> \o @]
      /\ hdr' = WriteHeader(WriteHeader(hdr, b1, h, TRUE), b2, h, TRUE)
      /\ curr_level' = h /\ pc = "scan" /\ pc' = "scan" /\ curr_level > target_level
      /\ UNCHANGED <<highest_level, regions, target_level>>
  BY DEF KmallocSplit
<1> HIDE DEF l, h, b1, b2
<1>7. /\ DOMAIN hdr' = DOMAIN hdr \cup {b2} /\ hdr'[b1].level = h /\ hdr'[b2].level = h
      /\ \A a \in DOMAIN hdr : a # b1 => hdr'[a] = hdr[a]
  BY <1>3, <1>4, <1>5, <1>6 DEF WriteHeader
<1>8. /\ mem_blocks'[l] = Tail(mem_blocks[l])
      /\ mem_blocks'[h] = <<b2, b1>> \o mem_blocks[h]
      /\ \A k \in Levels : k # l /\ k # h => mem_blocks'[k] = mem_blocks[k]
  BY <1>1, <1>6 DEF IInv, TypeOK
<1>9. /\ mem_blocks'[h] # <<>> /\ Head(mem_blocks'[h]) = b2
      /\ \A z \in ToSet(mem_blocks'[h]) : z \in {b1, b2} \cup ToSet(mem_blocks[h])
  BY <1>1, <1>3, <1>4, <1>8, ListFacts, TwoInFront
<1>10. h >= target_level /\ h <= highest_level
  <2>1. target_level \in Nat /\ highest_level \in Nat /\ l > target_level /\ l <= highest_level
    BY <1>6, LevelFacts DEF IInv, TypeOK, BuddyInv, ScanOk, l
  <2> QED BY <1>1, <2>1 DEF h, l
<1>11. BeforeGrowth => /\ b1 % (2 * BlockSize[h]) = 0 /\ b1 % BlockSize[h] = 0
                       /\ b2 % BlockSize[h] = 0 /\ Buddy(b1, BlockSize[h]) = b2
  <2> SUFFICES ASSUME BeforeGrowth
               PROVE  /\ b1 % (2 * BlockSize[h]) = 0 /\ b1 % BlockSize[h] = 0
                      /\ b2 % BlockSize[h] = 0 /\ Buddy(b1, BlockSize[h]) = b2
    OBVIOUS
  <2>1. b1 % (2 * BlockSize[h]) = 0
    BY <1>1, <1>3 DEF BuddyInv, Aligned
  <2>2. b1 % BlockSize[h] = 0 /\ (b1 + BlockSize[h]) % BlockSize[h] = 0
    BY <1>1, <1>3, <2>1, NextHalf
  <2> QED BY <1>1, <1>3, <1>4, <2>1, <2>2, BuddyFacts
<1>12. OnePageOnly'
  BY <1>6 DEF BuddyInv, OnePageOnly, BeforeGrowth
<1>13. Aligned'
  <2> SUFFICES ASSUME BeforeGrowth, NEW a \in DOMAIN hdr'
               PROVE  a % BlockSize[hdr'[a].level] = 0
    BY <1>6 DEF Aligned, BeforeGrowth
  <2>1. a = b1 \/ a = b2 \/ (a \in DOMAIN hdr /\ a # b1)
    BY <1>7
  <2> QED BY <1>7, <1>11, <2>1 DEF BuddyInv, Aligned
<1>14. ScanOk'
  BY <1>6, <1>9, <1>10 DEF ScanOk
<1>15. Coalesced'
  <2> SUFFICES ASSUME BeforeGrowth, NEW k \in 0 .. PageLevel - 1,
                      NEW a \in ToSet(mem_blocks'[k]), NEW b \in ToSet(mem_blocks'[k]),
                      b = Buddy(a, BlockSize[k])
               PROVE  k = h /\ b2 \in {a, b}
    BY <1>6, <1>9, <1>10 DEF Coalesced, Splitting, BeforeGrowth
  <2>1. k \in Levels
    BY LevelFacts
  <2>2. CASE k # l /\ k # h
    <3>1. a \in ToSet(mem_blocks[k]) /\ b \in ToSet(mem_blocks[k]) /\ k # curr_level
      BY <1>8, <2>1, <2>2 DEF l
    <3> QED BY <3>1, NoBuddiesListed
  <2>3. CASE k = l
    <3>1. /\ a \in ToSet(mem_blocks[k]) /\ b \in ToSet(mem_blocks[k])
          /\ Head(mem_blocks[k]) \notin {a, b}
      BY <1>2, <1>8, <2>3 DEF b1
    <3> QED BY <3>1, NoBuddiesListed
  <2>4. CASE k = h
    <3> SUFFICES ASSUME b2 \notin {a, b} PROVE FALSE
      BY <2>4
    <3>1. a \in {b1} \cup ToSet(mem_blocks[h]) /\ b \in {b1} \cup ToSet(mem_blocks[h])
      BY <1>9, <2>4
    <3>2. \A c \in ToSet(mem_blocks[h]) : c \in DOMAIN hdr /\ hdr[c].level = h /\ c \in Nat
      BY <1>1, ListFacts, HeaderFacts
    <3>3. a # b1
      BY <1>11, <2>4
    <3>4. a \in ToSet(mem_blocks[h])
      BY <3>1, <3>3
    <3>5. a \in Nat /\ a % BlockSize[h] = 0
      BY <3>2, <3>4 DEF BuddyInv, Aligned
    <3>6. Buddy(b, BlockSize[h]) = a
      BY <1>1, <2>4, <3>5, BuddyFacts
    <3>7. b # b1
      BY <1>5, <1>11, <3>2, <3>4, <3>6
    <3>8. b \in ToSet(mem_blocks[h]) /\ h # curr_level
      BY <1>1, <3>1, <3>7 DEF l
    <3> QED BY <2>4, <3>4, <3>8, NoBuddiesListed
  <2> QED BY <2>2, <2>3, <2>4
<1> QED BY <1>12, <1>13, <1>14, <1>15 DEF BuddyInv

\* kfree enters its merge loop.
LEMMA FreesStep ==
  ASSUME IInv, BuddyInv, NEW a \in DOMAIN owned, Kfree(a)
  PROVE  BuddyInv'
<1>1. /\ hdr' = [hdr EXCEPT ![a].is_free = TRUE] /\ pc = "idle" /\ pc' = "merge"
      /\ UNCHANGED <<mem_blocks, highest_level, regions>>
  BY DEF Kfree
<1>2. DOMAIN hdr' = DOMAIN hdr /\ \A x \in DOMAIN hdr : hdr'[x].level = hdr[x].level
  <2>1. a \in DOMAIN hdr /\ \A x \in DOMAIN hdr : hdr[x] \in Header
    BY HeaderFacts DEF IInv, Memory, OwnedOk
  <2> QED BY <1>1, <2>1 DEF Header
<1> QED BY <1>1, <1>2, OutsideSearch

\* kfree puts a block on its list, where its buddy is not.
LEMMA InsertStep ==
  ASSUME IInv, BuddyInv, KfreeInsert
  PROVE  BuddyInv'
<1> DEFINE l == hdr[block].level
<1>1. /\ block \in DOMAIN hdr /\ block \in Nat /\ l \in Levels
      /\ block \notin ToSet(mem_blocks[l])
  BY HeaderFacts DEF IInv, MergingOk, Merging, KfreeInsert, IsListed
<1>2. /\ pc = "merge" /\ pc' = "idle" /\ UNCHANGED <<highest_level, hdr, regions>>
      /\ mem_blocks' = [mem_blocks EXCEPT ![l] = <<block>> \o @]
      /\ ~BelowHighest \/ \E x \in HeaderAt(BuddyOfBlock) : ~IsMergeable(x)
  BY DEF KfreeInsert, Return, Cons
<1>3. ToSet(<<block>> \o mem_blocks[l]) = ToSet(mem_blocks[l]) \cup {block}
  BY <1>1, ListFacts, ConsFacts
<1>4. OnePageOnly' /\ Aligned' /\ ScanOk'
  BY <1>2 DEF BuddyInv, OnePageOnly, Aligned, ScanOk, BeforeGrowth
<1>5. BeforeGrowth /\ l < PageLevel => Buddy(block, BlockSize[l]) \notin ToSet(mem_blocks[l])
  BY <1>2, InsertsAlone DEF BelowHighest, BeforeGrowth, BuddyIsListed, BuddyOfBlock
<1>6. BeforeGrowth => block % BlockSize[l] = 0
  BY <1>1 DEF BuddyInv, Aligned
<1> HIDE DEF l
<1>7. /\ mem_blocks'[l] = <<block>> \o mem_blocks[l]
      /\ \A k \in Levels : k # l => mem_blocks'[k] = mem_blocks[k]
  BY <1>1, <1>2 DEF IInv, TypeOK
<1>8. Coalesced'
  <2> SUFFICES ASSUME BeforeGrowth, NEW k \in 0 .. PageLevel - 1,
                      NEW a \in ToSet(mem_blocks'[k]), NEW b \in ToSet(mem_blocks'[k]),
                      b = Buddy(a, BlockSize[k])
               PROVE  FALSE
    BY <1>2 DEF Coalesced, BeforeGrowth
  <2>1. k \in Levels /\ k < PageLevel /\ pc # "scan"
    BY <1>2, LevelFacts
  <2>2. ~(a \in ToSet(mem_blocks[k]) /\ b \in ToSet(mem_blocks[k]))
    BY <2>1, NoBuddiesListed
  <2>3. k = l
    BY <1>7, <2>1, <2>2
  <2>4. a \in ToSet(mem_blocks[l]) \cup {block} /\ b \in ToSet(mem_blocks[l]) \cup {block}
    BY <1>3, <1>7, <2>3
  <2>5. BlockSize[l] \in Nat \ {0}
    BY <1>1, LevelFacts
  <2>6. CASE a = block
    <3>1. b # block
      BY <1>1, <1>6, <2>3, <2>5, <2>6, BuddyFacts
    <3> QED BY <1>5, <2>1, <2>3, <2>4, <2>6, <3>1
  <2>7. CASE a # block
    <3>1. a \in ToSet(mem_blocks[l]) /\ b = block
      BY <2>2, <2>3, <2>4, <2>7
    <3>2. a \in Nat /\ a % BlockSize[l] = 0
      <4>1. a \in DOMAIN hdr /\ hdr[a].level = l
        BY <1>1, <3>1, ListFacts
      <4>2. a % BlockSize[hdr[a].level] = 0
        BY <4>1 DEF BuddyInv, Aligned
      <4> QED BY <4>1, <4>2, HeaderFacts
    <3>3. Buddy(Buddy(a, BlockSize[l]), BlockSize[l]) = a
      BY <2>5, <3>2, BuddyFacts
    <3>4. Buddy(a, BlockSize[l]) = block
      BY <2>3, <3>1
    <3>5. Buddy(block, BlockSize[l]) = a
      BY <3>3, <3>4
    <3> QED BY <1>5, <2>1, <2>3, <3>1, <3>5
  <2> QED BY <2>6, <2>7
<1> QED BY <1>4, <1>8 DEF BuddyInv

\* One iteration of the merge loop.
LEMMA MergeStep ==
  ASSUME IInv, BuddyInv, KfreeMerge
  PROVE  BuddyInv'
<1> DEFINE l == hdr[block].level
           buddy == BuddyOfBlock
           low == LowerOf(block, buddy)
           high == block + buddy - low
<1>1. /\ block \in DOMAIN hdr /\ block \in Nat /\ l \in Levels /\ l \in Nat
      /\ l < highest_level /\ l + 1 \in Levels /\ BlockSize[l + 1] = 2 * BlockSize[l]
      /\ BlockSize[l] \in Nat \ {0}
  <2>1. block \in DOMAIN hdr /\ block \in Nat /\ l \in Levels
    BY HeaderFacts DEF IInv, MergingOk, Merging, KfreeMerge, MergeGoesOn
  <2>2. l \in Nat /\ highest_level \in Nat /\ highest_level \in Levels /\ l < highest_level
    BY <2>1, LevelFacts DEF IInv, TypeOK, KfreeMerge, MergeGoesOn, BelowHighest
  <2>3. l + 1 \in Nat /\ l + 1 <= highest_level
    BY <2>2
  <2>4. l + 1 \in Levels
    BY <2>2, <2>3, LevelFacts
  <2>5. BlockSize[l + 1] = 2 * BlockSize[l] /\ BlockSize[l] \in Nat \ {0}
    BY <2>1, <2>4, SizeAssumption
  <2> QED BY <2>1, <2>2, <2>4, <2>5
<1>2. buddy \in DOMAIN hdr /\ buddy \in Nat
  BY <1>1, ListFacts, HeaderFacts DEF KfreeMerge, BuddyIsListed
<1>3. PICK i \in DOMAIN mem_blocks[l] :
        /\ IsFirst(mem_blocks[l], i, buddy)
        /\ mem_blocks' = [mem_blocks EXCEPT ![l] = RemoveAt(@, i)]
  BY DEF KfreeMerge
<1>4. /\ hdr' = [x \in DOMAIN hdr \ {high} |->
                   IF x = low THEN [level |-> l + 1, is_free |-> TRUE] ELSE hdr[x]]
      /\ UNCHANGED <<highest_level, regions>> /\ pc = "merge" /\ pc' = "merge"
  BY DEF KfreeMerge, MergeGoesOn
<1>5. ToSet(RemoveAt(mem_blocks[l], i)) \subseteq ToSet(mem_blocks[l])
  BY <1>1, ListFacts, RemoveAtFacts
<1>6. BeforeGrowth => low % (2 * BlockSize[l]) = 0
  <2> SUFFICES ASSUME BeforeGrowth PROVE low % (2 * BlockSize[l]) = 0
    OBVIOUS
  <2>1. block % BlockSize[l] = 0
    BY <1>1 DEF BuddyInv, Aligned
  <2>2. buddy = Buddy(block, BlockSize[l])
    BY DEF BuddyOfBlock
  <2> QED BY <1>1, <2>1, <2>2, BuddyFacts
<1> HIDE DEF l, buddy, low, high
<1>7. OnePageOnly' /\ ScanOk'
  BY <1>4 DEF BuddyInv, OnePageOnly, ScanOk, BeforeGrowth
<1>8. Aligned'
  <2> SUFFICES ASSUME BeforeGrowth, NEW a \in DOMAIN hdr'
               PROVE  a % BlockSize[hdr'[a].level] = 0
    BY <1>4 DEF Aligned, BeforeGrowth
  <2>1. CASE a = low
    <3>1. hdr'[a].level = l + 1
      BY <1>4, <2>1
    <3> QED BY <1>1, <1>6, <2>1, <3>1
  <2>2. CASE a # low
    <3>1. a \in DOMAIN hdr /\ hdr'[a] = hdr[a]
      BY <1>4, <2>2
    <3> QED BY <3>1 DEF BuddyInv, Aligned
  <2> QED BY <2>1, <2>2
<1>9. Coalesced'
  <2>1. \A k \in Levels : ToSet(mem_blocks'[k]) \subseteq ToSet(mem_blocks[k])
    BY <1>1, <1>3, <1>5 DEF IInv, TypeOK
  <2> SUFFICES ASSUME BeforeGrowth, NEW k \in 0 .. PageLevel - 1,
                      NEW a \in ToSet(mem_blocks'[k]), NEW b \in ToSet(mem_blocks'[k])
               PROVE  b # Buddy(a, BlockSize[k])
    BY <1>4 DEF Coalesced, BeforeGrowth
  <2>2. k \in Levels
    BY LevelFacts
  <2>3. a \in ToSet(mem_blocks[k]) /\ b \in ToSet(mem_blocks[k])
    BY <2>1, <2>2
  <2> QED BY <1>4, <2>3, NoBuddiesListed
<1> QED BY <1>7, <1>8, <1>9 DEF BuddyInv

-----------------------------------------------------------------------------
(***************************************************************************)
(* The invariant and what follows from it                                  *)
(***************************************************************************)

LEMMA BuddyInit ==
  ASSUME Init
  PROVE  BuddyInv
<1>1. PageLevel \in Nat
  BY LevelFacts
<1>2. \A l \in 0 .. PageLevel - 1 : mem_blocks[l] = <<>>
  <2>1. \A l \in 0 .. PageLevel - 1 : l \in Levels
    BY <1>1, LevelFacts
  <2> QED BY <2>1 DEF Init
<1>3. OnePageOnly /\ Aligned /\ ScanOk
  BY <1>1 DEF Init, OnePageOnly, Aligned, ScanOk
<1>4. Coalesced
  BY <1>2 DEF Coalesced, ToSet
<1> QED BY <1>3, <1>4 DEF BuddyInv

LEMMA NextKeepsBuddies ==
  ASSUME IInv, BuddyInv, [Next]_vars
  PROVE  BuddyInv'
<1>1. CASE KallocInitFails \/ KmallocTooLarge \/ KfreeMergeForeign
  <2>1. /\ UNCHANGED <<mem_blocks, highest_level, hdr, regions>>
        /\ pc # "scan" /\ pc' # "scan"
    BY <1>1 DEF KallocInitFails, KmallocTooLarge, KfreeMergeForeign, MergeGoesOn, Return
  <2> QED BY <2>1, OutsideSearch
<1>2. CASE KmallocFound
  <2>1. pc = "scan" /\ mem_blocks[curr_level] # <<>> /\ Take(curr_level)
        /\ curr_level = target_level
    BY <1>2 DEF KmallocFound
  <2>2. curr_level \in Levels
    BY <2>1 DEF IInv, TypeOK
  <2> QED BY <2>1, <2>2, HandsOutStep
<1>3. CASE \E n \in Requests : Kmalloc(n)
  <2>1. /\ UNCHANGED <<mem_blocks, highest_level, hdr, regions>>
        /\ pc # "scan" /\ pc' # "scan"
    BY <1>3 DEF Kmalloc
  <2> QED BY <2>1, OutsideSearch
<1>4. CASE \E a \in DOMAIN owned : Kfree(a)
  BY <1>4, FreesStep
<1>5. CASE UNCHANGED vars
  <2>1. UNCHANGED <<mem_blocks, highest_level, hdr, regions, pc, target_level, curr_level>>
    BY <1>5 DEF vars, locals
  <2> QED BY <2>1 DEF BuddyInv, OnePageOnly, Aligned, ScanOk, Coalesced, Splitting, BeforeGrowth
<1>6. CASE KallocInit \/ KmallocGrow \/ KmallocGrowFails \/ KmallocTarget \/ KmallocSkip
           \/ KmallocSplit \/ KmallocExhausted \/ KfreeMerge \/ KfreeInsert
  BY <1>6, FirstPageStep, GrowthStep, TargetStep, SkipStep, SplitStep, ExhaustedStep,
     MergeStep, InsertStep
<1> QED BY <1>1, <1>2, <1>3, <1>4, <1>5, <1>6 DEF Next, Step

LEMMA BuddiesHold == Spec => [](HeapInv /\ BuddyInv)
<1>1. Init => BuddyInv
  BY BuddyInit
<1>2. HeapInv /\ HeapInv' /\ BuddyInv /\ [Next]_vars => BuddyInv'
  <2> SUFFICES ASSUME HeapInv, HeapInv', BuddyInv, [Next]_vars PROVE BuddyInv'
    OBVIOUS
  <2>1. CASE shared'
    <3>1. highest_level' > PageLevel /\ pc' # "scan" /\ highest_level' >= PageLevel
      BY <2>1 DEF HeapInv, SharedOk
    <3>2. ~BeforeGrowth'
      <4>1. highest_level' \in Nat /\ PageLevel \in Nat
        BY LevelFacts DEF HeapInv, TypeOK
      <4> QED BY <3>1, <4>1 DEF BeforeGrowth
    <3> QED BY <3>1, <3>2 DEF BuddyInv, OnePageOnly, Aligned, ScanOk, Coalesced
  <2>2. CASE ~shared'
    <3>1. ~shared
      BY <2>2, SharedStep
    <3> QED BY <3>1, NextKeepsBuddies DEF HeapInv
  <2> QED BY <2>1, <2>2
<1> QED BY <1>1, <1>2, HeapInvHolds, PTL DEF Spec

(***************************************************************************)
(* Until a growth is tried, what kfree merges with is a free block of the  *)
(* list it unlinks it from: the exclusive or of mem.c:123 always names a   *)
(* block, whatever the sizes and the order of the calls (mem.c:120-146).   *)
(***************************************************************************)
THEOREM BuddiesAreListed == Spec => []MergesListedBuddyBeforeGrowth
<1>1. HeapInv /\ BuddyInv => MergesListedBuddyBeforeGrowth
  <2> SUFFICES ASSUME HeapInv, BuddyInv, BeforeGrowth, MergeGoesOn PROVE BuddyIsListed
    BY DEF MergesListedBuddyBeforeGrowth, MergesListedBuddy
  <2>1. IInv
    BY DEF HeapInv, SharedOk, MergeGoesOn
  <2> QED BY <2>1, MergesListed
<1> QED BY <1>1, BuddiesHold, PTL

(***************************************************************************)
(* Between calls no two buddies of the first page are both free, although  *)
(* the search makes such pairs (mem.c:92-105) and kfree looks at one buddy *)
(* at a time (mem.c:120-150).                                              *)
(***************************************************************************)
THEOREM PageIsCoalesced == Spec => []FullyCoalesced
<1>1. HeapInv /\ BuddyInv => FullyCoalesced
  <2> SUFFICES ASSUME HeapInv, BuddyInv, BeforeGrowth, pc = "idle",
                      NEW l \in 0 .. PageLevel - 1,
                      NEW a \in ToSet(mem_blocks[l]), NEW b \in ToSet(mem_blocks[l])
               PROVE  b # Buddy(a, BlockSize[l])
    BY DEF FullyCoalesced
  <2>1. IInv
    <3>1. highest_level = PageLevel /\ PageLevel \in Nat
      BY LevelFacts DEF BeforeGrowth
    <3> QED BY <3>1 DEF HeapInv, SharedOk
  <2> QED BY <2>1, NoBuddiesListed
<1> QED BY <1>1, BuddiesHold, PTL

(***************************************************************************)
(* A search that returns NULL has found every list from the target level   *)
(* to the highest empty, also after a split on the way (mem.c:76-108).     *)
(***************************************************************************)
THEOREM NullMeansNothingFits == Spec => NullMeansNoFit
<1> DEFINE NoneFits == pc = "scan" /\ pc' = "idle" /\ owned' = owned =>
                         \A l \in target_level .. highest_level : mem_blocks[l] = <<>>
<1>1. HeapInv /\ BuddyInv /\ [Next]_vars => [NoneFits]_vars
  <2> SUFFICES ASSUME HeapInv, BuddyInv, [Next]_vars, pc = "scan", pc' = "idle", owned' = owned
               PROVE  \A l \in target_level .. highest_level : mem_blocks[l] = <<>>
    OBVIOUS
  <2> IInv
    BY DEF HeapInv, SharedOk
  <2>1. KmallocFound \/ KmallocExhausted
    BY DEF Next, Step, vars, KallocInit, KallocInitFails, KmallocGrow, KmallocGrowFails,
           KmallocTooLarge, KmallocTarget, KmallocSkip, KmallocSplit, KfreeMerge,
           KfreeMergeForeign, KfreeInsert, Kmalloc, Kfree, MergeGoesOn
  <2>2. CASE KmallocFound
    <3>1. curr_level \in Levels /\ mem_blocks[curr_level] # <<>> /\ Take(curr_level)
      BY <2>2 DEF KmallocFound, IInv, TypeOK
    <3>2. Head(mem_blocks[curr_level]) \in ToSet(mem_blocks[curr_level])
      BY <3>1, ListFacts, TailFacts
    <3>3. Head(mem_blocks[curr_level]) \notin DOMAIN owned
      BY <3>1, <3>2, ListFacts
    <3>4. Head(mem_blocks[curr_level]) \in DOMAIN owned'
      BY <3>1 DEF Take
    <3> QED BY <3>3, <3>4
  <2>3. CASE KmallocExhausted
    <3>1. curr_level < target_level /\ target_level \in Nat /\ curr_level \in Int
      BY <2>3, LevelFacts DEF KmallocExhausted, IInv, TypeOK
    <3>2. \A l \in Levels : curr_level < l /\ l <= highest_level => mem_blocks[l] = <<>>
      BY <3>1 DEF BuddyInv, ScanOk
    <3>3. \A l \in target_level .. highest_level : l \in Levels /\ curr_level < l /\ l <= highest_level
      <4>1. highest_level \in Levels /\ Levels \subseteq Nat
        BY LevelFacts DEF IInv, TypeOK
      <4> QED BY <3>1, <4>1, LevelFacts
    <3> QED BY <3>2, <3>3
  <2> QED BY <2>1, <2>2, <2>3
<1> QED BY <1>1, BuddiesHold, PTL DEF Spec, NullMeansNoFit

-----------------------------------------------------------------------------
\* The level of a request.

\* A loop that is longer by a round.
LEMMA Pow2Facts ==
  /\ Pow2(0) = 1
  /\ \A n \in Nat : Pow2(n) \in Nat \ {0} /\ Pow2(n + 1) = 2 * Pow2(n)
<1>1. ASSUME NEW n \in Nat
      PROVE  \E f : /\ f[0] = 1 /\ Pow2(n) = f[n]
                    /\ \A i \in 0 .. n : f[i] \in Nat \ {0}
                    /\ \A i \in 0 .. n - 1 : f[i + 1] = 2 * f[i]
  <2> DEFINE step == [i \in 0 .. n - 1 |-> [p \in Nat |-> 2 * p]]
  <2>1. Pow2(n) = Loop(step, 1, n) /\ \A i \in 0 .. n - 1 : \A p \in Nat : step[i][p] = 2 * p
    BY DEF Pow2
  <2> HIDE DEF step
  <2>2. PICK f : /\ f[0] = 1 /\ Loop(step, 1, n) = f[n]
                 /\ \A i \in 0 .. n - 1 : f[i + 1] = step[i][f[i]]
    BY LoopSteps
  <2> DEFINE T == {i \in Nat : i <= n => f[i] \in Nat \ {0}}
  <2>3. 0 \in T
    BY <2>2
  <2>4. ASSUME NEW i \in T PROVE i + 1 \in T
    <3>1. i + 1 \in Nat /\ (i + 1 <= n => i \in 0 .. n - 1 /\ i <= n)
      OBVIOUS
    <3>2. i + 1 <= n => f[i] \in Nat \ {0} /\ f[i + 1] = 2 * f[i]
      BY <2>1, <2>2, <3>1
    <3> QED BY <3>1, <3>2
  <2>5. T = Nat
    <3>1. T \subseteq Nat
      OBVIOUS
    <3> HIDE DEF T
    <3> QED BY <2>3, <2>4, <3>1, NatSet
  <2>6. \A i \in 0 .. n : i \in T
    BY <2>5
  <2>7. \A i \in 0 .. n : f[i] \in Nat \ {0}
    BY <2>6
  <2>8. \A i \in 0 .. n - 1 : f[i + 1] = 2 * f[i]
    <3>1. \A i \in 0 .. n - 1 : i \in 0 .. n
      OBVIOUS
    <3> QED BY <2>1, <2>2, <2>7, <3>1
  <2> QED BY <2>1, <2>2, <2>7, <2>8
<1>2. Pow2(0) = 1
  BY <1>1
<1>3. ASSUME NEW n \in Nat
      PROVE  Pow2(n) \in Nat \ {0} /\ Pow2(n + 1) = 2 * Pow2(n)
  <2>1. PICK f : /\ f[0] = 1 /\ Pow2(n) = f[n]
                 /\ \A i \in 0 .. n : f[i] \in Nat \ {0}
                 /\ \A i \in 0 .. n - 1 : f[i + 1] = 2 * f[i]
    BY <1>1
  <2>2. n + 1 \in Nat /\ n \in 0 .. n /\ n \in 0 .. (n + 1) - 1
    OBVIOUS
  <2>3. PICK g : /\ g[0] = 1 /\ Pow2(n + 1) = g[n + 1]
                 /\ \A i \in 0 .. (n + 1) - 1 : g[i + 1] = 2 * g[i]
    BY <1>1, <2>2
  <2> DEFINE T == {i \in Nat : i <= n => f[i] = g[i]}
  <2>4. 0 \in T
    BY <2>1, <2>3
  <2>5. ASSUME NEW i \in T PROVE i + 1 \in T
    <3>1. i + 1 \in Nat /\ (i + 1 <= n => i \in 0 .. n - 1 /\ i \in 0 .. (n + 1) - 1 /\ i <= n)
      OBVIOUS
    <3>2. i + 1 <= n => f[i + 1] = g[i + 1]
      BY <2>1, <2>3, <3>1
    <3> QED BY <3>1, <3>2
  <2>6. T = Nat
    <3>1. T \subseteq Nat
      OBVIOUS
    <3> HIDE DEF T
    <3> QED BY <2>4, <2>5, <3>1, NatSet
  <2>7. f[n] = g[n]
    <3>1. n \in T
      BY <2>6
    <3> QED BY <3>1
  <2> QED BY <2>1, <2>2, <2>3, <2>7
<1> QED BY <1>2, <1>3

LEMMA Pow2Grows ==
  ASSUME NEW m \in Nat, NEW n \in Nat, m < n
  PROVE  Pow2(m + 1) <= Pow2(n) /\ Pow2(m) < Pow2(n)
<1> DEFINE T == {k \in Nat : Pow2(m + 1) <= Pow2((m + 1) + k)}
<1>1. 0 \in T
  <2>1. (m + 1) + 0 = m + 1 /\ m + 1 \in Nat
    OBVIOUS
  <2>2. Pow2(m + 1) \in Nat
    BY <2>1, Pow2Facts
  <2> QED BY <2>1, <2>2
<1>2. ASSUME NEW k \in T PROVE k + 1 \in T
  <2>1. /\ k \in Nat /\ (m + 1) + (k + 1) = ((m + 1) + k) + 1
        /\ (m + 1) + k \in Nat /\ m + 1 \in Nat
    OBVIOUS
  <2>2. /\ Pow2(((m + 1) + k) + 1) = 2 * Pow2((m + 1) + k)
        /\ Pow2((m + 1) + k) \in Nat /\ Pow2(m + 1) \in Nat
    BY <2>1, Pow2Facts
  <2>3. Pow2(m + 1) <= Pow2((m + 1) + k)
    BY <1>2
  <2>4. Pow2(m + 1) <= Pow2((m + 1) + (k + 1))
    BY <2>1, <2>2, <2>3
  <2> QED BY <2>1, <2>4
<1>3. T = Nat
  <2>1. T \subseteq Nat
    OBVIOUS
  <2> HIDE DEF T
  <2> QED BY <1>1, <1>2, <2>1, NatSet
<1>4. n - (m + 1) \in Nat /\ (m + 1) + (n - (m + 1)) = n
  OBVIOUS
<1>5. Pow2(m + 1) <= Pow2(n)
  <2>1. n - (m + 1) \in T
    BY <1>3, <1>4
  <2> HIDE DEF T
  <2>2. Pow2(m + 1) <= Pow2((m + 1) + (n - (m + 1)))
    BY <2>1 DEF T
  <2> QED BY <1>4, <2>2
<1>6. Pow2(m + 1) = 2 * Pow2(m) /\ Pow2(m) \in Nat \ {0} /\ Pow2(n) \in Nat
  BY Pow2Facts
<1> QED BY <1>5, <1>6

\* The place of the highest bit.
LEMMA HighestBit ==
  ASSUME NEW k \in Nat
  PROVE  \A x \in Nat : x >= 1 /\ x < Pow2(k) =>
           \E m \in 0 .. k - 1 : Pow2(m) <= x /\ x < Pow2(m + 1)
<1> DEFINE P(j) == \A x \in Nat : x >= 1 /\ x < Pow2(j) =>
                     \E m \in 0 .. j - 1 : Pow2(m) <= x /\ x < Pow2(m + 1)
           T == {j \in Nat : P(j)}
<1>1. 0 \in T
  BY Pow2Facts
<1>2. ASSUME NEW j \in T PROVE j + 1 \in T
  <2>1. j \in Nat /\ j + 1 \in Nat /\ P(j)
    OBVIOUS
  <2>2. ASSUME NEW x \in Nat, x >= 1, x < Pow2(j + 1)
        PROVE  \E m \in 0 .. (j + 1) - 1 : Pow2(m) <= x /\ x < Pow2(m + 1)
    <3>1. CASE x < Pow2(j)
      <4>1. PICK m \in 0 .. j - 1 : Pow2(m) <= x /\ x < Pow2(m + 1)
        BY <2>1, <2>2, <3>1
      <4>2. m \in 0 .. (j + 1) - 1
        BY <2>1
      <4> QED BY <4>1, <4>2
    <3>2. CASE ~(x < Pow2(j))
      <4>1. Pow2(j) \in Nat /\ j \in 0 .. (j + 1) - 1
        BY <2>1, Pow2Facts
      <4>2. Pow2(j) <= x
        BY <3>2, <4>1
      <4> QED BY <2>2, <4>1, <4>2
    <3> QED BY <3>1, <3>2
  <2> HIDE DEF P
  <2> QED BY <2>1, <2>2 DEF P
<1>3. T = Nat
  <2>1. T \subseteq Nat
    OBVIOUS
  <2> HIDE DEF T
  <2> QED BY <1>1, <1>2, <2>1, NatSet
<1> QED BY <1>3

LEMMA WidthFacts ==
  /\ IntBits \in Nat \ {0} /\ WordBits \in Nat \ {0} /\ IntBits <= WordBits
  /\ \A b \in Int : b \in BitPositions <=> 0 <= b /\ b < WordBits
  /\ BitPositions \subseteq Nat
BY WidthsAssumption DEF BitPositions

\* The bits of a number, up to the highest.
LEMMA BitsUpTo ==
  ASSUME NEW m \in BitPositions, NEW x \in Nat, Pow2(m) <= x, x < Pow2(m + 1)
  PROVE  m \in ToWord(x) /\ ToWord(x) \subseteq 0 .. m
<1>1. m \in Nat /\ Pow2(m) \in Nat \ {0} /\ Pow2(m + 1) = 2 * Pow2(m)
  BY WidthFacts, Pow2Facts
<1>2. m \in ToWord(x)
  <2>1. x \div Pow2(m) = 1
    <3>1. \A p \in Nat \ {0} : p <= x /\ x < 2 * p => x \div p = 1
      <4> SUFFICES ASSUME NEW p \in Nat \ {0}, p <= x, x < 2 * p PROVE x \div p = 1
        OBVIOUS
      <4>1. x = 1 * p + (x - p) /\ x - p \in 0 .. p - 1
        OBVIOUS
      <4> QED BY <4>1
    <3> QED BY <1>1, <3>1
  <2> QED BY <2>1 DEF ToWord
<1>3. ASSUME NEW b \in ToWord(x) PROVE b \in 0 .. m
  <2>1. b \in Nat /\ Pow2(b) \in Nat \ {0} /\ (x \div Pow2(b)) % 2 = 1
    BY WidthFacts, Pow2Facts DEF ToWord
  <2>2. ASSUME b > m PROVE FALSE
    <3>1. Pow2(m + 1) <= Pow2(b)
      BY <1>1, <2>1, <2>2, Pow2Grows
    <3>2. x < Pow2(b)
      BY <1>1, <2>1, <3>1
    <3>3. x \div Pow2(b) = 0
      <4>1. \A p \in Nat \ {0} : x < p => x \div p = 0
        OBVIOUS
      <4> QED BY <2>1, <3>2, <4>1
    <3> QED BY <2>1, <3>3
  <2> QED BY <1>1, <2>1, <2>2
<1> QED BY <1>2, <1>3

\* Every round doubles the number of bits below the highest that are 1.
LEMMA SmearedIsFull ==
  ASSUME NEW m \in BitPositions, m < IntBits, NEW word, word \subseteq 0 .. m, m \in word
  PROVE  Smeared(word) = 0 .. m
<1> DEFINE n == Len(SmearShifts)
           step == [i \in 0 .. n - 1 |->
                      [w \in SUBSET BitPositions |-> w \cup ShiftRight(w, SmearShifts[i + 1])]]
           Reach(i) == IF i = 0 THEN 1 ELSE 2 * SmearShifts[i]
<1>1. /\ n \in Nat \ {0} /\ m \in Nat /\ 0 .. m \subseteq BitPositions
      /\ \A i \in 1 .. n : SmearShifts[i] \in Nat \ {0}
  BY WidthFacts, WidthsAssumption
<1>2. \A i \in 0 .. n - 1 : SmearShifts[i + 1] = Reach(i)
  <2>1. SmearShifts[0 + 1] = 1
    BY WidthsAssumption
  <2>2. \A i \in 1 .. n - 1 : SmearShifts[i + 1] = 2 * SmearShifts[i]
    BY WidthsAssumption
  <2>3. \A i \in 0 .. n - 1 : i = 0 \/ i \in 1 .. n - 1
    BY <1>1
  <2> QED BY <2>1, <2>2, <2>3
<1>3. Smeared(word) = Loop(step, word, n)
  BY DEF Smeared
<1>4. \A i \in 0 .. n - 1 : \A w \in SUBSET BitPositions :
        step[i][w] = w \cup ShiftRight(w, SmearShifts[i + 1])
  OBVIOUS
<1> HIDE DEF step
<1>5. PICK f : /\ f[0] = word /\ Loop(step, word, n) = f[n]
               /\ \A i \in 0 .. n - 1 : f[i + 1] = step[i][f[i]]
  BY <1>1, LoopSteps
<1> DEFINE Full(w, c) == w \subseteq 0 .. m /\ \A b \in 0 .. m : b > m - c => b \in w
           T == {i \in Nat : i <= n => Full(f[i], Reach(i))}
<1>6. 0 \in T
  <2>1. \A b \in 0 .. m : b > m - 1 => b = m
    BY <1>1
  <2> QED BY <1>5, <2>1
<1>7. ASSUME NEW i \in T PROVE i + 1 \in T
  <2>1. i \in Nat /\ i + 1 \in Nat
    OBVIOUS
  <2> SUFFICES ASSUME i + 1 <= n PROVE Full(f[i + 1], Reach(i + 1))
    BY <2>1
  <2>2. i \in 0 .. n - 1 /\ i + 1 \in 1 .. n /\ i <= n
    BY <1>1, <2>1
  <2> DEFINE k == SmearShifts[i + 1]
             w == f[i]
  <2>3. /\ k \in Nat \ {0} /\ Reach(i) = k /\ Reach(i + 1) = 2 * k
    <3>1. i + 1 # 0
      BY <2>1
    <3> QED BY <1>1, <1>2, <2>2, <3>1
  <2>4. Full(w, k)
    BY <2>2, <2>3
  <2>5. f[i + 1] = w \cup ShiftRight(w, k)
    <3>1. w \in SUBSET BitPositions
      BY <1>1, <2>4
    <3> QED BY <1>4, <1>5, <2>2, <3>1
  <2> HIDE DEF k, w
  <2>6. f[i + 1] \subseteq 0 .. m
    <3>1. \A b \in ShiftRight(w, k) : b \in 0 .. m
      BY <1>1, <2>3, <2>4 DEF ShiftRight
    <3> QED BY <2>4, <2>5, <3>1
  <2>7. ASSUME NEW b \in 0 .. m, b > m - 2 * k PROVE b \in f[i + 1]
    <3>1. CASE b > m - k
      BY <2>4, <2>5, <3>1
    <3>2. CASE b <= m - k
      <4>1. b + k \in 0 .. m /\ b + k > m - k /\ b + k >= k /\ (b + k) - k = b
        BY <1>1, <2>3, <2>7, <3>2
      <4>2. b + k \in w
        BY <2>4, <4>1
      <4>3. b \in ShiftRight(w, k)
        BY <4>1, <4>2 DEF ShiftRight
      <4> QED BY <2>5, <4>3
    <3> QED BY <1>1, <2>3, <3>1, <3>2
  <2> HIDE DEF Reach
  <2> QED BY <2>3, <2>6, <2>7
<1>8. T = Nat
  <2>1. T \subseteq Nat
    OBVIOUS
  <2> HIDE DEF T
  <2> QED BY <1>6, <1>7, <2>1, NatSet
<1>9. Full(f[n], Reach(n))
  <2>1. n \in T
    BY <1>1, <1>8
  <2> HIDE DEF n, Full, Reach
  <2> QED BY <1>1, <2>1
<1>10. Reach(n) \in Nat /\ Reach(n) > m
  BY <1>1, WidthFacts, WidthsAssumption
<1>11. \A b \in 0 .. m : b > m - Reach(n)
  <2> HIDE DEF Reach, n
  <2> QED BY <1>1, <1>10
<1> HIDE DEF Reach, n
<1>12. f[n] = 0 .. m
  BY <1>9, <1>11
<1> QED BY <1>3, <1>5, <1>12

\* One less than the next power of two.
LEMMA NumberOfFull ==
  ASSUME NEW m \in BitPositions
  PROVE  ToNumber(0 .. m) = Pow2(m + 1) - 1
<1> DEFINE w == 0 .. m
           step == [b \in BitPositions |-> [n \in Nat |-> IF b \in w THEN n + Pow2(b) ELSE n]]
           Sum(i) == IF i <= m THEN Pow2(i) - 1 ELSE Pow2(m + 1) - 1
<1>1. /\ WordBits \in Nat /\ m \in Nat /\ m < WordBits /\ BitPositions = 0 .. WordBits - 1
      /\ \A n \in Nat : Pow2(n) \in Nat \ {0} /\ Pow2(n + 1) = 2 * Pow2(n)
  BY WidthFacts, Pow2Facts DEF BitPositions
<1>2. ToNumber(w) = Loop(step, 0, WordBits)
  BY DEF ToNumber
<1>3. \A b \in 0 .. WordBits - 1 : \A n \in Nat :
        step[b][n] = IF b \in w THEN n + Pow2(b) ELSE n
  BY <1>1
<1> HIDE DEF step
<1>4. PICK f : /\ f[0] = 0 /\ Loop(step, 0, WordBits) = f[WordBits]
               /\ \A i \in 0 .. WordBits - 1 : f[i + 1] = step[i][f[i]]
  <2>1. \A x : \E f : /\ f[0] = x /\ Loop(step, x, WordBits) = f[WordBits]
                     /\ \A i \in 0 .. WordBits - 1 : f[i + 1] = step[i][f[i]]
    <3>1. WordBits \in Nat
      BY <1>1
    <3> QED BY <3>1, LoopSteps
  <2> QED BY <2>1
<1> DEFINE T == {i \in Nat : i <= WordBits => f[i] = Sum(i)}
<1>5. 0 \in T
  <2>1. Pow2(0) - 1 = 0 /\ 0 <= m
    BY <1>1, Pow2Facts
  <2> QED BY <1>4, <2>1
<1>6. ASSUME NEW i \in T PROVE i + 1 \in T
  <2>1. i \in Nat /\ i + 1 \in Nat
    OBVIOUS
  <2> SUFFICES ASSUME i + 1 <= WordBits PROVE f[i + 1] = Sum(i + 1)
    BY <2>1
  <2>2. i \in 0 .. WordBits - 1 /\ f[i] = Sum(i)
    <3> HIDE DEF Sum
    <3> QED BY <1>1, <2>1
  <2>3. Sum(i) \in Nat
    <3>1. m + 1 \in Nat
      BY <1>1
    <3>2. Pow2(i) \in Nat \ {0} /\ Pow2(m + 1) \in Nat \ {0}
      <4> HIDE DEF Sum, T
      <4> QED BY <2>1, <3>1, Pow2Facts
    <3> QED BY <3>2
  <2>4. f[i + 1] = IF i \in w THEN Sum(i) + Pow2(i) ELSE Sum(i)
    <3> HIDE DEF w, Sum
    <3> QED BY <1>3, <1>4, <2>2, <2>3
  <2>5. CASE i < m
    <3>1. i \in w /\ Sum(i) = Pow2(i) - 1 /\ Sum(i + 1) = Pow2(i + 1) - 1
      BY <1>1, <2>1, <2>5
    <3> HIDE DEF w, Sum
    <3> QED BY <1>1, <2>1, <2>4, <3>1
  <2>6. CASE i = m
    <3>1. i \in w /\ Sum(i) = Pow2(m) - 1 /\ Sum(i + 1) = Pow2(m + 1) - 1
      BY <1>1, <2>1, <2>6
    <3> HIDE DEF w, Sum
    <3> QED BY <1>1, <2>4, <2>6, <3>1
  <2>7. CASE i > m
    <3>1. i \notin w /\ Sum(i) = Pow2(m + 1) - 1 /\ Sum(i + 1) = Pow2(m + 1) - 1
      BY <1>1, <2>1, <2>7
    <3> HIDE DEF w, Sum
    <3> QED BY <2>4, <3>1
  <2> QED BY <1>1, <2>1, <2>5, <2>6, <2>7
<1>7. T = Nat
  <2>1. T \subseteq Nat
    OBVIOUS
  <2> HIDE DEF T
  <2> QED BY <1>5, <1>6, <2>1, NatSet
<1>8. f[WordBits] = Sum(WordBits)
  <2>1. WordBits \in T
    BY <1>1, <1>7
  <2> HIDE DEF Sum
  <2> QED BY <1>1, <2>1
<1>9. Sum(WordBits) = Pow2(m + 1) - 1
  BY <1>1
<1> QED BY <1>2, <1>4, <1>8, <1>9

LEMMA Pow2Order ==
  ASSUME NEW m \in Nat, NEW n \in Nat
  PROVE  Pow2(m) < Pow2(n) <=> m < n
<1>1. m < n => Pow2(m) < Pow2(n)
  BY Pow2Grows
<1>2. n < m => Pow2(n) < Pow2(m)
  BY Pow2Grows
<1>3. Pow2(m) \in Nat /\ Pow2(n) \in Nat
  BY Pow2Facts
<1>4. m < n \/ n < m \/ m = n
  OBVIOUS
<1> QED BY <1>1, <1>2, <1>3, <1>4

\* Rounding up makes the smallest power of two that is no smaller, and logb finds it.
LEMMA RoundedSize ==
  ASSUME NEW n \in Nat, n >= 2, n <= LargestIntPower
  PROVE  \E m \in Nat : /\ Pow2(m) < n /\ n <= Pow2(m + 1)
                        /\ round_pow2_boundary(n) = Pow2(m + 1)
                        /\ IsDefinedLogb(Pow2(m + 1))
                        /\ logb(Pow2(m + 1)) = m + 1
<1> DEFINE x == n - 1
<1>1. /\ IntBits \in Nat \ {0} /\ WordBits \in Nat \ {0} /\ IntBits <= WordBits
      /\ x \in Nat /\ x >= 1 /\ x < Pow2(IntBits - 1) /\ IntBits - 1 \in Nat
  <2>1. IntBits \in Nat \ {0} /\ WordBits \in Nat \ {0} /\ IntBits <= WordBits
    BY WidthFacts
  <2>2. IntBits - 1 \in Nat
    BY <2>1
  <2>3. Pow2(IntBits - 1) \in Nat
    BY <2>2, Pow2Facts
  <2> QED BY <2>1, <2>2, <2>3 DEF LargestIntPower
<1>2. x = n - 1 /\ n = x + 1
  OBVIOUS
<1> HIDE DEF x
<1>3. PICK m \in 0 .. (IntBits - 1) - 1 : Pow2(m) <= x /\ x < Pow2(m + 1)
  BY <1>1, HighestBit
<1>4. /\ m \in Nat /\ m + 1 \in Nat /\ m < IntBits /\ m + 1 < IntBits
      /\ m + 1 < WordBits /\ (m + 1) + 1 \in Nat
  BY <1>1, <1>3
<1>5. m \in BitPositions /\ m + 1 \in BitPositions
  BY <1>4, WidthFacts
<1>6. /\ Pow2(m) \in Nat \ {0} /\ Pow2(m + 1) \in Nat \ {0}
      /\ Pow2((m + 1) + 1) = 2 * Pow2(m + 1) /\ Pow2(WordBits) \in Nat \ {0}
  BY <1>1, <1>4, Pow2Facts
<1>7. Pow2(m + 1) < Pow2(WordBits)
  BY <1>1, <1>4, Pow2Grows
<1>8. \A p \in Nat \ {0} : \A y \in Nat : y < p => y % p = y
  OBVIOUS
<1>9. (n - 1) % Pow2(WordBits) = x
  <2>1. x < Pow2(WordBits)
    BY <1>1, <1>3, <1>6, <1>7
  <2> QED BY <1>1, <1>2, <1>6, <1>8, <2>1
<1>10. ToNumber(Smeared(ToWord(x))) = Pow2(m + 1) - 1
  <2>1. m \in ToWord(x) /\ ToWord(x) \subseteq 0 .. m
    BY <1>1, <1>3, <1>5, BitsUpTo
  <2>2. Smeared(ToWord(x)) = 0 .. m
    BY <1>4, <1>5, <2>1, SmearedIsFull
  <2> QED BY <1>5, <2>2, NumberOfFull
<1>11. round_pow2_boundary(n) = Pow2(m + 1)
  <2>1. (Pow2(m + 1) - 1) + 1 = Pow2(m + 1)
    BY <1>6
  <2>2. Pow2(m + 1) % Pow2(WordBits) = Pow2(m + 1)
    BY <1>6, <1>7, <1>8
  <2> QED BY <1>9, <1>10, <2>1, <2>2 DEF round_pow2_boundary
<1> DEFINE bits == {b \in ToWord(Pow2(m + 1)) : b < IntBits}
<1>12. m + 1 \in bits /\ bits \subseteq 0 .. m + 1
  <2>1. Pow2(m + 1) <= Pow2(m + 1) /\ Pow2(m + 1) < Pow2((m + 1) + 1)
    BY <1>6
  <2>2. m + 1 \in ToWord(Pow2(m + 1)) /\ ToWord(Pow2(m + 1)) \subseteq 0 .. m + 1
    BY <1>5, <1>6, <2>1, BitsUpTo
  <2> QED BY <1>4, <2>2
<1>13. IsDefinedLogb(Pow2(m + 1))
  BY <1>12 DEF IsDefinedLogb
<1>14. logb(Pow2(m + 1)) = m + 1
  <2>1. logb(Pow2(m + 1)) = Max(bits)
    BY DEF logb
  <2> HIDE DEF bits
  <2>2. \A b \in bits : b \in Nat /\ b <= m + 1
    BY <1>4, <1>12
  <2>3. \A b \in bits : (\A c \in bits : b >= c) <=> b = m + 1
    BY <1>4, <1>12, <2>2
  <2> QED BY <1>12, <2>1, <2>3 DEF Max
<1>15. Pow2(m) < n /\ n <= Pow2(m + 1)
  BY <1>1, <1>2, <1>3, <1>6
<1> QED BY <1>4, <1>11, <1>13, <1>14, <1>15

\* The one level whose blocks hold n bytes where those of the level below do not.
LEMMA LevelOfSize ==
  ASSUME NEW n \in Nat, NEW m \in Nat, n > BlockSize[0], Pow2(m) < n, n <= Pow2(m + 1),
         NEW l \in Levels
  PROVE  IsTargetLevel(l, n) <=> l = (m + 1) - MEM_BLOCKS_BASE_LEVEL
<1> DEFINE base == MEM_BLOCKS_BASE_LEVEL
<1>1. /\ base \in Nat /\ l \in Nat /\ m + 1 \in Nat
      /\ 0 \in Levels /\ (l # 0 => l - 1 \in Levels) /\ (l - 1 \in Levels => l # 0)
  BY LevelsAssumption, LevelAssumption DEF Levels
<1>2. \A k \in Levels : /\ k \in Nat /\ BlockSize[k] = Pow2(k + base)
                        /\ k + base \in Nat /\ Pow2(k + base) \in Nat
  <2>1. \A k \in Levels : k \in Nat /\ k + base \in Nat
    BY <1>1, LevelAssumption DEF Levels
  <2> QED BY <2>1, LevelsAssumption, Pow2Facts
<1>3. Pow2(m) \in Nat /\ Pow2(m + 1) \in Nat
  BY <1>1, Pow2Facts
<1>4. base < m + 1
  <2>1. BlockSize[0] = Pow2(base)
    <3>1. 0 + base = base
      BY <1>1
    <3> QED BY <1>1, <1>2, <3>1
  <2>2. Pow2(base) < Pow2(m + 1)
    <3>1. Pow2(base) \in Nat
      BY <1>1, Pow2Facts
    <3> QED BY <1>3, <2>1, <3>1
  <2> QED BY <1>1, <2>2, Pow2Order
<1>5. ASSUME IsTargetLevel(l, n) PROVE l = (m + 1) - base
  <2>1. n <= Pow2(l + base) /\ (l - 1 \in Levels => Pow2((l - 1) + base) < n)
    BY <1>2, <1>5 DEF IsTargetLevel
  <2>2. Pow2(m) < Pow2(l + base)
    BY <1>2, <1>3, <2>1
  <2>3. m < l + base
    BY <1>2, <2>2, Pow2Order
  <2>4. CASE l = 0
    BY <1>1, <1>4, <2>3, <2>4
  <2>5. CASE l # 0
    <3>1. l - 1 \in Levels
      BY <1>1, <2>5
    <3>2. Pow2((l - 1) + base) < Pow2(m + 1)
      BY <1>2, <1>3, <2>1, <3>1
    <3>3. (l - 1) + base < m + 1
      BY <1>1, <1>2, <3>1, <3>2, Pow2Order
    <3> QED BY <1>1, <2>3, <3>3
  <2> QED BY <2>4, <2>5
<1>6. ASSUME l = (m + 1) - base PROVE IsTargetLevel(l, n)
  <2>1. l + base = m + 1 /\ (l - 1) + base = m
    BY <1>1, <1>6
  <2>2. n <= BlockSize[l]
    BY <1>2, <2>1
  <2>3. l - 1 \in Levels => BlockSize[l - 1] < n
    BY <1>2, <2>1
  <2> QED BY <2>2, <2>3 DEF IsTargetLevel
<1> QED BY <1>5, <1>6

\* A request has bytes of its own beside those of the header.
WithHeader == pc = "grow" => bytes > MetaSize

LEMMA WithHeaderHolds == Spec => []WithHeader
<1>1. Init => WithHeader
  BY DEF Init, WithHeader
<1>2. WithHeader /\ [Next]_vars => WithHeader'
  <2> SUFFICES ASSUME WithHeader, [Next]_vars PROVE WithHeader'
    OBVIOUS
  <2>1. CASE pc' = pc /\ bytes' = bytes
    BY <2>1 DEF WithHeader
  <2>2. CASE pc' # "grow"
    BY <2>2 DEF WithHeader
  <2>3. CASE \E n \in Requests : Kmalloc(n)
    <3>1. PICK n \in Requests : Kmalloc(n)
      BY <2>3
    <3>2. n \in Nat \ {0} /\ MetaSize \in Nat /\ bytes' = n + MetaSize
      BY <3>1, EnvironmentAssumption, SizeAssumption DEF Kmalloc
    <3> QED BY <3>2 DEF WithHeader
  <2>4. CASE \E a \in DOMAIN owned : Kfree(a)
    BY <2>2, <2>4 DEF Kfree
  <2>5. CASE KmallocTarget
    BY <2>2, <2>5 DEF KmallocTarget, Take, Return
  <2>6. CASE KallocInit \/ KmallocGrowFails \/ KmallocTooLarge \/ KmallocFound
             \/ KmallocExhausted \/ KfreeInsert \/ KallocInitFails \/ KfreeMergeForeign
    BY <2>2, <2>6 DEF KallocInit, KmallocGrowFails, KmallocTooLarge, KmallocFound,
       KmallocExhausted, KfreeInsert, KallocInitFails, KfreeMergeForeign, Take, Return
  <2>7. CASE KmallocGrow \/ KmallocSkip \/ KmallocSplit
    BY <2>1, <2>7 DEF KmallocGrow, KmallocSkip, KmallocSplit, locals
  <2>8. CASE KfreeMerge
    BY <2>2, <2>8 DEF KfreeMerge, MergeGoesOn
  <2>9. CASE UNCHANGED vars
    BY <2>1, <2>9 DEF vars, locals
  <2> QED BY <2>3, <2>4, <2>5, <2>6, <2>7, <2>8, <2>9 DEF Next, Step
<1> QED BY <1>1, <1>2, PTL DEF Spec

(***************************************************************************)
(* The level that kmalloc computes with round_pow2_boundary and logb       *)
(* (mem.c:64) is the smallest one that holds the request, for any widths   *)
(* of the integers, any doubling shifts that reach over an unsigned int,   *)
(* and any levels: for every request up to the largest power of two that   *)
(* an unsigned int holds.                                                  *)
(***************************************************************************)
THEOREM LevelIsTheLogarithm == Spec => []LevelIsRoundedLogarithm
<1>1. HeapInv /\ WithHeader => LevelIsRoundedLogarithm
  <2> SUFFICES ASSUME HeapInv, WithHeader, pc = "grow", bytes <= LargestIntPower
               PROVE  /\ IsDefinedLogb(round_pow2_boundary(bytes))
                      /\ \A l \in Levels : IsTargetLevel(l, bytes) <=> l = TargetLevel(bytes)
    BY DEF LevelIsRoundedLogarithm
  <2>1. bytes \in Nat /\ bytes > MetaSize
    BY DEF HeapInv, TypeOK, WithHeader
  <2>2. bytes > BlockSize[0] /\ bytes >= 2
    <3>1. BlockSize[0] <= MetaSize /\ BlockSize[0] \in Nat \ {0} /\ MetaSize \in Nat
      BY LevelsAssumption, LevelAssumption, SizeAssumption DEF Levels
    <3> QED BY <2>1, <3>1
  <2>3. PICK m \in Nat : /\ Pow2(m) < bytes /\ bytes <= Pow2(m + 1)
                         /\ round_pow2_boundary(bytes) = Pow2(m + 1)
                         /\ IsDefinedLogb(Pow2(m + 1))
                         /\ logb(Pow2(m + 1)) = m + 1
    BY <2>1, <2>2, RoundedSize
  <2>4. TargetLevel(bytes) = (m + 1) - MEM_BLOCKS_BASE_LEVEL
    BY <2>3 DEF TargetLevel
  <2>5. \A l \in Levels : IsTargetLevel(l, bytes) <=> l = TargetLevel(bytes)
    BY <2>1, <2>2, <2>3, <2>4, LevelOfSize
  <2> QED BY <2>3, <2>5
<1> QED BY <1>1, HeapInvHolds, WithHeaderHolds, PTL

=============================================================================
