--------------------------- MODULE PageFramesProofs ---------------------------
(***************************************************************************)
(* Proofs about the page frame allocator, for buckets, ints, pages and a   *)
(* bitmap of any size and for any memory map: which region is chosen, what *)
(* its bitmap says, and what the scan for a run of free pages hands out.   *)
(***************************************************************************)
EXTENDS PageFrames, TLAPS

-----------------------------------------------------------------------------
(***************************************************************************)
(* Arithmetic                                                              *)
(***************************************************************************)

LEMMA SizeFacts ==
  /\ BUCKET_SIZE \in Nat \ {0} /\ PAGE_SIZE \in Nat \ {0}
  /\ IntBits \in Nat \ {0} /\ IntBits <= BUCKET_SIZE
  /\ MAX_PAGES \in Nat \ {0}
  /\ Counts \subseteq Nat \ {0}
<1>1. /\ BUCKET_SIZE \in Nat \ {0} /\ TOTAL_BUCKET_COUNT \in Nat \ {0}
      /\ IntBits \in 1 .. BUCKET_SIZE /\ PAGE_SIZE \in Nat \ {0}
      /\ Counts \subseteq Nat \ {0}
  BY SizesAssumption
<1>2. ASSUME NEW m \in Nat \ {0}, NEW n \in Nat \ {0}
      PROVE  m * n \in Nat \ {0}
  OBVIOUS
<1>3. MAX_PAGES \in Nat \ {0}
  BY <1>1, <1>2 DEF MAX_PAGES
<1> QED BY <1>1, <1>3

LEMMA MinOfTwo ==
  ASSUME NEW a \in Int, NEW b \in Int
  PROVE  Min({a, b}) = IF a <= b THEN a ELSE b
<1>1. CASE a <= b
  <2>1. \A y \in {a, b} : a <= y
    BY <1>1
  <2>2. \A x \in {a, b} : (\A y \in {a, b} : x <= y) => x = a
    BY <1>1
  <2> QED BY <1>1, <2>1, <2>2 DEF Min
<1>2. CASE a > b
  <2>1. \A y \in {a, b} : b <= y
    BY <1>2
  <2>2. \A x \in {a, b} : (\A y \in {a, b} : x <= y) => x = b
    BY <1>2
  <2> QED BY <1>2, <2>1, <2>2 DEF Min
<1> QED BY <1>1, <1>2

\* A number is a multiple and a remainder.
LEMMA Division ==
  ASSUME NEW a \in Nat, NEW n \in Nat \ {0}
  PROVE  /\ a \div n \in Nat /\ a % n \in 0 .. n - 1
         /\ a = (a \div n) * n + (a % n)
OBVIOUS

LEMMA ProductOrder ==
  ASSUME NEW p \in Nat, NEW q \in Nat, NEW n \in Nat \ {0}
  PROVE  /\ p <= q => p * n <= q * n
         /\ p < q => p * n + n <= q * n
<1>1. ASSUME p <= q PROVE p * n <= q * n
  BY <1>1
<1>2. ASSUME p < q PROVE p * n + n <= q * n
  <2>1. p + 1 <= q
    BY <1>2
  <2>2. (p + 1) * n <= q * n
    BY <2>1
  <2>3. (p + 1) * n = p * n + n
    OBVIOUS
  <2> QED BY <2>2, <2>3
<1> QED BY <1>1, <1>2

LEMMA DivisionUnique ==
  ASSUME NEW q \in Nat, NEW n \in Nat \ {0}, NEW r \in 0 .. n - 1
  PROVE  (q * n + r) \div n = q /\ (q * n + r) % n = r
<1> DEFINE a == q * n + r
           d == a \div n
           m == a % n
<1>1. a \in Nat /\ q * n \in Nat /\ d * n \in Nat
  OBVIOUS
<1>2. d \in Nat /\ m \in 0 .. n - 1 /\ a = d * n + m
  BY <1>1, Division
<1>3. a = q * n + r
  OBVIOUS
<1>4. /\ d < q => d * n + n <= q * n
      /\ q < d => q * n + n <= d * n
  BY <1>2, ProductOrder
<1> HIDE DEF a, d, m
<1> DEFINE x == d * n
           y == q * n
<1>5. x \in Nat /\ y \in Nat /\ x + m = y + r /\ (d < q => x + n <= y) /\ (q < d => y + n <= x)
  BY <1>1, <1>2, <1>3, <1>4
<1> HIDE DEF x, y
<1>6. d = q
  BY <1>2, <1>5
<1>7. m = r
  BY <1>2, <1>3, <1>6
<1> QED BY <1>6, <1>7 DEF a, d, m

LEMMA DivisionOrder ==
  ASSUME NEW a \in Nat, NEW b \in Nat, NEW n \in Nat \ {0}, a <= b
  PROVE  a \div n <= b \div n
<1>1. /\ a \div n \in Nat /\ b \div n \in Nat
      /\ a = (a \div n) * n + (a % n) /\ b = (b \div n) * n + (b % n)
      /\ a % n \in 0 .. n - 1 /\ b % n \in 0 .. n - 1
  BY Division
<1>2. ASSUME b \div n < a \div n PROVE FALSE
  <2>1. (b \div n) * n + n <= (a \div n) * n
    BY <1>1, <1>2, ProductOrder
  <2> DEFINE p == (a \div n) * n
             q == (b \div n) * n
             r == a % n
             s == b % n
  <2>2. /\ p \in Nat /\ q \in Nat /\ q + n <= p /\ a = p + r /\ b = q + s
        /\ r \in 0 .. n - 1 /\ s \in 0 .. n - 1
    BY <1>1, <2>1
  <2> HIDE DEF p, q, r, s
  <2> QED BY <2>2
<1> QED BY <1>1, <1>2

-----------------------------------------------------------------------------
(***************************************************************************)
(* The ends of pages                                                       *)
(***************************************************************************)

LEMMA AlignFacts ==
  ASSUME NEW a \in Nat
  PROVE  /\ AlignDown(a) \in Nat /\ AlignDown(a) <= a
         /\ AlignUp(a) \in Nat /\ a <= AlignUp(a)
         /\ AlignDown(a) <= AlignUp(a)
<1>1. ASSUME NEW b \in Nat
      PROVE  AlignDown(b) \in Nat /\ AlignDown(b) <= b /\ b < AlignDown(b) + PAGE_SIZE
  <2> DEFINE q == (b \div PAGE_SIZE) * PAGE_SIZE
             r == b % PAGE_SIZE
  <2>1. b \div PAGE_SIZE \in Nat /\ r \in 0 .. PAGE_SIZE - 1 /\ b = q + r
    BY Division, SizeFacts
  <2>2. q \in Nat
    BY <2>1, SizeFacts
  <2>3. AlignDown(b) = q
    BY DEF AlignDown
  <2> HIDE DEF q, r
  <2> QED BY <2>1, <2>2, <2>3, SizeFacts
<1>2. a + PAGE_SIZE - 1 \in Nat /\ a + PAGE_SIZE - 1 >= a
  BY SizeFacts
<1>3. /\ AlignUp(a) \in Nat /\ a + PAGE_SIZE - 1 < AlignUp(a) + PAGE_SIZE
  BY <1>1, <1>2 DEF AlignUp
<1> QED BY <1>1, <1>3, SizeFacts

\* The end of a page that is below an address is below it rounded, and above likewise.
LEMMA AlignedEdges ==
  ASSUME NEW a \in Nat, NEW n \in Nat
  PROVE  /\ PAGE_SIZE * n <= a => PAGE_SIZE * n <= AlignDown(a)
         /\ a <= PAGE_SIZE * n => AlignUp(a) <= PAGE_SIZE * n
<1>1. PAGE_SIZE * n = n * PAGE_SIZE /\ n * PAGE_SIZE \in Nat
  BY SizeFacts
<1>2. ASSUME NEW b \in Nat
      PROVE  n * PAGE_SIZE <= b => n * PAGE_SIZE <= AlignDown(b)
  <2>1. (n * PAGE_SIZE + 0) \div PAGE_SIZE = n
    BY DivisionUnique, SizeFacts
  <2>2. n * PAGE_SIZE <= b => n <= b \div PAGE_SIZE
    BY <1>1, <2>1, DivisionOrder, SizeFacts
  <2>3. b \div PAGE_SIZE \in Nat
    BY Division, SizeFacts
  <2> QED BY <2>2, <2>3, ProductOrder, SizeFacts DEF AlignDown
<1>3. ASSUME NEW b \in Nat, b < n * PAGE_SIZE + PAGE_SIZE
      PROVE  AlignDown(b) <= n * PAGE_SIZE
  <2>1. AlignDown(b) \in Nat /\ AlignDown(b) <= b /\ b \div PAGE_SIZE \in Nat
    BY AlignFacts, Division, SizeFacts
  <2>2. ASSUME n < b \div PAGE_SIZE PROVE FALSE
    <3>1. n * PAGE_SIZE + PAGE_SIZE <= AlignDown(b)
      BY <2>1, <2>2, ProductOrder, SizeFacts DEF AlignDown
    <3> QED BY <1>1, <1>3, <2>1, <3>1, SizeFacts
  <2>3. b \div PAGE_SIZE <= n
    BY <2>1, <2>2
  <2> QED BY <2>1, <2>3, ProductOrder, SizeFacts DEF AlignDown
<1>4. ASSUME a <= n * PAGE_SIZE PROVE AlignUp(a) <= n * PAGE_SIZE
  <2>1. a + PAGE_SIZE - 1 \in Nat /\ a + PAGE_SIZE - 1 < n * PAGE_SIZE + PAGE_SIZE
    BY <1>1, <1>4, SizeFacts
  <2> QED BY <1>3, <2>1 DEF AlignUp
<1> QED BY <1>1, <1>2, <1>4

-----------------------------------------------------------------------------
(***************************************************************************)
(* The choice of the region                                                *)
(***************************************************************************)

Entries == [base : Nat, length : Nat, usable : BOOLEAN]
Regions == [first : Nat, end : Nat]

\* A region within a usable entry, of which the kernel has no whole page.
Within(entry, r) ==
  entry.usable /\ entry.base <= r.first /\ r.end <= entry.base + entry.length
Clear(r, span) == r.end <= AlignUp(span[1]) \/ AlignDown(span[2]) <= r.first

LEMMA WholePagesFacts ==
  ASSUME NEW entry \in Entries
  PROVE  /\ WholePages(entry) \in Regions
         /\ entry.base <= WholePages(entry).first
         /\ WholePages(entry).end <= entry.base + entry.length
<1>1. entry.base \in Nat /\ entry.base + entry.length \in Nat
  BY DEF Entries
<1>2. /\ AlignUp(entry.base) \in Nat /\ entry.base <= AlignUp(entry.base)
      /\ AlignDown(entry.base + entry.length) \in Nat
      /\ AlignDown(entry.base + entry.length) <= entry.base + entry.length
  BY <1>1, AlignFacts
<1> QED BY <1>2 DEF WholePages, Regions

\* The cut around the kernel: what is left lies in the region, is clear of the
\* kernel, and is as long as any part of the region on either side of it.
LEMMA CutFacts ==
  ASSUME NEW r \in Regions, NEW kstart \in Nat, NEW kend \in Nat
  PROVE  LET u == OutsideKernel(r, kstart, kend) IN
         /\ u \in Regions /\ r.first <= u.first /\ u.end <= r.end
         /\ u.end <= kstart \/ kend <= u.first
         /\ \A a, b \in Nat :
              /\ r.first <= a /\ a < b /\ b <= r.end
              /\ b <= kstart \/ kend <= a
              => b - a <= Length(u)
<1> DEFINE u == OutsideKernel(r, kstart, kend)
           before == IF kstart > r.first THEN kstart - r.first ELSE 0
           after  == IF r.end > kend THEN r.end - kend ELSE 0
<1>1. r.first \in Nat /\ r.end \in Nat /\ r = [first |-> r.first, end |-> r.end]
  BY DEF Regions
<1>2. CASE ~(r.first < kend /\ r.end > kstart)
  <2>1. u = r
    BY <1>2 DEF OutsideKernel
  <2> HIDE DEF u, before, after
  <2>2. /\ u \in Regions /\ r.first <= u.first /\ u.end <= r.end
        /\ u.end <= kstart \/ kend <= u.first
    BY <1>1, <1>2, <2>1
  <2>3. \A a, b \in Nat : r.first <= a /\ a < b /\ b <= r.end => b - a <= Length(u)
    BY <1>1, <2>1 DEF Length
  <2> QED BY <2>2, <2>3 DEF u
<1>3. CASE (r.first < kend /\ r.end > kstart) /\ before >= after
  <2>1. u = [first |-> r.first, end |-> kstart]
    BY <1>1, <1>3 DEF OutsideKernel
  <2> HIDE DEF u
  <2>2. /\ u \in Regions /\ u.first = r.first /\ u.end = kstart /\ kstart < r.end
    BY <1>1, <1>3, <2>1 DEF Regions
  <2>3. ASSUME NEW a \in Nat, NEW b \in Nat, r.first <= a, a < b, b <= r.end,
               b <= kstart \/ kend <= a
        PROVE  b - a <= Length(u)
    BY <1>1, <1>3, <2>2, <2>3 DEF Length
  <2>4. /\ r.first <= u.first /\ u.end <= r.end /\ u.end <= kstart
    BY <1>1, <2>2
  <2> QED BY <2>2, <2>3, <2>4 DEF u
<1>4. CASE (r.first < kend /\ r.end > kstart) /\ before < after
  <2>1. u = [first |-> kend, end |-> r.end]
    BY <1>1, <1>4 DEF OutsideKernel
  <2> HIDE DEF u
  <2>2. /\ u \in Regions /\ u.first = kend /\ u.end = r.end /\ r.first < kend
    BY <1>1, <1>4, <2>1 DEF Regions
  <2>3. ASSUME NEW a \in Nat, NEW b \in Nat, r.first <= a, a < b, b <= r.end,
               b <= kstart \/ kend <= a
        PROVE  b - a <= Length(u)
    BY <1>1, <1>4, <2>2, <2>3 DEF Length
  <2>4. r.first <= u.first /\ u.end <= r.end /\ kend <= u.first
    BY <1>1, <2>2
  <2> QED BY <2>2, <2>3, <2>4 DEF u
<1>5. before \in Nat /\ after \in Nat
  BY <1>1
<1> QED BY <1>2, <1>3, <1>4, <1>5

LEMMA CandidateFacts ==
  ASSUME NEW entry \in Entries, NEW span \in Nat \X Nat
  PROVE  LET c == Candidate(entry, span) IN
         /\ c \in Regions
         /\ \/ c = NoRegion
            \/ Length(c) > PAGE_SIZE /\ Within(entry, c) /\ Clear(c, span)
<1> DEFINE r == WholePages(entry)
           ks == AlignUp(span[1])
           ke == AlignDown(span[2])
           u == OutsideKernel(r, ks, ke)
<1>1. /\ r \in Regions /\ entry.base <= r.first
      /\ r.end <= entry.base + entry.length
  BY WholePagesFacts
<1>2. ks \in Nat /\ ke \in Nat
  BY AlignFacts
<1>3. Candidate(entry, span) =
        IF entry.usable /\ Length(r) > 0 /\ Length(u) > PAGE_SIZE THEN u ELSE NoRegion
  BY DEF Candidate
<1>4. NoRegion \in Regions
  BY DEF NoRegion, Regions
<1>5. ASSUME entry.usable, Length(r) > 0, Length(u) > PAGE_SIZE
      PROVE  u \in Regions /\ Within(entry, u) /\ Clear(u, span)
  <2> HIDE DEF r
  <2>1. /\ u \in Regions /\ r.first <= u.first
        /\ u.end <= r.end
        /\ u.end <= ks \/ ke <= u.first
    <3> HIDE DEF ks, ke
    <3> QED BY <1>1, <1>2, CutFacts
  <2> HIDE DEF u
  <2>3. entry.base \in Nat /\ entry.base + entry.length \in Nat
    BY DEF Entries
  <2>4. /\ r.first \in Nat /\ r.end \in Nat /\ u.first \in Nat /\ u.end \in Nat
    BY <1>1, <2>1 DEF Regions
  <2> QED BY <1>1, <1>5, <2>1, <2>3, <2>4 DEF Within, Clear
<1> HIDE DEF r, u, ks, ke
<1> QED BY <1>3, <1>4, <1>5

\* No run of whole pages in the entry, clear of the kernel, is longer.
LEMMA CandidateIsLongest ==
  ASSUME NEW entry \in Entries, NEW span \in Nat \X Nat,
         NEW m \in Nat, NEW n \in Nat,
         entry.usable, entry.base <= PAGE_SIZE * m,
         PAGE_SIZE * n <= entry.base + entry.length,
         PAGE_SIZE * n <= AlignDown(span[1]) \/ AlignUp(span[2]) <= PAGE_SIZE * m
  PROVE  \/ PAGE_SIZE * n - PAGE_SIZE * m <= PAGE_SIZE
         \/ PAGE_SIZE * n - PAGE_SIZE * m <= Length(Candidate(entry, span))
<1> DEFINE r == WholePages(entry)
           ks == AlignUp(span[1])
           ke == AlignDown(span[2])
           u == OutsideKernel(r, ks, ke)
           a == PAGE_SIZE * m
           b == PAGE_SIZE * n
<1>1. a \in Nat /\ b \in Nat
  BY SizeFacts
<1>2. entry.base \in Nat /\ entry.base + entry.length \in Nat
  BY DEF Entries
<1>3. r.first <= a /\ b <= r.end /\ r \in Regions
  BY <1>2, AlignedEdges, WholePagesFacts DEF WholePages
<1>4. /\ ks \in Nat /\ ke \in Nat
      /\ AlignDown(span[1]) \in Nat /\ AlignUp(span[2]) \in Nat
      /\ AlignDown(span[1]) <= ks /\ ke <= AlignUp(span[2])
  BY AlignFacts
<1>5. b <= AlignDown(span[1]) \/ AlignUp(span[2]) <= a
  OBVIOUS
<1>6. Candidate(entry, span) =
        IF entry.usable /\ Length(r) > 0 /\ Length(u) > PAGE_SIZE THEN u ELSE NoRegion
  BY DEF Candidate
<1>7. r.first \in Nat /\ r.end \in Nat
  BY <1>3 DEF Regions
<1> HIDE DEF a, b, r
<1>8. b <= ks \/ ke <= a
  BY <1>1, <1>4, <1>5
<1>9. ASSUME a < b PROVE b - a <= Length(u) /\ Length(r) > 0 /\ u \in Regions
  <2>1. b - a <= Length(u) /\ u \in Regions
    <3> HIDE DEF ks, ke
    <3> QED BY <1>1, <1>3, <1>4, <1>8, <1>9, CutFacts
  <2>2. Length(r) > 0
    BY <1>1, <1>3, <1>7, <1>9 DEF Length
  <2> QED BY <2>1, <2>2
<1> HIDE DEF u
<1>10. ASSUME b - a > PAGE_SIZE PROVE b - a <= Length(Candidate(entry, span))
  <2>1. a < b
    BY <1>1, <1>10, SizeFacts
  <2>2. Length(u) \in Int
    BY <1>9, <2>1 DEF Length, Regions
  <2>3. Length(u) > PAGE_SIZE
    BY <1>1, <1>9, <1>10, <2>1, <2>2, SizeFacts
  <2> QED BY <1>6, <1>9, <2>1, <2>3
<1> QED BY <1>1, <1>10, SizeFacts DEF a, b

-----------------------------------------------------------------------------
(***************************************************************************)
(* The bitmap                                                              *)
(***************************************************************************)

LEMMA SmallRemainder ==
  ASSUME NEW a \in Nat, NEW n \in Nat \ {0}, a < n
  PROVE  a % n = a
<1>1. 0 * n + a = a /\ a \in 0 .. n - 1
  OBVIOUS
<1> QED BY <1>1, DivisionUnique

\* Where a page is in its bucket, and where the shift leaves its bit.
LEMMA BucketFacts ==
  ASSUME NEW p \in Nat
  PROVE  /\ BucketStart(p) \in Nat
         /\ p % BUCKET_SIZE \in 0 .. BUCKET_SIZE - 1
         /\ p = BucketStart(p) + (p % BUCKET_SIZE)
         /\ ShiftedBit(p) \in BucketStart(p) .. BucketStart(p) + BUCKET_SIZE - 1
         /\ ShiftedBit(p) - BucketStart(p) < IntBits
         /\ p % BUCKET_SIZE < IntBits => ShiftedBit(p) = p
         /\ p < MAX_PAGES => BucketStart(p) + BUCKET_SIZE <= MAX_PAGES
<1> DEFINE q == p \div BUCKET_SIZE
           o == p % BUCKET_SIZE
           m == o % IntBits
<1>1. q \in Nat /\ o \in 0 .. BUCKET_SIZE - 1 /\ p = q * BUCKET_SIZE + o
  BY Division, SizeFacts
<1>2. q * BUCKET_SIZE \in Nat
  BY <1>1, SizeFacts
<1>3. BucketStart(p) = q * BUCKET_SIZE /\ ShiftedBit(p) = q * BUCKET_SIZE + m
  BY DEF BucketStart, ShiftedBit
<1>4. m \in 0 .. IntBits - 1
  BY <1>1, Division, SizeFacts
<1>5. o < IntBits => m = o
  BY <1>1, SmallRemainder, SizeFacts
<1>6. ASSUME p < MAX_PAGES PROVE q * BUCKET_SIZE + BUCKET_SIZE <= MAX_PAGES
  <2>1. TOTAL_BUCKET_COUNT \in Nat /\ MAX_PAGES = TOTAL_BUCKET_COUNT * BUCKET_SIZE
    BY SizesAssumption DEF MAX_PAGES
  <2>2. /\ TOTAL_BUCKET_COUNT <= q => MAX_PAGES <= q * BUCKET_SIZE
        /\ q < TOTAL_BUCKET_COUNT => q * BUCKET_SIZE + BUCKET_SIZE <= MAX_PAGES
    BY <1>1, <2>1, ProductOrder, SizeFacts
  <2>3. q * BUCKET_SIZE <= p
    <3> DEFINE x == q * BUCKET_SIZE
    <3>1. x \in Nat /\ p = x + o /\ o \in Nat
      BY <1>1, <1>2
    <3> HIDE DEF x, o
    <3>2. x <= p
      BY <3>1
    <3> QED BY <3>2 DEF x
  <2>4. ~ (TOTAL_BUCKET_COUNT <= q)
    BY <1>2, <1>6, <2>2, <2>3, SizeFacts
  <2> QED BY <1>1, <2>1, <2>2, <2>4
<1> DEFINE x == q * BUCKET_SIZE
<1>7. x \in Nat /\ p = x + o /\ BucketStart(p) = x /\ ShiftedBit(p) = x + m
  BY <1>1, <1>2, <1>3
<1>8. p < MAX_PAGES => x + BUCKET_SIZE <= MAX_PAGES
  BY <1>6
<1>9. p % BUCKET_SIZE = o
  OBVIOUS
<1> HIDE DEF q, o, m, x
<1> QED BY <1>1, <1>4, <1>5, <1>7, <1>8, <1>9, SizeFacts

\* Two buckets are the same or apart.
LEMMA BucketsApart ==
  ASSUME NEW p \in Nat, NEW q \in Nat
  PROVE  \/ BucketStart(p) = BucketStart(q)
         \/ BucketStart(p) + BUCKET_SIZE <= BucketStart(q)
         \/ BucketStart(q) + BUCKET_SIZE <= BucketStart(p)
<1>1. p \div BUCKET_SIZE \in Nat /\ q \div BUCKET_SIZE \in Nat
  BY Division, SizeFacts
<1>2. \/ p \div BUCKET_SIZE = q \div BUCKET_SIZE
      \/ p \div BUCKET_SIZE < q \div BUCKET_SIZE
      \/ q \div BUCKET_SIZE < p \div BUCKET_SIZE
  BY <1>1
<1> QED BY <1>1, <1>2, ProductOrder, SizeFacts DEF BucketStart

LEMMA BitsFacts ==
  ASSUME NEW p \in Nat, NEW b \in BitsSetFor(p)
  PROVE  /\ b \in BucketStart(p) .. BucketStart(p) + BUCKET_SIZE - 1
         /\ b = ShiftedBit(p) \/ ShiftedBit(p) - BucketStart(p) = IntBits - 1
<1> DEFINE m == (p % BUCKET_SIZE) % IntBits
<1>1. ShiftedBit(p) = BucketStart(p) + m
  BY DEF ShiftedBit
<1>2. /\ BucketStart(p) \in Nat
      /\ ShiftedBit(p) \in BucketStart(p) .. BucketStart(p) + BUCKET_SIZE - 1
  BY BucketFacts
<1>3. m \in Nat
  <2>1. p % BUCKET_SIZE \in Nat
    BY BucketFacts
  <2> QED BY <2>1, Division, SizeFacts
<1>4. b \in IF m = IntBits - 1 THEN ShiftedBit(p) .. BucketStart(p) + BUCKET_SIZE - 1
            ELSE {ShiftedBit(p)}
  BY DEF BitsSetFor
<1> HIDE DEF m
<1> QED BY <1>1, <1>2, <1>3, <1>4, SizeFacts

\* The bits of the bitmap of a region: all of its pages, and no other page if the
\* last bucket has fewer pages than an int has bits.
LEMMA BitmapFacts ==
  ASSUME NEW count \in 0 .. MAX_PAGES
  PROVE  /\ BitmapOf(count) \subseteq PageIndexes
         /\ 0 .. count - 1 \subseteq BitmapOf(count)
         /\ count % BUCKET_SIZE < IntBits => BitmapOf(count) \subseteq 0 .. count - 1
<1>1. ASSUME NEW b \in BitmapOf(count)
      PROVE  \E p \in 0 .. count - 1 : b \in BitsSetFor(p)
  BY DEF BitmapOf
<1>2. count \in Nat
  BY SizeFacts
<1>3. ASSUME NEW b \in BitmapOf(count) PROVE b \in PageIndexes
  <2>1. PICK p \in 0 .. count - 1 : b \in BitsSetFor(p)
    BY <1>1
  <2>2. p \in Nat /\ p < MAX_PAGES
    BY SizeFacts
  <2>3. b \in BucketStart(p) .. BucketStart(p) + BUCKET_SIZE - 1
    BY <2>1, <2>2, BitsFacts
  <2>4. BucketStart(p) \in Nat /\ BucketStart(p) + BUCKET_SIZE <= MAX_PAGES
    BY <2>2, BucketFacts
  <2> QED BY <2>3, <2>4, SizeFacts DEF PageIndexes
<1>4. ASSUME NEW p \in 0 .. count - 1 PROVE p \in BitmapOf(count)
  <2> DEFINE s == BucketStart(p)
  <2>0. p \in Nat
    OBVIOUS
  <2>1. /\ p \in Nat /\ s \in Nat /\ p = s + (p % BUCKET_SIZE)
        /\ p % BUCKET_SIZE \in 0 .. BUCKET_SIZE - 1
    BY <2>0, BucketFacts
  <2>2. CASE p % BUCKET_SIZE < IntBits
    <3>1. ShiftedBit(p) = p /\ p <= s + BUCKET_SIZE - 1
      BY <2>1, <2>2, BucketFacts, SizeFacts
    <3>2. p \in BitsSetFor(p)
      BY <2>1, <3>1, SizeFacts DEF BitsSetFor
    <3> QED BY <3>2 DEF BitmapOf
  <2>3. CASE p % BUCKET_SIZE >= IntBits
    <3> DEFINE e == s + (IntBits - 1)
    <3>1. e \in 0 .. count - 1 /\ e < p /\ e \in Nat
      BY <2>1, <2>3, SizeFacts
    <3>2. e \div BUCKET_SIZE = p \div BUCKET_SIZE /\ e % BUCKET_SIZE = IntBits - 1
      <4>1. p \div BUCKET_SIZE \in Nat
        BY <2>0, Division, SizeFacts
      <4>2. IntBits - 1 \in 0 .. BUCKET_SIZE - 1
        BY SizeFacts
      <4> QED BY <4>1, <4>2, DivisionUnique, SizeFacts DEF BucketStart
    <3>3. BucketStart(e) = s
      BY <3>2 DEF BucketStart
    <3>4. (IntBits - 1) % IntBits = IntBits - 1
      BY SmallRemainder, SizeFacts
    <3>5. BitsSetFor(e) = s + (IntBits - 1) .. s + BUCKET_SIZE - 1
      BY <3>2, <3>3, <3>4 DEF BitsSetFor, ShiftedBit
    <3>6. p \in BitsSetFor(e)
      BY <2>1, <2>3, <3>5, SizeFacts
    <3> QED BY <3>1, <3>6 DEF BitmapOf
  <2> QED BY <2>1, <2>2, <2>3, SizeFacts
<1>5. ASSUME count % BUCKET_SIZE < IntBits, NEW b \in BitmapOf(count)
      PROVE  b \in 0 .. count - 1
  <2>1. PICK p \in 0 .. count - 1 : b \in BitsSetFor(p)
    BY <1>1
  <2> DEFINE s == BucketStart(p)
             t == BucketStart(count)
             o == p % BUCKET_SIZE
             n == count % BUCKET_SIZE
  <2>2. p \in Nat /\ p < count
    BY <1>2
  <2>3. /\ s \in Nat /\ o \in 0 .. BUCKET_SIZE - 1 /\ p = s + o
        /\ ShiftedBit(p) - s < IntBits
        /\ o < IntBits => ShiftedBit(p) = p
    BY <2>2, BucketFacts
  <2>4. t \in Nat /\ n \in 0 .. BUCKET_SIZE - 1 /\ count = t + n /\ n < IntBits
    BY <1>2, <1>5, BucketFacts
  <2>5. \/ s = t \/ s + BUCKET_SIZE <= t \/ t + BUCKET_SIZE <= s
    BY <1>2, <2>2, BucketsApart
  <2>6. /\ b \in s .. s + BUCKET_SIZE - 1
        /\ b = ShiftedBit(p) \/ ShiftedBit(p) - s = IntBits - 1
    BY <2>1, <2>2, BitsFacts
  <2> HIDE DEF s, t, o, n
  <2> QED BY <1>2, <2>2, <2>3, <2>4, <2>5, <2>6, SizeFacts
<1> QED BY <1>3, <1>4, <1>5

-----------------------------------------------------------------------------
(***************************************************************************)
(* The invariant                                                           *)
(***************************************************************************)

InputsOk == memory_map \in Seq(Entries) /\ kernel \in Nat \X Nat

\* The best region is one that an entry gives, and no entry looked at so far gives a
\* longer one.
ChoiceOk ==
  /\ \/ best = NoRegion
     \/ /\ Length(best) > PAGE_SIZE /\ Clear(best, kernel)
        /\ \E i \in 1 .. mmap_entry - 1 : Within(memory_map[i], best)
  /\ \A i \in 1 .. mmap_entry - 1 :
       Length(Candidate(memory_map[i], kernel)) <= Length(best)
  /\ status # "boot" => mmap_entry = Len(memory_map) + 1
  /\ status = "failed" => best = NoRegion
  /\ Initialised =>
       /\ Length(best) > 0
       /\ paging_phys_page_base = best.first
       /\ paging_present_page_count = Min({Length(best) \div PAGE_SIZE, MAX_PAGES})

\* The bitmap is that of the region until a first call is over, and stays inside a
\* region whose last bucket is short.
BitmapOk ==
  /\ ~Initialised => pages = {}
  /\ Initialised /\ last.count = 0 => pages = BitmapOf(paging_present_page_count)
  /\ paging_present_page_count % BUCKET_SIZE < IntBits =>
       pages \subseteq 0 .. paging_present_page_count - 1

\* The free pages right before the scan's are all counted, and no run of the length
\* asked for is behind it.
ScanOk ==
  status = "scan" =>
    /\ scan.count \in Counts /\ scan.run < scan.count
    /\ scan.candidate + scan.run <= scan.page
    /\ \A f \in 0 .. scan.page :
         f .. scan.page - 1 \subseteq pages => scan.page - f <= scan.run
    /\ \A f \in 0 .. scan.page :
         f + scan.count <= scan.page => ~ (f .. f + scan.count - 1 \subseteq pages)

\* No page that was handed out counts as free: its first page alone keeps a run from
\* being found twice.  The loop that marks a run stays inside the bitmap, although the
\* run it marks is not the one the scan has counted.
GrantedPagesAreMarked ==
  /\ \A p \in PageIndexes : grants[p] > 0 => p \notin pages
  /\ last.first # NULL => last.first + last.count <= MAX_PAGES

CallsOk ==
  /\ ~Initialised => last.count = 0 /\ \A p \in PageIndexes : grants[p] = 0
  /\ GrantedPagesAreMarked
  /\ GrantsInsideShortRegion
  /\ NullMeansNoRun

IInv == InputsOk /\ TypeOK /\ ChoiceOk /\ BitmapOk /\ ScanOk /\ CallsOk

-----------------------------------------------------------------------------
LEMMA InitEstablishes == Init => IInv
<1> SUFFICES ASSUME Init PROVE IInv
  OBVIOUS
<1>1. memory_map \in Seq(Entries) /\ kernel \in Nat \X Nat
  BY MemoryAssumption DEF Init, Entries
<1>2. TypeOK
  <2>1. 0 \in 0 .. MAX_PAGES /\ 0 \in 0 .. GrantBound
    BY SizeFacts DEF GrantBound
  <2>2. mmap_entry \in 1 .. Len(memory_map) + 1
    <3>1. Len(memory_map) \in Nat
      BY <1>1
    <3> QED BY <3>1 DEF Init
  <2>3. NoScan \in [count : Counts \cup {0}, page : 0 .. MAX_PAGES,
                    run : 0 .. MAX_PAGES, candidate : 0 .. MAX_PAGES]
    BY <2>1 DEF NoScan
  <2>4. NoRegion \in [first : Nat, end : Nat]
    BY DEF NoRegion
  <2> QED BY <2>1, <2>2, <2>3, <2>4 DEF Init, TypeOK
<1>3. ~Initialised
  BY DEF Init, Initialised
<1>4. ChoiceOk
  <2>1. 1 .. mmap_entry - 1 = {}
    BY DEF Init
  <2> QED BY <1>3, <2>1 DEF Init, ChoiceOk
<1>5. BitmapOk
  BY <1>3 DEF Init, BitmapOk
<1>6. CallsOk
  BY <1>3 DEF Init, CallsOk, GrantedPagesAreMarked, GrantsInsideShortRegion,
              GrantsInsideRegion, NullMeansNoRun
<1> QED BY <1>1, <1>2, <1>4, <1>5, <1>6 DEF Init, IInv, InputsOk, ScanOk

\* What no step changes.
LEMMA InputsStay == IInv /\ [Next]_vars => InputsOk' /\ memory_map' = memory_map /\ kernel' = kernel
<1>1. [Next]_vars => memory_map' = memory_map /\ kernel' = kernel
  BY DEF Next, vars, inputs, ConsiderEntry, InitFrameAllocator, InitFrameAllocatorFails,
         AllocPages, SkipBucket, ScanUsedPage, ScanFreePage, Grant, AllocPagesFails
<1> QED BY <1>1 DEF IInv, InputsOk

LEMMA ConsiderEntryKeeps == IInv /\ ConsiderEntry => IInv'
<1> SUFFICES ASSUME IInv, ConsiderEntry PROVE IInv'
  OBVIOUS
<1> DEFINE c == Candidate(memory_map[mmap_entry], kernel)
<1>1. InputsOk' /\ memory_map' = memory_map /\ kernel' = kernel
  BY DEF IInv, InputsOk, ConsiderEntry, inputs
<1>2. /\ memory_map[mmap_entry] \in Entries /\ kernel \in Nat \X Nat
      /\ mmap_entry \in Nat /\ mmap_entry >= 1 /\ mmap_entry <= Len(memory_map)
      /\ Len(memory_map) \in Nat
  BY DEF IInv, InputsOk, TypeOK, ConsiderEntry
<1>3. /\ c \in Regions
      /\ \/ c = NoRegion
         \/ Length(c) > PAGE_SIZE /\ Within(memory_map[mmap_entry], c) /\ Clear(c, kernel)
  BY <1>2, CandidateFacts
<1>4. /\ best' = IF Length(c) > Length(best) THEN c ELSE best
      /\ mmap_entry' = mmap_entry + 1 /\ status = "boot" /\ status' = "boot"
  BY DEF ConsiderEntry
<1>5. best \in Regions /\ best' \in Regions
  BY <1>3, <1>4 DEF IInv, TypeOK, Regions
<1>6. /\ pages' = pages /\ paging_phys_page_base' = paging_phys_page_base
      /\ paging_present_page_count' = paging_present_page_count
      /\ scan' = scan /\ grants' = grants /\ last' = last
  BY DEF ConsiderEntry, managed
<1>7. TypeOK'
  BY <1>1, <1>2, <1>4, <1>5, <1>6 DEF IInv, TypeOK, Regions
<1>8. ~Initialised /\ ~Initialised'
  BY <1>4 DEF Initialised
<1>9. ChoiceOk'
  <2>1. Length(c) \in Int /\ Length(best) \in Int
    BY <1>3, <1>5 DEF Length, Regions
  <2>2. ASSUME NEW i \in 1 .. mmap_entry' - 1
        PROVE  Length(Candidate(memory_map[i], kernel)) <= Length(best')
    <3>1. CASE i = mmap_entry
      BY <1>4, <2>1, <3>1
    <3>2. CASE i \in 1 .. mmap_entry - 1
      <4>1. Length(Candidate(memory_map[i], kernel)) <= Length(best)
        BY <3>2 DEF IInv, ChoiceOk
      <4>2. Length(Candidate(memory_map[i], kernel)) \in Int
        <5>1. memory_map[i] \in Entries
          BY <1>2, <3>2 DEF IInv, InputsOk
        <5> QED BY <1>2, <5>1, CandidateFacts DEF Length, Regions
      <4> HIDE DEF c
      <4> QED BY <1>4, <2>1, <4>1, <4>2
    <3> QED BY <1>2, <1>4, <3>1, <3>2
  <2>3. CASE best' = best
    <3>1. 1 .. mmap_entry - 1 \subseteq 1 .. mmap_entry' - 1
      BY <1>2, <1>4
    <3>2. \/ best = NoRegion
          \/ /\ Length(best) > PAGE_SIZE /\ Clear(best, kernel)
             /\ \E i \in 1 .. mmap_entry - 1 : Within(memory_map[i], best)
      BY DEF IInv, ChoiceOk
    <3>3. \/ best' = NoRegion
          \/ /\ Length(best') > PAGE_SIZE /\ Clear(best', kernel')
             /\ \E i \in 1 .. mmap_entry' - 1 : Within(memory_map'[i], best')
      BY <1>1, <2>3, <3>1, <3>2
    <3> QED BY <1>1, <1>4, <1>8, <2>2, <3>3 DEF ChoiceOk
  <2>4. CASE best' = c
    <3>1. mmap_entry \in 1 .. mmap_entry' - 1
      BY <1>2, <1>4
    <3>2. \/ best' = NoRegion
          \/ /\ Length(best') > PAGE_SIZE /\ Clear(best', kernel')
             /\ \E i \in 1 .. mmap_entry' - 1 : Within(memory_map'[i], best')
      BY <1>1, <1>3, <2>4, <3>1
    <3> QED BY <1>1, <1>4, <1>8, <2>2, <3>2 DEF ChoiceOk
  <2> QED BY <1>4, <2>3, <2>4
<1>10. BitmapOk' /\ CallsOk' /\ ScanOk'
  BY <1>4, <1>6, <1>8
     DEF IInv, BitmapOk, CallsOk, ScanOk, GrantedPagesAreMarked, GrantsInsideShortRegion,
         GrantsInsideRegion, NullMeansNoRun
<1> QED BY <1>1, <1>7, <1>9, <1>10 DEF IInv

\* How many pages a region has.
LEMMA CountFacts ==
  ASSUME NEW n \in Nat
  PROVE  Min({n \div PAGE_SIZE, MAX_PAGES}) \in 0 .. MAX_PAGES
<1>1. n \div PAGE_SIZE \in Nat /\ MAX_PAGES \in Nat
  BY Division, SizeFacts
<1>2. Min({n \div PAGE_SIZE, MAX_PAGES}) =
        IF n \div PAGE_SIZE <= MAX_PAGES THEN n \div PAGE_SIZE ELSE MAX_PAGES
  BY <1>1, MinOfTwo
<1> QED BY <1>1, <1>2

LEMMA InitFrameAllocatorKeeps == IInv /\ InitFrameAllocator => IInv'
<1> SUFFICES ASSUME IInv, InitFrameAllocator PROVE IInv'
  OBVIOUS
<1> DEFINE n == Min({Length(best) \div PAGE_SIZE, MAX_PAGES})
<1>1. InputsOk' /\ memory_map' = memory_map /\ kernel' = kernel
  BY DEF IInv, InputsOk, InitFrameAllocator, inputs
<1>2. n \in 0 .. MAX_PAGES
  <2>1. Length(best) \in Nat
    BY DEF IInv, TypeOK, Length, InitFrameAllocator
  <2> QED BY <2>1, CountFacts
<1>3. /\ pages' = BitmapOf(n) /\ paging_present_page_count' = n
      /\ paging_phys_page_base' = best.first /\ status' = "ready" /\ status = "boot"
      /\ Length(best) > 0 /\ mmap_entry > Len(memory_map)
      /\ mmap_entry' = mmap_entry /\ best' = best /\ scan' = scan
      /\ grants' = grants /\ last' = last
  BY DEF InitFrameAllocator
<1> HIDE DEF n
<1>4. /\ BitmapOf(n) \subseteq PageIndexes
      /\ n % BUCKET_SIZE < IntBits => BitmapOf(n) \subseteq 0 .. n - 1
  BY <1>2, BitmapFacts
<1>5. TypeOK'
  BY <1>1, <1>2, <1>3, <1>4 DEF IInv, TypeOK
<1>6. ~Initialised /\ Initialised'
  BY <1>3 DEF Initialised
<1>7. ChoiceOk'
  <2>1. mmap_entry = Len(memory_map) + 1
    BY <1>3 DEF IInv, TypeOK, InputsOk
  <2>2. /\ \/ best' = NoRegion
           \/ /\ Length(best') > PAGE_SIZE /\ Clear(best', kernel')
              /\ \E i \in 1 .. mmap_entry' - 1 : Within(memory_map'[i], best')
        /\ \A i \in 1 .. mmap_entry' - 1 :
             Length(Candidate(memory_map'[i], kernel')) <= Length(best')
    BY <1>1, <1>3 DEF IInv, ChoiceOk
  <2>3. /\ Length(best') > 0 /\ paging_phys_page_base' = best'.first
        /\ paging_present_page_count' = Min({Length(best') \div PAGE_SIZE, MAX_PAGES})
    BY <1>3 DEF n
  <2> QED BY <1>1, <1>3, <1>6, <2>1, <2>2, <2>3 DEF ChoiceOk
<1>8. BitmapOk'
  BY <1>3, <1>4, <1>6 DEF BitmapOk
<1>9. last.count = 0 /\ \A p \in PageIndexes : grants[p] = 0
  BY <1>6 DEF IInv, CallsOk
<1>10. CallsOk'
  BY <1>3, <1>6, <1>9
     DEF IInv, CallsOk, GrantedPagesAreMarked, GrantsInsideShortRegion,
         GrantsInsideRegion, NullMeansNoRun
<1>11. ScanOk'
  BY <1>3 DEF ScanOk
<1> QED BY <1>1, <1>5, <1>7, <1>8, <1>10, <1>11 DEF IInv

LEMMA InitFrameAllocatorFailsKeeps == IInv /\ InitFrameAllocatorFails => IInv'
<1> SUFFICES ASSUME IInv, InitFrameAllocatorFails PROVE IInv'
  OBVIOUS
<1>1. /\ status = "boot" /\ status' = "failed" /\ best = NoRegion
      /\ mmap_entry > Len(memory_map)
      /\ memory_map' = memory_map /\ kernel' = kernel
      /\ mmap_entry' = mmap_entry /\ best' = best /\ pages' = pages
      /\ paging_phys_page_base' = paging_phys_page_base
      /\ paging_present_page_count' = paging_present_page_count
      /\ scan' = scan /\ grants' = grants /\ last' = last
  BY DEF InitFrameAllocatorFails, inputs, managed
<1>2. ~Initialised /\ ~Initialised'
  BY <1>1 DEF Initialised
<1>3. InputsOk' /\ TypeOK'
  BY <1>1 DEF IInv, InputsOk, TypeOK
<1>4. ChoiceOk'
  <2>1. mmap_entry = Len(memory_map) + 1
    BY <1>1 DEF IInv, TypeOK, InputsOk
  <2>2. \A i \in 1 .. mmap_entry' - 1 :
          Length(Candidate(memory_map'[i], kernel')) <= Length(best')
    BY <1>1 DEF IInv, ChoiceOk
  <2> QED BY <1>1, <1>2, <2>1, <2>2 DEF ChoiceOk
<1>5. BitmapOk' /\ ScanOk' /\ CallsOk'
  BY <1>1, <1>2
     DEF IInv, BitmapOk, CallsOk, ScanOk, GrantedPagesAreMarked, GrantsInsideShortRegion,
         GrantsInsideRegion, NullMeansNoRun
<1> QED BY <1>3, <1>4, <1>5 DEF IInv

-----------------------------------------------------------------------------
ScanType == [count : Counts \cup {0}, page : 0 .. MAX_PAGES,
             run : 0 .. MAX_PAGES, candidate : 0 .. MAX_PAGES]

\* A step that only moves the scan.
LEMMA ScanStepKeeps ==
  ASSUME IInv, Initialised, status' = "scan", scan' \in ScanType,
         UNCHANGED <<inputs, mmap_entry, best, pages, managed, grants, last>>
  PROVE  InputsOk' /\ TypeOK' /\ ChoiceOk' /\ BitmapOk' /\ CallsOk'
<1>1. Initialised' /\ status # "boot" /\ status # "failed"
  BY DEF Initialised
<1>2. /\ memory_map' = memory_map /\ kernel' = kernel
      /\ mmap_entry' = mmap_entry /\ best' = best /\ pages' = pages
      /\ paging_phys_page_base' = paging_phys_page_base
      /\ paging_present_page_count' = paging_present_page_count
      /\ grants' = grants /\ last' = last
  BY DEF inputs, managed
<1>3. InputsOk' /\ TypeOK'
  BY <1>2 DEF IInv, InputsOk, TypeOK, ScanType
<1>4. ChoiceOk'
  BY <1>1, <1>2 DEF IInv, ChoiceOk
<1>5. BitmapOk'
  BY <1>1, <1>2 DEF IInv, BitmapOk
<1>6. CallsOk'
  BY <1>1, <1>2 DEF IInv, CallsOk, GrantedPagesAreMarked, GrantsInsideShortRegion,
                    GrantsInsideRegion, NullMeansNoRun
<1> QED BY <1>3, <1>4, <1>5, <1>6

LEMMA AllocPagesKeeps ==
  ASSUME IInv, NEW count \in Counts, AllocPages(count)
  PROVE  IInv'
<1>1. /\ status = "ready" /\ status' = "scan" /\ Initialised
      /\ UNCHANGED <<inputs, mmap_entry, best, pages, managed, grants, last>>
      /\ scan' = [count |-> count, page |-> 0, run |-> 0, candidate |-> 0]
  BY DEF AllocPages, NoScan, Initialised
<1>2. scan' \in ScanType
  BY <1>1, SizeFacts DEF ScanType
<1>3. ScanOk'
  <2>1. count \in Nat /\ 0 < count
    BY SizeFacts
  <2> QED BY <1>1, <2>1 DEF ScanOk
<1> QED BY <1>1, <1>2, <1>3, ScanStepKeeps DEF IInv

\* What a scan in progress has for types.
LEMMA ScanFacts ==
  ASSUME IInv, status = "scan"
  PROVE  /\ Initialised
         /\ scan.page \in 0 .. MAX_PAGES /\ scan.run \in Nat /\ scan.candidate \in Nat
         /\ scan.count \in Nat \ {0} /\ scan.count \in Counts
         /\ scan \in ScanType
         /\ scan.run < scan.count /\ scan.candidate + scan.run <= scan.page
         /\ pages \subseteq PageIndexes
<1>1. scan \in ScanType
  BY DEF IInv, TypeOK, ScanType
<1>2. /\ scan.page \in 0 .. MAX_PAGES /\ scan.run \in 0 .. MAX_PAGES
      /\ scan.candidate \in 0 .. MAX_PAGES
  BY <1>1 DEF ScanType
<1>3. /\ scan.count \in Counts /\ scan.run < scan.count
      /\ scan.candidate + scan.run <= scan.page
  BY DEF IInv, ScanOk
<1>4. pages \subseteq PageIndexes /\ Initialised
  BY DEF IInv, TypeOK, Initialised
<1>5. scan.run \in Nat /\ scan.candidate \in Nat
  BY <1>2, SizeFacts
<1>6. scan.count \in Nat \ {0}
  BY <1>3, SizeFacts
<1> QED BY <1>1, <1>2, <1>3, <1>4, <1>5, <1>6

\* No page of a bucket that is passed over is free.
LEMMA EmptyBucket ==
  ASSUME NEW p \in Nat, p % BUCKET_SIZE = 0, p < MAX_PAGES, InEmptyBucket(p)
  PROVE  /\ \A q \in p .. p + BUCKET_SIZE - 1 : q \notin pages
         /\ p + BUCKET_SIZE <= MAX_PAGES
<1>1. BucketStart(p) \in Nat /\ p = BucketStart(p) + (p % BUCKET_SIZE)
  BY BucketFacts
<1>2. p = BucketStart(p)
  BY <1>1
<1>3. p + BUCKET_SIZE <= MAX_PAGES
  BY <1>2, BucketFacts
<1>4. ASSUME NEW q \in p .. p + BUCKET_SIZE - 1 PROVE q \notin pages
  <2>1. p \div BUCKET_SIZE \in Nat
    BY Division, SizeFacts
  <2> DEFINE r == q - p
  <2>2. r \in 0 .. BUCKET_SIZE - 1 /\ q = (p \div BUCKET_SIZE) * BUCKET_SIZE + r
    BY <1>2, SizeFacts DEF BucketStart
  <2> HIDE DEF r
  <2>3. q \div BUCKET_SIZE = p \div BUCKET_SIZE
    BY <2>1, <2>2, DivisionUnique, SizeFacts
  <2> QED BY <2>3 DEF InEmptyBucket
<1> QED BY <1>3, <1>4

LEMMA SkipBucketKeeps == IInv /\ SkipBucket => IInv'
<1> SUFFICES ASSUME IInv, SkipBucket PROVE IInv'
  OBVIOUS
<1> DEFINE p == scan.page
<1>1. /\ status = "scan" /\ status' = "scan" /\ p < MAX_PAGES
      /\ p % BUCKET_SIZE = 0 /\ InEmptyBucket(p)
      /\ scan' = [scan EXCEPT !.page = p + BUCKET_SIZE]
      /\ UNCHANGED <<inputs, mmap_entry, best, pages, managed, grants, last>>
  BY DEF SkipBucket
<1>2. /\ p \in Nat /\ scan.run \in Nat /\ scan.candidate \in Nat
      /\ scan.count \in Nat \ {0} /\ scan.count \in Counts /\ scan \in ScanType
      /\ scan.run < scan.count /\ scan.candidate + scan.run <= p /\ Initialised
  BY <1>1, ScanFacts
<1>3. /\ \A q \in p .. p + BUCKET_SIZE - 1 : q \notin pages
      /\ p + BUCKET_SIZE <= MAX_PAGES
  BY <1>1, <1>2, EmptyBucket
<1>4. /\ scan'.page = p + BUCKET_SIZE /\ scan'.run = scan.run
      /\ scan'.candidate = scan.candidate /\ scan'.count = scan.count
      /\ scan' \in ScanType
  BY <1>1, <1>2, <1>3, SizeFacts DEF ScanType
<1> HIDE DEF p
<1>5. ASSUME NEW f \in 0 .. p + BUCKET_SIZE, f .. p + BUCKET_SIZE - 1 \subseteq pages
      PROVE  p + BUCKET_SIZE - f <= scan.run
  <2>1. CASE f <= p + BUCKET_SIZE - 1
    <3>1. p + BUCKET_SIZE - 1 \in f .. p + BUCKET_SIZE - 1
      BY <1>2, <2>1, SizeFacts
    <3>2. p + BUCKET_SIZE - 1 \in p .. p + BUCKET_SIZE - 1
      BY <1>2, SizeFacts
    <3> QED BY <1>3, <1>5, <3>1, <3>2
  <2>2. CASE f = p + BUCKET_SIZE
    BY <1>2, <2>2, SizeFacts
  <2> QED BY <1>2, <2>1, <2>2, SizeFacts
<1>6. ASSUME NEW f \in 0 .. p + BUCKET_SIZE, f + scan.count <= p + BUCKET_SIZE,
             f .. f + scan.count - 1 \subseteq pages
      PROVE  FALSE
  <2>1. f + scan.count - 1 \in f .. f + scan.count - 1
    BY <1>2
  <2>2. f + scan.count - 1 \in pages
    BY <1>6, <2>1
  <2>3. f + scan.count <= p
    <3>1. f + scan.count - 1 \notin p .. p + BUCKET_SIZE - 1
      BY <1>3, <2>2
    <3> QED BY <1>2, <1>6, <3>1, SizeFacts
  <2>4. f \in 0 .. p
    BY <1>2, <2>3
  <2> QED BY <1>1, <1>6, <2>3, <2>4 DEF IInv, ScanOk, p
<1>7. ScanOk'
  <2>1. scan.candidate + scan.run <= p + BUCKET_SIZE
    BY <1>2, SizeFacts
  <2>2. pages' = pages
    BY <1>1
  <2>3. \A f \in 0 .. scan'.page :
          f .. scan'.page - 1 \subseteq pages' => scan'.page - f <= scan'.run
    <3> SUFFICES ASSUME NEW f \in 0 .. scan'.page, f .. scan'.page - 1 \subseteq pages'
                 PROVE  scan'.page - f <= scan'.run
      OBVIOUS
    <3>1. scan'.page - 1 = p + BUCKET_SIZE - 1 /\ f \in 0 .. p + BUCKET_SIZE
      BY <1>2, <1>4, SizeFacts
    <3>2. f .. p + BUCKET_SIZE - 1 \subseteq pages
      BY <2>2, <3>1
    <3>3. p + BUCKET_SIZE - f <= scan.run
      BY <1>5, <3>1, <3>2
    <3> QED BY <1>2, <1>4, <3>3, SizeFacts
  <2>4. \A f \in 0 .. scan'.page :
          f + scan'.count <= scan'.page => ~ (f .. f + scan'.count - 1 \subseteq pages')
    <3> SUFFICES ASSUME NEW f \in 0 .. scan'.page, f + scan'.count <= scan'.page,
                        f .. f + scan'.count - 1 \subseteq pages'
                 PROVE  FALSE
      OBVIOUS
    <3>1. /\ f \in 0 .. p + BUCKET_SIZE /\ f + scan.count <= p + BUCKET_SIZE
          /\ f .. f + scan.count - 1 \subseteq pages
      BY <1>4, <2>2
    <3> QED BY <3>1, <1>6
  <2> QED BY <1>2, <1>4, <2>1, <2>3, <2>4 DEF ScanOk
<1> QED BY <1>1, <1>2, <1>4, <1>7, ScanStepKeeps DEF IInv

LEMMA ScanUsedPageKeeps == IInv /\ ScanUsedPage => IInv'
<1> SUFFICES ASSUME IInv, ScanUsedPage PROVE IInv'
  OBVIOUS
<1> DEFINE p == scan.page
<1>1. /\ status = "scan" /\ status' = "scan" /\ p < MAX_PAGES /\ p \notin pages
      /\ scan' = [scan EXCEPT !.page = p + 1, !.run = 0, !.candidate = p]
      /\ UNCHANGED <<inputs, mmap_entry, best, pages, managed, grants, last>>
  BY DEF ScanUsedPage, LooksAtPage, NextPage
<1>2. /\ p \in Nat /\ scan.count \in Nat \ {0} /\ scan.count \in Counts
      /\ scan \in ScanType /\ Initialised
  BY <1>1, ScanFacts
<1>3. /\ scan'.page = p + 1 /\ scan'.run = 0
      /\ scan'.candidate = p /\ scan'.count = scan.count
      /\ scan' \in ScanType
  <2>1. p + 1 \in 0 .. MAX_PAGES /\ p \in 0 .. MAX_PAGES /\ 0 \in 0 .. MAX_PAGES
    <3> HIDE DEF p
    <3> QED BY <1>1, <1>2, SizeFacts
  <2> HIDE DEF p
  <2> QED BY <1>1, <1>2, <2>1 DEF ScanType
<1>4. pages' = pages
  BY <1>1
<1>5. ASSUME NEW f \in 0 .. scan'.page, f .. scan'.page - 1 \subseteq pages'
      PROVE  scan'.page - f <= scan'.run
  <2>0. scan'.page - 1 = p /\ f \in 0 .. p + 1
    BY <1>2, <1>3
  <2>1. f \in 0 .. p + 1 /\ f .. p \subseteq pages
    BY <1>4, <1>5, <2>0
  <2> HIDE DEF p
  <2>2. p \in f .. p \/ f = p + 1
    BY <1>2, <2>1
  <2>3. f = p + 1
    BY <1>1, <2>1, <2>2
  <2> QED BY <1>2, <1>3, <2>3
<1>6. ASSUME NEW f \in 0 .. scan'.page, f + scan'.count <= scan'.page,
             f .. f + scan'.count - 1 \subseteq pages'
      PROVE  FALSE
  <2>1. /\ f \in 0 .. p + 1 /\ f + scan.count <= p + 1
        /\ f .. f + scan.count - 1 \subseteq pages
    BY <1>3, <1>4, <1>6
  <2>2. f + scan.count - 1 \in f .. f + scan.count - 1
    BY <1>2, <2>1
  <2>3. f + scan.count - 1 # p
    BY <1>1, <2>1, <2>2
  <2>4. f + scan.count <= p /\ f \in 0 .. p
    BY <1>2, <2>1, <2>3
  <2> QED BY <1>1, <2>1, <2>4 DEF IInv, ScanOk
<1>7. ScanOk'
  BY <1>2, <1>3, <1>5, <1>6 DEF ScanOk
<1> QED BY <1>1, <1>2, <1>3, <1>7, ScanStepKeeps DEF IInv

LEMMA ScanFreePageKeeps == IInv /\ ScanFreePage => IInv'
<1> SUFFICES ASSUME IInv, ScanFreePage PROVE IInv'
  OBVIOUS
<1> DEFINE p == scan.page
<1>1. /\ status = "scan" /\ status' = "scan" /\ p < MAX_PAGES /\ p \in pages
      /\ scan.run + 1 # scan.count
      /\ scan' = [scan EXCEPT !.page = p + 1, !.run = scan.run + 1]
      /\ UNCHANGED <<inputs, mmap_entry, best, pages, managed, grants, last>>
  BY DEF ScanFreePage, LooksAtPage, NextPage
<1>2. /\ p \in Nat /\ scan.run \in Nat /\ scan.candidate \in Nat
      /\ scan.count \in Nat \ {0} /\ scan.count \in Counts
      /\ scan.run < scan.count /\ scan.candidate + scan.run <= p
      /\ scan \in ScanType /\ Initialised
  BY <1>1, ScanFacts
<1>3. /\ scan'.page = p + 1 /\ scan'.run = scan.run + 1
      /\ scan'.candidate = scan.candidate /\ scan'.count = scan.count
      /\ scan' \in ScanType
  <2>1. p + 1 \in 0 .. MAX_PAGES /\ scan.run + 1 \in 0 .. MAX_PAGES
    <3> HIDE DEF p
    <3> QED BY <1>1, <1>2, SizeFacts
  <2> HIDE DEF p
  <2> QED BY <1>1, <1>2, <2>1 DEF ScanType
<1>4. pages' = pages
  BY <1>1
\* A run that ends at this page was counted up to the page before.
<1>5. ASSUME NEW f \in 0 .. p + 1, f .. p \subseteq pages
      PROVE  p + 1 - f <= scan.run + 1
  <2>1. CASE f = p + 1
    <3> HIDE DEF p
    <3> QED BY <1>2, <2>1
  <2>2. CASE f \in 0 .. p
    <3>1. f .. p - 1 \subseteq pages
      BY <1>2, <1>5
    <3>2. p - f <= scan.run
      BY <1>1, <2>2, <3>1 DEF IInv, ScanOk
    <3> HIDE DEF p
    <3> QED BY <1>2, <2>2, <3>2
  <2> HIDE DEF p
  <2> QED BY <1>2, <2>1, <2>2
<1>6. ASSUME NEW f \in 0 .. scan'.page, f .. scan'.page - 1 \subseteq pages'
      PROVE  scan'.page - f <= scan'.run
  <2>1. scan'.page - 1 = p
    BY <1>2, <1>3
  <2>2. f \in 0 .. p + 1 /\ f .. p \subseteq pages
    BY <1>3, <1>4, <1>6, <2>1
  <2>3. p + 1 - f <= scan.run + 1
    BY <1>5, <2>2
  <2> QED BY <1>2, <1>3, <2>3
<1>7. ASSUME NEW f \in 0 .. scan'.page, f + scan'.count <= scan'.page,
             f .. f + scan'.count - 1 \subseteq pages'
      PROVE  FALSE
  <2>1. /\ f \in 0 .. p + 1 /\ f + scan.count <= p + 1
        /\ f .. f + scan.count - 1 \subseteq pages
    BY <1>3, <1>4, <1>7
  <2>2. CASE f + scan.count = p + 1
    <3>1. f + scan.count - 1 = p
      BY <1>2, <2>1, <2>2
    <3>2. f .. p \subseteq pages
      BY <2>1, <3>1
    <3>3. p + 1 - f <= scan.run + 1
      BY <1>5, <2>1, <3>2
    <3> HIDE DEF p
    <3> QED BY <1>1, <1>2, <2>1, <2>2, <3>3
  <2>3. CASE f + scan.count <= p
    <3>1. f \in 0 .. p
      BY <1>2, <2>1, <2>3
    <3> QED BY <1>1, <2>1, <2>3, <3>1 DEF IInv, ScanOk
  <2> HIDE DEF p
  <2> QED BY <1>2, <2>1, <2>2, <2>3
<1>8. ScanOk'
  <2>1. /\ scan'.count \in Counts /\ scan'.run < scan'.count
        /\ scan'.candidate + scan'.run <= scan'.page
    <3> HIDE DEF p
    <3> QED BY <1>1, <1>2, <1>3
  <2> QED BY <1>6, <1>7, <2>1 DEF ScanOk
<1> QED BY <1>1, <1>2, <1>3, <1>8, ScanStepKeeps DEF IInv

LEMMA GrantKeeps == IInv /\ Grant => IInv'
<1> SUFFICES ASSUME IInv, Grant PROVE IInv'
  OBVIOUS
<1> DEFINE p == scan.page
           first == scan.candidate
           run == first .. first + scan.count - 1
<1>1. /\ status = "scan" /\ status' = "ready" /\ p < MAX_PAGES /\ p \in pages
      /\ scan.run + 1 = scan.count
      /\ pages' = pages \ run
      /\ grants' = [q \in PageIndexes |->
                     IF q \in run THEN Min({grants[q] + 1, GrantBound}) ELSE grants[q]]
      /\ last' = [count |-> scan.count, first |-> first]
      /\ scan' = NoScan
      /\ memory_map' = memory_map /\ kernel' = kernel
      /\ mmap_entry' = mmap_entry /\ best' = best
      /\ paging_phys_page_base' = paging_phys_page_base
      /\ paging_present_page_count' = paging_present_page_count
  BY DEF Grant, LooksAtPage, Marked, inputs, managed
<1>2. /\ p \in Nat /\ scan.run \in Nat /\ first \in Nat
      /\ scan.count \in Nat \ {0} /\ scan.count \in Counts
      /\ first + scan.run <= p /\ Initialised
      /\ pages \subseteq PageIndexes
  BY <1>1, ScanFacts
<1>3. /\ first + scan.count <= p + 1 /\ first \in PageIndexes
      /\ \A q \in run : q \in Nat /\ q <= p
  <2> HIDE DEF p
  <2> QED BY <1>1, <1>2, SizeFacts DEF PageIndexes
<1>4. Initialised' /\ status # "boot" /\ status # "failed"
  BY <1>1, <1>2 DEF Initialised
<1>5. grants \in [PageIndexes -> 0 .. GrantBound]
  BY DEF IInv, TypeOK
<1> HIDE DEF p, first, run
<1>6. ASSUME NEW q \in PageIndexes
      PROVE  Min({grants[q] + 1, GrantBound}) \in 0 .. GrantBound
  <2>1. grants[q] \in 0 .. 2 /\ GrantBound = 2
    BY <1>5 DEF GrantBound
  <2>2. Min({grants[q] + 1, GrantBound}) =
          IF grants[q] + 1 <= GrantBound THEN grants[q] + 1 ELSE GrantBound
    BY <2>1, MinOfTwo
  <2> QED BY <2>1, <2>2
<1>7. InputsOk'
  BY <1>1 DEF IInv, InputsOk
<1>8. TypeOK'
  <2>1. grants' \in [PageIndexes -> 0 .. GrantBound]
    BY <1>1, <1>5, <1>6
  <2>2. NoScan \in ScanType
    BY SizeFacts DEF NoScan, ScanType
  <2>3. last' \in [count : Counts \cup {0}, first : PageIndexes \cup {NULL}]
    BY <1>1, <1>2, <1>3
  <2>4. pages' \subseteq PageIndexes
    BY <1>1, <1>2
  <2> QED BY <1>1, <2>1, <2>2, <2>3, <2>4 DEF IInv, TypeOK, ScanType
<1>9. ChoiceOk'
  BY <1>1, <1>4 DEF IInv, ChoiceOk, Initialised
<1>10. last'.count # 0 /\ last'.first = first /\ last'.count = scan.count /\ first # NULL
  BY <1>1, <1>2, <1>3, MemoryAssumption
<1>11. BitmapOk'
  BY <1>1, <1>4, <1>10 DEF IInv, BitmapOk
<1>12. ASSUME NEW q \in PageIndexes, grants'[q] > 0
       PROVE  q \in run \/ grants[q] > 0
  BY <1>1, <1>12
<1>13. GrantedPagesAreMarked'
  <2>1. \A q \in PageIndexes : grants[q] > 0 => q \notin pages
    BY DEF IInv, CallsOk, GrantedPagesAreMarked
  <2>2. \A q \in PageIndexes : grants'[q] > 0 => q \notin pages'
    BY <1>1, <1>12, <2>1
  <2>3. last'.first + last'.count <= MAX_PAGES
    BY <1>1, <1>2, <1>3, <1>10, SizeFacts
  <2> QED BY <2>2, <2>3 DEF GrantedPagesAreMarked
<1>14. GrantsInsideShortRegion'
  <2> SUFFICES ASSUME paging_present_page_count % BUCKET_SIZE < IntBits,
                      NEW q \in PageIndexes, grants'[q] > 0
               PROVE  q < paging_present_page_count
    BY <1>1 DEF GrantsInsideShortRegion, GrantsInsideRegion
  <2>1. paging_present_page_count \in Nat
    BY SizeFacts DEF IInv, TypeOK
  <2>2. CASE q \in run
    <3>1. p \in 0 .. paging_present_page_count - 1
      BY <1>1 DEF IInv, BitmapOk
    <3> QED BY <1>2, <1>3, <2>1, <2>2, <3>1
  <2>3. CASE grants[q] > 0
    BY <2>3 DEF IInv, CallsOk, GrantsInsideShortRegion, GrantsInsideRegion
  <2> QED BY <1>12, <2>2, <2>3
<1>15. CallsOk'
  BY <1>4, <1>10, <1>13, <1>14 DEF CallsOk, NullMeansNoRun
<1>16. ScanOk'
  BY <1>1 DEF ScanOk
<1> QED BY <1>7, <1>8, <1>9, <1>11, <1>15, <1>16 DEF IInv

LEMMA AllocPagesFailsKeeps == IInv /\ AllocPagesFails => IInv'
<1> SUFFICES ASSUME IInv, AllocPagesFails PROVE IInv'
  OBVIOUS
<1>1. /\ status = "scan" /\ status' = "ready" /\ scan.page >= MAX_PAGES
      /\ last' = [count |-> scan.count, first |-> NULL]
      /\ scan' = NoScan /\ pages' = pages /\ grants' = grants
      /\ memory_map' = memory_map /\ kernel' = kernel
      /\ mmap_entry' = mmap_entry /\ best' = best
      /\ paging_phys_page_base' = paging_phys_page_base
      /\ paging_present_page_count' = paging_present_page_count
  BY DEF AllocPagesFails, inputs, managed
<1>2. /\ scan.page \in 0 .. MAX_PAGES /\ scan.count \in Nat \ {0}
      /\ scan.count \in Counts /\ Initialised /\ pages \subseteq PageIndexes
  BY <1>1, ScanFacts
<1>3. scan.page = MAX_PAGES
  BY <1>1, <1>2, SizeFacts
<1>4. Initialised' /\ status # "boot" /\ status # "failed"
  BY <1>1, <1>2 DEF Initialised
<1>5. /\ last'.count = scan.count /\ last'.first = NULL /\ last'.count # 0
  BY <1>1, <1>2
<1>6. InputsOk' /\ ChoiceOk'
  BY <1>1, <1>4 DEF IInv, InputsOk, ChoiceOk, Initialised
<1>7. TypeOK'
  <2>1. NoScan \in ScanType
    BY SizeFacts DEF NoScan, ScanType
  <2>2. last' \in [count : Counts \cup {0}, first : PageIndexes \cup {NULL}]
    BY <1>1, <1>2
  <2> QED BY <1>1, <2>1, <2>2 DEF IInv, TypeOK, ScanType
<1>8. BitmapOk'
  BY <1>1, <1>4, <1>5 DEF IInv, BitmapOk
<1>9. NullMeansNoRun'
  <2> SUFFICES ASSUME NEW first \in PageIndexes,
                      first .. first + scan.count - 1 \subseteq pages
               PROVE  FALSE
    BY <1>1, <1>5 DEF NullMeansNoRun
  <2>1. first \in Nat
    BY SizeFacts DEF PageIndexes
  <2>2. first + scan.count - 1 \in first .. first + scan.count - 1
    BY <1>2, <2>1
  <2>3. first + scan.count <= MAX_PAGES /\ first \in 0 .. MAX_PAGES
    BY <1>2, <2>1, <2>2, SizeFacts DEF PageIndexes
  <2> QED BY <1>1, <1>3, <2>3 DEF IInv, ScanOk
<1>10. CallsOk'
  BY <1>1, <1>4, <1>5, <1>9
     DEF IInv, CallsOk, GrantedPagesAreMarked, GrantsInsideShortRegion, GrantsInsideRegion
<1>11. ScanOk'
  BY <1>1 DEF ScanOk
<1> QED BY <1>6, <1>7, <1>8, <1>10, <1>11 DEF IInv

LEMMA StutterKeeps == IInv /\ UNCHANGED vars => IInv'
BY DEF vars, inputs, managed, IInv, InputsOk, TypeOK, ChoiceOk, BitmapOk, ScanOk, CallsOk,
       GrantedPagesAreMarked, GrantsInsideShortRegion, GrantsInsideRegion, NullMeansNoRun,
       Initialised

LEMMA IInvHolds == Spec => []IInv
<1>1. IInv /\ [Next]_vars => IInv'
  BY ConsiderEntryKeeps, InitFrameAllocatorKeeps, InitFrameAllocatorFailsKeeps,
     AllocPagesKeeps, SkipBucketKeeps, ScanUsedPageKeeps, ScanFreePageKeeps, GrantKeeps,
     AllocPagesFailsKeeps, StutterKeeps DEF Next
<1> QED BY <1>1, InitEstablishes, PTL DEF Spec

-----------------------------------------------------------------------------
(***************************************************************************)
(* The variables of the allocator keep their types: no index leaves the    *)
(* bitmap, neither of a bit that the sign extension sets (paging.c:157)    *)
(* nor of the page the scan looks at.                                      *)
(***************************************************************************)
THEOREM TypeCorrect == Spec => []TypeOK
BY IInvHolds, PTL DEF IInv

(***************************************************************************)
(* The region is usable memory of one entry of the map, and holds no whole *)
(* page of the kernel, for every map and every position of the kernel      *)
(* (paging.c:106-147).                                                     *)
(***************************************************************************)
THEOREM RegionIsRight == Spec => []RegionIsUsable
<1>1. IInv => RegionIsUsable
  <2> SUFFICES ASSUME IInv, Initialised PROVE RegionIsUsable
    BY DEF RegionIsUsable
  <2>1. /\ best \in Regions /\ Length(best) > 0
        /\ paging_phys_page_base = best.first
        /\ paging_present_page_count = Min({Length(best) \div PAGE_SIZE, MAX_PAGES})
    BY DEF IInv, TypeOK, ChoiceOk, Regions
  <2>2. Length(best) \in Nat /\ best.first \in Nat /\ best.end = best.first + Length(best)
    BY <2>1 DEF Length, Regions
  <2> DEFINE q == Length(best) \div PAGE_SIZE
             n == paging_present_page_count
  <2>3. q \in Nat /\ q * PAGE_SIZE <= Length(best)
    <3>1. AlignDown(Length(best)) <= Length(best)
      BY <2>2, AlignFacts
    <3> QED BY <2>2, <3>1, Division, SizeFacts DEF AlignDown
  <2>4. n \in Nat /\ n <= q
    <3>1. n = IF q <= MAX_PAGES THEN q ELSE MAX_PAGES
      BY <2>1, <2>3, MinOfTwo, SizeFacts
    <3> HIDE DEF q, n
    <3> QED BY <2>3, <3>1, SizeFacts
  <2>5. n * PAGE_SIZE <= q * PAGE_SIZE /\ n * PAGE_SIZE \in Nat /\ q * PAGE_SIZE \in Nat
    BY <2>3, <2>4, ProductOrder, SizeFacts
  <2>6. RegionEnd <= best.end /\ RegionEnd \in Nat
    <3> DEFINE x == n * PAGE_SIZE
               y == q * PAGE_SIZE
    <3>1. x <= y /\ x \in Nat /\ y \in Nat /\ y <= Length(best)
      BY <2>3, <2>5
    <3>2. RegionEnd = best.first + x
      BY <2>1 DEF RegionEnd
    <3> HIDE DEF x, y
    <3> QED BY <2>2, <3>1, <3>2
  <2>7. best # NoRegion
    BY <2>1 DEF NoRegion, Length
  <2>8. /\ Clear(best, kernel) /\ mmap_entry = Len(memory_map) + 1
        /\ \E i \in 1 .. mmap_entry - 1 : Within(memory_map[i], best)
    BY <2>7 DEF IInv, ChoiceOk, Initialised
  <2>9. PICK i \in 1 .. Len(memory_map) : Within(memory_map[i], best)
    BY <2>8 DEF IInv, InputsOk
  <2>10. memory_map[i] \in Entries /\ i \in DOMAIN memory_map
    BY <2>9 DEF IInv, InputsOk
  <2>11. /\ memory_map[i].usable
         /\ memory_map[i].base <= paging_phys_page_base
         /\ RegionEnd <= memory_map[i].base + memory_map[i].length
    BY <2>1, <2>2, <2>6, <2>9, <2>10 DEF Within, Entries, Regions
  <2>12. RegionEnd <= AlignUp(kernel[1]) \/ AlignDown(kernel[2]) <= paging_phys_page_base
    <3>1. AlignUp(kernel[1]) \in Nat /\ AlignDown(kernel[2]) \in Nat
      BY AlignFacts DEF IInv, InputsOk
    <3> QED BY <2>1, <2>2, <2>6, <2>8, <3>1 DEF Clear, Regions
  <2> QED BY <2>10, <2>11, <2>12 DEF RegionIsUsable
<1> QED BY <1>1, IInvHolds, PTL

(***************************************************************************)
(* No run of pages around the kernel is longer than the region             *)
(* (paging.c:140), and there is no region only if there is no such run of  *)
(* two pages.                                                              *)
(***************************************************************************)
THEOREM RegionIsLargest == Spec => []LargestRegionChosen
<1>1. IInv => LargestRegionChosen
  <2> SUFFICES ASSUME IInv, NEW r \in RunsAroundKernel
               PROVE  /\ Initialised =>
                           Min({Length(r) \div PAGE_SIZE, MAX_PAGES}) <= paging_present_page_count
                      /\ status = "failed" => Length(r) <= PAGE_SIZE
    BY DEF LargestRegionChosen
  <2>1. PICK m \in Nat, n \in Nat : r.first = PAGE_SIZE * m /\ r.end = PAGE_SIZE * n
    <3> DEFINE Top == Max({0} \cup
               {memory_map[i].base + memory_map[i].length : i \in DOMAIN memory_map})
               Edges == {PAGE_SIZE * n : n \in 0 .. Top \div PAGE_SIZE}
    <3>1. r \in [first : Edges, end : Edges]
      BY DEF RunsAroundKernel
    <3> HIDE DEF Top
    <3>2. \A e \in Edges : \E n \in Nat : e = PAGE_SIZE * n
      OBVIOUS
    <3> HIDE DEF Edges
    <3>3. r.first \in Edges /\ r.end \in Edges
      BY <3>1
    <3> QED BY <3>2, <3>3
  <2>2. PICK i \in DOMAIN memory_map :
          /\ memory_map[i].usable
          /\ memory_map[i].base <= r.first
          /\ r.end <= memory_map[i].base + memory_map[i].length
    BY DEF RunsAroundKernel
  <2>3. r.end <= AlignDown(kernel[1]) \/ AlignUp(kernel[2]) <= r.first
    BY DEF RunsAroundKernel
  <2>4. memory_map[i] \in Entries /\ kernel \in Nat \X Nat /\ i \in 1 .. Len(memory_map)
    BY <2>2 DEF IInv, InputsOk
  <2>5. \/ Length(r) <= PAGE_SIZE
        \/ Length(r) <= Length(Candidate(memory_map[i], kernel))
    BY <2>1, <2>2, <2>3, <2>4, CandidateIsLongest DEF Length
  <2>6. ASSUME status # "boot"
        PROVE  Length(Candidate(memory_map[i], kernel)) <= Length(best)
    <3>1. mmap_entry = Len(memory_map) + 1 /\ Len(memory_map) \in Nat
      BY <2>6 DEF IInv, ChoiceOk, InputsOk
    <3>2. i \in 1 .. mmap_entry - 1
      BY <2>4, <3>1
    <3> QED BY <3>2 DEF IInv, ChoiceOk
  <2>7. /\ Length(r) \in Int /\ Length(best) \in Int
        /\ Length(Candidate(memory_map[i], kernel)) \in Int
    <3>1. PAGE_SIZE * m \in Nat /\ PAGE_SIZE * n \in Nat
      BY SizeFacts
    <3>2. Candidate(memory_map[i], kernel) \in Regions
      BY <2>4, CandidateFacts
    <3> QED BY <2>1, <3>1, <3>2 DEF IInv, TypeOK, Length, Regions
  <2>8. ASSUME Initialised
        PROVE  Min({Length(r) \div PAGE_SIZE, MAX_PAGES}) <= paging_present_page_count
    <3>1. /\ Length(best) > PAGE_SIZE
          /\ paging_present_page_count = Min({Length(best) \div PAGE_SIZE, MAX_PAGES})
          /\ status # "boot"
      <4>1. Length(best) > 0
        BY <2>8 DEF IInv, ChoiceOk
      <4>2. best # NoRegion
        BY <4>1 DEF NoRegion, Length
      <4> QED BY <2>8, <4>2 DEF IInv, ChoiceOk, Initialised
    <3>2. Length(r) <= Length(best)
      BY <2>5, <2>6, <2>7, <3>1, SizeFacts
    <3>3. Length(r) \in Int /\ Length(best) \in Nat
      BY <2>7, <3>1, SizeFacts
    <3>4. Length(r) \div PAGE_SIZE \in Int /\ Length(r) \div PAGE_SIZE <= Length(best) \div PAGE_SIZE
      BY <3>2, <3>3, DivisionOrder, SizeFacts
    <3>5. Length(best) \div PAGE_SIZE \in Nat
      BY <3>3, Division, SizeFacts
    <3> DEFINE a == Length(r) \div PAGE_SIZE
               b == Length(best) \div PAGE_SIZE
    <3>6. a \in Int /\ b \in Int /\ a <= b /\ MAX_PAGES \in Int
      BY <3>4, <3>5, SizeFacts
    <3>7. paging_present_page_count = Min({b, MAX_PAGES})
      BY <3>1
    <3> HIDE DEF a, b
    <3>8. Min({a, MAX_PAGES}) <= Min({b, MAX_PAGES})
      BY <3>6, MinOfTwo
    <3> QED BY <3>7, <3>8 DEF a
  <2>9. ASSUME status = "failed" PROVE Length(r) <= PAGE_SIZE
    <3>1. best = NoRegion /\ Length(NoRegion) = 0
      BY <2>9 DEF IInv, ChoiceOk, NoRegion, Length
    <3> QED BY <2>5, <2>6, <2>7, <2>9, <3>1, SizeFacts
  <2> QED BY <2>8, <2>9
<1> QED BY <1>1, IInvHolds, PTL

(***************************************************************************)
(* Every page of the region is free at first: the bit that the shift of an *)
(* int loses is one that an earlier page's sign extension has set          *)
(* (paging.c:155-158).                                                     *)
(***************************************************************************)
THEOREM PagesStartFree == Spec => []PresentPagesStartFree
<1>1. IInv => PresentPagesStartFree
  <2>1. IInv => paging_present_page_count \in 0 .. MAX_PAGES
    BY DEF IInv, TypeOK
  <2> QED BY <2>1, BitmapFacts DEF IInv, BitmapOk, PresentPagesStartFree
<1> QED BY <1>1, IInvHolds, PTL

(***************************************************************************)
(* What is handed out is part of the region if its last bucket has fewer   *)
(* pages than an int has bits, after any sequence of calls.                *)
(***************************************************************************)
THEOREM ShortRegionsAreKept == Spec => []GrantsInsideShortRegion
BY IInvHolds, PTL DEF IInv, CallsOk

(***************************************************************************)
(* paging_alloc_pages gives up only when no run of free pages is long      *)
(* enough, buckets that are passed over and runs across buckets included.  *)
(***************************************************************************)
THEOREM NullMeansNoRunIsLeft == Spec => []NullMeansNoRun
BY IInvHolds, PTL DEF IInv, CallsOk

-----------------------------------------------------------------------------
(***************************************************************************)
(* Where a run begins                                                      *)
(***************************************************************************)

\* The bits that are set at first are those up to some page.
LEMMA BitmapIsPrefix ==
  ASSUME NEW count \in 0 .. MAX_PAGES, NEW b \in BitmapOf(count), NEW q \in Nat, q < b
  PROVE  q \in BitmapOf(count)
<1>1. PICK p \in 0 .. count - 1 : b \in BitsSetFor(p)
  BY DEF BitmapOf
<1>2. p \in Nat /\ p < count /\ count \in Nat
  BY SizeFacts
<1>3. 0 .. count - 1 \subseteq BitmapOf(count)
  BY BitmapFacts
<1>4. /\ BucketStart(p) \in Nat /\ p % BUCKET_SIZE \in Nat
      /\ p = BucketStart(p) + (p % BUCKET_SIZE)
      /\ ShiftedBit(p) \in BucketStart(p) .. BucketStart(p) + BUCKET_SIZE - 1
      /\ ShiftedBit(p) - BucketStart(p) < IntBits
      /\ p % BUCKET_SIZE < IntBits => ShiftedBit(p) = p
  <2>1. p % BUCKET_SIZE \in 0 .. BUCKET_SIZE - 1
    BY <1>2, BucketFacts
  <2>2. p % BUCKET_SIZE \in Nat
    <3> DEFINE o == p % BUCKET_SIZE
    <3>1. o \in 0 .. BUCKET_SIZE - 1
      BY <2>1
    <3> HIDE DEF o
    <3>2. o \in Nat
      BY <3>1, SizeFacts
    <3> QED BY <3>2 DEF o
  <2> QED BY <1>2, <2>2, BucketFacts
<1>5. ShiftedBit(p) <= p /\ ShiftedBit(p) \in Nat
  <2> DEFINE s == BucketStart(p)
             o == p % BUCKET_SIZE
             d == ShiftedBit(p)
  <2>1. /\ s \in Nat /\ o \in Nat /\ p = s + o /\ d \in s .. s + BUCKET_SIZE - 1
        /\ d - s < IntBits /\ (o < IntBits => d = p)
    BY <1>4
  <2> HIDE DEF s, o, d
  <2>2. d <= p /\ d \in Nat
    BY <2>1, SizeFacts
  <2> QED BY <2>2 DEF d
<1>6. CASE q < ShiftedBit(p)
  <2>1. q \in 0 .. count - 1
    BY <1>2, <1>5, <1>6
  <2> QED BY <1>3, <2>1
<1>7. CASE q >= ShiftedBit(p)
  <2>1. b # ShiftedBit(p)
    BY <1>5, <1>7
  <2>2. /\ BitsSetFor(p) = ShiftedBit(p) .. BucketStart(p) + BUCKET_SIZE - 1
        /\ b \in ShiftedBit(p) .. BucketStart(p) + BUCKET_SIZE - 1
    BY <1>1, <2>1 DEF BitsSetFor
  <2>3. q \in BitsSetFor(p)
    BY <1>4, <1>5, <1>7, <2>2, SizeFacts
  <2> QED BY <2>3 DEF BitmapOf
<1> QED BY <1>5, <1>6, <1>7

\* The pages handed out are those up to some page, and behind them the free ones
\* up to another.
InOrder ==
  \A p, q \in PageIndexes : q < p =>
    /\ p \in pages => q \in pages \/ grants[q] > 0
    /\ grants[p] > 0 => grants[q] > 0

\* The candidate is page 0 or a page in use.
CandidateOk ==
  status = "scan" => scan.candidate = 0 \/ scan.candidate \notin pages

\* So the page a run begins with is in use, unless none is.
LEMMA RunBeginsInUse ==
  ASSUME IInv, InOrder, CandidateOk, Grant, NEW p \in PageIndexes, grants[p] > 0
  PROVE  scan.candidate \in PageIndexes /\ grants[scan.candidate] > 0
<1>1. /\ status = "scan" /\ scan.page < MAX_PAGES /\ scan.page \in pages
  BY DEF Grant, LooksAtPage
<1>2. /\ scan.page \in Nat /\ scan.run \in Nat /\ scan.candidate \in Nat
      /\ scan.candidate + scan.run <= scan.page
  BY <1>1, ScanFacts
<1>3. scan.candidate \in PageIndexes /\ scan.page \in PageIndexes
  BY <1>1, <1>2, SizeFacts DEF PageIndexes
<1>4. CASE scan.candidate = 0
  <2>1. p = 0 \/ 0 < p
    BY SizeFacts DEF PageIndexes
  <2> QED BY <1>3, <1>4, <2>1 DEF InOrder
<1>5. CASE scan.candidate \notin pages
  <2>1. scan.candidate < scan.page
    BY <1>1, <1>2, <1>5
  <2> QED BY <1>1, <1>3, <1>5, <2>1 DEF InOrder
<1> QED BY <1>1, <1>3, <1>4, <1>5 DEF CandidateOk

LEMMA GrantKeepsOrder ==
  ASSUME IInv, InOrder, CandidateOk, Grant
  PROVE  InOrder'
<1> DEFINE first == scan.candidate
           run == first .. first + scan.count - 1
<1>1. /\ pages' = pages \ run
      /\ grants' = [q \in PageIndexes |->
                     IF q \in run THEN Min({grants[q] + 1, GrantBound}) ELSE grants[q]]
  BY DEF Grant, Marked
<1>2. first \in Nat /\ scan.count \in Nat
  <2>1. status = "scan"
    BY DEF Grant, LooksAtPage
  <2> QED BY <2>1, ScanFacts
<1>3. \A q \in PageIndexes : grants[q] \in 0 .. 2
  BY DEF IInv, TypeOK, GrantBound
<1>4. (\E p \in PageIndexes : grants[p] > 0) => first \in PageIndexes /\ grants[first] > 0
  BY RunBeginsInUse
<1>5. first = 0 \/ \E p \in PageIndexes : grants[p] > 0
  <2>1. SUFFICES ASSUME first # 0 PROVE \E p \in PageIndexes : grants[p] > 0
    OBVIOUS
  <2>2. /\ status = "scan" /\ scan.page < MAX_PAGES /\ scan.page \in pages
    BY DEF Grant, LooksAtPage
  <2>3. /\ scan.page \in Nat /\ scan.run \in Nat /\ first + scan.run <= scan.page
    BY <2>2, ScanFacts
  <2>4. first \in PageIndexes /\ scan.page \in PageIndexes /\ first \notin pages
    BY <1>2, <2>1, <2>2, <2>3, SizeFacts DEF PageIndexes, CandidateOk
  <2>5. first < scan.page
    BY <1>2, <2>2, <2>3, <2>4
  <2> QED BY <2>2, <2>4, <2>5 DEF InOrder
<1> HIDE DEF first
<1>6. ASSUME NEW q \in PageIndexes
      PROVE  grants'[q] > 0 <=> q \in run \/ grants[q] > 0
  <2>1. Min({grants[q] + 1, GrantBound}) =
          IF grants[q] + 1 <= GrantBound THEN grants[q] + 1 ELSE GrantBound
    BY <1>3, MinOfTwo DEF GrantBound
  <2> QED BY <1>1, <1>3, <2>1 DEF GrantBound
<1>7. ASSUME NEW q \in PageIndexes, q < first PROVE grants[q] > 0
  <2>1. q \in Nat
    BY DEF PageIndexes
  <2>2. first # 0
    BY <1>7, <2>1
  <2> QED BY <1>4, <1>5, <1>7, <2>2 DEF InOrder
<1>8. SUFFICES ASSUME NEW p \in PageIndexes, NEW q \in PageIndexes, q < p
               PROVE  /\ p \in pages' => q \in pages' \/ grants'[q] > 0
                      /\ grants'[p] > 0 => grants'[q] > 0
  BY DEF InOrder
<1>9. p \in Nat /\ q \in Nat
  BY DEF PageIndexes
<1>10. /\ p \in pages => q \in pages \/ grants[q] > 0
       /\ grants[p] > 0 => grants[q] > 0
  BY <1>8 DEF InOrder
<1>11. p \in pages' => q \in pages' \/ grants'[q] > 0
  BY <1>1, <1>6, <1>10
<1>12. p \in run => q \in run \/ q < first
  BY <1>2, <1>8, <1>9
<1> HIDE DEF run
<1>13. grants'[p] > 0 => grants'[q] > 0
  BY <1>6, <1>7, <1>10, <1>12
<1> QED BY <1>11, <1>13

LEMMA OrderHolds == Spec => [](InOrder /\ CandidateOk)
<1>1. Init => InOrder /\ CandidateOk
  BY DEF Init, InOrder, CandidateOk
<1>2. IInv /\ IInv' /\ InOrder /\ CandidateOk /\ [Next]_vars => InOrder' /\ CandidateOk'
  <2> SUFFICES ASSUME IInv, IInv', InOrder, CandidateOk, [Next]_vars
               PROVE  InOrder' /\ CandidateOk'
    OBVIOUS
  <2>1. CASE InitFrameAllocator
    <3>1. Initialised' /\ last' = last /\ grants' = grants /\ status' = "ready" /\ status = "boot"
      BY <2>1 DEF InitFrameAllocator, Initialised
    <3>2. last.count = 0 /\ \A p \in PageIndexes : grants[p] = 0
      BY <3>1 DEF IInv, CallsOk, Initialised
    <3>3. pages' = BitmapOf(paging_present_page_count')
      BY <3>1, <3>2 DEF IInv, BitmapOk
    <3>4. paging_present_page_count' \in 0 .. MAX_PAGES
      BY DEF IInv, TypeOK
    <3>5. \A p, q \in PageIndexes : q < p /\ p \in pages' => q \in pages'
      BY <3>3, <3>4, BitmapIsPrefix DEF PageIndexes
    <3> QED BY <3>1, <3>2, <3>5 DEF InOrder, CandidateOk
  <2>2. CASE Grant
    <3>1. status' = "ready"
      BY <2>2 DEF Grant
    <3> QED BY <2>2, <3>1, GrantKeepsOrder DEF CandidateOk
  <2>3. CASE AllocPagesFails \/ ConsiderEntry \/ InitFrameAllocatorFails \/ UNCHANGED vars
    BY <2>3 DEF AllocPagesFails, ConsiderEntry, InitFrameAllocatorFails, vars, InOrder,
       CandidateOk
  <2>4. CASE \E count \in Counts : AllocPages(count)
    BY <2>4 DEF AllocPages, NoScan, InOrder, CandidateOk
  <2>5. CASE SkipBucket \/ ScanUsedPage \/ ScanFreePage
    <3>1. /\ status = "scan" /\ pages' = pages /\ grants' = grants
          /\ \/ scan'.candidate = scan.candidate
             \/ scan'.candidate = scan.page /\ scan.page \notin pages
      <4>1. status = "scan"
        BY <2>5 DEF SkipBucket, ScanUsedPage, ScanFreePage, LooksAtPage
      <4>2. scan \in ScanType
        BY DEF IInv, TypeOK, ScanType
      <4> QED BY <2>5, <4>1, <4>2 DEF ScanType, SkipBucket, ScanUsedPage, ScanFreePage
    <3> QED BY <3>1 DEF InOrder, CandidateOk
  <2> QED BY <2>1, <2>2, <2>3, <2>4, <2>5 DEF Next
<1> QED BY <1>1, <1>2, IInvHolds, PTL DEF Spec

(***************************************************************************)
(* Once a page has been handed out, every further run begins with a page   *)
(* that was (paging.c:168-178), whatever the region, the sizes asked for   *)
(* and the number of buckets: the pages handed out are the first ones of   *)
(* the region, and the candidate is the last of them, or page 0.           *)
(***************************************************************************)
THEOREM EveryLaterRunBeginsInUse == Spec => LaterRunsBeginInUse
<1>1. IInv /\ InOrder /\ CandidateOk /\ [Next]_vars =>
        [/\ status = "scan" /\ status' = "ready" /\ last'.first # NULL
         /\ \E p \in PageIndexes : grants[p] > 0
         => grants[last'.first] > 0]_vars
  <2> SUFFICES ASSUME IInv, InOrder, CandidateOk, [Next]_vars,
                      status = "scan", status' = "ready", last'.first # NULL,
                      NEW p \in PageIndexes, grants[p] > 0
               PROVE  grants[last'.first] > 0
    OBVIOUS
  <2>1. ~AllocPagesFails
    BY DEF AllocPagesFails
  <2>2. Grant
    BY <2>1 DEF Next, vars, ConsiderEntry, InitFrameAllocator, InitFrameAllocatorFails,
       AllocPages, SkipBucket, ScanUsedPage, ScanFreePage
  <2>3. last'.first = scan.candidate
    BY <2>2 DEF Grant
  <2> QED BY <2>2, <2>3, RunBeginsInUse
<1> QED BY <1>1, IInvHolds, OrderHolds, PTL DEF LaterRunsBeginInUse, Spec
=============================================================================
