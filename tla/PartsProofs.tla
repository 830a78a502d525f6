----------------------------- MODULE PartsProofs -----------------------------
(***************************************************************************)
(* Proofs about the components of Parts, for all values of the constants.  *)
(***************************************************************************)
EXTENDS Parts, Integers, Sequences, FiniteSetTheorems, WellFoundedInduction, TLAPS

\* The least of a set of numbers.
LEMMA Least ==
  ASSUME NEW T \in SUBSET Nat, T # {}
  PROVE  \E x \in T : \A y \in T : x <= y
<1>1. PICK x \in T : \A y \in T : ~(<<y, x>> \in OpToRel(<, Nat))
  BY WFMin, NatLessThanWellFounded
<1>2. \A y \in T : ~(y < x)
  BY <1>1 DEF OpToRel
<1> QED
  BY <1>2

\* The components count the members of a set as the library does.
LEMMA SameCardinality ==
  ASSUME NEW S
  PROVE  Faults!Cardinality(S) = Cardinality(S) /\ Kingsley!Cardinality(S) = Cardinality(S)
BY DEF Faults!Cardinality, Kingsley!Cardinality, Cardinality

----------------------------------------------------------------------------
(* RandomMmap *)

\* The side condition: pages and words are not empty, sizes counted from one.
MmapSized ==
  /\ PageBytes \in Nat \ {0} /\ RegionPages \in Nat /\ WORDBITS \in Nat \ {0}
  /\ Bytes \subseteq Nat \ {0}

\* The words of the bitmap, and the runs at pages of the region.
Items == DOMAIN Mmap!reserve
MmapTypeInv ==
  /\ word \in [Items -> SUBSET Nat]
  /\ asked \in Bytes \cup {0}
  /\ open \subseteq Mmap!Index
  /\ \A r \in runs : \E x \in Nat, sz \in Bytes :
       r = <<x * PageBytes, sz>> /\ x + Mmap!npages(sz) <= RegionPages

\* The bits of the pages that are open are set, and no others.
BitInv == \A p \in Mmap!Index : Mmap!isSet(p) <=> p \in open

\* Every open page is of one run.
OpenInv ==
  /\ \A r \in runs : Mmap!PagesOfRun(r) \subseteq open
  /\ \A p \in open : \E r \in runs : p \in Mmap!PagesOfRun(r)
  /\ \A r, q \in runs : r # q => Mmap!PagesOfRun(r) \cap Mmap!PagesOfRun(q) = {}

MmapIInv == MmapTypeInv /\ BitInv /\ OpenInv

(* RandomMmap: Division *)

\* Quotient and remainder.
LEMMA Division ==
  ASSUME NEW a \in Nat, NEW b \in Nat \ {0}
  PROVE  /\ a \div b \in Nat /\ a % b \in Nat
         /\ a % b < b
         /\ a = b * (a \div b) + (a % b)
<1>1. a \div b \in Nat
  BY Z3
<1>2. a % b \in Nat /\ a % b < b
  BY Z3
<1>3. a = b * (a \div b) + (a % b)
  BY Z3
<1> QED
  BY <1>1, <1>2, <1>3

\* A factor is found again by comparing the products.
LEMMA Factor ==
  ASSUME NEW b \in Nat \ {0}, NEW x \in Int, NEW y \in Int
  PROVE  /\ x <= y => b * x <= b * y
         /\ x < y => b * x + b <= b * y
         /\ b * x \in Int /\ b * x = x * b
<1>1. x <= y => b * x <= b * y
  BY Z3
<1>2. x < y => b * x + b <= b * y
  <2>1. x + 1 <= y => b * (x + 1) <= b * y
    BY Z3
  <2>2. b * (x + 1) = b * x + b
    BY Z3
  <2> QED
    BY <2>1, <2>2
<1>3. b * x \in Int /\ b * x = x * b
  BY Z3
<1> QED
  BY <1>1, <1>2, <1>3

\* The number of pages of a size.
LEMMA Npages ==
  ASSUME MmapSized, NEW sz \in Bytes
  PROVE  /\ Mmap!npages(sz) \in Nat
         /\ sz <= PageBytes * Mmap!npages(sz)
         /\ PageBytes * Mmap!npages(sz) < sz + PageBytes
<1> DEFINE n == (sz + PageBytes - 1) \div PageBytes
           r == (sz + PageBytes - 1) % PageBytes
<1>1. sz + PageBytes - 1 \in Nat
  BY DEF MmapSized
<1>2. /\ n \in Nat /\ r \in Nat /\ r < PageBytes
      /\ sz + PageBytes - 1 = PageBytes * n + r
  BY <1>1, Division DEF MmapSized
<1>3. PageBytes * n \in Int /\ PageBytes \in Nat /\ sz \in Nat
  BY <1>2 DEF MmapSized
<1>4. Mmap!npages(sz) = n
  BY DEF Mmap!npages
<1> HIDE DEF n, r
<1>5. sz <= PageBytes * n /\ PageBytes * n < sz + PageBytes
  BY <1>2, <1>3
<1> QED
  BY <1>2, <1>4, <1>5

\* A run has the pages that map set the bits of, and unmap finds the first of
\* them by its address.
LEMMA RunPages ==
  ASSUME MmapSized, NEW x \in Nat, NEW sz \in Bytes,
         x + Mmap!npages(sz) <= RegionPages
  PROVE  /\ Mmap!PagesOfRun(<<x * PageBytes, sz>>) = x .. x + Mmap!npages(sz) - 1
         /\ (x * PageBytes) \div PageBytes = x
         /\ x .. x + Mmap!npages(sz) - 1 \subseteq Mmap!Index
<1> DEFINE n == Mmap!npages(sz)
           a == x * PageBytes
           q == a \div PageBytes
<1>1. /\ n \in Nat /\ sz <= PageBytes * n /\ PageBytes * n < sz + PageBytes
  BY Npages
<1>2. /\ PageBytes \in Nat \ {0} /\ RegionPages \in Nat /\ sz \in Nat \ {0}
      /\ x + n <= RegionPages
  BY DEF MmapSized
<1>3. a \in Nat /\ a = PageBytes * x
  <2>1. \A b, c \in Nat : b * c \in Nat /\ b * c = c * b
    BY Z3
  <2> QED
    BY <1>2, <2>1
<1>4. q = x
  <2>1. /\ q \in Nat /\ a % PageBytes \in Nat /\ a % PageBytes < PageBytes
        /\ a = PageBytes * q + (a % PageBytes)
    BY <1>2, <1>3, Division
  <2>2. PageBytes * q \in Int /\ PageBytes * x \in Int
    BY <1>2, <2>1, Factor
  <2>3. ~(q < x)
    <3>1. q < x => PageBytes * q + PageBytes <= PageBytes * x
      BY <1>2, <2>1, Factor
    <3> HIDE DEF q, a
    <3> QED
      BY <1>2, <1>3, <2>1, <2>2, <3>1
  <2>4. ~(x < q)
    <3> DEFINE bx == PageBytes * x
               bq == PageBytes * q
    <3>1. x < q => bx + PageBytes <= bq
      BY <1>2, <2>1, Factor
    <3>2. bx \in Int /\ bq \in Int /\ a = bx
      BY <1>3, <2>2
    <3>3. bq <= a
      BY <2>1, <3>2
    <3> HIDE DEF q, a, bx, bq
    <3> QED
      BY <1>2, <3>1, <3>2, <3>3
  <2> HIDE DEF q
  <2> QED
    BY <2>1, <2>3, <2>4
<1>5. x .. x + n - 1 \subseteq Mmap!Index
  <2> HIDE DEF n
  <2> QED
    BY <1>1, <1>2 DEF Mmap!Index
<1>6. ASSUME NEW p \in Mmap!Index
      PROVE  p * PageBytes < a + sz /\ (p + 1) * PageBytes > a <=> p \in x .. x + n - 1
  <2>1. p \in Nat
    BY <1>2 DEF Mmap!Index
  <2>2. p * PageBytes = PageBytes * p /\ PageBytes * p \in Int
    BY <1>2, <2>1, Factor
  <2>3. /\ (p + 1) * PageBytes = PageBytes * (p + 1) /\ PageBytes * (p + 1) \in Int
    BY <1>2, <2>1, Factor
  <2>4. x + n \in Nat /\ PageBytes * (x + n) = PageBytes * x + PageBytes * n
    <3>1. \A b, c, d \in Nat : b * (c + d) = b * c + b * d
      BY Z3
    <3> QED
      BY <1>1, <1>2, <3>1
  <2>5. PageBytes * n \in Int /\ PageBytes * x \in Int
    BY <1>1, <1>2, Factor
  <2>6. CASE p < x
    <3>1. p + 1 <= x /\ PageBytes * (p + 1) <= PageBytes * x
      BY <1>2, <2>1, <2>6, Factor
    <3> HIDE DEF n, a
    <3> QED
      BY <1>1, <1>3, <2>1, <2>3, <2>5, <2>6, <3>1
  <2>7. CASE x + n <= p
    <3>1. PageBytes * (x + n) <= PageBytes * p
      BY <1>2, <2>1, <2>4, <2>7, Factor
    <3> HIDE DEF n, a
    <3> QED
      BY <1>1, <1>2, <1>3, <2>1, <2>2, <2>4, <2>5, <2>7, <3>1
  <2>8. CASE x <= p /\ p < x + n
    <3>1. PageBytes * p + PageBytes <= PageBytes * (x + n)
      BY <1>2, <2>1, <2>4, <2>8, Factor
    <3>2. PageBytes * x + PageBytes <= PageBytes * (p + 1)
      BY <1>2, <2>1, <2>8, Factor
    <3> HIDE DEF n, a
    <3> QED
      BY <1>1, <1>2, <1>3, <2>1, <2>2, <2>3, <2>4, <2>5, <2>8, <3>1, <3>2
  <2> HIDE DEF n
  <2> QED
    BY <1>1, <2>1, <2>4, <2>6, <2>7, <2>8
<1>7. Mmap!PagesOfRun(<<a, sz>>) =
        {p \in Mmap!Index : p * PageBytes < a + sz /\ (p + 1) * PageBytes > a}
  BY DEF Mmap!PagesOfRun
<1> HIDE DEF n, a
<1>8. Mmap!PagesOfRun(<<a, sz>>) = x .. x + n - 1
  BY <1>5, <1>6, <1>7
<1> QED
  BY <1>4, <1>5, <1>8 DEF n, a

(* RandomMmap: The bitmap *)

\* Every page has a word.
LEMMA ItemOfPage ==
  ASSUME MmapSized, NEW p \in Mmap!Index
  PROVE  Mmap!Item(p) \in Items /\ Mmap!Position(p) \in Nat
<1> DEFINE w == Mmap!Item(p)
           c == (RegionPages + WORDBITS - 1) \div WORDBITS
<1>1. p \in Nat /\ RegionPages \in Nat /\ p <= RegionPages - 1 /\ WORDBITS \in Nat \ {0}
  BY DEF MmapSized, Mmap!Index
<1>2. /\ w \in Nat /\ Mmap!Position(p) \in Nat /\ p = WORDBITS * w + Mmap!Position(p)
  BY <1>1, Division DEF Mmap!Item, Mmap!Position
<1>3. RegionPages + WORDBITS - 1 \in Nat
  BY <1>1
<1> DEFINE r == (RegionPages + WORDBITS - 1) % WORDBITS
<1>4. c \in Nat /\ r \in Nat /\ r < WORDBITS /\ RegionPages + WORDBITS - 1 = WORDBITS * c + r
  BY <1>1, <1>3, Division
<1> HIDE DEF w, c, r
<1>5. WORDBITS * w \in Int /\ WORDBITS * c \in Int /\ (c <= w => WORDBITS * c <= WORDBITS * w)
  BY <1>1, <1>2, <1>4, Factor
<1>6. w <= c - 1
  BY <1>1, <1>2, <1>4, <1>5
<1>7. Items = 0 .. c - 1
  BY DEF Items, Mmap!reserve, c
<1> QED
  BY <1>2, <1>4, <1>6, <1>7 DEF w

\* Two pages have different words or positions.
LEMMA PageOfItem ==
  ASSUME MmapSized, NEW p \in Mmap!Index, NEW q \in Mmap!Index,
         Mmap!Item(p) = Mmap!Item(q), Mmap!Position(p) = Mmap!Position(q)
  PROVE  p = q
<1>1. p \in Nat /\ q \in Nat /\ WORDBITS \in Nat \ {0}
  BY DEF MmapSized, Mmap!Index
<1>2. p = WORDBITS * Mmap!Item(p) + Mmap!Position(p) /\ q = WORDBITS * Mmap!Item(q) + Mmap!Position(q)
  BY <1>1, Division DEF Mmap!Item, Mmap!Position
<1> QED
  BY <1>2

\* tryToSet sets the bits of the run and no others, and reset clears them.
LEMMA SetAndReset ==
  ASSUME MmapSized, MmapTypeInv, NEW I \in SUBSET Mmap!Index
  PROVE  /\ word' = Mmap!SetAll(I) =>
              /\ word' \in [Items -> SUBSET Nat]
              /\ \A p \in Mmap!Index : Mmap!isSet(p)' <=> Mmap!isSet(p) \/ p \in I
         /\ word' = Mmap!ResetAll(I) =>
              /\ word' \in [Items -> SUBSET Nat]
              /\ \A p \in Mmap!Index : Mmap!isSet(p)' <=> Mmap!isSet(p) /\ p \notin I
<1> DEFINE In(w) == {Mmap!Position(i) : i \in {j \in I : Mmap!Item(j) = w}}
<1>1. \A w : In(w) \subseteq Nat
  BY ItemOfPage
<1>2. \A p \in Mmap!Index : Mmap!Position(p) \in In(Mmap!Item(p)) <=> p \in I
  BY PageOfItem
<1>3. \A p \in Mmap!Index : Mmap!Item(p) \in Items
  BY ItemOfPage
<1>4. ASSUME word' = Mmap!SetAll(I)
      PROVE  /\ word' \in [Items -> SUBSET Nat]
             /\ \A p \in Mmap!Index : Mmap!isSet(p)' <=> Mmap!isSet(p) \/ p \in I
  <2>1. word' = [w \in Items |-> word[w] \cup In(w)]
    BY <1>4 DEF Mmap!SetAll, MmapTypeInv
  <2> HIDE DEF In
  <2>2. word' \in [Items -> SUBSET Nat]
    BY <1>1, <2>1 DEF MmapTypeInv
  <2>3. \A p \in Mmap!Index : Mmap!isSet(p)' <=> Mmap!isSet(p) \/ p \in I
    BY <1>2, <1>3, <2>1 DEF Mmap!isSet
  <2> QED
    BY <2>2, <2>3
<1>5. ASSUME word' = Mmap!ResetAll(I)
      PROVE  /\ word' \in [Items -> SUBSET Nat]
             /\ \A p \in Mmap!Index : Mmap!isSet(p)' <=> Mmap!isSet(p) /\ p \notin I
  <2>1. word' = [w \in Items |-> word[w] \ In(w)]
    BY <1>5 DEF Mmap!ResetAll, MmapTypeInv
  <2> HIDE DEF In
  <2>2. word' \in [Items -> SUBSET Nat]
    BY <1>1, <2>1 DEF MmapTypeInv
  <2>3. \A p \in Mmap!Index : Mmap!isSet(p)' <=> Mmap!isSet(p) /\ p \notin I
    BY <1>2, <1>3, <2>1 DEF Mmap!isSet
  <2> QED
    BY <2>2, <2>3
<1> QED
  BY <1>4, <1>5

(* RandomMmap: The steps *)

\* A run that is held, by its pages.
LEMMA HeldRun ==
  ASSUME MmapSized, MmapTypeInv, NEW r \in runs
  PROVE  /\ Mmap!PagesOfRun(r) = (r[1] \div PageBytes) .. (r[1] \div PageBytes) + Mmap!npages(r[2]) - 1
         /\ Mmap!PagesOfRun(r) \subseteq Mmap!Index
<1>1. PICK x \in Nat, sz \in Bytes :
        r = <<x * PageBytes, sz>> /\ x + Mmap!npages(sz) <= RegionPages
  BY DEF MmapTypeInv
<1>2. r[1] = x * PageBytes /\ r[2] = sz
  BY <1>1
<1> QED
  BY <1>1, <1>2, RunPages

\* The probe that finds no bit set takes the run.
LEMMA ProbeTakes ==
  ASSUME MmapSized, MmapIInv, NEW index \in Mmap!Index, asked > 0,
         index \in 0 .. RegionPages - Mmap!npages(asked),
         \A i \in 0 .. Mmap!npages(asked) - 1 : ~Mmap!isSet(index + i),
         word' = Mmap!SetAll(index .. index + Mmap!npages(asked) - 1),
         open' = open \cup (index .. index + Mmap!npages(asked) - 1),
         runs' = runs \cup {<<index * PageBytes, asked>>}, asked' = 0
  PROVE  MmapIInv'
<1> DEFINE n == Mmap!npages(asked)
           I == index .. index + n - 1
           new == <<index * PageBytes, asked>>
<1>1. asked \in Bytes
  BY DEF MmapIInv, MmapTypeInv
<1>2. index \in Nat /\ n \in Nat /\ index + n <= RegionPages
  BY <1>1, Npages DEF Mmap!Index, MmapSized
<1>3. Mmap!PagesOfRun(new) = I /\ I \subseteq Mmap!Index
  BY <1>1, <1>2, RunPages
<1>4. \A p \in I : ~Mmap!isSet(p)
  <2> SUFFICES ASSUME NEW p \in I PROVE ~Mmap!isSet(p)
    OBVIOUS
  <2>1. p - index \in 0 .. n - 1 /\ index + (p - index) = p
    BY <1>2
  <2> QED
    BY <2>1
<1>5. /\ word' \in [Items -> SUBSET Nat]
      /\ \A p \in Mmap!Index : Mmap!isSet(p)' <=> Mmap!isSet(p) \/ p \in I
  BY <1>3, SetAndReset DEF MmapIInv
<1>6. I \cap open = {}
  BY <1>3, <1>4 DEF MmapIInv, BitInv
<1>7. /\ runs' = runs \cup {new} /\ open' = open \cup I /\ asked' = 0
      /\ \E x \in Nat, sz \in Bytes : new = <<x * PageBytes, sz>> /\ x + Mmap!npages(sz) <= RegionPages
  BY <1>1, <1>2
<1> HIDE DEF n, I, new
<1>8. MmapTypeInv'
  BY <1>3, <1>5, <1>7 DEF MmapIInv, MmapTypeInv
<1>9. BitInv'
  BY <1>5, <1>7 DEF MmapIInv, BitInv
<1>10. OpenInv'
  <2>1. \A r \in runs : Mmap!PagesOfRun(r) \subseteq open /\ Mmap!PagesOfRun(r) \cap Mmap!PagesOfRun(new) = {}
    BY <1>3, <1>6 DEF MmapIInv, OpenInv
  <2>2. \A p \in open' : \E r \in runs' : p \in Mmap!PagesOfRun(r)
    BY <1>3, <1>7 DEF MmapIInv, OpenInv
  <2> QED
    BY <2>1, <2>2, <1>3, <1>7 DEF MmapIInv, OpenInv, Mmap!PagesOfRun
<1> QED
  BY <1>8, <1>9, <1>10 DEF MmapIInv

\* The probe that finds a bit set takes back those before it, which were clear.
LEMMA ProbeUndoes ==
  ASSUME MmapSized, MmapIInv, NEW index \in Mmap!Index, asked > 0,
         index \in 0 .. RegionPages - Mmap!npages(asked),
         NEW i \in 0 .. Mmap!npages(asked) - 1,
         \A j \in 0 .. Mmap!npages(asked) - 1 : Mmap!isSet(index + j) => i <= j,
         word' = Mmap!ResetAll(Mmap!Undone(index, i)),
         UNCHANGED <<asked, open, runs>>
  PROVE  MmapIInv'
<1> DEFINE n == Mmap!npages(asked)
           I == Mmap!Undone(index, i)
<1>1. asked \in Bytes
  BY DEF MmapIInv, MmapTypeInv
<1>2. index \in Nat /\ n \in Nat /\ index + n <= RegionPages /\ i \in Nat /\ i < n /\ RegionPages \in Nat
  BY <1>1, Npages DEF Mmap!Index, MmapSized
<1>3. I \subseteq Mmap!Index
  BY <1>2 DEF Mmap!Index, Mmap!Undone
<1>4. \A p \in I : ~Mmap!isSet(p)
  <2> SUFFICES ASSUME NEW p \in I PROVE ~Mmap!isSet(p)
    OBVIOUS
  <2>1. p - index \in 0 .. n - 1 /\ index + (p - index) = p /\ ~(i <= p - index)
    BY <1>2 DEF Mmap!Undone
  <2> QED
    BY <2>1
<1>5. /\ word' \in [Items -> SUBSET Nat]
      /\ \A p \in Mmap!Index : Mmap!isSet(p)' <=> Mmap!isSet(p) /\ p \notin I
  BY <1>3, SetAndReset DEF MmapIInv
<1> HIDE DEF n, I
<1>6. \A p \in Mmap!Index : Mmap!isSet(p)' <=> Mmap!isSet(p)
  BY <1>4, <1>5
<1>7. MmapTypeInv'
  BY <1>5 DEF MmapIInv, MmapTypeInv
<1>8. BitInv' /\ OpenInv'
  BY <1>6 DEF MmapIInv, BitInv, OpenInv, Mmap!PagesOfRun
<1> QED
  BY <1>7, <1>8 DEF MmapIInv

\* unmap clears the bits of the run's pages, and protects them.
LEMMA Unmaps ==
  ASSUME MmapSized, MmapIInv, NEW r \in runs, Mmap!unmap(r)
  PROVE  MmapIInv'
<1> DEFINE I == Mmap!PagesOfRun(r)
<1>1. /\ word' = Mmap!ResetAll(I) /\ open' = open \ I /\ runs' = runs \ {r}
      /\ asked' = asked /\ I \in SUBSET Mmap!Index
  BY HeldRun DEF Mmap!unmap, MmapIInv
<1>2. /\ word' \in [Items -> SUBSET Nat]
      /\ \A p \in Mmap!Index : Mmap!isSet(p)' <=> Mmap!isSet(p) /\ p \notin I
  BY <1>1, SetAndReset DEF MmapIInv
<1>3. MmapTypeInv'
  BY <1>1, <1>2 DEF MmapIInv, MmapTypeInv
<1>4. BitInv'
  BY <1>1, <1>2 DEF MmapIInv, BitInv
<1>5. OpenInv'
  <2>1. \A q \in runs' : Mmap!PagesOfRun(q) \subseteq open'
    BY <1>1 DEF MmapIInv, OpenInv
  <2>2. \A p \in open' : \E q \in runs' : p \in Mmap!PagesOfRun(q)
    BY <1>1 DEF MmapIInv, OpenInv
  <2> QED
    BY <2>1, <2>2, <1>1 DEF MmapIInv, OpenInv, Mmap!PagesOfRun
<1> QED
  BY <1>3, <1>4, <1>5 DEF MmapIInv

\* Every step keeps the runs, the bitmap and the protection in agreement.
LEMMA NextInv ==
  ASSUME MmapSized, MmapIInv, [Mmap!Next]_(Mmap!vars)
  PROVE  MmapIInv'
<1>1. ASSUME NEW t \in Mappers, NEW sz \in Bytes, Mmap!MapLock(t, sz) PROVE MmapIInv'
  BY <1>1 DEF Mmap!MapLock, MmapIInv, MmapTypeInv, BitInv, OpenInv,
     Mmap!isSet, Mmap!PagesOfRun
<1>2. ASSUME NEW index \in Mmap!Index, Mmap!Probe(index) PROVE MmapIInv'
  <2> DEFINE n == Mmap!npages(asked)
             hit == {i \in 0 .. n - 1 : Mmap!isSet(index + i)}
  <2>1. asked > 0 /\ index \in 0 .. RegionPages - n
    BY <1>2 DEF Mmap!Probe
  <2>2. CASE hit = {}
    BY <1>2, <2>1, <2>2, ProbeTakes DEF Mmap!Probe
  <2>3. CASE hit # {}
    <3> DEFINE i == CHOOSE i \in hit : \A j \in hit : i <= j
    <3>1. hit \subseteq Nat
      OBVIOUS
    <3>2. \E x \in hit : \A j \in hit : x <= j
      <4> HIDE DEF hit
      <4> QED
        BY <2>3, <3>1, Least
    <3>3. i \in hit /\ \A j \in hit : i <= j
      <4> HIDE DEF hit
      <4> QED
        BY <3>2
    <3>4. word' = Mmap!ResetAll(Mmap!Undone(index, i)) /\ UNCHANGED <<asked, open, runs>>
      BY <1>2, <2>3 DEF Mmap!Probe
    <3>5. i \in 0 .. n - 1 /\ \A j \in 0 .. n - 1 : Mmap!isSet(index + j) => i <= j
      BY <3>3
    <3> HIDE DEF i, hit
    <3> QED
      BY <2>1, <3>4, <3>5, ProbeUndoes
  <2> QED
    BY <2>2, <2>3
<1>3. ASSUME NEW r \in runs, Mmap!unmap(r) PROVE MmapIInv'
  BY <1>3, Unmaps
<1>4. CASE UNCHANGED Mmap!vars
  BY <1>4 DEF Mmap!vars, MmapIInv, MmapTypeInv, BitInv, OpenInv, Mmap!isSet,
     Mmap!PagesOfRun
<1> QED
  BY <1>1, <1>2, <1>3, <1>4 DEF Mmap!Next

\* At first every bit is clear and no run is held.
LEMMA MmapInitInv ==
  ASSUME MmapSized, Mmap!Init
  PROVE  MmapIInv
<1>1. word \in [Items -> SUBSET Nat] /\ \A w \in Items : word[w] = {}
  BY DEF Mmap!Init, Items, Mmap!reserve
<1>2. \A p \in Mmap!Index : ~Mmap!isSet(p)
  BY <1>1, ItemOfPage DEF Mmap!isSet
<1> QED
  BY <1>1, <1>2 DEF Mmap!Init, MmapIInv, MmapTypeInv, BitInv, OpenInv

(* RandomMmap: The theorem *)

\* No two runs share a page, however many probes fail half-way, and the bits
\* that are set and the pages that can be accessed are those of the runs: a
\* failed probe takes back only what it set, and unmap finds by address and
\* size the pages that map took.
THEOREM RunsExclusiveAlways ==
  ASSUME MmapSized
  PROVE  Mmap!Spec => []RunsExclusive
<1>1. Mmap!Init => MmapIInv
  BY MmapInitInv
<1>2. MmapIInv /\ [Mmap!Next]_(Mmap!vars) => MmapIInv'
  BY NextInv
<1>3. MmapIInv => RunsExclusive
  <2> SUFFICES ASSUME MmapIInv PROVE open = UNION {Mmap!PagesOfRun(r) : r \in runs}
    BY DEF MmapIInv, OpenInv, BitInv, RunsExclusive, Mmap!RunsExclusive
  <2>1. ASSUME NEW p \in open PROVE p \in UNION {Mmap!PagesOfRun(r) : r \in runs}
    BY DEF MmapIInv, OpenInv
  <2>2. ASSUME NEW p \in UNION {Mmap!PagesOfRun(r) : r \in runs} PROVE p \in open
    <3>1. PICK r \in runs : p \in Mmap!PagesOfRun(r)
      OBVIOUS
    <3> QED
      BY <3>1 DEF MmapIInv, OpenInv
  <2> QED
    BY <2>1, <2>2
<1> QED
  BY <1>1, <1>2, <1>3, PTL DEF Mmap!Spec

----------------------------------------------------------------------------
(* ShuffleHeap: the inductive invariant *)

\* The sizes of the classes are positive and one of them is the largest, as
\* Kingsley's table of classes has it.
ShuffleSized ==
  /\ ClassSizes \subseteq Nat \ {0}
  /\ \E m \in ClassSizes : \A d \in ClassSizes : d <= m
  /\ MaxBinned \in Nat

\* The objects of class c.
OfClass(c) == {o \in Shuffle!Objects : o[1] = c}

ShuffleTypeInv ==
  /\ taken \subseteq Shuffle!Objects /\ held \subseteq Shuffle!Objects
  /\ filled \subseteq ClassSizes
  /\ DOMAIN buffer = ClassSizes
  /\ \A c \in ClassSizes : DOMAIN buffer[c] = Shuffle!Slots(c)

\* A bin that was filled has slots, and each holds an object of its own of the
\* bin's class; one that was not holds nothing.
Full(c) ==
  /\ Shuffle!Slots(c) # {}
  /\ \A j \in Shuffle!Slots(c) : buffer[c][j] \in OfClass(c)
  /\ \A i, j \in Shuffle!Slots(c) : i # j => buffer[c][i] # buffer[c][j]
BinInv ==
  \A c \in ClassSizes :
    IF c \in filled THEN Full(c) ELSE \A j \in Shuffle!Slots(c) : buffer[c][j] = Shuffle!NULL

\* What the heap below gave out is with the program or in a bin, never both,
\* and an object of the program of a class that is binned came from its bin.
OwnInv ==
  /\ \A x : x \in taken <=> x \in held \/ x \in Shuffle!Binned
  /\ \A x \in held : x \notin Shuffle!Binned
  /\ \A x \in held : x[1] <= MaxBinned => x[1] \in filled

ShuffleIInv ==
  /\ crashed = 0 => ShuffleTypeInv /\ BinInv /\ OwnInv
  /\ crashed # 0 => Shuffle!NothingLost

(* ShuffleHeap: Lemmas *)

\* A size that malloc is asked for has a size class, of at least that size.
LEMMA ClassOfSize ==
  ASSUME ShuffleSized,
         NEW sz \in 1 .. (CHOOSE c \in ClassSizes : \A d \in ClassSizes : d <= c)
  PROVE  Shuffle!get_size_class(sz) \in ClassSizes /\ Shuffle!get_size_class(sz) >= sz
<1> DEFINE m == CHOOSE c \in ClassSizes : \A d \in ClassSizes : d <= c
<1> DEFINE S == {c \in ClassSizes : c >= sz}
<1>1. m \in ClassSizes BY DEF ShuffleSized
<1>2. sz \in Nat /\ m >= sz BY <1>1 DEF ShuffleSized
<1>3. S \subseteq Nat /\ S # {} BY <1>1, <1>2 DEF ShuffleSized
<1>4. PICK x \in S : \A y \in S : x <= y BY <1>3, Least
<1>5. x \in ClassSizes /\ x >= sz /\ \A d \in ClassSizes : d >= sz => x <= d BY <1>4
<1> QED BY <1>5 DEF Shuffle!get_size_class

\* An object has a class and is not the null pointer.
LEMMA ObjectFacts ==
  ASSUME ShuffleSized, NEW o \in Shuffle!Objects
  PROVE  o[1] \in ClassSizes /\ o # Shuffle!NULL /\ o \in OfClass(o[1])
<1>1. PICK c \in ClassSizes, m \in 1 .. Copies : o = <<c, m>> BY DEF Shuffle!Objects
<1>2. c # 0 BY DEF ShuffleSized
<1> QED BY <1>1, <1>2 DEF Shuffle!NULL, OfClass

\* What is in the bins is in a slot of one that was filled.
LEMMA BinnedIs ==
  ASSUME ShuffleSized, ShuffleTypeInv, BinInv
  PROVE  \A x : x \in Shuffle!Binned <=>
                  \E c \in filled : \E j \in Shuffle!Slots(c) : x = buffer[c][j]
<1> TAKE x
<1>1. ASSUME x \in Shuffle!Binned
      PROVE  \E c \in filled : \E j \in Shuffle!Slots(c) : x = buffer[c][j]
  <2>1. PICK c \in ClassSizes : \E j \in Shuffle!Slots(c) : x = buffer[c][j]
    BY <1>1 DEF Shuffle!Binned
  <2>2. x # Shuffle!NULL BY <1>1 DEF Shuffle!Binned
  <2>3. c \in filled BY <2>1, <2>2 DEF BinInv
  <2> QED BY <2>1, <2>3
<1>2. ASSUME NEW c \in filled, NEW j \in Shuffle!Slots(c), x = buffer[c][j]
      PROVE  x \in Shuffle!Binned
  <2>1. c \in ClassSizes BY DEF ShuffleTypeInv
  <2>2. x \in Shuffle!Objects BY <1>2, <2>1 DEF BinInv, Full, OfClass
  <2>3. x # Shuffle!NULL BY <2>2, ObjectFacts
  <2> QED BY <1>2, <2>1, <2>3 DEF Shuffle!Binned
<1> QED BY <1>1, <1>2

\* The same of the next state.
LEMMA BinnedIsNext ==
  ASSUME ShuffleSized, ShuffleTypeInv', BinInv'
  PROVE  \A x : x \in Shuffle!Binned' <=>
                  \E c \in filled' : \E j \in Shuffle!Slots(c) : x = buffer'[c][j]
<1> TAKE x
<1>1. ASSUME x \in Shuffle!Binned'
      PROVE  \E c \in filled' : \E j \in Shuffle!Slots(c) : x = buffer'[c][j]
  <2>1. PICK c \in ClassSizes : \E j \in Shuffle!Slots(c) : x = buffer'[c][j]
    BY <1>1 DEF Shuffle!Binned
  <2>2. x # Shuffle!NULL BY <1>1 DEF Shuffle!Binned
  <2>3. c \in filled' BY <2>1, <2>2 DEF BinInv
  <2> QED BY <2>1, <2>3
<1>2. ASSUME NEW c \in filled', NEW j \in Shuffle!Slots(c), x = buffer'[c][j]
      PROVE  x \in Shuffle!Binned'
  <2>1. c \in ClassSizes BY DEF ShuffleTypeInv
  <2>2. x \in Shuffle!Objects BY <1>2, <2>1 DEF BinInv, Full, OfClass
  <2>3. x # Shuffle!NULL BY <2>2, ObjectFacts
  <2> QED BY <1>2, <2>1, <2>3 DEF Shuffle!Binned
<1> QED BY <1>1, <1>2

\* The invariant gives the property.
LEMMA InvImplies ==
  ASSUME ShuffleSized, ShuffleIInv
  PROVE  Shuffle!NothingLost
<1>1. CASE crashed # 0 BY <1>1 DEF ShuffleIInv
<1>2. CASE crashed = 0
  <2> USE <1>2 DEF ShuffleIInv
  <2>1. taken = held \cup Shuffle!Binned BY DEF OwnInv
  <2>2. held \cap Shuffle!Binned = {} BY DEF OwnInv
  <2>3. Shuffle!NULL \notin held BY ObjectFacts DEF ShuffleTypeInv
  <2>4. \A c \in filled : \A i, j \in Shuffle!Slots(c) : i # j => buffer[c][i] # buffer[c][j]
    BY DEF ShuffleTypeInv, BinInv, Full
  <2> QED BY <2>1, <2>2, <2>3, <2>4 DEF Shuffle!NothingLost
<1> QED BY <1>1, <1>2

(* ShuffleHeap: Every step preserves the invariant *)

\* Nothing is allocated at first and no bin is filled.
LEMMA ShuffleInitInv ==
  ASSUME ShuffleSized, Shuffle!Init
  PROVE  ShuffleIInv
<1> USE DEF Shuffle!Init
<1>1. ShuffleTypeInv BY DEF ShuffleTypeInv
<1>2. BinInv BY DEF BinInv
<1>3. \A x : x \notin Shuffle!Binned BY BinnedIs, <1>1, <1>2
<1>4. OwnInv BY <1>3 DEF OwnInv
<1> QED BY <1>1, <1>2, <1>4 DEF ShuffleIInv

\* A request that passes the bins by gets an object of a class over MaxSize.
LEMMA MallocBigInv ==
  ASSUME ShuffleSized, ShuffleIInv,
         NEW sz \in 1 .. (CHOOSE c \in ClassSizes : \A d \in ClassSizes : d <= c),
         Shuffle!MallocBig(sz)
  PROVE  ShuffleIInv'
<1>inv. ShuffleTypeInv /\ BinInv /\ OwnInv /\ crashed' = 0 BY DEF ShuffleIInv, Shuffle!MallocBig
<1>1. PICK o \in Shuffle!SuperMalloc(Shuffle!get_size_class(sz)) :
        taken' = taken \cup {o} /\ held' = held \cup {o}
  BY DEF Shuffle!MallocBig
<1>2. UNCHANGED <<buffer, filled>> BY DEF Shuffle!MallocBig
<1>3. o \in Shuffle!Objects /\ o \notin taken /\ o[1] = Shuffle!get_size_class(sz)
  BY <1>1 DEF Shuffle!SuperMalloc
<1>4. o[1] > MaxBinned
  <2>1. Shuffle!get_size_class(sz) \in Nat /\ Shuffle!get_size_class(sz) >= sz
    BY ClassOfSize DEF ShuffleSized
  <2>2. sz > MaxBinned /\ sz \in Int BY DEF Shuffle!MallocBig
  <2>3. MaxBinned \in Nat BY DEF ShuffleSized
  <2> QED BY <1>3, <2>1, <2>2, <2>3
<1>5. ~ (o[1] <= MaxBinned)
  <2>1. o[1] \in Nat /\ MaxBinned \in Nat BY <1>3, ObjectFacts DEF ShuffleSized
  <2> QED BY <2>1, <1>4
<1>6. ShuffleTypeInv' BY <1>inv, <1>1, <1>2, <1>3 DEF ShuffleTypeInv
<1>7. BinInv' BY <1>inv, <1>2 DEF BinInv, Full
<1>8. Shuffle!Binned' = Shuffle!Binned BY <1>2 DEF Shuffle!Binned
<1>9. OwnInv' BY <1>inv, <1>1, <1>2, <1>3, <1>5, <1>8 DEF OwnInv
<1> QED BY <1>inv, <1>6, <1>7, <1>9 DEF ShuffleIInv

\* malloc returns what was in a slot, which then holds a new object.
LEMMA MallocInv ==
  ASSUME ShuffleSized, ShuffleIInv,
         NEW sz \in 1 .. (CHOOSE c \in ClassSizes : \A d \in ClassSizes : d <= c),
         Shuffle!malloc(sz)
  PROVE  ShuffleIInv'
<1>inv. ShuffleTypeInv /\ BinInv /\ OwnInv /\ crashed' = 0 BY DEF ShuffleIInv, Shuffle!malloc
<1> DEFINE c == Shuffle!get_size_class(sz)
<1>1. c \in ClassSizes BY ClassOfSize
<1>2. PICK bin \in (IF c \in filled THEN {buffer[c]} ELSE Shuffle!fill(c)) :
        LET now == taken \cup ({bin[j] : j \in Shuffle!Slots(c)} \ {Shuffle!NULL}) IN
        \E o \in Shuffle!SuperMalloc(c) \ now, j \in Shuffle!Slots(c) :
          /\ taken' = now \cup {o}
          /\ buffer' = [buffer EXCEPT ![c] = [bin EXCEPT ![j] = o]]
          /\ held' = held \cup {bin[j]}
  BY DEF Shuffle!malloc
<1> DEFINE now == taken \cup ({bin[j] : j \in Shuffle!Slots(c)} \ {Shuffle!NULL})
<1>3. PICK o \in Shuffle!SuperMalloc(c) \ now, j \in Shuffle!Slots(c) :
          /\ taken' = now \cup {o}
          /\ buffer' = [buffer EXCEPT ![c] = [bin EXCEPT ![j] = o]]
          /\ held' = held \cup {bin[j]}
  BY <1>2
<1>4. filled' = filled \cup {c} BY DEF Shuffle!malloc
<1> HIDE DEF c
\* The bin before the swap: full, and nothing in it is with the program.
<1>5. /\ DOMAIN bin = Shuffle!Slots(c)
      /\ \A i \in Shuffle!Slots(c) : bin[i] \in OfClass(c) /\ bin[i] \notin held
      /\ \A i, m \in Shuffle!Slots(c) : i # m => bin[i] # bin[m]
  <2>1. CASE c \in filled
    <3>1. bin = buffer[c] BY <1>2, <2>1
    <3>2. Full(c) BY <1>inv, <1>1, <2>1 DEF BinInv
    <3>3. \A i \in Shuffle!Slots(c) : bin[i] \in Shuffle!Binned
      BY <1>inv, <2>1, <3>1, BinnedIs
    <3> QED BY <1>inv, <1>1, <3>1, <3>2, <3>3 DEF Full, ShuffleTypeInv, OwnInv
  <2>2. CASE c \notin filled
    <3>1. bin \in Shuffle!fill(c) BY <1>2, <2>2
    <3>2. /\ bin \in [Shuffle!Slots(c) -> Shuffle!SuperMalloc(c)]
          /\ \A i, m \in Shuffle!Slots(c) : i # m => bin[i] # bin[m]
      BY <3>1 DEF Shuffle!fill
    <3>3. \A i \in Shuffle!Slots(c) : bin[i] \in OfClass(c) /\ bin[i] \notin taken
      BY <3>2 DEF Shuffle!SuperMalloc, OfClass
    <3> QED BY <1>inv, <3>2, <3>3 DEF OwnInv
  <2> QED BY <2>1, <2>2
<1>6. \A i \in Shuffle!Slots(c) : bin[i] \in Shuffle!Objects /\ bin[i] # Shuffle!NULL /\ bin[i][1] = c
  BY <1>5, ObjectFacts DEF OfClass
<1>7. o \in OfClass(c) /\ o \notin taken /\ \A i \in Shuffle!Slots(c) : o # bin[i]
  <2>1. o \in OfClass(c) /\ o \notin now BY <1>3 DEF Shuffle!SuperMalloc, OfClass
  <2>2. o # Shuffle!NULL BY <2>1, ObjectFacts DEF OfClass
  <2> QED BY <2>1, <2>2
<1>8. \A x : x \in taken' <=> \/ x \in taken \/ x = o
                              \/ \E i \in Shuffle!Slots(c) : x = bin[i]
  BY <1>3, <1>6
<1>9. /\ DOMAIN buffer' = ClassSizes /\ DOMAIN buffer'[c] = Shuffle!Slots(c)
      /\ \A d \in ClassSizes : d # c => buffer'[d] = buffer[d]
      /\ buffer'[c][j] = o
      /\ \A i \in Shuffle!Slots(c) : i # j => buffer'[c][i] = bin[i]
  BY <1>inv, <1>1, <1>3, <1>5 DEF ShuffleTypeInv
<1>10. held' = held \cup {bin[j]} BY <1>3
<1> HIDE DEF now
<1>11. ShuffleTypeInv'
  <2>1. o \in Shuffle!Objects BY <1>7 DEF OfClass
  <2>2. taken' \subseteq Shuffle!Objects BY <1>inv, <1>6, <1>8, <2>1 DEF ShuffleTypeInv
  <2>3. held' \subseteq Shuffle!Objects BY <1>inv, <1>6, <1>10 DEF ShuffleTypeInv
  <2>4. filled' \subseteq ClassSizes BY <1>inv, <1>1, <1>4 DEF ShuffleTypeInv
  <2> QED BY <1>inv, <1>9, <2>2, <2>3, <2>4 DEF ShuffleTypeInv
<1>12. BinInv'
  <2> SUFFICES ASSUME NEW d \in ClassSizes
               PROVE  IF d \in filled' THEN Full(d)'
                      ELSE \A i \in Shuffle!Slots(d) : buffer'[d][i] = Shuffle!NULL
    BY DEF BinInv
  <2>1. CASE d = c
    <3>1. \A i \in Shuffle!Slots(c) : buffer'[c][i] \in OfClass(c) BY <1>5, <1>7, <1>9
    <3>2. \A i, m \in Shuffle!Slots(c) : i # m => buffer'[c][i] # buffer'[c][m]
      BY <1>5, <1>7, <1>9
    <3>3. Shuffle!Slots(c) # {} BY <1>3
    <3> QED BY <1>4, <2>1, <3>1, <3>2, <3>3 DEF Full
  <2>2. CASE d # c
    <3>1. buffer'[d] = buffer[d] /\ (d \in filled' <=> d \in filled)
      BY <1>4, <1>9, <2>2
    <3> QED BY <1>inv, <3>1 DEF BinInv, Full
  <2> QED BY <2>1, <2>2
\* Where the objects are after the swap.
<1>13. \A x : x \in Shuffle!Binned' <=>
         \/ x = o
         \/ \E i \in Shuffle!Slots(c) : i # j /\ x = bin[i]
         \/ \E d \in filled : d # c /\ \E i \in Shuffle!Slots(d) : x = buffer[d][i]
  <2> TAKE x
  <2>1. x \in Shuffle!Binned' <=> \E d \in filled' : \E i \in Shuffle!Slots(d) : x = buffer'[d][i]
    BY <1>11, <1>12, BinnedIsNext
  <2>2. (\E i \in Shuffle!Slots(c) : x = buffer'[c][i])
          <=> x = o \/ \E i \in Shuffle!Slots(c) : i # j /\ x = bin[i]
    BY <1>9, <1>3
  <2>3. (\E d \in filled : d # c /\ \E i \in Shuffle!Slots(d) : x = buffer'[d][i])
          <=> \E d \in filled : d # c /\ \E i \in Shuffle!Slots(d) : x = buffer[d][i]
    BY <1>inv, <1>9 DEF ShuffleTypeInv
  <2> QED BY <1>4, <2>1, <2>2, <2>3
\* What was in the bins before, when the class's bin is counted as filled.
<1>14. \A x : x \in taken \/ (\E i \in Shuffle!Slots(c) : x = bin[i]) <=>
               \/ x \in held
               \/ \E i \in Shuffle!Slots(c) : x = bin[i]
               \/ \E d \in filled : d # c /\ \E i \in Shuffle!Slots(d) : x = buffer[d][i]
  <2> TAKE x
  <2>1. x \in taken <=>
          x \in held \/ \E d \in filled : \E i \in Shuffle!Slots(d) : x = buffer[d][i]
    BY <1>inv, BinnedIs DEF OwnInv
  <2>2. c \in filled => bin = buffer[c] BY <1>2
  <2> QED BY <2>1, <2>2
<1>15. OwnInv'
  <2>1. \A x : x \in taken' <=> x \in held' \/ x \in Shuffle!Binned'
    <3> TAKE x
    <3>1. (\E i \in Shuffle!Slots(c) : x = bin[i]) <=>
            x = bin[j] \/ \E i \in Shuffle!Slots(c) : i # j /\ x = bin[i]
      BY <1>3
    <3> QED BY <1>8, <1>10, <1>13, <1>14, <3>1
  <2>2. \A x \in held' : x \notin Shuffle!Binned'
    <3> SUFFICES ASSUME NEW x \in held', x \in Shuffle!Binned' PROVE FALSE
      OBVIOUS
    <3>1. x \in Shuffle!Objects /\ x # o BY <1>inv, <1>7, <1>8, <1>10, <1>14, <1>6 DEF OwnInv, ShuffleTypeInv
    <3>2. CASE x = bin[j]
      <4>1. \A d \in filled : d # c => \A i \in Shuffle!Slots(d) : buffer[d][i][1] = d
        BY <1>inv DEF BinInv, Full, OfClass, ShuffleTypeInv
      <4>2. x[1] = c BY <1>6, <1>3, <3>2
      <4>3. \A i \in Shuffle!Slots(c) : i # j => x # bin[i] BY <1>5, <1>3, <3>2
      <4> QED BY <1>13, <3>1, <4>1, <4>2, <4>3
    <3>3. CASE x \in held
      <4>1. x \notin Shuffle!Binned BY <1>inv, <3>3 DEF OwnInv
      <4>2. \A d \in filled : \A i \in Shuffle!Slots(d) : x # buffer[d][i]
        BY <1>inv, <4>1, BinnedIs
      <4> QED BY <1>5, <1>13, <3>1, <3>3, <4>2
    <3> QED BY <1>10, <3>2, <3>3
  <2>3. \A x \in held' : x[1] <= MaxBinned => x[1] \in filled'
    BY <1>inv, <1>3, <1>4, <1>6, <1>10 DEF OwnInv
  <2> QED BY <2>1, <2>2, <2>3 DEF OwnInv
<1> QED BY <1>inv, <1>11, <1>12, <1>15 DEF ShuffleIInv

\* free swaps the object with one of the bin, which it frees; where it fails,
\* the class's bin was never filled, and that class is over MaxSize.
LEMMA FreeInv ==
  ASSUME ShuffleSized, ShuffleIInv, NEW o \in held, Shuffle!free(o)
  PROVE  ShuffleIInv'
<1>inv. ShuffleTypeInv /\ BinInv /\ OwnInv BY DEF ShuffleIInv, Shuffle!free
<1>1. PICK c : c = o[1] OBVIOUS
<1>2. o \in Shuffle!Objects /\ c \in ClassSizes /\ o # Shuffle!NULL /\ o \in OfClass(c)
  BY <1>inv, <1>1, ObjectFacts DEF ShuffleTypeInv
<1>3. held' = held \ {o} /\ filled' = filled /\ crashed = 0 BY DEF Shuffle!free
<1>4. c \in Nat /\ c # 0 /\ MaxBinned \in Nat BY <1>2 DEF ShuffleSized
<1>5. c \notin filled => c > MaxBinned BY <1>inv, <1>1, <1>4 DEF OwnInv
<1>6. Shuffle!NULL \notin held' BY <1>inv, <1>3, ObjectFacts DEF ShuffleTypeInv
<1>7. CASE Shuffle!Slots(c) = {} /\ crashed' = c /\ UNCHANGED <<buffer, taken>>
  <2>1. c \notin filled BY <1>inv, <1>2, <1>7 DEF BinInv, Full
  <2>2. Shuffle!Binned' = Shuffle!Binned BY <1>7 DEF Shuffle!Binned
  <2>3. held' \cap Shuffle!Binned' = {} BY <1>inv, <1>3, <2>2 DEF OwnInv
  <2>4. \A d \in filled' : \A i, m \in Shuffle!Slots(d) :
          i # m => buffer'[d][i] # buffer'[d][m]
    BY <1>inv, <1>3, <1>7 DEF ShuffleTypeInv, BinInv, Full
  <2> QED BY <1>4, <1>5, <1>6, <1>7, <2>1, <2>3, <2>4 DEF ShuffleIInv, Shuffle!NothingLost
<1>8. ASSUME NEW j \in Shuffle!Slots(c),
             buffer' = [buffer EXCEPT ![c][j] = o],
             IF buffer[c][j] = Shuffle!NULL
             THEN crashed' = c /\ taken' = taken
             ELSE crashed' = crashed /\ taken' = taken \ {buffer[c][j]}
      PROVE  ShuffleIInv'
  <2>1. /\ DOMAIN buffer' = ClassSizes /\ \A d \in ClassSizes : DOMAIN buffer'[d] = Shuffle!Slots(d)
        /\ \A d \in ClassSizes : d # c => buffer'[d] = buffer[d]
        /\ buffer'[c][j] = o
        /\ \A i \in Shuffle!Slots(c) : i # j => buffer'[c][i] = buffer[c][i]
    BY <1>inv, <1>2, <1>8 DEF ShuffleTypeInv
  <2>2. CASE c \notin filled
    <3>1. buffer[c][j] = Shuffle!NULL BY <1>inv, <1>2, <2>2 DEF BinInv
    <3>2. crashed' = c BY <1>8, <3>1
    <3>3. \A x \in Shuffle!Binned' : x = o \/ x \in Shuffle!Binned
      <4> TAKE x \in Shuffle!Binned'
      <4>1. PICK d \in ClassSizes : \E i \in Shuffle!Slots(d) : x = buffer'[d][i]
        BY DEF Shuffle!Binned
      <4>2. PICK i \in Shuffle!Slots(d) : x = buffer'[d][i] BY <4>1
      <4>3. x # Shuffle!NULL BY DEF Shuffle!Binned
      <4>4. x = o \/ x = buffer[d][i] BY <2>1, <4>2
      <4> QED BY <4>3, <4>4 DEF Shuffle!Binned
    <3>4. held' \cap Shuffle!Binned' = {} BY <1>inv, <1>3, <3>3 DEF OwnInv
    <3>5. \A d \in filled' : \A i, m \in Shuffle!Slots(d) :
            i # m => buffer'[d][i] # buffer'[d][m]
      <4>1. \A d \in filled : d \in ClassSizes /\ d # c BY <1>inv, <2>2 DEF ShuffleTypeInv
      <4> QED BY <1>inv, <1>3, <2>1, <4>1 DEF BinInv, Full
    <3> QED BY <1>4, <1>5, <1>6, <2>2, <3>2, <3>4, <3>5 DEF ShuffleIInv, Shuffle!NothingLost
  <2>3. CASE c \in filled
    <3>1. Full(c) BY <1>inv, <1>2, <2>3 DEF BinInv
    <3>2. PICK v : v = buffer[c][j] OBVIOUS
    <3>3. v \in Shuffle!Objects /\ v # Shuffle!NULL BY <3>1, <3>2, ObjectFacts DEF Full, OfClass
    <3>4. crashed' = 0 /\ taken' = taken \ {v} BY <1>3, <1>8, <3>2, <3>3
    <3>5. v \in Shuffle!Binned BY <1>inv, <2>3, <3>2, BinnedIs
    <3>6. v # o BY <1>inv, <3>5 DEF OwnInv
    <3>7. \A d \in filled : \A i \in Shuffle!Slots(d) : buffer[d][i] # o
      BY <1>inv, BinnedIs DEF OwnInv
    <3>8. ShuffleTypeInv' BY <1>inv, <1>3, <2>1, <3>4 DEF ShuffleTypeInv
    <3>9. BinInv'
      <4> SUFFICES ASSUME NEW d \in ClassSizes
                   PROVE  IF d \in filled' THEN Full(d)'
                          ELSE \A i \in Shuffle!Slots(d) : buffer'[d][i] = Shuffle!NULL
        BY DEF BinInv
      <4>1. CASE d = c
        <5>1. \A i \in Shuffle!Slots(c) : buffer'[c][i] \in OfClass(c)
          BY <1>2, <2>1, <3>1 DEF Full
        <5>2. \A i, m \in Shuffle!Slots(c) : i # m => buffer'[c][i] # buffer'[c][m]
          BY <2>1, <2>3, <3>1, <3>7 DEF Full
        <5> QED BY <1>3, <2>3, <3>1, <4>1, <5>1, <5>2 DEF Full
      <4>2. CASE d # c BY <1>inv, <1>3, <2>1, <4>2 DEF BinInv, Full
      <4> QED BY <4>1, <4>2
    <3>10. \A x : x \in Shuffle!Binned' <=> x = o \/ (x \in Shuffle!Binned /\ x # v)
      <4> TAKE x
      <4>1. x \in Shuffle!Binned' <=> \E d \in filled : \E i \in Shuffle!Slots(d) : x = buffer'[d][i]
        BY <1>3, <3>8, <3>9, BinnedIsNext
      <4>2. x \in Shuffle!Binned <=> \E d \in filled : \E i \in Shuffle!Slots(d) : x = buffer[d][i]
        BY <1>inv, BinnedIs
      <4>3. \A d \in filled : d # c => \A i \in Shuffle!Slots(d) : buffer[d][i] # v
        <5>1. \A d \in filled : \A i \in Shuffle!Slots(d) : buffer[d][i][1] = d
          BY <1>inv DEF BinInv, Full, OfClass, ShuffleTypeInv
        <5>2. v[1] = c BY <2>3, <3>2, <5>1
        <5> QED BY <5>1, <5>2
      <4>4. \A i \in Shuffle!Slots(c) : i # j => buffer[c][i] # v BY <3>1, <3>2 DEF Full
      <4>5. filled \subseteq ClassSizes BY <1>inv DEF ShuffleTypeInv
      <4>6. ASSUME x \in Shuffle!Binned' PROVE x = o \/ (x \in Shuffle!Binned /\ x # v)
        <5>1. PICK d \in filled : \E i \in Shuffle!Slots(d) : x = buffer'[d][i] BY <4>1, <4>6
        <5>2. PICK i \in Shuffle!Slots(d) : x = buffer'[d][i] BY <5>1
        <5>3. CASE d = c /\ i = j BY <2>1, <5>2, <5>3
        <5>4. CASE ~ (d = c /\ i = j)
          <6>1. x = buffer[d][i] BY <2>1, <4>5, <5>2, <5>4
          <6>2. x # v BY <4>3, <4>4, <5>4, <6>1
          <6> QED BY <4>2, <6>1, <6>2
        <5> QED BY <5>3, <5>4
      <4>7. ASSUME x \in Shuffle!Binned, x # v PROVE x \in Shuffle!Binned'
        <5>1. PICK d \in filled : \E i \in Shuffle!Slots(d) : x = buffer[d][i] BY <4>2, <4>7
        <5>2. PICK i \in Shuffle!Slots(d) : x = buffer[d][i] BY <5>1
        <5>3. ~ (d = c /\ i = j) BY <3>2, <4>7, <5>2
        <5>4. x = buffer'[d][i] BY <2>1, <4>5, <5>2, <5>3
        <5> QED BY <4>1, <5>4
      <4>8. o \in Shuffle!Binned' BY <2>1, <2>3, <4>1, <1>3, <3>8, <3>9, BinnedIsNext
      <4> QED BY <4>6, <4>7, <4>8
    <3>11. OwnInv'
      <4>1. \A x : x \in taken' <=> x \in held' \/ x \in Shuffle!Binned'
        BY <1>inv, <1>3, <3>4, <3>5, <3>6, <3>10 DEF OwnInv
      <4>2. \A x \in held' : x \notin Shuffle!Binned' BY <1>inv, <1>3, <3>10 DEF OwnInv
      <4>3. \A x \in held' : x[1] <= MaxBinned => x[1] \in filled'
        BY <1>inv, <1>3 DEF OwnInv
      <4> QED BY <4>1, <4>2, <4>3 DEF OwnInv
    <3> QED BY <3>4, <3>8, <3>9, <3>11 DEF ShuffleIInv
  <2> QED BY <2>2, <2>3
<1> QED BY <1>1, <1>7, <1>8 DEF Shuffle!free

\* ShuffleIInv is an invariant of the bins.
THEOREM ShuffleInvariant == ASSUME ShuffleSized PROVE Shuffle!Spec => []ShuffleIInv
<1>1. Shuffle!Init => ShuffleIInv BY ShuffleInitInv
<1>2. ShuffleIInv /\ [Shuffle!Next]_(Shuffle!vars) => ShuffleIInv'
  <2> SUFFICES ASSUME ShuffleIInv, [Shuffle!Next]_(Shuffle!vars) PROVE ShuffleIInv' OBVIOUS
  <2>1. CASE UNCHANGED Shuffle!vars
    <3>1. Shuffle!Binned' = Shuffle!Binned BY <2>1 DEF Shuffle!vars, Shuffle!Binned
    <3> QED BY <2>1, <3>1 DEF Shuffle!vars, ShuffleIInv, ShuffleTypeInv, BinInv, Full, OwnInv, Shuffle!NothingLost
  <2>2. CASE Shuffle!Next BY <2>2, MallocBigInv, MallocInv, FreeInv DEF Shuffle!Next
  <2> QED BY <2>1, <2>2
<1> QED BY <1>1, <1>2, PTL DEF Shuffle!Spec

\* No swap of malloc and free loses or duplicates an object, and free fails
\* only for objects of a class over MaxSize.
THEOREM NothingLostAlways == ASSUME ShuffleSized PROVE Shuffle!Spec => []NothingLost
<1>1. ShuffleIInv => NothingLost BY InvImplies DEF NothingLost
<1> QED BY <1>1, ShuffleInvariant, PTL

----------------------------------------------------------------------------
(* Exterminator's harnesses, for any number of replicas from two on *)

AllChildren == Harness!Proxies \cup Harness!Readers \cup {Harness!Voter}

\* The labels at which every replica and reader has been forked.
Late == {"voter", "storevoter", "input", "wait"}

\* The shapes of the variables, and that no child both runs and has ended, and
\* none that was reaped is left.
HarnessTypeInv ==
  /\ mode \in {"diehard", "dieinject"}
  /\ harnessPc \in {"first", "fork", "store", "reader"} \cup Late
  /\ k \in Nat /\ (harnessPc # "wait" => k \in Harness!Replicas)
  /\ over \in {"no", "handler", "main", "relay"}
  /\ replicasAlive \in Int
  /\ executablePid \subseteq Harness!Proxies /\ uncounted \subseteq Harness!Proxies
  /\ running \subseteq AllChildren /\ zombies \subseteq AllChildren
  /\ running \cap zombies = {} /\ Harness!children \cap uncounted = {}

\* What has been forked and stored, by where main is.
ForkInv ==
  /\ \A i \in Harness!Replicas : Harness!Proxy(i) \in Harness!children \cup uncounted =>
       harnessPc \in Late \/ i < k \/ (i = k /\ harnessPc \in {"store", "reader"})
  /\ \A i \in Harness!Replicas : Harness!Proxy(i) \in executablePid <=>
       harnessPc \in Late \/ i < k \/ (i = k /\ harnessPc = "reader")
  /\ \A i \in Harness!Replicas : Harness!Reader(i) \in Harness!children => harnessPc \in Late \/ i < k
  /\ harnessPc = "store" => Harness!Proxy(k) \in Harness!children \cup uncounted
  /\ harnessPc \notin {"storevoter", "input", "wait"} => Harness!Voter \notin Harness!children

\* The handler of diehard ends the harness when it knows of no voter, and it
\* knows of it from the moment its pid is stored until it has reaped it.
VoterInv ==
  mode = "diehard" =>
    /\ harnessPc \in {"input", "wait"} => voterPid \/ Harness!Voter \notin Harness!children
    /\ over = "handler" => ~voterPid

\* ReplicasAliveNow counts the proxies but those the handler has reaped after
\* their pid was stored.
CountedReplicas == executablePid \ (Harness!children \cup uncounted)
CountInv == over # "relay" => replicasAlive = N - Cardinality(CountedReplicas)

\* dieinject's handler ends it, with the patch, as soon as the count is zero.
PatchInv ==
  /\ patched => over = "handler" /\ Harness!Proxies \cap Harness!children = {} /\ executablePid = Harness!Proxies
  /\ mode = "dieinject" =>
       /\ over # "relay"
       /\ over = "no" => replicasAlive > 0
       /\ over = "handler" => patched
       /\ over = "main" /\ harnessPc # "first" => uncounted # {}

\* Each wait of main has reaped a reader or the voter, or there are no children
\* left, as long as it reaped no replica.
Rest == Harness!children \ Harness!Proxies
WaitInv ==
  harnessPc = "wait" /\ uncounted = {} =>
    Harness!children = {} \/ k - 1 + Cardinality(Rest) <= N + 1

HarnessIInv ==
  HarnessTypeInv /\ ForkInv /\ VoterInv /\ CountInv /\ PatchInv /\ WaitInv

-----------------------------------------------------------------------------
(* The harnesses' children *)

\* The children are told apart.
LEMMA Names ==
  /\ \A i, j \in Harness!Replicas : Harness!Proxy(i) = Harness!Proxy(j) => i = j
  /\ \A i, j \in Harness!Replicas : Harness!Reader(i) = Harness!Reader(j) => i = j
  /\ \A i, j \in Harness!Replicas : Harness!Proxy(i) # Harness!Reader(j)
  /\ \A i \in Harness!Replicas : Harness!Proxy(i) # Harness!Voter /\ Harness!Reader(i) # Harness!Voter
BY DEF Harness!Proxy, Harness!Reader, Harness!Voter

\* The proxies are N, and so are the readers.
LEMMA ChildCounts ==
  ASSUME N \in Nat
  PROVE  /\ IsFiniteSet(Harness!Proxies) /\ Cardinality(Harness!Proxies) = N
         /\ IsFiniteSet(Harness!Readers \cup {Harness!Voter})
         /\ Cardinality(Harness!Readers \cup {Harness!Voter}) = N + 1
<1>1. IsFiniteSet(Harness!Replicas) /\ Cardinality(Harness!Replicas) = N
  BY FS_Interval DEF Harness!Replicas
<1> DEFINE p == [i \in Harness!Replicas |-> Harness!Proxy(i)]
           r == [i \in Harness!Replicas |-> Harness!Reader(i)]
<1>2. p \in Bijection(Harness!Replicas, Harness!Proxies)
  <2>1. /\ p \in [Harness!Replicas -> Harness!Proxies] /\ \A i \in Harness!Replicas : p[i] = Harness!Proxy(i)
        /\ \A c \in Harness!Proxies : \E i \in Harness!Replicas : p[i] = c
    BY DEF Harness!Proxies
  <2> HIDE DEF p
  <2> QED
    BY <2>1, Names DEF Bijection, Injection, Surjection, IsInjective
<1>3. r \in Bijection(Harness!Replicas, Harness!Readers)
  <2>1. /\ r \in [Harness!Replicas -> Harness!Readers] /\ \A i \in Harness!Replicas : r[i] = Harness!Reader(i)
        /\ \A c \in Harness!Readers : \E i \in Harness!Replicas : r[i] = c
    BY DEF Harness!Readers
  <2> HIDE DEF r
  <2> QED
    BY <2>1, Names DEF Bijection, Injection, Surjection, IsInjective
<1>4. /\ IsFiniteSet(Harness!Proxies) /\ Cardinality(Harness!Proxies) = N
      /\ IsFiniteSet(Harness!Readers) /\ Cardinality(Harness!Readers) = N
  BY <1>1, <1>2, <1>3, FS_Bijection DEF ExistsBijection
<1>5. Harness!Voter \notin Harness!Readers
  BY Names DEF Harness!Readers
<1> QED
  BY <1>4, <1>5, FS_AddElement

\* The handler of SIGCHLD reaps one child: it relays a crash for ever, or counts
\* the child if it is a known replica and may then end the harness.
LEMMA Handler ==
  ASSUME Harness!handleChildCrash
  PROVE  /\ over = "no" /\ UNCHANGED <<mode, harnessPc, k, executablePid, running>>
         /\ \/ UNCHANGED <<over, voterPid, replicasAlive, zombies, uncounted, patched>>
            \/ \E z \in zombies :
                 /\ zombies' = zombies \ {z}
                 /\ voterPid' <=> (voterPid /\ z # Harness!Voter)
                 /\ uncounted' = IF z \in executablePid THEN uncounted
                                 ELSE uncounted \cup ({z} \cap Harness!Proxies)
                 /\ \/ /\ mode = "diehard" /\ over' = "relay"
                       /\ UNCHANGED <<replicasAlive, patched>>
                    \/ /\ replicasAlive' = IF z \in executablePid
                                            THEN replicasAlive - 1 ELSE replicasAlive
                       /\ \/ /\ replicasAlive' = 0 /\ over' = "handler"
                             /\ mode = "diehard" => ~voterPid'
                             /\ mode = "dieinject" => z \in executablePid /\ patched'
                             /\ mode # "dieinject" => ~patched'
                          \/ /\ UNCHANGED <<over, patched>>
                             /\ mode = "dieinject" /\ z \in executablePid
                                  => replicasAlive' # 0
<1>1. over = "no" /\ UNCHANGED <<mode, harnessPc, k, executablePid, running>>
  BY DEF Harness!handleChildCrash, Harness!mainVars
<1>2. CASE Harness!children = {} /\ UNCHANGED <<over, voterPid, replicasAlive, zombies,
                                        uncounted, patched>>
  BY <1>1, <1>2
<1>3. ASSUME NEW z \in zombies, NEW ended \in BOOLEAN,
             LET vp == voterPid /\ z # Harness!Voter
                 left == IF Harness!IsReplica(z) THEN replicasAlive - 1 ELSE replicasAlive
             IN /\ zombies' = zombies \ {z}
                /\ voterPid' = vp
                /\ uncounted' = IF Harness!IsReplica(z) THEN uncounted
                                ELSE uncounted \cup ({z} \cap Harness!Proxies)
                /\ IF mode = "diehard" /\ Harness!IsReplica(z) /\ ended /\ ~vp
                   THEN Harness!RelaysForEver /\ UNCHANGED <<replicasAlive, patched>>
                   ELSE /\ replicasAlive' = left
                        /\ IF Harness!Done(vp, left) /\ (mode = "dieinject" => Harness!IsReplica(z))
                           THEN over' = "handler" /\ patched' = (mode = "dieinject")
                           ELSE UNCHANGED <<over, patched>>
      PROVE  \/ /\ mode = "diehard" /\ over' = "relay"
                /\ UNCHANGED <<replicasAlive, patched>>
             \/ /\ replicasAlive' = IF z \in executablePid
                                     THEN replicasAlive - 1 ELSE replicasAlive
                /\ \/ /\ replicasAlive' = 0 /\ over' = "handler"
                      /\ mode = "diehard" => ~voterPid'
                      /\ mode = "dieinject" => z \in executablePid /\ patched'
                      /\ mode # "dieinject" => ~patched'
                   \/ /\ UNCHANGED <<over, patched>>
                      /\ mode = "dieinject" /\ z \in executablePid
                           => replicasAlive' # 0
  <2> DEFINE vp == voterPid /\ z # Harness!Voter
             left == IF z \in executablePid THEN replicasAlive - 1 ELSE replicasAlive
             relays == mode = "diehard" /\ z \in executablePid /\ ended /\ ~vp
             done == /\ left = 0 /\ (mode = "diehard" => ~vp)
                     /\ (mode = "dieinject" => z \in executablePid)
  <2>1. voterPid' <=> vp
    BY <1>3
  <2>2. CASE relays
    BY <1>3, <2>2 DEF Harness!IsReplica, Harness!RelaysForEver
  <2>3. CASE ~relays /\ done
    <3>1. replicasAlive' = left /\ over' = "handler" /\ patched' = (mode = "dieinject")
      BY <1>3, <2>3 DEF Harness!IsReplica, Harness!Done
    <3> QED
      BY <2>1, <2>3, <3>1
  <2>4. CASE ~relays /\ ~done
    <3>1. replicasAlive' = left /\ UNCHANGED <<over, patched>>
      BY <1>3, <2>4 DEF Harness!IsReplica, Harness!Done
    <3> QED
      BY <2>1, <2>4, <3>1
  <2> QED
    BY <2>2, <2>3, <2>4
<1> QED
  BY <1>1, <1>2, <1>3 DEF Harness!handleChildCrash, Harness!IsReplica

\* Every step keeps the shapes, and forks children that have not been forked.
LEMMA ForkStep ==
  ASSUME N \in Nat \ {0}, HarnessTypeInv, ForkInv,
         [Harness!Next]_(Harness!vars)
  PROVE  HarnessTypeInv' /\ ForkInv'
<1> USE DEF HarnessTypeInv, ForkInv, Harness!mainVars, Harness!countVars,
        Harness!childVars, Harness!MainRuns,
        Harness!children, Late
<1>1. ASSUME Harness!FirstRun PROVE HarnessTypeInv' /\ ForkInv'
  BY <1>1, Names DEF Harness!FirstRun, AllChildren, Harness!Proxies,
     Harness!Readers, Harness!Replicas
<1>2. ASSUME Harness!ForkProxy PROVE HarnessTypeInv' /\ ForkInv'
  BY <1>2, Names DEF Harness!ForkProxy, Harness!Fork, AllChildren,
     Harness!Proxies, Harness!Readers, Harness!Replicas
<1>3. ASSUME Harness!StoreProxy PROVE HarnessTypeInv' /\ ForkInv'
  BY <1>3, Names DEF Harness!StoreProxy, AllChildren, Harness!Proxies,
     Harness!Readers, Harness!Replicas
<1>4. ASSUME Harness!ForkReader PROVE HarnessTypeInv' /\ ForkInv'
  BY <1>4, Names DEF Harness!ForkReader, AllChildren, Harness!Proxies,
     Harness!Readers, Harness!Replicas
<1>5. ASSUME Harness!ForkVoter PROVE HarnessTypeInv' /\ ForkInv'
  BY <1>5, Names DEF Harness!ForkVoter, Harness!Fork, AllChildren,
     Harness!Proxies, Harness!Readers, Harness!Replicas
<1>6. ASSUME Harness!StoreVoter PROVE HarnessTypeInv' /\ ForkInv'
  BY <1>6, Names DEF Harness!StoreVoter, AllChildren, Harness!Proxies,
     Harness!Readers, Harness!Replicas
<1>7. ASSUME Harness!InputEnds PROVE HarnessTypeInv' /\ ForkInv'
  BY <1>7, Names DEF Harness!InputEnds, AllChildren, Harness!Proxies,
     Harness!Readers, Harness!Replicas
<1>8. ASSUME Harness!MainWait PROVE HarnessTypeInv' /\ ForkInv'
  BY <1>8, Names DEF Harness!MainWait, AllChildren, Harness!Proxies,
     Harness!Readers, Harness!Replicas
<1>9. ASSUME Harness!Signalled PROVE HarnessTypeInv' /\ ForkInv'
  BY <1>9, Names DEF Harness!Signalled, AllChildren, Harness!Proxies,
     Harness!Readers, Harness!Replicas
<1>10. ASSUME Harness!handleChildCrash PROVE HarnessTypeInv' /\ ForkInv'
  <2>1. /\ over' \in {"no", "handler", "main", "relay"}
        /\ replicasAlive' \in Int
        /\ zombies' \subseteq zombies /\ uncounted' \subseteq Harness!Proxies
        /\ UNCHANGED <<mode, harnessPc, k, executablePid, running>>
    BY <1>10, Handler
  <2>2. \A c \in Harness!children \cup uncounted : c \in Harness!Proxies =>
          c \in Harness!children' \cup uncounted' \/ c \in executablePid
    BY <1>10, Handler
  <2>3. uncounted' \subseteq Harness!children \cup uncounted /\ Harness!children' \cap uncounted' = {}
    BY <1>10, Handler
  <2>4. harnessPc = "store" => Harness!Proxy(k) \notin executablePid /\ Harness!Proxy(k) \in Harness!Proxies
    BY DEF Harness!Proxies
  <2>5. Harness!children' \subseteq Harness!children
    BY <2>1
  <2>6. HarnessTypeInv'
    BY <2>1, <2>3
  <2>7. /\ \A i \in Harness!Replicas : Harness!Proxy(i) \in Harness!children' \cup uncounted' =>
             Harness!Proxy(i) \in Harness!children \cup uncounted
        /\ harnessPc = "store" => Harness!Proxy(k) \in Harness!children' \cup uncounted'
    BY <2>2, <2>3, <2>4, <2>5
  <2>8. ForkInv'
    BY <2>1, <2>5, <2>7
  <2> QED
    BY <2>6, <2>8
<1>11. ASSUME Harness!relayToVoter PROVE HarnessTypeInv' /\ ForkInv'
  BY <1>11 DEF Harness!relayToVoter, Harness!RelaysForEver
<1>12. ASSUME Harness!End PROVE HarnessTypeInv' /\ ForkInv'
  BY <1>12, Names DEF Harness!End, AllChildren, Harness!Proxies,
     Harness!Readers, Harness!Replicas
<1>13. CASE UNCHANGED Harness!vars
  BY <1>13, Names DEF Harness!vars, AllChildren, Harness!Proxies,
     Harness!Readers, Harness!Replicas
<1>14. QED
  BY <1>1, <1>2, <1>3, <1>4, <1>5, <1>6, <1>7, <1>8, <1>9, <1>10, <1>11,
     <1>12, <1>13 DEF Harness!Next

\* Every step keeps what is known of the voter.
LEMMA VoterStep ==
  ASSUME HarnessTypeInv, ForkInv, VoterInv, [Harness!Next]_(Harness!vars)
  PROVE  VoterInv'
<1> USE DEF HarnessTypeInv, ForkInv, VoterInv, Harness!mainVars,
        Harness!countVars, Harness!childVars,
        Harness!MainRuns,
      Harness!children, Late
<1>1. ASSUME Harness!FirstRun PROVE VoterInv'
  BY <1>1 DEF Harness!FirstRun
<1>2. ASSUME Harness!ForkProxy PROVE VoterInv'
  BY <1>2 DEF Harness!ForkProxy, Harness!Fork
<1>3. ASSUME Harness!StoreProxy PROVE VoterInv'
  BY <1>3 DEF Harness!StoreProxy
<1>4. ASSUME Harness!ForkReader PROVE VoterInv'
  BY <1>4, Names DEF Harness!ForkReader
<1>5. ASSUME Harness!ForkVoter PROVE VoterInv'
  BY <1>5 DEF Harness!ForkVoter, Harness!Fork
<1>6. ASSUME Harness!StoreVoter PROVE VoterInv'
  BY <1>6 DEF Harness!StoreVoter
<1>7. ASSUME Harness!InputEnds PROVE VoterInv'
  BY <1>7 DEF Harness!InputEnds
<1>8. ASSUME Harness!MainWait PROVE VoterInv'
  BY <1>8 DEF Harness!MainWait
<1>9. ASSUME Harness!Signalled PROVE VoterInv'
  BY <1>9 DEF Harness!Signalled
<1>10. ASSUME Harness!handleChildCrash PROVE VoterInv'
  BY <1>10, Handler
<1>11. ASSUME Harness!relayToVoter PROVE VoterInv'
  BY <1>11 DEF Harness!relayToVoter, Harness!RelaysForEver
<1>12. ASSUME Harness!End PROVE VoterInv'
  BY <1>12 DEF Harness!End
<1>13. CASE UNCHANGED Harness!vars
  BY <1>13 DEF Harness!vars
<1>14. QED
  BY <1>1, <1>2, <1>3, <1>4, <1>5, <1>6, <1>7, <1>8, <1>9, <1>10, <1>11,
     <1>12, <1>13 DEF Harness!Next

\* When all the replicas have been counted none is left, and all were stored.
LEMMA AllCounted ==
  ASSUME N \in Nat, HarnessTypeInv, Cardinality(CountedReplicas) = N
  PROVE  executablePid = Harness!Proxies /\ Harness!Proxies \cap Harness!children = {} /\ uncounted = {}
<1>1. CountedReplicas \in SUBSET Harness!Proxies
  BY DEF CountedReplicas, HarnessTypeInv
<1>2. CountedReplicas = Harness!Proxies
  BY <1>1, ChildCounts, FS_Subset
<1> QED
  BY <1>2 DEF CountedReplicas, HarnessTypeInv

\* The counted proxies are finitely many.
LEMMA CountedFinite ==
  ASSUME N \in Nat, HarnessTypeInv
  PROVE  IsFiniteSet(CountedReplicas) /\ Cardinality(CountedReplicas) \in Nat
<1>1. CountedReplicas \in SUBSET Harness!Proxies
  BY DEF CountedReplicas, HarnessTypeInv
<1> QED
  BY <1>1, ChildCounts, FS_Subset, FS_CardinalityType

\* What the handler does to the count.
LEMMA HandlerCounts ==
  ASSUME N \in Nat, HarnessTypeInv, ForkInv, NEW z \in zombies,
         zombies' = zombies \ {z}, UNCHANGED <<executablePid, running>>,
         uncounted' = IF z \in executablePid THEN uncounted
                      ELSE uncounted \cup ({z} \cap Harness!Proxies),
         z \notin uncounted
  PROVE  Cardinality(CountedReplicas') = IF z \in executablePid THEN Cardinality(CountedReplicas) + 1
                                                        ELSE Cardinality(CountedReplicas)
<1>1. Harness!children' = Harness!children \ {z} /\ z \in Harness!children
  BY DEF Harness!children, HarnessTypeInv
<1>2. CASE z \in executablePid
  <2>1. CountedReplicas' = CountedReplicas \cup {z} /\ z \notin CountedReplicas
    BY <1>1, <1>2 DEF CountedReplicas
  <2> QED
    BY <1>2, <2>1, CountedFinite, FS_AddElement
<1>3. CASE z \notin executablePid
  <2>1. CountedReplicas' = CountedReplicas
    BY <1>1, <1>3 DEF CountedReplicas, HarnessTypeInv
  <2> QED
    BY <1>3, <2>1
<1> QED
  BY <1>2, <1>3
\* Every step keeps the count.
LEMMA CountStep ==
  ASSUME N \in Nat, HarnessTypeInv, ForkInv, CountInv,
         [Harness!Next]_(Harness!vars)
  PROVE  CountInv'
<1> USE DEF CountInv, Harness!mainVars, Harness!countVars, Harness!childVars,
        Harness!MainRuns
<1>1. ASSUME Harness!FirstRun PROVE CountInv'
  BY <1>1 DEF Harness!FirstRun, CountedReplicas, Harness!children
<1>2. ASSUME Harness!ForkProxy PROVE CountInv'
  <2>1. Harness!Proxy(k) \notin executablePid
    BY <1>2 DEF Harness!ForkProxy, Harness!Fork, ForkInv, HarnessTypeInv, Late
  <2>2. CountedReplicas' = CountedReplicas
    BY <1>2, <2>1 DEF Harness!ForkProxy, Harness!Fork, CountedReplicas,
       Harness!children
  <2> QED
    BY <1>2, <2>2 DEF Harness!ForkProxy, Harness!Fork
<1>3. ASSUME Harness!StoreProxy PROVE CountInv'
  <2>1. Harness!Proxy(k) \in Harness!children \cup uncounted
    BY <1>3 DEF Harness!StoreProxy, ForkInv
  <2>2. CountedReplicas' = CountedReplicas
    BY <1>3, <2>1 DEF Harness!StoreProxy, CountedReplicas, Harness!children
  <2> QED
    BY <1>3, <2>2 DEF Harness!StoreProxy
<1>4. ASSUME Harness!ForkReader PROVE CountInv'
  <2>1. Harness!Reader(k) \notin Harness!Proxies
    BY <1>4, Names DEF Harness!ForkReader, Harness!Proxies, HarnessTypeInv,
       Late
  <2>2. CountedReplicas' = CountedReplicas
    BY <1>4, <2>1 DEF Harness!ForkReader, CountedReplicas, Harness!children,
       HarnessTypeInv
  <2> QED
    BY <1>4, <2>2 DEF Harness!ForkReader
<1>5. ASSUME Harness!ForkVoter PROVE CountInv'
  <2>1. Harness!Voter \notin Harness!Proxies
    BY Names DEF Harness!Proxies
  <2>2. CountedReplicas' = CountedReplicas
    BY <1>5, <2>1 DEF Harness!ForkVoter, Harness!Fork, CountedReplicas,
       Harness!children, HarnessTypeInv
  <2> QED
    BY <1>5, <2>2 DEF Harness!ForkVoter, Harness!Fork
<1>6. ASSUME Harness!StoreVoter PROVE CountInv'
  BY <1>6 DEF Harness!StoreVoter, CountedReplicas, Harness!children
<1>7. ASSUME Harness!InputEnds PROVE CountInv'
  BY <1>7 DEF Harness!InputEnds, CountedReplicas, Harness!children
<1>8. ASSUME Harness!MainWait PROVE CountInv'
  <2>1. CountedReplicas' = CountedReplicas
    BY <1>8 DEF Harness!MainWait, CountedReplicas, Harness!children,
       HarnessTypeInv
  <2> QED
    BY <1>8, <2>1 DEF Harness!MainWait
<1>9. ASSUME Harness!Signalled PROVE CountInv'
  BY <1>9 DEF Harness!Signalled, CountedReplicas, Harness!children
<1>10. ASSUME Harness!handleChildCrash PROVE CountInv'
  <2>1. CASE UNCHANGED <<over, voterPid, replicasAlive, zombies, uncounted, patched>>
    <3>1. CountedReplicas' = CountedReplicas
      BY <1>10, <2>1, Handler DEF CountedReplicas, Harness!children
    <3> QED
      BY <1>10, <2>1, <3>1
  <2>2. ASSUME NEW z \in zombies,
               zombies' = zombies \ {z},
               uncounted' = IF z \in executablePid THEN uncounted
                            ELSE uncounted \cup ({z} \cap Harness!Proxies),
               \/ over' = "relay"
               \/ replicasAlive' = IF z \in executablePid
                                     THEN replicasAlive - 1 ELSE replicasAlive
        PROVE  CountInv'
    <3>1. over = "no" /\ UNCHANGED <<executablePid, running>>
      BY <1>10, Handler
    <3>2. z \notin uncounted
      BY DEF HarnessTypeInv, Harness!children
    <3>3. Cardinality(CountedReplicas') = IF z \in executablePid
                                    THEN Cardinality(CountedReplicas) + 1 ELSE Cardinality(CountedReplicas)
      BY <2>2, <3>1, <3>2, HandlerCounts
    <3> QED
      BY <2>2, <3>1, <3>3, CountedFinite DEF HarnessTypeInv
  <2> QED
    BY <1>10, <2>1, <2>2, Handler
<1>11. ASSUME Harness!relayToVoter PROVE CountInv'
  BY <1>11 DEF Harness!relayToVoter, Harness!RelaysForEver
<1>12. ASSUME Harness!End PROVE CountInv'
  <2>1. Harness!children' = Harness!children
    BY <1>12 DEF Harness!End, Harness!children
  <2> QED
    BY <1>12, <2>1 DEF Harness!End, CountedReplicas
<1>13. CASE UNCHANGED Harness!vars
  BY <1>13 DEF Harness!vars, CountedReplicas, Harness!children
<1>14. QED
  BY <1>1, <1>2, <1>3, <1>4, <1>5, <1>6, <1>7, <1>8, <1>9, <1>10, <1>11,
     <1>12, <1>13 DEF Harness!Next

\* Main has forked and stored every replica by the time it waits.
LEMMA AllStored ==
  ASSUME HarnessTypeInv, ForkInv, harnessPc = "wait"
  PROVE  executablePid = Harness!Proxies
BY DEF HarnessTypeInv, ForkInv, Harness!Proxies, Late

\* Who is left besides the replicas is a reader or the voter.
LEMMA RestFinite ==
  ASSUME N \in Nat, HarnessTypeInv
  PROVE  IsFiniteSet(Rest) /\ Cardinality(Rest) \in Nat /\ Cardinality(Rest) <= N + 1
<1>1. Rest \in SUBSET (Harness!Readers \cup {Harness!Voter})
  BY DEF Rest, HarnessTypeInv, Harness!children, AllChildren
<1> QED
  BY <1>1, ChildCounts, FS_Subset, FS_CardinalityType

\* A child less leaves at most as many besides the replicas.
LEMMA RestShrinks ==
  ASSUME N \in Nat, HarnessTypeInv, NEW c \in Harness!children,
         Harness!children' = Harness!children \ {c}
  PROVE  /\ Cardinality(Rest') <= Cardinality(Rest)
         /\ c \notin Harness!Proxies => Cardinality(Rest') = Cardinality(Rest) - 1
         /\ Cardinality(Rest') \in Nat
<1>1. Rest' = Rest \ {c} /\ (c \notin Harness!Proxies => c \in Rest)
  BY DEF Rest
<1>2. IsFiniteSet(Rest')
        /\ Cardinality(Rest') = IF c \in Rest THEN Cardinality(Rest) - 1 ELSE Cardinality(Rest)
  BY <1>1, RestFinite, FS_RemoveElement
<1> QED
  BY <1>1, <1>2, RestFinite, FS_CardinalityType

\* Every step keeps what the waits of main have reaped.
LEMMA WaitStep ==
  ASSUME N \in Nat \ {0, 1}, HarnessTypeInv, HarnessTypeInv', WaitInv,
         [Harness!Next]_(Harness!vars)
  PROVE  WaitInv'
<1> USE DEF WaitInv, Harness!mainVars, Harness!countVars, Harness!childVars,
        Harness!MainRuns
<1>1. ASSUME Harness!FirstRun PROVE WaitInv'
  BY <1>1 DEF Harness!FirstRun
<1>2. ASSUME Harness!ForkProxy PROVE WaitInv'
  BY <1>2 DEF Harness!ForkProxy, Harness!Fork
<1>3. ASSUME Harness!StoreProxy PROVE WaitInv'
  BY <1>3 DEF Harness!StoreProxy
<1>4. ASSUME Harness!ForkReader PROVE WaitInv'
  BY <1>4 DEF Harness!ForkReader
<1>5. ASSUME Harness!ForkVoter PROVE WaitInv'
  BY <1>5 DEF Harness!ForkVoter, Harness!Fork
<1>6. ASSUME Harness!StoreVoter PROVE WaitInv'
  BY <1>6 DEF Harness!StoreVoter
<1>7. ASSUME Harness!InputEnds PROVE WaitInv'
  <2>1. Harness!children' = Harness!children /\ Rest' = Rest
    BY <1>7 DEF Harness!InputEnds, Harness!children, Rest
  <2> QED
    BY <1>7, <2>1, RestFinite DEF Harness!InputEnds
<1>8. ASSUME Harness!MainWait PROVE WaitInv'
  <2>1. harnessPc = "wait" /\ k' = k + 1 /\ k \in Nat /\ running' = running
    BY <1>8 DEF Harness!MainWait, HarnessTypeInv
  <2>2. CASE Harness!children = {} /\ zombies' = zombies
    BY <2>1, <2>2 DEF Harness!children
  <2>3. ASSUME NEW z \in zombies, zombies' = zombies \ {z},
               uncounted' = uncounted \cup ({z} \cap Harness!Proxies)
        PROVE  WaitInv'
    <3>1. Harness!children' = Harness!children \ {z} /\ z \in Harness!children
      BY <2>1, <2>3 DEF Harness!children, HarnessTypeInv
    <3>2. uncounted' = {} => uncounted = {} /\ z \notin Harness!Proxies
      BY <2>3
    <3>3. uncounted' = {} => Cardinality(Rest') = Cardinality(Rest) - 1
      BY <3>1, <3>2, RestShrinks
    <3>4. uncounted' = {} => k - 1 + Cardinality(Rest) <= N + 1
      BY <2>1, <3>1, <3>2
    <3>5. uncounted' = {} => k' - 1 + Cardinality(Rest') <= N + 1
      BY <2>1, <3>3, <3>4, RestFinite
    <3> QED
      BY <3>5
  <2> QED
    BY <1>8, <2>2, <2>3 DEF Harness!MainWait
<1>9. ASSUME Harness!Signalled PROVE WaitInv'
  BY <1>9 DEF Harness!Signalled, Harness!children, Rest
<1>10. ASSUME Harness!handleChildCrash PROVE WaitInv'
  <2>1. UNCHANGED <<harnessPc, k, running>> /\ (uncounted' = {} => uncounted = {})
    BY <1>10, Handler
  <2>2. CASE zombies' = zombies
    BY <2>1, <2>2 DEF Harness!children, Rest
  <2>3. ASSUME NEW z \in zombies, zombies' = zombies \ {z} PROVE WaitInv'
    <3>1. Harness!children' = Harness!children \ {z} /\ z \in Harness!children
      BY <2>1, <2>3 DEF Harness!children, HarnessTypeInv
    <3>2. Cardinality(Rest') <= Cardinality(Rest) /\ Cardinality(Rest') \in Nat
      BY <3>1, RestShrinks
    <3>3. harnessPc = "wait" /\ uncounted' = {} => k - 1 + Cardinality(Rest') <= N + 1
      BY <2>1, <3>1, <3>2, RestFinite DEF HarnessTypeInv
    <3> QED
      BY <2>1, <3>3
  <2> QED
    BY <1>10, <2>2, <2>3, Handler
<1>11. ASSUME Harness!relayToVoter PROVE WaitInv'
  BY <1>11 DEF Harness!relayToVoter, Harness!children, Rest
<1>12. ASSUME Harness!End PROVE WaitInv'
  <2>1. Harness!children' = Harness!children
    BY <1>12 DEF Harness!End, Harness!children
  <2> QED
    BY <1>12, <2>1 DEF Harness!End, Rest
<1>13. CASE UNCHANGED Harness!vars
  <2>1. Harness!children' = Harness!children
    BY <1>13 DEF Harness!vars, Harness!children
  <2> QED
    BY <1>13, <2>1 DEF Harness!vars, Rest
<1>14. QED
  BY <1>1, <1>2, <1>3, <1>4, <1>5, <1>6, <1>7, <1>8, <1>9, <1>10, <1>11,
     <1>12, <1>13 DEF Harness!Next

\* Every step keeps the patch where it belongs.
LEMMA PatchStep ==
  ASSUME N \in Nat \ {0, 1}, HarnessTypeInv, HarnessTypeInv', ForkInv,
         CountInv, CountInv',
         PatchInv,
         WaitInv, WaitInv', [Harness!Next]_(Harness!vars)
  PROVE  PatchInv'
<1> USE DEF PatchInv, Harness!mainVars, Harness!countVars, Harness!childVars,
        Harness!MainRuns
<1>1. ASSUME Harness!FirstRun PROVE PatchInv'
  BY <1>1 DEF Harness!FirstRun
<1>2. ASSUME Harness!ForkProxy PROVE PatchInv'
  BY <1>2 DEF Harness!ForkProxy, Harness!Fork
<1>3. ASSUME Harness!StoreProxy PROVE PatchInv'
  BY <1>3 DEF Harness!StoreProxy
<1>4. ASSUME Harness!ForkReader PROVE PatchInv'
  BY <1>4 DEF Harness!ForkReader
<1>5. ASSUME Harness!ForkVoter PROVE PatchInv'
  BY <1>5 DEF Harness!ForkVoter, Harness!Fork
<1>6. ASSUME Harness!StoreVoter PROVE PatchInv'
  BY <1>6 DEF Harness!StoreVoter
<1>7. ASSUME Harness!InputEnds PROVE PatchInv'
  BY <1>7 DEF Harness!InputEnds
<1>8. ASSUME Harness!MainWait PROVE PatchInv'
  <2>1. /\ over = "no" /\ harnessPc = "wait" /\ k' = k + 1 /\ k \in Nat
        /\ over' = IF k = 2 * N THEN "main" ELSE "no"
        /\ UNCHANGED <<mode, harnessPc, replicasAlive, executablePid, running, patched>>
        /\ \/ Harness!children = {}
           \/ \E z \in zombies : /\ zombies' = zombies \ {z}
                                /\ uncounted' = uncounted \cup ({z} \cap Harness!Proxies)
    BY <1>8 DEF Harness!MainWait, Harness!Waits, HarnessTypeInv
  <2>2. ASSUME mode = "dieinject", over' = "main", uncounted' = {} PROVE FALSE
    <3>1. Harness!children' = {}
      <4>1. k = 2 * N /\ harnessPc' = "wait"
        BY <2>1, <2>2
      <4>2. Harness!children' = {} \/ k' - 1 + Cardinality(Rest') <= N + 1
        BY <2>2, <4>1 DEF WaitInv
      <4>3. Rest' \subseteq Harness!Readers \cup {Harness!Voter}
        BY DEF Rest, HarnessTypeInv, Harness!children, AllChildren
      <4>4. Cardinality(Rest') \in Nat
        BY <4>3, ChildCounts, FS_Subset, FS_CardinalityType
      <4> QED
        BY <2>1, <4>1, <4>2, <4>4
    <3>2. executablePid' = Harness!Proxies
      BY <2>1, AllStored
    <3>3. CountedReplicas' = Harness!Proxies
      BY <2>2, <3>1, <3>2 DEF CountedReplicas
    <3>4. replicasAlive' = 0
      BY <2>2, <3>3, ChildCounts DEF CountInv
    <3> QED
      BY <2>1, <2>2, <3>4
  <2> QED
    BY <2>1, <2>2
<1>9. ASSUME Harness!Signalled PROVE PatchInv'
  BY <1>9 DEF Harness!Signalled
<1>10. ASSUME Harness!handleChildCrash PROVE PatchInv'
  <2>1. CASE UNCHANGED <<over, voterPid, replicasAlive, zombies, uncounted, patched>>
    BY <1>10, <2>1, Handler DEF Harness!children
  <2>2. CASE over' = "relay" /\ mode = "diehard"
    BY <1>10, <2>2, Handler
  <2>3. CASE over' = "handler" /\ replicasAlive' = 0 /\ patched' /\ mode = "dieinject"
    <3>1. Cardinality(CountedReplicas') = N /\ Cardinality(CountedReplicas') \in Nat
      <4>1. CountedReplicas' \in SUBSET Harness!Proxies
        BY DEF CountedReplicas, HarnessTypeInv
      <4>2. Cardinality(CountedReplicas') \in Nat
        BY <4>1, ChildCounts, FS_Subset, FS_CardinalityType
      <4> QED
        BY <2>3, <4>2 DEF CountInv
    <3>2. CountedReplicas' \in SUBSET Harness!Proxies
      BY DEF CountedReplicas, HarnessTypeInv
    <3>3. CountedReplicas' = Harness!Proxies
      BY <3>1, <3>2, ChildCounts, FS_Subset
    <3>4. executablePid' = Harness!Proxies /\ Harness!Proxies \cap Harness!children' = {}
      BY <3>3 DEF CountedReplicas, HarnessTypeInv
    <3> QED
      BY <1>10, <2>3, <3>4, Handler
  <2>4. CASE over' = "handler" /\ mode = "diehard" /\ ~patched'
    BY <1>10, <2>4, Handler
  <2>5. CASE /\ UNCHANGED <<over, patched>> /\ over' = "no"
             /\ mode = "dieinject" => replicasAlive' > 0
    BY <1>10, <2>5, Handler
  <2> QED
    BY <1>10, <2>1, <2>2, <2>3, <2>4, <2>5, Handler DEF HarnessTypeInv
<1>11. ASSUME Harness!relayToVoter PROVE PatchInv'
  BY <1>11 DEF Harness!relayToVoter, Harness!RelaysForEver
<1>12. ASSUME Harness!End PROVE PatchInv'
  <2>1. Harness!children' = Harness!children
    BY <1>12 DEF Harness!End, Harness!children
  <2> QED
    BY <1>12, <2>1 DEF Harness!End
<1>13. CASE UNCHANGED Harness!vars
  <2>1. Harness!children' = Harness!children
    BY <1>13 DEF Harness!vars, Harness!children
  <2> QED
    BY <1>13, <2>1 DEF Harness!vars
<1>14. QED
  BY <1>1, <1>2, <1>3, <1>4, <1>5, <1>6, <1>7, <1>8, <1>9, <1>10, <1>11,
     <1>12, <1>13 DEF Harness!Next

-----------------------------------------------------------------------------
(* The theorems about the harnesses *)

\* The state before anything is forked satisfies the invariant.
LEMMA HarnessInit ==
  ASSUME N \in Nat \ {0, 1}, Harness!Init
  PROVE  HarnessIInv
<1> USE DEF Harness!Init
<1>1. Harness!children = {} /\ CountedReplicas = {}
  BY DEF Harness!children, CountedReplicas
<1>2. HarnessTypeInv
  BY <1>1 DEF HarnessTypeInv, Harness!Replicas, Late
<1>3. ForkInv
  BY <1>1 DEF ForkInv, Harness!Replicas, Late
<1>4. CountInv
  <2>1. Cardinality(CountedReplicas) = 0
    BY <1>1, FS_EmptySet
  <2> QED
    BY <2>1 DEF CountInv
<1>5. VoterInv /\ PatchInv /\ WaitInv
  BY <1>1 DEF VoterInv, PatchInv, WaitInv
<1> QED
  BY <1>2, <1>3, <1>4, <1>5 DEF HarnessIInv

\* The harness's counts and children stay as the invariant says, in whatever
\* order the children end and the signals are handled.
THEOREM HarnessInvariant ==
  ASSUME N \in Nat, N >= 2
  PROVE  Harness!Spec => []HarnessIInv
<1> N \in Nat \ {0, 1}
  OBVIOUS
<1>1. Harness!Init => HarnessIInv
  BY HarnessInit
<1>2. HarnessIInv /\ [Harness!Next]_(Harness!vars) => HarnessIInv'
  <2> SUFFICES ASSUME HarnessIInv, [Harness!Next]_(Harness!vars) PROVE HarnessIInv'
    OBVIOUS
  <2>1. HarnessTypeInv' /\ ForkInv' /\ VoterInv'
    BY ForkStep, VoterStep DEF HarnessIInv
  <2>2. CountInv' /\ WaitInv'
    BY <2>1, CountStep, WaitStep DEF HarnessIInv
  <2>3. PatchInv'
    BY <2>1, <2>2, PatchStep DEF HarnessIInv
  <2> QED
    BY <2>1, <2>2, <2>3 DEF HarnessIInv
<1> QED
  BY <1>1, <1>2, PTL DEF Harness!Spec

\* diehard's handler ends the harness only when the voter has ended, and
\* dieinject starts the patcher only when every replica has.
THEOREM EndsAfterAllAlways ==
  ASSUME N \in Nat, N >= 2
  PROVE  Harness!Spec => []EndsAfterAll
<1>1. HarnessIInv => EndsAfterAll
  BY DEF HarnessIInv, VoterInv, ForkInv, PatchInv, EndsAfterAll,
     EndsAfterAll, Harness!EndsAfterAll, HarnessTypeInv
<1> QED
  BY <1>1, HarnessInvariant, PTL

\* dieinject does not end without the patch unless somebody other than the
\* handler reaped a replica: main's 2N waits are more than there are children
\* to reap besides the replicas.
THEOREM PatchMadeAlways ==
  ASSUME N \in Nat, N >= 2
  PROVE  Harness!Spec => []PatchMade
<1>1. HarnessIInv => PatchMade
  BY DEF HarnessIInv, PatchInv, PatchMade, Harness!PatchMade
<1> QED
  BY <1>1, HarnessInvariant, PTL

----------------------------------------------------------------------------
(* The fault injectors: the inductive invariant *)

Call == [op : {"malloc"}, site : Sites] \cup [op : {"free"}, object : Nat]
Record == [freed : Nat, allocated : Nat]

\* How many of the calls before call p are allocations.
MallocsIn(calls, p) == Cardinality({j \in 1 .. p - 1 : calls[j].op = "malloc"})
Mallocs(p) == MallocsIn(trace, p)

\* The program frees what it has allocated, and that once.
TraceInv ==
  /\ trace \in Seq(Call)
  /\ \A j \in DOMAIN trace : trace[j].op = "free" => trace[j].object < Mallocs(j)
  /\ \A i, j \in DOMAIN trace :
       trace[i].op = "free" /\ trace[j].op = "free" /\ i # j =>
         trace[i].object # trace[j].object

\* The oracle has one record for each of its frees, which tells when it comes.
OracleTrue ==
  /\ log \in Seq(Record)
  /\ \A i \in DOMAIN log : \E j \in DOMAIN trace :
       trace[j].op = "free" /\ trace[j].object = log[i].allocated /\ log[i].freed = Mallocs(j)
  /\ \A j \in DOMAIN trace : trace[j].op = "free" =>
       \E i \in DOMAIN log : log[i].allocated = trace[j].object
  /\ \A i, j \in DOMAIN log : i # j => log[i].allocated # log[j].allocated
  /\ phase = "inject" =>
       \A i, j \in DOMAIN log : i < j => log[i].allocated < log[j].allocated

\* The first run.
TrackInv ==
  phase = "track" =>
    /\ time = Mallocs(Len(trace) + 1) /\ theMap \subseteq 0 .. time - 1
    /\ \A j \in DOMAIN trace : trace[j].op = "free" => trace[j].object \notin theMap
    /\ pos = 1 /\ allocated = <<>> /\ dangled = {}

\* Two objects of the program have the same address only if an object that had
\* it was freed early.
InjectInv ==
  /\ phase \in {"track", "inject"} /\ time \in Nat
  /\ pos \in 1 .. Len(trace) + 1 /\ oraclePosition \in Nat \ {0}
  /\ allocated \in Seq(Addresses) /\ Len(allocated) = Mallocs(pos)
  /\ phase = "inject" => time = Len(allocated)
  /\ liveObjects = real /\ "corrupt" \notin real
  /\ Faults!DangledObjects \subseteq 0 .. Len(allocated) - 1
  /\ lib # "old" =>
       \A d \in dangled : \E i \in DOMAIN log :
         log[i].allocated = d[1] /\ log[i].freed \in d[2] + 1 .. d[2] + Distance
  /\ \A obj \in Faults!Held \ Faults!DangledObjects :
       \/ allocated[obj + 1] \in real
       \/ \E d \in Faults!DangledObjects : allocated[d + 1] = allocated[obj + 1]
  /\ \A obj, l \in Faults!Held : obj # l /\ allocated[obj + 1] = allocated[l + 1] =>
       \E d \in Faults!DangledObjects : allocated[d + 1] = allocated[obj + 1]

FaultIInv == TraceInv /\ OracleTrue /\ TrackInv /\ InjectInv

\* What the constants have to be: no address of the heap is the mark of a
\* corrupt one.
FaultConstants == "corrupt" \notin Addresses /\ Distance \in Nat

----------------------------------------------------------------------------
(* The fault injectors: counting allocations and sorting records *)

\* The count is the count before, and one more after an allocation.
LEMMA MallocsFacts ==
  ASSUME NEW calls \in Seq(Call)
  PROVE  /\ MallocsIn(calls, 1) = 0
         /\ \A p \in 1 .. Len(calls) + 1 : MallocsIn(calls, p) \in Nat
         /\ \A p \in 1 .. Len(calls) :
              MallocsIn(calls, p + 1)
                = IF calls[p].op = "malloc" THEN MallocsIn(calls, p) + 1 ELSE MallocsIn(calls, p)
         /\ \A c \in Call, p \in 1 .. Len(calls) + 1 :
              MallocsIn(Append(calls, c), p) = MallocsIn(calls, p)
<1> DEFINE S(p) == {j \in 1 .. p - 1 : calls[j].op = "malloc"}
<1>1. Len(calls) \in Nat
  OBVIOUS
<1>2. ASSUME NEW p \in 1 .. Len(calls) + 1 PROVE IsFiniteSet(S(p)) /\ Cardinality(S(p)) \in Nat
  <2>1. IsFiniteSet(1 .. p - 1)
    BY <1>1, FS_Interval
  <2>2. S(p) \in SUBSET (1 .. p - 1)
    OBVIOUS
  <2> HIDE DEF S
  <2> QED
    BY <2>1, <2>2, FS_Subset, FS_CardinalityType
<1>3. S(1) = {}
  OBVIOUS
<1>4. ASSUME NEW p \in 1 .. Len(calls)
      PROVE  Cardinality(S(p + 1))
               = IF calls[p].op = "malloc" THEN Cardinality(S(p)) + 1 ELSE Cardinality(S(p))
  <2>1. CASE calls[p].op = "malloc"
    <3>1. S(p + 1) = S(p) \cup {p} /\ p \notin S(p)
      BY <1>1, <2>1
    <3>2. IsFiniteSet(S(p))
      BY <1>1, <1>2
    <3> HIDE DEF S
    <3> QED
      BY <2>1, <3>1, <3>2, FS_AddElement
  <2>2. CASE calls[p].op # "malloc"
    <3>1. S(p + 1) = S(p)
      BY <1>1, <2>2
    <3> HIDE DEF S
    <3> QED
      BY <2>2, <3>1
  <2> QED
    BY <2>1, <2>2
<1>5. ASSUME NEW c \in Call, NEW p \in 1 .. Len(calls) + 1
      PROVE  {j \in 1 .. p - 1 : Append(calls, c)[j].op = "malloc"} = S(p)
  <2>1. \A j \in 1 .. p - 1 : j \in 1 .. Len(calls)
    BY <1>1
  <2>2. \A j \in 1 .. p - 1 : Append(calls, c)[j] = calls[j]
    BY <1>1, <2>1
  <2> QED
    BY <2>2
<1>6. Cardinality(S(1)) = 0
  BY <1>3, FS_EmptySet
<1> QED
  BY <1>2, <1>4, <1>5, <1>6 DEF MallocsIn

\* Records of different objects can be sorted: each goes to the place that
\* follows those of the older objects.
LEMMA SortExists ==
  ASSUME NEW records \in Seq(Record),
         \A i, j \in DOMAIN records : i # j => records[i].allocated # records[j].allocated
  PROVE  \E s \in [DOMAIN records -> Faults!Range(records)] :
           /\ Faults!Range(s) = Faults!Range(records)
           /\ \A i, j \in DOMAIN s : i < j => Faults!byAllocation(s[i], s[j])
<1> DEFINE D == DOMAIN records
           n == Len(records)
           age(i) == records[i].allocated
           Older(i) == {j \in D : age(j) < age(i)}
           place == [i \in D |-> Cardinality(Older(i)) + 1]
<1>1. n \in Nat /\ D = 1 .. n /\ IsFiniteSet(D) /\ Cardinality(D) = n
  <2>1. n \in Nat /\ D = 1 .. n
    OBVIOUS
  <2>2. IsFiniteSet(1 .. n) /\ Cardinality(1 .. n) = n
    BY <2>1, FS_Interval
  <2> QED
    BY <2>1, <2>2
<1>2. \A i \in D : age(i) \in Nat
  <2>1. \A i \in D : records[i] \in Record
    OBVIOUS
  <2> QED
    BY <2>1 DEF Record
<1>3. ASSUME NEW i \in D
      PROVE  /\ IsFiniteSet(Older(i)) /\ Cardinality(Older(i)) \in Nat
             /\ Cardinality(Older(i)) + 1 \in 1 .. n
  <2>1. i \notin Older(i) /\ Older(i) \in SUBSET D /\ Older(i) \cup {i} \in SUBSET D
    BY <1>2
  <2> HIDE DEF Older
  <2>2. IsFiniteSet(Older(i)) /\ Cardinality(Older(i)) \in Nat
    BY <1>1, <2>1, FS_Subset, FS_CardinalityType
  <2>3. Cardinality(Older(i) \cup {i}) = Cardinality(Older(i)) + 1
    BY <2>1, <2>2, FS_AddElement
  <2>4. Cardinality(Older(i) \cup {i}) <= n
    BY <1>1, <2>1, FS_Subset
  <2> HIDE DEF D, n
  <2> QED
    BY <1>1, <2>2, <2>3, <2>4
<1>4. ASSUME NEW i \in D, NEW j \in D, age(i) < age(j)
      PROVE  Cardinality(Older(i)) < Cardinality(Older(j))
  <2>1. i \notin Older(i) /\ Older(i) \cup {i} \in SUBSET Older(j)
    BY <1>2, <1>4
  <2>2. IsFiniteSet(Older(i)) /\ IsFiniteSet(Older(j))
    BY <1>3
  <2>3. Cardinality(Older(i)) \in Nat /\ Cardinality(Older(j)) \in Nat
    BY <1>3
  <2> HIDE DEF Older
  <2>4. Cardinality(Older(i) \cup {i}) = Cardinality(Older(i)) + 1
    BY <2>1, <2>2, FS_AddElement
  <2>5. Cardinality(Older(i) \cup {i}) <= Cardinality(Older(j))
    BY <2>1, <2>2, FS_Subset
  <2> QED
    BY <2>3, <2>4, <2>5
<1>5. /\ place \in [D -> D]
      /\ \A i, j \in D : age(i) < age(j) => place[i] < place[j]
  <2>1. \A i \in D : place[i] = Cardinality(Older(i)) + 1
    OBVIOUS
  <2>2. \A i \in D : Cardinality(Older(i)) \in Nat /\ Cardinality(Older(i)) + 1 \in D
    BY <1>1, <1>3
  <2>3. \A i, j \in D : age(i) < age(j) => place[i] < place[j]
    <3> TAKE i, j \in D
    <3> HAVE age(i) < age(j)
    <3>1. Cardinality(Older(i)) < Cardinality(Older(j))
      BY <1>4
    <3> HIDE DEF Older, place
    <3> QED
      BY <2>1, <2>2, <3>1
  <2> HIDE DEF Older
  <2> QED
    BY <2>2, <2>3
<1> HIDE DEF place, Older
<1>6. place \in Surjection(D, D)
  <2>1. ASSUME NEW i \in D, NEW j \in D, i # j PROVE place[i] # place[j]
    <3>1. age(i) # age(j) /\ age(i) \in Nat /\ age(j) \in Nat
      BY <1>2, <2>1
    <3>2. place[i] \in 1 .. n /\ place[j] \in 1 .. n
      BY <1>1, <1>5
    <3>3. CASE age(i) < age(j)
      BY <1>1, <1>5, <3>2, <3>3
    <3>4. CASE age(j) < age(i)
      BY <1>1, <1>5, <3>2, <3>4
    <3> HIDE DEF age
    <3> QED
      BY <3>1, <3>3, <3>4
  <2>2. place \in Injection(D, D)
    BY <1>5, <2>1 DEF Injection, IsInjective
  <2> QED
    BY <1>1, <2>2, FS_Injection
<1>7. \A m \in D : \E i \in D : place[i] = m
  BY <1>6 DEF Surjection
<1> DEFINE at == [m \in D |-> CHOOSE i \in D : place[i] = m]
           s == [m \in D |-> records[at[m]]]
<1>8. /\ \A m \in D : at[m] \in D /\ place[at[m]] = m
      /\ \A i \in D : at[place[i]] = i
  <2>1. \A m \in D : at[m] \in D /\ place[at[m]] = m
    BY <1>7
  <2>2. ASSUME NEW i \in D PROVE at[place[i]] = i
    <3> DEFINE j == at[place[i]]
    <3>1. place[i] \in D /\ j \in D /\ place[j] = place[i]
      BY <1>5, <2>1
    <3> HIDE DEF j
    <3>2. place[i] \in 1 .. n
      BY <1>1, <3>1
    <3>3. ~(age(i) < age(j)) /\ ~(age(j) < age(i))
      <4>1. ~(place[i] < place[j]) /\ ~(place[j] < place[i])
        BY <3>1, <3>2
      <4> QED
        BY <1>5, <3>1, <4>1
    <3>4. age(i) = age(j)
      <4>1. age(i) \in Nat /\ age(j) \in Nat
        BY <1>2, <3>1
      <4> HIDE DEF age
      <4> QED
        BY <3>3, <4>1
    <3>5. i = j
      BY <3>1, <3>4
    <3> QED
      BY <3>5 DEF j
  <2> QED
    BY <2>1, <2>2
<1> HIDE DEF at
<1>9. s \in [D -> Faults!Range(records)]
  BY <1>8 DEF Faults!Range
<1>10. Faults!Range(s) = Faults!Range(records)
  <2>1. \A m \in D : s[m] = records[at[m]]
    OBVIOUS
  <2>2. \A i \in D : s[place[i]] = records[i] /\ place[i] \in D
    BY <1>5, <1>8, <2>1
  <2>3. DOMAIN s = D
    OBVIOUS
  <2> HIDE DEF s
  <2> QED
    <3>1. ASSUME NEW y \in Faults!Range(s) PROVE y \in Faults!Range(records)
      <4>1. PICK m \in D : y = s[m]
        BY <2>3 DEF Faults!Range
      <4> QED
        BY <1>8, <2>1, <4>1 DEF Faults!Range
    <3>2. ASSUME NEW y \in Faults!Range(records) PROVE y \in Faults!Range(s)
      <4>1. PICK i \in D : y = records[i]
        BY DEF Faults!Range
      <4> QED
        BY <2>2, <2>3, <4>1 DEF Faults!Range
    <3> QED
      BY <3>1, <3>2
<1>11. ASSUME NEW i \in D, NEW j \in D, i < j PROVE Faults!byAllocation(s[i], s[j])
  <2>1. s[i].allocated = age(at[i]) /\ s[j].allocated = age(at[j])
    OBVIOUS
  <2>2. at[i] \in D /\ at[j] \in D /\ place[at[i]] = i /\ place[at[j]] = j
    BY <1>8
  <2>3. i \in Nat /\ j \in Nat
    BY <1>1
  <2>4. ~(age(at[j]) < age(at[i]))
    <3>1. ~(place[at[j]] < place[at[i]])
      BY <1>11, <2>2, <2>3
    <3> QED
      BY <1>5, <2>2, <3>1
  <2>5. age(at[i]) # age(at[j])
    <3>1. at[i] # at[j]
      BY <1>11, <2>2, <2>3
    <3> QED
      BY <2>2, <3>1
  <2>6. age(at[i]) \in Nat /\ age(at[j]) \in Nat
    BY <1>2, <2>2
  <2>7. age(at[i]) < age(at[j])
    <3> HIDE DEF age
    <3> QED
      BY <2>4, <2>5, <2>6
  <2> QED
    BY <2>1, <2>7 DEF Faults!byAllocation
<1>12. DOMAIN s = D
  OBVIOUS
<1> HIDE DEF s, D
<1>13. s \in [DOMAIN records -> Faults!Range(records)]
  BY <1>9 DEF D
<1> QED
  BY <1>10, <1>11, <1>12, <1>13

\* So the log is sorted when the second run begins.
LEMMA SortFacts ==
  ASSUME NEW records \in Seq(Record),
         \A i, j \in DOMAIN records : i # j => records[i].allocated # records[j].allocated
  PROVE  /\ Faults!qsort(records) \in Seq(Record)
         /\ Faults!Range(Faults!qsort(records)) = Faults!Range(records)
         /\ \A i, j \in DOMAIN Faults!qsort(records) :
              i < j => Faults!qsort(records)[i].allocated < Faults!qsort(records)[j].allocated
<1> DEFINE s == Faults!qsort(records)
<1>1. /\ s \in [DOMAIN records -> Faults!Range(records)]
      /\ Faults!Range(s) = Faults!Range(records)
      /\ \A i, j \in DOMAIN s : i < j => Faults!byAllocation(s[i], s[j])
  BY SortExists DEF Faults!qsort
<1>2. Faults!Range(records) \subseteq Record /\ DOMAIN records = 1 .. Len(records)
      /\ Len(records) \in Nat
  BY DEF Faults!Range
<1> HIDE DEF s
<1>3. s \in Seq(Record)
  BY <1>1, <1>2
<1> QED
  BY <1>1, <1>3 DEF Faults!byAllocation, s

\* The count grows with the calls.
LEMMA MallocsGrow ==
  ASSUME trace \in Seq(Call), NEW j \in DOMAIN trace
  PROVE  Mallocs(j) <= Mallocs(Len(trace) + 1) /\ Mallocs(j) \in Nat
<1> DEFINE S(p) == {i \in 1 .. p - 1 : trace[i].op = "malloc"}
<1>1. Len(trace) \in Nat /\ j \in 1 .. Len(trace)
  OBVIOUS
<1>2. S(j) \in SUBSET S(Len(trace) + 1)
  BY <1>1
<1>3. S(Len(trace) + 1) \in SUBSET (1 .. Len(trace))
  BY <1>1
<1>4. IsFiniteSet(1 .. Len(trace))
  BY <1>1, FS_Interval
<1> HIDE DEF S
<1>6. Cardinality(S(j)) \in Nat
  BY <1>2, <1>3, <1>4, FS_Subset, FS_CardinalityType
<1>5. Cardinality(S(j)) <= Cardinality(S(Len(trace) + 1))
  BY <1>2, <1>3, <1>4, FS_Subset
<1> QED
  BY <1>5, <1>6 DEF Mallocs, MallocsIn, S

----------------------------------------------------------------------------
(* The fault injectors: the steps of the first run *)

\* One more call leaves the counts of those before it.
LEMMA OneMoreCall ==
  ASSUME trace \in Seq(Call), NEW c \in Call, trace' = Append(trace, c)
  PROVE  /\ Len(trace) \in Nat /\ trace' \in Seq(Call) /\ Len(trace') = Len(trace) + 1
         /\ DOMAIN trace = 1 .. Len(trace) /\ DOMAIN trace' = 1 .. Len(trace) + 1
         /\ \A j \in DOMAIN trace : trace'[j] = trace[j] /\ Mallocs(j)' = Mallocs(j)
         /\ trace'[Len(trace) + 1] = c
         /\ MallocsIn(trace', Len(trace) + 1) = Mallocs(Len(trace) + 1)
         /\ Mallocs(Len(trace) + 1) \in Nat /\ Mallocs(1)' = 0
         /\ Mallocs(Len(trace) + 1)'
              = IF c.op = "malloc" THEN Mallocs(Len(trace) + 1) + 1
                ELSE Mallocs(Len(trace) + 1)
<1>1. /\ Len(trace) \in Nat /\ trace' \in Seq(Call) /\ Len(trace') = Len(trace) + 1
      /\ DOMAIN trace = 1 .. Len(trace) /\ DOMAIN trace' = 1 .. Len(trace) + 1
      /\ \A j \in DOMAIN trace : trace'[j] = trace[j]
      /\ trace'[Len(trace) + 1] = c
  OBVIOUS
<1>2. \A p \in 1 .. Len(trace) + 1 : /\ MallocsIn(trace', p) = MallocsIn(trace, p)
                                     /\ MallocsIn(trace, p) \in Nat
  BY MallocsFacts
<1>3. MallocsIn(trace', 1) = 0
  BY <1>1, MallocsFacts
<1>4. MallocsIn(trace', (Len(trace) + 1) + 1)
        = IF c.op = "malloc" THEN MallocsIn(trace', Len(trace) + 1) + 1
          ELSE MallocsIn(trace', Len(trace) + 1)
  <2>1. Len(trace) + 1 \in 1 .. Len(trace')
    BY <1>1
  <2> QED
    BY <1>1, <2>1, MallocsFacts
<1>5. Len(trace) + 1 \in 1 .. Len(trace) + 1 /\ (Len(trace) + 1) + 1 = Len(trace) + 2
      /\ \A j \in DOMAIN trace : j \in 1 .. Len(trace) + 1
  BY <1>1
<1> HIDE DEF MallocsIn
<1>6. \A j \in DOMAIN trace : Mallocs(j)' = Mallocs(j)
  BY <1>2, <1>5 DEF Mallocs
<1>7. Mallocs(Len(trace) + 1)' = MallocsIn(trace', (Len(trace) + 1) + 1)
  BY <1>1 DEF Mallocs
<1> QED
  BY <1>1, <1>2, <1>3, <1>4, <1>5, <1>6, <1>7 DEF Mallocs

\* What the second run knows of itself before it begins.
LEMMA BeforeInjection ==
  ASSUME phase' = phase, time' \in Nat, InjectInv, TrackInv, phase = "track",
         trace \in Seq(Call), NEW c \in Call, trace' = Append(trace, c),
         UNCHANGED <<lib, pos, allocated, liveObjects, real, oraclePosition, dangled>>
  PROVE  InjectInv'
<1>1. pos = 1 /\ allocated = <<>> /\ dangled = {}
  BY DEF TrackInv
<1>2. Faults!Held' = {} /\ Faults!DangledObjects' = {}
  BY <1>1 DEF Faults!Held, Faults!DangledObjects
<1>3. pos' \in 1 .. Len(trace') + 1 /\ Len(allocated') = Mallocs(pos)'
  <2>1. Len(trace) \in Nat /\ Len(trace') = Len(trace) + 1 /\ Mallocs(1)' = 0
    BY OneMoreCall
  <2>2. Mallocs(pos)' = Mallocs(1)'
    BY <1>1 DEF Mallocs
  <2> QED
    BY <1>1, <2>1, <2>2
<1> QED
  BY <1>1, <1>2, <1>3 DEF InjectInv

\* An allocation of the first run.
LEMMA TrackMallocStep ==
  ASSUME FaultIInv, NEW s \in Sites, Faults!TrackMalloc(s)
  PROVE  FaultIInv'
<1> DEFINE c == [op |-> "malloc", site |-> s]
           n == Len(trace)
<1>1. /\ phase = "track" /\ phase' = phase /\ time' = time + 1 /\ log' = log
      /\ theMap' = theMap \cup {time} /\ trace' = Append(trace, c)
      /\ UNCHANGED <<lib, pos, allocated, liveObjects, real, oraclePosition, dangled>>
  BY DEF Faults!TrackMalloc, Faults!trackVars
<1>2. c \in Call /\ c.op = "malloc"
  BY DEF Call
<1> HIDE DEF c
<1>3. TraceInv /\ OracleTrue /\ TrackInv /\ InjectInv /\ trace \in Seq(Call)
  BY DEF FaultIInv, TraceInv
<1>4. /\ n \in Nat /\ trace' \in Seq(Call) /\ Len(trace') = n + 1
      /\ DOMAIN trace = 1 .. n /\ DOMAIN trace' = 1 .. n + 1
      /\ \A j \in DOMAIN trace : trace'[j] = trace[j] /\ Mallocs(j)' = Mallocs(j)
      /\ trace'[n + 1] = c /\ Mallocs(n + 1) \in Nat
      /\ Mallocs(Len(trace) + 1)' = Mallocs(n + 1) + 1
  BY <1>1, <1>2, <1>3, OneMoreCall
<1> HIDE DEF n
<1>5. \A j \in DOMAIN trace' : trace'[j].op = "free" => j \in DOMAIN trace
  BY <1>2, <1>4
<1>6. TraceInv'
  <2>1. \A j \in DOMAIN trace' : trace'[j].op = "free" => trace'[j].object < Mallocs(j)'
    BY <1>3, <1>4, <1>5 DEF TraceInv
  <2>2. \A i, j \in DOMAIN trace' :
          trace'[i].op = "free" /\ trace'[j].op = "free" /\ i # j =>
            trace'[i].object # trace'[j].object
    BY <1>3, <1>4, <1>5 DEF TraceInv
  <2> QED
    BY <1>4, <2>1, <2>2 DEF TraceInv
<1>7. OracleTrue'
  <2>1. ASSUME NEW i \in DOMAIN log
        PROVE  \E j \in DOMAIN trace' :
                 /\ trace'[j].op = "free" /\ trace'[j].object = log[i].allocated
                 /\ log[i].freed = Mallocs(j)'
    <3>1. PICK j \in DOMAIN trace : /\ trace[j].op = "free"
                                    /\ trace[j].object = log[i].allocated
                                    /\ log[i].freed = Mallocs(j)
      BY <1>3 DEF OracleTrue
    <3>2. j \in DOMAIN trace' /\ trace'[j] = trace[j] /\ Mallocs(j)' = Mallocs(j)
      BY <1>4
    <3> QED
      BY <3>1, <3>2
  <2>2. \A j \in DOMAIN trace' : trace'[j].op = "free" =>
          \E i \in DOMAIN log : log[i].allocated = trace'[j].object
    BY <1>3, <1>4, <1>5 DEF OracleTrue
  <2> QED
    BY <1>1, <1>3, <2>1, <2>2 DEF OracleTrue
<1>8. TrackInv'
  <2>1. time = Mallocs(n + 1) /\ theMap \subseteq 0 .. time - 1
    BY <1>1, <1>3 DEF TrackInv, n
  <2>2. theMap' \subseteq 0 .. time' - 1
    <3>1. time \in Nat
      BY <1>4, <2>1
    <3>2. \A x \in theMap \cup {time} : x \in 0 .. (time + 1) - 1
      BY <2>1, <3>1
    <3> QED
      BY <1>1, <3>2
  <2>3. \A j \in DOMAIN trace' : trace'[j].op = "free" => trace'[j].object \notin theMap'
    <3>1. SUFFICES ASSUME NEW j \in DOMAIN trace, trace[j].op = "free"
                   PROVE  trace[j].object \notin theMap \cup {time}
      BY <1>1, <1>4, <1>5
    <3>2. trace[j].object \notin theMap
      BY <1>1, <1>3, <3>1 DEF TrackInv
    <3>3. trace[j].object < Mallocs(j)
      BY <1>3, <3>1 DEF TraceInv
    <3>4. Mallocs(j) <= Mallocs(n + 1) /\ Mallocs(j) \in Nat
      BY <1>3, <3>1, MallocsGrow DEF n
    <3>5. trace[j].object \in Nat
      BY <1>3, <3>1 DEF Call
    <3> QED
      BY <1>4, <2>1, <3>2, <3>3, <3>4, <3>5
  <2> QED
    BY <1>1, <1>3, <1>4, <2>1, <2>2, <2>3 DEF TrackInv
<1>9. InjectInv'
  <2>1. time' \in Nat
    BY <1>1, <1>3 DEF InjectInv
  <2> QED
    BY <1>1, <1>2, <1>3, <2>1, BeforeInjection
<1> QED
  BY <1>6, <1>7, <1>8, <1>9 DEF FaultIInv

\* A free of the first run.
LEMMA TrackFreeStep ==
  ASSUME FaultIInv, NEW obj \in theMap, Faults!TrackFree(obj)
  PROVE  FaultIInv'
<1> DEFINE c == [op |-> "free", object |-> obj]
           n == Len(trace)
           r == [freed |-> time, allocated |-> obj]
<1>1. /\ phase = "track" /\ phase' = phase /\ time' = time /\ log' = Append(log, r)
      /\ theMap' = theMap \ {obj} /\ trace' = Append(trace, c)
      /\ UNCHANGED <<lib, pos, allocated, liveObjects, real, oraclePosition, dangled>>
  BY DEF Faults!TrackFree, Faults!trackVars
<1>2. TraceInv /\ OracleTrue /\ TrackInv /\ InjectInv /\ trace \in Seq(Call)
      /\ log \in Seq(Record)
  BY DEF FaultIInv, TraceInv, OracleTrue
<1>3. time \in Nat /\ time = Mallocs(n + 1) /\ obj \in 0 .. time - 1
  BY <1>1, <1>2 DEF TrackInv, InjectInv
<1>4. c \in Call /\ c.op = "free" /\ c.object = obj /\ r \in Record /\ r.freed = time
      /\ r.allocated = obj
  BY <1>3 DEF Call, Record
<1> HIDE DEF c, r
<1>5. /\ n \in Nat /\ trace' \in Seq(Call) /\ Len(trace') = n + 1
      /\ DOMAIN trace = 1 .. n /\ DOMAIN trace' = 1 .. n + 1
      /\ \A j \in DOMAIN trace : trace'[j] = trace[j] /\ Mallocs(j)' = Mallocs(j)
      /\ trace'[n + 1] = c /\ MallocsIn(trace', n + 1) = Mallocs(n + 1)
      /\ Mallocs(Len(trace) + 1)' = Mallocs(n + 1)
  BY <1>1, <1>2, <1>4, OneMoreCall
<1> HIDE DEF n
<1>6. \A j \in DOMAIN trace' : j \in DOMAIN trace \/ j = n + 1
  BY <1>5
<1>7. \A j \in DOMAIN trace : trace[j].op = "free" => trace[j].object # obj
  BY <1>1, <1>2 DEF TrackInv
<1>8. TraceInv'
  <2>1. ASSUME NEW j \in DOMAIN trace', trace'[j].op = "free"
        PROVE  trace'[j].object < Mallocs(j)'
    <3>1. CASE j \in DOMAIN trace
      BY <1>2, <1>5, <2>1, <3>1 DEF TraceInv
    <3>2. CASE j = n + 1
      <4>1. trace'[j].object = obj /\ Mallocs(j)' = time
        BY <1>3, <1>4, <1>5, <3>2 DEF Mallocs
      <4> QED
        BY <1>3, <4>1
    <3> QED
      BY <1>6, <3>1, <3>2
  <2>2. ASSUME NEW i \in DOMAIN trace', NEW j \in DOMAIN trace',
               trace'[i].op = "free", trace'[j].op = "free", i # j
        PROVE  trace'[i].object # trace'[j].object
    <3>1. CASE i \in DOMAIN trace /\ j \in DOMAIN trace
      BY <1>2, <1>5, <2>2, <3>1 DEF TraceInv
    <3>2. CASE i \in DOMAIN trace /\ j = n + 1
      BY <1>4, <1>5, <1>7, <2>2, <3>2
    <3>3. CASE i = n + 1 /\ j \in DOMAIN trace
      BY <1>4, <1>5, <1>7, <2>2, <3>3
    <3> QED
      BY <1>6, <2>2, <3>1, <3>2, <3>3
  <2> QED
    BY <1>5, <2>1, <2>2 DEF TraceInv
<1> DEFINE l == Len(log)
<1>9. /\ log' \in Seq(Record) /\ DOMAIN log = 1 .. l /\ DOMAIN log' = 1 .. l + 1
      /\ l \in Nat /\ log'[l + 1] = r /\ \A i \in DOMAIN log : log'[i] = log[i]
  BY <1>1, <1>2, <1>4
<1> HIDE DEF l
<1>10. \A i \in DOMAIN log : log[i].allocated # obj
  <2> TAKE i \in DOMAIN log
  <2>1. \E j \in DOMAIN trace : trace[j].op = "free" /\ trace[j].object = log[i].allocated
    BY <1>2 DEF OracleTrue
  <2> QED
    BY <1>7, <2>1
<1>11. OracleTrue'
  <2>1. ASSUME NEW i \in DOMAIN log'
        PROVE  \E j \in DOMAIN trace' :
                 /\ trace'[j].op = "free" /\ trace'[j].object = log'[i].allocated
                 /\ log'[i].freed = Mallocs(j)'
    <3>1. CASE i \in DOMAIN log
      <4>1. PICK j \in DOMAIN trace : /\ trace[j].op = "free"
                                      /\ trace[j].object = log[i].allocated
                                      /\ log[i].freed = Mallocs(j)
        BY <1>2, <3>1 DEF OracleTrue
      <4>2. j \in DOMAIN trace' /\ trace'[j] = trace[j] /\ Mallocs(j)' = Mallocs(j)
        BY <1>5
      <4> QED
        BY <1>9, <3>1, <4>1, <4>2
    <3>2. CASE i = l + 1
      <4>1. n + 1 \in DOMAIN trace' /\ MallocsIn(trace', n + 1) = time
        BY <1>3, <1>5
      <4>2. log'[i] = r
        BY <1>9, <3>2
      <4> QED
        BY <1>4, <1>5, <4>1, <4>2 DEF Mallocs
    <3> QED
      BY <1>9, <3>1, <3>2
  <2>2. ASSUME NEW j \in DOMAIN trace', trace'[j].op = "free"
        PROVE  \E i \in DOMAIN log' : log'[i].allocated = trace'[j].object
    <3>1. CASE j \in DOMAIN trace
      <4>1. PICK i \in DOMAIN log : log[i].allocated = trace[j].object
        BY <1>2, <1>5, <2>2, <3>1 DEF OracleTrue
      <4>2. i \in DOMAIN log' /\ log'[i] = log[i] /\ trace'[j] = trace[j]
        BY <1>5, <1>9, <3>1
      <4> QED
        BY <4>1, <4>2
    <3>2. CASE j = n + 1
      <4>1. l + 1 \in DOMAIN log'
        BY <1>9
      <4> QED
        BY <1>4, <1>5, <1>9, <3>2, <4>1
    <3> QED
      BY <1>6, <3>1, <3>2
  <2>3. ASSUME NEW i \in DOMAIN log', NEW j \in DOMAIN log', i # j
        PROVE  log'[i].allocated # log'[j].allocated
    <3>1. CASE i \in DOMAIN log /\ j \in DOMAIN log
      BY <1>2, <1>9, <2>3, <3>1 DEF OracleTrue
    <3>2. CASE i \in DOMAIN log /\ j = l + 1
      BY <1>4, <1>9, <1>10, <3>2
    <3>3. CASE i = l + 1 /\ j \in DOMAIN log
      BY <1>4, <1>9, <1>10, <3>3
    <3> QED
      BY <1>9, <2>3, <3>1, <3>2, <3>3
  <2> QED
    BY <1>1, <1>9, <2>1, <2>2, <2>3 DEF OracleTrue
<1>12. TrackInv'
  <2>1. \A j \in DOMAIN trace' : trace'[j].op = "free" => trace'[j].object \notin theMap'
    <3> TAKE j \in DOMAIN trace'
    <3> HAVE trace'[j].op = "free"
    <3>1. CASE j \in DOMAIN trace
      BY <1>1, <1>2, <1>5, <3>1 DEF TrackInv
    <3>2. CASE j = n + 1
      BY <1>1, <1>4, <1>5, <3>2
    <3> QED
      BY <1>6, <3>1, <3>2
  <2> QED
    BY <1>1, <1>2, <1>3, <1>5, <2>1 DEF TrackInv
<1>13. InjectInv'
  <2>1. time' \in Nat
    BY <1>1, <1>3
  <2> QED
    BY <1>1, <1>2, <1>4, <2>1, BeforeInjection
<1> QED
  BY <1>8, <1>11, <1>12, <1>13 DEF FaultIInv

\* The log becomes the oracle.
LEMMA SortStep ==
  ASSUME FaultIInv, Faults!sortlog
  PROVE  FaultIInv'
<1>1. /\ phase = "track" /\ phase' = "inject" /\ log' = Faults!qsort(log) /\ time' = 0
      /\ UNCHANGED <<trace, lib, pos, allocated, liveObjects, real, oraclePosition, dangled>>
  BY DEF Faults!sortlog, Faults!trackVars
<1>2. TraceInv /\ OracleTrue /\ TrackInv /\ InjectInv /\ log \in Seq(Record)
  BY DEF FaultIInv, OracleTrue
<1>3. /\ log' \in Seq(Record) /\ Faults!Range(log') = Faults!Range(log)
      /\ \A i, j \in DOMAIN log' : i < j => log'[i].allocated < log'[j].allocated
  <2>1. \A i, j \in DOMAIN log : i # j => log[i].allocated # log[j].allocated
    BY <1>2 DEF OracleTrue
  <2> QED
    BY <1>1, <1>2, <2>1, SortFacts
<1>4. /\ \A i \in DOMAIN log' : \E m \in DOMAIN log : log'[i] = log[m]
      /\ \A m \in DOMAIN log : \E i \in DOMAIN log' : log'[i] = log[m]
  BY <1>3 DEF Faults!Range
<1>5. TraceInv'
  BY <1>1, <1>2 DEF TraceInv, Mallocs
<1>6. OracleTrue'
  <2>1. ASSUME NEW i \in DOMAIN log'
        PROVE  \E j \in DOMAIN trace :
                 /\ trace[j].op = "free" /\ trace[j].object = log'[i].allocated
                 /\ log'[i].freed = Mallocs(j)
    <3>1. PICK m \in DOMAIN log : log'[i] = log[m]
      BY <1>4
    <3>2. \E j \in DOMAIN trace : /\ trace[j].op = "free"
                                  /\ trace[j].object = log[m].allocated
                                  /\ log[m].freed = Mallocs(j)
      BY <1>2 DEF OracleTrue
    <3> QED
      BY <3>1, <3>2
  <2>2. ASSUME NEW j \in DOMAIN trace, trace[j].op = "free"
        PROVE  \E i \in DOMAIN log' : log'[i].allocated = trace[j].object
    <3>1. PICK m \in DOMAIN log : log[m].allocated = trace[j].object
      BY <1>2, <2>2 DEF OracleTrue
    <3> QED
      BY <1>4, <3>1
  <2>3. ASSUME NEW i \in DOMAIN log', NEW j \in DOMAIN log', i # j
        PROVE  log'[i].allocated # log'[j].allocated
    <3>1. i \in Nat /\ j \in Nat
      BY <1>3
    <3>2. log'[i] \in Record /\ log'[j] \in Record
      BY <1>3
    <3>3. log'[i].allocated \in Nat /\ log'[j].allocated \in Nat
      BY <3>2 DEF Record
    <3>4. i < j \/ j < i
      BY <2>3, <3>1
    <3> QED
      BY <1>3, <3>3, <3>4
  <2>4. \A j \in DOMAIN trace : Mallocs(j)' = Mallocs(j)
    BY <1>1 DEF Mallocs
  <2> QED
    BY <1>1, <1>3, <2>1, <2>2, <2>3, <2>4 DEF OracleTrue
<1>7. TrackInv'
  BY <1>1 DEF TrackInv
<1>8. InjectInv'
  <2>1. pos = 1 /\ allocated = <<>> /\ dangled = {}
    BY <1>1, <1>2 DEF TrackInv
  <2>2. Faults!Held' = {} /\ Faults!DangledObjects' = {}
    BY <1>1, <2>1 DEF Faults!Held, Faults!DangledObjects
  <2>3. Mallocs(pos)' = Mallocs(pos)
    BY <1>1 DEF Mallocs
  <2> QED
    BY <1>1, <1>2, <2>1, <2>2, <2>3 DEF InjectInv
<1> QED
  BY <1>5, <1>6, <1>7, <1>8 DEF FaultIInv

----------------------------------------------------------------------------
(* The fault injectors: the steps of the second run *)

\* The records the loop of malloc passes are of older objects.
LEMMA PassedFacts ==
  ASSUME FaultIInv
  PROVE  /\ Cardinality(Faults!Passed) \in Nat
         /\ \A i \in Faults!Passed :
              /\ i \in DOMAIN log /\ log[i].allocated \in Nat
              /\ log[i].freed \in Nat /\ log[i].allocated < time
<1>1. log \in Seq(Record) /\ oraclePosition \in Nat \ {0}
  BY DEF FaultIInv, OracleTrue, InjectInv
<1>2. Len(log) \in Nat /\ DOMAIN log = 1 .. Len(log)
  BY <1>1
<1>3. Faults!Passed \in SUBSET (1 .. Len(log))
  BY <1>1, <1>2 DEF Faults!Passed
<1>4. Cardinality(Faults!Passed) \in Nat
  <2>1. IsFiniteSet(1 .. Len(log))
    BY <1>2, FS_Interval
  <2> QED
    BY <1>3, <2>1, FS_Subset, FS_CardinalityType
<1>5. ASSUME NEW i \in Faults!Passed
      PROVE  /\ i \in DOMAIN log /\ log[i].allocated \in Nat /\ log[i].freed \in Nat
             /\ log[i].allocated < time
  <2>1. i \in DOMAIN log
    BY <1>2, <1>3
  <2>2. log[i] \in Record
    BY <1>1, <2>1
  <2>3. i \in oraclePosition .. i
    BY <1>1, <1>2 DEF Faults!Passed
  <2> QED
    BY <2>1, <2>2, <2>3 DEF Faults!Passed, Record
<1> QED
  BY <1>4, <1>5

\* An allocation of the second run.  Whatever loses its memory then has the
\* address of an object that is freed early, and the address of the new object
\* was free: an object that had it and lost it did so to one freed early.
LEMMA InjectMallocStep ==
  ASSUME FaultConstants, FaultIInv, NEW a \in Addresses, NEW coin \in BOOLEAN,
         Faults!InjectMalloc(a, coin)
  PROVE  FaultIInv'
<1> DEFINE now == Append(allocated, a)
           n == Len(allocated)
<1>1. TraceInv /\ OracleTrue /\ TrackInv /\ InjectInv
  BY DEF FaultIInv
<1>2. /\ phase = "inject" /\ pos <= Len(trace) /\ trace[pos].op = "malloc" /\ a \notin real
      /\ allocated' = now /\ oraclePosition' = oraclePosition + Cardinality(Faults!Passed)
      /\ time' = time + 1 /\ pos' = pos + 1
      /\ UNCHANGED <<lib, phase, trace, theMap, log>>
  BY SameCardinality DEF Faults!InjectMalloc
<1>3. PICK chosen \in SUBSET Faults!Candidates(now) :
        LET gone == {now[log[i].allocated + 1] : i \in chosen} IN
        /\ real' = (real \cup {a}) \ gone
        /\ liveObjects' = (liveObjects \cup {a}) \ gone
        /\ dangled' = dangled \cup {<<log[i].allocated, time>> : i \in chosen}
  BY DEF Faults!InjectMalloc
<1> DEFINE gone == {now[log[i].allocated + 1] : i \in chosen}
<1>4. /\ time = n /\ n \in Nat /\ allocated \in Seq(Addresses) /\ liveObjects = real
      /\ "corrupt" \notin real /\ pos \in 1 .. Len(trace) + 1 /\ oraclePosition \in Nat \ {0}
      /\ n = Mallocs(pos) /\ Faults!DangledObjects \subseteq 0 .. n - 1
  BY <1>1, <1>2 DEF InjectInv
<1>5. /\ now \in Seq(Addresses) /\ Len(now) = n + 1 /\ now[n + 1] = a
      /\ \A obj \in 0 .. n - 1 : now[obj + 1] = allocated[obj + 1]
  BY <1>4
<1>6. \A i \in chosen : /\ i \in DOMAIN log /\ log[i].allocated \in 0 .. n - 1
                        /\ log[i].freed \in Nat /\ time + Distance >= log[i].freed
                        /\ lib # "old" => log[i].freed - time > 0
  <2> TAKE i \in chosen
  <2>1. i \in Faults!Passed /\ time + Distance >= log[i].freed
        /\ (lib # "old" => log[i].freed - time > 0)
    BY <1>3 DEF Faults!Candidates, Faults!CandidatesOld
  <2>2. /\ i \in DOMAIN log /\ log[i].allocated \in Nat /\ log[i].freed \in Nat
        /\ log[i].allocated < time
    BY <2>1, PassedFacts
  <2> QED
    BY <1>4, <2>1, <2>2
<1> DEFINE Early == {log[i].allocated : i \in chosen}
<1>7. Faults!DangledObjects' = Faults!DangledObjects \cup Early
  <2>1. ASSUME NEW x \in Faults!DangledObjects' PROVE x \in Faults!DangledObjects \cup Early
    <3>1. PICK d \in dangled' : x = d[1]
      BY <2>1 DEF Faults!DangledObjects
    <3>2. CASE d \in dangled
      BY <3>1, <3>2 DEF Faults!DangledObjects
    <3>3. CASE d \in {<<log[i].allocated, time>> : i \in chosen}
      BY <3>1, <3>3
    <3> QED
      BY <1>3, <3>1, <3>2, <3>3
  <2>2. ASSUME NEW x \in Faults!DangledObjects PROVE x \in Faults!DangledObjects'
    BY <1>3, <2>2 DEF Faults!DangledObjects
  <2>3. ASSUME NEW i \in chosen PROVE log[i].allocated \in Faults!DangledObjects'
    <3>1. <<log[i].allocated, time>> \in dangled'
      BY <1>3
    <3> QED
      BY <3>1 DEF Faults!DangledObjects
  <2> QED
    BY <2>1, <2>2, <2>3
<1>8. \A d \in Faults!DangledObjects' : d \in 0 .. n - 1
  BY <1>4, <1>6, <1>7
<1>9. \A y \in gone : \E d \in Faults!DangledObjects' : now[d + 1] = y
  BY <1>7
<1>10. ASSUME NEW obj \in Faults!Held' PROVE obj \in Faults!Held \/ obj = n
  <2>1. obj \in 0 .. Len(now) - 1 /\ obj \notin Faults!FreedByProgram'
    BY <1>2 DEF Faults!Held
  <2>2. Faults!FreedByProgram \subseteq Faults!FreedByProgram'
    <3>1. pos \in Nat
      BY <1>4
    <3>2. \A j \in 1 .. pos - 1 : j \in 1 .. pos' - 1
      BY <1>2, <3>1
    <3> QED
      BY <1>2, <3>2 DEF Faults!FreedByProgram
  <2>3. obj \in 0 .. n - 1 \/ obj = n
    BY <1>4, <1>5, <2>1
  <2> QED
    BY <2>1, <2>2, <2>3 DEF Faults!Held
<1>11. \A obj \in Faults!Held : obj \in 0 .. n - 1
  BY DEF Faults!Held
<1> HIDE DEF now, n, gone, Early
<1>12. ASSUME NEW obj \in Faults!Held' \ Faults!DangledObjects'
       PROVE  \/ now[obj + 1] \in real'
              \/ \E d \in Faults!DangledObjects' : now[d + 1] = now[obj + 1]
  <2>1. CASE obj = n
    <3>1. now[obj + 1] = a
      BY <1>5, <2>1
    <3>2. a \in real' \/ a \in gone
      BY <1>3 DEF gone
    <3> QED
      BY <1>9, <3>1, <3>2
  <2>2. CASE obj \in Faults!Held
    <3>1. obj \in 0 .. n - 1 /\ now[obj + 1] = allocated[obj + 1] /\ obj \notin Faults!DangledObjects
      BY <1>5, <1>7, <1>11, <1>12, <2>2
    <3>2. \/ allocated[obj + 1] \in real
          \/ \E d \in Faults!DangledObjects : allocated[d + 1] = allocated[obj + 1]
      BY <1>1, <2>2, <3>1 DEF InjectInv
    <3>3. CASE allocated[obj + 1] \in real
      <4>1. now[obj + 1] \in real' \/ now[obj + 1] \in gone
        BY <1>3, <3>1, <3>3 DEF gone
      <4> QED
        BY <1>9, <4>1
    <3>4. CASE \E d \in Faults!DangledObjects : allocated[d + 1] = allocated[obj + 1]
      BY <1>4, <1>5, <1>7, <3>1, <3>4
    <3> QED
      BY <3>2, <3>3, <3>4
  <2> QED
    BY <1>10, <1>12, <2>1, <2>2
<1>13. ASSUME NEW obj \in Faults!Held, now[obj + 1] = a
       PROVE  \E d \in Faults!DangledObjects' : now[d + 1] = a
  <2>1. obj \in 0 .. n - 1 /\ allocated[obj + 1] = a
    BY <1>5, <1>11, <1>13
  <2>2. CASE obj \in Faults!DangledObjects
    BY <1>7, <1>13, <2>2
  <2>3. CASE obj \notin Faults!DangledObjects
    <3>1. \E d \in Faults!DangledObjects : allocated[d + 1] = allocated[obj + 1]
      BY <1>1, <1>2, <1>13, <2>1, <2>3 DEF InjectInv
    <3> QED
      BY <1>4, <1>5, <1>7, <2>1, <3>1
  <2> QED
    BY <2>2, <2>3
<1>14. ASSUME NEW obj \in Faults!Held', NEW l \in Faults!Held', obj # l, now[obj + 1] = now[l + 1]
       PROVE  \E d \in Faults!DangledObjects' : now[d + 1] = now[obj + 1]
  <2>1. CASE obj \in Faults!Held /\ l \in Faults!Held
    <3>1. allocated[obj + 1] = now[obj + 1] /\ allocated[l + 1] = now[l + 1]
      BY <1>5, <1>11, <2>1
    <3>2. \E d \in Faults!DangledObjects : allocated[d + 1] = allocated[obj + 1]
      BY <1>1, <1>14, <2>1, <3>1 DEF InjectInv
    <3> QED
      BY <1>4, <1>5, <1>7, <3>1, <3>2
  <2>2. CASE obj = n /\ l \in Faults!Held
    BY <1>5, <1>13, <1>14, <2>2
  <2>3. CASE l = n /\ obj \in Faults!Held
    BY <1>5, <1>13, <1>14, <2>3
  <2> QED
    BY <1>10, <1>14, <2>1, <2>2, <2>3
<1>15. ASSUME lib' # "old", NEW d \in dangled'
       PROVE  \E i \in DOMAIN log' :
                log'[i].allocated = d[1] /\ log'[i].freed \in d[2] + 1 .. d[2] + Distance
  <2>1. CASE d \in dangled
    BY <1>1, <1>2, <1>15, <2>1 DEF InjectInv
  <2>2. CASE d \notin dangled
    <3>1. PICK i \in chosen : d = <<log[i].allocated, time>>
      BY <1>3, <2>2
    <3>2. /\ i \in DOMAIN log /\ log[i].freed \in Nat /\ time + Distance >= log[i].freed
          /\ log[i].freed - time > 0 /\ time \in Nat
      BY <1>2, <1>4, <1>6, <1>15, <3>1
    <3>3. log[i].freed \in time + 1 .. time + Distance
      BY <3>2 DEF FaultConstants
    <3>4. d[1] = log[i].allocated /\ d[2] = time
      BY <3>1
    <3> QED
      BY <1>2, <3>2, <3>3, <3>4
  <2> QED
    BY <2>1, <2>2
<1>16. pos' \in 1 .. Len(trace') + 1 /\ Len(allocated') = Mallocs(pos)'
  <2>1. pos \in 1 .. Len(trace) /\ Len(trace) \in Nat /\ trace \in Seq(Call)
    BY <1>1, <1>2, <1>4 DEF TraceInv
  <2>2. MallocsIn(trace, pos + 1) = MallocsIn(trace, pos) + 1
    BY <1>2, <2>1, MallocsFacts
  <2>3. Mallocs(pos)' = MallocsIn(trace, pos + 1)
    BY <1>2 DEF Mallocs
  <2> QED
    BY <1>2, <1>4, <1>5, <2>1, <2>2, <2>3 DEF Mallocs
<1>17. /\ liveObjects' = real' /\ "corrupt" \notin real' /\ oraclePosition' \in Nat \ {0}
       /\ time' \in Nat /\ time' = Len(allocated')
  <2>1. Cardinality(Faults!Passed) \in Nat
    BY PassedFacts
  <2> QED
    BY <1>2, <1>3, <1>4, <1>5, <2>1 DEF FaultConstants
<1>18. Faults!DangledObjects' \subseteq 0 .. Len(allocated') - 1
  BY <1>2, <1>4, <1>5, <1>8
<1>19. InjectInv'
  BY <1>1, <1>2, <1>5, <1>12, <1>14, <1>15, <1>16, <1>17, <1>18 DEF InjectInv
<1>20. TraceInv' /\ OracleTrue' /\ TrackInv'
  <2>1. \A j \in DOMAIN trace : Mallocs(j)' = Mallocs(j)
    BY <1>2 DEF Mallocs
  <2> QED
    BY <1>1, <1>2, <2>1 DEF TraceInv, OracleTrue, TrackInv
<1> QED
  BY <1>19, <1>20 DEF FaultIInv

\* A free of the second run.  The object was held until now; if another has its
\* address, an object of that address was freed early.
LEMMA InjectFreeStep ==
  ASSUME FaultIInv, Faults!InjectFree
  PROVE  FaultIInv'
<1> DEFINE o == trace[pos].object
           A == allocated[o + 1]
<1>1. TraceInv /\ OracleTrue /\ TrackInv /\ InjectInv
  BY DEF FaultIInv
<1>2. /\ phase = "inject" /\ pos <= Len(trace) /\ trace[pos].op = "free" /\ pos' = pos + 1
      /\ UNCHANGED <<lib, phase, trace, time, theMap, log, allocated, oraclePosition, dangled>>
      /\ IF A \notin liveObjects THEN UNCHANGED <<liveObjects, real>>
         ELSE /\ liveObjects' = liveObjects \ {A}
              /\ real' = IF A \in real THEN real \ {A} ELSE real \cup {"corrupt"}
  BY DEF Faults!InjectFree, Faults!Gone
<1>3. /\ pos \in DOMAIN trace /\ trace \in Seq(Call) /\ pos \in 1 .. Len(trace)
      /\ Len(trace) \in Nat
  BY <1>1, <1>2 DEF TraceInv, InjectInv
<1>4. o \in Faults!Held
  <2>1. o < Mallocs(pos) /\ Mallocs(pos) = Len(allocated)
    BY <1>1, <1>2, <1>3 DEF TraceInv, InjectInv
  <2>2. o \in Nat
    <3>1. trace[pos] \in Call
      BY <1>3
    <3> QED
      BY <1>2, <3>1 DEF Call
  <2>3. o \notin Faults!FreedByProgram
    <3>1. ASSUME NEW j \in 1 .. pos - 1, trace[j].op = "free" PROVE trace[j].object # o
      <4>1. j \in DOMAIN trace /\ j # pos
        BY <1>3
      <4> QED
        BY <1>1, <1>2, <1>3, <3>1, <4>1 DEF TraceInv
    <3> QED
      BY <3>1 DEF Faults!FreedByProgram
  <2>4. Len(allocated) \in Nat
    BY <1>1 DEF InjectInv
  <2> QED
    BY <2>1, <2>2, <2>3, <2>4 DEF Faults!Held
<1>5. \A obj \in Faults!Held' : obj \in Faults!Held /\ obj # o
  <2> TAKE obj \in Faults!Held'
  <2>1. obj \in 0 .. Len(allocated) - 1 /\ obj \notin Faults!FreedByProgram'
    BY <1>2 DEF Faults!Held
  <2>2. \A j \in 1 .. pos - 1 : j \in 1 .. pos' - 1
    BY <1>2, <1>3
  <2>3. pos \in 1 .. pos' - 1
    BY <1>2, <1>3
  <2>4. Faults!FreedByProgram \subseteq Faults!FreedByProgram' /\ o \in Faults!FreedByProgram'
    BY <1>2, <2>2, <2>3 DEF Faults!FreedByProgram
  <2> QED
    BY <2>1, <2>4 DEF Faults!Held
<1>6. Faults!DangledObjects' = Faults!DangledObjects
  BY <1>2 DEF Faults!DangledObjects
<1>7. liveObjects = real /\ "corrupt" \notin real
  BY <1>1 DEF InjectInv
<1>8. /\ liveObjects' = real' /\ "corrupt" \notin real'
      /\ \A y \in real : y \in real' \/ y = A
  BY <1>2, <1>7
<1>9. ASSUME NEW obj \in Faults!Held' \ Faults!DangledObjects
      PROVE  \/ allocated[obj + 1] \in real'
             \/ \E d \in Faults!DangledObjects : allocated[d + 1] = allocated[obj + 1]
  <2>1. obj \in Faults!Held /\ obj # o
    BY <1>5, <1>9
  <2>2. \/ allocated[obj + 1] \in real
        \/ \E d \in Faults!DangledObjects : allocated[d + 1] = allocated[obj + 1]
    BY <1>1, <1>9, <2>1 DEF InjectInv
  <2>3. CASE allocated[obj + 1] = A
    BY <1>1, <1>4, <2>1, <2>3 DEF InjectInv
  <2>4. CASE allocated[obj + 1] # A
    BY <1>8, <2>2, <2>4
  <2> QED
    BY <2>3, <2>4
<1>10. pos' \in 1 .. Len(trace') + 1 /\ Len(allocated') = Mallocs(pos)'
  <2>1. MallocsIn(trace, pos + 1) = MallocsIn(trace, pos)
    BY <1>2, <1>3, MallocsFacts
  <2>2. Mallocs(pos)' = MallocsIn(trace, pos + 1)
    BY <1>2 DEF Mallocs
  <2>3. Len(allocated) = Mallocs(pos)
    BY <1>1 DEF InjectInv
  <2>4. pos' \in 1 .. Len(trace') + 1
    BY <1>2, <1>3
  <2> QED
    BY <1>2, <2>1, <2>2, <2>3, <2>4 DEF Mallocs
<1> HIDE DEF A, o
<1>11. InjectInv'
  BY <1>1, <1>2, <1>5, <1>6, <1>8, <1>9, <1>10 DEF InjectInv
<1>12. TraceInv' /\ OracleTrue' /\ TrackInv'
  <2>1. \A j \in DOMAIN trace : Mallocs(j)' = Mallocs(j)
    BY <1>2 DEF Mallocs
  <2> QED
    BY <1>1, <1>2, <2>1 DEF TraceInv, OracleTrue, TrackInv
<1> QED
  BY <1>11, <1>12 DEF FaultIInv

\* At first nothing has happened.
LEMMA FaultInit ==
  ASSUME Faults!Init
  PROVE  FaultIInv
<1>1. /\ phase = "track" /\ trace = <<>> /\ time = 0 /\ theMap = {} /\ log = <<>> /\ pos = 1
      /\ allocated = <<>> /\ liveObjects = {} /\ real = {} /\ oraclePosition = 1
      /\ dangled = {}
  BY DEF Faults!Init
<1>2. Faults!Held = {} /\ Faults!DangledObjects = {}
  BY <1>1 DEF Faults!Held, Faults!DangledObjects
<1>3. Mallocs(1) = 0 /\ trace \in Seq(Call)
  <2>1. trace \in Seq(Call)
    BY <1>1
  <2> QED
    BY <2>1, MallocsFacts DEF Mallocs
<1>4. Len(trace) = 0 /\ DOMAIN trace = {} /\ DOMAIN log = {} /\ Len(allocated) = 0
      /\ log \in Seq(Record) /\ allocated \in Seq(Addresses)
  BY <1>1
<1>5. TraceInv /\ OracleTrue
  BY <1>1, <1>3, <1>4 DEF TraceInv, OracleTrue
<1>6. TrackInv
  BY <1>1, <1>3, <1>4 DEF TrackInv
<1>7. InjectInv
  BY <1>1, <1>2, <1>3, <1>4 DEF InjectInv
<1> QED
  BY <1>5, <1>6, <1>7 DEF FaultIInv

\* The invariant holds throughout.
LEMMA FaultAlways ==
  ASSUME FaultConstants
  PROVE  Faults!Spec => []FaultIInv
<1>1. Faults!Init => FaultIInv
  BY FaultInit
<1>2. FaultIInv /\ [Faults!Next]_(Faults!vars) => FaultIInv'
  <2> SUFFICES ASSUME FaultIInv, [Faults!Next]_(Faults!vars) PROVE FaultIInv'
    OBVIOUS
  <2>1. CASE \E s \in Sites : Faults!TrackMalloc(s)
    BY <2>1, TrackMallocStep
  <2>2. CASE \E obj \in theMap : Faults!TrackFree(obj)
    BY <2>2, TrackFreeStep
  <2>3. CASE Faults!sortlog
    BY <2>3, SortStep
  <2>4. CASE \E a \in Addresses, coin \in BOOLEAN : Faults!InjectMalloc(a, coin)
    BY <2>4, InjectMallocStep
  <2>5. CASE Faults!InjectFree
    BY <2>5, InjectFreeStep
  <2>6. CASE UNCHANGED Faults!vars
    <3> USE DEF Faults!vars
    <3>1. Faults!Held' = Faults!Held /\ Faults!DangledObjects' = Faults!DangledObjects
      BY <2>6 DEF Faults!Held, Faults!FreedByProgram, Faults!DangledObjects
    <3>2. /\ \A j \in DOMAIN trace : Mallocs(j)' = Mallocs(j)
          /\ Mallocs(pos)' = Mallocs(pos) /\ Mallocs(Len(trace) + 1)' = Mallocs(Len(trace) + 1)
      BY <2>6 DEF Mallocs
    <3>3. TraceInv' /\ OracleTrue' /\ TrackInv'
      BY <2>6, <3>2 DEF FaultIInv, TraceInv, OracleTrue, TrackInv
    <3>4. InjectInv'
      BY <2>6, <3>1, <3>2 DEF FaultIInv, InjectInv
    <3> QED
      BY <3>3, <3>4 DEF FaultIInv
  <2> QED
    BY <2>1, <2>2, <2>3, <2>4, <2>5, <2>6 DEF Faults!Next
<1> QED
  BY <1>1, <1>2, PTL DEF Faults!Spec

\* The injectors free early only what the oracle says: for any program, any
\* number of objects and any addresses of the C library's heap.
THEOREM InjectedAsPlannedAlways == FaultConstants /\ Faults!Spec => []InjectedAsPlanned
<1> SUFFICES ASSUME FaultConstants PROVE Faults!Spec => []InjectedAsPlanned
  OBVIOUS
<1>1. FaultIInv => InjectedAsPlanned
  BY DEF FaultIInv, InjectInv, InjectedAsPlanned, Faults!InjectedAsPlanned
<1> QED
  BY <1>1, FaultAlways, PTL

\* The oracle that sortlog leaves tells of every free of the program when it
\* comes, and in the order of the allocations.
THEOREM OracleTrueAlways == FaultConstants /\ Faults!Spec => []OracleTrue
<1> SUFFICES ASSUME FaultConstants PROVE Faults!Spec => []OracleTrue
  OBVIOUS
<1>1. FaultIInv => OracleTrue
  BY DEF FaultIInv
<1> QED
  BY <1>1, FaultAlways, PTL

\* So an object freed early is one the program itself frees within the distance.
THEOREM EarlyBeforeProgram ==
  FaultConstants /\ Faults!Spec =>
    [](lib # "old" => \A d \in dangled : \E j \in DOMAIN trace :
         /\ trace[j].op = "free" /\ trace[j].object = d[1]
         /\ Mallocs(j) \in d[2] + 1 .. d[2] + Distance)
<1> SUFFICES ASSUME FaultConstants
             PROVE  Faults!Spec => [](lib # "old" => \A d \in dangled : \E j \in DOMAIN trace :
                                 /\ trace[j].op = "free" /\ trace[j].object = d[1]
                                 /\ Mallocs(j) \in d[2] + 1 .. d[2] + Distance)
  OBVIOUS
<1>1. ASSUME FaultIInv, lib # "old", NEW d \in dangled
      PROVE  \E j \in DOMAIN trace : /\ trace[j].op = "free" /\ trace[j].object = d[1]
                                     /\ Mallocs(j) \in d[2] + 1 .. d[2] + Distance
  <2>1. PICK i \in DOMAIN log :
          log[i].allocated = d[1] /\ log[i].freed \in d[2] + 1 .. d[2] + Distance
    BY <1>1 DEF FaultIInv, InjectInv
  <2>2. PICK j \in DOMAIN trace : /\ trace[j].op = "free" /\ trace[j].object = log[i].allocated
                                  /\ log[i].freed = Mallocs(j)
    BY <1>1 DEF FaultIInv, OracleTrue
  <2> QED
    BY <2>1, <2>2
<1>2. FaultIInv => (lib # "old" => \A d \in dangled : \E j \in DOMAIN trace :
                      /\ trace[j].op = "free" /\ trace[j].object = d[1]
                      /\ Mallocs(j) \in d[2] + 1 .. d[2] + Distance)
  BY <1>1
<1> QED
  BY <1>2, FaultAlways, PTL

----------------------------------------------------------------------------
(* KingsleyHeap, the heap of the fault injectors' containers: arithmetic *)

\* A power of two is a positive natural number, and the next is its double.
LEMMA PowerOfTwo ==
  ASSUME NEW n \in Nat
  PROVE  2 ^ n \in Nat \ {0} /\ 2 ^ (n + 1) = 2 * 2 ^ n
<1> DEFINE S == SUBSET (1 .. n)
           Add(T) == T \cup {n + 1}
           f == [T \in S |-> Add(T)]
           With == {Add(T) : T \in S}
<1>1. IsFiniteSet(1 .. n) /\ Cardinality(1 .. n) = n
  BY FS_Interval
<1>2. IsFiniteSet(S) /\ Cardinality(S) = 2 ^ n
  BY <1>1, FS_SUBSET
<1>3. IsFiniteSet(1 .. n + 1) /\ Cardinality(1 .. n + 1) = n + 1
  BY FS_Interval
<1>4. Cardinality(SUBSET (1 .. n + 1)) = 2 ^ (n + 1)
  BY <1>3, FS_SUBSET
<1>5. f \in Bijection(S, With)
  <2>1. f \in Surjection(S, With)
    BY DEF Surjection
  <2>2. \A T, U \in S : Add(T) = Add(U) => T = U
    <3> SUFFICES ASSUME NEW T \in S, NEW U \in S, Add(T) = Add(U) PROVE T = U
      OBVIOUS
    <3>1. n + 1 \notin T /\ n + 1 \notin U
      OBVIOUS
    <3> QED
      BY <3>1
  <2>3. f \in Injection(S, With)
    <3>1. f \in [S -> With] /\ \A T \in S : f[T] = Add(T)
      OBVIOUS
    <3> HIDE DEF f, S, With, Add
    <3> QED
      BY <2>2, <3>1 DEF Injection, IsInjective
  <2> QED
    BY <2>1, <2>3 DEF Bijection
<1>6. IsFiniteSet(With) /\ Cardinality(With) = 2 ^ n
  BY <1>2, <1>5, FS_Bijection DEF ExistsBijection
<1>7. S \cap With = {}
  OBVIOUS
<1>8. SUBSET (1 .. n + 1) = S \cup With
  <2>1. ASSUME NEW T \in SUBSET (1 .. n + 1) PROVE T \in S \cup With
    <3>1. CASE n + 1 \in T
      <4>1. T \ {n + 1} \in S /\ Add(T \ {n + 1}) = T
        BY <3>1
      <4> QED
        BY <4>1
    <3>2. CASE n + 1 \notin T
      BY <3>2
    <3> QED
      BY <3>1, <3>2
  <2>2. ASSUME NEW T \in S PROVE T \subseteq 1 .. n + 1 /\ Add(T) \subseteq 1 .. n + 1
    OBVIOUS
  <2>3. S \cup With \subseteq SUBSET (1 .. n + 1)
    BY <2>2
  <2> QED
    BY <2>1, <2>3
<1>9. Cardinality(S \cup With) = Cardinality(S) + Cardinality(With) - Cardinality({})
  <2> HIDE DEF S, With
  <2> QED
    BY <1>2, <1>6, <1>7, FS_Union
<1>10. Cardinality(S) \in Nat \ {0}
  <2>1. {} \in S
    OBVIOUS
  <2> QED
    BY <1>2, <2>1, FS_CardinalityType, FS_EmptySet
<1> HIDE DEF S, With
<1>11. Cardinality({}) = 0
  BY FS_EmptySet
<1>12. 2 ^ n \in Nat \ {0}
  BY <1>2, <1>10
<1>13. 2 ^ (n + 1) = Cardinality(S \cup With)
  BY <1>4, <1>8
<1>14. 2 ^ (n + 1) = 2 ^ n + 2 ^ n - 0
  BY <1>2, <1>6, <1>9, <1>11, <1>13
<1> QED
  BY <1>12, <1>14

\* Powers of two grow with the exponent.
LEMMA PowerMonotone ==
  ASSUME NEW m \in Nat, NEW n \in Nat, m <= n
  PROVE  2 ^ m <= 2 ^ n
<1>1. IsFiniteSet(1 .. m) /\ Cardinality(1 .. m) = m
  BY FS_Interval
<1>2. IsFiniteSet(1 .. n) /\ Cardinality(1 .. n) = n
  BY FS_Interval
<1>3. Cardinality(SUBSET (1 .. m)) = 2 ^ m
  BY <1>1, FS_SUBSET
<1>4. IsFiniteSet(SUBSET (1 .. n)) /\ Cardinality(SUBSET (1 .. n)) = 2 ^ n
  BY <1>2, FS_SUBSET
<1>5. SUBSET (1 .. m) \in SUBSET (SUBSET (1 .. n))
  OBVIOUS
<1>6. Cardinality(SUBSET (1 .. m)) <= Cardinality(SUBSET (1 .. n))
  BY <1>4, <1>5, FS_Subset
<1> QED
  BY <1>3, <1>4, <1>6

\* The first powers of two after 2 ^ n.
LEMMA Powers ==
  ASSUME NEW n \in Nat
  PROVE  /\ 2 ^ n \in Nat \ {0}
         /\ 2 ^ (n + 1) = 2 * 2 ^ n /\ 2 ^ (n + 2) = 4 * 2 ^ n
         /\ 2 ^ (n + 3) = 8 * 2 ^ n /\ 2 ^ (n + 7) = 128 * 2 ^ n
         /\ 2 ^ (n + 8) = 256 * 2 ^ n
<1>1. \A m \in Nat : 2 ^ m \in Nat \ {0} /\ 2 ^ (m + 1) = 2 * 2 ^ m
  BY PowerOfTwo
<1>2. /\ (n + 1) + 1 = n + 2 /\ (n + 2) + 1 = n + 3 /\ (n + 3) + 1 = n + 4
      /\ (n + 4) + 1 = n + 5 /\ (n + 5) + 1 = n + 6 /\ (n + 6) + 1 = n + 7
      /\ (n + 7) + 1 = n + 8
  OBVIOUS
<1>3. 2 ^ (n + 1) = 2 * 2 ^ n
  BY <1>1
<1>4. 2 ^ (n + 2) = 2 * 2 ^ (n + 1)
  BY <1>1, <1>2
<1>5. 2 ^ (n + 3) = 2 * 2 ^ (n + 2)
  BY <1>1, <1>2
<1>6. 2 ^ (n + 4) = 2 * 2 ^ (n + 3)
  BY <1>1, <1>2
<1>7. 2 ^ (n + 5) = 2 * 2 ^ (n + 4)
  BY <1>1, <1>2
<1>8. 2 ^ (n + 6) = 2 * 2 ^ (n + 5)
  BY <1>1, <1>2
<1>9. 2 ^ (n + 7) = 2 * 2 ^ (n + 6)
  BY <1>1, <1>2
<1>10. 2 ^ (n + 8) = 2 * 2 ^ (n + 7)
  BY <1>1, <1>2
<1>11. 2 ^ n \in Nat \ {0}
  BY <1>1
<1> QED
  BY <1>3, <1>4, <1>5, <1>6, <1>7, <1>8, <1>9, <1>10, <1>11

\* The sizes of the first classes.
LEMMA FirstClasses ==
  /\ Kingsley!class2Size(0) = 8 /\ Kingsley!class2Size(1) = 16 /\ Kingsley!class2Size(2) = 32
  /\ Kingsley!class2Size(3) = 64 /\ Kingsley!class2Size(4) = 128
<1>1. IsFiniteSet({}) /\ Cardinality({}) = 0
  BY FS_EmptySet
<1>2. Cardinality(SUBSET {}) = 2 ^ 0
  BY <1>1, FS_SUBSET
<1>3. SUBSET {} = {{}}
  OBVIOUS
<1>4. 2 ^ 0 = 1
  BY <1>2, <1>3, FS_Singleton
<1>5. 2 ^ (0 + 3) = 8 /\ 2 ^ (0 + 7) = 128
  BY <1>4, Powers
<1>6. 0 + 3 = 3 /\ 0 + 7 = 7
  OBVIOUS
<1>7. 2 ^ 3 = 8
  BY <1>5, <1>6
<1>8. 2 ^ (3 + 1) = 16 /\ 2 ^ (3 + 2) = 32 /\ 2 ^ (3 + 3) = 64
  BY <1>7, Powers
<1> QED
  BY <1>5, <1>6, <1>7, <1>8 DEF Kingsley!class2Size

\* The side condition: classes for 256 bytes at least (there are 29), and sizes
\* from 8 on.
KingsleySized ==
  /\ NUMBINS \in Nat /\ NUMBINS >= 6
  /\ ChunkBytes \in Nat /\ Header \in Nat
  /\ NodeSizes \subseteq Nat /\ \A n \in NodeSizes : n >= 8

\* A class has a positive size, and a larger one a larger size.
LEMMA ClassSize ==
  ASSUME NEW c \in Nat, NEW d \in Nat
  PROVE  /\ Kingsley!class2Size(c) \in Nat \ {0}
         /\ c <= d => Kingsley!class2Size(c) <= Kingsley!class2Size(d)
         /\ Kingsley!class2Size(c) < Kingsley!class2Size(d) => c < d
<1>1. c + 3 \in Nat /\ d + 3 \in Nat
  OBVIOUS
<1>2. /\ 2 ^ (c + 3) \in Nat \ {0} /\ 2 ^ (d + 3) \in Nat \ {0}
      /\ c + 3 <= d + 3 => 2 ^ (c + 3) <= 2 ^ (d + 3)
      /\ d + 3 <= c + 3 => 2 ^ (d + 3) <= 2 ^ (c + 3)
  BY <1>1, PowerOfTwo, PowerMonotone
<1> QED
  BY <1>2 DEF Kingsley!class2Size

\* The table of the classes of small sizes.
LEMMA SmallClass ==
  ASSUME NEW n \in Nat, n >= 8, n < 128
  PROVE  /\ Kingsley!size2Class(n) \in 0 .. 4
         /\ n <= Kingsley!class2Size(Kingsley!size2Class(n))
<1> DEFINE i == (n - 1) \div 8
<1>1. i \in 0 .. 15 /\ 8 * i <= n - 1 /\ n - 1 < 8 * i + 8
  OBVIOUS
<1>2. Kingsley!size2Class(n) = Kingsley!cl[i + 1]
  BY DEF Kingsley!size2Class
<1> HIDE DEF i
<1>3. CASE i = 0
  <2>1. Kingsley!cl[i + 1] = 0
    BY <1>3 DEF Kingsley!cl
  <2> QED
    BY <1>1, <1>2, <1>3, <2>1, FirstClasses
<1>4. CASE i = 1
  <2>1. Kingsley!cl[i + 1] = 1
    BY <1>4 DEF Kingsley!cl
  <2> QED
    BY <1>1, <1>2, <1>4, <2>1, FirstClasses
<1>5. CASE i \in 2 .. 3
  <2>1. Kingsley!cl[i + 1] = 2
    BY <1>5 DEF Kingsley!cl
  <2> QED
    BY <1>1, <1>2, <1>5, <2>1, FirstClasses
<1>6. CASE i \in 4 .. 7
  <2>1. Kingsley!cl[i + 1] = 3
    BY <1>6 DEF Kingsley!cl
  <2> QED
    BY <1>1, <1>2, <1>6, <2>1, FirstClasses
<1>7. CASE i \in 8 .. 15
  <2>1. Kingsley!cl[i + 1] = 4
    BY <1>7 DEF Kingsley!cl
  <2> QED
    BY <1>1, <1>2, <1>7, <2>1, FirstClasses
<1> QED
  BY <1>1, <1>3, <1>4, <1>5, <1>6, <1>7

\* The quotient is at most 7 exactly if the number is less than eight times the
\* divisor.
LEMMA AtMostSeven ==
  ASSUME NEW a \in Nat, NEW b \in Nat \ {0}
  PROVE  a \div b <= 7 <=> a < 8 * b
<1> DEFINE q == a \div b
           r == a % b
<1>1. q \in Nat /\ r \in Nat /\ r < b /\ a = b * q + r
  BY Division
<1> HIDE DEF q, r
<1>2. q <= 7 => b * q <= b * 7
  BY <1>1, Z3
<1>3. 8 <= q => b * 8 <= b * q
  BY <1>1, Z3
<1>4. b * q \in Nat /\ b * 7 = 7 * b /\ b * 8 = 8 * b
  BY <1>1, Z3
<1>5. q <= 7 <=> a < 8 * b
  BY <1>1, <1>2, <1>3, <1>4
<1> QED
  BY <1>5 DEF q

\* The loop of size2Class for the others.
LEMMA LargeClass ==
  ASSUME KingsleySized, NEW n \in Nat, n >= 128, n <= Kingsley!maxObjectSize
  PROVE  /\ Kingsley!size2Class(n) \in Kingsley!Bins
         /\ n <= Kingsley!class2Size(Kingsley!size2Class(n))
<1> DEFINE m == (n - 1) \div 32
           left(j) == m \div 2 ^ j
           Stops(c) == left(c) <= 7 /\ \A j \in 0 .. c - 1 : left(j) > 7
           t == CHOOSE c \in 0 .. NUMBINS : Stops(c)
           T == {j \in Nat : left(j) <= 7}
<1>1. /\ m \in Nat /\ 32 * m <= n - 1 /\ n - 1 < 32 * m + 32
      /\ NUMBINS \in Nat /\ NUMBINS >= 6
  BY DEF KingsleySized
<1>2. Kingsley!size2Class(n) = 5 + t
  BY DEF Kingsley!size2Class
<1>3. Kingsley!maxObjectSize = 4 * 2 ^ NUMBINS
  <2>1. Kingsley!maxObjectSize = 2 ^ (NUMBINS + 2)
    <3>1. NUMBINS - 1 + 3 = NUMBINS + 2
      BY <1>1
    <3> QED
      BY <3>1 DEF Kingsley!maxObjectSize, Kingsley!class2Size
  <2> QED
    BY <1>1, <2>1, Powers
<1>p. \A j \in Nat : 2 ^ j \in Nat \ {0}
  BY PowerOfTwo
<1> HIDE DEF m
<1>4. \A j \in Nat : left(j) \in Nat /\ (left(j) <= 7 <=> m < 8 * 2 ^ j)
  BY <1>1, <1>p, AtMostSeven, Division
<1>5. m < 8 * 2 ^ NUMBINS
  BY <1>1, <1>3, <1>p
<1>6. NUMBINS \in T
  BY <1>1, <1>4, <1>5
<1>7. PICK x \in T : \A y \in T : x <= y
  <2>1. T \in SUBSET Nat /\ T # {}
    BY <1>6
  <2> HIDE DEF T
  <2> QED
    BY <2>1, Least
<1>8. x \in 0 .. NUMBINS /\ Stops(x)
  <2>1. x \in Nat /\ x <= NUMBINS /\ left(x) <= 7
    BY <1>6, <1>7
  <2>2. ASSUME NEW j \in 0 .. x - 1 PROVE left(j) > 7
    <3>1. j \in Nat /\ j \notin T
      BY <1>7, <2>1
    <3> QED
      BY <1>4, <3>1
  <2> QED
    BY <1>1, <2>1, <2>2
<1>9. t \in 0 .. NUMBINS /\ Stops(t)
  <2> HIDE DEF Stops
  <2> QED
    BY <1>8
<1> HIDE DEF t
<1>10. m < 8 * 2 ^ t
  BY <1>1, <1>4, <1>9
<1>11. n <= 256 * 2 ^ t
  BY <1>1, <1>9, <1>10, <1>p
<1>12. Kingsley!class2Size(5 + t) = 256 * 2 ^ t
  <2>1. 5 + t + 3 = t + 8 /\ t \in Nat
    BY <1>9
  <2> QED
    BY <2>1, Powers DEF Kingsley!class2Size
<1>13. 5 + t < NUMBINS
  <2>1. CASE t = 0
    BY <1>1, <2>1
  <2>2. CASE t # 0
    <3> DEFINE j == t - 1
    <3>1. j \in Nat /\ j \in 0 .. t - 1 /\ t = j + 1
      BY <1>9, <2>2
    <3>2. ~(left(j) <= 7)
      BY <1>4, <1>9, <3>1
    <3>3. m >= 8 * 2 ^ j
      BY <1>1, <1>4, <1>p, <3>1, <3>2
    <3>4. n > 256 * 2 ^ j
      BY <1>1, <1>p, <3>1, <3>3
    <3>5. 256 * 2 ^ j = 2 ^ (j + 8)
      BY <3>1, Powers
    <3>6. 2 ^ (NUMBINS + 2) = 4 * 2 ^ NUMBINS
      BY <1>1, Powers
    <3>7. j + 8 \in Nat /\ NUMBINS + 2 \in Nat
      BY <1>1, <3>1
    <3>8. 2 ^ (j + 8) \in Nat /\ 2 ^ (NUMBINS + 2) \in Nat
      BY <1>p, <3>7
    <3>9. 2 ^ (j + 8) < 2 ^ (NUMBINS + 2)
      BY <1>3, <3>4, <3>5, <3>6, <3>8
    <3>10. ~(NUMBINS + 2 <= j + 8)
      BY <3>7, <3>8, <3>9, PowerMonotone
    <3> QED
      BY <1>1, <3>1, <3>10
  <2> QED
    BY <2>1, <2>2
<1> QED
  BY <1>1, <1>2, <1>9, <1>11, <1>12, <1>13 DEF Kingsley!Bins

\* size2Class finds a bin that is large enough.
LEMMA ClassFits ==
  ASSUME KingsleySized, NEW n \in NodeSizes, n <= Kingsley!maxObjectSize
  PROVE  /\ Kingsley!size2Class(n) \in Kingsley!Bins
         /\ n <= Kingsley!class2Size(Kingsley!size2Class(n))
<1>1. n \in Nat /\ n >= 8 /\ NUMBINS \in Nat /\ NUMBINS >= 6
  BY DEF KingsleySized
<1>2. CASE n < 128
  BY <1>1, <1>2, SmallClass DEF Kingsley!Bins
<1>3. CASE n >= 128
  BY <1>1, <1>3, LargeClass
<1> QED
  BY <1>1, <1>2, <1>3

\* The class of a freed object is a bin whose objects are not larger.
LEMMA FiledFits ==
  ASSUME KingsleySized, NEW n \in NodeSizes, n <= Kingsley!maxObjectSize
  PROVE  /\ Kingsley!FiledUnder(n) \in Kingsley!Bins
         /\ Kingsley!class2Size(Kingsley!FiledUnder(n)) <= n
<1> DEFINE s == Kingsley!size2Class(n)
           Fits(c) == Kingsley!class2Size(c) <= n /\ \A d \in c + 1 .. s : Kingsley!class2Size(d) > n
           T == {j \in Nat : j <= s /\ Kingsley!class2Size(s - j) <= n}
<1>1. s \in Kingsley!Bins /\ s \in Nat /\ n \in Nat /\ n >= 8
  BY ClassFits DEF KingsleySized, Kingsley!Bins
<1> HIDE DEF s
<1>2. s \in T
  <2>1. s - s = 0
    BY <1>1
  <2> QED
    BY <1>1, <2>1, FirstClasses
<1>3. PICK x \in T : \A y \in T : x <= y
  <2>1. T \in SUBSET Nat /\ T # {}
    BY <1>2
  <2> HIDE DEF T
  <2> QED
    BY <2>1, Least
<1>4. s - x \in 0 .. s /\ Fits(s - x)
  <2>1. x \in Nat /\ x <= s /\ Kingsley!class2Size(s - x) <= n
    BY <1>3
  <2>2. ASSUME NEW d \in s - x + 1 .. s PROVE Kingsley!class2Size(d) > n
    <3>1. s - d \in Nat /\ s - d < x /\ s - d <= s /\ d \in Nat /\ s - (s - d) = d
      BY <1>1, <2>1
    <3>2. s - d \notin T
      BY <1>3, <2>1, <3>1
    <3>3. Kingsley!class2Size(d) \in Nat
      BY <3>1, ClassSize
    <3> QED
      BY <1>1, <3>1, <3>2, <3>3
  <2> QED
    BY <1>1, <2>1, <2>2
<1>5. Kingsley!FiledUnder(n) = CHOOSE c \in 0 .. s : Fits(c)
  BY DEF Kingsley!FiledUnder, s
<1>6. Kingsley!FiledUnder(n) \in 0 .. s /\ Fits(Kingsley!FiledUnder(n))
  <2> HIDE DEF Fits
  <2> QED
    BY <1>4, <1>5
<1> QED
  BY <1>1, <1>6 DEF Kingsley!Bins, KingsleySized

----------------------------------------------------------------------------
(* KingsleyHeap: the inductive invariant *)

Heaps == Kingsley!Bins \cup {Kingsley!bigheap}

KingsleyTypeInv ==
  /\ bump \in [Heaps -> Nat] /\ remaining \in [Heaps -> Nat] /\ mappedBytes \in Nat
  /\ DOMAIN headers \subseteq Nat /\ headers \in [DOMAIN headers -> NodeSizes]
  /\ DOMAIN askedFor \subseteq DOMAIN headers /\ askedFor \in [DOMAIN askedFor -> NodeSizes]
  /\ \A p \in DOMAIN askedFor : askedFor[p] <= headers[p]
  /\ myFreeList \in [Kingsley!Bins -> Seq(Nat)] /\ binmap \subseteq Kingsley!Bins

\* Objects with their headers do not overlap, and what a BumpAlloc has left is
\* mapped and apart from them and from what the others have left.
LayoutInv ==
  /\ \A p \in DOMAIN headers : p >= Header /\ p + headers[p] <= mappedBytes
  /\ \A p, q \in DOMAIN headers : p < q => p + headers[p] + Header <= q
  /\ \A h \in Heaps : bump[h] + remaining[h] <= mappedBytes
  /\ \A h, g \in Heaps :
       h # g => \/ bump[h] + remaining[h] <= bump[g]
                \/ bump[g] + remaining[g] <= bump[h]
  /\ \A h \in Heaps, p \in DOMAIN headers :
       p + headers[p] <= bump[h] \/ bump[h] + remaining[h] + Header <= p

\* What is listed is free and large enough for its bin, and is listed once.
ListInv ==
  /\ \A b \in Kingsley!Bins : \A i \in 1 .. Len(myFreeList[b]) :
       /\ myFreeList[b][i] \in DOMAIN headers \ DOMAIN askedFor
       /\ Kingsley!class2Size(b) <= headers[myFreeList[b][i]]
  /\ \A b, c \in Kingsley!Bins : \A i \in 1 .. Len(myFreeList[b]), j \in 1 .. Len(myFreeList[c]) :
       myFreeList[b][i] = myFreeList[c][j] => b = c /\ i = j

KingsleyIInv == KingsleyTypeInv /\ LayoutInv /\ ListInv

\* The invariant holds initially.
LEMMA KingsleyInit ==
  ASSUME KingsleySized, Kingsley!Init
  PROVE  KingsleyIInv
<1>1. DOMAIN headers = {} /\ DOMAIN askedFor = {}
  BY DEF Kingsley!Init
<1>2. KingsleyTypeInv
  <2>1. headers \in [DOMAIN headers -> NodeSizes] /\ askedFor \in [DOMAIN askedFor -> NodeSizes]
    BY <1>1 DEF Kingsley!Init
  <2> QED
    BY <1>1, <2>1 DEF Kingsley!Init, KingsleyTypeInv, Heaps
<1>3. LayoutInv
  BY <1>1 DEF Kingsley!Init, LayoutInv, Heaps
<1>4. ListInv
  BY <1>1 DEF Kingsley!Init, ListInv
<1> QED
  BY <1>2, <1>3, <1>4 DEF KingsleyIInv

\* Memory for an object is new.
LEMMA CarveStep ==
  ASSUME KingsleySized, KingsleyIInv, NEW h \in Heaps, NEW n \in NodeSizes,
         Kingsley!Carve(h, n), UNCHANGED binmap
  PROVE  KingsleyIInv'
<1> DEFINE need == n + Header
           full == remaining[h] < need
           start == IF full THEN mappedBytes ELSE bump[h]
           space == IF full THEN Kingsley!refill(need) ELSE remaining[h]
           a == start + Header
<1> USE DEF KingsleySized
<1>t. /\ bump \in [Heaps -> Nat] /\ remaining \in [Heaps -> Nat] /\ mappedBytes \in Nat
      /\ DOMAIN headers \subseteq Nat /\ \A p \in DOMAIN headers : p \in Nat /\ headers[p] \in Nat
      /\ n \in Nat /\ n >= 8 /\ Header \in Nat /\ \A p \in DOMAIN headers : headers[p] >= 8
  BY DEF KingsleyIInv, KingsleyTypeInv
<1>1. need \in Nat /\ start \in Nat /\ space \in Nat /\ need <= space /\ need >= 8 + Header
  BY <1>t DEF Kingsley!refill
<1>2. /\ bump' = [bump EXCEPT ![h] = start + need]
      /\ remaining' = [remaining EXCEPT ![h] = space - need]
      /\ headers' = Kingsley!Extend(headers, a, n) /\ askedFor' = Kingsley!Extend(askedFor, a, n)
      /\ UNCHANGED myFreeList
      /\ mappedBytes' = IF full THEN mappedBytes + space ELSE mappedBytes
  BY DEF Kingsley!Carve
<1>3. mappedBytes' \in Nat /\ mappedBytes <= mappedBytes' /\ start + space <= mappedBytes'
  <2>1. ~full => bump[h] + remaining[h] <= mappedBytes
    BY DEF KingsleyIInv, LayoutInv
  <2> QED
    BY <1>t, <1>1, <1>2, <2>1
<1>4. \A p \in DOMAIN headers : p + headers[p] <= start \/ start + space + Header <= p
  <2>1. CASE full
    BY <1>t, <2>1 DEF KingsleyIInv, LayoutInv
  <2>2. CASE ~full
    BY <2>2 DEF KingsleyIInv, LayoutInv
  <2> QED
    BY <2>1, <2>2
<1>5. \A g \in Heaps : g # h => \/ bump[g] + remaining[g] <= start
                                \/ start + space <= bump[g]
  <2>1. CASE full
    BY <1>t, <2>1 DEF KingsleyIInv, LayoutInv
  <2>2. CASE ~full
    BY <2>2 DEF KingsleyIInv, LayoutInv
  <2> QED
    BY <2>1, <2>2
<1> HIDE DEF full, start, space, need
<1>6. a \in Nat /\ a \notin DOMAIN headers /\ a \notin DOMAIN askedFor
  <2>1. a \notin DOMAIN headers
    BY <1>t, <1>1, <1>4
  <2> QED
    BY <1>t, <1>1, <2>1 DEF KingsleyIInv, KingsleyTypeInv
<1>7. /\ DOMAIN headers' = DOMAIN headers \cup {a} /\ headers'[a] = n
      /\ \A p \in DOMAIN headers : headers'[p] = headers[p]
      /\ headers \in [DOMAIN headers -> NodeSizes] => headers' \in [DOMAIN headers \cup {a} -> NodeSizes]
      /\ DOMAIN askedFor' = DOMAIN askedFor \cup {a} /\ askedFor'[a] = n
      /\ \A p \in DOMAIN askedFor : askedFor'[p] = askedFor[p]
      /\ askedFor \in [DOMAIN askedFor -> NodeSizes] => askedFor' \in [DOMAIN askedFor \cup {a} -> NodeSizes]
  <2> DEFINE f == Kingsley!Extend(headers, a, n)
             g == Kingsley!Extend(askedFor, a, n)
  <2>1. /\ DOMAIN f = DOMAIN headers \cup {a} /\ f[a] = n
        /\ \A p \in DOMAIN headers : p # a => f[p] = headers[p]
        /\ headers \in [DOMAIN headers -> NodeSizes] => f \in [DOMAIN headers \cup {a} -> NodeSizes]
    BY DEF Kingsley!Extend
  <2>2. /\ DOMAIN g = DOMAIN askedFor \cup {a} /\ g[a] = n
        /\ \A p \in DOMAIN askedFor : p # a => g[p] = askedFor[p]
        /\ askedFor \in [DOMAIN askedFor -> NodeSizes] => g \in [DOMAIN askedFor \cup {a} -> NodeSizes]
    BY DEF Kingsley!Extend
  <2>3. headers' = f /\ askedFor' = g
    BY <1>2
  <2> HIDE DEF f, g, a
  <2> QED
    BY <1>6, <2>1, <2>2, <2>3
<1>8. /\ bump' \in [Heaps -> Nat] /\ remaining' \in [Heaps -> Nat]
      /\ bump'[h] = start + need /\ remaining'[h] = space - need
      /\ \A g \in Heaps : g # h => bump'[g] = bump[g] /\ remaining'[g] = remaining[g]
  BY <1>t, <1>1, <1>2
<1>9. KingsleyTypeInv'
  <2>1. DOMAIN headers' \subseteq Nat /\ headers' \in [DOMAIN headers' -> NodeSizes]
    BY <1>t, <1>6, <1>7 DEF KingsleyIInv, KingsleyTypeInv
  <2>2. DOMAIN askedFor' \subseteq DOMAIN headers' /\ askedFor' \in [DOMAIN askedFor' -> NodeSizes]
    BY <1>7 DEF KingsleyIInv, KingsleyTypeInv
  <2>3. \A p \in DOMAIN askedFor' : askedFor'[p] <= headers'[p]
    BY <1>t, <1>7 DEF KingsleyIInv, KingsleyTypeInv
  <2> QED
    BY <1>2, <1>3, <1>8, <2>1, <2>2, <2>3 DEF KingsleyIInv, KingsleyTypeInv
<1>10. LayoutInv'
  <2>1. ASSUME NEW p \in DOMAIN headers' PROVE p >= Header /\ p + headers'[p] <= mappedBytes'
    <3>1. CASE p = a
      BY <1>t, <1>1, <1>3, <1>6, <1>7, <3>1 DEF need
    <3>2. CASE p # a
      <4>1. p \in DOMAIN headers /\ headers'[p] = headers[p] /\ p >= Header /\ p + headers[p] <= mappedBytes
        BY <1>7, <3>2 DEF KingsleyIInv, LayoutInv
      <4> QED
        BY <1>t, <1>3, <4>1
    <3> QED
      BY <3>1, <3>2
  <2>2. ASSUME NEW p \in DOMAIN headers', NEW q \in DOMAIN headers', p < q
        PROVE  p + headers'[p] + Header <= q
    <3>1. CASE p = a
      <4>1. q \in DOMAIN headers
        BY <1>6, <1>7, <2>2, <3>1
      <4>2. q + headers[q] <= start \/ start + space + Header <= q
        BY <1>4, <4>1
      <4> QED
        BY <1>t, <1>1, <1>7, <2>2, <3>1, <4>1, <4>2 DEF need
    <3>2. CASE q = a /\ p # a
      <4>1. p \in DOMAIN headers /\ headers'[p] = headers[p]
        BY <1>7, <3>2
      <4>2. p + headers[p] <= start \/ start + space + Header <= p
        BY <1>4, <4>1
      <4> QED
        BY <1>t, <1>1, <2>2, <3>2, <4>1, <4>2
    <3>3. CASE p # a /\ q # a
      <4>1. p \in DOMAIN headers /\ q \in DOMAIN headers /\ headers'[p] = headers[p]
        BY <1>7, <3>3
      <4> QED
        BY <2>2, <4>1 DEF KingsleyIInv, LayoutInv
    <3> QED
      BY <3>1, <3>2, <3>3
  <2>3. ASSUME NEW g \in Heaps PROVE bump'[g] + remaining'[g] <= mappedBytes'
    <3>1. CASE g = h
      BY <1>t, <1>1, <1>3, <1>8, <3>1
    <3>2. CASE g # h
      <4>1. bump[g] + remaining[g] <= mappedBytes
        BY DEF KingsleyIInv, LayoutInv
      <4> QED
        BY <1>t, <1>3, <1>8, <3>2, <4>1
    <3> QED
      BY <3>1, <3>2
  <2>4. ASSUME NEW e \in Heaps, NEW g \in Heaps, e # g
        PROVE  \/ bump'[e] + remaining'[e] <= bump'[g]
               \/ bump'[g] + remaining'[g] <= bump'[e]
    <3>1. \/ bump[e] + remaining[e] <= bump[g]
          \/ bump[g] + remaining[g] <= bump[e]
      BY <2>4 DEF KingsleyIInv, LayoutInv
    <3>2. CASE e = h
      <4>1. bump[g] + remaining[g] <= start \/ start + space <= bump[g]
        BY <1>5, <2>4, <3>2
      <4> QED
        BY <1>t, <1>1, <1>8, <2>4, <3>2, <4>1
    <3>3. CASE g = h
      <4>1. bump[e] + remaining[e] <= start \/ start + space <= bump[e]
        BY <1>5, <2>4, <3>3
      <4> QED
        BY <1>t, <1>1, <1>8, <2>4, <3>3, <4>1
    <3>4. CASE e # h /\ g # h
      BY <1>8, <3>1, <3>4
    <3> QED
      BY <3>2, <3>3, <3>4
  <2>5. ASSUME NEW g \in Heaps, NEW p \in DOMAIN headers'
        PROVE  p + headers'[p] <= bump'[g] \/ bump'[g] + remaining'[g] + Header <= p
    <3>1. CASE p = a /\ g = h
      BY <1>t, <1>1, <1>7, <1>8, <3>1 DEF need
    <3>2. CASE p = a /\ g # h
      <4>1. bump[g] + remaining[g] <= start \/ start + space <= bump[g]
        BY <1>5, <3>2
      <4>2. bump[g] \in Nat /\ remaining[g] \in Nat
        BY <1>t
      <4> QED
        BY <1>t, <1>1, <1>7, <1>8, <3>2, <4>1, <4>2 DEF need
    <3>3. CASE p # a /\ g = h
      <4>1. p \in DOMAIN headers /\ headers'[p] = headers[p]
        BY <1>7, <3>3
      <4>2. p + headers[p] <= start \/ start + space + Header <= p
        BY <1>4, <4>1
      <4>3. p \in Nat /\ headers[p] \in Nat
        BY <1>t, <4>1
      <4> QED
        BY <1>t, <1>1, <1>8, <3>3, <4>1, <4>2, <4>3
    <3>4. CASE p # a /\ g # h
      <4>1. p \in DOMAIN headers /\ headers'[p] = headers[p]
        BY <1>7, <3>4
      <4> QED
        BY <1>8, <3>4, <4>1 DEF KingsleyIInv, LayoutInv
    <3> QED
      BY <3>1, <3>2, <3>3, <3>4
  <2> QED
    BY <2>1, <2>2, <2>3, <2>4, <2>5 DEF LayoutInv
<1>11. ListInv'
  <2>1. ASSUME NEW b \in Kingsley!Bins, NEW i \in 1 .. Len(myFreeList[b])
        PROVE  /\ myFreeList[b][i] \in DOMAIN headers' \ DOMAIN askedFor'
               /\ Kingsley!class2Size(b) <= headers'[myFreeList[b][i]]
    <3>1. /\ myFreeList[b][i] \in DOMAIN headers \ DOMAIN askedFor
          /\ Kingsley!class2Size(b) <= headers[myFreeList[b][i]]
      BY DEF KingsleyIInv, ListInv
    <3> QED
      BY <1>6, <1>7, <3>1
  <2> QED
    BY <1>2, <2>1 DEF KingsleyIInv, ListInv
<1> QED
  BY <1>9, <1>10, <1>11 DEF KingsleyIInv

\* A listed object is used again.
LEMMA PopStep ==
  ASSUME KingsleySized, KingsleyIInv, NEW b \in Kingsley!Bins,
         NEW n \in NodeSizes,
         n <= Kingsley!class2Size(b), myFreeList[b] # <<>>,
         myFreeList' = [myFreeList EXCEPT ![b] = Tail(@)],
         askedFor' = Kingsley!Extend(askedFor, Head(myFreeList[b]), n),
         UNCHANGED <<bump, remaining, mappedBytes, headers, binmap>>
  PROVE  KingsleyIInv'
<1> DEFINE p == Head(myFreeList[b])
<1>1. /\ myFreeList \in [Kingsley!Bins -> Seq(Nat)] /\ myFreeList[b] \in Seq(Nat)
      /\ Len(myFreeList[b]) \in Nat \ {0} /\ p = myFreeList[b][1]
  BY DEF KingsleyIInv, KingsleyTypeInv
<1>2. p \in DOMAIN headers \ DOMAIN askedFor /\ Kingsley!class2Size(b) <= headers[p]
  BY <1>1 DEF KingsleyIInv, ListInv
<1> HIDE DEF p
<1>3. /\ Tail(myFreeList[b]) \in Seq(Nat)
      /\ Len(Tail(myFreeList[b])) = Len(myFreeList[b]) - 1
      /\ \A i \in 1 .. Len(myFreeList[b]) - 1 :
           Tail(myFreeList[b])[i] = myFreeList[b][i + 1]
  BY <1>1
<1>4. /\ DOMAIN askedFor' = DOMAIN askedFor \cup {p} /\ askedFor'[p] = n
      /\ \A q \in DOMAIN askedFor : askedFor'[q] = askedFor[q]
      /\ askedFor \in [DOMAIN askedFor -> NodeSizes] => askedFor' \in [DOMAIN askedFor \cup {p} -> NodeSizes]
  <2> DEFINE g == Kingsley!Extend(askedFor, p, n)
  <2>1. /\ DOMAIN g = DOMAIN askedFor \cup {p} /\ g[p] = n
        /\ \A q \in DOMAIN askedFor : q # p => g[q] = askedFor[q]
        /\ askedFor \in [DOMAIN askedFor -> NodeSizes] => g \in [DOMAIN askedFor \cup {p} -> NodeSizes]
    BY DEF Kingsley!Extend
  <2>2. askedFor' = g
    BY DEF p
  <2> HIDE DEF g
  <2> QED
    BY <1>2, <2>1, <2>2
<1>5. /\ myFreeList' \in [Kingsley!Bins -> Seq(Nat)]
      /\ myFreeList'[b] = Tail(myFreeList[b])
      /\ \A c \in Kingsley!Bins : c # b => myFreeList'[c] = myFreeList[c]
  BY <1>1, <1>3
<1>6. n <= headers[p]
  <2>1. /\ n \in Nat /\ headers[p] \in Nat /\ b \in Nat
    BY <1>2 DEF KingsleyIInv, KingsleyTypeInv, KingsleySized, Kingsley!Bins
  <2>2. Kingsley!class2Size(b) \in Nat
    BY <2>1, ClassSize
  <2> QED
    BY <1>2, <2>1, <2>2
<1>7. KingsleyTypeInv'
  <2>1. DOMAIN askedFor' \subseteq DOMAIN headers' /\ askedFor' \in [DOMAIN askedFor' -> NodeSizes]
    BY <1>2, <1>4 DEF KingsleyIInv, KingsleyTypeInv
  <2>2. \A q \in DOMAIN askedFor' : askedFor'[q] <= headers'[q]
    BY <1>4, <1>6 DEF KingsleyIInv, KingsleyTypeInv
  <2> QED
    BY <1>5, <2>1, <2>2 DEF KingsleyIInv, KingsleyTypeInv
<1>8. LayoutInv'
  BY DEF KingsleyIInv, LayoutInv
\* Where an object of a list was before.
<1> DEFINE was(c, i) == IF c = b THEN i + 1 ELSE i
<1>9. ASSUME NEW c \in Kingsley!Bins, NEW i \in 1 .. Len(myFreeList'[c])
      PROVE  /\ was(c, i) \in 1 .. Len(myFreeList[c])
             /\ myFreeList'[c][i] = myFreeList[c][was(c, i)]
             /\ c = b => was(c, i) # 1
  <2>1. CASE c = b
    BY <1>1, <1>3, <1>5, <2>1
  <2>2. CASE c # b
    BY <1>5, <2>2
  <2> QED
    BY <2>1, <2>2
<1>10. ListInv'
  <2>1. ASSUME NEW c \in Kingsley!Bins, NEW i \in 1 .. Len(myFreeList'[c])
        PROVE  /\ myFreeList'[c][i] \in DOMAIN headers' \ DOMAIN askedFor'
               /\ Kingsley!class2Size(c) <= headers'[myFreeList'[c][i]]
    <3>1. /\ was(c, i) \in 1 .. Len(myFreeList[c])
          /\ myFreeList'[c][i] = myFreeList[c][was(c, i)]
          /\ c = b => was(c, i) # 1
      BY <1>9
    <3> HIDE DEF was
    <3>2. /\ myFreeList[c][was(c, i)] \in DOMAIN headers \ DOMAIN askedFor
          /\ Kingsley!class2Size(c) <= headers[myFreeList[c][was(c, i)]]
      BY <3>1 DEF KingsleyIInv, ListInv
    <3>3. myFreeList[c][was(c, i)] # p
      BY <1>1, <3>1 DEF KingsleyIInv, ListInv, p
    <3> QED
      BY <1>4, <3>1, <3>2, <3>3
  <2>2. ASSUME NEW c \in Kingsley!Bins, NEW d \in Kingsley!Bins,
               NEW i \in 1 .. Len(myFreeList'[c]), NEW j \in 1 .. Len(myFreeList'[d]),
               myFreeList'[c][i] = myFreeList'[d][j]
        PROVE  c = d /\ i = j
    <3>1. /\ was(c, i) \in 1 .. Len(myFreeList[c])
          /\ was(d, j) \in 1 .. Len(myFreeList[d])
          /\ myFreeList[c][was(c, i)] = myFreeList[d][was(d, j)]
      BY <1>9, <2>2
    <3>2. c = d /\ was(c, i) = was(d, j)
      <4> HIDE DEF was
      <4> QED
        BY <3>1 DEF KingsleyIInv, ListInv
    <3> QED
      BY <3>2
  <2> QED
    BY <2>1, <2>2 DEF ListInv
<1> QED
  BY <1>7, <1>8, <1>10 DEF KingsleyIInv

\* malloc keeps the invariant.
LEMMA MallocStep ==
  ASSUME KingsleySized, KingsleyIInv, NEW n \in NodeSizes, Kingsley!malloc(n)
  PROVE  KingsleyIInv'
<1>1. UNCHANGED binmap /\ n \in Nat
  BY DEF Kingsley!malloc, KingsleySized
<1>2. Kingsley!bigheap \in Heaps /\ Kingsley!Bins \subseteq Heaps
  BY DEF Heaps
<1>3. ASSUME NEW b \in Kingsley!Bins, n <= Kingsley!class2Size(b), Kingsley!LittleMalloc(b, n)
      PROVE  KingsleyIInv'
  <2>1. CASE myFreeList[b] = <<>> /\ Kingsley!Carve(b, n)
    BY <1>1, <1>2, <2>1, CarveStep
  <2>2. CASE /\ myFreeList[b] # <<>>
             /\ myFreeList' = [myFreeList EXCEPT ![b] = Tail(@)]
             /\ askedFor' = Kingsley!Extend(askedFor, Head(myFreeList[b]), n)
             /\ UNCHANGED <<bump, remaining, mappedBytes, headers>>
    BY <1>1, <1>3, <2>2, PopStep
  <2> QED
    BY <1>3, <2>1, <2>2 DEF Kingsley!LittleMalloc
<1>4. CASE n > Kingsley!maxObjectSize /\ Kingsley!Carve(Kingsley!bigheap, n)
  BY <1>1, <1>2, <1>4, CarveStep
<1>5. CASE n <= Kingsley!maxObjectSize /\ Kingsley!LittleMalloc(Kingsley!size2Class(n), n)
  BY <1>3, <1>5, ClassFits
<1>6. CASE Kingsley!FirstMarked(Kingsley!size2Class(n)) = {} /\ Kingsley!Carve(Kingsley!bigheap, n)
  BY <1>1, <1>2, <1>6, CarveStep
<1>7. ASSUME n <= Kingsley!maxObjectSize, NEW b \in Kingsley!FirstMarked(Kingsley!size2Class(n)), Kingsley!LittleMalloc(b, n)
      PROVE  KingsleyIInv'
  <2>1. b \in Kingsley!Bins /\ b >= Kingsley!size2Class(n)
    BY <1>7 DEF Kingsley!FirstMarked, KingsleyIInv, KingsleyTypeInv
  <2>2. Kingsley!size2Class(n) \in Kingsley!Bins /\ n <= Kingsley!class2Size(Kingsley!size2Class(n))
    BY <1>7, ClassFits
  <2>3. b \in Nat /\ Kingsley!size2Class(n) \in Nat
    BY <2>1, <2>2 DEF Kingsley!Bins
  <2>4. /\ Kingsley!class2Size(Kingsley!size2Class(n)) <= Kingsley!class2Size(b)
        /\ Kingsley!class2Size(b) \in Nat /\ Kingsley!class2Size(Kingsley!size2Class(n)) \in Nat
    BY <2>1, <2>3, ClassSize
  <2>5. n <= Kingsley!class2Size(b)
    BY <1>1, <2>2, <2>4
  <2> QED
    BY <1>3, <1>7, <2>1, <2>5
<1> QED
  BY <1>4, <1>5, <1>6, <1>7 DEF Kingsley!malloc

\* The objects that stay in use.
LEMMA Without ==
  ASSUME NEW p \in DOMAIN askedFor
  PROVE  /\ DOMAIN Kingsley!InUseWithout(p) = DOMAIN askedFor \ {p}
         /\ \A a \in DOMAIN askedFor \ {p} : Kingsley!InUseWithout(p)[a] = askedFor[a]
         /\ askedFor \in [DOMAIN askedFor -> NodeSizes]
              => Kingsley!InUseWithout(p) \in [DOMAIN askedFor \ {p} -> NodeSizes]
BY DEF Kingsley!InUseWithout

\* free of a large object.
LEMMA FreeLargeStep ==
  ASSUME KingsleySized, KingsleyIInv, NEW p \in DOMAIN askedFor,
         Kingsley!FreeLarge(p)
  PROVE  KingsleyIInv'
<1>1. /\ DOMAIN askedFor' = DOMAIN askedFor \ {p}
      /\ \A a \in DOMAIN askedFor \ {p} : askedFor'[a] = askedFor[a]
      /\ askedFor \in [DOMAIN askedFor -> NodeSizes] => askedFor' \in [DOMAIN askedFor \ {p} -> NodeSizes]
  BY Without DEF Kingsley!FreeLarge
<1>2. UNCHANGED <<bump, remaining, mappedBytes, headers, myFreeList, binmap>>
  BY DEF Kingsley!FreeLarge
<1>3. KingsleyTypeInv'
  BY <1>1, <1>2 DEF KingsleyIInv, KingsleyTypeInv
<1>4. LayoutInv'
  BY <1>2 DEF KingsleyIInv, LayoutInv
<1>5. ListInv'
  BY <1>1, <1>2 DEF KingsleyIInv, ListInv
<1> QED
  BY <1>3, <1>4, <1>5 DEF KingsleyIInv

\* free of an object that is filed under the class below its size.
LEMMA FreeLittleStep ==
  ASSUME KingsleySized, KingsleyIInv, NEW p \in DOMAIN askedFor,
         Kingsley!FreeLittle(p)
  PROVE  KingsleyIInv'
<1> DEFINE c == Kingsley!FiledUnder(headers[p])
           list == myFreeList[c]
<1>1. /\ DOMAIN askedFor' = DOMAIN askedFor \ {p}
      /\ \A a \in DOMAIN askedFor \ {p} : askedFor'[a] = askedFor[a]
      /\ askedFor \in [DOMAIN askedFor -> NodeSizes] => askedFor' \in [DOMAIN askedFor \ {p} -> NodeSizes]
  BY Without DEF Kingsley!FreeLittle
<1>2. /\ UNCHANGED <<bump, remaining, mappedBytes, headers>>
      /\ binmap' \subseteq binmap \cup {c}
      /\ myFreeList' = [myFreeList EXCEPT ![c] = <<p>> \o @]
  BY DEF Kingsley!FreeLittle
<1>3. p \in DOMAIN headers /\ headers[p] \in NodeSizes /\ p \in Nat
  BY DEF KingsleyIInv, KingsleyTypeInv
<1>4. c \in Kingsley!Bins /\ Kingsley!class2Size(c) <= headers[p]
  BY <1>3, FiledFits DEF Kingsley!FreeLittle
<1> HIDE DEF c
<1>5. myFreeList \in [Kingsley!Bins -> Seq(Nat)] /\ list \in Seq(Nat) /\ Len(list) \in Nat
  BY <1>4 DEF KingsleyIInv, KingsleyTypeInv
<1>6. /\ <<p>> \o list \in Seq(Nat) /\ Len(<<p>> \o list) = Len(list) + 1
      /\ (<<p>> \o list)[1] = p
      /\ \A i \in 2 .. Len(list) + 1 : (<<p>> \o list)[i] = list[i - 1]
  BY <1>3, <1>5
<1>7. /\ myFreeList' \in [Kingsley!Bins -> Seq(Nat)]
      /\ myFreeList'[c] = <<p>> \o list
      /\ \A b \in Kingsley!Bins : b # c => myFreeList'[b] = myFreeList[b]
  BY <1>2, <1>4, <1>5, <1>6
<1> HIDE DEF list
<1>8. KingsleyTypeInv'
  BY <1>1, <1>2, <1>4, <1>7 DEF KingsleyIInv, KingsleyTypeInv
<1>9. LayoutInv'
  BY <1>2 DEF KingsleyIInv, LayoutInv
\* Every listed object but the first of the class was listed before.
<1> DEFINE was(b, i) == IF b = c THEN i - 1 ELSE i
<1>10. ASSUME NEW b \in Kingsley!Bins, NEW i \in 1 .. Len(myFreeList'[b])
       PROVE  \/ b = c /\ i = 1 /\ myFreeList'[b][i] = p
              \/ /\ was(b, i) \in 1 .. Len(myFreeList[b])
                 /\ myFreeList'[b][i] = myFreeList[b][was(b, i)]
                 /\ myFreeList'[b][i] # p
  <2>1. CASE b = c /\ i = 1
    BY <1>6, <1>7, <2>1
  <2>2. CASE b = c /\ i # 1
    <3>1. i - 1 \in 1 .. Len(myFreeList[b]) /\ myFreeList'[b][i] = myFreeList[b][i - 1]
      BY <1>5, <1>6, <1>7, <2>2 DEF list
    <3>2. myFreeList[b][i - 1] \notin DOMAIN askedFor
      BY <3>1 DEF KingsleyIInv, ListInv
    <3> QED
      BY <2>2, <3>1, <3>2
  <2>3. CASE b # c
    <3>1. i \in 1 .. Len(myFreeList[b]) /\ myFreeList'[b][i] = myFreeList[b][i]
      BY <1>7, <2>3
    <3>2. myFreeList[b][i] \notin DOMAIN askedFor
      BY <3>1 DEF KingsleyIInv, ListInv
    <3> QED
      BY <2>3, <3>1, <3>2
  <2> QED
    BY <2>1, <2>2, <2>3
<1>11. ListInv'
  <2>1. ASSUME NEW b \in Kingsley!Bins, NEW i \in 1 .. Len(myFreeList'[b])
        PROVE  /\ myFreeList'[b][i] \in DOMAIN headers' \ DOMAIN askedFor'
               /\ Kingsley!class2Size(b) <= headers'[myFreeList'[b][i]]
    <3>1. CASE b = c /\ i = 1 /\ myFreeList'[b][i] = p
      BY <1>1, <1>2, <1>3, <1>4, <3>1
    <3>2. CASE /\ was(b, i) \in 1 .. Len(myFreeList[b])
               /\ myFreeList'[b][i] = myFreeList[b][was(b, i)]
               /\ myFreeList'[b][i] # p
      <4> HIDE DEF was
      <4>1. /\ myFreeList[b][was(b, i)] \in DOMAIN headers \ DOMAIN askedFor
            /\ Kingsley!class2Size(b) <= headers[myFreeList[b][was(b, i)]]
        BY <3>2 DEF KingsleyIInv, ListInv
      <4> QED
        BY <1>1, <1>2, <3>2, <4>1
    <3> QED
      BY <1>10, <3>1, <3>2
  <2>2. ASSUME NEW b \in Kingsley!Bins, NEW d \in Kingsley!Bins,
               NEW i \in 1 .. Len(myFreeList'[b]), NEW j \in 1 .. Len(myFreeList'[d]),
               myFreeList'[b][i] = myFreeList'[d][j]
        PROVE  b = d /\ i = j
    <3>1. CASE myFreeList'[b][i] = p
      <4>1. b = c /\ i = 1 /\ d = c /\ j = 1
        BY <1>10, <2>2, <3>1
      <4> QED
        BY <4>1
    <3>2. CASE myFreeList'[b][i] # p
      <4>1. /\ was(b, i) \in 1 .. Len(myFreeList[b])
            /\ was(d, j) \in 1 .. Len(myFreeList[d])
            /\ myFreeList[b][was(b, i)] = myFreeList[d][was(d, j)]
        BY <1>10, <2>2, <3>2
      <4>2. b = d /\ was(b, i) = was(d, j)
        <5> HIDE DEF was
        <5> QED
          BY <4>1 DEF KingsleyIInv, ListInv
      <4> QED
        BY <4>2
    <3> QED
      BY <3>1, <3>2
  <2> QED
    BY <2>1, <2>2 DEF ListInv
<1> QED
  BY <1>8, <1>9, <1>11 DEF KingsleyIInv

\* The invariant implies the property.
LEMMA KingsleyImplies ==
  ASSUME KingsleySized, KingsleyIInv
  PROVE  NodesFit
<1>1. ASSUME NEW p, NEW x \in Kingsley!Listed(p)
      PROVE  /\ x[1] \in Kingsley!Bins /\ x[2] \in 1 .. Len(myFreeList[x[1]])
             /\ myFreeList[x[1]][x[2]] = p /\ x = <<x[1], x[2]>>
  <2>1. x \in Kingsley!Bins \X (1 .. MaxObjects) /\ x[2] \in DOMAIN myFreeList[x[1]]
    BY <1>1 DEF Kingsley!Listed
  <2>2. myFreeList[x[1]] \in Seq(Nat)
    BY <2>1 DEF KingsleyIInv, KingsleyTypeInv
  <2> QED
    BY <1>1, <2>1, <2>2 DEF Kingsley!Listed
<1>2. ASSUME NEW p \in DOMAIN askedFor PROVE headers[p] >= askedFor[p] /\ Kingsley!Listed(p) = {}
  <2>1. headers[p] >= askedFor[p]
    BY DEF KingsleyIInv, KingsleyTypeInv, KingsleySized
  <2>2. ASSUME NEW x \in Kingsley!Listed(p) PROVE FALSE
    BY <1>1 DEF KingsleyIInv, ListInv
  <2> QED
    BY <2>1, <2>2
<1>3. ASSUME NEW p \in DOMAIN headers PROVE Cardinality(Kingsley!Listed(p)) <= 1
  <2>1. CASE Kingsley!Listed(p) = {}
    BY <2>1, FS_EmptySet
  <2>2. CASE Kingsley!Listed(p) # {}
    <3>1. PICK x \in Kingsley!Listed(p) : TRUE
      BY <2>2
    <3>2. ASSUME NEW y \in Kingsley!Listed(p) PROVE y = x
      <4>1. /\ x[1] \in Kingsley!Bins /\ x[2] \in 1 .. Len(myFreeList[x[1]])
            /\ myFreeList[x[1]][x[2]] = p /\ x = <<x[1], x[2]>>
        BY <1>1
      <4>2. /\ y[1] \in Kingsley!Bins /\ y[2] \in 1 .. Len(myFreeList[y[1]])
            /\ myFreeList[y[1]][y[2]] = p /\ y = <<y[1], y[2]>>
        BY <1>1
      <4>3. x[1] = y[1] /\ x[2] = y[2]
        BY <4>1, <4>2 DEF KingsleyIInv, ListInv
      <4> QED
        BY <4>1, <4>2, <4>3
    <3>3. Kingsley!Listed(p) = {x}
      BY <3>1, <3>2
    <3> QED
      BY <3>3, FS_Singleton
  <2> QED
    BY <2>1, <2>2
<1>4. ASSUME NEW p \in DOMAIN headers
      PROVE  /\ p >= Header /\ p + headers[p] <= mappedBytes
             /\ \A q \in DOMAIN headers : p < q => p + headers[p] <= q - Header
  <2>1. p \in Nat /\ headers[p] \in Nat /\ Header \in Nat /\ DOMAIN headers \subseteq Nat
    BY DEF KingsleyIInv, KingsleyTypeInv, KingsleySized
  <2>2. ASSUME NEW q \in DOMAIN headers, p < q PROVE p + headers[p] <= q - Header
    <3>1. p + headers[p] + Header <= q
      BY <2>2 DEF KingsleyIInv, LayoutInv
    <3> QED
      BY <2>1, <3>1
  <2> QED
    BY <2>2 DEF KingsleyIInv, LayoutInv
<1> QED
  BY <1>2, <1>3, <1>4, SameCardinality DEF NodesFit, Kingsley!NodesFit

\* KingsleyHeap: whatever is asked for, freed, filed under another class and
\* given out again, an object in use is as large as its user asked, apart from
\* every other and on no free list.
THEOREM NodesFitAlways == KingsleySized /\ Kingsley!Spec => []NodesFit
<1> SUFFICES ASSUME KingsleySized PROVE Kingsley!Spec => []NodesFit
  OBVIOUS
<1>1. Kingsley!Init => KingsleyIInv
  BY KingsleyInit
<1>2. KingsleyIInv /\ [Kingsley!Next]_(Kingsley!vars) => KingsleyIInv'
  <2> SUFFICES ASSUME KingsleyIInv, [Kingsley!Next]_(Kingsley!vars) PROVE KingsleyIInv'
    OBVIOUS
  <2>1. CASE \E n \in NodeSizes : Kingsley!malloc(n)
    BY <2>1, MallocStep
  <2>2. CASE \E p \in DOMAIN askedFor : Kingsley!FreeLarge(p)
    BY <2>2, FreeLargeStep
  <2>3. CASE \E p \in DOMAIN askedFor : Kingsley!FreeLittle(p)
    BY <2>3, FreeLittleStep
  <2>4. CASE UNCHANGED Kingsley!vars
    <3>1. UNCHANGED <<bump, remaining, mappedBytes, headers, myFreeList, binmap, askedFor>>
      BY <2>4 DEF Kingsley!vars
    <3>2. KingsleyTypeInv'
      BY <3>1 DEF KingsleyIInv, KingsleyTypeInv
    <3>3. LayoutInv'
      BY <3>1 DEF KingsleyIInv, LayoutInv
    <3>4. ListInv'
      BY <3>1 DEF KingsleyIInv, ListInv
    <3> QED
      BY <3>2, <3>3, <3>4 DEF KingsleyIInv
  <2> QED
    BY <2>1, <2>2, <2>3, <2>4 DEF Kingsley!Next
<1>3. KingsleyIInv => NodesFit
  BY KingsleyImplies
<1> QED
  BY <1>1, <1>2, <1>3, PTL DEF Kingsley!Spec

----------------------------------------------------------------------------
(* LargeHeap, for any number of threads and pages *)
\* Who holds the mutex is freeing an object, and nobody else is.
MutexInv == \A t \in Threads : largePc[t] \in {"unmap", "clear"} <=> mutex = t

\* What a thread is about to enter in the table.
SetInv ==
  \A t \in Threads : largePc[t] = "set" =>
    req[t] \in Large!Sizes /\ (base[t] = Large!NULL \/ base[t] \in Large!Mappable)

\* The pages of the object that a thread is freeing, as the table has them.
FreedRun(t) == Large!Run(base[t], table[base[t]])

\* The table has the sizes of the objects that the program holds ...
LiveEntries == \A o \in largeLive : \A p \in Large!PagesOf(o) : table[p] = o[1] + o[2] - p

\* ... and that of an object that is being freed, until free erases it under
\* the same hold of the mutex that unmapped its pages ...
FreedEntries ==
  \A t \in Threads : largePc[t] \in {"unmap", "clear"} =>
    /\ base[t] \in Large!Mappable
    /\ table[base[t]] > 0
    /\ FreedRun(t) \subseteq Large!Mappable
    /\ \A p \in FreedRun(t) : table[p] = base[t] + table[base[t]] - p
    /\ \A o \in largeLive : FreedRun(t) \cap Large!PagesOf(o) = {}

\* ... and no others.
NoOtherEntries ==
  \A p \in Large!Mappable :
    \/ table[p] = 0
    \/ \E o \in largeLive : p \in Large!PagesOf(o)
    \/ \E t \in Threads : largePc[t] \in {"unmap", "clear"} /\ p \in FreedRun(t)

\* Every mapped page belongs to one object, held or in transit.
OwnedInv ==
  /\ \A o \in largeLive : Large!PagesOf(o) \subseteq mapped
  /\ \A t \in Threads : Large!InTransit(t) \subseteq mapped
  /\ \A p \in mapped : \/ \E o \in largeLive : p \in Large!PagesOf(o)
                       \/ \E t \in Threads : p \in Large!InTransit(t)

\* No two of them share a page.
DisjointInv ==
  /\ \A o1, o2 \in largeLive : o1 # o2 => Large!PagesOf(o1) \cap Large!PagesOf(o2) = {}
  /\ \A t \in Threads, o \in largeLive : Large!InTransit(t) \cap Large!PagesOf(o) = {}
  /\ \A t, u \in Threads : t # u => Large!InTransit(t) \cap Large!InTransit(u) = {}

LargeHeapIInv ==
  /\ Large!TypeOK /\ MutexInv /\ SetInv
  /\ LiveEntries /\ FreedEntries /\ NoOtherEntries
  /\ OwnedInv /\ DisjointInv

-----------------------------------------------------------------------------
(* LargeHeap: the invariant gives the properties *)

\* The two parts of the invariant about pages are PagesExclusive.
LEMMA Exclusive == OwnedInv /\ DisjointInv => PagesExclusive
<1> SUFFICES ASSUME OwnedInv, DisjointInv
             PROVE  mapped = (UNION {Large!PagesOf(o) : o \in largeLive})
                               \cup (UNION {Large!InTransit(t) : t \in Threads})
  BY DEF PagesExclusive, Large!PagesExclusive, DisjointInv
<1> DEFINE Held == {Large!PagesOf(o) : o \in largeLive}
           Moved == {Large!InTransit(t) : t \in Threads}
<1>1. \A o \in largeLive : Large!PagesOf(o) \in Held /\ Large!PagesOf(o) \subseteq mapped
  BY DEF OwnedInv
<1>2. \A t \in Threads : Large!InTransit(t) \in Moved /\ Large!InTransit(t) \subseteq mapped
  BY DEF OwnedInv
<1>3. ASSUME NEW p \in mapped PROVE p \in (UNION Held) \cup (UNION Moved)
  <2>1. CASE \E o \in largeLive : p \in Large!PagesOf(o)
    <3>1. PICK o \in largeLive : p \in Large!PagesOf(o)
      BY <2>1
    <3> QED
      BY <1>1, <3>1
  <2>2. CASE \E t \in Threads : p \in Large!InTransit(t)
    <3>1. PICK t \in Threads : p \in Large!InTransit(t)
      BY <2>2
    <3>2. Large!InTransit(t) \in Moved
      OBVIOUS
    <3> HIDE DEF Held, Moved
    <3> QED
      BY <3>1, <3>2
  <2> QED
    BY <2>1, <2>2 DEF OwnedInv
<1>4. ASSUME NEW p \in (UNION Held) \cup (UNION Moved) PROVE p \in mapped
  <2>1. CASE p \in UNION Held
    <3>1. PICK o \in largeLive : p \in Large!PagesOf(o)
      BY <2>1
    <3> QED
      BY <1>1, <3>1
  <2>2. CASE p \in UNION Moved
    <3>1. PICK t \in Threads : p \in Large!InTransit(t)
      BY <2>2
    <3> QED
      BY <1>2, <3>1
  <2> HIDE DEF Held, Moved
  <2> QED
    BY <2>1, <2>2
<1> QED
  BY <1>3, <1>4

\* When nobody holds the mutex the table is exact.
LEMMA Exact == LargeHeapIInv => TableExact
<1> SUFFICES ASSUME LargeHeapIInv, mutex = None, NEW p \in Large!Mappable
             PROVE  LET here == {o \in largeLive : p \in Large!PagesOf(o)} IN
                      /\ here = {} => table[p] = 0
                      /\ \A o \in here : table[p] = o[1] + o[2] - p
  BY DEF TableExact, Large!TableExact, LargeHeapIInv
<1>1. \A t \in Threads : largePc[t] \notin {"unmap", "clear"}
  BY LargeHeapAssumption DEF LargeHeapIInv, MutexInv
<1>2. table[p] = 0 \/ \E o \in largeLive : p \in Large!PagesOf(o)
  BY <1>1 DEF LargeHeapIInv, NoOtherEntries
<1>3. \A o \in largeLive : p \in Large!PagesOf(o) => table[p] = o[1] + o[2] - p
  BY DEF LargeHeapIInv, LiveEntries
<1> QED
  BY <1>2, <1>3

-----------------------------------------------------------------------------
(* LargeHeap: the steps *)

\* The pages in transit, by where their thread is.
LEMMA Transit ==
  ASSUME NEW t \in Threads
  PROVE  /\ largePc[t] = "set" /\ base[t] # Large!NULL => Large!InTransit(t) = Large!Run(base[t], req[t])
         /\ largePc[t] = "set" /\ base[t] = Large!NULL => Large!InTransit(t) = {}
         /\ largePc[t] = "unmap" => Large!InTransit(t) = FreedRun(t)
         /\ largePc[t] \notin {"set", "unmap"} => Large!InTransit(t) = {}
BY DEF Large!InTransit, FreedRun

\* The pages that can be mapped are pages, and page 0 is not one of them.
LEMMA MappableIsPage == Large!Mappable \subseteq Large!Page /\ Large!NULL \notin Large!Mappable
BY LargeHeapAssumption DEF Large!Mappable, Large!Page, Large!NULL

\* The initial states satisfy the invariant: nothing is mapped.
LEMMA LargeHeapInit == Large!Init => LargeHeapIInv
<1> SUFFICES ASSUME Large!Init PROVE LargeHeapIInv
  OBVIOUS
<1> USE LargeHeapAssumption
<1>1. Large!TypeOK
  BY DEF Large!Init, Large!TypeOK, Large!Page, Large!NULL
<1>2. MutexInv /\ SetInv /\ LiveEntries /\ FreedEntries
  BY DEF Large!Init, MutexInv, SetInv, LiveEntries, FreedEntries
<1>3. NoOtherEntries
  BY DEF Large!Init, NoOtherEntries, Large!Mappable, Large!Page
<1>4. \A t \in Threads : Large!InTransit(t) = {}
  BY Transit DEF Large!Init
<1> QED
  BY <1>1, <1>2, <1>3, <1>4 DEF LargeHeapIInv, OwnedInv, DisjointInv,
     Large!Init

\* A step that maps: pages that nobody has are in transit.
LEMMA MapInv ==
  ASSUME LargeHeapIInv, NEW t \in Threads, NEW n \in Large!Sizes,
         NEW p \in Large!Mappable,
         Large!Map(t, n, p)
  PROVE  LargeHeapIInv'
<1> USE LargeHeapAssumption
<1>1. Large!TypeOK'
  <2>1. p \in Large!Page /\ n \in 0 .. LargestRequest
    BY DEF Large!Mappable, Large!Page, Large!Sizes
  <2>2. mapped' \subseteq Large!Mappable
    BY DEF LargeHeapIInv, Large!TypeOK, Large!Map
  <2> HIDE LargeHeapAssumption
  <2> QED
    BY <2>1, <2>2 DEF LargeHeapIInv, Large!TypeOK, Large!Map, Large!Goto
<1>2. /\ largePc[t] = "idle" /\ largePc'[t] = "set" /\ base'[t] = p /\ req'[t] = n
      /\ \A u \in Threads \ {t} :
           largePc'[u] = largePc[u] /\ base'[u] = base[u] /\ req'[u] = req[u]
      /\ UNCHANGED <<table, mutex, largeLive>>
  BY DEF LargeHeapIInv, Large!TypeOK, Large!Map, Large!Goto
<1>3. /\ mapped' = mapped \cup Large!Run(p, n)
      /\ Large!Run(p, n) \cap mapped = {} /\ Large!Run(p, n) \subseteq Large!Mappable
  BY DEF Large!Map
<1>4. MutexInv' /\ SetInv'
  BY <1>2 DEF LargeHeapIInv, MutexInv, SetInv
<1>5. \A u \in Threads : largePc[u] \in {"unmap", "clear"} =>
        u # t /\ FreedRun(u)' = FreedRun(u)
  BY <1>2 DEF FreedRun
<1>6. LiveEntries' /\ FreedEntries' /\ NoOtherEntries'
  BY <1>2, <1>5 DEF LargeHeapIInv, LiveEntries, FreedEntries, NoOtherEntries,
     Large!PagesOf,
     Large!Run
<1>7. Large!InTransit(t) = {} /\ Large!InTransit(t)' = Large!Run(p, n)
  BY <1>2, Transit DEF Large!InTransit, Large!NULL, Large!Mappable
<1>8. \A u \in Threads \ {t} : Large!InTransit(u)' = Large!InTransit(u)
  BY <1>2 DEF Large!InTransit
<1>9. OwnedInv'
  BY <1>2, <1>3, <1>7, <1>8 DEF LargeHeapIInv, OwnedInv, Large!PagesOf
<1>10. DisjointInv'
  BY <1>2, <1>3, <1>7, <1>8 DEF LargeHeapIInv, OwnedInv, DisjointInv,
     Large!PagesOf
<1> QED
  BY <1>1, <1>4, <1>6, <1>9, <1>10 DEF LargeHeapIInv

\* A map that fails: there is nothing in transit.
LEMMA MapFailsInv ==
  ASSUME LargeHeapIInv, NEW t \in Threads, NEW n \in Large!Sizes,
         Large!MapFails(t, n)
  PROVE  LargeHeapIInv'
<1> USE LargeHeapAssumption
<1>1. Large!TypeOK'
  BY DEF LargeHeapIInv, Large!TypeOK, Large!MapFails, Large!Goto,
     Large!Sizes, Large!Mappable, Large!Page, Large!NULL
<1>2. /\ largePc[t] = "idle" /\ largePc'[t] = "set" /\ base'[t] = Large!NULL /\ req'[t] = n
      /\ \A u \in Threads \ {t} :
           largePc'[u] = largePc[u] /\ base'[u] = base[u] /\ req'[u] = req[u]
      /\ UNCHANGED <<mapped, table, mutex, largeLive>>
  BY DEF LargeHeapIInv, Large!TypeOK, Large!MapFails, Large!Goto
<1>4. MutexInv' /\ SetInv'
  BY <1>2 DEF LargeHeapIInv, MutexInv, SetInv
<1>5. \A u \in Threads : largePc[u] \in {"unmap", "clear"} =>
        u # t /\ FreedRun(u)' = FreedRun(u)
  BY <1>2 DEF FreedRun
<1>6. LiveEntries' /\ FreedEntries' /\ NoOtherEntries'
  BY <1>2, <1>5 DEF LargeHeapIInv, LiveEntries, FreedEntries, NoOtherEntries,
     Large!PagesOf,
     Large!Run
<1>7. Large!InTransit(t) = {} /\ Large!InTransit(t)' = {}
  BY <1>2, Transit DEF Large!InTransit
<1>8. \A u \in Threads : Large!InTransit(u)' = Large!InTransit(u)
  BY <1>2, <1>7 DEF Large!InTransit
<1>9. OwnedInv' /\ DisjointInv'
  BY <1>2, <1>8 DEF LargeHeapIInv, OwnedInv, DisjointInv, Large!PagesOf
<1> QED
  BY <1>1, <1>4, <1>6, <1>9 DEF LargeHeapIInv

\* The entries of the new object are made and malloc returns it: what was in
\* transit is the program's.  After a failed map it only makes entries at the
\* null pointer, which are no page's that can be mapped.
LEMMA SetSizesInv ==
  ASSUME LargeHeapIInv, NEW t \in Threads, Large!SetSizes(t)
  PROVE  LargeHeapIInv'
<1> USE LargeHeapAssumption
<1>1. /\ largePc[t] = "set" /\ largePc'[t] = "idle" /\ base'[t] = Large!NULL /\ req'[t] = 0
      /\ \A u \in Threads \ {t} :
           largePc'[u] = largePc[u] /\ base'[u] = base[u] /\ req'[u] = req[u]
      /\ UNCHANGED <<mapped, mutex>> /\ mutex = None
  BY DEF LargeHeapIInv, Large!TypeOK, Large!SetSizes, Large!Goto,
     Large!Returned
<1>2. /\ largePc' \in [Threads -> {"idle", "set", "unmap", "clear"}]
      /\ base' \in [Threads -> Large!Page]
      /\ req' \in [Threads -> 0 .. LargestRequest]
  BY DEF LargeHeapIInv, Large!TypeOK, Large!SetSizes, Large!Goto,
     Large!Returned, Large!NULL, Large!Page
<1>3. req[t] \in Large!Sizes /\ base[t] \in Large!Page /\ (base[t] = Large!NULL \/ base[t] \in Large!Mappable)
  BY <1>1 DEF LargeHeapIInv, SetInv, Large!TypeOK
<1>4. table' \in [Large!Page -> 0 .. LargestRequest]
  BY <1>3 DEF LargeHeapIInv, Large!TypeOK, Large!SetSizes, Large!Page,
     Large!Sizes, Large!Run
<1>5. \A p \in Large!Page :
        /\ p \in Large!Run(base[t], req[t]) => table'[p] = base[t] + req[t] - p
        /\ p \notin Large!Run(base[t], req[t]) => table'[p] = table[p]
  BY <1>3 DEF Large!SetSizes, Large!Page, Large!Sizes, Large!Run
<1>6. MutexInv' /\ SetInv'
  BY <1>1 DEF LargeHeapIInv, MutexInv, SetInv
<1>7. \A u \in Threads : largePc[u] \notin {"unmap", "clear"}
  BY <1>1 DEF LargeHeapIInv, MutexInv
<1>8. \A u \in Threads : largePc'[u] \notin {"unmap", "clear"}
  BY <1>1, <1>7
<1>9. FreedEntries'
  BY <1>8 DEF FreedEntries
<1>10. \A p \in Large!Mappable : table[p] = 0 \/ \E o \in largeLive : p \in Large!PagesOf(o)
  BY <1>7 DEF LargeHeapIInv, NoOtherEntries
<1>11. Large!InTransit(t)' = {} /\ \A u \in Threads \ {t} : Large!InTransit(u)' = Large!InTransit(u)
  BY <1>1, <1>7 DEF Large!InTransit
<1>12. \A o \in largeLive : Large!PagesOf(o) \subseteq Large!Mappable /\ Large!PagesOf(o) \subseteq Large!Page
  <2>1. \A o \in largeLive : Large!PagesOf(o) \subseteq mapped
    BY DEF LargeHeapIInv, OwnedInv
  <2> QED
    BY <2>1, MappableIsPage DEF LargeHeapIInv, Large!TypeOK
<1>13. CASE base[t] = Large!NULL
  <2>1. largeLive' = largeLive /\ Large!InTransit(t) = {}
    BY <1>1, <1>13, Transit DEF Large!SetSizes, Large!Returned
  <2>2. \A p \in Large!Mappable : p \in Large!Page /\ p \notin Large!Run(base[t], req[t])
    BY <1>3, <1>13 DEF Large!Mappable, Large!Run, Large!NULL, Large!Sizes,
       Large!Page
  <2>3. \A p \in Large!Mappable : table'[p] = table[p]
    BY <2>2, <1>5
  <2>4. LiveEntries' /\ NoOtherEntries'
    BY <2>1, <2>3, <1>10, <1>12 DEF LargeHeapIInv, LiveEntries,
       NoOtherEntries, Large!PagesOf
  <2>5. OwnedInv' /\ DisjointInv'
    BY <2>1, <1>1, <1>11 DEF LargeHeapIInv, OwnedInv, DisjointInv,
       Large!PagesOf
  <2>6. Large!TypeOK'
    BY <2>1, <1>1, <1>2, <1>4 DEF LargeHeapIInv, Large!TypeOK
  <2> QED
    BY <2>4, <2>5, <2>6, <1>6, <1>9 DEF LargeHeapIInv
<1>14. CASE base[t] # Large!NULL
  <2> DEFINE new == <<base[t], req[t]>>
  <2>1. largeLive' = largeLive \cup {new} /\ base[t] \in Large!Mappable
    BY <1>3, <1>14 DEF Large!SetSizes, Large!Returned
  <2>2. new[1] = base[t] /\ new[2] = req[t] /\ new \in Large!Mappable \X Large!Sizes
    BY <2>1, <1>3
  <2>3. Large!InTransit(t) = Large!PagesOf(new)
    BY <1>1, <1>14, <2>2, Transit DEF Large!PagesOf
  <2>4. Large!PagesOf(new) \subseteq mapped /\ Large!PagesOf(new) \subseteq Large!Page
    <3>1. Large!PagesOf(new) \subseteq mapped
      BY <2>3 DEF LargeHeapIInv, OwnedInv
    <3> QED
      BY <3>1, MappableIsPage DEF LargeHeapIInv, Large!TypeOK
  <2>5. \A o \in largeLive : Large!PagesOf(new) \cap Large!PagesOf(o) = {}
    BY <2>3 DEF LargeHeapIInv, DisjointInv
  <2>6. \A o \in largeLive : \A p \in Large!PagesOf(o) : table'[p] = o[1] + o[2] - p
    BY <2>5, <2>2, <1>5, <1>12 DEF LargeHeapIInv, LiveEntries, Large!PagesOf
  <2>7. \A p \in Large!PagesOf(new) : table'[p] = new[1] + new[2] - p
    BY <2>2, <2>4, <1>5 DEF Large!PagesOf
  <2>8. LiveEntries'
    BY <2>1, <2>6, <2>7 DEF LiveEntries, Large!PagesOf
  <2>9. ASSUME NEW p \in Large!Mappable PROVE table'[p] = 0 \/ \E o \in largeLive' : p \in Large!PagesOf(o)
    BY <2>1, <2>2, <1>5, <1>10 DEF Large!PagesOf, Large!Mappable, Large!Page
  <2>10. NoOtherEntries'
    BY <2>9 DEF NoOtherEntries, Large!PagesOf
  <2>11. OwnedInv'
    <3> HIDE DEF new
    <3> USE DEF Large!PagesOf
    <3>1. \A o \in largeLive' : Large!PagesOf(o) \subseteq mapped
      BY <2>1, <2>4 DEF LargeHeapIInv, OwnedInv
    <3>2. \A u \in Threads : Large!InTransit(u)' \subseteq mapped
      BY <1>11 DEF LargeHeapIInv, OwnedInv
    <3>3. ASSUME NEW p \in mapped, NEW u \in Threads, p \in Large!InTransit(u)
          PROVE  \/ p \in Large!PagesOf(new)
                 \/ p \in Large!InTransit(u)'
      BY <2>3, <3>3, <1>11
    <3>4. ASSUME NEW p \in mapped
          PROVE  \/ \E o \in largeLive' : p \in Large!PagesOf(o)
                 \/ \E u \in Threads : p \in Large!InTransit(u)'
      BY <2>1, <3>3 DEF LargeHeapIInv, OwnedInv
    <3> QED
      BY <3>1, <3>2, <3>4, <1>1 DEF OwnedInv
  <2>12. DisjointInv'
    BY <2>1, <2>3, <2>5, <1>1, <1>11 DEF LargeHeapIInv, DisjointInv,
       Large!PagesOf
  <2>13. Large!TypeOK'
    BY <2>1, <2>2, <1>1, <1>2, <1>4 DEF LargeHeapIInv, Large!TypeOK
  <2> QED
    BY <2>8, <2>10, <2>11, <2>12, <2>13, <1>6, <1>9 DEF LargeHeapIInv
<1> QED
  BY <1>13, <1>14

\* free has found the object: the program's pages are in transit.
LEMMA FreeLookupInv ==
  ASSUME LargeHeapIInv, NEW t \in Threads, NEW o \in largeLive,
         Large!FreeLookup(t, o)
  PROVE  LargeHeapIInv'
<1> USE LargeHeapAssumption
<1>1. /\ largePc[t] = "idle" /\ largePc'[t] = "unmap" /\ base'[t] = o[1]
      /\ \A u \in Threads \ {t} : largePc'[u] = largePc[u] /\ base'[u] = base[u]
      /\ UNCHANGED <<mapped, table, req>>
      /\ mutex = None /\ mutex' = t /\ largeLive' = largeLive \ {o}
  <2>1. o[1] \in Large!Page
    BY MappableIsPage DEF LargeHeapIInv, Large!TypeOK
  <2> QED
    BY <2>1 DEF LargeHeapIInv, Large!TypeOK, Large!FreeLookup, Large!Goto
<1>2. o[1] \in Large!Mappable /\ o[1] \in Large!Page /\ o[2] \in Large!Sizes
  BY MappableIsPage DEF LargeHeapIInv, Large!TypeOK
<1>3. Large!TypeOK'
  BY <1>1, <1>2 DEF LargeHeapIInv, Large!TypeOK, Large!FreeLookup, Large!Goto
<1>4. \A u \in Threads : largePc[u] \notin {"unmap", "clear"}
  BY <1>1 DEF LargeHeapIInv, MutexInv
<1>5. MutexInv' /\ SetInv'
  BY <1>1, <1>4 DEF LargeHeapIInv, MutexInv, SetInv
<1>6. o[1] \in Large!PagesOf(o) /\ table[o[1]] = o[2]
  <2>1. o[1] \in Large!PagesOf(o)
    BY <1>2 DEF Large!PagesOf, Large!Run, Large!Sizes, Large!Page
  <2>2. table[o[1]] = o[1] + o[2] - o[1]
    BY <2>1 DEF LargeHeapIInv, LiveEntries
  <2> QED
    BY <2>1, <2>2, <1>2 DEF Large!Page, Large!Sizes
<1>7. FreedRun(t)' = Large!PagesOf(o)
  BY <1>1, <1>6 DEF FreedRun, Large!PagesOf
<1>8. LiveEntries'
  BY <1>1 DEF LargeHeapIInv, LiveEntries, Large!PagesOf
<1>9. Large!PagesOf(o) \subseteq mapped /\ Large!PagesOf(o) \subseteq Large!Mappable
  BY DEF LargeHeapIInv, OwnedInv, Large!TypeOK
<1>10. FreedEntries'
  <2>1. /\ base'[t] \in Large!Mappable /\ table'[base'[t]] > 0
        /\ \A p \in Large!PagesOf(o) : table'[p] = base'[t] + table'[base'[t]] - p
    BY <1>1, <1>2, <1>6 DEF LargeHeapIInv, LiveEntries, Large!Sizes
  <2>2. \A x \in largeLive' : Large!PagesOf(o) \cap Large!PagesOf(x) = {}
    BY <1>1 DEF LargeHeapIInv, DisjointInv
  <2>3. \A u \in Threads : largePc'[u] \in {"unmap", "clear"} => u = t
    BY <1>1, <1>4
  <2> QED
    BY <2>1, <2>2, <2>3, <1>7, <1>9 DEF FreedEntries, Large!PagesOf
<1>11. NoOtherEntries'
  <2>1. ASSUME NEW p \in Large!Mappable
        PROVE  \/ table[p] = 0 \/ p \in Large!PagesOf(o)
               \/ \E x \in largeLive' : p \in Large!PagesOf(x)
    BY <1>1, <1>4 DEF LargeHeapIInv, NoOtherEntries
  <2> QED
    BY <2>1, <1>1, <1>7 DEF NoOtherEntries, Large!PagesOf
<1>12. Large!InTransit(t) = {} /\ Large!InTransit(t)' = Large!PagesOf(o)
  <2>1. Large!InTransit(t) = {}
    BY <1>1, Transit
  <2>2. Large!InTransit(t)' = FreedRun(t)'
    BY <1>1 DEF Large!InTransit, FreedRun
  <2> QED
    BY <2>1, <2>2, <1>7
<1>13. \A u \in Threads \ {t} : Large!InTransit(u)' = Large!InTransit(u)
  BY <1>1, <1>4 DEF Large!InTransit
<1>14. OwnedInv'
  <2> USE DEF Large!PagesOf
  <2>1. /\ \A x \in largeLive' : Large!PagesOf(x) \subseteq mapped
        /\ \A u \in Threads : Large!InTransit(u)' \subseteq mapped
    BY <1>1, <1>9, <1>12, <1>13 DEF LargeHeapIInv, OwnedInv
  <2>2. ASSUME NEW p \in mapped
        PROVE  \/ \E x \in largeLive' : p \in Large!PagesOf(x)
               \/ \E u \in Threads : p \in Large!InTransit(u)'
    <3>1. CASE p \in Large!PagesOf(o)
      BY <3>1, <1>12
    <3>2. CASE \E x \in largeLive \ {o} : p \in Large!PagesOf(x)
      BY <3>2, <1>1
    <3>3. CASE \E u \in Threads : p \in Large!InTransit(u)
      BY <3>3, <1>12, <1>13
    <3> QED
      BY <3>1, <3>2, <3>3 DEF LargeHeapIInv, OwnedInv
  <2> QED
    BY <2>1, <2>2, <1>1 DEF OwnedInv
<1>15. DisjointInv'
  BY <1>1, <1>12, <1>13 DEF LargeHeapIInv, DisjointInv, Large!PagesOf
<1> QED
  BY <1>3, <1>5, <1>8, <1>10, <1>11, <1>14, <1>15 DEF LargeHeapIInv

\* free unmaps what the table says, which is the object and nothing else.
LEMMA FreeUnmapInv ==
  ASSUME LargeHeapIInv, NEW t \in Threads, Large!FreeUnmap(t)
  PROVE  LargeHeapIInv'
<1>1. /\ largePc[t] = "unmap" /\ largePc'[t] = "clear"
      /\ \A u \in Threads \ {t} : largePc'[u] = largePc[u]
      /\ UNCHANGED <<table, mutex, base, req, largeLive>>
      /\ mapped' = mapped \ FreedRun(t)
  BY DEF LargeHeapIInv, Large!TypeOK, Large!FreeUnmap, Large!Goto, FreedRun
<1>2. Large!TypeOK'
  BY <1>1 DEF LargeHeapIInv, Large!TypeOK, Large!FreeUnmap, Large!Goto
<1>3. MutexInv' /\ SetInv'
  BY <1>1 DEF LargeHeapIInv, MutexInv, SetInv
<1>4. /\ \A u \in Threads : FreedRun(u)' = FreedRun(u)
      /\ \A u \in Threads : largePc'[u] \in {"unmap", "clear"}
                             <=> largePc[u] \in {"unmap", "clear"}
  BY <1>1 DEF FreedRun
<1>5. LiveEntries' /\ FreedEntries' /\ NoOtherEntries'
  BY <1>1, <1>4 DEF LargeHeapIInv, LiveEntries, FreedEntries, NoOtherEntries,
     Large!PagesOf
<1>6. Large!InTransit(t) = FreedRun(t) /\ Large!InTransit(t)' = {}
  BY <1>1, Transit DEF Large!InTransit
<1>7. \A u \in Threads \ {t} : Large!InTransit(u)' = Large!InTransit(u)
  BY <1>1 DEF Large!InTransit
<1>8. OwnedInv'
  <2> USE DEF Large!PagesOf
  <2>1. /\ \A x \in largeLive' : Large!PagesOf(x) \subseteq mapped'
        /\ \A u \in Threads : Large!InTransit(u)' \subseteq mapped'
    BY <1>1, <1>6, <1>7 DEF LargeHeapIInv, OwnedInv, DisjointInv
  <2>2. ASSUME NEW p \in mapped'
        PROVE  \/ \E x \in largeLive' : p \in Large!PagesOf(x)
               \/ \E u \in Threads : p \in Large!InTransit(u)'
    BY <1>1, <1>6, <1>7 DEF LargeHeapIInv, OwnedInv
  <2> QED
    BY <2>1, <2>2 DEF OwnedInv
<1>9. DisjointInv'
  BY <1>1, <1>6, <1>7 DEF LargeHeapIInv, DisjointInv, Large!PagesOf
<1> QED
  BY <1>2, <1>3, <1>5, <1>8, <1>9 DEF LargeHeapIInv

\* free erases the entries of the object, and only those.
LEMMA FreeClearInv ==
  ASSUME LargeHeapIInv, NEW t \in Threads, Large!FreeClear(t)
  PROVE  LargeHeapIInv'
<1> USE LargeHeapAssumption
<1>1. /\ largePc[t] = "clear" /\ largePc'[t] = "idle" /\ base'[t] = Large!NULL
      /\ \A u \in Threads \ {t} : largePc'[u] = largePc[u] /\ base'[u] = base[u]
      /\ UNCHANGED <<mapped, req, largeLive>> /\ mutex' = None
      /\ table' = [p \in Large!Page |-> IF p \in FreedRun(t) THEN 0 ELSE table[p]]
  BY DEF LargeHeapIInv, Large!TypeOK, Large!FreeClear, Large!Goto, FreedRun
<1>2. Large!TypeOK'
  <2>1. Large!NULL \in Large!Page
    BY DEF Large!NULL, Large!Page
  <2>2. table' \in [Large!Page -> 0 .. LargestRequest]
    BY <1>1 DEF LargeHeapIInv, Large!TypeOK
  <2> QED
    BY <2>1, <2>2, <1>1 DEF LargeHeapIInv, Large!TypeOK, Large!FreeClear,
       Large!Goto
<1>3. \A u \in Threads : u # t => largePc[u] \notin {"unmap", "clear"}
  BY <1>1 DEF LargeHeapIInv, MutexInv
<1>4. \A u \in Threads : largePc'[u] \notin {"unmap", "clear"}
  BY <1>1, <1>3
<1>5. MutexInv' /\ SetInv'
  BY <1>1, <1>4 DEF LargeHeapIInv, MutexInv, SetInv
<1>6. \A o \in largeLive : Large!PagesOf(o) \subseteq Large!Page /\ FreedRun(t) \cap Large!PagesOf(o) = {}
  <2>1. \A o \in largeLive : Large!PagesOf(o) \subseteq mapped
    BY DEF LargeHeapIInv, OwnedInv
  <2> QED
    BY <2>1, <1>1, MappableIsPage DEF LargeHeapIInv, Large!TypeOK, FreedEntries
<1>7. LiveEntries'
  BY <1>1, <1>6 DEF LargeHeapIInv, LiveEntries, Large!PagesOf
<1>8. FreedEntries'
  BY <1>4 DEF FreedEntries
<1>9. NoOtherEntries'
  <2>1. ASSUME NEW p \in Large!Mappable
        PROVE  table'[p] = 0 \/ \E o \in largeLive : p \in Large!PagesOf(o)
    <3>1. p \in Large!Page
      BY MappableIsPage
    <3>2. CASE p \in FreedRun(t)
      BY <3>1, <3>2, <1>1
    <3>3. CASE p \notin FreedRun(t)
      BY <3>1, <3>3, <1>1, <1>3 DEF LargeHeapIInv, NoOtherEntries
    <3> QED
      BY <3>2, <3>3
  <2> QED
    BY <2>1, <1>1 DEF NoOtherEntries, Large!PagesOf
<1>10. Large!InTransit(t) = {} /\ Large!InTransit(t)' = {}
  BY <1>1, Transit DEF Large!InTransit
<1>11. \A u \in Threads : Large!InTransit(u)' = Large!InTransit(u)
  BY <1>1, <1>3, <1>10 DEF Large!InTransit
<1>12. OwnedInv' /\ DisjointInv'
  BY <1>1, <1>11 DEF LargeHeapIInv, OwnedInv, DisjointInv, Large!PagesOf
<1> QED
  BY <1>2, <1>5, <1>7, <1>8, <1>9, <1>12 DEF LargeHeapIInv

-----------------------------------------------------------------------------
(* LargeHeap: the theorems *)

\* Every step of malloc and of free preserves the invariant.
LEMMA LargeHeapStep == LargeHeapIInv /\ [Large!Next]_(Large!vars) => LargeHeapIInv'
<1> SUFFICES ASSUME LargeHeapIInv, [Large!Next]_(Large!vars) PROVE LargeHeapIInv'
  OBVIOUS
<1>1. ASSUME NEW t \in Threads, NEW n \in Large!Sizes, Large!MapFails(t, n) PROVE LargeHeapIInv'
  BY <1>1, MapFailsInv
<1>2. ASSUME NEW t \in Threads, NEW n \in Large!Sizes, NEW p \in Large!Mappable, Large!Map(t, n, p)
      PROVE  LargeHeapIInv'
  BY <1>2, MapInv
<1>3. ASSUME NEW t \in Threads, Large!SetSizes(t) PROVE LargeHeapIInv'
  BY <1>3, SetSizesInv
<1>4. ASSUME NEW t \in Threads, NEW o \in largeLive, Large!FreeLookup(t, o) PROVE LargeHeapIInv'
  BY <1>4, FreeLookupInv
<1>5. ASSUME UNCHANGED Large!vars PROVE LargeHeapIInv'
  <2> USE <1>5 DEF Large!vars
  <2>1. /\ \A t \in Threads : Large!InTransit(t)' = Large!InTransit(t) /\ FreedRun(t)' = FreedRun(t)
        /\ \A o \in largeLive : Large!PagesOf(o)' = Large!PagesOf(o)
    BY DEF Large!InTransit, FreedRun, Large!PagesOf
  <2>2. Large!TypeOK' /\ MutexInv' /\ SetInv'
    BY DEF LargeHeapIInv, Large!TypeOK, MutexInv, SetInv
  <2>3. LiveEntries' /\ FreedEntries' /\ NoOtherEntries'
    BY <2>1 DEF LargeHeapIInv, LiveEntries, FreedEntries, NoOtherEntries,
       Large!PagesOf
  <2>4. OwnedInv' /\ DisjointInv'
    BY <2>1 DEF LargeHeapIInv, OwnedInv, DisjointInv, Large!PagesOf
  <2> QED
    BY <2>2, <2>3, <2>4 DEF LargeHeapIInv
<1>6. ASSUME NEW t \in Threads, NEW p \in Large!Page, Large!FreeNotFound(t, p) PROVE LargeHeapIInv'
  BY <1>5, <1>6 DEF Large!FreeNotFound
<1>7. ASSUME NEW t \in Threads, Large!FreeUnmap(t) PROVE LargeHeapIInv'
  BY <1>7, FreeUnmapInv
<1>8. ASSUME NEW t \in Threads, Large!FreeClear(t) PROVE LargeHeapIInv'
  BY <1>8, FreeClearInv
<1> QED
  BY <1>1, <1>2, <1>3, <1>4, <1>5, <1>6, <1>7, <1>8 DEF Large!Next

\* The table, the mapped pages and the program's objects stay as the invariant
\* says, whatever the interleaving of the threads' calls.
THEOREM LargeHeapInvariant == Large!Spec => []LargeHeapIInv
<1>1. Large!Init => LargeHeapIInv
  BY LargeHeapInit
<1>2. LargeHeapIInv /\ [Large!Next]_(Large!vars) => LargeHeapIInv'
  BY LargeHeapStep
<1> QED
  BY <1>1, <1>2, PTL DEF Large!Spec

\* No two large objects share a page, none loses a page and none is leaked:
\* malloc maps outside the mutex, and free unmaps as much as the table says
\* before it erases the entries.
THEOREM PagesExclusiveAlways == Large!Spec => []PagesExclusive
<1>1. LargeHeapIInv => PagesExclusive
  BY Exclusive DEF LargeHeapIInv
<1> QED
  BY <1>1, LargeHeapInvariant, PTL

\* Whoever takes the mutex finds the table exact: getSize and free read the
\* size of the object from any of its pages and nothing for any other page.
THEOREM TableExactAlways == Large!Spec => []TableExact
<1>1. LargeHeapIInv => TableExact
  BY Exact
<1> QED
  BY <1>1, LargeHeapInvariant, PTL
==============================================================================
