-------------------------- MODULE DieHarderProofs --------------------------
(***************************************************************************)
(* Proofs about DieHarder, for every size of the page table, of the pages  *)
(* and of the classes.  The page table is the hard part: what linear       *)
(* probing needs in order to find an entry again, and that insert and grow *)
(* keep it.                                                                *)
(***************************************************************************)
EXTENDS DieHarder, FiniteSetTheorems, WellFoundedInduction, TLAPS

\* What the enumerations and templates of DieHarder's headers fix: pages and the
\* largest class are powers of two and the table of pages has eight slots or
\* more.  Alignments are of the kind that the library meets: powers of two up
\* to a page.
DieHarderSized ==
  /\ \E k \in Nat : PageSize = 2 ^ k
  /\ \E k \in Nat : MaxSize = 2 ^ k
  /\ PageSize <= MaxSize
  /\ INIT_SIZE \in Nat /\ INIT_SIZE >= 8
  /\ Numerator \in Nat /\ Denominator \in Nat \ {0}
  /\ PageNumbers \subseteq Nat /\ Requests \subseteq Nat
  /\ \A al \in Alignments : al <= PageSize /\ \E k \in Nat : al = 2 ^ k

-----------------------------------------------------------------------------
(* The inductive invariant *)

\* Each entry is found by probing from its page without a hole, and no page
\* has two entries.
Probed(t, n) ==
  /\ DOMAIN t \subseteq 0 .. n - 1
  /\ \A s \in DOMAIN t :
       /\ t[s].page \in Nat
       /\ \E d \in Probes(n) : /\ s = Probe(t[s].page, d, n)
                               /\ \A e \in 0 .. d - 1 : Probe(t[s].page, e, n) \in DOMAIN t
  /\ \A s, u \in DOMAIN t : t[s].page = t[u].page => s = u

\* At most every eighth slot is taken.
Loaded(t, n) == n \in Nat /\ n >= 8 /\ 8 * Cardinality(DOMAIN t) <= n

Content(t) == {t[s] : s \in DOMAIN t}

\* The entries of a miniheap that has the runs of pages f.
EntriesOf(h, f) ==
  {PageTableEntry(f[k] + p, h, IndexOfEntry(h[1], k)) :
     k \in DOMAIN f, p \in 0 .. PagesPerObject(h[1]) - 1}

TableInv ==
  /\ Probed(entries, size) /\ Loaded(entries, size)
  /\ Content(entries) = UNION {EntriesOf(h, pages[h]) : h \in DOMAIN pages}

\* The k-th run of pages of a miniheap.
RunOf(h, k) == Run(pages[h][k], PagesPerObject(h[1]))

\* The miniheaps of a class are numbered from 0, and no page is mapped twice.
PagesInv ==
  /\ DOMAIN pages \subseteq Class \X Nat
  /\ \A c \in Class : \E k \in Nat : Active(c) = {<<c, m>> : m \in 0 .. k - 1}
  /\ \A h \in DOMAIN pages : pages[h] \in [1 .. NumEntries(h) -> PageNumbers]
  /\ \A h, g \in DOMAIN pages : \A k \in DOMAIN pages[h], l \in DOMAIN pages[g] :
       h # g \/ k # l => RunOf(h, k) \cap RunOf(g, l) = {}
  /\ \A h \in DOMAIN pages : \A k \in DOMAIN pages[h] : \A a \in DOMAIN big :
       computePageNumber(a) \notin RunOf(h, k)

Need(o) == xxmemalign(o.size, o.align)

\* The object of a size class in the slot i of the miniheap h.
InSlot(o, h, i) ==
  /\ Need(o) <= MaxSize /\ h \in DOMAIN pages /\ h[1] = getIndex(Need(o))
  /\ i \in 0 .. NObjects(h) - 1 /\ o.addr = getObject(h, i)
  /\ <<h[1], h[2], i>> \in bits

\* The pages of a larger object.
BigRun(o) == Run(computePageNumber(o.addr), (Need(o) + PageSize - 1) \div PageSize)
InTable(o) ==
  /\ Need(o) > MaxSize
  /\ o.addr = computePageNumber(o.addr) * PageSize
  /\ \A q \in BigRun(o) : /\ q * PageSize \in DOMAIN big
                          /\ big[q * PageSize] = Need(o) - (q * PageSize - o.addr)

\* What the program holds, the bits and the table of the larger objects agree.
LiveInv ==
  /\ live \subseteq [addr : Nat, size : Requests, align : Alignments]
  /\ \A o \in live : InTable(o) \/ \E h \in DOMAIN pages, i \in Nat : InSlot(o, h, i)
  /\ \A b \in bits : \E o \in live, h \in DOMAIN pages, i \in Nat :
       b = <<h[1], h[2], i>> /\ InSlot(o, h, i)
  /\ \A a \in DOMAIN big : \E o \in live : InTable(o) /\ \E q \in BigRun(o) : a = q * PageSize
  /\ \A o1, o2 \in live : o1.addr = o2.addr => o1 = o2
  /\ \A o1, o2 \in live : o1 # o2 /\ InTable(o1) /\ InTable(o2) => BigRun(o1) \cap BigRun(o2) = {}
  /\ zeroed = {}

PendingInv ==
  pending = Nothing \/
    /\ pending \in [size : Requests, align : Alignments, class : Class]
    /\ Need(pending) <= MaxSize /\ pending.class = getIndex(Need(pending))

DieHarderIInv == TableInv /\ PagesInv /\ LiveInv /\ PendingInv

-----------------------------------------------------------------------------
(* Numbers *)

\* The least of a set of numbers.
LEMMA Least ==
  ASSUME NEW T \in SUBSET Nat, T # {}
  PROVE  \E x \in T : \A y \in T : x <= y
<1>1. PICK x \in T : \A y \in T : ~(<<y, x>> \in OpToRel(<, Nat))
  BY WFMin, NatLessThanWellFounded
<1>2. \A y \in T : ~(y < x)
  BY <1>1 DEF OpToRel
<1> QED
  BY <1>2

\* Quotient and remainder.
LEMMA Division ==
  ASSUME NEW a \in Nat, NEW b \in Nat \ {0}
  PROVE  /\ a \div b \in Nat /\ a % b \in Nat
         /\ a % b < b
         /\ a = b * (a \div b) + (a % b)
<1>1. a \div b \in Nat
  BY Z3
<1>2. a % b \in Nat /\ a % b < b
  BY Z3
<1>3. a = b * (a \div b) + (a % b)
  BY Z3
<1> QED
  BY <1>1, <1>2, <1>3

\* A factor is found again by comparing the products.
LEMMA Factor ==
  ASSUME NEW b \in Nat \ {0}, NEW x \in Int, NEW y \in Int
  PROVE  /\ x <= y => b * x <= b * y
         /\ x < y => b * x + b <= b * y
         /\ b * x \in Int /\ b * x = x * b
<1>1. x <= y => b * x <= b * y
  BY Z3
<1>2. x < y => b * x + b <= b * y
  <2>1. x + 1 <= y => b * (x + 1) <= b * y
    BY Z3
  <2>2. b * (x + 1) = b * x + b
    BY Z3
  <2> QED
    BY <2>1, <2>2
<1>3. b * x \in Int /\ b * x = x * b
  BY Z3
<1> QED
  BY <1>1, <1>2, <1>3

\* A power of two is a positive natural number, and the next is its double.
LEMMA PowerOfTwo ==
  ASSUME NEW n \in Nat
  PROVE  2 ^ n \in Nat \ {0} /\ 2 ^ (n + 1) = 2 * 2 ^ n
<1> DEFINE S == SUBSET (1 .. n)
           Add(T) == T \cup {n + 1}
           f == [T \in S |-> Add(T)]
           With == {Add(T) : T \in S}
<1>1. IsFiniteSet(1 .. n) /\ Cardinality(1 .. n) = n
  BY FS_Interval
<1>2. IsFiniteSet(S) /\ Cardinality(S) = 2 ^ n
  BY <1>1, FS_SUBSET
<1>3. IsFiniteSet(1 .. n + 1) /\ Cardinality(1 .. n + 1) = n + 1
  BY FS_Interval
<1>4. Cardinality(SUBSET (1 .. n + 1)) = 2 ^ (n + 1)
  BY <1>3, FS_SUBSET
<1>5. f \in Bijection(S, With)
  <2>1. f \in Surjection(S, With)
    BY DEF Surjection
  <2>2. \A T, U \in S : Add(T) = Add(U) => T = U
    <3> SUFFICES ASSUME NEW T \in S, NEW U \in S, Add(T) = Add(U) PROVE T = U
      OBVIOUS
    <3>1. n + 1 \notin T /\ n + 1 \notin U
      OBVIOUS
    <3> QED
      BY <3>1
  <2>3. f \in Injection(S, With)
    <3>1. f \in [S -> With] /\ \A T \in S : f[T] = Add(T)
      OBVIOUS
    <3> HIDE DEF f, S, With, Add
    <3> QED
      BY <2>2, <3>1 DEF Injection, IsInjective
  <2> QED
    BY <2>1, <2>3 DEF Bijection
<1>6. IsFiniteSet(With) /\ Cardinality(With) = 2 ^ n
  BY <1>2, <1>5, FS_Bijection DEF ExistsBijection
<1>7. S \cap With = {}
  OBVIOUS
<1>8. SUBSET (1 .. n + 1) = S \cup With
  <2>1. ASSUME NEW T \in SUBSET (1 .. n + 1) PROVE T \in S \cup With
    <3>1. CASE n + 1 \in T
      <4>1. T \ {n + 1} \in S /\ Add(T \ {n + 1}) = T
        BY <3>1
      <4> QED
        BY <4>1
    <3>2. CASE n + 1 \notin T
      BY <3>2
    <3> QED
      BY <3>1, <3>2
  <2>2. ASSUME NEW T \in S PROVE T \subseteq 1 .. n + 1 /\ Add(T) \subseteq 1 .. n + 1
    OBVIOUS
  <2>3. S \cup With \subseteq SUBSET (1 .. n + 1)
    BY <2>2
  <2> QED
    BY <2>1, <2>3
<1>9. Cardinality(S \cup With) = Cardinality(S) + Cardinality(With) - Cardinality({})
  <2> HIDE DEF S, With
  <2> QED
    BY <1>2, <1>6, <1>7, FS_Union
<1>10. Cardinality(S) \in Nat \ {0}
  <2>1. {} \in S
    OBVIOUS
  <2> QED
    BY <1>2, <2>1, FS_CardinalityType, FS_EmptySet
<1> HIDE DEF S, With
<1>11. Cardinality({}) = 0
  BY FS_EmptySet
<1>12. 2 ^ n \in Nat \ {0}
  BY <1>2, <1>10
<1>13. 2 ^ (n + 1) = Cardinality(S \cup With)
  BY <1>4, <1>8
<1>14. 2 ^ (n + 1) = 2 ^ n + 2 ^ n - 0
  BY <1>2, <1>6, <1>9, <1>11, <1>13
<1> QED
  BY <1>12, <1>14

\* Powers of two grow with the exponent.
LEMMA PowerMonotone ==
  ASSUME NEW m \in Nat, NEW n \in Nat, m <= n
  PROVE  2 ^ m <= 2 ^ n
<1>1. IsFiniteSet(1 .. m) /\ Cardinality(1 .. m) = m
  BY FS_Interval
<1>2. IsFiniteSet(1 .. n) /\ Cardinality(1 .. n) = n
  BY FS_Interval
<1>3. Cardinality(SUBSET (1 .. m)) = 2 ^ m
  BY <1>1, FS_SUBSET
<1>4. IsFiniteSet(SUBSET (1 .. n)) /\ Cardinality(SUBSET (1 .. n)) = 2 ^ n
  BY <1>2, FS_SUBSET
<1>5. SUBSET (1 .. m) \in SUBSET (SUBSET (1 .. n))
  OBVIOUS
<1>6. Cardinality(SUBSET (1 .. m)) <= Cardinality(SUBSET (1 .. n))
  BY <1>4, <1>5, FS_Subset
<1> QED
  BY <1>3, <1>4, <1>6

\* A number is less than its power of two.
LEMMA PowerExceeds ==
  ASSUME NEW n \in Nat
  PROVE  n < 2 ^ n
<1> DEFINE T == {m \in Nat : ~(m < 2 ^ m)}
<1> SUFFICES ASSUME T # {} PROVE FALSE
  OBVIOUS
<1>1. PICK x \in T : \A y \in T : x <= y
  BY Least
<1>2. CASE x = 0
  BY <1>2, PowerOfTwo
<1>3. CASE x # 0
  <2>1. x - 1 \in Nat /\ x - 1 \notin T
    BY <1>1, <1>3
  <2>2. 2 ^ ((x - 1) + 1) = 2 * 2 ^ (x - 1) /\ 2 ^ (x - 1) \in Nat
    BY <2>1, PowerOfTwo
  <2>3. (x - 1) + 1 = x
    OBVIOUS
  <2>4. x - 1 < 2 ^ (x - 1)
    BY <2>1
  <2>5. x < 2 ^ x
    <3>1. 2 ^ x = 2 * 2 ^ (x - 1)
      BY <2>2, <2>3
    <3>2. \A p, q \in Nat : x - 1 < p /\ q = 2 * p /\ x # 0 => x < q
      OBVIOUS
    <3>3. 2 ^ x \in Nat
      BY PowerOfTwo
    <3> QED
      BY <1>3, <2>2, <2>4, <3>1, <3>2, <3>3
  <2> QED
    BY <2>5
<1> QED
  BY <1>2, <1>3

\* The quotient and the remainder are told by their bounds.
LEMMA Quotient ==
  ASSUME NEW b \in Nat \ {0}, NEW q \in Nat, NEW r \in Nat, r < b
  PROVE  /\ b * q + r \in Nat
         /\ (b * q + r) \div b = q /\ (b * q + r) % b = r
<1> DEFINE a == b * q + r
<1>1. a \in Nat /\ b * q \in Nat
  BY Z3
<1>2. /\ a \div b \in Nat /\ a % b \in Nat /\ a % b < b
      /\ a = b * (a \div b) + (a % b)
  BY <1>1, Division
<1> DEFINE x == a \div b
<1>3. x \in Nat /\ b * x \in Int /\ a = b * x + (a % b)
  BY <1>2, Factor
<1>4. /\ x < q => b * x + b <= b * q
      /\ q < x => b * q + b <= b * x
  BY <1>3, Factor
<1>5. x = q
  <2> DEFINE u == b * x
             v == b * q
             y == a % b
  <2>1. u \in Int /\ v \in Int /\ y \in Nat /\ y < b /\ v + r = u + y
    BY <1>1, <1>2, <1>3
  <2>2. (x < q => u + b <= v) /\ (q < x => v + b <= u)
    BY <1>4
  <2> HIDE DEF u, v, y, x
  <2> QED
    BY <1>3, <2>1, <2>2
<1>6. a % b = r
  <2>1. b * x = b * q
    BY <1>5
  <2> QED
    BY <1>1, <1>2, <1>3, <2>1
<1> QED
  BY <1>1, <1>5, <1>6

\* n probes in a row meet n different slots.
LEMMA ProbesApart ==
  ASSUME NEW n \in Nat \ {0}, NEW key \in Nat, NEW d \in 0 .. n - 1,
         NEW e \in 0 .. n - 1,
         Probe(key, d, n) = Probe(key, e, n)
  PROVE  d = e
<1> DEFINE x == (key + d) \div n
           y == (key + e) \div n
           r == (key + d) % n
<1>1. /\ x \in Nat /\ r \in Nat /\ key + d = n * x + r
  BY Division
<1>2. y \in Nat /\ key + e = n * y + r
  <2>1. r = (key + e) % n
    BY DEF Probe
  <2> QED
    BY <2>1, Division
<1> DEFINE u == n * x
           v == n * y
<1>3. u \in Int /\ v \in Int /\ (x < y => u + n <= v) /\ (y < x => v + n <= u)
  BY <1>1, <1>2, Factor
<1>4. key + d = u + r /\ key + e = v + r
  BY <1>1, <1>2
<1>5. x = y => u = v
  OBVIOUS
<1> HIDE DEF x, y, u, v, r
<1> QED
  BY <1>1, <1>2, <1>3, <1>4, <1>5

\* A probe is a slot of the table.
LEMMA ProbeInTable ==
  ASSUME NEW n \in Nat \ {0}, NEW key \in Nat, NEW d \in Nat
  PROVE  Probe(key, d, n) \in 0 .. n - 1
<1>1. key + d \in Nat
  OBVIOUS
<1> QED
  BY <1>1, Division DEF Probe

\* A power of two is a multiple of each smaller one.
LEMMA PowersDivide ==
  ASSUME NEW m \in Nat, NEW n \in Nat, m <= n
  PROVE  \E k \in Nat \ {0} : 2 ^ n = 2 ^ m * k
<1> DEFINE T == {x \in Nat : m <= x /\ ~\E k \in Nat \ {0} : 2 ^ x = 2 ^ m * k}
<1> SUFFICES ASSUME T # {} PROVE FALSE
  OBVIOUS
<1>1. PICK x \in T : \A y \in T : x <= y
  BY Least
<1>2. x \in Nat /\ m <= x /\ ~\E k \in Nat \ {0} : 2 ^ x = 2 ^ m * k
  OBVIOUS
<1>3. 2 ^ m \in Nat \ {0}
  BY PowerOfTwo
<1>4. x # m
  <2>1. 2 ^ m = 2 ^ m * 1
    BY <1>3
  <2> QED
    BY <1>2, <2>1
<1>5. x - 1 \in Nat /\ m <= x - 1 /\ ~(x <= x - 1)
  BY <1>2, <1>4
<1>6. PICK k \in Nat \ {0} : 2 ^ (x - 1) = 2 ^ m * k
  BY <1>1, <1>5
<1>7. 2 ^ x = 2 * 2 ^ (x - 1)
  <2>1. (x - 1) + 1 = x
    BY <1>2
  <2>2. 2 ^ ((x - 1) + 1) = 2 * 2 ^ (x - 1)
    BY <1>5, PowerOfTwo
  <2> QED
    BY <2>1, <2>2
<1>8. 2 ^ x = 2 ^ m * (2 * k)
  <2>1. \A p, q \in Nat : 2 * (p * q) = p * (2 * q)
    BY Z3
  <2>2. 2 * (2 ^ m * k) = 2 ^ m * (2 * k)
    BY <1>3, <2>1
  <2> QED
    BY <1>6, <1>7, <2>2
<1>9. 2 * k \in Nat \ {0}
  OBVIOUS
<1> QED
  BY <1>2, <1>8, <1>9

\* log2 gives the first power of two that is not smaller.
LEMMA LogFacts ==
  ASSUME NEW m \in Nat, NEW sz \in Nat, sz <= 2 ^ m
  PROVE  log2(sz) \in 0 .. m /\ sz <= 2 ^ log2(sz)
<1>1. 2 ^ m \in Nat
  BY PowerOfTwo
<1>2. CASE sz <= 1
  <2>1. 2 ^ 0 \in Nat \ {0}
    BY PowerOfTwo
  <2> QED
    BY <1>2, <2>1 DEF log2
<1>3. CASE sz > 1
  <2> DEFINE v == sz - 1
             T == {b \in Nat : v < 2 ^ b}
  <2>1. v \in Nat \ {0} /\ v < 2 ^ m /\ log2(sz) = BitWidth(v)
    BY <1>1, <1>3 DEF log2
  <2>2. PICK b \in T : \A c \in T : b <= c
    <3>1. v \in T
      BY <2>1, PowerExceeds
    <3> QED
      BY <3>1, Least
  <2>3. b \in 0 .. v
    BY <2>1, <2>2, PowerExceeds
  <2>4. v < 2 ^ b /\ (b > 0 => 2 ^ (b - 1) <= v)
    <3>1. b > 0 => b - 1 \in Nat /\ b - 1 \notin T
      BY <2>2
    <3>2. b > 0 => 2 ^ (b - 1) \in Nat
      BY <3>1, PowerOfTwo
    <3> QED
      BY <2>1, <2>2, <3>1, <3>2
  <2>5. PICK w \in 0 .. v : /\ BitWidth(v) = w
                            /\ v < 2 ^ w /\ (w > 0 => 2 ^ (w - 1) <= v)
    BY <2>3, <2>4 DEF BitWidth
  <2>6. ASSUME w > m PROVE FALSE
    <3>1. w - 1 \in Nat /\ m <= w - 1 /\ w > 0
      BY <2>1, <2>6
    <3>2. 2 ^ m <= 2 ^ (w - 1) /\ 2 ^ (w - 1) \in Nat
      BY <3>1, PowerMonotone, PowerOfTwo
    <3> QED
      BY <1>1, <2>1, <2>5, <3>1, <3>2
  <2>7. sz <= 2 ^ w
    <3>1. 2 ^ w \in Nat /\ w \in Nat
      BY <2>1, <2>5, PowerOfTwo
    <3> QED
      BY <2>1, <2>5, <3>1
  <2> QED
    BY <2>1, <2>5, <2>6, <2>7
<1> QED
  BY <1>2, <1>3

-----------------------------------------------------------------------------
(* The hash table *)

\* A table with two empty slots has one among the slots that are probed.
LEMMA FreeProbe ==
  ASSUME NEW t, NEW n \in Nat, n >= 8, NEW key \in Nat,
         DOMAIN t \subseteq 0 .. n - 1, Cardinality(DOMAIN t) <= n - 2
  PROVE  \E d \in Probes(n) : Probe(key, d, n) \notin DOMAIN t
<1> SUFFICES ASSUME \A d \in Probes(n) : Probe(key, d, n) \in DOMAIN t PROVE FALSE
  OBVIOUS
<1> DEFINE f == [d \in Probes(n) |-> Probe(key, d, n)]
<1>1. Probes(n) = 0 .. n - 2 /\ n - 2 \in Nat /\ n \in Nat \ {0}
  BY DEF Probes
<1>2. f \in [Probes(n) -> DOMAIN t]
  OBVIOUS
<1>3. \A d, e \in Probes(n) : f[d] = f[e] => d = e
  <2> SUFFICES ASSUME NEW d \in Probes(n), NEW e \in Probes(n), f[d] = f[e] PROVE d = e
    OBVIOUS
  <2>1. d \in 0 .. n - 1 /\ e \in 0 .. n - 1 /\ Probe(key, d, n) = Probe(key, e, n)
    BY <1>1
  <2> QED
    BY <1>1, <2>1, ProbesApart
<1>4. f \in Injection(Probes(n), DOMAIN t)
  <2> HIDE DEF f
  <2> QED
    BY <1>2, <1>3 DEF Injection, IsInjective
<1>5. IsFiniteSet(DOMAIN t) /\ Cardinality(DOMAIN t) \in Nat
  <2>1. IsFiniteSet(0 .. n - 1)
    BY FS_Interval
  <2> QED
    BY <2>1, FS_Subset, FS_CardinalityType
<1>6. Cardinality(Probes(n)) = n - 1
  BY <1>1, FS_Interval
<1>7. Cardinality(Probes(n)) <= Cardinality(DOMAIN t)
  BY <1>4, <1>5, FS_Injection DEF ExistsInjection
<1> QED
  BY <1>5, <1>6, <1>7

\* Where probing from a key stops.
Stops(t, n, key, wanted, d) ==
  \/ Probe(key, d, n) \notin DOMAIN t
  \/ wanted /\ t[Probe(key, d, n)].page = key

\* Probing stops at the first slot that it may stop at.
LEMMA StopFacts ==
  ASSUME NEW t, NEW n \in Nat, NEW key \in Nat, NEW wanted \in BOOLEAN,
         NEW d \in Probes(n), Stops(t, n, key, wanted, d)
  PROVE  /\ FirstStop(t, n, key, wanted) \in Probes(n)
         /\ Stops(t, n, key, wanted, FirstStop(t, n, key, wanted))
         /\ \A e \in 0 .. FirstStop(t, n, key, wanted) - 1 : ~Stops(t, n, key, wanted, e)
<1> DEFINE T == {e \in Nat : Stops(t, n, key, wanted, e)}
<1>1. d \in T
  BY DEF Probes
<1>2. PICK x \in T : \A y \in T : x <= y
  BY <1>1, Least
<1>3. x \in Probes(n)
  BY <1>1, <1>2 DEF Probes
<1>4. Stops(t, n, key, wanted, x) /\ \A e \in 0 .. x - 1 : ~Stops(t, n, key, wanted, e)
  BY <1>2
<1>5. FirstStop(t, n, key, wanted) =
        CHOOSE y \in Probes(n) : /\ Stops(t, n, key, wanted, y)
                                 /\ \A e \in 0 .. y - 1 : ~Stops(t, n, key, wanted, e)
  BY DEF FirstStop, Stops
<1> QED
  BY <1>3, <1>4, <1>5

\* A table with at most every eighth slot taken has room.
LEMMA LoadedFacts ==
  ASSUME NEW t, NEW n, Loaded(t, n), DOMAIN t \subseteq 0 .. n - 1
  PROVE  /\ IsFiniteSet(DOMAIN t) /\ Cardinality(DOMAIN t) \in Nat
         /\ Cardinality(DOMAIN t) <= n - 2 /\ n \in Nat \ {0} /\ n >= 8
<1>1. n \in Nat /\ n >= 8 /\ 8 * Cardinality(DOMAIN t) <= n
  BY DEF Loaded
<1>2. IsFiniteSet(0 .. n - 1)
  BY <1>1, FS_Interval
<1>3. IsFiniteSet(DOMAIN t) /\ Cardinality(DOMAIN t) \in Nat
  BY <1>2, FS_Subset, FS_CardinalityType
<1> QED
  BY <1>1, <1>3

\* find gives the entry of the key, and nothing for a key that has none.
LEMMA FindFacts ==
  ASSUME Probed(entries, size), Loaded(entries, size), NEW key \in Nat
  PROVE  /\ \A s \in DOMAIN entries : entries[s].page = key => getEntry(key) = entries[s]
         /\ (\A s \in DOMAIN entries : entries[s].page # key) => getEntry(key) = Nothing
<1> DEFINE d == FirstStop(entries, size, key, TRUE)
<1>1. DOMAIN entries \subseteq 0 .. size - 1
  BY DEF Probed
<1>2. /\ size \in Nat \ {0} /\ size >= 8 /\ Cardinality(DOMAIN entries) <= size - 2
      /\ Cardinality(DOMAIN entries) \in Nat
  BY <1>1, LoadedFacts
<1>3. PICK x \in Probes(size) : Probe(key, x, size) \notin DOMAIN entries
  BY <1>1, <1>2, FreeProbe
<1>4. /\ d \in Probes(size) /\ Stops(entries, size, key, TRUE, d)
      /\ \A e \in 0 .. d - 1 : ~Stops(entries, size, key, TRUE, e)
  <2>1. Stops(entries, size, key, TRUE, x)
    BY <1>3 DEF Stops
  <2> QED
    BY <1>2, <2>1, StopFacts
<1>5. getEntry(key) = IF Probe(key, d, size) \in DOMAIN entries
                      THEN entries[Probe(key, d, size)] ELSE Nothing
  BY DEF getEntry
<1> HIDE DEF d
<1>6. ASSUME NEW s \in DOMAIN entries, entries[s].page = key PROVE getEntry(key) = entries[s]
  <2>1. PICK c \in Probes(size) :
          /\ s = Probe(key, c, size)
          /\ \A e \in 0 .. c - 1 : Probe(key, e, size) \in DOMAIN entries
    BY <1>6 DEF Probed
  <2>2. c \in 0 .. size - 1 /\ d \in 0 .. size - 1
    BY <1>2, <1>4 DEF Probes
  <2>3. Stops(entries, size, key, TRUE, c)
    BY <1>6, <2>1 DEF Stops
  <2>4. ASSUME c < d PROVE FALSE
    <3>1. c \in 0 .. d - 1
      BY <1>2, <2>2, <2>4
    <3>2. ~Stops(entries, size, key, TRUE, c)
      BY <1>4, <3>1
    <3> QED
      BY <2>3, <3>2
  <2>5. ASSUME d < c PROVE FALSE
    <3>1. Probe(key, d, size) \in DOMAIN entries
      BY <2>1, <2>2, <2>5
    <3>2. entries[Probe(key, d, size)].page = key
      BY <1>4, <3>1 DEF Stops
    <3>3. Probe(key, d, size) = Probe(key, c, size)
      BY <1>6, <2>1, <3>1, <3>2 DEF Probed
    <3>4. d = c
      BY <1>2, <2>2, <3>3, ProbesApart
    <3> QED
      BY <2>2, <2>5, <3>4
  <2>6. d = c
    BY <2>2, <2>4, <2>5
  <2> QED
    BY <1>5, <2>1, <2>6
<1>7. ASSUME \A s \in DOMAIN entries : entries[s].page # key PROVE getEntry(key) = Nothing
  BY <1>4, <1>5, <1>7 DEF Stops
<1> QED
  BY <1>6, <1>7

\* insertOne adds the entry and keeps every other where it is.
LEMMA InsertOneFacts ==
  ASSUME NEW t, NEW n \in Nat, n >= 8, Probed(t, n),
         Cardinality(DOMAIN t) <= n - 2,
         NEW entry, entry.page \in Nat, \A s \in DOMAIN t : t[s].page # entry.page
  PROVE  /\ Probed(insertOne(t, n, entry), n)
         /\ Content(insertOne(t, n, entry)) = Content(t) \cup {entry}
         /\ Cardinality(DOMAIN insertOne(t, n, entry)) = Cardinality(DOMAIN t) + 1
<1> DEFINE key == entry.page
           d == FirstStop(t, n, key, FALSE)
           slot == Probe(key, d, n)
           u == insertOne(t, n, entry)
<1>1. DOMAIN t \subseteq 0 .. n - 1 /\ n \in Nat \ {0}
  BY DEF Probed
<1>2. PICK x \in Probes(n) : Probe(key, x, n) \notin DOMAIN t
  BY <1>1, FreeProbe
<1>3. /\ d \in Probes(n) /\ Stops(t, n, key, FALSE, d)
      /\ \A e \in 0 .. d - 1 : ~Stops(t, n, key, FALSE, e)
  <2>1. Stops(t, n, key, FALSE, x)
    BY <1>2 DEF Stops
  <2> QED
    BY <2>1, StopFacts
<1>4. slot \notin DOMAIN t /\ \A e \in 0 .. d - 1 : Probe(key, e, n) \in DOMAIN t
  BY <1>3 DEF Stops
<1>5. slot \in 0 .. n - 1
  <2>1. d \in Nat
    <3> HIDE DEF d
    <3> QED
      BY <1>3 DEF Probes
  <2> QED
    BY <1>1, <2>1, ProbeInTable
<1>6. /\ DOMAIN u = DOMAIN t \cup {slot} /\ u[slot] = entry
      /\ \A s \in DOMAIN t : u[s] = t[s]
  BY <1>4 DEF insertOne, Put
<1> HIDE DEF u, slot
<1>7. Probed(u, n)
  <2>1. DOMAIN u \subseteq 0 .. n - 1
    BY <1>1, <1>5, <1>6
  <2>2. ASSUME NEW s \in DOMAIN u
        PROVE  /\ u[s].page \in Nat
               /\ \E c \in Probes(n) : /\ s = Probe(u[s].page, c, n)
                                       /\ \A e \in 0 .. c - 1 : Probe(u[s].page, e, n) \in DOMAIN u
    <3>1. CASE s = slot
      <4>1. u[s].page = key /\ s = Probe(key, d, n)
        BY <1>6, <3>1 DEF slot
      <4>2. \A e \in 0 .. d - 1 : Probe(key, e, n) \in DOMAIN u
        BY <1>4, <1>6
      <4> QED
        BY <1>3, <4>1, <4>2
    <3>2. CASE s # slot
      <4>1. s \in DOMAIN t /\ u[s] = t[s]
        BY <1>6, <3>2
      <4>2. PICK c \in Probes(n) : /\ s = Probe(t[s].page, c, n)
                                   /\ \A e \in 0 .. c - 1 : Probe(t[s].page, e, n) \in DOMAIN t
        BY <4>1 DEF Probed
      <4>3. \A e \in 0 .. c - 1 : Probe(u[s].page, e, n) \in DOMAIN u
        BY <1>6, <4>1, <4>2
      <4>4. u[s].page \in Nat
        BY <4>1 DEF Probed
      <4> QED
        BY <4>1, <4>2, <4>3, <4>4
    <3> QED
      BY <3>1, <3>2
  <2>3. ASSUME NEW s \in DOMAIN u, NEW v \in DOMAIN u, u[s].page = u[v].page PROVE s = v
    <3>1. CASE s = slot /\ v # slot
      BY <1>6, <2>3, <3>1
    <3>2. CASE s # slot /\ v = slot
      BY <1>6, <2>3, <3>2
    <3>3. CASE s # slot /\ v # slot
      <4>1. s \in DOMAIN t /\ v \in DOMAIN t /\ t[s].page = t[v].page
        BY <1>6, <2>3, <3>3
      <4> QED
        BY <4>1 DEF Probed
    <3> QED
      BY <3>1, <3>2, <3>3
  <2> QED
    BY <2>1, <2>2, <2>3 DEF Probed
<1>8. Content(u) = Content(t) \cup {entry}
  BY <1>4, <1>6 DEF Content
<1>9. Cardinality(DOMAIN u) = Cardinality(DOMAIN t) + 1
  <2>1. IsFiniteSet(0 .. n - 1)
    BY FS_Interval
  <2>2. IsFiniteSet(DOMAIN t)
    BY <1>1, <2>1, FS_Subset
  <2>3. Cardinality(DOMAIN t \cup {slot}) = Cardinality(DOMAIN t) + 1
    BY <1>4, <2>2, FS_AddElement
  <2> QED
    BY <1>6, <2>3
<1> QED
  BY <1>7, <1>8, <1>9 DEF u

\* The loop of grow, which goes through the slots of the old table.
Rehash(t, n, i, u) ==
  IF i = 0 THEN Nothing
  ELSE IF i - 1 \in DOMAIN t THEN insertOne(u, n * ExpansionFactor, t[i - 1]) ELSE u

\* The loop gives a table for every number of slots that it has passed.
LEMMA RehashDefined ==
  ASSUME NEW t, NEW n \in Nat
  PROVE  \E g : /\ g = [i \in 0 .. n |-> Rehash(t, n, i, g[i - 1])]
                /\ grow(t, n) = g[n]
<1> DEFINE Loop(m, g) == g = [i \in 0 .. m |-> Rehash(t, n, i, g[i - 1])]
           T == {m \in Nat : ~\E g : Loop(m, g)}
<1>1. T = {}
  <2> SUFFICES ASSUME T # {} PROVE FALSE
    OBVIOUS
  <2>1. PICK m \in T : \A y \in T : m <= y
    BY Least
  <2>2. CASE m = 0
    <3> DEFINE g == [i \in 0 .. 0 |-> Nothing]
    <3>1. Loop(0, g)
      BY DEF Rehash
    <3> QED
      BY <2>1, <2>2, <3>1
  <2>3. CASE m # 0
    <3>1. m \in Nat /\ m - 1 \in Nat /\ m - 1 \notin T
      <4>1. m \in Nat
        OBVIOUS
      <4>2. m - 1 \in Nat /\ ~(m <= m - 1)
        BY <2>3, <4>1
      <4> HIDE DEF T
      <4> QED
        BY <2>1, <4>1, <4>2
    <3>2. PICK g : Loop(m - 1, g)
      BY <3>1
    <3> DEFINE f == [i \in 0 .. m |-> IF i = m THEN Rehash(t, n, m, g[m - 1]) ELSE g[i]]
    <3>3. ASSUME NEW i \in 0 .. m PROVE f[i] = Rehash(t, n, i, f[i - 1])
      <4>1. CASE i = 0
        <5>1. 0 \in 0 .. m - 1 /\ i # m
          BY <2>3, <3>1, <4>1
        <5>2. f[i] = g[0]
          BY <4>1, <5>1
        <5>3. g[0] = Rehash(t, n, 0, g[0 - 1])
          BY <3>2, <5>1
        <5> QED
          BY <4>1, <5>2, <5>3 DEF Rehash
      <4>2. CASE i # 0
        <5>1. i - 1 \in 0 .. m - 1 /\ f[i - 1] = g[i - 1]
          BY <3>1, <4>2
        <5>2. i # m => f[i] = g[i] /\ g[i] = Rehash(t, n, i, g[i - 1])
          BY <3>1, <3>2
        <5> QED
          BY <5>1, <5>2
      <4> QED
        BY <4>1, <4>2
    <3>4. Loop(m, f)
      <4>1. f = [i \in 0 .. m |-> f[i]]
        OBVIOUS
      <4> HIDE DEF f
      <4> QED
        BY <3>3, <4>1
    <3> QED
      BY <2>1, <3>4
  <2> QED
    BY <2>2, <2>3
<1>2. \E g : Loop(n, g)
  BY <1>1
<1> DEFINE r == CHOOSE g : Loop(n, g)
<1>3. Loop(n, r)
  BY <1>2
<1>4. grow(t, n) = r[n]
  BY DEF grow, Rehash
<1> QED
  BY <1>3, <1>4

\* grow loses no entry and lets each be found in the larger table.
LEMMA GrowFacts ==
  ASSUME NEW t, NEW n, Probed(t, n), Loaded(t, n)
  PROVE  /\ Probed(grow(t, n), n * ExpansionFactor)
         /\ Content(grow(t, n)) = Content(t)
         /\ Cardinality(DOMAIN grow(t, n)) <= Cardinality(DOMAIN t)
<1> DEFINE m == n * ExpansionFactor
           Below(i) == {s \in DOMAIN t : s < i}
<1>1. /\ DOMAIN t \subseteq 0 .. n - 1 /\ n \in Nat \ {0} /\ n >= 8
      /\ IsFiniteSet(DOMAIN t) /\ Cardinality(DOMAIN t) \in Nat
      /\ Cardinality(DOMAIN t) <= n - 2
  BY LoadedFacts DEF Probed
<1>2. m \in Nat /\ m >= 8 /\ m >= n
  BY <1>1 DEF ExpansionFactor
<1>3. PICK g : /\ g = [i \in 0 .. n |-> Rehash(t, n, i, g[i - 1])]
               /\ grow(t, n) = g[n]
  BY <1>1, RehashDefined
<1>4. \A i \in 0 .. n : g[i] = Rehash(t, n, i, g[i - 1])
  BY <1>3
<1> DEFINE Good(i) == /\ Probed(g[i], m)
                      /\ Content(g[i]) = {t[s] : s \in Below(i)}
                      /\ Cardinality(DOMAIN g[i]) = Cardinality(Below(i))
           T == {i \in Nat : i <= n /\ ~Good(i)}
<1>5. \A i \in 0 .. n : /\ IsFiniteSet(Below(i)) /\ Cardinality(Below(i)) \in Nat
                        /\ Cardinality(Below(i)) <= Cardinality(DOMAIN t)
  <2> TAKE i \in 0 .. n
  <2>1. Below(i) \in SUBSET DOMAIN t
    OBVIOUS
  <2> QED
    BY <1>1, <2>1, FS_Subset, FS_CardinalityType
<1>6. Good(0)
  <2>1. g[0] = Nothing
    BY <1>1, <1>4 DEF Rehash
  <2>2. DOMAIN g[0] = {} /\ Below(0) = {}
    BY <1>1, <2>1 DEF Nothing
  <2>3. Probed(g[0], m)
    BY <2>2 DEF Probed
  <2>4. Content(g[0]) = {t[s] : s \in Below(0)}
    <3> HIDE DEF Below
    <3> QED
      BY <2>2 DEF Content
  <2> QED
    BY <2>2, <2>3, <2>4
<1>7. ASSUME NEW i \in 1 .. n, Good(i - 1) PROVE Good(i)
  <2> DEFINE u == g[i - 1]
  <2>1. /\ Probed(u, m) /\ Content(u) = {t[s] : s \in Below(i - 1)}
        /\ Cardinality(DOMAIN u) = Cardinality(Below(i - 1))
    BY <1>7
  <2>2. i \in 0 .. n /\ i - 1 \in 0 .. n /\ i # 0
    BY <1>1
  <2>3. g[i] = IF i - 1 \in DOMAIN t THEN insertOne(u, m, t[i - 1]) ELSE u
    BY <1>4, <2>2 DEF Rehash
  <2> HIDE DEF u
  <2>4. CASE i - 1 \notin DOMAIN t
    <3>1. Below(i) = Below(i - 1)
      BY <1>1, <2>4
    <3> HIDE DEF Below
    <3> QED
      BY <2>1, <2>3, <2>4, <3>1
  <2>5. CASE i - 1 \in DOMAIN t
    <3> DEFINE e == t[i - 1]
    <3>1. Below(i) = Below(i - 1) \cup {i - 1} /\ i - 1 \notin Below(i - 1)
      BY <1>1, <2>5
    <3>2. Cardinality(Below(i)) = Cardinality(Below(i - 1)) + 1
      <4> HIDE DEF Below
      <4> QED
        BY <1>5, <2>2, <3>1, FS_AddElement
    <3>3. e.page \in Nat
      BY <2>5 DEF Probed
    <3>4. \A s \in DOMAIN u : u[s].page # e.page
      <4> SUFFICES ASSUME NEW s \in DOMAIN u, u[s].page = e.page PROVE FALSE
        OBVIOUS
      <4>1. PICK v \in Below(i - 1) : u[s] = t[v]
        BY <2>1 DEF Content
      <4>2. v \in DOMAIN t /\ v < i - 1 /\ t[v].page = t[i - 1].page
        BY <4>1
      <4>3. v = i - 1
        BY <2>5, <4>2 DEF Probed
      <4> QED
        BY <1>1, <2>5, <4>2, <4>3
    <3>5. Cardinality(DOMAIN u) <= m - 2
      <4>1. Cardinality(Below(i - 1)) <= Cardinality(DOMAIN t) /\ Cardinality(Below(i - 1)) \in Nat
        BY <1>5, <2>2
      <4> HIDE DEF Below, m
      <4> QED
        BY <1>1, <1>2, <2>1, <4>1
    <3> HIDE DEF e, m
    <3>6. /\ Probed(insertOne(u, m, e), m)
          /\ Content(insertOne(u, m, e)) = Content(u) \cup {e}
          /\ Cardinality(DOMAIN insertOne(u, m, e)) = Cardinality(DOMAIN u) + 1
      BY <1>2, <2>1, <3>3, <3>4, <3>5, InsertOneFacts
    <3>7. g[i] = insertOne(u, m, e)
      BY <2>3, <2>5 DEF e
    <3>8. {t[s] : s \in Below(i)} = {t[s] : s \in Below(i - 1)} \cup {e}
      <4> HIDE DEF Below
      <4> QED
        BY <3>1 DEF e
    <3> HIDE DEF Below
    <3> QED
      BY <2>1, <3>2, <3>6, <3>7, <3>8
  <2> QED
    BY <2>4, <2>5
<1>8. T = {}
  <2> SUFFICES ASSUME T # {} PROVE FALSE
    OBVIOUS
  <2>1. PICK i \in T : \A y \in T : i <= y
    BY Least
  <2>2. i \in Nat /\ i <= n /\ ~Good(i)
    OBVIOUS
  <2> HIDE DEF Good
  <2>3. i # 0
    BY <1>6, <2>2
  <2>4. i \in 1 .. n /\ i - 1 \in Nat /\ i - 1 <= n /\ ~(i <= i - 1)
    BY <1>1, <2>2, <2>3
  <2>5. Good(i - 1)
    BY <2>1, <2>4
  <2> QED
    BY <1>7, <2>2, <2>4, <2>5
<1>9. Good(n)
  <2> HIDE DEF Good
  <2> QED
    BY <1>1, <1>8
<1>10. Below(n) = DOMAIN t
  BY <1>1
<1>11. {t[s] : s \in Below(n)} = Content(t)
  <2> HIDE DEF Below
  <2> QED
    BY <1>10 DEF Content
<1>12. /\ Probed(g[n], m) /\ Content(g[n]) = Content(t)
       /\ Cardinality(DOMAIN g[n]) = Cardinality(DOMAIN t)
  <2> HIDE DEF Below, m
  <2> QED
    BY <1>9, <1>10, <1>11
<1>13. Cardinality(DOMAIN t) <= Cardinality(DOMAIN t)
  BY <1>1
<1> QED
  BY <1>3, <1>12, <1>13

\* insert adds the entry to a table that may have to grow first.
LEMMA InsertFacts ==
  ASSUME NEW tab, Probed(tab.t, tab.n), Loaded(tab.t, tab.n),
         NEW entry, entry.page \in Nat, \A s \in DOMAIN tab.t : tab.t[s].page # entry.page
  PROVE  /\ Probed(insert(tab, entry).t, insert(tab, entry).n)
         /\ Loaded(insert(tab, entry).t, insert(tab, entry).n)
         /\ Content(insert(tab, entry).t) = Content(tab.t) \cup {entry}
<1> DEFINE count == Cardinality(DOMAIN tab.t)
           grows == count + 1 > tab.n \div LOAD_FACTOR_RECIPROCAL
           n == IF grows THEN tab.n * ExpansionFactor ELSE tab.n
           t == IF grows THEN grow(tab.t, tab.n) ELSE tab.t
<1>1. insert(tab, entry) = [t |-> insertOne(t, n, entry), n |-> n]
  BY DEF insert
<1>2. insert(tab, entry).t = insertOne(t, n, entry) /\ insert(tab, entry).n = n
  BY <1>1
<1>3. /\ tab.n \in Nat \ {0} /\ tab.n >= 8 /\ count \in Nat /\ count <= tab.n - 2
      /\ 8 * count <= tab.n
  BY LoadedFacts DEF Probed, Loaded
<1>4. /\ Probed(t, n) /\ Content(t) = Content(tab.t) /\ Cardinality(DOMAIN t) <= count
  <2>1. CASE grows
    BY <2>1, GrowFacts
  <2>2. CASE ~grows
    <3>1. count <= count
      BY <1>3
    <3> QED
      BY <2>2, <3>1
  <2> QED
    BY <2>1, <2>2
<1>5. n \in Nat /\ n >= 8 /\ count <= n - 2 /\ 8 * (count + 1) <= n
  <2> HIDE DEF count
  <2>1. CASE grows
    <3>1. n = tab.n * 2
      BY <2>1 DEF ExpansionFactor
    <3> QED
      BY <1>3, <3>1
  <2>2. CASE ~grows
    <3>1. n = tab.n
      BY <2>2
    <3>2. count + 1 <= tab.n \div 8
      BY <1>3, <2>2 DEF LOAD_FACTOR_RECIPROCAL
    <3> QED
      BY <1>3, <3>1, <3>2
  <2> QED
    BY <2>1, <2>2
<1>6. Cardinality(DOMAIN t) \in Nat
  <2>1. DOMAIN t \subseteq 0 .. n - 1
    BY <1>4 DEF Probed
  <2>2. IsFiniteSet(0 .. n - 1)
    BY <1>5, FS_Interval
  <2> HIDE DEF t, n
  <2> QED
    BY <2>1, <2>2, FS_Subset, FS_CardinalityType
<1>7. \A s \in DOMAIN t : t[s].page # entry.page
  <2> SUFFICES ASSUME NEW s \in DOMAIN t, t[s].page = entry.page PROVE FALSE
    OBVIOUS
  <2> HIDE DEF t
  <2>1. PICK u \in DOMAIN tab.t : t[s] = tab.t[u]
    BY <1>4 DEF Content
  <2> QED
    BY <2>1
<1> HIDE DEF t, n, count
<1>8. Cardinality(DOMAIN t) <= n - 2
  BY <1>3, <1>4, <1>5, <1>6
<1>9. /\ Probed(insertOne(t, n, entry), n)
      /\ Content(insertOne(t, n, entry)) = Content(t) \cup {entry}
      /\ Cardinality(DOMAIN insertOne(t, n, entry)) = Cardinality(DOMAIN t) + 1
  BY <1>4, <1>5, <1>7, <1>8, InsertOneFacts
<1>10. Loaded(insertOne(t, n, entry), n)
  <2>1. 8 * (Cardinality(DOMAIN t) + 1) <= n
    BY <1>3, <1>4, <1>5, <1>6
  <2> QED
    BY <1>5, <1>9, <2>1 DEF Loaded
<1> QED
  BY <1>2, <1>4, <1>9, <1>10

\* The x-th entry that internalActivate makes, and the loops that insert them.
EntryNo(h, f, x) ==
  LET n == PagesPerObject(h[1])
      k == ((x - 1) \div n) + 1
  IN PageTableEntry(f[k] + ((x - 1) % n), h, IndexOfEntry(h[1], k))
InsertLoop(h, f, x, tab) ==
  IF x = 0 THEN [t |-> entries, n |-> size] ELSE insert(tab, EntryNo(h, f, x))

\* The loops give a table for every number of entries that they have made.
LEMMA InsertLoopDefined ==
  ASSUME NEW h, NEW f, Len(f) * PagesPerObject(h[1]) \in Nat
  PROVE  \E g : /\ g = [x \in 0 .. Len(f) * PagesPerObject(h[1]) |-> InsertLoop(h, f, x, g[x - 1])]
                /\ InsertAll(h, f) = g[Len(f) * PagesPerObject(h[1])]
<1> DEFINE n == Len(f) * PagesPerObject(h[1])
           Loop(m, g) == g = [x \in 0 .. m |-> InsertLoop(h, f, x, g[x - 1])]
           T == {m \in Nat : ~\E g : Loop(m, g)}
<1>1. T = {}
  <2> SUFFICES ASSUME T # {} PROVE FALSE
    OBVIOUS
  <2>1. PICK m \in T : \A y \in T : m <= y
    BY Least
  <2>2. CASE m = 0
    <3> DEFINE g == [x \in 0 .. 0 |-> [t |-> entries, n |-> size]]
    <3>1. Loop(0, g)
      BY DEF InsertLoop
    <3> QED
      BY <2>1, <2>2, <3>1
  <2>3. CASE m # 0
    <3>1. m \in Nat /\ m - 1 \in Nat /\ m - 1 \notin T
      <4>1. m \in Nat
        OBVIOUS
      <4>2. m - 1 \in Nat /\ ~(m <= m - 1)
        BY <2>3, <4>1
      <4> HIDE DEF T
      <4> QED
        BY <2>1, <4>1, <4>2
    <3>2. PICK g : Loop(m - 1, g)
      BY <3>1
    <3> DEFINE r == [x \in 0 .. m |-> IF x = m THEN InsertLoop(h, f, m, g[m - 1]) ELSE g[x]]
    <3>3. ASSUME NEW x \in 0 .. m PROVE r[x] = InsertLoop(h, f, x, r[x - 1])
      <4>1. CASE x = 0
        <5>1. 0 \in 0 .. m - 1 /\ x # m
          BY <2>3, <3>1, <4>1
        <5>2. r[x] = g[0]
          BY <4>1, <5>1
        <5>3. g[0] = InsertLoop(h, f, 0, g[0 - 1])
          BY <3>2, <5>1
        <5> QED
          BY <4>1, <5>2, <5>3 DEF InsertLoop
      <4>2. CASE x # 0
        <5>1. x - 1 \in 0 .. m - 1 /\ r[x - 1] = g[x - 1]
          BY <3>1, <4>2
        <5>2. x # m => r[x] = g[x] /\ g[x] = InsertLoop(h, f, x, g[x - 1])
          BY <3>1, <3>2
        <5> QED
          BY <5>1, <5>2
      <4> QED
        BY <4>1, <4>2
    <3>4. Loop(m, r)
      <4>1. r = [x \in 0 .. m |-> r[x]]
        OBVIOUS
      <4> HIDE DEF r
      <4> QED
        BY <3>3, <4>1
    <3> QED
      BY <2>1, <3>4
  <2> QED
    BY <2>2, <2>3
<1>2. \E g : Loop(n, g)
  BY <1>1
<1> DEFINE r == CHOOSE g : Loop(n, g)
<1>3. Loop(n, r)
  BY <1>2
<1>4. InsertAll(h, f) = r[n]
  BY DEF InsertAll, InsertLoop, EntryNo
<1> QED
  BY <1>3, <1>4

\* Numbering the pages of all runs one after the other reaches each once.
LEMMA EntryNumbers ==
  ASSUME NEW h, PagesPerObject(h[1]) \in Nat \ {0}, NEW m \in Nat,
         NEW f \in [1 .. m -> Nat]
  PROVE  /\ Len(f) = m /\ m * PagesPerObject(h[1]) \in Nat
         /\ \A x \in 1 .. m * PagesPerObject(h[1]) :
              \E k \in 1 .. m, p \in 0 .. PagesPerObject(h[1]) - 1 :
                /\ x = PagesPerObject(h[1]) * (k - 1) + p + 1
                /\ EntryNo(h, f, x) = PageTableEntry(f[k] + p, h, IndexOfEntry(h[1], k))
         /\ {EntryNo(h, f, x) : x \in 1 .. m * PagesPerObject(h[1])} = EntriesOf(h, f)
<1> DEFINE n == PagesPerObject(h[1])
           E(k, p) == PageTableEntry(f[k] + p, h, IndexOfEntry(h[1], k))
<1>1. DOMAIN f = 1 .. m /\ Len(f) = m
  OBVIOUS
<1>2. m * n \in Nat /\ m * n = n * m
  BY Z3
<1>3. ASSUME NEW x \in 1 .. m * n
      PROVE  \E k \in 1 .. m, p \in 0 .. n - 1 :
               x = n * (k - 1) + p + 1 /\ EntryNo(h, f, x) = E(k, p)
  <2> DEFINE q == (x - 1) \div n
             p == (x - 1) % n
  <2>1. x - 1 \in Nat /\ x - 1 < n * m
    BY <1>2
  <2>2. q \in Nat /\ p \in Nat /\ p < n /\ x - 1 = n * q + p
    BY <2>1, Division
  <2>3. EntryNo(h, f, x) = E(q + 1, p)
    BY DEF EntryNo
  <2> HIDE DEF q, p, E
  <2>4. n * q \in Int /\ n * m \in Int /\ (m <= q => n * m <= n * q)
    BY <1>2, <2>2, Factor
  <2> HIDE DEF n
  <2>5. q < m
    BY <2>1, <2>2, <2>4
  <2>6. q + 1 \in 1 .. m /\ p \in 0 .. n - 1 /\ (q + 1) - 1 = q
    BY <2>2, <2>5 DEF n
  <2>7. x = n * ((q + 1) - 1) + p + 1
    BY <2>1, <2>2, <2>4, <2>6
  <2> QED
    BY <2>3, <2>6, <2>7
<1>4. ASSUME NEW k \in 1 .. m, NEW p \in 0 .. n - 1
      PROVE  \E x \in 1 .. m * n : EntryNo(h, f, x) = E(k, p)
  <2> DEFINE q == k - 1
             x == n * q + p + 1
  <2>1. q \in Nat /\ p \in Nat /\ p < n /\ q < m /\ q + 1 = k
    OBVIOUS
  <2>2. n * q + p \in Nat /\ (n * q + p) \div n = q /\ (n * q + p) % n = p
    BY <2>1, Quotient
  <2>3. n * q \in Int /\ n * m \in Int /\ n * q + n <= n * m
    BY <1>2, <2>1, Factor
  <2>4. x - 1 = n * q + p /\ x \in 1 .. m * n
    <3> DEFINE u == n * q
    <3>1. u + p \in Nat /\ u \in Int /\ u + n <= m * n /\ x = u + p + 1
      BY <1>2, <2>2, <2>3
    <3> HIDE DEF u, x, q
    <3>2. x - 1 = u + p /\ x \in 1 .. m * n
      BY <1>2, <2>1, <3>1
    <3> QED
      BY <3>2 DEF u
  <2> HIDE DEF q, x
  <2>5. (x - 1) \div n = q /\ (x - 1) % n = p
    BY <2>2, <2>4
  <2>6. EntryNo(h, f, x) = E(k, p)
    BY <2>1, <2>5 DEF EntryNo
  <2> QED
    BY <2>4, <2>6
<1>5. \A e : e \in EntriesOf(h, f) <=> \E k \in 1 .. m, p \in 0 .. n - 1 : e = E(k, p)
  BY <1>1 DEF EntriesOf
<1>6. \A e : (\E x \in 1 .. m * n : e = EntryNo(h, f, x)) <=> e \in EntriesOf(h, f)
  <2> TAKE e
  <2>1. ASSUME NEW x \in 1 .. m * n, e = EntryNo(h, f, x) PROVE e \in EntriesOf(h, f)
    <3> HIDE DEF E, n
    <3> QED
      BY <1>3, <1>5, <2>1
  <2>2. ASSUME NEW k \in 1 .. m, NEW p \in 0 .. n - 1, e = E(k, p)
        PROVE  \E x \in 1 .. m * n : e = EntryNo(h, f, x)
    <3> HIDE DEF E, n
    <3> QED
      BY <1>4, <2>2
  <2> HIDE DEF E, n
  <2> QED
    BY <1>5, <2>1, <2>2
<1>7. {EntryNo(h, f, x) : x \in 1 .. m * n} = EntriesOf(h, f)
  BY <1>6
<1>8. \A x \in 1 .. m * n : \E k \in 1 .. m, p \in 0 .. n - 1 :
        x = n * (k - 1) + p + 1 /\ EntryNo(h, f, x) = E(k, p)
  <2> HIDE DEF E
  <2> QED
    BY <1>3
<1> QED
  BY <1>1, <1>2, <1>7, <1>8

\* The table after a miniheap got its pages has the old entries and the new.
LEMMA InsertAllFacts ==
  ASSUME Probed(entries, size), Loaded(entries, size),
         NEW h, PagesPerObject(h[1]) \in Nat \ {0}, NEW m \in Nat, NEW f \in [1 .. m -> Nat],
         \A k, l \in 1 .. m : k # l =>
           Run(f[k], PagesPerObject(h[1])) \cap Run(f[l], PagesPerObject(h[1])) = {},
         \A s \in DOMAIN entries : \A k \in 1 .. m :
           entries[s].page \notin Run(f[k], PagesPerObject(h[1]))
  PROVE  /\ Probed(InsertAll(h, f).t, InsertAll(h, f).n)
         /\ Loaded(InsertAll(h, f).t, InsertAll(h, f).n)
         /\ Content(InsertAll(h, f).t) = Content(entries) \cup EntriesOf(h, f)
<1> DEFINE n == PagesPerObject(h[1])
           z == m * n
           E(x) == EntryNo(h, f, x)
<1>1. /\ Len(f) = m /\ z \in Nat
      /\ \A x \in 1 .. z : \E k \in 1 .. m, p \in 0 .. n - 1 :
           /\ x = n * (k - 1) + p + 1
           /\ E(x) = PageTableEntry(f[k] + p, h, IndexOfEntry(h[1], k))
      /\ {E(x) : x \in 1 .. z} = EntriesOf(h, f)
  BY EntryNumbers
<1>2. ASSUME NEW x \in 1 .. z
      PROVE  \E k \in 1 .. m, p \in 0 .. n - 1 :
               /\ x = n * (k - 1) + p + 1 /\ E(x).page = f[k] + p
               /\ E(x).page \in Nat /\ E(x).page \in Run(f[k], n)
  <2>1. PICK k \in 1 .. m, p \in 0 .. n - 1 :
          /\ x = n * (k - 1) + p + 1
          /\ E(x) = PageTableEntry(f[k] + p, h, IndexOfEntry(h[1], k))
    BY <1>1
  <2>2. E(x).page = f[k] + p
    BY <2>1 DEF PageTableEntry
  <2>3. f[k] \in Nat /\ f[k] + p \in Nat /\ f[k] + p \in f[k] .. f[k] + n - 1
    OBVIOUS
  <2> HIDE DEF E, n
  <2> QED
    BY <2>1, <2>2, <2>3 DEF Run
<1>3. \A x, y \in 1 .. z : E(x).page = E(y).page => x = y
  <2> SUFFICES ASSUME NEW x \in 1 .. z, NEW y \in 1 .. z, E(x).page = E(y).page PROVE x = y
    OBVIOUS
  <2> HIDE DEF E
  <2>1. PICK k \in 1 .. m, p \in 0 .. n - 1 :
          x = n * (k - 1) + p + 1 /\ E(x).page = f[k] + p /\ E(x).page \in Run(f[k], n)
    BY <1>2
  <2>2. PICK l \in 1 .. m, q \in 0 .. n - 1 :
          y = n * (l - 1) + q + 1 /\ E(y).page = f[l] + q /\ E(y).page \in Run(f[l], n)
    BY <1>2
  <2>3. k = l
    BY <2>1, <2>2
  <2>4. f[k] \in Nat /\ f[k] + p = f[k] + q
    BY <2>1, <2>2, <2>3
  <2>5. p = q
    BY <2>4
  <2> QED
    BY <2>1, <2>2, <2>3, <2>5
<1>4. PICK g : /\ g = [x \in 0 .. z |-> InsertLoop(h, f, x, g[x - 1])]
               /\ InsertAll(h, f) = g[z]
  <2>1. Len(f) * n \in Nat /\ Len(f) * n = z
    BY <1>1
  <2>2. \E g : /\ g = [x \in 0 .. Len(f) * n |-> InsertLoop(h, f, x, g[x - 1])]
               /\ InsertAll(h, f) = g[Len(f) * n]
    BY <2>1, InsertLoopDefined
  <2> QED
    BY <2>1, <2>2
<1> HIDE DEF z
<1>5. \A x \in 0 .. z : g[x] = InsertLoop(h, f, x, g[x - 1])
  BY <1>4
<1> DEFINE Good(x) == /\ Probed(g[x].t, g[x].n) /\ Loaded(g[x].t, g[x].n)
                      /\ Content(g[x].t) = Content(entries) \cup {E(y) : y \in 1 .. x}
           T == {x \in Nat : x <= z /\ ~Good(x)}
<1>6. Good(0)
  <2>1. g[0] = [t |-> entries, n |-> size]
    BY <1>1, <1>5 DEF InsertLoop
  <2>2. g[0].t = entries /\ g[0].n = size
    BY <2>1
  <2>3. {E(y) : y \in 1 .. 0} = {}
    OBVIOUS
  <2> HIDE DEF E
  <2> QED
    BY <2>2, <2>3
<1>7. ASSUME NEW x \in 1 .. z, Good(x - 1) PROVE Good(x)
  <2> DEFINE tab == g[x - 1]
             S == {E(y) : y \in 1 .. x - 1}
  <2>1. /\ Probed(tab.t, tab.n) /\ Loaded(tab.t, tab.n)
        /\ Content(tab.t) = Content(entries) \cup S
    BY <1>7
  <2>2. g[x] = insert(tab, E(x))
    <3>1. x \in 0 .. z /\ x # 0
      BY <1>1
    <3> QED
      BY <1>5, <3>1 DEF InsertLoop
  <2>3. PICK k \in 1 .. m : E(x).page \in Nat /\ E(x).page \in Run(f[k], n)
    <3> HIDE DEF E
    <3> QED
      BY <1>2
  <2>4. ASSUME NEW s \in DOMAIN tab.t, tab.t[s].page = E(x).page PROVE FALSE
    <3> HIDE DEF tab, E
    <3>1. tab.t[s] \in Content(entries) \cup S
      BY <2>1 DEF Content
    <3>2. CASE tab.t[s] \in Content(entries)
      <4>1. PICK u \in DOMAIN entries : tab.t[s] = entries[u]
        BY <3>2 DEF Content
      <4> QED
        BY <2>3, <2>4, <4>1
    <3>3. CASE tab.t[s] \in S
      <4>1. PICK y \in 1 .. x - 1 : tab.t[s] = E(y)
        BY <3>3
      <4>2. y \in 1 .. z /\ y # x
        BY <1>1
      <4> QED
        BY <1>3, <2>4, <4>1, <4>2
    <3> QED
      BY <3>1, <3>2, <3>3
  <2> HIDE DEF tab, E, S
  <2>5. /\ Probed(insert(tab, E(x)).t, insert(tab, E(x)).n)
        /\ Loaded(insert(tab, E(x)).t, insert(tab, E(x)).n)
        /\ Content(insert(tab, E(x)).t) = Content(tab.t) \cup {E(x)}
    BY <2>1, <2>3, <2>4, InsertFacts
  <2>6. {E(y) : y \in 1 .. x} = S \cup {E(x)}
    <3>1. 1 .. x = 1 .. x - 1 \cup {x}
      BY <1>1
    <3> QED
      BY <3>1 DEF S
  <2> QED
    BY <2>1, <2>2, <2>5, <2>6
<1>8. T = {}
  <2> SUFFICES ASSUME T # {} PROVE FALSE
    OBVIOUS
  <2>1. PICK x \in T : \A y \in T : x <= y
    BY Least
  <2>2. x \in Nat /\ x <= z /\ ~Good(x)
    OBVIOUS
  <2> HIDE DEF Good
  <2>3. x # 0
    BY <1>6, <2>2
  <2>4. x \in 1 .. z /\ x - 1 \in Nat /\ x - 1 <= z /\ ~(x <= x - 1)
    BY <1>1, <2>2, <2>3
  <2>5. Good(x - 1)
    BY <2>1, <2>4
  <2> QED
    BY <1>7, <2>2, <2>4, <2>5
<1>9. Good(z)
  <2>1. z \in Nat /\ z <= z
    BY <1>1
  <2> HIDE DEF Good
  <2>2. ~Good(z) => z \in T
    BY <2>1
  <2> QED
    BY <1>8, <2>2
<1> HIDE DEF E
<1> QED
  BY <1>1, <1>4, <1>9

-----------------------------------------------------------------------------
(* Objects and pages *)

\* The r-th unit of a run of n pages from q on.
LEMMA UnitOfRun ==
  ASSUME NEW P \in Nat \ {0}, NEW q \in Nat, NEW n \in Nat, NEW r \in Nat,
         r < P * n
  PROVE  /\ P * q + r \in Nat /\ r \div P \in Nat /\ r \div P < n
         /\ (P * q + r) \div P = q + (r \div P)
<1> DEFINE p == r \div P
           y == r % P
<1>1. p \in Nat /\ y \in Nat /\ y < P /\ r = P * p + y
  BY Division
<1> HIDE DEF p, y
<1>2. P * p \in Int /\ P * n \in Int /\ (n <= p => P * n <= P * p)
  BY <1>1, Factor
<1>3. p < n
  BY <1>1, <1>2
<1>4. P * q + r = P * (q + p) + y
  <2>1. P * (q + p) = P * q + P * p
    BY <1>1, Z3
  <2>2. P * q \in Int
    BY Factor
  <2> QED
    BY <1>1, <1>2, <2>1, <2>2
<1>5. P * (q + p) + y \in Nat /\ (P * (q + p) + y) \div P = q + p
  <2>1. q + p \in Nat
    BY <1>1
  <2> QED
    BY <1>1, <2>1, Quotient
<1> QED
  BY <1>1, <1>3, <1>4, <1>5 DEF p

\* The classes, in terms of the size of a page.
LEMMA ClassFacts ==
  ASSUME DieHarderSized
  PROVE  /\ PageSize \in Nat \ {0} /\ MaxSize \in Nat \ {0} /\ Class \subseteq Nat
         /\ \A c \in Class :
              /\ getClassSize(c) \in Nat \ {0}
              /\ ObjectsPerPage(c) \in Nat \ {0} /\ PagesPerObject(c) \in Nat \ {0}
              /\ getClassSize(c) <= PageSize =>
                   PageSize = getClassSize(c) * ObjectsPerPage(c) /\ PagesPerObject(c) = 1
              /\ getClassSize(c) > PageSize =>
                   getClassSize(c) = PageSize * PagesPerObject(c) /\ ObjectsPerPage(c) = 1
         /\ \A need \in Nat : need <= MaxSize =>
              getIndex(need) \in Class /\ need <= getClassSize(getIndex(need))
<1>1. PICK ps \in Nat : PageSize = 2 ^ ps
  BY DEF DieHarderSized
<1>2. PICK ms \in Nat : MaxSize = 2 ^ ms
  BY DEF DieHarderSized
<1>3. PageSize \in Nat \ {0} /\ MaxSize \in Nat \ {0}
  BY <1>1, <1>2, PowerOfTwo
<1>4. log2(MaxSize) \in 0 .. ms /\ MaxSize <= 2 ^ log2(MaxSize)
  <2>1. MaxSize <= 2 ^ ms
    BY <1>2, <1>3
  <2> QED
    BY <1>3, <2>1, LogFacts
<1>5. Class = 0 .. log2(MaxSize) /\ log2(MaxSize) \in Nat /\ Class \subseteq Nat
  <2>1. log2(MaxSize) \in Nat
    BY <1>4
  <2>2. Class = 0 .. (log2(MaxSize) + 1) - 1
    BY DEF Class, MAX_INDEX
  <2> HIDE DEF log2
  <2> QED
    BY <2>1, <2>2
<1>6. ASSUME NEW c \in Class
      PROVE  /\ getClassSize(c) \in Nat \ {0}
             /\ ObjectsPerPage(c) \in Nat \ {0} /\ PagesPerObject(c) \in Nat \ {0}
             /\ getClassSize(c) <= PageSize =>
                  PageSize = getClassSize(c) * ObjectsPerPage(c) /\ PagesPerObject(c) = 1
             /\ getClassSize(c) > PageSize =>
                  getClassSize(c) = PageSize * PagesPerObject(c) /\ ObjectsPerPage(c) = 1
  <2> DEFINE sz == getClassSize(c)
  <2>1. c \in Nat /\ sz = 2 ^ c /\ sz \in Nat \ {0}
    BY <1>5, PowerOfTwo DEF getClassSize
  <2> HIDE DEF sz
  <2>2. CASE sz <= PageSize
    <3>1. c <= ps
      <4>1. ps < c => ps + 1 <= c /\ ps + 1 \in Nat
        BY <2>1
      <4>2. ps < c => 2 ^ (ps + 1) <= 2 ^ c
        BY <2>1, <4>1, PowerMonotone
      <4>3. 2 ^ (ps + 1) = 2 * 2 ^ ps
        BY PowerOfTwo
      <4>4. \A x, y \in Nat \ {0} : 2 * y <= x => ~(x <= y)
        OBVIOUS
      <4> QED
        BY <1>1, <1>3, <2>1, <2>2, <4>2, <4>3, <4>4
    <3>2. PICK k \in Nat \ {0} : PageSize = sz * k
      BY <1>1, <2>1, <3>1, PowersDivide
    <3>3. ObjectsPerPage(c) = PageSize \div sz /\ PagesPerObject(c) = 1
      BY <2>2 DEF ObjectsPerPage, PagesPerObject, sz
    <3>4. PageSize \div sz = k
      <4>1. (sz * k + 0) \div sz = k /\ sz * k \in Int
        BY <2>1, Quotient, Factor
      <4> QED
        BY <3>2, <4>1
    <3> QED
      BY <1>3, <2>1, <2>2, <3>2, <3>3, <3>4 DEF sz
  <2>3. CASE sz > PageSize
    <3>1. ps <= c
      <4>1. c < ps => 2 ^ c <= 2 ^ ps
        BY <2>1, PowerMonotone
      <4> QED
        BY <1>1, <1>3, <2>1, <2>3, <4>1
    <3>2. PICK k \in Nat \ {0} : sz = PageSize * k
      BY <1>1, <2>1, <3>1, PowersDivide
    <3>3. ~(sz <= PageSize)
      BY <1>3, <2>1, <2>3
    <3>4. ObjectsPerPage(c) = 1 /\ PagesPerObject(c) = sz \div PageSize
      BY <3>3 DEF ObjectsPerPage, PagesPerObject, sz
    <3>5. sz \div PageSize = k
      <4>1. (PageSize * k + 0) \div PageSize = k /\ PageSize * k \in Int
        BY <1>3, Quotient, Factor
      <4> QED
        BY <3>2, <4>1
    <3> QED
      BY <1>3, <2>1, <3>2, <3>3, <3>4, <3>5 DEF sz
  <2> QED
    BY <1>3, <2>1, <2>2, <2>3
<1>7. ASSUME NEW need \in Nat, need <= MaxSize
      PROVE  getIndex(need) \in Class /\ need <= getClassSize(getIndex(need))
  <2> DEFINE m == log2(MaxSize)
  <2>1. m \in Nat /\ MaxSize <= 2 ^ m /\ Class = 0 .. m
    BY <1>4, <1>5
  <2> HIDE DEF m
  <2>2. need <= 2 ^ m
    <3>1. 2 ^ m \in Nat
      BY <2>1, PowerOfTwo
    <3> QED
      BY <1>3, <1>7, <2>1, <3>1
  <2>3. log2(need) \in 0 .. m /\ need <= 2 ^ log2(need)
    BY <2>1, <2>2, LogFacts
  <2> QED
    BY <2>1, <2>3 DEF getIndex, getClassSize
<1> QED
  BY <1>3, <1>5, <1>6, <1>7

\* A miniheap has a page for each of its objects.
LEMMA MiniHeapFacts ==
  ASSUME DieHarderSized, NEW h \in Class \X Nat
  PROVE  /\ NObjects(h) \in Nat /\ NumEntries(h) \in Nat
         /\ \A i \in 0 .. NObjects(h) - 1 :
              (i \div ObjectsPerPage(h[1])) + 1 \in 1 .. NumEntries(h)
<1> DEFINE c == h[1]
           sz == getClassSize(c)
           O == ObjectsPerPage(c)
           big0 == (Numerator * sz) \div Denominator
           most == LargerOf(MaxSize, big0)
<1>1. c \in Class /\ h[2] \in Nat
  OBVIOUS
<1>2. sz \in Nat \ {0} /\ O \in Nat \ {0} /\ MaxSize \in Nat
  BY <1>1, ClassFacts
<1>3. big0 \in Nat
  <2>1. Numerator \in Nat /\ Denominator \in Nat \ {0}
    BY DEF DieHarderSized
  <2> HIDE DEF sz
  <2>2. Numerator * sz \in Nat
    BY <1>2, <2>1, Z3
  <2> QED
    BY <2>1, <2>2, Division
<1>4. most \in Nat
  BY <1>2, <1>3 DEF LargerOf
<1>5. MIN_OBJECTS(c) \in Nat
  <2>1. MIN_OBJECTS(c) = most \div sz
    BY DEF MIN_OBJECTS
  <2> HIDE DEF most, sz
  <2> QED
    BY <1>2, <1>4, <2>1, Division
<1>6. NObjects(h) \in Nat
  <2> DEFINE min == MIN_OBJECTS(c)
             i == h[2]
  <2>1. NObjects(h) = IF i = 0 THEN min ELSE min * 2 ^ (i - 1)
    BY DEF NObjects, MiniHeapObjects
  <2>2. min \in Nat /\ i \in Nat
    BY <1>1, <1>5
  <2> HIDE DEF min, i
  <2>3. i # 0 => 2 ^ (i - 1) \in Nat
    BY <2>2, PowerOfTwo
  <2>4. \A x, y \in Nat : x * y \in Nat
    BY Z3
  <2> QED
    BY <2>1, <2>2, <2>3, <2>4
<1> DEFINE m == NObjects(h)
           v == m + O - 1
           w == v \div O
<1>7. v \in Nat
  <2> HIDE DEF O, m
  <2> QED
    BY <1>2, <1>6 DEF m
<1>8. NumEntries(h) = w
  BY DEF NumEntries
<1>9. w \in Nat /\ v % O \in Nat /\ v % O < O /\ v = O * w + (v % O)
  <2> HIDE DEF v, O
  <2> QED
    BY <1>2, <1>7, Division
<1>10. ASSUME NEW i \in 0 .. m - 1 PROVE (i \div O) + 1 \in 1 .. w
  <2> DEFINE x == i \div O
             y == i % O
             z == v % O
  <2> HIDE DEF O, w, z
  <2>1. x \in Nat /\ y \in Nat /\ y < O /\ i = O * x + y
    BY <1>2, Division
  <2>2. w \in Nat /\ z \in Nat /\ z < O /\ m + O - 1 = O * w + z
    BY <1>9 DEF z
  <2> HIDE DEF x, y
  <2>3. /\ O * x \in Int /\ O * w \in Int /\ (w <= x => O * w <= O * x)
    BY <1>2, <2>1, <2>2, Factor
  <2>4. i <= m - 1 /\ m \in Nat
    BY <1>6
  <2> HIDE DEF m
  <2>5. x < w
    BY <1>2, <2>1, <2>2, <2>3, <2>4
  <2> QED
    BY <2>1, <2>2, <2>5 DEF x
<1> QED
  BY <1>6, <1>8, <1>9, <1>10

\* Every unit of an object is on a page of the object's run, and the entry of
\* that page gives the index of the object.
LEMMA ObjectPlace ==
  ASSUME DieHarderSized, PagesInv, NEW h \in DOMAIN pages,
         NEW i \in 0 .. NObjects(h) - 1
  PROVE  LET k == (i \div ObjectsPerPage(h[1])) + 1 IN
         /\ k \in DOMAIN pages[h] /\ getObject(h, i) \in Nat
         /\ \A a \in Run(getObject(h, i), getClassSize(h[1])) :
              /\ a \in Nat /\ computePageNumber(a) \in RunOf(h, k)
              /\ computeIndex(PageTableEntry(computePageNumber(a), h, IndexOfEntry(h[1], k)), a) = i
              /\ getClassSize(h[1]) < PageSize =>
                   a % getClassSize(h[1]) = a - getObject(h, i)
<1> DEFINE c == h[1]
           sz == getClassSize(c)
           O == ObjectsPerPage(c)
           n == PagesPerObject(c)
           k == (i \div O) + 1
           q == pages[h][k]
<1>1. h \in Class \X Nat /\ c \in Class
  BY DEF PagesInv
<1>2. /\ sz \in Nat \ {0} /\ O \in Nat \ {0} /\ n \in Nat \ {0} /\ PageSize \in Nat \ {0}
      /\ sz <= PageSize => PageSize = sz * O /\ n = 1
      /\ sz > PageSize => sz = PageSize * n /\ O = 1
  BY <1>1, ClassFacts
<1>3. k \in DOMAIN pages[h] /\ q \in Nat /\ i \in Nat
  <2>1. NObjects(h) \in Nat /\ k \in 1 .. NumEntries(h)
    BY <1>1, MiniHeapFacts
  <2>2. pages[h] \in [1 .. NumEntries(h) -> PageNumbers]
    BY DEF PagesInv
  <2>3. PageNumbers \subseteq Nat
    BY DEF DieHarderSized
  <2>4. i \in Nat
    BY <2>1
  <2> HIDE DEF k
  <2>5. k \in DOMAIN pages[h] /\ pages[h][k] \in Nat
    BY <2>1, <2>2, <2>3
  <2> QED
    BY <2>4, <2>5
<1>4. getObject(h, i) = q * PageSize + (IF sz > PageSize THEN 0 ELSE (i % O) * sz)
  BY DEF getObject, getPageFromIndex
<1>5. RunOf(h, k) = q .. q + n - 1
  BY DEF RunOf, Run
<1>6. \A b, d \in Nat : b * d = d * b /\ b * d \in Nat
  BY Z3
<1>7. \A p, a : computeIndex(PageTableEntry(p, h, IndexOfEntry(c, k)), a) =
                  IF O = 1 THEN (k - 1) * O ELSE (k - 1) * O + ((a % PageSize) \div sz)
  BY DEF computeIndex, PageTableEntry, IndexOfEntry
<1> DEFINE x == i \div O
           j == i % O
<1>8. x \in Nat /\ j \in Nat /\ j < O /\ i = O * x + j /\ k - 1 = x
  <2> HIDE DEF O
  <2>1. x \in Nat /\ j \in Nat /\ j < O /\ i = O * x + j
    BY <1>2, <1>3, Division
  <2> HIDE DEF x
  <2> QED
    BY <2>1 DEF x
<1>9. (k - 1) * O = O * x /\ O * x \in Nat
  <2> HIDE DEF x, O
  <2>1. O * x \in Nat /\ x * O = O * x
    BY <1>2, <1>6, <1>8
  <2> QED
    BY <1>8, <2>1
<1> HIDE DEF x, j, k, O, n, sz, q
<1> DEFINE Good(a) ==
             /\ a \in Nat /\ a \div PageSize \in q .. q + n - 1
             /\ i = IF O = 1 THEN O * x ELSE O * x + ((a % PageSize) \div sz)
             /\ sz < PageSize => a % sz = a - getObject(h, i)
<1>10. CASE sz <= PageSize
  <2>1. PageSize = sz * O /\ n = 1
    BY <1>2, <1>10
  <2>2. getObject(h, i) = PageSize * q + sz * j
    <3>1. ~(sz > PageSize)
      BY <1>2, <1>10
    <3>2. q * PageSize = PageSize * q /\ j * sz = sz * j
      BY <1>2, <1>3, <1>8, <1>6
    <3> QED
      BY <1>4, <3>1, <3>2 DEF j
  <2>3. PageSize * q \in Nat /\ sz * j \in Nat
    BY <1>2, <1>3, <1>8, <1>6
  <2>4. ASSUME NEW a \in Run(getObject(h, i), sz) PROVE Good(a)
    <3> DEFINE r == a - (PageSize * q + sz * j)
    <3>1. a \in PageSize * q + sz * j .. PageSize * q + sz * j + sz - 1
      BY <2>2 DEF Run
    <3>2. r \in Nat /\ r < sz /\ a = PageSize * q + (sz * j + r)
      BY <1>2, <2>3, <3>1
    <3>3. a - getObject(h, i) = r
      BY <2>2
    <3> HIDE DEF r
    <3>4. /\ a \in Nat /\ a \div PageSize = q /\ (a % PageSize) \div sz = j /\ a % sz = r
      <4> HIDE DEF Good
      <4> DEFINE y == sz * j + r
                 w == O * q + j
      <4>1. y \in Nat /\ y \div sz = j
        BY <1>2, <1>8, <3>2, Quotient
      <4>2. y < PageSize
        <5>1. sz * j \in Int /\ sz * O \in Int /\ sz * j + sz <= sz * O
          BY <1>2, <1>8, Factor
        <5> QED
          BY <1>2, <2>1, <3>2, <5>1
      <4>3. a = PageSize * q + y
        BY <3>2
      <4>4. w \in Nat /\ a = sz * w + r
        <5>1. \A b, d, u, v, m \in Nat : /\ d * u + v \in Nat
                                         /\ (b * d) * u + (b * v + m) = b * (d * u + v) + m
          BY Z3
        <5> QED
          BY <1>2, <1>3, <1>8, <2>1, <3>2, <5>1
      <4> HIDE DEF y, w
      <4>5. /\ PageSize * q + y \in Nat /\ (PageSize * q + y) \div PageSize = q
            /\ (PageSize * q + y) % PageSize = y
        BY <1>2, <1>3, <4>1, <4>2, Quotient
      <4>6. (sz * w + r) % sz = r
        BY <1>2, <3>2, <4>4, Quotient
      <4> QED
        BY <4>1, <4>3, <4>4, <4>5, <4>6
    <3>5. q \in q .. q + n - 1
      BY <1>3, <2>1
    <3>6. O = 1 => j = 0
      BY <1>8
    <3> QED
      BY <1>8, <1>9, <3>3, <3>4, <3>5, <3>6
  <2>5. getObject(h, i) \in Nat
    BY <2>2, <2>3
  <2> QED
    BY <1>3, <1>5, <1>7, <1>9, <2>4, <2>5 DEF computePageNumber, k, sz, O
<1>11. CASE sz > PageSize
  <2>1. sz = PageSize * n /\ O = 1 /\ ~(sz < PageSize)
    BY <1>2, <1>11
  <2>2. getObject(h, i) = PageSize * q /\ PageSize * q \in Nat
    <3>1. q * PageSize = PageSize * q /\ PageSize * q \in Nat
      BY <1>2, <1>3, <1>6
    <3> QED
      BY <1>4, <1>11, <3>1
  <2>3. ASSUME NEW a \in Run(getObject(h, i), sz) PROVE Good(a)
    <3> DEFINE r == a - PageSize * q
    <3>1. a \in PageSize * q .. PageSize * q + sz - 1
      BY <2>2 DEF Run
    <3>2. r \in Nat /\ r < sz /\ a = PageSize * q + r
      BY <1>2, <2>2, <3>1
    <3> HIDE DEF r
    <3>3. /\ a \in Nat /\ r \div PageSize \in Nat /\ r \div PageSize < n
          /\ a \div PageSize = q + (r \div PageSize)
      <4>1. r < PageSize * n
        BY <2>1, <3>2
      <4>2. /\ PageSize * q + r \in Nat /\ r \div PageSize \in Nat /\ r \div PageSize < n
            /\ (PageSize * q + r) \div PageSize = q + (r \div PageSize)
        BY <1>2, <1>3, <3>2, <4>1, UnitOfRun
      <4> QED
        BY <3>2, <4>2
    <3>4. a \div PageSize \in q .. q + n - 1
      BY <1>2, <1>3, <3>3
    <3>5. i = O * x
      BY <1>8, <2>1
    <3> QED
      BY <2>1, <3>3, <3>4, <3>5
  <2>4. getObject(h, i) \in Nat
    BY <2>2
  <2> QED
    BY <1>3, <1>5, <1>7, <1>9, <2>3, <2>4 DEF computePageNumber, k, sz, O
<1> QED
  BY <1>2, <1>10, <1>11

\* The page table gives the miniheap and the index of each page of a miniheap,
\* and nothing for any other page.
LEMMA EntryFacts ==
  ASSUME DieHarderSized, TableInv, PagesInv
  PROVE  /\ \A h \in DOMAIN pages : \A k \in DOMAIN pages[h] : \A q \in RunOf(h, k) :
              getEntry(q) = PageTableEntry(q, h, IndexOfEntry(h[1], k))
         /\ \A q \in Nat :
              (\A h \in DOMAIN pages : \A k \in DOMAIN pages[h] : q \notin RunOf(h, k)) =>
                getEntry(q) = Nothing
<1>1. ASSUME NEW h \in DOMAIN pages, NEW k \in DOMAIN pages[h]
      PROVE  /\ pages[h][k] \in Nat /\ PagesPerObject(h[1]) \in Nat \ {0}
             /\ RunOf(h, k) = pages[h][k] .. pages[h][k] + PagesPerObject(h[1]) - 1
             /\ RunOf(h, k) \subseteq Nat
  <2>1. h[1] \in Class /\ pages[h] \in [1 .. NumEntries(h) -> PageNumbers]
    BY DEF PagesInv
  <2>2. pages[h][k] \in Nat
    BY <2>1 DEF DieHarderSized
  <2>3. PagesPerObject(h[1]) \in Nat \ {0}
    BY <2>1, ClassFacts
  <2> QED
    BY <2>2, <2>3 DEF RunOf, Run
<1>2. ASSUME NEW h \in DOMAIN pages, NEW k \in DOMAIN pages[h], NEW q \in RunOf(h, k)
      PROVE  getEntry(q) = PageTableEntry(q, h, IndexOfEntry(h[1], k))
  <2> DEFINE e == PageTableEntry(q, h, IndexOfEntry(h[1], k))
             p == q - pages[h][k]
  <2>1. q \in Nat /\ p \in 0 .. PagesPerObject(h[1]) - 1 /\ pages[h][k] + p = q
    BY <1>1
  <2>2. e \in EntriesOf(h, pages[h])
    <3> HIDE DEF p
    <3> QED
      BY <2>1 DEF EntriesOf
  <2>3. e \in Content(entries)
    BY <2>2 DEF TableInv
  <2>4. e.page = q
    BY DEF PageTableEntry
  <2> HIDE DEF e
  <2>5. PICK s \in DOMAIN entries : entries[s] = e
    BY <2>3 DEF Content
  <2>6. getEntry(q) = entries[s]
    BY <2>1, <2>4, <2>5, FindFacts DEF TableInv
  <2> QED
    BY <2>5, <2>6 DEF e
<1>3. ASSUME NEW q \in Nat,
             \A h \in DOMAIN pages : \A k \in DOMAIN pages[h] : q \notin RunOf(h, k)
      PROVE  getEntry(q) = Nothing
  <2>1. \A s \in DOMAIN entries : entries[s].page # q
    <3> SUFFICES ASSUME NEW s \in DOMAIN entries, entries[s].page = q PROVE FALSE
      OBVIOUS
    <3>1. entries[s] \in UNION {EntriesOf(h, pages[h]) : h \in DOMAIN pages}
      BY DEF TableInv, Content
    <3>2. PICK h \in DOMAIN pages : entries[s] \in EntriesOf(h, pages[h])
      BY <3>1
    <3>3. PICK k \in DOMAIN pages[h], p \in 0 .. PagesPerObject(h[1]) - 1 :
            entries[s] = PageTableEntry(pages[h][k] + p, h, IndexOfEntry(h[1], k))
      BY <3>2 DEF EntriesOf
    <3>4. q = pages[h][k] + p
      BY <3>3 DEF PageTableEntry
    <3>5. q \in RunOf(h, k)
      BY <1>1, <3>4
    <3> QED
      BY <1>3, <3>5
  <2> QED
    BY <2>1, FindFacts DEF TableInv
<1> QED
  BY <1>2, <1>3

\* An entry is not Nothing.
LEMMA EntryIsSomething ==
  ASSUME NEW p, NEW h, NEW i
  PROVE  PageTableEntry(p, h, i) # Nothing
<1>1. "page" \in DOMAIN PageTableEntry(p, h, i) /\ DOMAIN Nothing = {}
  BY DEF PageTableEntry, Nothing
<1> QED
  BY <1>1

\* The address of an object tells its slot.
LEMMA ObjectFound ==
  ASSUME DieHarderSized, TableInv, PagesInv,
         NEW h \in DOMAIN pages, NEW i \in 0 .. NObjects(h) - 1,
         NEW a \in Run(getObject(h, i), getClassSize(h[1]))
  PROVE  /\ a \in Nat /\ getEntry(computePageNumber(a)) # Nothing
         /\ getEntry(computePageNumber(a)).heap = h
         /\ computeIndex(getEntry(computePageNumber(a)), a) = i
<1> DEFINE k == (i \div ObjectsPerPage(h[1])) + 1
           q == computePageNumber(a)
<1>1. /\ k \in DOMAIN pages[h] /\ a \in Nat /\ q \in RunOf(h, k)
      /\ computeIndex(PageTableEntry(q, h, IndexOfEntry(h[1], k)), a) = i
  BY ObjectPlace
<1> HIDE DEF k, q
<1>2. getEntry(q) = PageTableEntry(q, h, IndexOfEntry(h[1], k))
  BY <1>1, EntryFacts
<1>3. getEntry(q).heap = h
  BY <1>2 DEF PageTableEntry
<1>4. getEntry(q) # Nothing
  BY <1>2, EntryIsSomething
<1> QED
  BY <1>1, <1>2, <1>3, <1>4 DEF q

\* The table never gives a miniheap for an object of the LargeHeap.
LEMMA BigNotFound ==
  ASSUME DieHarderSized, TableInv, PagesInv, NEW a \in DOMAIN big,
         computePageNumber(a) \in Nat
  PROVE  getEntry(computePageNumber(a)) = Nothing
BY EntryFacts DEF PagesInv

\* An address on a page of a miniheap is in the object whose index the entry of
\* the page gives.
LEMMA AddressPlace ==
  ASSUME DieHarderSized, TableInv, PagesInv, NEW a \in Nat,
         NEW h \in DOMAIN pages, NEW k \in DOMAIN pages[h], computePageNumber(a) \in RunOf(h, k),
         NEW i, i = computeIndex(getEntry(computePageNumber(a)), a)
  PROVE  /\ getEntry(computePageNumber(a)).heap = h /\ i \in Nat
         /\ a \in Run(getObject(h, i), getClassSize(h[1]))
<1> DEFINE c == h[1]
           sz == getClassSize(c)
           O == ObjectsPerPage(c)
           n == PagesPerObject(c)
           q == pages[h][k]
           p == computePageNumber(a)
<1>1. c \in Class /\ q \in Nat /\ k \in Nat \ {0}
  <2>1. pages[h] \in [1 .. NumEntries(h) -> PageNumbers] /\ h \in Class \X Nat
    BY DEF PagesInv
  <2>2. NumEntries(h) \in Nat
    BY <2>1, MiniHeapFacts
  <2>3. q \in PageNumbers /\ k \in 1 .. NumEntries(h) /\ PageNumbers \subseteq Nat
    BY <2>1 DEF DieHarderSized
  <2> HIDE DEF q
  <2>4. q \in Nat /\ k \in Nat \ {0}
    BY <2>2, <2>3
  <2> QED
    BY <2>1, <2>4
<1>2. /\ sz \in Nat \ {0} /\ O \in Nat \ {0} /\ n \in Nat \ {0} /\ PageSize \in Nat \ {0}
      /\ sz <= PageSize => PageSize = sz * O /\ n = 1
      /\ sz > PageSize => sz = PageSize * n /\ O = 1
  BY <1>1, ClassFacts
<1>3. getEntry(p) = PageTableEntry(p, h, IndexOfEntry(c, k))
  BY EntryFacts
<1>4. getEntry(p).heap = h
  BY <1>3 DEF PageTableEntry
<1>5. i = IF O = 1 THEN (k - 1) * O ELSE (k - 1) * O + ((a % PageSize) \div sz)
  BY <1>3 DEF computeIndex, PageTableEntry, IndexOfEntry
<1>6. p \in q .. q + n - 1 /\ p = a \div PageSize
  BY DEF RunOf, Run, computePageNumber
<1>7. \A b, d \in Nat : b * d = d * b /\ b * d \in Nat
  BY Z3
<1>8. getObject(h, i) = pages[h][(i \div O) + 1] * PageSize
                          + (IF sz > PageSize THEN 0 ELSE (i % O) * sz)
  BY DEF getObject, getPageFromIndex
<1> HIDE DEF O, sz, n, p, q
<1> DEFINE x == k - 1
<1>9. x \in Nat /\ x + 1 = k /\ O * x \in Nat /\ x * O = O * x
  <2>1. x \in Nat /\ x + 1 = k
    BY <1>1
  <2> HIDE DEF x
  <2> QED
    BY <1>2, <1>7, <2>1
<1> HIDE DEF x
<1>10. CASE sz <= PageSize
  <2>1. PageSize = sz * O /\ n = 1 /\ ~(sz > PageSize)
    BY <1>2, <1>10
  <2>2. p = q
    BY <1>1, <1>6, <2>1
  <2> DEFINE j == (a % PageSize) \div sz
             r == (a % PageSize) % sz
  <2>3. /\ j \in Nat /\ j < O /\ r \in Nat /\ r < sz
        /\ a = PageSize * p + (sz * j + r)
    <3> DEFINE y == a % PageSize
    <3>1. y \in Nat /\ y < PageSize /\ a = PageSize * p + y
      BY <1>2, <1>6, Division
    <3> HIDE DEF y
    <3>2. /\ y \div sz \in Nat /\ y % sz \in Nat /\ y % sz < sz
          /\ y = sz * (y \div sz) + (y % sz)
      BY <1>2, <3>1, Division
    <3>3. j = y \div sz /\ r = y % sz
      BY DEF y
    <3> HIDE DEF j, r
    <3>4. j \in Nat /\ r \in Nat /\ r < sz /\ y = sz * j + r
      BY <3>2, <3>3
    <3>5. sz * j \in Int /\ sz * O \in Int /\ (O <= j => sz * O <= sz * j)
      BY <1>2, <3>4, Factor
    <3>6. j < O
      BY <1>2, <2>1, <3>1, <3>4, <3>5
    <3> QED
      BY <3>1, <3>4, <3>6
  <2> HIDE DEF j, r
  <2>4. i = O * x + j
    <3>1. O = 1 => j = 0
      BY <2>3
    <3>2. i = IF O = 1 THEN O * x ELSE O * x + j
      BY <1>5, <1>9 DEF j, x
    <3> QED
      BY <1>9, <2>3, <3>1, <3>2
  <2>5. i \in Nat /\ i \div O = x /\ i % O = j
    <3>1. O * x + j \in Nat /\ (O * x + j) \div O = x /\ (O * x + j) % O = j
      BY <1>2, <1>9, <2>3, Quotient
    <3> QED
      BY <2>4, <3>1
  <2>6. getObject(h, i) = PageSize * q + sz * j /\ PageSize * q \in Nat /\ sz * j \in Nat
    <3>1. pages[h][(i \div O) + 1] = q
      BY <1>9, <2>5 DEF q
    <3>2. q * PageSize = PageSize * q /\ j * sz = sz * j /\ PageSize * q \in Nat /\ sz * j \in Nat
      BY <1>1, <1>2, <1>7, <2>3
    <3> QED
      BY <1>8, <2>1, <2>5, <3>1, <3>2
  <2>7. a = getObject(h, i) + r /\ getObject(h, i) \in Nat
    BY <2>2, <2>3, <2>6
  <2>8. a \in Run(getObject(h, i), sz)
    BY <1>2, <2>3, <2>7 DEF Run
  <2> QED
    BY <1>4, <2>5, <2>8 DEF p, sz
<1>11. CASE sz > PageSize
  <2>1. sz = PageSize * n /\ O = 1
    BY <1>2, <1>11
  <2>2. i = x /\ i \in Nat /\ i \div O = x
    BY <1>5, <1>9, <2>1 DEF x
  <2>3. getObject(h, i) = PageSize * q /\ PageSize * q \in Nat
    <3>1. pages[h][(i \div O) + 1] = q
      BY <1>9, <2>2 DEF q
    <3>2. q * PageSize = PageSize * q /\ PageSize * q \in Nat
      BY <1>1, <1>2, <1>7
    <3> QED
      BY <1>8, <1>11, <3>1, <3>2
  <2> DEFINE y == a % PageSize
             d == p - q
  <2>4. y \in Nat /\ y < PageSize /\ a = PageSize * p + y
    BY <1>2, <1>6, Division
  <2>5. d \in Nat /\ d < n /\ p = q + d
    BY <1>1, <1>2, <1>6
  <2> HIDE DEF y, d
  <2>6. PageSize * d \in Int /\ PageSize * d + PageSize <= PageSize * n /\ PageSize * n \in Int
    BY <1>2, <2>5, Factor
  <2>7. PageSize * d \in Nat /\ PageSize * (q + d) = PageSize * q + PageSize * d
    <3>1. \A b, u, v \in Nat : b * (u + v) = b * u + b * v
      BY Z3
    <3> QED
      BY <1>1, <1>2, <1>7, <2>5, <3>1
  <2>8. a = PageSize * q + PageSize * d + y
    BY <2>3, <2>4, <2>5, <2>7
  <2>9. a \in Run(getObject(h, i), sz)
    <3> DEFINE u == PageSize * q
               v == PageSize * d
               w == PageSize * n
    <3>1. /\ u \in Nat /\ v \in Nat /\ w \in Int /\ v + PageSize <= w /\ a = u + v + y
          /\ getObject(h, i) = u /\ sz = w
      BY <2>1, <2>3, <2>6, <2>7, <2>8
    <3> HIDE DEF u, v, w
    <3>2. a \in u .. u + w - 1
      BY <1>2, <2>4, <3>1
    <3> QED
      BY <3>1, <3>2 DEF Run
  <2> QED
    BY <1>4, <2>2, <2>9 DEF p, sz
<1> QED
  BY <1>2, <1>10, <1>11

-----------------------------------------------------------------------------
(* What the program holds *)

\* A request asks for at least its size and its alignment.
LEMMA NeedFacts ==
  ASSUME DieHarderSized, NEW sz \in Requests, NEW al \in Alignments
  PROVE  /\ sz \in Nat /\ al \in Nat \ {0} /\ xxmemalign(sz, al) \in Nat \ {0}
         /\ sz <= xxmemalign(sz, al) /\ al <= xxmemalign(sz, al)
<1>1. sz \in Nat
  BY DEF DieHarderSized
<1>2. PICK k \in Nat : al = 2 ^ k
  BY DEF DieHarderSized
<1>3. al \in Nat \ {0}
  BY <1>2, PowerOfTwo
<1> QED
  BY <1>1, <1>3 DEF xxmemalign, LargerOf

\* The pages of a larger object.
LEMMA BigFacts ==
  ASSUME DieHarderSized, NEW o, o.addr \in Nat, Need(o) \in Nat \ {0},
         Need(o) > MaxSize,
         o.addr = computePageNumber(o.addr) * PageSize
  PROVE  /\ computePageNumber(o.addr) \in BigRun(o)
         /\ AddressesOf(o) = o.addr .. o.addr + Need(o) - 1 /\ Usable(o) = Need(o)
         /\ \A a \in AddressesOf(o) :
              /\ a \in Nat /\ computePageNumber(a) \in BigRun(o)
              /\ a % PageSize = 0 => a = computePageNumber(a) * PageSize
         /\ \A q \in BigRun(o) : /\ q \in Nat /\ q * PageSize \in AddressesOf(o)
                                 /\ computePageNumber(q * PageSize) = q
<1> DEFINE p == computePageNumber(o.addr)
           need == Need(o)
           n == (need + PageSize - 1) \div PageSize
           r == (need + PageSize - 1) % PageSize
<1>1. PageSize \in Nat \ {0} /\ MaxSize \in Nat \ {0}
  BY ClassFacts
<1>2. p \in Nat
  BY <1>1, Division DEF computePageNumber
<1>3. Usable(o) = need
  BY DEF Usable, Need
<1>4. AddressesOf(o) = o.addr .. o.addr + need - 1
  BY <1>3 DEF AddressesOf, Run
<1>5. BigRun(o) = p .. p + n - 1
  BY DEF BigRun, Run
<1> HIDE DEF need, p
<1>6. n \in Nat /\ r \in Nat /\ r < PageSize /\ need + PageSize - 1 = PageSize * n + r
  <2>1. need + PageSize - 1 \in Nat
    BY <1>1 DEF need
  <2> QED
    BY <1>1, <2>1, Division
<1> HIDE DEF n, r
<1>7. o.addr = PageSize * p /\ PageSize * p \in Nat
  <2>1. \A b, d \in Nat : b * d = d * b /\ b * d \in Nat
    BY Z3
  <2> QED
    BY <1>1, <1>2, <2>1 DEF p
<1>8. need \in Nat \ {0} /\ PageSize * n \in Int /\ need <= PageSize * n
  <2>1. PageSize * n \in Int
    BY <1>1, <1>6, Factor
  <2>2. need \in Nat \ {0}
    BY DEF need
  <2> QED
    BY <1>1, <1>6, <2>1, <2>2
<1>9. n # 0
  <2>1. n = 0 => PageSize * n = 0
    BY <1>1
  <2> QED
    BY <1>8, <2>1
<1>10. p \in BigRun(o)
  BY <1>2, <1>5, <1>6, <1>9
<1>11. ASSUME NEW a \in AddressesOf(o)
       PROVE  /\ a \in Nat /\ computePageNumber(a) \in BigRun(o)
              /\ a % PageSize = 0 => a = computePageNumber(a) * PageSize
  <2> DEFINE u == PageSize * p
             d == a - u
             q == a \div PageSize
  <2>1. u \in Nat /\ o.addr = u
    BY <1>7
  <2> HIDE DEF u
  <2>2. a \in u .. u + need - 1
    BY <1>4, <2>1
  <2>3. d \in Nat /\ a = u + d /\ d < PageSize * n /\ a \in Nat
    <3> DEFINE w == PageSize * n
    <3>1. w \in Int /\ need <= w
      BY <1>8
    <3> HIDE DEF w
    <3>2. d < w /\ d \in Nat /\ a = u + d /\ a \in Nat
      BY <1>8, <2>1, <2>2, <3>1
    <3> QED
      BY <3>2 DEF w
  <2> HIDE DEF d
  <2>4. /\ d \div PageSize \in Nat /\ d \div PageSize < n
        /\ (PageSize * p + d) \div PageSize = p + (d \div PageSize)
    <3>1. /\ PageSize \in Nat \ {0} /\ p \in Nat /\ n \in Nat /\ d \in Nat /\ d < PageSize * n
      BY <1>1, <1>2, <1>6, <2>3
    <3> HIDE DEF q
    <3> QED
      BY <3>1, UnitOfRun
  <2>5. q = p + (d \div PageSize)
    BY <2>3, <2>4 DEF u
  <2>6. q \in BigRun(o)
    BY <1>2, <1>5, <1>6, <2>4, <2>5
  <2>7. a % PageSize = 0 => a = q * PageSize
    <3>1. a = PageSize * q + (a % PageSize) /\ q \in Nat
      BY <1>1, <2>3, Division
    <3> HIDE DEF q
    <3>2. PageSize * q \in Int /\ PageSize * q = q * PageSize
      BY <1>1, <3>1, Factor
    <3> QED
      BY <3>1, <3>2
  <2> QED
    BY <2>3, <2>6, <2>7 DEF computePageNumber
<1>12. ASSUME NEW q \in BigRun(o)
       PROVE  /\ q \in Nat /\ q * PageSize \in AddressesOf(o)
              /\ computePageNumber(q * PageSize) = q
  <2> DEFINE d == q - p
             m == n - 1
  <2>1. q \in Nat /\ d \in Nat /\ d <= m /\ q = p + d /\ m \in Nat /\ n = m + 1
    BY <1>2, <1>5, <1>6
  <2> HIDE DEF d, m
  <2>2. \A b, x, y \in Nat : /\ b * (x + y) = b * x + b * y /\ b * (x + 1) = b * x + b
                             /\ b * x \in Nat /\ x * b = b * x
    BY Z3
  <2>3. /\ q * PageSize = PageSize * p + PageSize * d /\ PageSize * d \in Nat
        /\ PageSize * n = PageSize * m + PageSize /\ PageSize * m \in Nat
        /\ q * PageSize = PageSize * q /\ PageSize * q \in Nat
    BY <1>1, <1>2, <2>1, <2>2
  <2>4. PageSize * d <= PageSize * m
    BY <1>1, <2>1, Factor
  <2>5. PageSize * m < need
    <3> DEFINE w == PageSize * m
    <3>1. w \in Nat /\ need + PageSize - 1 = w + PageSize + r
      BY <1>6, <2>3
    <3> HIDE DEF w
    <3>2. w < need
      BY <1>1, <1>6, <1>8, <3>1
    <3> QED
      BY <3>2 DEF w
  <2>6. q * PageSize \in o.addr .. o.addr + need - 1
    <3> DEFINE u == PageSize * p
               v == PageSize * d
               w == PageSize * m
    <3>1. /\ u \in Nat /\ v \in Nat /\ w \in Nat /\ v <= w /\ w < need /\ o.addr = u
          /\ q * PageSize = u + v
      BY <1>7, <2>3, <2>4, <2>5
    <3> HIDE DEF u, v, w
    <3> QED
      BY <1>8, <3>1
  <2>7. (PageSize * q + 0) \div PageSize = q
    BY <1>1, <2>1, Quotient
  <2>8. computePageNumber(q * PageSize) = q
    BY <2>3, <2>7 DEF computePageNumber
  <2> QED
    BY <1>4, <2>1, <2>6, <2>8
<1> QED
  BY <1>3, <1>4, <1>10, <1>11, <1>12 DEF p, need

\* What the program holds is what it asked for.
LEMMA LiveFacts ==
  ASSUME DieHarderSized, LiveInv, NEW o \in live
  PROVE  /\ o.addr \in Nat /\ o.size \in Requests /\ o.align \in Alignments
         /\ o = [addr |-> o.addr, size |-> o.size, align |-> o.align]
         /\ Need(o) \in Nat \ {0} /\ o.size \in Nat /\ o.size <= Need(o)
         /\ o.align \in Nat \ {0} /\ o.align <= Need(o)
<1>1. o \in [addr : Nat, size : Requests, align : Alignments]
  BY DEF LiveInv
<1>2. /\ o.addr \in Nat /\ o.size \in Requests /\ o.align \in Alignments
      /\ o = [addr |-> o.addr, size |-> o.size, align |-> o.align]
  BY <1>1
<1> QED
  BY <1>2, NeedFacts DEF Need

\* The units of an object of a size class are found with its slot.
LEMMA SmallFacts ==
  ASSUME DieHarderSized, TableInv, PagesInv, NEW o, NEW h, NEW i, InSlot(o,
         h, i),
         Need(o) \in Nat
  PROVE  /\ h \in DOMAIN pages /\ h[1] \in Class /\ Usable(o) = getClassSize(h[1])
         /\ AddressesOf(o) = Run(getObject(h, i), getClassSize(h[1]))
         /\ o.addr \in Nat /\ o.addr \in AddressesOf(o)
         /\ \A a \in AddressesOf(o) :
              /\ a \in Nat /\ getEntry(computePageNumber(a)) # Nothing
              /\ getEntry(computePageNumber(a)).heap = h
              /\ computeIndex(getEntry(computePageNumber(a)), a) = i
<1>1. /\ h \in DOMAIN pages /\ i \in 0 .. NObjects(h) - 1 /\ Need(o) <= MaxSize
      /\ o.addr = getObject(h, i) /\ h[1] = getIndex(Need(o))
  BY DEF InSlot
<1>2. h[1] \in Class
  BY <1>1 DEF PagesInv
<1>3. getClassSize(h[1]) \in Nat \ {0} /\ MaxSize \in Nat
  BY <1>2, ClassFacts
<1>4. getObject(h, i) \in Nat
  BY <1>1, ObjectPlace
<1>5. Usable(o) = getClassSize(h[1])
  <2>1. Need(o) > MaxSize \/ Usable(o) = getClassSize(getIndex(Need(o)))
    BY DEF Usable, Need
  <2>2. ~(Need(o) > MaxSize)
    BY <1>1, <1>3
  <2> QED
    BY <1>1, <2>1, <2>2
<1>6. AddressesOf(o) = Run(getObject(h, i), getClassSize(h[1]))
  BY <1>1, <1>5 DEF AddressesOf
<1>7. o.addr \in AddressesOf(o)
  <2>1. \A x \in Nat, y \in Nat \ {0} : x \in x .. x + y - 1
    OBVIOUS
  <2> QED
    BY <1>1, <1>3, <1>4, <1>6, <2>1 DEF Run
<1> QED
  BY <1>1, <1>2, <1>4, <1>5, <1>6, <1>7, ObjectFound

\* The units of a larger object are on pages that are of no miniheap.
LEMMA LargerFacts ==
  ASSUME DieHarderSized, TableInv, PagesInv, NEW o, o.addr \in Nat,
         Need(o) \in Nat \ {0},
         InTable(o)
  PROVE  /\ o.addr \in AddressesOf(o) /\ o.addr \in DOMAIN big /\ big[o.addr] = Need(o)
         /\ Usable(o) = Need(o)
         /\ \A a \in AddressesOf(o) :
              /\ a \in Nat /\ computePageNumber(a) \in BigRun(o)
              /\ getEntry(computePageNumber(a)) = Nothing
              /\ a % PageSize = 0 => /\ a \in DOMAIN big
                                     /\ big[a] = Need(o) - (a - o.addr)
<1>1. Need(o) > MaxSize /\ o.addr = computePageNumber(o.addr) * PageSize
  BY DEF InTable
<1>2. /\ computePageNumber(o.addr) \in BigRun(o)
      /\ Usable(o) = Need(o)
      /\ \A a \in AddressesOf(o) :
           /\ a \in Nat /\ computePageNumber(a) \in BigRun(o)
           /\ a % PageSize = 0 => a = computePageNumber(a) * PageSize
      /\ \A q \in BigRun(o) : /\ q \in Nat /\ q * PageSize \in AddressesOf(o)
                              /\ computePageNumber(q * PageSize) = q
  BY <1>1, BigFacts
<1>3. \A q \in BigRun(o) : /\ q * PageSize \in DOMAIN big
                           /\ big[q * PageSize] = Need(o) - (q * PageSize - o.addr)
  BY DEF InTable
<1>4. ASSUME NEW q \in BigRun(o) PROVE getEntry(q) = Nothing
  <2> DEFINE b == q * PageSize
  <2>1. b \in DOMAIN big /\ computePageNumber(b) = q /\ q \in Nat
    BY <1>2, <1>3
  <2> HIDE DEF b
  <2> QED
    BY <2>1, BigNotFound
<1>5. /\ o.addr \in DOMAIN big /\ big[o.addr] = Need(o) - (o.addr - o.addr)
      /\ o.addr \in AddressesOf(o)
  BY <1>1, <1>2, <1>3
<1>6. big[o.addr] = Need(o)
  BY <1>5
<1> QED
  BY <1>2, <1>3, <1>4, <1>5, <1>6

\* Two objects that the program holds have no unit in common.
LEMMA LiveApart ==
  ASSUME DieHarderSized, TableInv, PagesInv, LiveInv, NEW o1 \in live,
         NEW o2 \in live,
         NEW a \in AddressesOf(o1), a \in AddressesOf(o2)
  PROVE  o1 = o2
<1>1. /\ o1.addr \in Nat /\ Need(o1) \in Nat \ {0}
      /\ o2.addr \in Nat /\ Need(o2) \in Nat \ {0}
  BY LiveFacts
<1>2. /\ InTable(o1) \/ \E h \in DOMAIN pages, i \in Nat : InSlot(o1, h, i)
      /\ InTable(o2) \/ \E h \in DOMAIN pages, i \in Nat : InSlot(o2, h, i)
  BY DEF LiveInv
<1>3. ASSUME InTable(o1), InTable(o2) PROVE o1 = o2
  <2>1. computePageNumber(a) \in BigRun(o1) \cap BigRun(o2)
    BY <1>1, <1>3, LargerFacts
  <2> QED
    BY <1>3, <2>1 DEF LiveInv
<1>4. ASSUME InTable(o1), NEW h \in DOMAIN pages, NEW i \in Nat, InSlot(o2, h, i) PROVE FALSE
  <2>1. getEntry(computePageNumber(a)) = Nothing
    BY <1>1, <1>4, LargerFacts
  <2>2. getEntry(computePageNumber(a)) # Nothing
    BY <1>1, <1>4, SmallFacts
  <2> QED
    BY <2>1, <2>2
<1>5. ASSUME InTable(o2), NEW h \in DOMAIN pages, NEW i \in Nat, InSlot(o1, h, i) PROVE FALSE
  <2>1. getEntry(computePageNumber(a)) = Nothing
    BY <1>1, <1>5, LargerFacts
  <2>2. getEntry(computePageNumber(a)) # Nothing
    BY <1>1, <1>5, SmallFacts
  <2> QED
    BY <2>1, <2>2
<1>6. ASSUME NEW h \in DOMAIN pages, NEW i \in Nat, InSlot(o1, h, i),
             NEW g \in DOMAIN pages, NEW j \in Nat, InSlot(o2, g, j)
      PROVE  o1 = o2
  <2>1. /\ getEntry(computePageNumber(a)).heap = h
        /\ computeIndex(getEntry(computePageNumber(a)), a) = i
    BY <1>1, <1>6, SmallFacts
  <2>2. /\ getEntry(computePageNumber(a)).heap = g
        /\ computeIndex(getEntry(computePageNumber(a)), a) = j
    BY <1>1, <1>6, SmallFacts
  <2>3. o1.addr = getObject(h, i) /\ o2.addr = getObject(g, j)
    BY <1>6 DEF InSlot
  <2>4. o1.addr = o2.addr
    BY <2>1, <2>2, <2>3
  <2> QED
    BY <2>4 DEF LiveInv
<1> QED
  BY <1>2, <1>3, <1>4, <1>5, <1>6

\* An object is aligned as was asked for.
LEMMA LiveAligned ==
  ASSUME DieHarderSized, TableInv, PagesInv, LiveInv, NEW o \in live
  PROVE  o.addr % o.align = 0
<1> DEFINE al == o.align
<1>1. /\ o.addr \in Nat /\ Need(o) \in Nat \ {0} /\ o.align \in Alignments
      /\ al \in Nat \ {0} /\ al <= Need(o)
  BY LiveFacts
<1>2. PICK x \in Nat : al = 2 ^ x
  BY <1>1 DEF DieHarderSized
<1>3. PICK y \in Nat : PageSize = 2 ^ y
  BY DEF DieHarderSized
<1>4. PageSize \in Nat \ {0}
  BY ClassFacts
<1> HIDE DEF al
<1>5. ASSUME NEW z \in Nat, al <= 2 ^ z PROVE \E k \in Nat : 2 ^ z = al * k
  <2>1. x <= z
    <3> SUFFICES ASSUME z < x PROVE FALSE
      OBVIOUS
    <3>1. 2 ^ z \in Nat \ {0} /\ 2 ^ (z + 1) = 2 * 2 ^ z
      BY PowerOfTwo
    <3>2. 2 ^ (z + 1) <= 2 ^ x
      BY PowerMonotone
    <3> DEFINE t == 2 ^ z
    <3>3. t \in Nat \ {0} /\ 2 * t <= al /\ al <= t
      BY <1>2, <1>5, <3>1, <3>2
    <3> HIDE DEF t
    <3> QED
      BY <1>1, <3>3
  <2> QED
    BY <1>2, <2>1, PowersDivide
<1>6. PICK u \in Nat : PageSize = al * u
  <2>1. al <= PageSize
    BY <1>1 DEF DieHarderSized, al
  <2> QED
    BY <1>3, <1>5, <2>1
<1>7. ASSUME NEW k \in Nat, o.addr = al * k PROVE o.addr % al = 0
  <2>1. (al * k + 0) % al = 0
    BY <1>1, Quotient
  <2>2. al * k + 0 = al * k
    BY <1>1, <1>7
  <2> QED
    BY <1>7, <2>1, <2>2
<1>8. \A b, c, d \in Nat : b * (c * d) = (b * c) * d /\ b * c \in Nat /\ b * c = c * b
  BY Z3
<1>9. ASSUME NEW p \in Nat PROVE p * PageSize = al * (u * p) /\ u * p \in Nat
  BY <1>1, <1>6, <1>8
<1>10. CASE InTable(o)
  <2> DEFINE p == computePageNumber(o.addr)
  <2>1. p \in Nat
    BY <1>1, <1>4, Division DEF computePageNumber
  <2>2. o.addr = p * PageSize
    BY <1>10 DEF InTable
  <2> HIDE DEF p
  <2> QED
    BY <1>7, <1>9, <2>1, <2>2 DEF al
<1>11. ASSUME NEW h \in DOMAIN pages, NEW i \in Nat, InSlot(o, h, i) PROVE o.addr % al = 0
  <2> DEFINE c == h[1]
             sz == getClassSize(c)
             O == ObjectsPerPage(c)
             q == getPageFromIndex(h, i)
             j == IF sz > PageSize THEN 0 ELSE i % O
  <2>1. c \in Class /\ h \in Class \X Nat
    BY DEF PagesInv
  <2>2. sz = 2 ^ c /\ c \in Nat /\ O \in Nat \ {0} /\ sz \in Nat
    BY <2>1, ClassFacts DEF getClassSize
  <2>3. al <= sz
    <3>1. PICK m \in Nat : MaxSize = 2 ^ m
      BY DEF DieHarderSized
    <3>2. Need(o) <= 2 ^ m /\ c = log2(Need(o))
      BY <1>11, <3>1 DEF InSlot, getIndex
    <3>3. Need(o) <= sz
      BY <1>1, <2>2, <3>2, LogFacts
    <3> HIDE DEF sz
    <3> QED
      BY <1>1, <2>2, <3>3
  <2>4. PICK v \in Nat : sz = al * v
    BY <1>5, <2>2, <2>3
  <2>5. q \in Nat
    <3>1. i \in 0 .. NObjects(h) - 1
      BY <1>11 DEF InSlot
    <3>2. (i \div O) + 1 \in DOMAIN pages[h]
      BY <3>1, ObjectPlace
    <3>3. pages[h] \in [1 .. NumEntries(h) -> PageNumbers]
      BY DEF PagesInv
    <3>4. q = pages[h][(i \div O) + 1]
      BY DEF getPageFromIndex
    <3> QED
      BY <3>2, <3>3, <3>4 DEF DieHarderSized
  <2>6. j \in Nat
    <3> HIDE DEF O, sz
    <3>1. i % O \in Nat
      BY <2>2, Division
    <3> QED
      BY <3>1
  <2>7. o.addr = q * PageSize + j * sz
    <3>1. o.addr = getObject(h, i)
      BY <1>11 DEF InSlot
    <3>2. getObject(h, i) = q * PageSize + (IF sz > PageSize THEN 0 ELSE (i % O) * sz)
      BY DEF getObject
    <3> HIDE DEF O, sz, q
    <3>3. (IF sz > PageSize THEN 0 ELSE (i % O) * sz) = j * sz
      BY <2>2
    <3> HIDE DEF j
    <3> QED
      BY <3>1, <3>2, <3>3
  <2> HIDE DEF q, j, sz
  <2>8. j * sz = al * (v * j) /\ v * j \in Nat
    BY <1>1, <1>8, <2>4, <2>6
  <2>9. q * PageSize = al * (u * q) /\ u * q \in Nat
    BY <1>9, <2>5
  <2> DEFINE s == u * q
             t == v * j
  <2> HIDE DEF s, t
  <2>10. \A b, d, e \in Nat : b * d + b * e = b * (d + e) /\ d + e \in Nat
    BY Z3
  <2>11. al * s + al * t = al * (s + t) /\ s + t \in Nat
    BY <1>1, <2>8, <2>9, <2>10 DEF s, t
  <2>12. o.addr = al * (s + t)
    BY <2>7, <2>8, <2>9, <2>11 DEF s, t
  <2> QED
    BY <1>7, <2>11, <2>12
<1>12. InTable(o) \/ \E h \in DOMAIN pages, i \in Nat : InSlot(o, h, i)
  BY DEF LiveInv
<1> QED
  BY <1>10, <1>11, <1>12 DEF al

\* The page table finds what the invariant says it holds.
LEMMA PageTableIsExact ==
  ASSUME DieHarderSized, TableInv, PagesInv, LiveInv
  PROVE  PageTableExact
<1>1. \A h \in DOMAIN pages : \A i \in 0 .. NObjects(h) - 1 :
        \A a \in Run(getObject(h, i), getClassSize(h[1])) :
          LET e == getEntry(computePageNumber(a)) IN
          e # Nothing /\ e.heap = h /\ computeIndex(e, a) = i
  BY ObjectFound
<1>2. ASSUME NEW a \in DOMAIN big PROVE getEntry(computePageNumber(a)) = Nothing
  <2>1. PICK o \in live : InTable(o) /\ \E q \in BigRun(o) : a = q * PageSize
    BY DEF LiveInv
  <2>2. o.addr \in Nat /\ Need(o) \in Nat \ {0}
    BY LiveFacts
  <2>3. a \in AddressesOf(o)
    BY <2>1, <2>2, BigFacts DEF InTable
  <2> QED
    BY <2>1, <2>2, <2>3, LargerFacts
<1> QED
  BY <1>1, <1>2 DEF PageTableExact

\* The bit or the entry of an object is there.
LEMMA LiveOwned ==
  ASSUME DieHarderSized, TableInv, PagesInv, LiveInv, NEW o \in live
  PROVE  Owned(o.addr)
<1>1. o.addr \in Nat /\ Need(o) \in Nat \ {0}
  BY LiveFacts
<1>2. CASE InTable(o)
  <2>1. o.addr \in DOMAIN big /\ getEntry(computePageNumber(o.addr)) = Nothing
    BY <1>1, <1>2, LargerFacts
  <2> QED
    BY <2>1 DEF Owned
<1>3. ASSUME NEW h \in DOMAIN pages, NEW i \in Nat, InSlot(o, h, i) PROVE Owned(o.addr)
  <2>1. /\ getEntry(computePageNumber(o.addr)) # Nothing
        /\ getEntry(computePageNumber(o.addr)).heap = h
        /\ computeIndex(getEntry(computePageNumber(o.addr)), o.addr) = i
    BY <1>1, <1>3, SmallFacts
  <2>2. <<h[1], h[2], i>> \in bits
    BY <1>3 DEF InSlot
  <2> QED
    BY <2>1, <2>2 DEF Owned
<1> QED
  BY <1>2, <1>3 DEF LiveInv

\* Owned, aligned and apart: what the program holds is kept.
LEMMA LiveIsKept ==
  ASSUME DieHarderSized, TableInv, PagesInv, LiveInv
  PROVE  LiveKept
<1>1. zeroed = {}
  BY DEF LiveInv
<1>2. \A o \in live : Owned(o.addr) /\ o.addr % o.align = 0
  BY LiveOwned, LiveAligned
<1>3. ASSUME NEW o1 \in live, NEW o2 \in live, o1 # o2
      PROVE  AddressesOf(o1) \cap AddressesOf(o2) = {}
  BY <1>3, LiveApart
<1> QED
  BY <1>1, <1>2, <1>3 DEF LiveKept

\* getSize is exact for the objects of the size classes and for larger ones.
LEMMA SizesAreExact ==
  ASSUME DieHarderSized, TableInv, PagesInv, LiveInv
  PROVE  SizesExact
<1> SUFFICES ASSUME NEW o \in live, NEW a \in AddressesOf(o),
                    o.size <= MaxSize \/ a % PageSize = 0
             PROVE  getSize(a) = o.addr + Usable(o) - a
  BY DEF SizesExact
<1>1. /\ o.addr \in Nat /\ Need(o) \in Nat \ {0} /\ o.align \in Alignments /\ o.size \in Nat
      /\ o.align \in Nat
  BY LiveFacts
<1>2. PageSize \in Nat \ {0} /\ MaxSize \in Nat \ {0} /\ PageSize <= MaxSize
  BY ClassFacts DEF DieHarderSized
<1>3. CASE InTable(o)
  <2>1. Need(o) > MaxSize
    BY <1>3 DEF InTable
  <2>2. o.align <= PageSize
    BY <1>1 DEF DieHarderSized
  <2>3. Need(o) = o.size \/ Need(o) = o.align
    BY DEF Need, xxmemalign, LargerOf
  <2>4. a % PageSize = 0
    BY <1>1, <1>2, <2>1, <2>2, <2>3
  <2>5. /\ a \in Nat /\ getEntry(computePageNumber(a)) = Nothing /\ Usable(o) = Need(o)
        /\ a \in DOMAIN big /\ big[a] = Need(o) - (a - o.addr)
    BY <1>1, <1>3, <2>4, LargerFacts
  <2>6. getSize(a) = big[a]
    BY <2>5 DEF getSize, getSizeSmall
  <2> QED
    BY <1>1, <2>5, <2>6
<1>4. ASSUME NEW h \in DOMAIN pages, NEW i \in Nat, InSlot(o, h, i)
      PROVE  getSize(a) = o.addr + Usable(o) - a
  <2> DEFINE sz == getClassSize(h[1])
             e == getEntry(computePageNumber(a))
  <2>1. /\ h[1] \in Class /\ Usable(o) = sz /\ AddressesOf(o) = Run(getObject(h, i), sz)
        /\ a \in Nat /\ e # Nothing /\ e.heap = h /\ computeIndex(e, a) = i
    BY <1>1, <1>4, SmallFacts
  <2>2. sz \in Nat \ {0}
    BY <2>1, ClassFacts
  <2>3. i \in 0 .. NObjects(h) - 1 /\ o.addr = getObject(h, i)
    BY <1>4 DEF InSlot
  <2>4. sz < PageSize => a % sz = a - o.addr
    BY <2>1, <2>3, ObjectPlace
  <2>5. getSizeIn(e, a) = IF sz >= PageSize THEN sz - (a - o.addr) ELSE sz - (a % sz)
    BY <2>1, <2>3 DEF getSizeIn
  <2>6. getSizeSmall(a) = getSizeIn(e, a)
    BY <2>1 DEF getSizeSmall
  <2>7. a \in o.addr .. o.addr + sz - 1
    BY <2>1, <2>3 DEF Run
  <2> HIDE DEF sz, e
  <2>8. getSizeSmall(a) = sz - (a - o.addr)
    BY <1>2, <2>2, <2>4, <2>5, <2>6
  <2>9. getSizeSmall(a) # 0
    BY <1>1, <2>1, <2>2, <2>7, <2>8
  <2>10. getSize(a) = getSizeSmall(a)
    BY <2>9 DEF getSize
  <2> QED
    BY <1>1, <2>1, <2>2, <2>8, <2>10
<1> QED
  BY <1>3, <1>4 DEF LiveInv

-----------------------------------------------------------------------------
(* The steps *)

\* The heap starts with no page and no object.
LEMMA DieHarderInit ==
  ASSUME DieHarderSized, Init
  PROVE  DieHarderIInv
<1> USE DEF Init, Nothing
<1>1. DOMAIN Nothing = {}
  OBVIOUS
<1>2. TableInv
  <2>1. Cardinality(DOMAIN entries) = 0
    BY <1>1, FS_EmptySet
  <2>2. Content(entries) = {}
    BY <1>1 DEF Content
  <2>3. UNION {EntriesOf(h, pages[h]) : h \in DOMAIN pages} = {}
    BY <1>1
  <2>4. Loaded(entries, size)
    BY <2>1 DEF Loaded, DieHarderSized
  <2>5. Probed(entries, size)
    BY <1>1 DEF Probed
  <2> QED
    BY <2>2, <2>3, <2>4, <2>5 DEF TableInv
<1>3. PagesInv
  <2>1. ASSUME NEW c \in Class PROVE \E k \in Nat : Active(c) = {<<c, m>> : m \in 0 .. k - 1}
    <3>1. Active(c) = {}
      BY <1>1 DEF Active
    <3>2. {<<c, m>> : m \in 0 .. 0 - 1} = {}
      OBVIOUS
    <3> QED
      BY <3>1, <3>2
  <2> QED
    BY <1>1, <2>1 DEF PagesInv
<1>4. LiveInv
  BY <1>1 DEF LiveInv
<1>5. PendingInv
  BY DEF PendingInv
<1> QED
  BY <1>2, <1>3, <1>4, <1>5 DEF DieHarderIInv

\* The table and the pages stay as they are.
LEMMA SamePages ==
  ASSUME TableInv, PagesInv, UNCHANGED <<tableVars, pages>>,
         DOMAIN big' \subseteq DOMAIN big
  PROVE  TableInv' /\ PagesInv'
<1> USE DEF tableVars
<1>1. TableInv'
  BY DEF TableInv, Content
<1>2. PagesInv'
  BY DEF PagesInv, Active, RunOf
<1> QED
  BY <1>1, <1>2

\* The place of an object is that of its pages.
LEMMA SameObjects ==
  ASSUME NEW h, pages'[h] = pages[h]
  PROVE  \A i : getObject(h, i)' = getObject(h, i)
BY DEF getObject, getPageFromIndex

\* The slot of one of the miniheaps that is not taken has an address of its own.
LEMMA NewSlotApart ==
  ASSUME DieHarderSized, TableInv, PagesInv, LiveInv,
         NEW h \in DOMAIN pages, NEW i \in 0 .. NObjects(h) - 1, <<h[1], h[2], i>> \notin bits,
         NEW o \in live
  PROVE  o.addr # getObject(h, i)
<1> SUFFICES ASSUME o.addr = getObject(h, i) PROVE FALSE
  OBVIOUS
<1>1. o.addr \in Nat /\ Need(o) \in Nat \ {0}
  BY LiveFacts
<1>2. getClassSize(h[1]) \in Nat \ {0}
  BY ClassFacts DEF PagesInv
<1>3. o.addr \in Run(getObject(h, i), getClassSize(h[1]))
  <2>1. \A x \in Nat, y \in Nat \ {0} : x \in x .. x + y - 1
    OBVIOUS
  <2> QED
    BY <1>1, <1>2, <2>1 DEF Run
<1>4. /\ getEntry(computePageNumber(o.addr)) # Nothing
      /\ getEntry(computePageNumber(o.addr)).heap = h
      /\ computeIndex(getEntry(computePageNumber(o.addr)), o.addr) = i
  BY <1>3, ObjectFound
<1>5. ~InTable(o)
  BY <1>1, <1>4, LargerFacts
<1>6. ASSUME NEW g \in DOMAIN pages, NEW j \in Nat, InSlot(o, g, j) PROVE FALSE
  <2>1. g = h /\ j = i
    BY <1>1, <1>4, <1>6, SmallFacts
  <2> QED
    BY <1>6, <2>1 DEF InSlot
<1> QED
  BY <1>5, <1>6 DEF LiveInv

\* A free slot is given to the call that waits for one.
LEMMA PlaceKeeps ==
  ASSUME DieHarderSized, DieHarderIInv,
         NEW h \in DOMAIN pages, NEW i \in 0 .. NObjects(h) - 1, Place(h, i)
  PROVE  DieHarderIInv'
<1> USE DEF DieHarderIInv
<1> DEFINE slot == <<h[1], h[2], i>>
<1>0. PICK new : new = [addr |-> getObject(h, i), size |-> pending.size, align |-> pending.align]
  OBVIOUS
<1>1. /\ pending # Nothing /\ h[1] = pending.class /\ slot \notin bits
      /\ bits' = bits \cup {slot} /\ live' = live \cup {new} /\ pending' = Nothing
      /\ UNCHANGED <<tableVars, pages, big, zeroed>>
  BY <1>0 DEF Place, Active
<1>2. TableInv' /\ PagesInv'
  BY <1>1, SamePages
<1>3. PendingInv'
  BY <1>1 DEF PendingInv
<1>4. /\ pending.size \in Requests /\ pending.align \in Alignments
      /\ Need(pending) <= MaxSize /\ h[1] = getIndex(Need(pending))
  BY <1>1 DEF PendingInv
<1>5. getObject(h, i) \in Nat /\ i \in Nat
  <2>1. NObjects(h) \in Nat
    BY MiniHeapFacts DEF PagesInv
  <2> QED
    BY <2>1, ObjectPlace
<1>6. new.addr = getObject(h, i) /\ Need(new) = Need(pending) /\ ~(Need(new) > MaxSize)
  <2>1. Need(new) = Need(pending) /\ Need(pending) \in Nat
    BY <1>0, <1>4, NeedFacts DEF Need
  <2>2. MaxSize \in Nat
    BY ClassFacts
  <2> QED
    BY <1>0, <1>4, <2>1, <2>2
<1>7. \A o : InTable(o)' <=> InTable(o)
  BY <1>1 DEF InTable
<1>8. \A o, g, j : InSlot(o, g, j) => InSlot(o, g, j)'
  BY <1>1, SameObjects DEF InSlot
<1>9. InSlot(new, h, i)'
  BY <1>1, <1>4, <1>6, SameObjects DEF InSlot
<1>10. ~InTable(new)
  BY <1>6 DEF InTable
<1>11. new \in [addr : Nat, size : Requests, align : Alignments]
  BY <1>0, <1>4, <1>5
<1>12. \A o \in live : o.addr # new.addr
  BY <1>1, <1>6, NewSlotApart
<1>13. LiveInv'
  <2>1. live' \subseteq [addr : Nat, size : Requests, align : Alignments]
    BY <1>1, <1>11 DEF LiveInv
  <2>2. ASSUME NEW o \in live'
        PROVE  InTable(o)' \/ \E g \in DOMAIN pages', j \in Nat : InSlot(o, g, j)'
    <3>1. CASE o = new
      BY <1>1, <1>5, <1>9, <3>1
    <3>2. CASE o \in live
      BY <1>1, <1>7, <1>8, <3>2 DEF LiveInv
    <3> QED
      BY <1>1, <3>1, <3>2
  <2>3. ASSUME NEW b \in bits' PROVE \E o \in live', g \in DOMAIN pages', j \in Nat :
                                        b = <<g[1], g[2], j>> /\ InSlot(o, g, j)'
    <3>1. CASE b = slot
      BY <1>1, <1>5, <1>9, <3>1
    <3>2. CASE b \in bits
      <4>1. PICK o \in live, g \in DOMAIN pages, j \in Nat :
              b = <<g[1], g[2], j>> /\ InSlot(o, g, j)
        BY <3>2 DEF LiveInv
      <4> QED
        BY <1>1, <1>8, <4>1
    <3> QED
      BY <1>1, <3>1, <3>2
  <2>4. \A a \in DOMAIN big' : \E o \in live' : InTable(o)' /\ \E q \in BigRun(o) : a = q * PageSize
    BY <1>1, <1>7 DEF LiveInv
  <2>5. \A o1, o2 \in live' : o1.addr = o2.addr => o1 = o2
    BY <1>1, <1>12 DEF LiveInv
  <2>6. \A o1, o2 \in live' : o1 # o2 /\ InTable(o1)' /\ InTable(o2)' =>
                                BigRun(o1) \cap BigRun(o2) = {}
    BY <1>1, <1>7, <1>10 DEF LiveInv
  <2>7. zeroed' = {}
    BY <1>1 DEF LiveInv
  <2> QED
    BY <2>1, <2>2, <2>3, <2>4, <2>5, <2>6, <2>7 DEF LiveInv
<1> QED
  BY <1>2, <1>3, <1>13

\* The pages of the miniheaps and of the larger objects are mapped.
LEMMA MappedFacts ==
  /\ \A h \in DOMAIN pages : \A k \in DOMAIN pages[h] : RunOf(h, k) \subseteq MappedPages
  /\ \A a \in DOMAIN big : computePageNumber(a) \in MappedPages
<1> DEFINE A == {UNION {Run(pages[h][k], PagesPerObject(h[1])) : k \in DOMAIN pages[h]} :
                   h \in DOMAIN pages}
           B == {computePageNumber(a) : a \in DOMAIN big}
<1>1. MappedPages = (UNION A) \cup B
  BY DEF MappedPages
<1>2. ASSUME NEW h \in DOMAIN pages, NEW k \in DOMAIN pages[h] PROVE RunOf(h, k) \subseteq UNION A
  <2> DEFINE C == UNION {Run(pages[h][l], PagesPerObject(h[1])) : l \in DOMAIN pages[h]}
  <2>1. RunOf(h, k) \subseteq C
    BY DEF RunOf
  <2>2. C \in A
    OBVIOUS
  <2> HIDE DEF A, C
  <2> QED
    BY <2>1, <2>2
<1>3. \A a \in DOMAIN big : computePageNumber(a) \in B
  OBVIOUS
<1> HIDE DEF A, B
<1> QED
  BY <1>1, <1>2, <1>3

\* The pages of every object are mapped.
LEMMA ObjectsMapped ==
  ASSUME DieHarderSized, PagesInv, LiveInv, NEW o \in live
  PROVE  /\ computePageNumber(o.addr) \in MappedPages
         /\ InTable(o) => BigRun(o) \subseteq MappedPages
<1>1. o.addr \in Nat /\ Need(o) \in Nat \ {0}
  BY LiveFacts
<1>2. ASSUME InTable(o)
      PROVE  computePageNumber(o.addr) \in MappedPages /\ BigRun(o) \subseteq MappedPages
  <2>1. \A q \in BigRun(o) : q * PageSize \in DOMAIN big /\ computePageNumber(q * PageSize) = q
    BY <1>1, <1>2, BigFacts DEF InTable
  <2>2. computePageNumber(o.addr) \in BigRun(o)
    BY <1>1, <1>2, BigFacts DEF InTable
  <2>3. ASSUME NEW q \in BigRun(o) PROVE q \in MappedPages
    <3> DEFINE b == q * PageSize
    <3>1. b \in DOMAIN big /\ computePageNumber(b) = q
      BY <2>1
    <3> HIDE DEF b
    <3> QED
      BY <3>1, MappedFacts
  <2> QED
    BY <2>2, <2>3
<1>3. ASSUME NEW h \in DOMAIN pages, NEW i \in Nat, InSlot(o, h, i)
      PROVE  computePageNumber(o.addr) \in MappedPages
  <2> DEFINE k == (i \div ObjectsPerPage(h[1])) + 1
  <2>1. i \in 0 .. NObjects(h) - 1 /\ o.addr = getObject(h, i)
    BY <1>3 DEF InSlot
  <2>2. getClassSize(h[1]) \in Nat \ {0}
    BY ClassFacts DEF PagesInv
  <2>3. o.addr \in Run(getObject(h, i), getClassSize(h[1]))
    <3>1. \A x \in Nat, y \in Nat \ {0} : x \in x .. x + y - 1
      OBVIOUS
    <3> QED
      BY <1>1, <2>1, <2>2, <3>1 DEF Run
  <2>4. k \in DOMAIN pages[h] /\ computePageNumber(o.addr) \in RunOf(h, k)
    BY <2>1, <2>3, ObjectPlace
  <2> HIDE DEF k
  <2> QED
    BY <2>4, MappedFacts
<1> QED
  BY <1>2, <1>3 DEF LiveInv

\* A larger object gets pages that nothing else has.
LEMMA MallocBigKeeps ==
  ASSUME DieHarderSized, DieHarderIInv, NEW sz \in Requests,
         NEW al \in Alignments,
         NEW p \in PageNumbers, MallocBig(sz, al, p)
  PROVE  DieHarderIInv'
<1> USE DEF DieHarderIInv
<1> DEFINE need == xxmemalign(sz, al)
           n == (need + PageSize - 1) \div PageSize
           new == [addr |-> p * PageSize, size |-> sz, align |-> al]
           N == {q * PageSize : q \in Run(p, n)}
<1>1. /\ pending = Nothing /\ need > MaxSize /\ Mappable(p, n)
      /\ big' = [a \in DOMAIN big \cup N |->
                   IF a \in DOMAIN big THEN big[a] ELSE need - (a - p * PageSize)]
      /\ live' = live \cup {new}
      /\ UNCHANGED <<tableVars, pages, bits, pending, zeroed>>
  BY DEF MallocBig
<1>2. PageSize \in Nat \ {0} /\ p \in Nat /\ need \in Nat \ {0}
  BY ClassFacts, NeedFacts DEF DieHarderSized
<1>3. Need(new) = need /\ new.addr = p * PageSize
  BY DEF Need
<1>4. new \in [addr : Nat, size : Requests, align : Alignments]
  <2>1. p * PageSize \in Nat
    <3>1. \A x, y \in Nat : x * y \in Nat
      BY Z3
    <3> QED
      BY <1>2, <3>1
  <2> QED
    BY <2>1
<1>5. \A q \in Nat : computePageNumber(q * PageSize) = q
  <2> TAKE q \in Nat
  <2>1. (PageSize * q + 0) \div PageSize = q
    BY <1>2, Quotient
  <2>2. q * PageSize = PageSize * q + 0
    BY <1>2, Factor
  <2> QED
    BY <2>1, <2>2 DEF computePageNumber
<1>6. BigRun(new) = Run(p, n) /\ new.addr \in Nat
  BY <1>2, <1>3, <1>4, <1>5 DEF BigRun
<1>7. computePageNumber(new.addr) = p
  BY <1>2, <1>3, <1>5
<1>8. p \in Run(p, n) /\ \A q \in Run(p, n) : q \in Nat /\ q \notin MappedPages
  <2>1. Run(p, n) \subseteq PageNumbers \ MappedPages /\ PageNumbers \subseteq Nat
    BY <1>1 DEF Mappable, DieHarderSized
  <2>2. p \in Run(p, n)
    <3>1. Need(new) \in Nat \ {0} /\ Need(new) > MaxSize
      BY <1>1, <1>2, <1>3
    <3>2. new.addr = computePageNumber(new.addr) * PageSize
      BY <1>3, <1>7
    <3> HIDE DEF new
    <3>3. computePageNumber(new.addr) \in BigRun(new)
      BY <1>6, <3>1, <3>2, BigFacts
    <3> QED
      BY <1>6, <1>7, <3>3
  <2> QED
    BY <2>1, <2>2
<1> HIDE DEF n, new
<1>9. ASSUME NEW q \in Run(p, n) PROVE q * PageSize \notin DOMAIN big
  <2> DEFINE b == q * PageSize
  <2>1. computePageNumber(b) = q /\ q \notin MappedPages
    BY <1>5, <1>8
  <2> HIDE DEF b
  <2>2. b \notin DOMAIN big
    BY <2>1, MappedFacts
  <2> QED
    BY <2>2 DEF b
<1>10. TableInv'
  BY <1>1 DEF TableInv, Content, tableVars
<1>11. PagesInv'
  <2>1. ASSUME NEW h \in DOMAIN pages, NEW k \in DOMAIN pages[h], NEW a \in DOMAIN big'
        PROVE  computePageNumber(a) \notin RunOf(h, k)
    <3>1. CASE a \in DOMAIN big
      BY <3>1 DEF PagesInv
    <3>2. CASE a \in N
      <4>1. PICK q \in Run(p, n) : a = q * PageSize
        BY <3>2
      <4>2. computePageNumber(a) = q /\ q \notin MappedPages
        BY <1>5, <1>8, <4>1
      <4>3. RunOf(h, k) \subseteq MappedPages
        BY MappedFacts
      <4> QED
        BY <4>2, <4>3
    <3> QED
      BY <1>1, <3>1, <3>2
  <2> QED
    BY <1>1, <2>1 DEF PagesInv, Active, RunOf
<1>12. PendingInv'
  BY <1>1 DEF PendingInv
<1>13. \A o, g, j : InSlot(o, g, j)' <=> InSlot(o, g, j)
  BY <1>1, SameObjects DEF InSlot
<1>14. \A o : InTable(o) => InTable(o)'
  <2> SUFFICES ASSUME NEW o, InTable(o), NEW q \in BigRun(o)
               PROVE  q * PageSize \in DOMAIN big' /\ big'[q * PageSize] = big[q * PageSize]
    BY DEF InTable
  <2> DEFINE b == q * PageSize
  <2>1. b \in DOMAIN big
    BY DEF InTable
  <2> HIDE DEF b, N
  <2>2. b \in DOMAIN big' /\ big'[b] = big[b]
    BY <1>1, <2>1
  <2> QED
    BY <2>2 DEF b
<1>15. InTable(new)'
  <2>1. ASSUME NEW q \in Run(p, n)
        PROVE  /\ q * PageSize \in DOMAIN big'
               /\ big'[q * PageSize] = need - (q * PageSize - p * PageSize)
    <3> DEFINE b == q * PageSize
               t == p * PageSize
    <3>1. b \in N /\ b \notin DOMAIN big
      BY <1>9
    <3>2. big' = [a \in DOMAIN big \cup N |-> IF a \in DOMAIN big THEN big[a] ELSE need - (a - t)]
      BY <1>1
    <3> HIDE DEF b, N, t
    <3>3. b \in DOMAIN big' /\ big'[b] = need - (b - t)
      BY <3>1, <3>2
    <3> QED
      BY <3>3 DEF b, t
  <2>2. new.addr = computePageNumber(new.addr) * PageSize
    BY <1>3, <1>7
  <2> QED
    BY <1>1, <1>3, <1>6, <2>1, <2>2 DEF InTable
<1>16. \A o \in live : o.addr # new.addr
  BY <1>7, <1>8, ObjectsMapped
<1>17. \A o \in live : InTable(o) => BigRun(o) \cap BigRun(new) = {}
  BY <1>6, <1>8, ObjectsMapped
<1>18. ASSUME NEW o \in live, InTable(o)' PROVE InTable(o)
  <2>1. Need(o) > MaxSize
    BY <1>18 DEF InTable
  <2>2. Need(o) \in Nat /\ MaxSize \in Nat
    BY LiveFacts, ClassFacts
  <2>3. \A h, i : ~InSlot(o, h, i)
    BY <2>1, <2>2 DEF InSlot
  <2> QED
    BY <2>3 DEF LiveInv
<1>19. LiveInv'
  <2>1. live' \subseteq [addr : Nat, size : Requests, align : Alignments]
    BY <1>1, <1>4 DEF LiveInv, new
  <2>2. \A o \in live' : InTable(o)' \/ \E g \in DOMAIN pages', j \in Nat : InSlot(o, g, j)'
    BY <1>1, <1>13, <1>14, <1>15 DEF LiveInv
  <2>3. \A b \in bits' : \E o \in live', g \in DOMAIN pages', j \in Nat :
          b = <<g[1], g[2], j>> /\ InSlot(o, g, j)'
    BY <1>1, <1>13 DEF LiveInv
  <2>4. ASSUME NEW a \in DOMAIN big'
        PROVE  \E o \in live' : InTable(o)' /\ \E q \in BigRun(o) : a = q * PageSize
    <3>1. CASE a \in DOMAIN big
      BY <1>1, <1>14, <3>1 DEF LiveInv
    <3>2. CASE a \in N
      BY <1>1, <1>6, <1>15, <3>2
    <3> QED
      BY <1>1, <3>1, <3>2
  <2>5. \A o1, o2 \in live' : o1.addr = o2.addr => o1 = o2
    BY <1>1, <1>16 DEF LiveInv
  <2>6. \A o1, o2 \in live' : o1 # o2 /\ InTable(o1)' /\ InTable(o2)' =>
                                BigRun(o1) \cap BigRun(o2) = {}
    BY <1>1, <1>17, <1>18 DEF LiveInv
  <2>7. zeroed' = {}
    BY <1>1 DEF LiveInv
  <2> QED
    BY <2>1, <2>2, <2>3, <2>4, <2>5, <2>6, <2>7 DEF LiveInv
<1> QED
  BY <1>10, <1>11, <1>12, <1>19

\* Less of the table of larger objects, of the bits and of what the program
\* holds: what is left stays in order if each keeps what belongs to the others.
LEMMA FreeFrame ==
  ASSUME DieHarderSized, DieHarderIInv, NEW o0 \in live, live' = live \ {o0},
         bits' \subseteq bits, DOMAIN big' \subseteq DOMAIN big,
         UNCHANGED <<tableVars, pages, pending>>, zeroed' = {},
         \A o \in live', h \in DOMAIN pages, i \in Nat :
           InSlot(o, h, i) => <<h[1], h[2], i>> \in bits',
         \A o \in live' : InTable(o) => \A q \in BigRun(o) :
           q * PageSize \in DOMAIN big' /\ big'[q * PageSize] = big[q * PageSize],
         \A h \in DOMAIN pages, i \in Nat : InSlot(o0, h, i) => <<h[1], h[2], i>> \notin bits',
         InTable(o0) => \A q \in BigRun(o0) : q * PageSize \notin DOMAIN big',
         \A a \in DOMAIN big' : big'[a] = big[a]
  PROVE  DieHarderIInv'
<1> USE DEF DieHarderIInv
<1>1. TableInv' /\ PagesInv'
  BY SamePages
<1>2. PendingInv'
  BY DEF PendingInv
<1>3. \A o \in live', g \in DOMAIN pages, j \in Nat : InSlot(o, g, j) => InSlot(o, g, j)'
  BY SameObjects DEF InSlot
<1>4. \A o \in live' : InTable(o) => InTable(o)'
  BY DEF InTable
<1>5. ASSUME NEW o \in live', InTable(o)' PROVE InTable(o)
  <2>1. Need(o) > MaxSize
    BY <1>5 DEF InTable
  <2>2. Need(o) \in Nat /\ MaxSize \in Nat
    BY LiveFacts, ClassFacts
  <2>3. ~(Need(o) <= MaxSize)
    BY <2>1, <2>2
  <2>4. \A h, i : ~InSlot(o, h, i)
    BY <2>3 DEF InSlot
  <2> QED
    BY <2>4 DEF LiveInv
<1>6. LiveInv'
  <2>1. live' \subseteq [addr : Nat, size : Requests, align : Alignments]
    BY DEF LiveInv
  <2>2. \A o \in live' : InTable(o)' \/ \E g \in DOMAIN pages', j \in Nat : InSlot(o, g, j)'
    BY <1>3, <1>4 DEF LiveInv
  <2>3. ASSUME NEW b \in bits'
        PROVE  \E o \in live', g \in DOMAIN pages', j \in Nat :
                 b = <<g[1], g[2], j>> /\ InSlot(o, g, j)'
    <3>1. PICK o \in live, g \in DOMAIN pages, j \in Nat : b = <<g[1], g[2], j>> /\ InSlot(o, g, j)
      BY DEF LiveInv
    <3>2. o \in live'
      BY <3>1
    <3> QED
      BY <1>3, <3>1, <3>2
  <2>4. ASSUME NEW a \in DOMAIN big'
        PROVE  \E o \in live' : InTable(o)' /\ \E q \in BigRun(o) : a = q * PageSize
    <3>1. PICK o \in live : InTable(o) /\ \E q \in BigRun(o) : a = q * PageSize
      BY DEF LiveInv
    <3>2. o \in live'
      BY <3>1
    <3> QED
      BY <1>4, <3>1, <3>2
  <2>5. \A o1, o2 \in live' : o1.addr = o2.addr => o1 = o2
    BY DEF LiveInv
  <2>6. \A o1, o2 \in live' : o1 # o2 /\ InTable(o1)' /\ InTable(o2)' =>
                                BigRun(o1) \cap BigRun(o2) = {}
    BY <1>5 DEF LiveInv
  <2> QED
    BY <2>1, <2>2, <2>3, <2>4, <2>5, <2>6 DEF LiveInv
<1> QED
  BY <1>1, <1>2, <1>6

\* The program frees an address that is not inside an object, so what the
\* address belongs to begins there.
LEMMA FreeSmallKeeps ==
  ASSUME DieHarderSized, DieHarderIInv, NEW a \in Nat, ~Interior(a),
         FreeSmall(a),
         UNCHANGED <<tableVars, pages, pending>>
  PROVE  DieHarderIInv'
<1> USE DEF DieHarderIInv
<1> DEFINE entry == getEntry(computePageNumber(a))
           i == computeIndex(entry, a)
           slot == <<entry.heap[1], entry.heap[2], i>>
<1>1. /\ entry # Nothing /\ slot \in bits /\ bits' = bits \ {slot}
      /\ live' = {o \in live : o.addr # a} /\ UNCHANGED big
      /\ zeroed' = (zeroed \cup Run(a, getClassSize(entry.heap[1]))) \cap LiveAddresses(live')
  BY DEF FreeSmall
<1>2. PICK h \in DOMAIN pages : \E l \in DOMAIN pages[h] : computePageNumber(a) \in RunOf(h, l)
  <2>1. computePageNumber(a) \in Nat
    BY ClassFacts, Division DEF computePageNumber
  <2> HIDE DEF entry
  <2> QED
    BY <1>1, <2>1, EntryFacts DEF entry
<1>2b. PICK k \in DOMAIN pages[h] : computePageNumber(a) \in RunOf(h, k)
  BY <1>2
<1>3. /\ entry.heap = h /\ i \in Nat /\ a \in Run(getObject(h, i), getClassSize(h[1]))
  BY <1>2b, AddressPlace
<1>4. PICK o0 \in live, g \in DOMAIN pages, j \in Nat : slot = <<g[1], g[2], j>> /\ InSlot(o0, g, j)
  BY <1>1 DEF LiveInv
<1> HIDE DEF i, entry
<1>5. g = h /\ j = i
  <2>1. g[1] = h[1] /\ g[2] = h[2] /\ j = i
    BY <1>3, <1>4
  <2>2. g \in Class \X Nat /\ h \in Class \X Nat
    BY DEF PagesInv
  <2> QED
    BY <2>1, <2>2
<1>6. o0.addr \in Nat /\ Need(o0) \in Nat \ {0}
  BY LiveFacts
<1>7. AddressesOf(o0) = Run(getObject(h, i), getClassSize(h[1])) /\ o0.addr = getObject(h, i)
  BY <1>4, <1>5, <1>6, SmallFacts DEF InSlot
<1>8. a = o0.addr
  BY <1>3, <1>7 DEF Interior
<1>9. live' = live \ {o0}
  BY <1>1, <1>8 DEF LiveInv
<1>10. zeroed' = {}
  <2>1. zeroed' = AddressesOf(o0) \cap LiveAddresses(live')
    BY <1>1, <1>3, <1>7, <1>8 DEF LiveInv
  <2> SUFFICES ASSUME NEW x \in zeroed' PROVE FALSE
    OBVIOUS
  <2>2. PICK o \in live' : x \in AddressesOf(o)
    BY <2>1 DEF LiveAddresses, AddressesOf
  <2>3. o = o0
    BY <1>9, <2>1, <2>2, LiveApart
  <2> QED
    BY <1>9, <2>3
<1>11. slot = <<h[1], h[2], i>>
  BY <1>3
<1>12. ASSUME NEW o \in live', NEW f \in DOMAIN pages, NEW l \in Nat, InSlot(o, f, l)
       PROVE  <<f[1], f[2], l>> \in bits'
  <2>1. <<f[1], f[2], l>> \in bits
    BY <1>12 DEF InSlot
  <2> SUFFICES ASSUME <<f[1], f[2], l>> = <<h[1], h[2], i>> PROVE FALSE
    BY <1>1, <1>11, <2>1
  <2>2. f[1] = h[1] /\ f[2] = h[2] /\ l = i
    OBVIOUS
  <2>3. f \in Class \X Nat /\ h \in Class \X Nat
    BY DEF PagesInv
  <2>4. f = h
    BY <2>2, <2>3
  <2>5. o.addr = a
    BY <1>7, <1>8, <1>12, <2>2, <2>4 DEF InSlot
  <2> QED
    BY <1>1, <2>5
<1>13. ~InTable(o0)
  <2>1. MaxSize \in Nat /\ Need(o0) <= MaxSize
    BY <1>4, ClassFacts DEF InSlot
  <2> QED
    BY <1>6, <2>1 DEF InTable
<1>14. ASSUME NEW f \in DOMAIN pages, NEW l \in Nat, InSlot(o0, f, l)
       PROVE  <<f[1], f[2], l>> \notin bits'
  <2>1. f = h /\ l = i
    <3>1. o0.addr \in AddressesOf(o0)
      BY <1>4, <1>6, SmallFacts
    <3>2. /\ getEntry(computePageNumber(a)).heap = f
          /\ computeIndex(getEntry(computePageNumber(a)), a) = l
      BY <1>6, <1>8, <1>14, <3>1, SmallFacts
    <3> QED
      BY <1>3, <3>2 DEF i, entry
  <2> QED
    BY <1>1, <1>11, <2>1
<1>15. bits' \subseteq bits
  BY <1>1
<1>16. \A o \in live' : InTable(o) => \A q \in BigRun(o) :
         q * PageSize \in DOMAIN big' /\ big'[q * PageSize] = big[q * PageSize]
  BY <1>1, <1>9 DEF InTable
<1> QED
  BY <1>1, <1>9, <1>10, <1>12, <1>13, <1>14, <1>15, <1>16, FreeFrame

\* The entries of a larger object go, and those of the others stay.
LEMMA FreeBigKeeps ==
  ASSUME DieHarderSized, DieHarderIInv, NEW a \in Nat, ~Interior(a),
         FreeBig(a),
         UNCHANGED <<tableVars, pages, pending>>
  PROVE  DieHarderIInv'
<1> USE DEF DieHarderIInv
<1>1. /\ a \in DOMAIN big /\ big' = [b \in DOMAIN big \ Run(a, big[a]) |-> big[b]]
      /\ live' = {o \in live : o.addr # a} /\ UNCHANGED <<bits, zeroed>>
  BY DEF FreeBig
<1>2. PICK o0 \in live : InTable(o0) /\ \E q \in BigRun(o0) : a = q * PageSize
  BY <1>1 DEF LiveInv
<1>3. o0.addr \in Nat /\ Need(o0) \in Nat \ {0}
  BY LiveFacts
<1>4. /\ \A q \in BigRun(o0) : q * PageSize \in AddressesOf(o0)
      /\ AddressesOf(o0) = o0.addr .. o0.addr + Need(o0) - 1
  BY <1>2, <1>3, BigFacts DEF InTable
<1>5. a = o0.addr
  BY <1>2, <1>4 DEF Interior
<1>6. big[a] = Need(o0)
  BY <1>2, <1>3, <1>5, LargerFacts
<1>7. DOMAIN big' = DOMAIN big \ AddressesOf(o0) /\ \A b \in DOMAIN big' : big'[b] = big[b]
  <2>1. Run(a, big[a]) = AddressesOf(o0)
    BY <1>4, <1>5, <1>6 DEF Run
  <2> QED
    BY <1>1, <2>1
<1>8. live' = live \ {o0}
  BY <1>1, <1>5 DEF LiveInv
<1>9. ASSUME NEW o \in live', InTable(o), NEW q \in BigRun(o)
      PROVE  q * PageSize \in DOMAIN big' /\ big'[q * PageSize] = big[q * PageSize]
  <2> DEFINE b == q * PageSize
  <2>1. o \in live /\ o # o0 /\ o.addr \in Nat /\ Need(o) \in Nat \ {0}
    BY <1>8, LiveFacts
  <2>2. b \in AddressesOf(o)
    BY <1>9, <2>1, BigFacts DEF InTable
  <2>3. b \in DOMAIN big
    BY <1>9 DEF InTable
  <2> HIDE DEF b
  <2>4. b \notin AddressesOf(o0)
    BY <2>1, <2>2, LiveApart
  <2>5. b \in DOMAIN big' /\ big'[b] = big[b]
    BY <1>7, <2>3, <2>4
  <2> QED
    BY <2>5 DEF b
<1>10. \A h \in DOMAIN pages, i \in Nat : ~InSlot(o0, h, i)
  <2>1. MaxSize \in Nat /\ Need(o0) > MaxSize
    BY <1>2, ClassFacts DEF InTable
  <2> QED
    BY <1>3, <2>1 DEF InSlot
<1>11. \A q \in BigRun(o0) : q * PageSize \notin DOMAIN big'
  BY <1>4, <1>7
<1>12. \A o \in live', h \in DOMAIN pages, i \in Nat :
         InSlot(o, h, i) => <<h[1], h[2], i>> \in bits'
  BY <1>1 DEF InSlot
<1>13. bits' \subseteq bits /\ zeroed' = {} /\ DOMAIN big' \subseteq DOMAIN big
  BY <1>1, <1>7 DEF LiveInv
<1> QED
  BY <1>7, <1>8, <1>9, <1>10, <1>11, <1>12, <1>13, FreeFrame

\* A step that changes none of what the invariant is about.
LEMMA FreeNothingKeeps ==
  ASSUME DieHarderIInv, UNCHANGED <<tableVars, pages, pending, bits, big,
         live, zeroed>>
  PROVE  DieHarderIInv'
<1> USE DEF DieHarderIInv
<1>1. TableInv' /\ PagesInv'
  BY SamePages
<1>2. PendingInv'
  BY DEF PendingInv
<1>3. \A o, h, i : InSlot(o, h, i)' <=> InSlot(o, h, i)
  BY SameObjects DEF InSlot
<1>4. \A o : InTable(o)' <=> InTable(o)
  BY DEF InTable
<1>5. LiveInv'
  BY <1>3, <1>4 DEF LiveInv
<1> QED
  BY <1>1, <1>2, <1>5

\* The next miniheap of a class is a new one, and with it the miniheaps of the
\* class are numbered from 0 again.
LEMMA NextMiniHeapFacts ==
  ASSUME PagesInv, NEW c \in Class
  PROVE  /\ NextMiniHeap(c) \in Class \X Nat /\ NextMiniHeap(c)[1] = c
         /\ NextMiniHeap(c) \notin DOMAIN pages
         /\ \E k \in Nat : Active(c) \cup {NextMiniHeap(c)} = {<<c, m>> : m \in 0 .. k - 1}
<1>1. PICK k \in Nat : Active(c) = {<<c, m>> : m \in 0 .. k - 1}
  BY DEF PagesInv
<1>2. Cardinality(Active(c)) = k
  <2> DEFINE I == 0 .. k - 1
             f == [m \in I |-> <<c, m>>]
  <2>1. IsFiniteSet(I) /\ Cardinality(I) = k
    BY FS_Interval
  <2>2. f \in Bijection(I, Active(c))
    <3>1. f \in [I -> Active(c)] /\ \A x \in Active(c) : \E m \in I : f[m] = x
      BY <1>1
    <3>2. \A m, l \in I : f[m] = f[l] => m = l
      OBVIOUS
    <3> HIDE DEF f
    <3> QED
      BY <3>1, <3>2 DEF Bijection, Injection, Surjection, IsInjective
  <2> QED
    BY <2>1, <2>2, FS_Bijection DEF ExistsBijection
<1>3. NextMiniHeap(c) = <<c, k>>
  BY <1>2 DEF NextMiniHeap
<1>4. <<c, k>> \notin Active(c)
  BY <1>1
<1>5. Active(c) \cup {<<c, k>>} = {<<c, m>> : m \in 0 .. (k + 1) - 1}
  <2>1. 0 .. (k + 1) - 1 = (0 .. k - 1) \cup {k}
    OBVIOUS
  <2> QED
    BY <1>1, <2>1
<1>6. \E l \in Nat : Active(c) \cup {<<c, k>>} = {<<c, m>> : m \in 0 .. l - 1}
  <2>1. k + 1 \in Nat
    OBVIOUS
  <2> QED
    BY <1>5, <2>1
<1>7. NextMiniHeap(c) \in Class \X Nat /\ NextMiniHeap(c)[1] = c
  BY <1>3
<1>8. NextMiniHeap(c) \notin DOMAIN pages
  BY <1>3, <1>4, <1>7 DEF Active
<1> QED
  BY <1>3, <1>6, <1>7, <1>8

\* activate gives the miniheap new pages and an entry for each.
LEMMA ActivateKeeps ==
  ASSUME DieHarderSized, TableInv, PagesInv, LiveInv, NEW c \in Class,
         NEW f \in [1 .. NumEntries(NextMiniHeap(c)) -> PageNumbers], internalActivate(c, f),
         UNCHANGED <<bits, big, live, zeroed>>
  PROVE  TableInv' /\ PagesInv' /\ LiveInv'
<1>1. PICK h : h = NextMiniHeap(c)
  OBVIOUS
<1>2. /\ h \in Class \X Nat /\ h[1] = c /\ h \notin DOMAIN pages
      /\ \E k \in Nat : Active(c) \cup {h} = {<<c, m>> : m \in 0 .. k - 1}
  BY <1>1, NextMiniHeapFacts
<1> DEFINE n == PagesPerObject(c)
           M == NumEntries(h)
<1>3. /\ \A k \in DOMAIN f : Mappable(f[k], n)
      /\ \A k, l \in DOMAIN f : k # l => Run(f[k], n) \cap Run(f[l], n) = {}
      /\ entries' = InsertAll(h, f).t /\ size' = InsertAll(h, f).n /\ pages' = Put(pages, h, f)
  BY <1>1, <1>2 DEF internalActivate
<1>4. n \in Nat \ {0} /\ M \in Nat /\ f \in [1 .. M -> Nat] /\ f \in [1 .. M -> PageNumbers]
  <2>1. n \in Nat \ {0} /\ M \in Nat
    BY <1>2, ClassFacts, MiniHeapFacts
  <2>2. f \in [1 .. M -> PageNumbers]
    BY <1>1
  <2>3. PageNumbers \subseteq Nat
    BY DEF DieHarderSized
  <2> HIDE DEF M
  <2> QED
    BY <2>1, <2>2, <2>3
<1>5. /\ DOMAIN pages' = DOMAIN pages \cup {h} /\ pages'[h] = f
      /\ \A g \in DOMAIN pages : pages'[g] = pages[g]
  BY <1>2, <1>3 DEF Put
<1> HIDE DEF n, M
<1>6. ASSUME NEW k \in 1 .. M PROVE Run(f[k], n) \cap MappedPages = {}
  BY <1>3, <1>4 DEF Mappable
<1>7. TableInv'
  <2>1. ASSUME NEW s \in DOMAIN entries, NEW k \in 1 .. M PROVE entries[s].page \notin Run(f[k], n)
    <3>1. entries[s] \in UNION {EntriesOf(g, pages[g]) : g \in DOMAIN pages}
      BY DEF TableInv, Content
    <3>2. PICK g \in DOMAIN pages : entries[s] \in EntriesOf(g, pages[g])
      BY <3>1
    <3>3. PICK l \in DOMAIN pages[g], p \in 0 .. PagesPerObject(g[1]) - 1 :
            entries[s] = PageTableEntry(pages[g][l] + p, g, IndexOfEntry(g[1], l))
      BY <3>2 DEF EntriesOf
    <3>4. entries[s].page = pages[g][l] + p
      BY <3>3 DEF PageTableEntry
    <3>5. pages[g][l] \in Nat /\ PagesPerObject(g[1]) \in Nat
      BY ClassFacts DEF PagesInv, DieHarderSized
    <3>6. entries[s].page \in RunOf(g, l)
      BY <3>4, <3>5 DEF RunOf, Run
    <3> QED
      BY <1>6, <3>6, MappedFacts
  <2>2. /\ Probed(InsertAll(h, f).t, InsertAll(h, f).n)
        /\ Loaded(InsertAll(h, f).t, InsertAll(h, f).n)
        /\ Content(InsertAll(h, f).t) = Content(entries) \cup EntriesOf(h, f)
    <3>1. Probed(entries, size) /\ Loaded(entries, size)
      BY DEF TableInv
    <3>2. PagesPerObject(h[1]) = n
      BY <1>2 DEF n
    <3>3. DOMAIN f = 1 .. M
      BY <1>4
    <3>4. \A k, l \in 1 .. M : k # l => Run(f[k], n) \cap Run(f[l], n) = {}
      BY <1>3, <3>3
    <3> QED
      BY <1>4, <2>1, <3>1, <3>2, <3>4, InsertAllFacts
  <2>3. (UNION {EntriesOf(g, pages'[g]) : g \in DOMAIN pages'})
          = (UNION {EntriesOf(g, pages[g]) : g \in DOMAIN pages}) \cup EntriesOf(h, f)
    BY <1>5
  <2>4. Content(entries') = UNION {EntriesOf(g, pages'[g]) : g \in DOMAIN pages'}
    BY <1>3, <2>2, <2>3 DEF TableInv
  <2> QED
    BY <1>3, <2>2, <2>4 DEF TableInv, Content
<1>8. /\ \A k : RunOf(h, k)' = Run(f[k], n)
      /\ \A g \in DOMAIN pages : \A k : RunOf(g, k)' = RunOf(g, k)
  BY <1>2, <1>5 DEF RunOf, n
<1>9. PagesInv'
  <2>1. DOMAIN pages' \subseteq Class \X Nat
    BY <1>2, <1>5 DEF PagesInv
  <2>2. ASSUME NEW d \in Class PROVE \E k \in Nat : Active(d)' = {<<d, m>> : m \in 0 .. k - 1}
    <3>1. CASE d = c
      <4>1. Active(d)' = Active(c) \cup {h}
        BY <1>2, <1>5, <3>1 DEF Active
      <4> QED
        BY <1>2, <3>1, <4>1
    <3>2. CASE d # c
      <4>1. Active(d)' = Active(d)
        BY <1>2, <1>5, <3>2 DEF Active
      <4> QED
        BY <4>1 DEF PagesInv
    <3> QED
      BY <3>1, <3>2
  <2>3. \A g \in DOMAIN pages' : pages'[g] \in [1 .. NumEntries(g) -> PageNumbers]
    BY <1>4, <1>5 DEF PagesInv, M
  <2>4. ASSUME NEW g \in DOMAIN pages, NEW k \in 1 .. M, NEW l \in DOMAIN pages[g]
        PROVE  RunOf(h, k)' \cap RunOf(g, l)' = {}
    BY <1>6, <1>8, MappedFacts
  <2>5. \A k, l \in 1 .. M : k # l => RunOf(h, k)' \cap RunOf(h, l)' = {}
    BY <1>3, <1>4, <1>8
  <2>6. ASSUME NEW g1 \in DOMAIN pages', NEW g2 \in DOMAIN pages',
               NEW k \in DOMAIN pages'[g1], NEW l \in DOMAIN pages'[g2], g1 # g2 \/ k # l
        PROVE  RunOf(g1, k)' \cap RunOf(g2, l)' = {}
    <3>1. CASE g1 \in DOMAIN pages /\ g2 \in DOMAIN pages
      BY <1>5, <1>8, <2>6, <3>1 DEF PagesInv
    <3>2. CASE g1 = h /\ g2 \in DOMAIN pages
      BY <1>4, <1>5, <2>4, <3>2
    <3>3. CASE g1 \in DOMAIN pages /\ g2 = h
      BY <1>4, <1>5, <2>4, <3>3
    <3>4. CASE g1 = h /\ g2 = h
      BY <1>4, <1>5, <2>5, <2>6, <3>4
    <3> QED
      BY <1>5, <3>1, <3>2, <3>3, <3>4
  <2>7. ASSUME NEW g \in DOMAIN pages', NEW k \in DOMAIN pages'[g], NEW a \in DOMAIN big
        PROVE  computePageNumber(a) \notin RunOf(g, k)'
    <3>1. CASE g \in DOMAIN pages
      BY <1>5, <1>8, <3>1 DEF PagesInv
    <3>2. CASE g = h
      <4>1. k \in 1 .. M /\ RunOf(g, k)' = Run(f[k], n)
        BY <1>4, <1>5, <1>8, <3>2
      <4>2. computePageNumber(a) \in MappedPages
        BY MappedFacts
      <4> QED
        BY <1>6, <4>1, <4>2
    <3> QED
      BY <1>5, <3>1, <3>2
  <2> QED
    BY <2>1, <2>2, <2>3, <2>6, <2>7 DEF PagesInv
<1>10. LiveInv'
  <2>1. \A o, g, i : InSlot(o, g, i) => InSlot(o, g, i)'
    BY <1>5, SameObjects DEF InSlot
  <2>2. \A o : InTable(o)' <=> InTable(o)
    BY DEF InTable
  <2>3. \A o \in live' : InTable(o)' \/ \E g \in DOMAIN pages', i \in Nat : InSlot(o, g, i)'
    BY <1>5, <2>1, <2>2 DEF LiveInv
  <2>4. \A b \in bits' : \E o \in live', g \in DOMAIN pages', i \in Nat :
          b = <<g[1], g[2], i>> /\ InSlot(o, g, i)'
    BY <1>5, <2>1 DEF LiveInv
  <2> QED
    BY <2>2, <2>3, <2>4 DEF LiveInv
<1> QED
  BY <1>7, <1>9, <1>10

\* malloc of a size class, with a new miniheap or without.
LEMMA MallocSmallKeeps ==
  ASSUME DieHarderSized, DieHarderIInv, NEW sz \in Requests,
         NEW al \in Alignments,
         MallocSmall(sz, al)
  PROVE  DieHarderIInv'
<1> USE DEF DieHarderIInv
<1> DEFINE c == getIndex(xxmemalign(sz, al))
<1>1. /\ xxmemalign(sz, al) <= MaxSize
      /\ \/ UNCHANGED <<tableVars, pages>>
         \/ \E f \in [1 .. NumEntries(NextMiniHeap(c)) -> PageNumbers] : internalActivate(c, f)
      /\ pending' = [size |-> sz, align |-> al, class |-> c]
      /\ UNCHANGED <<bits, big, live, zeroed>>
  BY DEF MallocSmall
<1>2. c \in Class
  BY <1>1, NeedFacts, ClassFacts
<1> HIDE DEF c
<1>3. PendingInv'
  <2> DEFINE w == [size |-> sz, align |-> al, class |-> c]
  <2>1. /\ w \in [size : Requests, align : Alignments, class : Class]
        /\ w.size = sz /\ w.align = al /\ w.class = c
    BY <1>2
  <2>2. pending' \in [size : Requests, align : Alignments, class : Class]
    BY <1>1, <2>1
  <2>3. pending'.size = sz /\ pending'.align = al /\ pending'.class = c
    BY <1>1
  <2> QED
    BY <1>1, <2>2, <2>3 DEF PendingInv, Need, c
<1>4. CASE UNCHANGED <<tableVars, pages>>
  <2>1. TableInv' /\ PagesInv'
    BY <1>1, <1>4, SamePages
  <2>2. \A o, h, i : InSlot(o, h, i)' <=> InSlot(o, h, i)
    BY <1>1, <1>4, SameObjects DEF InSlot
  <2>3. \A o : InTable(o)' <=> InTable(o)
    BY <1>1 DEF InTable
  <2>4. LiveInv'
    BY <1>1, <1>4, <2>2, <2>3 DEF LiveInv
  <2> QED
    BY <1>3, <2>1, <2>4
<1>5. CASE \E f \in [1 .. NumEntries(NextMiniHeap(c)) -> PageNumbers] : internalActivate(c, f)
  BY <1>1, <1>2, <1>3, <1>5, ActivateKeeps
<1> QED
  BY <1>1, <1>4, <1>5

\* Every step keeps the invariant.
LEMMA DieHarderStep ==
  ASSUME DieHarderSized, DieHarderIInv, [Next]_vars
  PROVE  DieHarderIInv'
<1>1. ASSUME NEW sz \in Requests, NEW al \in Alignments, MallocSmall(sz, al) PROVE DieHarderIInv'
  BY <1>1, MallocSmallKeeps
<1>2. ASSUME NEW sz \in Requests, NEW al \in Alignments, NEW p \in PageNumbers,
             MallocBig(sz, al, p)
      PROVE  DieHarderIInv'
  BY <1>2, MallocBigKeeps
<1>3. ASSUME NEW h \in DOMAIN pages, NEW i \in 0 .. NObjects(h) - 1, Place(h, i)
      PROVE  DieHarderIInv'
  BY <1>3, PlaceKeeps
<1>4. ASSUME NEW a \in UsedAddresses, Free(a) PROVE DieHarderIInv'
  <2>1. a \in Nat
    <3>1. PICK p \in PageNumbers : a \in Run(p * PageSize, PageSize)
      BY DEF UsedAddresses
    <3>2. p \in Nat /\ PageSize \in Nat
      BY ClassFacts DEF DieHarderSized
    <3>3. p * PageSize \in Nat
      <4>1. \A x, y \in Nat : x * y \in Nat
        BY Z3
      <4> QED
        BY <3>2, <4>1
    <3> QED
      BY <3>1, <3>2, <3>3 DEF Run
  <2>2. ~Interior(a) /\ UNCHANGED <<tableVars, pages, pending>>
    BY <1>4 DEF Free
  <2>3. CASE FreeSmall(a)
    BY <2>1, <2>2, <2>3, FreeSmallKeeps
  <2>4. CASE FreeBig(a)
    BY <2>1, <2>2, <2>4, FreeBigKeeps
  <2>5. CASE FreeNothing(a)
    BY <2>2, <2>5, FreeNothingKeeps DEF FreeNothing
  <2> QED
    BY <1>4, <2>3, <2>4, <2>5 DEF Free
<1>5. CASE UNCHANGED vars
  BY <1>5, FreeNothingKeeps DEF vars, tableVars
<1> QED
  BY <1>1, <1>2, <1>3, <1>4, <1>5 DEF Next

-----------------------------------------------------------------------------
(* The theorems *)

\* The invariant holds of every behaviour of DieHarder.
THEOREM DieHarderInvariant == DieHarderSized /\ Spec => []DieHarderIInv
<1> SUFFICES ASSUME DieHarderSized PROVE Spec => []DieHarderIInv
  OBVIOUS
<1>1. Init => DieHarderIInv
  BY DieHarderInit
<1>2. DieHarderIInv /\ [Next]_vars => DieHarderIInv'
  BY DieHarderStep
<1> QED
  BY <1>1, <1>2, PTL DEF Spec

\* The page table gives each page of a miniheap with the index of its first
\* object, through every collision and every growth of the table, and no other
\* page: DynamicHashTable's insert, grow and get.
THEOREM PageTableExactAlways == DieHarderSized /\ Spec => []PageTableExact
<1> SUFFICES ASSUME DieHarderSized PROVE Spec => []PageTableExact
  OBVIOUS
<1>1. DieHarderIInv => PageTableExact
  BY PageTableIsExact DEF DieHarderIInv
<1> QED
  BY <1>1, DieHarderInvariant, PTL

\* What the program holds stays allocated, aligned and apart from the rest, and
\* free clears no part of it: malloc, memalign and free of DieHarder.
THEOREM LiveKeptAlways == DieHarderSized /\ Spec => []LiveKept
<1> SUFFICES ASSUME DieHarderSized PROVE Spec => []LiveKept
  OBVIOUS
<1>1. DieHarderIInv => LiveKept
  BY LiveIsKept DEF DieHarderIInv
<1> QED
  BY <1>1, DieHarderInvariant, PTL

\* getSize gives the distance to the end of the object, from each of its units.
THEOREM SizesExactAlways == DieHarderSized /\ Spec => []SizesExact
<1> SUFFICES ASSUME DieHarderSized PROVE Spec => []SizesExact
  OBVIOUS
<1>1. DieHarderIInv => SizesExact
  BY SizesAreExact DEF DieHarderIInv
<1> QED
  BY <1>1, DieHarderInvariant, PTL

==============================================================================
