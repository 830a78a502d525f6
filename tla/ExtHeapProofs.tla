--------------------------- MODULE ExtHeapProofs ---------------------------
(***************************************************************************)
(* Proofs about Exterminator's heap, for every number of size classes,     *)
(* size of the partitions, patch and program, erring ones included.        *)
(***************************************************************************)
EXTENDS ExtHeap, FiniteSetTheorems, WellFoundedInduction, TLAPS

----------------------------------------------------------------------------
(* The inductive invariant *)

TypeInv ==
  /\ status \in {"run", "aborting", "suicide", "dead"}
  /\ global_ct \in 0 .. MaxAllocs /\ bad \in BOOLEAN
  /\ allocated \subseteq Slots /\ hasData \subseteq Slots
  /\ canary \subseteq Slots /\ live \subseteq Slots
  /\ requested \in [Classes -> Int]
  /\ info \in [Slots -> [id : Nat, alloc : Sites \cup {0}]]
  /\ pqueue \in Seq([ptr : Slots, death : Int]) /\ Len(pqueue) <= PQUEUE_SIZE
  /\ mapped \subseteq Pages /\ errors \in Nat

\* The call in progress: an object that realloc replaces is still held, the
\* class that is probed exists, and a call not yet counted can be counted.
CallInv ==
  /\ \/ call = Idle
     \/ call \in [op : {"due", "direct"}, size : Nat, site : Sites,
                  old : live \cup {NULL}]
     \/ call \in [op : {"probe"}, size : Nat, site : Sites,
                  old : live \cup {NULL}, class : Classes]
     \/ call \in [op : {"free"}, ptr : live, site : Sites]
  /\ call.op = "due" => global_ct < MaxAllocs

\* As long as the program wrote nowhere it must not, a slot that is not
\* filled with the sentinel is known to hold data.
BadInv ==
  /\ errors = 0 => Slots \subseteq hasData \cup canary
  /\ bad => errors > 0
  /\ status = "aborting" => bad

\* Every request and free is counted, but for what the code leaves uncounted.
CountInv ==
  /\ marked \subseteq allocated
  /\ doubleFrees \in [Classes -> Nat]
  /\ \A c \in Classes :
       requested[c] = InClass(allocated, c) - InClass(marked, c) - doubleFrees[c]

\* A slot whose free is deferred is allocated and not held, a held one is
\* allocated and has data, unless it was freed twice; one that is queued twice
\* was freed twice.
KeptInv ==
  /\ \A i, j \in DOMAIN pqueue :
       i # j /\ pqueue[i].ptr = pqueue[j].ptr => pqueue[i].ptr \in twice
  /\ \A s \in Deferred : s \in twice \/ (s \in allocated /\ s \notin live)
  /\ \A s \in live : s \in twice \/ (s \in allocated /\ s \in hasData)

\* The identities given out so far; the one of the call that probes is new.
IdInv ==
  /\ \A s \in Slots : /\ info[s].id <= global_ct
                      /\ call.op = "probe" => info[s].id < global_ct
  /\ \A s \in live : info[s].id >= 1
  /\ \A s, t \in live : s # t => info[s].id # info[t].id
  /\ call.op = "probe" => global_ct >= 1

\* While no small object is mapped directly, every direct object fills more
\* than an entry's worth of pages of its own, so that the entry is its own too.
LosInv ==
  /\ DOMAIN los = {getIndex(p) : p \in Pages}
  /\ losCt = Cardinality({g \in DOMAIN los : los[g].size # 0})
  /\ \A d \in liveDirect : d.ptr \in Pages
  /\ smallDirect \in BOOLEAN
  /\ ~smallDirect =>
       /\ \A d \in liveDirect :
            /\ d.size = PagesPerIndex + 1
            /\ los[getIndex(d.ptr)].size = d.size
            /\ PageRun(d.ptr, d.size) \subseteq mapped
       /\ \A d, e \in liveDirect :
            d # e => PageRun(d.ptr, d.size) \cap PageRun(e.ptr, e.size) = {}

IInv ==
  /\ TypeInv /\ CallInv /\ BadInv /\ CountInv
  /\ KeptInv /\ IdInv /\ LosInv

----------------------------------------------------------------------------
(* Lemmas about numbers *)

\* A power of two is a positive natural number, and the next is its double.
LEMMA PowerOfTwo ==
  ASSUME NEW n \in Nat
  PROVE  2 ^ n \in Nat \ {0} /\ 2 ^ (n + 1) = 2 * 2 ^ n
<1> DEFINE S == SUBSET (1 .. n)
           Add(T) == T \cup {n + 1}
           f == [T \in S |-> Add(T)]
           With == {Add(T) : T \in S}
<1>1. IsFiniteSet(1 .. n) /\ Cardinality(1 .. n) = n
  BY FS_Interval
<1>2. IsFiniteSet(S) /\ Cardinality(S) = 2 ^ n
  BY <1>1, FS_SUBSET
<1>3. IsFiniteSet(1 .. n + 1) /\ Cardinality(1 .. n + 1) = n + 1
  BY FS_Interval
<1>4. Cardinality(SUBSET (1 .. n + 1)) = 2 ^ (n + 1)
  BY <1>3, FS_SUBSET
<1>5. f \in Bijection(S, With)
  <2>1. f \in Surjection(S, With)
    BY DEF Surjection
  <2>2. \A T, U \in S : Add(T) = Add(U) => T = U
    <3> SUFFICES ASSUME NEW T \in S, NEW U \in S, Add(T) = Add(U) PROVE T = U
      OBVIOUS
    <3>1. n + 1 \notin T /\ n + 1 \notin U
      OBVIOUS
    <3> QED
      BY <3>1
  <2>3. f \in Injection(S, With)
    <3>1. f \in [S -> With] /\ \A T \in S : f[T] = Add(T)
      OBVIOUS
    <3> HIDE DEF f, S, With, Add
    <3> QED
      BY <2>2, <3>1 DEF Injection, IsInjective
  <2> QED
    BY <2>1, <2>3 DEF Bijection
<1>6. IsFiniteSet(With) /\ Cardinality(With) = 2 ^ n
  BY <1>2, <1>5, FS_Bijection DEF ExistsBijection
<1>7. S \cap With = {}
  OBVIOUS
<1>8. SUBSET (1 .. n + 1) = S \cup With
  <2>1. ASSUME NEW T \in SUBSET (1 .. n + 1) PROVE T \in S \cup With
    <3>1. CASE n + 1 \in T
      <4>1. T \ {n + 1} \in S /\ Add(T \ {n + 1}) = T
        BY <3>1
      <4> QED
        BY <4>1
    <3>2. CASE n + 1 \notin T
      BY <3>2
    <3> QED
      BY <3>1, <3>2
  <2>2. ASSUME NEW T \in S PROVE T \subseteq 1 .. n + 1 /\ Add(T) \subseteq 1 .. n + 1
    OBVIOUS
  <2>3. S \cup With \subseteq SUBSET (1 .. n + 1)
    BY <2>2
  <2> QED
    BY <2>1, <2>3
<1>9. Cardinality(S \cup With) = Cardinality(S) + Cardinality(With) - Cardinality({})
  <2> HIDE DEF S, With
  <2> QED
    BY <1>2, <1>6, <1>7, FS_Union
<1>10. Cardinality(S) \in Nat \ {0}
  <2>1. {} \in S
    OBVIOUS
  <2> QED
    BY <1>2, <2>1, FS_CardinalityType, FS_EmptySet
<1> HIDE DEF S, With
<1>11. Cardinality({}) = 0
  BY FS_EmptySet
<1>12. 2 ^ n \in Nat \ {0}
  BY <1>2, <1>10
<1>13. 2 ^ (n + 1) = Cardinality(S \cup With)
  BY <1>4, <1>8
<1>14. 2 ^ (n + 1) = 2 ^ n + 2 ^ n - 0
  BY <1>2, <1>6, <1>9, <1>11, <1>13
<1> QED
  BY <1>12, <1>14

\* Powers of two grow with the exponent.
LEMMA PowerMonotone ==
  ASSUME NEW m \in Nat, NEW n \in Nat, m <= n
  PROVE  2 ^ m <= 2 ^ n
<1>1. IsFiniteSet(1 .. m) /\ Cardinality(1 .. m) = m
  BY FS_Interval
<1>2. IsFiniteSet(1 .. n) /\ Cardinality(1 .. n) = n
  BY FS_Interval
<1>3. Cardinality(SUBSET (1 .. m)) = 2 ^ m
  BY <1>1, FS_SUBSET
<1>4. IsFiniteSet(SUBSET (1 .. n)) /\ Cardinality(SUBSET (1 .. n)) = 2 ^ n
  BY <1>2, FS_SUBSET
<1>5. SUBSET (1 .. m) \in SUBSET (SUBSET (1 .. n))
  OBVIOUS
<1>6. Cardinality(SUBSET (1 .. m)) <= Cardinality(SUBSET (1 .. n))
  BY <1>4, <1>5, FS_Subset
<1> QED
  BY <1>3, <1>4, <1>6

\* The least element of a set of natural numbers.
LEMMA Least ==
  ASSUME NEW T \in SUBSET Nat, T # {}
  PROVE  \E x \in T : \A y \in T : x <= y
<1>1. PICK x \in T : \A y \in T : ~(<<y, x>> \in OpToRel(<, Nat))
  BY WFMin, NatLessThanWellFounded
<1>2. \A y \in T : ~(y < x)
  BY <1>1 DEF OpToRel
<1> QED
  BY <1>2

\* A number is less than its power of two.
LEMMA PowerExceeds ==
  ASSUME NEW n \in Nat
  PROVE  n < 2 ^ n
<1> DEFINE T == {m \in Nat : ~(m < 2 ^ m)}
<1> SUFFICES ASSUME T # {} PROVE FALSE
  OBVIOUS
<1>1. PICK x \in T : \A y \in T : x <= y
  BY Least
<1>2. CASE x = 0
  BY <1>2, PowerOfTwo
<1>3. CASE x # 0
  <2>1. x - 1 \in Nat /\ x - 1 \notin T
    BY <1>1, <1>3
  <2>2. 2 ^ ((x - 1) + 1) = 2 * 2 ^ (x - 1) /\ 2 ^ (x - 1) \in Nat
    BY <2>1, PowerOfTwo
  <2>3. (x - 1) + 1 = x
    OBVIOUS
  <2>4. x - 1 < 2 ^ (x - 1)
    BY <2>1
  <2>5. x < 2 ^ x
    <3>1. 2 ^ x = 2 * 2 ^ (x - 1)
      BY <2>2, <2>3
    <3>2. \A p, q \in Nat : x - 1 < p /\ q = 2 * p /\ x # 0 => x < q
      OBVIOUS
    <3>3. 2 ^ x \in Nat
      BY PowerOfTwo
    <3> QED
      BY <1>3, <2>2, <2>4, <3>1, <3>2, <3>3
  <2> QED
    BY <2>5
<1> QED
  BY <1>2, <1>3

\* sizeClass finds a class for every size that is not mapped directly.
LEMMA SizeClass ==
  ASSUME NEW sz \in Nat, sz <= MaxObjectSize
  PROVE  sizeClass(sz) \in Classes
<1> DEFINE m == IF sz = 0 THEN 1 ELSE sz
           Fits(l) == 2 ^ l >= m /\ \A k \in 0 .. l - 1 : 2 ^ k < m
           top == NumberOfClasses - 1
           S == {l \in Nat : 2 ^ l >= m}
<1>1. m \in Nat \ {0} /\ top \in Nat
  BY ExtHeapAssumption
<1>2. \A l \in Nat : 2 ^ l \in Nat \ {0}
  BY PowerOfTwo
<1>3. 2 ^ top >= m
  BY <1>1, <1>2 DEF MaxObjectSize, classToSize
<1>4. m \in S
  BY <1>1, PowerExceeds, <1>2
<1>5. PICK x \in S : \A y \in S : x <= y
  <2>1. S \in SUBSET Nat /\ S # {}
    BY <1>4
  <2> HIDE DEF S
  <2> QED
    BY <2>1, Least
<1>6. x \in 0 .. m /\ Fits(x)
  <2>1. x <= m /\ x \in Nat /\ 2 ^ x >= m
    BY <1>4, <1>5
  <2>2. ASSUME NEW k \in 0 .. x - 1 PROVE 2 ^ k < m
    <3>1. k \in Nat /\ ~(x <= k)
      BY <2>1
    <3>2. ~(2 ^ k >= m)
      BY <1>5, <3>1
    <3> QED
      BY <1>1, <1>2, <3>1, <3>2
  <2> QED
    BY <1>1, <2>1, <2>2
<1>7. log2(m) \in 0 .. m /\ Fits(log2(m))
  BY <1>6 DEF log2
<1>8. log2(m) <= top
  <2> DEFINE l == log2(m)
  <2>1. l \in Nat /\ \A k \in 0 .. l - 1 : 2 ^ k < m
    BY <1>1, <1>7
  <2> HIDE DEF l
  <2>2. SUFFICES ASSUME top < l PROVE FALSE
    BY <1>1, <2>1 DEF l
  <2>3. 2 ^ top < m
    BY <1>1, <2>1, <2>2
  <2> QED
    BY <1>1, <1>2, <1>3, <2>3
<1>9. sizeClass(sz) = log2(m)
  BY DEF sizeClass
<1> HIDE DEF m
<1> QED
  BY <1>1, <1>7, <1>8, <1>9 DEF Classes

\* The number of slots of a partition, of which the threshold is at most all.
LEMMA ElementsFacts ==
  ASSUME NEW c \in Classes
  PROVE  Elements(c) \in Nat /\ Threshold(c) \in Nat /\ Threshold(c) <= Elements(c)
<1>1. c \in Nat
  BY DEF Classes
<1>2. PICK k : k = 2 ^ c
  OBVIOUS
<1>3. k \in Nat \ {0}
  BY <1>1, <1>2, PowerOfTwo
<1>4. PICK h : h = PartitionSize \div 2
  OBVIOUS
<1>5. h \in Nat /\ h <= PartitionSize /\ PartitionSize \in Nat
  BY <1>4, ExtHeapAssumption
<1>6. \A x, d \in Nat : d # 0 => x \div d \in Nat
  BY Z3
<1>7. \A x, y, d \in Nat : d # 0 /\ x <= y => x \div d <= y \div d
  BY Z3
<1>8. h \div k \in Nat /\ PartitionSize \div k \in Nat
  BY <1>3, <1>5, <1>6
<1>9. h \div k <= PartitionSize \div k
  BY <1>3, <1>5, <1>7
<1> QED
  BY <1>2, <1>4, <1>8, <1>9 DEF Elements, Threshold, classToSize

\* A slot belongs to a class, and is followed by one of its class.
LEMMA SlotFacts ==
  ASSUME NEW s \in Slots
  PROVE  /\ s[1] \in Classes /\ s \in SlotsOf(s[1])
         /\ s[2] < Elements(s[1]) - 1 =>
              Next1(s) \in Slots /\ Next1(s)[1] = s[1] /\ Next1(s) # s
<1>1. PICK c \in Classes : s \in {c} \X (0 .. Elements(c) - 1)
  BY DEF Slots
<1>2. s[1] = c /\ s[2] \in 0 .. Elements(c) - 1 /\ s = <<s[1], s[2]>>
  BY <1>1
<1>3. Elements(c) \in Nat
  BY ElementsFacts
<1>4. s[2] < Elements(c) - 1 => s[2] + 1 \in 0 .. Elements(c) - 1
  BY <1>2, <1>3
<1>5. s[2] + 1 # s[2]
  BY <1>2, <1>3
<1>6. s[2] < Elements(c) - 1 => Next1(s) \in {c} \X (0 .. Elements(c) - 1)
  BY <1>2, <1>4 DEF Next1
<1>7. Next1(s)[1] = s[1] /\ Next1(s)[2] = s[2] + 1
  BY DEF Next1
<1>8. Next1(s) # s
  BY <1>5, <1>7
<1> QED
  BY <1>1, <1>2, <1>6, <1>7, <1>8 DEF Slots, SlotsOf

\* The slots of a class are as many as its elements, all slots finitely many.
LEMMA SlotsFinite ==
  /\ IsFiniteSet(Slots)
  /\ \A c \in Classes : IsFiniteSet(SlotsOf(c)) /\ Cardinality(SlotsOf(c)) = Elements(c)
<1>1. ASSUME NEW c \in Classes
      PROVE  IsFiniteSet(SlotsOf(c)) /\ Cardinality(SlotsOf(c)) = Elements(c)
  <2>1. Elements(c) \in Nat
    BY ElementsFacts
  <2>2. IsFiniteSet(0 .. Elements(c) - 1) /\ Cardinality(0 .. Elements(c) - 1) = Elements(c)
    BY <2>1, FS_Interval
  <2>3. IsFiniteSet({c}) /\ Cardinality({c}) = 1
    BY FS_Singleton
  <2> QED
    BY <2>1, <2>2, <2>3, FS_Product DEF SlotsOf
<1>2. IsFiniteSet(Slots)
  <2>1. \A c \in Classes : Elements(c) <= PartitionSize
    <3> TAKE c \in Classes
    <3>1. c \in Nat /\ PartitionSize \in Nat
      BY ExtHeapAssumption DEF Classes
    <3>2. PICK k : k = 2 ^ c
      OBVIOUS
    <3>3. k \in Nat \ {0}
      BY <3>1, <3>2, PowerOfTwo
    <3>4. \A x, d \in Nat : d # 0 => x \div d <= x
      BY Z3
    <3> QED
      BY <3>1, <3>2, <3>3, <3>4 DEF Elements, classToSize
  <2> DEFINE All == Classes \X (0 .. PartitionSize)
  <2>2. IsFiniteSet(Classes) /\ IsFiniteSet(0 .. PartitionSize)
    BY FS_Interval, ExtHeapAssumption DEF Classes
  <2>3. IsFiniteSet(All)
    BY <2>2, FS_Product
  <2>4. ASSUME NEW s \in Slots PROVE s \in All
    <3>1. PICK c \in Classes : s \in {c} \X (0 .. Elements(c) - 1)
      BY DEF Slots
    <3>2. Elements(c) \in Nat /\ Elements(c) <= PartitionSize /\ PartitionSize \in Nat
      BY <2>1, ElementsFacts, ExtHeapAssumption
    <3>3. \A i \in 0 .. Elements(c) - 1 : i \in 0 .. PartitionSize
      BY <3>2
    <3> QED
      BY <3>1, <3>3
  <2> QED
    BY <2>3, <2>4, FS_Subset
<1> QED
  BY <1>1, <1>2

----------------------------------------------------------------------------
(* Lemmas about the calls *)

\* What kind of call is in progress says what its record holds.
LEMMA CallIs ==
  ASSUME CallInv
  PROVE  /\ call.op \in {"due", "direct"} =>
              call \in [op : {"due", "direct"}, size : Nat, site : Sites,
                       old : live \cup {NULL}]
         /\ call.op = "probe" =>
              call \in [op : {"probe"}, size : Nat, site : Sites,
                       old : live \cup {NULL}, class : Classes]
         /\ call.op = "free" => call \in [op : {"free"}, ptr : live, site : Sites]
         /\ call = Idle => call.op = "none"
<1>1. Idle.op = "none"
  BY DEF Idle
<1> QED
  BY <1>1 DEF CallInv

\* A call that returns goes on with the free of realloc, or is over.
LEMMA ReturnIs ==
  ASSUME NEW c, NEW L, c.old \in L \cup {NULL}, c.site \in Sites
  PROVE  /\ Return(c) = Idle \/ Return(c) \in [op : {"free"}, ptr : L, site : Sites]
         /\ Return(c).op \in {"none", "free"}
<1>1. Idle.op = "none"
  BY DEF Idle
<1> QED
  BY <1>1 DEF Return

\* Both calls that free take a slot that exists from the program, if it held
\* the slot, and free it now or later.
LEMMA FreeCalls ==
  ASSUME TypeInv, CallInv, CallFree \/ ReallocFree
  PROVE  /\ status = "run" /\ call.op \in {"none", "free"} /\ call' = Idle
         /\ \E s \in Slots, site \in Sites :
              live' = live \ {s} /\ (FreeNow(s, site) \/ FreeLater(s, site))
         /\ UNCHANGED <<global_ct, memberCt, directVars, liveDirect, smallDirect, errors>>
<1>1. CASE CallFree
  BY <1>1, CallIs DEF CallFree
<1>2. CASE ReallocFree
  <2>1. call.ptr \in live /\ call.site \in Sites
    BY <1>2, CallIs DEF ReallocFree
  <2>2. call.ptr \in Slots
    BY <2>1 DEF TypeInv
  <2> QED
    BY <1>2, <2>1, <2>2 DEF ReallocFree
<1> QED
  BY <1>1, <1>2

\* forceFreeIndex: the slot may be filled, and the one after it may be marked.
LEMMA FreeFacts ==
  ASSUME TypeInv, NEW s \in Slots, forceFreeIndex(s)
  PROVE  /\ requested' = CountDown(s[1])
         /\ doubleFrees' = IF s \in allocated \ marked THEN doubleFrees
                           ELSE [doubleFrees EXCEPT ![s[1]] = @ + 1]
         /\ hasData \ {s} \subseteq hasData' /\ hasData' \subseteq hasData
         /\ canary' \subseteq canary \cup {s}
         /\ hasData \cup canary \subseteq hasData' \cup canary'
         /\ \/ /\ allocated' = allocated \ {s} /\ marked' = marked \ {s}
               /\ UNCHANGED <<status, bad>>
            \/ \E n \in Slots \ (hasData' \cup canary') :
                 /\ n # s /\ n[1] = s[1]
                 /\ allocated' = (allocated \ {s}) \cup {n}
                 /\ marked' = IF n \in allocated THEN marked \ {s}
                              ELSE (marked \ {s}) \cup {n}
                 /\ diefast_error
<1>1. PICK filled \in BOOLEAN :
        /\ requested' = CountDown(s[1])
        /\ canary' = IF filled THEN canary \cup {s} ELSE canary
        /\ hasData' = DataAfterFree(s, filled)
        /\ doubleFrees' = IF s \in allocated \ marked THEN doubleFrees
                          ELSE [doubleFrees EXCEPT ![s[1]] = @ + 1]
        /\ IF Overflowed(s, hasData', canary')
           THEN /\ allocated' = (allocated \ {s}) \cup {Next1(s)}
                /\ marked' = IF Next1(s) \in allocated THEN marked \ {s}
                             ELSE (marked \ {s}) \cup {Next1(s)}
                /\ diefast_error
           ELSE /\ allocated' = allocated \ {s}
                /\ marked' = marked \ {s}
                /\ UNCHANGED <<status, bad>>
  BY DEF forceFreeIndex
<1>2. /\ hasData \ {s} \subseteq hasData' /\ hasData' \subseteq hasData
      /\ canary' \subseteq canary \cup {s}
      /\ hasData \cup canary \subseteq hasData' \cup canary'
  BY <1>1 DEF DataAfterFree
<1>3. CASE Overflowed(s, hasData', canary')
  <2>1. s[2] < Elements(s[1]) - 1 /\ Next1(s) \notin hasData' /\ Next1(s) \notin canary'
    BY <1>3 DEF Overflowed
  <2>2. Next1(s) \in Slots \ (hasData' \cup canary') /\ Next1(s) # s /\ Next1(s)[1] = s[1]
    BY <2>1, SlotFacts
  <2> QED
    BY <1>1, <1>2, <1>3, <2>2
<1>4. CASE ~Overflowed(s, hasData', canary')
  BY <1>1, <1>2, <1>4
<1> QED
  BY <1>3, <1>4

\* What is appended to the queue comes last.
LEMMA AppendFacts ==
  ASSUME TypeInv, NEW e, NEW n \in Nat, Len(pqueue) = n
  PROVE  /\ DOMAIN Append(pqueue, e) = 1 .. n + 1 /\ Append(pqueue, e)[n + 1] = e
         /\ \A i \in 1 .. n : Append(pqueue, e)[i] = pqueue[i]
<1>1. PICK A : A = [ptr : Slots, death : Int]
  OBVIOUS
<1>2. pqueue \in Seq(A)
  BY <1>1 DEF TypeInv
<1>3. pqueue \in [1 .. n -> A \cup {e}]
  BY <1>2
<1>4. pqueue \in Seq(A \cup {e})
  BY <1>3
<1> QED
  BY <1>4

\* The queue holds slots.
LEMMA QueueFacts ==
  ASSUME TypeInv
  PROVE  /\ Len(pqueue) \in Nat /\ DOMAIN pqueue = 1 .. Len(pqueue)
         /\ \A i \in DOMAIN pqueue : pqueue[i].ptr \in Slots
<1>1. PICK E : E = [ptr : Slots, death : Int]
  OBVIOUS
<1>2. pqueue \in Seq(E)
  BY <1>1 DEF TypeInv
<1>3. DOMAIN pqueue = 1 .. Len(pqueue) /\ \A i \in DOMAIN pqueue : pqueue[i] \in E
  BY <1>2
<1> QED
  BY <1>1, <1>2, <1>3

\* The queue without its i-th entry holds the others in their order.
Shift(i, j) == IF j < i THEN j ELSE j + 1
\* What removing the entries of one slot leaves in the queue of deferred frees.
LEMMA WithoutFacts ==
  ASSUME TypeInv, NEW i \in DOMAIN pqueue
  PROVE  /\ Without(i) \in Seq([ptr : Slots, death : Int])
         /\ Len(Without(i)) = Len(pqueue) - 1
         /\ \A j \in DOMAIN Without(i) :
              /\ Shift(i, j) \in DOMAIN pqueue /\ Shift(i, j) # i
              /\ Without(i)[j] = pqueue[Shift(i, j)]
         /\ \A j, k \in DOMAIN Without(i) : j # k => Shift(i, j) # Shift(i, k)
<1> DEFINE n == Len(pqueue)
<1>entry. PICK E : E = [ptr : Slots, death : Int]
  OBVIOUS
<1>1. pqueue \in Seq(E)
  BY <1>entry DEF TypeInv
<1>2. n \in Nat /\ DOMAIN pqueue = 1 .. n /\ i \in 1 .. n /\ n - 1 \in Nat
  BY <1>1
<1>3. \A j \in 1 .. n : pqueue[j] \in E
  BY <1>1, <1>2
<1>4. \A j \in 1 .. n - 1 : Shift(i, j) \in 1 .. n /\ Shift(i, j) # i
  BY <1>2 DEF Shift
<1>5. \A j, k \in 1 .. n - 1 : j # k => Shift(i, j) # Shift(i, k)
  BY <1>2 DEF Shift
<1>6. Without(i) = [j \in 1 .. n - 1 |-> pqueue[Shift(i, j)]]
  BY DEF Without, Shift
<1> HIDE DEF n
<1>7. Without(i) \in [1 .. n - 1 -> E]
  BY <1>3, <1>4, <1>6
<1>8. Without(i) \in Seq(E) /\ Len(Without(i)) = n - 1
  BY <1>2, <1>7
<1>9. DOMAIN Without(i) = 1 .. n - 1
  BY <1>6
<1> QED
  BY <1>entry, <1>2, <1>4, <1>5, <1>6, <1>8, <1>9 DEF n

----------------------------------------------------------------------------
(* Every step preserves the invariant, part by part *)

\* forceFreeIndex keeps the types.
LEMMA FreeTypes ==
  ASSUME TypeInv, NEW s \in Slots, status = "run", forceFreeIndex(s)
  PROVE  /\ status' \in {"run", "aborting", "suicide", "dead"} /\ bad' \in BOOLEAN
         /\ allocated' \subseteq Slots /\ hasData' \subseteq Slots
         /\ canary' \subseteq Slots /\ requested' \in [Classes -> Int]
<1>1. requested' \in [Classes -> Int]
  <2>1. requested' = CountDown(s[1])
    BY FreeFacts
  <2> QED
    BY <2>1, SlotFacts DEF CountDown, TypeInv
<1>2. hasData' \subseteq Slots /\ canary' \subseteq Slots
  BY FreeFacts DEF TypeInv
<1>3. /\ allocated' \subseteq Slots /\ bad' \in BOOLEAN
      /\ status' \in {"run", "aborting", "suicide", "dead"}
  <2>1. CASE /\ allocated' = allocated \ {s}
             /\ UNCHANGED <<status, bad>>
    BY <2>1 DEF TypeInv
  <2>2. CASE diefast_error /\ \E n \in Slots : allocated' = (allocated \ {s}) \cup {n}
    BY <2>2 DEF TypeInv, diefast_error
  <2> QED
    BY <2>1, <2>2, FreeFacts
<1> QED
  BY <1>1, <1>2, <1>3

\* Every step keeps the types.
LEMMA TypeStep ==
  ASSUME TypeInv, CallInv, Next
  PROVE  TypeInv'
<1>free. ASSUME CallFree \/ ReallocFree PROVE TypeInv'
  <2>1. PICK s \in Slots, site \in Sites :
          live' = live \ {s} /\ (FreeNow(s, site) \/ FreeLater(s, site))
    BY <1>free, FreeCalls
  <2>2. status = "run" /\ UNCHANGED <<global_ct, mapped, errors>>
    BY <1>free, FreeCalls DEF directVars
  <2>3. live' \subseteq Slots
    BY <2>1 DEF TypeInv
  <2>4. CASE FreeNow(s, site)
    <3>1. forceFreeIndex(s) /\ UNCHANGED <<info, pqueue>>
      BY <2>4 DEF FreeNow
    <3> QED
      BY <2>2, <2>3, <3>1, FreeTypes DEF TypeInv
  <2>5. CASE FreeLater(s, site)
    <3> DEFINE e == [ptr |-> s, death |-> td(s, site) + getObjectID(s)]
    <3>1. pqueue' = Append(pqueue, e) /\ Len(pqueue) < PQUEUE_SIZE
          /\ UNCHANGED <<status, bad, heapVars>>
      BY <2>5 DEF FreeLater
    <3>2. td(s, site) \in Nat /\ getObjectID(s) \in Nat
      BY ExtHeapAssumption DEF TypeInv, td, getAllocCallsite, getObjectID
    <3>3. e \in [ptr : Slots, death : Int]
      BY <3>2
    <3> HIDE DEF e
    <3>4. /\ Append(pqueue, e) \in Seq([ptr : Slots, death : Int])
          /\ Len(Append(pqueue, e)) = Len(pqueue) + 1 /\ Len(pqueue) \in Nat
      BY <3>3 DEF TypeInv
    <3>5. Len(pqueue') <= PQUEUE_SIZE
      BY <3>1, <3>4, ExtHeapAssumption
    <3> QED
      BY <2>2, <2>3, <3>1, <3>4, <3>5 DEF TypeInv, heapVars
  <2> QED
    BY <2>1, <2>4, <2>5
<1>1. ASSUME CallMalloc PROVE TypeInv'
  BY <1>1 DEF CallMalloc, Malloc, TypeInv, heapVars, directVars, ghostVars
<1>2. ASSUME CallRealloc PROVE TypeInv'
  BY <1>2 DEF CallRealloc, Malloc, TypeInv, heapVars, directVars, ghostVars
<1>3. ASSUME MallocCount PROVE TypeInv'
  <2>1. global_ct < MaxAllocs
    BY <1>3, CallIs DEF MallocCount, CallInv
  <2>2. global_ct' \in 0 .. MaxAllocs
    BY <1>3, <2>1, ExtHeapAssumption DEF MallocCount, TypeInv
  <2> QED
    BY <1>3, <2>2 DEF MallocCount, TypeInv, heapVars, directVars, ghostVars
<1>4. ASSUME FreeDue PROVE TypeInv'
  <2>1. PICK i \in DOMAIN pqueue : forceFreeIndex(pqueue[i].ptr) /\ pqueue' = Without(i)
    BY <1>4 DEF FreeDue
  <2>2. pqueue[i].ptr \in Slots /\ Len(pqueue) \in Nat
    BY QueueFacts
  <2>3. /\ pqueue' \in Seq([ptr : Slots, death : Int])
        /\ Len(pqueue') = Len(pqueue) - 1
    BY <2>1, WithoutFacts
  <2>4. Len(pqueue') <= PQUEUE_SIZE
    BY <2>2, <2>3, ExtHeapAssumption DEF TypeInv
  <2>5. status = "run"
    BY <1>4 DEF FreeDue
  <2> QED
    BY <1>4, <2>1, <2>2, <2>3, <2>4, <2>5, FreeTypes DEF FreeDue, TypeInv,
       directVars
<1>5. ASSUME ProbeThreshold PROVE TypeInv'
  BY <1>5 DEF ProbeThreshold, TypeInv, heapVars, directVars, ghostVars
<1>6. ASSUME Probe PROVE TypeInv'
  <2>1. PICK s \in SlotsOf(call.class) \ allocated :
          /\ allocated' = allocated \cup {s} /\ requested' = CountUp(call.class)
          /\ ProbeBad(s) \/ ProbeGood(s)
    BY <1>6 DEF Probe
  <2>2. call.class \in Classes /\ call.site \in Sites
    BY <1>6, CallIs DEF Probe
  <2>3. s \in Slots
    BY <2>1, <2>2 DEF SlotsOf, Slots
  <2>4. requested' \in [Classes -> Int] /\ allocated' \subseteq Slots
    BY <2>1, <2>2, <2>3 DEF TypeInv, CountUp
  <2>5. UNCHANGED <<global_ct, pqueue, mapped, errors>> /\ status = "run"
    BY <1>6 DEF Probe, directVars
  <2>6. CASE ProbeBad(s)
    BY <2>4, <2>5, <2>6 DEF ProbeBad, diefast_error, TypeInv
  <2>7. CASE ProbeGood(s)
    <3>1. allocEvent(s) \in [Slots -> [id : Nat, alloc : Sites \cup {0}]]
      <4>1. global_ct \in Nat /\ info \in [Slots -> [id : Nat, alloc : Sites \cup {0}]]
        BY DEF TypeInv
      <4> QED
        BY <2>2, <4>1 DEF allocEvent
    <3>2. /\ hasData' \subseteq Slots /\ canary' \subseteq Slots /\ live' \subseteq Slots
          /\ info' = allocEvent(s) /\ UNCHANGED <<status, bad>>
      BY <2>3, <2>7 DEF ProbeGood, DataAfterAlloc, TypeInv
    <3> QED
      BY <2>4, <2>5, <3>1, <3>2 DEF TypeInv
  <2> QED
    BY <2>1, <2>6, <2>7
<1>7. ASSUME DirectMap PROVE TypeInv'
  BY <1>7 DEF DirectMap, TypeInv, heapVars
<1>8. ASSUME DirectFails PROVE TypeInv'
  BY <1>8 DEF DirectFails, TypeInv, heapVars, directVars, ghostVars
<1>9. ASSUME CallFree PROVE TypeInv'
  BY <1>9, <1>free
<1>10. ASSUME ReallocFree PROVE TypeInv'
  BY <1>10, <1>free
<1>11. ASSUME FreeDirect PROVE TypeInv'
  BY <1>11 DEF FreeDirect, TypeInv, heapVars, directVars
<1>12. ASSUME SigSegv PROVE TypeInv'
  BY <1>12 DEF SigSegv, Dump, TypeInv, heapVars, directVars, ghostVars
<1>13. ASSUME SigFatal PROVE TypeInv'
  BY <1>13 DEF SigFatal, Dump, TypeInv, heapVars, directVars, ghostVars
<1>14. ASSUME Exit PROVE TypeInv'
  BY <1>14 DEF Exit, Dump, TypeInv, heapVars, directVars, ghostVars
<1>15. ASSUME Corrupt PROVE TypeInv'
  BY <1>15 DEF Corrupt, TypeInv, directVars
<1>16. QED
  BY <1>1, <1>2, <1>3, <1>4, <1>5, <1>6, <1>7, <1>8, <1>9, <1>10, <1>11,
     <1>12, <1>13, <1>14, <1>15 DEF Next

\* A call in progress keeps its arguments good until it returns.
LEMMA CallStep ==
  ASSUME TypeInv, CallInv, Next
  PROVE  CallInv'
<1>idle. ASSUME call' = Idle PROVE CallInv'
  BY <1>idle, CallIs DEF CallInv, Idle
<1>same. ASSUME UNCHANGED <<call, global_ct>>, live \subseteq live' PROVE CallInv'
  BY <1>same DEF CallInv
<1>returns. ASSUME call.op \in {"direct", "probe"}, call' = Return(call),
                   live \subseteq live'
            PROVE  CallInv'
  <2>1. call.old \in live \cup {NULL} /\ call.site \in Sites
    BY <1>returns, CallIs
  <2>2. /\ call' = Idle \/ call' \in [op : {"free"}, ptr : live, site : Sites]
        /\ call'.op \in {"none", "free"}
    BY <1>returns, <2>1, ReturnIs
  <2> QED
    BY <1>returns, <2>2 DEF CallInv
<1>1. ASSUME CallMalloc PROVE CallInv'
  <2>1. PICK sz \in Sizes, site \in Sites : Malloc(sz, site, NULL)
    BY <1>1 DEF CallMalloc
  <2>2. sz + Padding[site] \in Nat
    BY ExtHeapAssumption
  <2>3. UNCHANGED live /\ global_ct' < MaxAllocs
    BY <2>1 DEF Malloc, ghostVars
  <2> QED
    BY <2>1, <2>2, <2>3 DEF Malloc, CallInv
<1>2. ASSUME CallRealloc PROVE CallInv'
  <2>1. PICK sz \in Sizes, site \in Sites, s \in live : Malloc(sz, site, s)
    BY <1>2 DEF CallRealloc
  <2>2. sz + Padding[site] \in Nat
    BY ExtHeapAssumption
  <2>3. UNCHANGED live /\ global_ct' < MaxAllocs
    BY <2>1 DEF Malloc, ghostVars
  <2> QED
    BY <2>1, <2>2, <2>3 DEF Malloc, CallInv
<1>3. ASSUME MallocCount PROVE CallInv'
  <2>1. call \in [op : {"due", "direct"}, size : Nat, site : Sites, old : live \cup {NULL}]
    BY <1>3, CallIs DEF MallocCount
  <2>2. UNCHANGED live
    BY <1>3 DEF MallocCount, ghostVars
  <2>3. CASE call' = Idle
    BY <1>idle, <2>3
  <2>4. CASE call.size > MaxObjectSize /\ call' = [call EXCEPT !.op = "direct"]
    BY <2>1, <2>2, <2>4 DEF CallInv
  <2>5. CASE ~(call.size > MaxObjectSize)
             /\ call' = [op |-> "probe", size |-> call.size, site |-> call.site,
                         old |-> call.old, class |-> sizeClass(call.size)]
    <3>1. call.size \in Nat
      BY <2>1
    <3>2. MaxObjectSize \in Nat
      BY PowerOfTwo, ExtHeapAssumption DEF MaxObjectSize, classToSize
    <3>3. sizeClass(call.size) \in Classes
      BY <2>5, <3>1, <3>2, SizeClass
    <3> QED
      BY <2>1, <2>2, <2>5, <3>3 DEF CallInv
  <2> QED
    BY <1>3, <2>3, <2>4, <2>5 DEF MallocCount
<1>4. ASSUME FreeDue PROVE CallInv'
  BY <1>4, <1>idle, <1>same DEF FreeDue, heapVars, directVars, ghostVars
<1>5. ASSUME ProbeThreshold PROVE CallInv'
  <2>1. call \in [op : {"probe"}, size : Nat, site : Sites,
                  old : live \cup {NULL}, class : Classes]
    BY <1>5, CallIs DEF ProbeThreshold
  <2>2. UNCHANGED live
    BY <1>5 DEF ProbeThreshold, ghostVars
  <2>3. CASE call' = [op |-> "direct", size |-> call.size, site |-> call.site,
                      old |-> call.old]
    BY <2>1, <2>2, <2>3 DEF CallInv
  <2>4. CASE ~LastClass(call.class) /\ call' = [call EXCEPT !.class = call.class + 1]
    <3>1. call.class + 1 \in Classes
      BY <2>1, <2>4, ExtHeapAssumption DEF LastClass, Classes
    <3>2. PICK d \in Classes : d = call.class + 1
      BY <3>1
    <3>3. call' = [call EXCEPT !.class = d]
      BY <2>4, <3>2
    <3>4. call' \in [op : {"probe"}, size : Nat, site : Sites,
                    old : live \cup {NULL}, class : Classes]
      BY <2>1, <3>3
    <3> QED
      BY <2>2, <3>4 DEF CallInv
  <2>5. CASE LastClass(call.class)
    BY <1>5, <2>3, <2>5 DEF ProbeThreshold
  <2>6. CASE ~LastClass(call.class)
    BY <1>5, <2>4, <2>6 DEF ProbeThreshold
  <2> QED
    BY <2>5, <2>6
<1>6. ASSUME Probe PROVE CallInv'
  <2>1. PICK s : ProbeBad(s) \/ ProbeGood(s)
    BY <1>6 DEF Probe
  <2>2. call.op = "probe" /\ UNCHANGED global_ct
    BY <1>6 DEF Probe
  <2> QED
    BY <1>same, <1>returns, <2>1, <2>2 DEF ProbeBad, ProbeGood
<1>7. ASSUME DirectMap PROVE CallInv'
  BY <1>7, <1>returns DEF DirectMap
<1>8. ASSUME DirectFails PROVE CallInv'
  BY <1>8, <1>returns DEF DirectFails, ghostVars
<1>9. ASSUME CallFree PROVE CallInv'
  BY <1>9, <1>idle, FreeCalls
<1>10. ASSUME ReallocFree PROVE CallInv'
  BY <1>10, <1>idle, FreeCalls
<1>11. ASSUME FreeDirect PROVE CallInv'
  BY <1>11, <1>idle, <1>same DEF FreeDirect, heapVars, directVars, ghostVars
<1>12. ASSUME SigSegv PROVE CallInv'
  BY <1>12, <1>idle, <1>same DEF SigSegv, heapVars, directVars, ghostVars
<1>13. ASSUME SigFatal PROVE CallInv'
  BY <1>13, <1>idle, <1>same DEF SigFatal, heapVars, directVars, ghostVars
<1>14. ASSUME Exit PROVE CallInv'
  BY <1>14, <1>idle, <1>same DEF Exit, heapVars, directVars, ghostVars
<1>15. ASSUME Corrupt PROVE CallInv'
  BY <1>15, <1>idle, <1>same DEF Corrupt, heapVars, directVars, ghostVars
<1>16. QED
  BY <1>1, <1>2, <1>3, <1>4, <1>5, <1>6, <1>7, <1>8, <1>9, <1>10, <1>11,
     <1>12, <1>13, <1>14, <1>15 DEF Next

\* forceFreeIndex accuses only a program that wrote where it must not.
LEMMA BadStep ==
  ASSUME TypeInv, CallInv, BadInv, Next
  PROVE  BadInv'
<1>slot. ASSUME NEW s \in Slots, status = "run", forceFreeIndex(s), UNCHANGED errors
         PROVE  BadInv'
  <2>1. hasData \cup canary \subseteq hasData' \cup canary'
    BY <1>slot, FreeFacts
  <2>2. CASE UNCHANGED <<status, bad>>
    BY <1>slot, <2>1, <2>2 DEF BadInv
  <2>3. CASE diefast_error /\ Slots \ (hasData' \cup canary') # {}
    <3>1. errors # 0 /\ errors \in Nat
      BY <2>1, <2>3 DEF BadInv, TypeInv
    <3> QED
      BY <1>slot, <2>3, <3>1 DEF BadInv, diefast_error
  <2> QED
    BY <1>slot, <2>2, <2>3, FreeFacts
<1>free. ASSUME CallFree \/ ReallocFree PROVE BadInv'
  <2>1. PICK s \in Slots, site \in Sites : FreeNow(s, site) \/ FreeLater(s, site)
    BY <1>free, FreeCalls
  <2>2. status = "run" /\ UNCHANGED errors
    BY <1>free, FreeCalls
  <2>3. CASE FreeNow(s, site)
    BY <1>slot, <2>2, <2>3 DEF FreeNow
  <2>4. CASE FreeLater(s, site)
    BY <2>2, <2>4 DEF FreeLater, heapVars, BadInv
  <2> QED
    BY <2>1, <2>3, <2>4
<1>1. ASSUME CallMalloc PROVE BadInv'
  BY <1>1 DEF CallMalloc, Malloc, BadInv, heapVars, ghostVars
<1>2. ASSUME CallRealloc PROVE BadInv'
  BY <1>2 DEF CallRealloc, Malloc, BadInv, heapVars, ghostVars
<1>3. ASSUME MallocCount PROVE BadInv'
  BY <1>3 DEF MallocCount, BadInv, heapVars, ghostVars
<1>4. ASSUME FreeDue PROVE BadInv'
  BY <1>4, <1>slot, QueueFacts DEF FreeDue
<1>5. ASSUME ProbeThreshold PROVE BadInv'
  BY <1>5 DEF ProbeThreshold, BadInv, heapVars, ghostVars
<1>6. ASSUME Probe PROVE BadInv'
  <2>1. PICK s \in SlotsOf(call.class) \ allocated : ProbeBad(s) \/ ProbeGood(s)
    BY <1>6 DEF Probe
  <2>2. call.class \in Classes
    BY <1>6, CallIs DEF Probe
  <2>3. s \in Slots
    BY <2>1, <2>2 DEF SlotsOf, Slots
  <2>4. UNCHANGED errors /\ status = "run"
    BY <1>6 DEF Probe
  <2>5. CASE ProbeBad(s)
    <3>1. errors # 0 /\ errors \in Nat
      BY <2>3, <2>5 DEF ProbeBad, Corrupted, BadInv, TypeInv
    <3> QED
      BY <2>4, <2>5, <3>1 DEF ProbeBad, diefast_error, BadInv
  <2>6. CASE ProbeGood(s)
    BY <2>4, <2>6 DEF ProbeGood, DataAfterAlloc, BadInv
  <2> QED
    BY <2>1, <2>5, <2>6
<1>7. ASSUME DirectMap PROVE BadInv'
  BY <1>7 DEF DirectMap, BadInv, heapVars, ghostVars
<1>8. ASSUME DirectFails PROVE BadInv'
  BY <1>8 DEF DirectFails, BadInv, heapVars, ghostVars
<1>9. ASSUME CallFree PROVE BadInv'
  BY <1>9, <1>free
<1>10. ASSUME ReallocFree PROVE BadInv'
  BY <1>10, <1>free
<1>11. ASSUME FreeDirect PROVE BadInv'
  BY <1>11 DEF FreeDirect, BadInv, heapVars, ghostVars
<1>12. ASSUME SigSegv PROVE BadInv'
  BY <1>12 DEF SigSegv, Dump, BadInv, heapVars, ghostVars
<1>13. ASSUME SigFatal PROVE BadInv'
  BY <1>13 DEF SigFatal, Dump, BadInv, heapVars, ghostVars
<1>14. ASSUME Exit PROVE BadInv'
  BY <1>14 DEF Exit, Dump, BadInv, heapVars, ghostVars
<1>15. ASSUME Corrupt PROVE BadInv'
  BY <1>15 DEF Corrupt, BadInv, TypeInv
<1>16. QED
  BY <1>1, <1>2, <1>3, <1>4, <1>5, <1>6, <1>7, <1>8, <1>9, <1>10, <1>11,
     <1>12, <1>13, <1>14, <1>15 DEF Next

\* An object kept by the queue, or held by the program, is not given away.
LEMMA KeptStep ==
  ASSUME TypeInv, CallInv, KeptInv, Next
  PROVE  KeptInv'
<1>same. ASSUME UNCHANGED <<pqueue, twice, allocated, hasData, live>> PROVE KeptInv'
  BY <1>same DEF KeptInv, Deferred
<1>force. ASSUME NEW s \in Slots, forceFreeIndex(s)
         PROVE  allocated \ {s} \subseteq allocated' /\ hasData \ {s} \subseteq hasData'
  BY <1>force, FreeFacts
<1>free. ASSUME CallFree \/ ReallocFree PROVE KeptInv'
  <2>1. PICK s \in Slots, site \in Sites :
          live' = live \ {s} /\ (FreeNow(s, site) \/ FreeLater(s, site))
    BY <1>free, FreeCalls
  <2>2. CASE FreeNow(s, site)
    <3>1. /\ allocated \ {s} \subseteq allocated' /\ hasData \ {s} \subseteq hasData'
          /\ twice' = twice \cup ({s} \cap Deferred) /\ pqueue' = pqueue
      BY <1>force, <2>2 DEF FreeNow
    <3>2. Deferred' = Deferred
      BY <3>1 DEF Deferred
    <3>3. \A i, j \in DOMAIN pqueue' :
            i # j /\ pqueue'[i].ptr = pqueue'[j].ptr => pqueue'[i].ptr \in twice'
      BY <3>1 DEF KeptInv
    <3>4. \A t \in Deferred : t \in twice' \/ (t \in allocated' /\ t \notin live')
      BY <2>1, <3>1 DEF KeptInv
    <3>5. \A t \in live' : t \in twice' \/ (t \in allocated' /\ t \in hasData')
      BY <2>1, <3>1 DEF KeptInv
    <3> QED
      BY <3>2, <3>3, <3>4, <3>5 DEF KeptInv
  <2>3. CASE FreeLater(s, site)
    <3> DEFINE e == [ptr |-> s, death |-> td(s, site) + getObjectID(s)]
    <3>1. /\ pqueue' = Append(pqueue, e) /\ twice' = twice \cup ({s} \ (live \ Deferred))
          /\ UNCHANGED <<allocated, hasData>>
      BY <2>3 DEF FreeLater, heapVars
    <3>2. e.ptr = s
      OBVIOUS
    <3> HIDE DEF e
    <3>3. PICK n \in Nat : Len(pqueue) = n /\ DOMAIN pqueue = 1 .. n
      BY QueueFacts
    <3>4. /\ DOMAIN pqueue' = 1 .. n + 1 /\ pqueue'[n + 1] = e
          /\ \A i \in 1 .. n : pqueue'[i] = pqueue[i]
      BY <3>1, <3>3, AppendFacts
    <3>5. \A t : t \in Deferred' <=> t = s \/ t \in Deferred
      BY <3>2, <3>3, <3>4 DEF Deferred
    <3>6. s \in Deferred => s \in twice'
      BY <3>1
    <3>7. ASSUME NEW i \in DOMAIN pqueue', NEW j \in DOMAIN pqueue', i # j,
                 pqueue'[i].ptr = pqueue'[j].ptr
          PROVE  pqueue'[i].ptr \in twice'
      <4>1. CASE i \in 1 .. n /\ j \in 1 .. n
        BY <3>1, <3>3, <3>4, <3>7, <4>1 DEF KeptInv
      <4>2. CASE ~(i \in 1 .. n /\ j \in 1 .. n)
        <5>1. pqueue'[i].ptr = s /\ \E k \in 1 .. n : pqueue'[k].ptr = s
          BY <3>2, <3>4, <3>7, <4>2
        <5>2. s \in Deferred
          BY <3>3, <3>4, <5>1 DEF Deferred
        <5> QED
          BY <3>6, <5>1, <5>2
      <4> QED
        BY <4>1, <4>2
    <3>8. \A t \in Deferred' : t \in twice' \/ (t \in allocated' /\ t \notin live')
      BY <2>1, <3>1, <3>5 DEF KeptInv
    <3>9. \A t \in live' : t \in twice' \/ (t \in allocated' /\ t \in hasData')
      BY <2>1, <3>1 DEF KeptInv
    <3> QED
      BY <3>7, <3>8, <3>9 DEF KeptInv
  <2> QED
    BY <2>1, <2>2, <2>3
<1>1. ASSUME CallMalloc PROVE KeptInv'
  BY <1>1, <1>same DEF CallMalloc, Malloc, heapVars, ghostVars
<1>2. ASSUME CallRealloc PROVE KeptInv'
  BY <1>2, <1>same DEF CallRealloc, Malloc, heapVars, ghostVars
<1>3. ASSUME MallocCount PROVE KeptInv'
  BY <1>3, <1>same DEF MallocCount, heapVars, ghostVars
<1>4. ASSUME FreeDue PROVE KeptInv'
  <2>1. PICK i \in DOMAIN pqueue : forceFreeIndex(pqueue[i].ptr) /\ pqueue' = Without(i)
    BY <1>4 DEF FreeDue
  <2>2. PICK s \in Slots : s = pqueue[i].ptr
    BY QueueFacts
  <2>3. allocated \ {s} \subseteq allocated' /\ hasData \ {s} \subseteq hasData'
    BY <1>force, <2>1, <2>2
  <2>4. UNCHANGED <<live, twice>>
    BY <1>4 DEF FreeDue
  <2>5. /\ \A j \in DOMAIN pqueue' : /\ Shift(i, j) \in DOMAIN pqueue /\ Shift(i, j) # i
                                    /\ pqueue'[j] = pqueue[Shift(i, j)]
        /\ \A j, k \in DOMAIN pqueue' : j # k => Shift(i, j) # Shift(i, k)
    BY <2>1, WithoutFacts
  <2>6. \A j, k \in DOMAIN pqueue' :
          j # k /\ pqueue'[j].ptr = pqueue'[k].ptr => pqueue'[j].ptr \in twice'
    BY <2>4, <2>5 DEF KeptInv
  <2>7. \A t \in Deferred' : t \in Deferred /\ (t = s => t \in twice)
    BY <2>2, <2>5 DEF Deferred, KeptInv
  <2>8. \A t \in Deferred' : t \in twice' \/ (t \in allocated' /\ t \notin live')
    BY <2>3, <2>4, <2>7 DEF KeptInv
  <2>9. s \in twice \/ s \notin live
    BY <2>2 DEF KeptInv, Deferred
  <2>10. \A t \in live' : t \in twice' \/ (t \in allocated' /\ t \in hasData')
    BY <2>3, <2>4, <2>9 DEF KeptInv
  <2> QED
    BY <2>6, <2>8, <2>10 DEF KeptInv
<1>5. ASSUME ProbeThreshold PROVE KeptInv'
  BY <1>5, <1>same DEF ProbeThreshold, heapVars, ghostVars
<1>6. ASSUME Probe PROVE KeptInv'
  <2>1. PICK s \in SlotsOf(call.class) \ allocated :
          allocated' = allocated \cup {s} /\ (ProbeBad(s) \/ ProbeGood(s))
    BY <1>6 DEF Probe
  <2>2. UNCHANGED <<pqueue, twice>>
    BY <1>6 DEF Probe
  <2>3. /\ hasData \subseteq hasData' /\ live' \subseteq live \cup {s}
        /\ s \in live' \ live => s \in hasData'
    BY <2>1 DEF ProbeBad, ProbeGood, DataAfterAlloc
  <2>4. Deferred' = Deferred
    BY <2>2 DEF Deferred
  <2>5. \A t \in Deferred : t \in twice' \/ (t \in allocated' /\ t \notin live')
    BY <2>1, <2>2, <2>3 DEF KeptInv
  <2>6. \A t \in live' : t \in twice' \/ (t \in allocated' /\ t \in hasData')
    BY <2>1, <2>2, <2>3 DEF KeptInv
  <2> QED
    BY <2>2, <2>4, <2>5, <2>6 DEF KeptInv
<1>7. ASSUME DirectMap PROVE KeptInv'
  BY <1>7, <1>same DEF DirectMap, heapVars
<1>8. ASSUME DirectFails PROVE KeptInv'
  BY <1>8, <1>same DEF DirectFails, heapVars, ghostVars
<1>9. ASSUME CallFree PROVE KeptInv'
  BY <1>9, <1>free
<1>10. ASSUME ReallocFree PROVE KeptInv'
  BY <1>10, <1>free
<1>11. ASSUME FreeDirect PROVE KeptInv'
  BY <1>11, <1>same DEF FreeDirect, heapVars, ghostVars
<1>12. ASSUME SigSegv PROVE KeptInv'
  BY <1>12, <1>same DEF SigSegv, heapVars, ghostVars
<1>13. ASSUME SigFatal PROVE KeptInv'
  BY <1>13, <1>same DEF SigFatal, heapVars, ghostVars
<1>14. ASSUME Exit PROVE KeptInv'
  BY <1>14, <1>same DEF Exit, heapVars, ghostVars
<1>15. ASSUME Corrupt PROVE KeptInv'
  BY <1>15, <1>same DEF Corrupt
<1>16. QED
  BY <1>1, <1>2, <1>3, <1>4, <1>5, <1>6, <1>7, <1>8, <1>9, <1>10, <1>11,
     <1>12, <1>13, <1>14, <1>15 DEF Next

\* The slots of a class in a set that one is added to or taken from.
One(s, c) == IF s[1] = c THEN 1 ELSE 0
\* How the counters of a class change when one slot of it does.
LEMMA InClassFacts ==
  ASSUME NEW S \in SUBSET Slots, NEW s \in Slots, NEW c
  PROVE  /\ InClass(S, c) \in Nat
         /\ s \notin S => InClass(S \cup {s}, c) = InClass(S, c) + One(s, c)
         /\ s \in S => InClass(S \ {s}, c) = InClass(S, c) - One(s, c)
<1> DEFINE In(T) == {t \in T : t[1] = c}
<1>1. \A T \in SUBSET Slots : IsFiniteSet(In(T))
  BY SlotsFinite, FS_Subset
<1>2. IsFiniteSet(In(S)) /\ Cardinality(In(S)) \in Nat
  BY <1>1, FS_CardinalityType
<1>3. ASSUME s \notin S PROVE InClass(S \cup {s}, c) = InClass(S, c) + One(s, c)
  <2>1. CASE s[1] = c
    <3>1. In(S \cup {s}) = In(S) \cup {s} /\ s \notin In(S)
      BY <1>3, <2>1
    <3>2. Cardinality(In(S) \cup {s}) = Cardinality(In(S)) + 1
      BY <1>2, <3>1, FS_AddElement
    <3> QED
      BY <2>1, <3>1, <3>2 DEF InClass, One
  <2>2. CASE s[1] # c
    <3>1. In(S \cup {s}) = In(S)
      BY <2>2
    <3>2. InClass(S \cup {s}, c) = InClass(S, c) /\ InClass(S, c) \in Nat
      BY <1>2, <3>1 DEF InClass
    <3> QED
      BY <2>2, <3>2 DEF One
  <2> QED
    BY <2>1, <2>2
<1>4. ASSUME s \in S PROVE InClass(S \ {s}, c) = InClass(S, c) - One(s, c)
  <2>1. CASE s[1] = c
    <3>1. In(S \ {s}) = In(S) \ {s} /\ s \in In(S)
      BY <1>4, <2>1
    <3>2. Cardinality(In(S) \ {s}) = Cardinality(In(S)) - 1
      BY <1>2, <3>1, FS_RemoveElement
    <3> QED
      BY <2>1, <3>1, <3>2 DEF InClass, One
  <2>2. CASE s[1] # c
    <3>1. In(S \ {s}) = In(S)
      BY <2>2
    <3>2. InClass(S \ {s}, c) = InClass(S, c) /\ InClass(S, c) \in Nat
      BY <1>2, <3>1 DEF InClass
    <3> QED
      BY <2>2, <3>2 DEF One
  <2> QED
    BY <2>1, <2>2
<1> QED
  BY <1>2, <1>3, <1>4 DEF InClass

\* forceFreeIndex counts one request down, and what it leaves uncounted is
\* what it marks and what was not allocated, or only marked, before.
LEMMA FreeCount ==
  ASSUME TypeInv, CountInv, NEW s \in Slots, forceFreeIndex(s)
  PROVE  CountInv'
<1>1. s[1] \in Classes
  BY SlotFacts
<1>2. /\ requested' = [requested EXCEPT ![s[1]] = requested[s[1]] - 1]
      /\ doubleFrees' = IF s \in allocated \ marked THEN doubleFrees
                        ELSE [doubleFrees EXCEPT ![s[1]] = doubleFrees[s[1]] + 1]
  BY FreeFacts DEF CountDown
<1>3. doubleFrees' \in [Classes -> Nat]
  BY <1>1, <1>2 DEF CountInv
<1> DEFINE A0 == allocated \ {s}
           M0 == marked \ {s}
<1>4. /\ M0 \subseteq A0 /\ A0 \in SUBSET Slots /\ M0 \in SUBSET Slots
      /\ allocated \in SUBSET Slots /\ marked \in SUBSET Slots
  BY DEF CountInv, TypeInv
<1>5. \A c \in Classes :
        requested'[c] = InClass(A0, c) - InClass(M0, c) - doubleFrees'[c]
  <2> TAKE c \in Classes
  <2> DEFINE a == InClass(allocated, c)
             m == InClass(marked, c)
             o == One(s, c)
  <2>1. a \in Nat /\ m \in Nat /\ o \in {0, 1}
    BY <1>4, InClassFacts DEF One
  <2>2. requested'[c] = requested[c] - o /\ requested[c] \in Int
    BY <1>1, <1>2 DEF One, TypeInv
  <2>3. doubleFrees'[c] = IF s \in allocated \ marked THEN doubleFrees[c]
                          ELSE doubleFrees[c] + o
    BY <1>1, <1>2 DEF One, CountInv
  <2>4. doubleFrees[c] \in Nat /\ requested[c] = a - m - doubleFrees[c]
    BY DEF CountInv
  <2>5. CASE s \in allocated \ marked
    <3>1. InClass(A0, c) = a - o
      BY <1>4, <2>5, InClassFacts
    <3>2. M0 = marked
      BY <2>5
    <3> HIDE DEF a, m, o, A0, M0
    <3>3. InClass(M0, c) = m
      BY <3>2 DEF m
    <3> QED
      BY <2>1, <2>2, <2>3, <2>4, <2>5, <3>1, <3>3
  <2>6. CASE s \in marked
    <3>1. s \in allocated
      BY <2>6 DEF CountInv
    <3>2. InClass(A0, c) = a - o /\ InClass(M0, c) = m - o
      BY <1>4, <2>6, <3>1, InClassFacts
    <3> HIDE DEF a, m, o, A0, M0
    <3> QED
      BY <2>1, <2>2, <2>3, <2>4, <2>6, <3>2
  <2>7. CASE s \notin allocated
    <3>1. A0 = allocated /\ M0 = marked
      BY <2>7 DEF CountInv
    <3>2. InClass(A0, c) = a /\ InClass(M0, c) = m
      BY <3>1
    <3> HIDE DEF a, m, o, A0, M0
    <3> QED
      BY <2>1, <2>2, <2>3, <2>4, <2>7, <3>2
  <2> QED
    BY <2>5, <2>6, <2>7
<1>6. CASE allocated' = A0 /\ marked' = M0
  BY <1>3, <1>4, <1>5, <1>6 DEF CountInv
<1>7. ASSUME NEW n \in Slots, n # s, allocated' = A0 \cup {n},
             marked' = IF n \in allocated THEN M0 ELSE M0 \cup {n}
      PROVE  CountInv'
  <2>1. CASE n \in allocated
    <3>1. allocated' = A0 /\ marked' = M0
      BY <1>7, <2>1
    <3> QED
      BY <1>6, <3>1
  <2>2. CASE n \notin allocated
    <3>1. n \notin A0 /\ n \notin M0 /\ marked' = M0 \cup {n}
      BY <1>4, <1>7, <2>2
    <3>2. marked' \subseteq allocated'
      BY <1>4, <1>7, <3>1
    <3> HIDE DEF A0, M0
    <3>3. ASSUME NEW c \in Classes
          PROVE  requested'[c] = InClass(allocated', c) - InClass(marked', c)
                                   - doubleFrees'[c]
      <4>1. InClass(A0 \cup {n}, c) = InClass(A0, c) + One(n, c)
        BY <1>4, <3>1, InClassFacts
      <4>2. InClass(M0 \cup {n}, c) = InClass(M0, c) + One(n, c)
        BY <1>4, <3>1, InClassFacts
      <4>3. InClass(A0, c) \in Nat /\ InClass(M0, c) \in Nat /\ One(n, c) \in {0, 1}
        BY <1>4, <1>7, InClassFacts DEF One
      <4>4. doubleFrees'[c] \in Nat
        BY <1>3
      <4> QED
        BY <1>5, <1>7, <3>1, <4>1, <4>2, <4>3, <4>4
    <3> QED
      BY <1>3, <3>2, <3>3 DEF CountInv, InClass
  <2> QED
    BY <2>1, <2>2
<1> QED
  BY <1>6, <1>7, FreeFacts

\* Every step keeps the counters of each class equal to the slots they count.
LEMMA CountStep ==
  ASSUME TypeInv, CallInv, CountInv, Next
  PROVE  CountInv'
<1>same. ASSUME UNCHANGED <<requested, allocated, marked, doubleFrees>> PROVE CountInv'
  BY <1>same DEF CountInv, InClass
<1>free. ASSUME CallFree \/ ReallocFree PROVE CountInv'
  <2>1. PICK s \in Slots, site \in Sites : FreeNow(s, site) \/ FreeLater(s, site)
    BY <1>free, FreeCalls
  <2>2. CASE FreeNow(s, site)
    BY <2>2, FreeCount DEF FreeNow
  <2>3. CASE FreeLater(s, site)
    BY <1>same, <2>3 DEF FreeLater, heapVars
  <2> QED
    BY <2>1, <2>2, <2>3
<1>1. ASSUME CallMalloc PROVE CountInv'
  BY <1>1, <1>same DEF CallMalloc, Malloc, heapVars, ghostVars
<1>2. ASSUME CallRealloc PROVE CountInv'
  BY <1>2, <1>same DEF CallRealloc, Malloc, heapVars, ghostVars
<1>3. ASSUME MallocCount PROVE CountInv'
  BY <1>3, <1>same DEF MallocCount, heapVars, ghostVars
<1>4. ASSUME FreeDue PROVE CountInv'
  BY <1>4, FreeCount, QueueFacts DEF FreeDue
<1>5. ASSUME ProbeThreshold PROVE CountInv'
  BY <1>5, <1>same DEF ProbeThreshold, heapVars, ghostVars
<1>6. ASSUME Probe PROVE CountInv'
  <2>1. PICK s \in SlotsOf(call.class) \ allocated :
          allocated' = allocated \cup {s} /\ requested' = CountUp(call.class)
    BY <1>6 DEF Probe
  <2>2. call.class \in Classes
    BY <1>6, CallIs DEF Probe
  <2>3. s \in Slots /\ s[1] = call.class
    BY <2>1, <2>2 DEF SlotsOf, Slots
  <2>4. UNCHANGED <<marked, doubleFrees>>
    BY <1>6 DEF Probe
  <2>5. ASSUME NEW c \in Classes
        PROVE  requested'[c] = InClass(allocated', c) - InClass(marked, c) - doubleFrees[c]
    <3>1. InClass(allocated', c) = InClass(allocated, c) + One(s, c)
      BY <2>1, <2>3, InClassFacts DEF TypeInv
    <3>2. requested'[c] = requested[c] + One(s, c)
      BY <2>1, <2>2, <2>3 DEF CountUp, One, TypeInv
    <3>3. /\ InClass(allocated, c) \in Nat /\ InClass(marked, c) \in Nat
          /\ One(s, c) \in {0, 1} /\ doubleFrees[c] \in Nat /\ requested[c] \in Int
      BY <2>3, InClassFacts DEF CountInv, TypeInv, One
    <3>4. requested[c] = InClass(allocated, c) - InClass(marked, c) - doubleFrees[c]
      BY DEF CountInv
    <3> QED
      BY <3>1, <3>2, <3>3, <3>4
  <2>6. marked' \subseteq allocated' /\ doubleFrees' \in [Classes -> Nat]
    BY <2>1, <2>4 DEF CountInv
  <2> QED
    BY <2>4, <2>5, <2>6 DEF CountInv, InClass
<1>7. ASSUME DirectMap PROVE CountInv'
  BY <1>7, <1>same DEF DirectMap, heapVars
<1>8. ASSUME DirectFails PROVE CountInv'
  BY <1>8, <1>same DEF DirectFails, heapVars, ghostVars
<1>9. ASSUME CallFree PROVE CountInv'
  BY <1>9, <1>free
<1>10. ASSUME ReallocFree PROVE CountInv'
  BY <1>10, <1>free
<1>11. ASSUME FreeDirect PROVE CountInv'
  BY <1>11, <1>same DEF FreeDirect, heapVars, ghostVars
<1>12. ASSUME SigSegv PROVE CountInv'
  BY <1>12, <1>same DEF SigSegv, heapVars, ghostVars
<1>13. ASSUME SigFatal PROVE CountInv'
  BY <1>13, <1>same DEF SigFatal, heapVars, ghostVars
<1>14. ASSUME Exit PROVE CountInv'
  BY <1>14, <1>same DEF Exit, heapVars, ghostVars
<1>15. ASSUME Corrupt PROVE CountInv'
  BY <1>15, <1>same DEF Corrupt
<1>16. QED
  BY <1>1, <1>2, <1>3, <1>4, <1>5, <1>6, <1>7, <1>8, <1>9, <1>10, <1>11,
     <1>12, <1>13, <1>14, <1>15 DEF Next

\* No two objects of the program get the same object id.
LEMMA IdStep ==
  ASSUME TypeInv, CallInv, IdInv, Next
  PROVE  IdInv'
<1>same. ASSUME UNCHANGED <<info, global_ct>>, live' \subseteq live,
                call'.op = "probe" => call.op = "probe"
         PROVE  IdInv'
  BY <1>same DEF IdInv
<1>free. ASSUME CallFree \/ ReallocFree PROVE IdInv'
  <2>1. PICK s \in Slots, site \in Sites :
          live' = live \ {s} /\ (FreeNow(s, site) \/ FreeLater(s, site))
    BY <1>free, FreeCalls
  <2>2. UNCHANGED <<info, global_ct>> /\ call' = Idle
    BY <1>free, <2>1, FreeCalls DEF FreeNow, FreeLater, heapVars
  <2>3. Idle.op = "none"
    BY DEF Idle
  <2> QED
    BY <1>same, <2>1, <2>2, <2>3
<1>returns. ASSUME call' = Return(call), call.op \in {"direct", "probe"}
            PROVE  call'.op # "probe"
  BY <1>returns, CallIs, ReturnIs
<1>1. ASSUME CallMalloc PROVE IdInv'
  BY <1>1, <1>same DEF CallMalloc, Malloc, heapVars, ghostVars
<1>2. ASSUME CallRealloc PROVE IdInv'
  BY <1>2, <1>same DEF CallRealloc, Malloc, heapVars, ghostVars
<1>3. ASSUME MallocCount PROVE IdInv'
  <2>1. global_ct \in Nat /\ global_ct' = global_ct + 1 /\ UNCHANGED <<info, live>>
    BY <1>3 DEF MallocCount, TypeInv, heapVars, ghostVars
  <2>2. \A s \in Slots : info[s].id \in Nat
    BY DEF TypeInv
  <2>3. \A s \in Slots : info'[s].id <= global_ct' /\ info'[s].id < global_ct'
    BY <2>1, <2>2 DEF IdInv
  <2> QED
    BY <2>1, <2>3 DEF IdInv
<1>4. ASSUME FreeDue PROVE IdInv'
  BY <1>4, <1>same DEF FreeDue
<1>5. ASSUME ProbeThreshold PROVE IdInv'
  BY <1>5, <1>same DEF ProbeThreshold, heapVars, ghostVars
<1>6. ASSUME Probe PROVE IdInv'
  <2>1. PICK s \in SlotsOf(call.class) \ allocated : ProbeBad(s) \/ ProbeGood(s)
    BY <1>6 DEF Probe
  <2>2. call.class \in Classes /\ call.op = "probe"
    BY <1>6, CallIs DEF Probe
  <2>3. s \in Slots
    BY <2>1, <2>2 DEF SlotsOf, Slots
  <2>4. UNCHANGED global_ct
    BY <1>6 DEF Probe
  <2>5. CASE ProbeBad(s)
    BY <1>same, <2>4, <2>5 DEF ProbeBad
  <2>6. CASE ProbeGood(s)
    <3>1. info' = allocEvent(s) /\ live' = live \cup {s} /\ call'.op # "probe"
      BY <1>returns, <2>2, <2>6 DEF ProbeGood
    <3>2. /\ info'[s].id = global_ct
          /\ \A t \in Slots \ {s} : info'[t] = info[t]
      BY <2>3, <3>1 DEF allocEvent, TypeInv
    <3>3. \A t \in Slots : info[t].id < global_ct /\ info[t].id \in Nat
      BY <2>2 DEF IdInv, TypeInv
    <3>4. global_ct \in Nat /\ global_ct >= 1 /\ live \subseteq Slots
      BY <2>2 DEF IdInv, TypeInv
    <3>5. \A t \in Slots : info'[t].id <= global_ct
      BY <3>2, <3>3, <3>4
    <3>6. \A t \in live' : info'[t].id >= 1
      BY <3>1, <3>2, <3>4 DEF IdInv
    <3>7. \A t, u \in live' : t # u => info'[t].id # info'[u].id
      <4>1. \A t \in live \ {s} : info'[t].id = info[t].id /\ info'[t].id # global_ct
        BY <3>2, <3>3, <3>4
      <4>2. live' \ {s} \subseteq live \ {s}
        BY <3>1
      <4> QED
        BY <3>2, <4>1, <4>2 DEF IdInv
    <3> QED
      BY <2>4, <3>1, <3>5, <3>6, <3>7 DEF IdInv
  <2> QED
    BY <2>1, <2>5, <2>6
<1>7. ASSUME DirectMap PROVE IdInv'
  BY <1>7, <1>same, <1>returns DEF DirectMap, heapVars
<1>8. ASSUME DirectFails PROVE IdInv'
  BY <1>8, <1>same, <1>returns DEF DirectFails, heapVars, ghostVars
<1>9. ASSUME CallFree PROVE IdInv'
  BY <1>9, <1>free
<1>10. ASSUME ReallocFree PROVE IdInv'
  BY <1>10, <1>free
<1>11. ASSUME FreeDirect PROVE IdInv'
  BY <1>11, <1>same DEF FreeDirect, heapVars
<1>12. ASSUME SigSegv PROVE IdInv'
  BY <1>12, <1>same DEF SigSegv, heapVars, ghostVars
<1>13. ASSUME SigFatal PROVE IdInv'
  BY <1>13, <1>same DEF SigFatal, heapVars, ghostVars
<1>14. ASSUME Exit PROVE IdInv'
  BY <1>14, <1>same DEF Exit, heapVars, ghostVars
<1>15. ASSUME Corrupt PROVE IdInv'
  BY <1>15, <1>same DEF Corrupt
<1>16. QED
  BY <1>1, <1>2, <1>3, <1>4, <1>5, <1>6, <1>7, <1>8, <1>9, <1>10, <1>11,
     <1>12, <1>13, <1>14, <1>15 DEF Next

\* Every page has an entry in the table, of which there are finitely many.
LEMMA EntryFacts ==
  /\ \A p \in Pages : getIndex(p) \in Nat
  /\ IsFiniteSet({getIndex(p) : p \in Pages})
<1>1. \A x, d \in Nat : d # 0 => x \div d \in Nat /\ x \div d <= x
  BY Z3
<1>2. \A p \in Pages : getIndex(p) \in Nat /\ getIndex(p) <= p
  BY <1>1, ExtHeapAssumption DEF Pages, getIndex
<1>3. \A p \in Pages : getIndex(p) \in 0 .. LastPage
  BY <1>2, ExtHeapAssumption DEF Pages
<1>4. IsFiniteSet(0 .. LastPage)
  BY FS_Interval, ExtHeapAssumption
<1>5. {getIndex(p) : p \in Pages} \in SUBSET (0 .. LastPage)
  BY <1>3
<1> QED
  BY <1>2, <1>4, <1>5, FS_Subset

\* Two runs of more pages than an entry stands for overlap if they share it.
LEMMA EntryShared ==
  ASSUME NEW p \in Pages, NEW q \in Pages, getIndex(p) = getIndex(q)
  PROVE  PageRun(p, PagesPerIndex + 1) \cap PageRun(q, PagesPerIndex + 1) # {}
<1> DEFINE K == PagesPerIndex
<1>1. p \in Nat /\ q \in Nat /\ K \in Nat \ {0}
  BY ExtHeapAssumption DEF Pages
<1>2. p \div K = q \div K
  BY DEF getIndex
<1>3. \A x, y \in Nat : \A d \in Nat \ {0} : x \div d = y \div d => x < y + d
  BY Z3
<1> HIDE DEF K
<1>4. p < q + K /\ q < p + K
  BY <1>1, <1>2, <1>3
<1>5. CASE p <= q
  <2>1. q \in p .. p + (K + 1) - 1 /\ q \in q .. q + (K + 1) - 1
    BY <1>1, <1>4, <1>5
  <2> QED
    BY <2>1 DEF PageRun, K
<1>6. CASE q <= p
  <2>1. p \in p .. p + (K + 1) - 1 /\ p \in q .. q + (K + 1) - 1
    BY <1>1, <1>4, <1>6
  <2> QED
    BY <2>1 DEF PageRun, K
<1> QED
  BY <1>1, <1>5, <1>6

\* Setting or clearing an entry changes the number of those in use by that one.
LEMMA EntryCount ==
  ASSUME LosInv, NEW p \in Pages, NEW e
  PROVE  LET g == getIndex(p)
             Used(t) == {h \in DOMAIN t : t[h].size # 0}
             new == [los EXCEPT ![g] = e]
         IN  /\ DOMAIN new = DOMAIN los /\ losCt \in Nat
             /\ e.size # 0 => Cardinality(Used(new)) = CtAfterSet(g)
             /\ e.size = 0 /\ los[g].size # 0 => Cardinality(Used(new)) = losCt - 1
<1> DEFINE g == getIndex(p)
           Used(t) == {h \in DOMAIN t : t[h].size # 0}
           new == [los EXCEPT ![g] = e]
<1>1. g \in DOMAIN los
  BY DEF LosInv
<1>2. Used(los) \in SUBSET DOMAIN los /\ IsFiniteSet(DOMAIN los)
  BY EntryFacts DEF LosInv
<1>3. IsFiniteSet(Used(los)) /\ Cardinality(Used(los)) = losCt
  BY <1>2, FS_Subset DEF LosInv
<1>4. losCt \in Nat
  BY <1>3, FS_CardinalityType
<1>5. DOMAIN new = DOMAIN los
  OBVIOUS
<1>6. ASSUME e.size # 0 PROVE Cardinality(Used(new)) = CtAfterSet(g)
  <2>1. Used(new) = Used(los) \cup {g} /\ (g \in Used(los) <=> los[g].size # 0)
    BY <1>1, <1>6
  <2> HIDE DEF Used, new, g
  <2>2. Cardinality(Used(los) \cup {g}) = IF g \in Used(los) THEN losCt ELSE losCt + 1
    BY <1>3, FS_AddElement
  <2> QED
    BY <1>4, <2>1, <2>2 DEF CtAfterSet
<1>7. ASSUME e.size = 0, los[g].size # 0 PROVE Cardinality(Used(new)) = losCt - 1
  <2>1. Used(new) = Used(los) \ {g} /\ g \in Used(los)
    BY <1>1, <1>7
  <2> HIDE DEF Used, new, g
  <2>2. Cardinality(Used(los) \ {g}) = losCt - 1
    BY <1>3, <2>1, FS_RemoveElement
  <2> QED
    BY <2>1, <2>2
<1> QED
  BY <1>4, <1>5, <1>6, <1>7

\* A direct object gets pages of its own and the entry of its first page.
LEMMA DirectMapLos ==
  ASSUME TypeInv, CallInv, LosInv, DirectMap
  PROVE  LosInv'
<1>1. PICK p \in Pages :
        LET n == PagesOf(call.size) IN
        /\ PageRun(p, n) \subseteq Pages \ mapped
        /\ mapped' = mapped \cup PageRun(p, n)
        /\ losCt' = CtAfterSet(getIndex(p))
        /\ los' = [los EXCEPT ![getIndex(p)] = [size |-> n, addr |-> p]]
        /\ liveDirect' = liveDirect \cup {[ptr |-> p, size |-> n]}
  BY DEF DirectMap
<1>2. PICK n : n = PagesOf(call.size)
  OBVIOUS
<1>3. /\ PageRun(p, n) \subseteq Pages \ mapped /\ mapped' = mapped \cup PageRun(p, n)
      /\ losCt' = CtAfterSet(getIndex(p))
      /\ los' = [los EXCEPT ![getIndex(p)] = [size |-> n, addr |-> p]]
      /\ liveDirect' = liveDirect \cup {[ptr |-> p, size |-> n]}
  BY <1>1, <1>2
<1>4. call.size \in Nat /\ MaxObjectSize \in Nat
  BY CallIs, PowerOfTwo, ExtHeapAssumption DEF DirectMap, MaxObjectSize,
     classToSize
<1>5. n \in Nat \ {0} /\ (call.size > MaxObjectSize => n = PagesPerIndex + 1)
  BY <1>2, ExtHeapAssumption DEF PagesOf
<1>6. smallDirect' = (smallDirect \/ call.size <= MaxObjectSize)
  BY DEF DirectMap
<1>7. smallDirect' \in BOOLEAN /\ (~smallDirect' => ~smallDirect /\ n = PagesPerIndex + 1)
  <2>1. call.size <= MaxObjectSize \/ n = PagesPerIndex + 1
    BY <1>4, <1>5
  <2>2. smallDirect \in BOOLEAN
    BY DEF LosInv
  <2> QED
    BY <1>6, <2>1, <2>2, Zenon
<1>8. DOMAIN los' = DOMAIN los
      /\ losCt' = Cardinality({h \in DOMAIN los' : los'[h].size # 0})
  <2>1. PICK e : e = [size |-> n, addr |-> p]
    OBVIOUS
  <2>2. e.size # 0 /\ los' = [los EXCEPT ![getIndex(p)] = e]
    BY <1>3, <1>5, <2>1
  <2>3. losCt' = CtAfterSet(getIndex(p))
    BY <1>3
  <2> QED
    BY <2>2, <2>3, EntryCount
<1>9. \A d \in liveDirect' : d.ptr \in Pages
  BY <1>3 DEF LosInv
<1>10. ASSUME ~smallDirect'
       PROVE  /\ \A d \in liveDirect' :
                   /\ d.size = PagesPerIndex + 1
                   /\ los'[getIndex(d.ptr)].size = d.size
                   /\ PageRun(d.ptr, d.size) \subseteq mapped'
              /\ \A d, e \in liveDirect' :
                   d # e => PageRun(d.ptr, d.size) \cap PageRun(e.ptr, e.size) = {}
  <2>1. ~smallDirect /\ n = PagesPerIndex + 1
    BY <1>7, <1>10
  <2>2. PICK o : o = [ptr |-> p, size |-> n]
    OBVIOUS
  <2>3. o.ptr = p /\ o.size = n /\ liveDirect' = liveDirect \cup {o}
    BY <1>3, <2>2
  <2>4. \A d \in liveDirect : /\ d.ptr \in Pages /\ d.size = n
                              /\ los[getIndex(d.ptr)].size = d.size
                              /\ PageRun(d.ptr, d.size) \subseteq mapped
    BY <2>1 DEF LosInv
  <2>5. \A d \in liveDirect : PageRun(d.ptr, d.size) \cap PageRun(p, n) = {}
    BY <1>3, <2>4
  <2>6. \A d \in liveDirect : getIndex(d.ptr) # getIndex(p)
    BY <2>1, <2>4, <2>5, EntryShared
  <2>7. getIndex(p) \in DOMAIN los
    BY DEF LosInv
  <2>8. /\ los'[getIndex(p)].size = n
        /\ \A d \in liveDirect : los'[getIndex(d.ptr)] = los[getIndex(d.ptr)]
    BY <1>3, <2>6, <2>7
  <2>9. \A d \in liveDirect' : /\ d.size = PagesPerIndex + 1
                               /\ los'[getIndex(d.ptr)].size = d.size
                               /\ PageRun(d.ptr, d.size) \subseteq mapped'
    BY <1>3, <2>1, <2>3, <2>4, <2>8
  <2>10. \A d, e \in liveDirect' :
           d # e => PageRun(d.ptr, d.size) \cap PageRun(e.ptr, e.size) = {}
    BY <2>1, <2>3, <2>5 DEF LosInv
  <2> QED
    BY <2>9, <2>10
<1> QED
  BY <1>7, <1>8, <1>9, <1>10 DEF LosInv

\* freeDirect takes away the pages and the entry of the object alone.
LEMMA FreeDirectLos ==
  ASSUME LosInv, FreeDirect
  PROVE  LosInv'
<1>1. PICK d \in liveDirect :
        LET g == getIndex(d.ptr)
            sz == getLargeObjectSize(d.ptr) IN
        /\ liveDirect' = liveDirect \ {d}
        /\ IF sz # 0
           THEN /\ mapped' = mapped \ PageRun(d.ptr, sz)
                /\ los' = [los EXCEPT ![g] = NoEntry]
                /\ losCt' = losCt - 1
           ELSE UNCHANGED directVars
  BY DEF FreeDirect
<1>2. d.ptr \in Pages /\ smallDirect' = smallDirect /\ liveDirect' = liveDirect \ {d}
  BY <1>1 DEF LosInv, FreeDirect
<1>3. CASE getLargeObjectSize(d.ptr) = 0
  BY <1>1, <1>2, <1>3 DEF LosInv, directVars
<1>4. CASE getLargeObjectSize(d.ptr) # 0
  <2>1. PICK sz : sz = los[getIndex(d.ptr)].size
    OBVIOUS
  <2>2. /\ sz # 0 /\ mapped' = mapped \ PageRun(d.ptr, sz)
        /\ los' = [los EXCEPT ![getIndex(d.ptr)] = NoEntry] /\ losCt' = losCt - 1
    BY <1>1, <1>4, <2>1 DEF getLargeObjectSize
  <2>3. NoEntry.size = 0
    BY DEF NoEntry
  <2>4. DOMAIN los' = DOMAIN los
        /\ losCt' = Cardinality({h \in DOMAIN los' : los'[h].size # 0})
    BY <1>2, <2>1, <2>2, <2>3, EntryCount
  <2>5. ASSUME ~smallDirect, NEW e \in liveDirect \ {d}
        PROVE  /\ los'[getIndex(e.ptr)].size = e.size
               /\ PageRun(e.ptr, e.size) \subseteq mapped'
    <3>1. /\ d.size = PagesPerIndex + 1 /\ e.size = PagesPerIndex + 1 /\ sz = d.size
          /\ los[getIndex(e.ptr)].size = e.size /\ PageRun(e.ptr, e.size) \subseteq mapped
          /\ e.ptr \in Pages
      BY <2>1, <2>5 DEF LosInv
    <3>2. PageRun(d.ptr, d.size) \cap PageRun(e.ptr, e.size) = {}
      BY <2>5 DEF LosInv
    <3>3. getIndex(e.ptr) # getIndex(d.ptr)
      BY <1>2, <3>1, <3>2, EntryShared
    <3> QED
      BY <2>2, <3>1, <3>2, <3>3
  <2> QED
    BY <1>2, <2>4, <2>5 DEF LosInv
<1> QED
  BY <1>3, <1>4

\* What is mapped directly stays apart, whatever is freed.
LEMMA LosStep ==
  ASSUME TypeInv, CallInv, LosInv, Next
  PROVE  LosInv'
<1>same. ASSUME UNCHANGED <<directVars, liveDirect, smallDirect>> PROVE LosInv'
  BY <1>same DEF LosInv, directVars
<1>1. ASSUME CallMalloc PROVE LosInv'
  BY <1>1, <1>same DEF CallMalloc, Malloc, ghostVars
<1>2. ASSUME CallRealloc PROVE LosInv'
  BY <1>2, <1>same DEF CallRealloc, Malloc, ghostVars
<1>3. ASSUME MallocCount PROVE LosInv'
  BY <1>3, <1>same DEF MallocCount, ghostVars
<1>4. ASSUME FreeDue PROVE LosInv'
  BY <1>4, <1>same DEF FreeDue, ghostVars
<1>5. ASSUME ProbeThreshold PROVE LosInv'
  BY <1>5, <1>same DEF ProbeThreshold, ghostVars
<1>6. ASSUME Probe PROVE LosInv'
  BY <1>6, <1>same DEF Probe, ghostVars
<1>7. ASSUME DirectMap PROVE LosInv'
  BY <1>7, DirectMapLos
<1>8. ASSUME DirectFails PROVE LosInv'
  BY <1>8, <1>same DEF DirectFails, ghostVars
<1>9. ASSUME CallFree PROVE LosInv'
  BY <1>9, <1>same, FreeCalls
<1>10. ASSUME ReallocFree PROVE LosInv'
  BY <1>10, <1>same, FreeCalls
<1>11. ASSUME FreeDirect PROVE LosInv'
  BY <1>11, FreeDirectLos
<1>12. ASSUME SigSegv PROVE LosInv'
  BY <1>12, <1>same DEF SigSegv, ghostVars
<1>13. ASSUME SigFatal PROVE LosInv'
  BY <1>13, <1>same DEF SigFatal, ghostVars
<1>14. ASSUME Exit PROVE LosInv'
  BY <1>14, <1>same DEF Exit, ghostVars
<1>15. ASSUME Corrupt PROVE LosInv'
  BY <1>15, <1>same DEF Corrupt, ghostVars
<1>16. QED
  BY <1>1, <1>2, <1>3, <1>4, <1>5, <1>6, <1>7, <1>8, <1>9, <1>10, <1>11,
     <1>12, <1>13, <1>14, <1>15 DEF Next

----------------------------------------------------------------------------
(* The theorems *)

\* At first nothing is allocated and every slot holds the sentinel.
LEMMA InitInv ==
  ASSUME Init
  PROVE  IInv
<1> USE DEF Init, InitPartitions, InitCorrecting
<1>1. TypeInv
  <2>1. pqueue \in Seq([ptr : Slots, death : Int]) /\ Len(pqueue) = 0
    OBVIOUS
  <2>2. info \in [Slots -> [id : Nat, alloc : Sites \cup {0}]]
    BY DEF NoInfo
  <2>3. global_ct \in 0 .. MaxAllocs /\ Len(pqueue) <= PQUEUE_SIZE
    BY <2>1, ExtHeapAssumption
  <2>4. requested \in [Classes -> Int] /\ errors \in Nat
    OBVIOUS
  <2>5. /\ status \in {"run", "aborting", "suicide", "dead"} /\ bad \in BOOLEAN
        /\ allocated \subseteq Slots /\ hasData \subseteq Slots
        /\ canary \subseteq Slots /\ live \subseteq Slots /\ mapped \subseteq Pages
    OBVIOUS
  <2> QED
    BY <2>1, <2>2, <2>3, <2>4, <2>5 DEF TypeInv
<1>2. CallInv
  BY DEF CallInv, Idle
<1>3. BadInv
  BY DEF BadInv
<1>4. CountInv
  <2>1. \A c \in Classes : InClass({}, c) = 0
    BY FS_EmptySet DEF InClass
  <2> QED
    BY <2>1 DEF CountInv, InClass
<1>5. KeptInv
  <2>1. DOMAIN pqueue = {}
    OBVIOUS
  <2> QED
    BY <2>1 DEF KeptInv, Deferred
<1>6. IdInv
  BY DEF IdInv, NoInfo, Idle
<1>7. LosInv
  <2>1. {g \in DOMAIN los : los[g].size # 0} = {}
    BY DEF NoEntry
  <2> QED
    BY <2>1, FS_EmptySet DEF LosInv
<1> QED
  BY <1>1, <1>2, <1>3, <1>4, <1>5, <1>6, <1>7 DEF IInv

\* IInv is an invariant of Exterminator's heap.
THEOREM Invariant == Spec => []IInv
<1>1. Init => IInv
  BY InitInv
<1>2. IInv /\ [Next]_vars => IInv'
  <2> SUFFICES ASSUME IInv, [Next]_vars PROVE IInv'
    OBVIOUS
  <2>1. CASE UNCHANGED vars
    <3> USE <2>1 DEF vars, heapVars, directVars, ghostVars
    <3>1. TypeInv' /\ CallInv' /\ BadInv'
      BY DEF IInv, TypeInv, CallInv, BadInv
    <3>2. CountInv' /\ KeptInv'
      BY DEF IInv, CountInv, InClass, KeptInv, Deferred
    <3>3. IdInv' /\ LosInv'
      BY DEF IInv, IdInv, LosInv
    <3> QED
      BY <3>1, <3>2, <3>3 DEF IInv
  <2>2. CASE Next
    BY <2>2, TypeStep, CallStep, BadStep, CountStep, KeptStep, IdStep,
       LosStep DEF IInv
  <2> QED
    BY <2>1, <2>2
<1> QED
  BY <1>1, <1>2, PTL DEF Spec

\* The invariant has the types of the model.
LEMMA TypesHold ==
  ASSUME IInv
  PROVE  TypeOK
<1>1. Deferred \subseteq Slots
  BY QueueFacts DEF IInv, Deferred
<1>2. call.op = "probe" => call.class \in Classes
  BY CallIs DEF IInv
<1>3. losCt \in Nat
  <2>1. 0 \in Pages
    BY ExtHeapAssumption DEF Pages
  <2> QED
    BY <2>1, EntryCount DEF IInv
<1> QED
  BY <1>1, <1>2, <1>3 DEF IInv, TypeInv, TypeOK

\* _requested counts the allocated slots but for those checkOverflow marks and
\* the frees of free slots, and while there are none, allocObject's loop finds
\* a free slot in a partition under its threshold.
THEOREM AccountingAlways == Spec => []Accounting
<1>1. ASSUME IInv PROVE Accounting
  <2>1. ASSUME NEW c \in Classes, requested[c] < Threshold(c), doubleFrees[c] = 0,
               InClass(marked, c) = 0, SlotsOf(c) \ allocated = {}
        PROVE  FALSE
    <3> DEFINE In == {s \in allocated : s[1] = c}
    <3>1. In \in SUBSET Slots /\ allocated \subseteq Slots
      BY <1>1 DEF IInv, TypeInv
    <3>2. IsFiniteSet(In)
      BY <3>1, SlotsFinite, FS_Subset
    <3>3. SlotsOf(c) \in SUBSET In
      BY <2>1 DEF SlotsOf
    <3>4. Cardinality(SlotsOf(c)) <= Cardinality(In)
      BY <3>2, <3>3, FS_Subset
    <3>5. Elements(c) <= InClass(allocated, c)
      BY <3>4, SlotsFinite DEF InClass
    <3>6. Cardinality(In) \in Nat
      BY <3>2, FS_CardinalityType
    <3>7. InClass(allocated, c) \in Nat
      BY <3>6 DEF InClass
    <3>8. requested[c] = InClass(allocated, c) - 0 - 0
      BY <1>1, <2>1 DEF IInv, CountInv
    <3> QED
      BY <2>1, <3>5, <3>7, <3>8, ElementsFacts
  <2>2. \A c \in Classes :
          requested[c] = InClass(allocated, c) - InClass(marked, c) - doubleFrees[c]
    BY <1>1 DEF IInv, CountInv
  <2> QED
    BY <1>1, <2>1, <2>2, TypesHold DEF Accounting
<1> QED
  BY <1>1, Invariant, PTL

\* An object the program holds keeps its bits and an identity of its own; the
\* table of direct objects knows those above MaxObjectSize.
THEOREM LiveIntactAlways == Spec => []LiveIntact
<1>1. ASSUME IInv PROVE LiveIntact
  <2>1. ASSUME NEW s \in live \ twice
        PROVE  /\ s \in allocated /\ s \in hasData /\ info[s].id \in 1 .. global_ct
               /\ \A t \in live \ {s} : info[t].id # info[s].id
    <3>1. s \in allocated /\ s \in hasData
      BY <1>1, <2>1 DEF IInv, KeptInv
    <3>2. s \in Slots /\ info[s].id \in Nat /\ global_ct \in Nat
      BY <1>1, <2>1, ExtHeapAssumption DEF IInv, TypeInv
    <3>3. info[s].id >= 1 /\ info[s].id <= global_ct
      BY <1>1, <2>1, <3>2 DEF IInv, IdInv
    <3>4. \A t \in live \ {s} : info[t].id # info[s].id
      BY <1>1, <2>1 DEF IInv, IdInv
    <3> QED
      BY <3>1, <3>2, <3>3, <3>4
  <2>2. ASSUME ~smallDirect, NEW d \in liveDirect
        PROVE  getLargeObjectSize(d.ptr) = d.size /\ PageRun(d.ptr, d.size) \subseteq mapped
    BY <1>1, <2>2 DEF IInv, LosInv, getLargeObjectSize
  <2>3. losCt = Cardinality({g \in DOMAIN los : los[g].size # 0})
    BY <1>1 DEF IInv, LosInv
  <2> QED
    BY <2>1, <2>2, <2>3 DEF LiveIntact
<1> QED
  BY <1>1, Invariant, PTL

\* DieFast accuses only programs that wrote where they must not.
THEOREM NoFalseAlarmAlways == Spec => []NoFalseAlarm
<1>1. IInv => NoFalseAlarm
  BY DEF IInv, BadInv, NoFalseAlarm
<1> QED
  BY <1>1, Invariant, PTL

\* An object whose free CorrectingHeap defers is given to nobody meanwhile.
THEOREM DeferredKeptAlways == Spec => []DeferredKept
<1>1. IInv => DeferredKept
  BY DEF IInv, KeptInv, DeferredKept
<1> QED
  BY <1>1, Invariant, PTL
=============================================================================
