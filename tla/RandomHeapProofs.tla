--------------------------- MODULE RandomHeapProofs ---------------------------
(***************************************************************************)
(* Proofs about RandomHeap for any number of threads and miniheaps, any    *)
(* size of the first miniheap and any load factor.                         *)
(***************************************************************************)
EXTENDS RandomHeap, FiniteSetTheorems, WellFoundedInduction, TLAPS

\* The number of objects, and the mask, that go with m miniheaps.
Total(m) == IF m = 0 THEN 0 ELSE MinObjects * 2 ^ (m - 1)
Mask(m) == IF m = 0 THEN 0 ELSE 2 ^ (m - 1) - 1

\* Somebody is at one of these labels.
Somebody(labels) == \E t \in Threads : pc[t] \in labels

\* Which of the four tests a thread is running, by where it is, and that the
\* lock is held by at most one thread and only while it is taken.
LockInv ==
  /\ \A t \in Threads :
       /\ site[t] = "locked" =>
            growLock /\ pc[t] \in {"inUse", "available", "unlock"} \cup Storing
       /\ pc[t] \in {"unlock"} \cup Storing => site[t] = "locked"
       /\ pc[t] = "lock" => site[t] \in {"grow", "wait"}
       /\ pc[t] = "spin" => site[t] = "wait"
       /\ pc[t] \in {"idle", "get", "try", "count", "freeCached", "freeSearch",
                     "uncount"} => site[t] = "fast"
  /\ \A t, u \in Threads : site[t] = "locked" /\ site[u] = "locked" => t = u

\* What a thread has selected when it probes, and has in hand when it counts
\* or frees.
LocalInv ==
  \A t \in Threads :
    /\ pc[t] = "try" => sel[t] \in MiniHeap
    /\ pc[t] \in {"count", "freeCached", "freeSearch"} => arg[t] \in Object

\* The four words that getAnotherMiniHeap stores, between any two of its stores.
GrowInv ==
  LET m == miniHeapsInUse IN
  /\ Somebody(Storing) => m < MaxMiniHeaps
  /\ activated = IF Somebody({"storeAvailable", "storeChunks", "storeHeaps"})
                   THEN 0 .. m ELSE 0 .. m - 1
  /\ available = IF Somebody({"storeChunks", "storeHeaps"})
                   THEN Total(m + 1) ELSE Total(m)
  /\ chunksInUse = IF Somebody({"storeHeaps"}) THEN Mask(m + 1) ELSE Mask(m)

\* _inUse is the number of set bits, up to the threads about to count.
Uncounting == {t \in Threads : pc[t] = "uncount"}
CountInv ==
  /\ IsFiniteSet(bits)
  /\ inUse = Cardinality(bits) - Cardinality(Returning) + Cardinality(Uncounting)

\* The threads that would pass, or have passed, the test if a heap with k
\* objects in use was full, and will count an object.
Passed(k) ==
  {t \in Threads : \/ pc[t] \in {"get", "try", "count"}
                   \/ pc[t] = "available" /\ seen[t] < k}

\* While k objects or more are in use no thread joins them that had not loaded
\* _inUse before: each of them counts one object.
LoadInv ==
  \A k \in Int :
    Numerator * k >= Denominator * available =>
      inUse + Cardinality(Passed(k)) < k + Cardinality(Threads)

\* What a thread is about to return or to free is not the program's, and no
\* two threads have the same object.
Freeing == {t \in Threads : pc[t] \in {"freeCached", "freeSearch"}}
HoldInv ==
  /\ live \subseteq bits
  /\ \A t \in Returning : arg[t] \in bits \ live
  /\ \A t \in Freeing : arg[t] \notin live
  /\ DoubleFrees = FALSE => \A t \in Freeing : arg[t] \in bits
  /\ \A t, u \in Returning \cup Freeing : arg[t] = arg[u] => t = u

\* A thread selects a miniheap only when there is one, and finds its memory.
SelectInv ==
  \A t \in Threads :
    /\ pc[t] = "available" => seen[t] >= 0
    /\ pc[t] \in {"get", "try"} => available > 0
    /\ pc[t] = "try" => sel[t] \in activated

\* Every set bit is in a miniheap that free searches.
FindInv == \A o \in bits : o[1] < miniHeapsInUse

-----------------------------------------------------------------------------
(* Powers of two *)

\* A power of two is a positive natural number, and the next is its double.
LEMMA PowerOfTwo ==
  ASSUME NEW n \in Nat
  PROVE  2 ^ n \in Nat \ {0} /\ 2 ^ (n + 1) = 2 * 2 ^ n
<1> DEFINE S == SUBSET (1 .. n)
           Add(T) == T \cup {n + 1}
           f == [T \in S |-> Add(T)]
           With == {Add(T) : T \in S}
<1>1. IsFiniteSet(1 .. n) /\ Cardinality(1 .. n) = n
  BY FS_Interval
<1>2. IsFiniteSet(S) /\ Cardinality(S) = 2 ^ n
  BY <1>1, FS_SUBSET
<1>3. IsFiniteSet(1 .. n + 1) /\ Cardinality(1 .. n + 1) = n + 1
  BY FS_Interval
<1>4. Cardinality(SUBSET (1 .. n + 1)) = 2 ^ (n + 1)
  BY <1>3, FS_SUBSET
<1>5. f \in Bijection(S, With)
  <2>1. f \in Surjection(S, With)
    BY DEF Surjection
  <2>2. \A T, U \in S : Add(T) = Add(U) => T = U
    <3> SUFFICES ASSUME NEW T \in S, NEW U \in S, Add(T) = Add(U) PROVE T = U
      OBVIOUS
    <3>1. n + 1 \notin T /\ n + 1 \notin U
      OBVIOUS
    <3> QED
      BY <3>1
  <2>3. f \in Injection(S, With)
    <3>1. f \in [S -> With] /\ \A T \in S : f[T] = Add(T)
      OBVIOUS
    <3> HIDE DEF f, S, With, Add
    <3> QED
      BY <2>2, <3>1 DEF Injection, IsInjective
  <2> QED
    BY <2>1, <2>3 DEF Bijection
<1>6. IsFiniteSet(With) /\ Cardinality(With) = 2 ^ n
  BY <1>2, <1>5, FS_Bijection DEF ExistsBijection
<1>7. S \cap With = {}
  OBVIOUS
<1>8. SUBSET (1 .. n + 1) = S \cup With
  <2>1. ASSUME NEW T \in SUBSET (1 .. n + 1) PROVE T \in S \cup With
    <3>1. CASE n + 1 \in T
      <4>1. T \ {n + 1} \in S /\ Add(T \ {n + 1}) = T
        BY <3>1
      <4> QED
        BY <4>1
    <3>2. CASE n + 1 \notin T
      BY <3>2
    <3> QED
      BY <3>1, <3>2
  <2>2. ASSUME NEW T \in S PROVE T \subseteq 1 .. n + 1 /\ Add(T) \subseteq 1 .. n + 1
    OBVIOUS
  <2>3. S \cup With \subseteq SUBSET (1 .. n + 1)
    BY <2>2
  <2> QED
    BY <2>1, <2>3
<1>9. Cardinality(S \cup With) = Cardinality(S) + Cardinality(With) - Cardinality({})
  <2> HIDE DEF S, With
  <2> QED
    BY <1>2, <1>6, <1>7, FS_Union
<1>10. Cardinality(S) \in Nat \ {0}
  <2>1. {} \in S
    OBVIOUS
  <2> QED
    BY <1>2, <2>1, FS_CardinalityType, FS_EmptySet
<1> HIDE DEF S, With
<1>11. Cardinality({}) = 0
  BY FS_EmptySet
<1>12. 2 ^ n \in Nat \ {0}
  BY <1>2, <1>10
<1>13. 2 ^ (n + 1) = Cardinality(S \cup With)
  BY <1>4, <1>8
<1>14. 2 ^ (n + 1) = 2 ^ n + 2 ^ n - 0
  BY <1>2, <1>6, <1>9, <1>11, <1>13
<1> QED
  BY <1>12, <1>14

\* Powers of two grow with the exponent.
LEMMA PowerMonotone ==
  ASSUME NEW m \in Nat, NEW n \in Nat, m <= n
  PROVE  2 ^ m <= 2 ^ n
<1>1. IsFiniteSet(1 .. m) /\ Cardinality(1 .. m) = m
  BY FS_Interval
<1>2. IsFiniteSet(1 .. n) /\ Cardinality(1 .. n) = n
  BY FS_Interval
<1>3. Cardinality(SUBSET (1 .. m)) = 2 ^ m
  BY <1>1, FS_SUBSET
<1>4. IsFiniteSet(SUBSET (1 .. n)) /\ Cardinality(SUBSET (1 .. n)) = 2 ^ n
  BY <1>2, FS_SUBSET
<1>5. SUBSET (1 .. m) \in SUBSET (SUBSET (1 .. n))
  OBVIOUS
<1>6. Cardinality(SUBSET (1 .. m)) <= Cardinality(SUBSET (1 .. n))
  BY <1>4, <1>5, FS_Subset
<1> QED
  BY <1>3, <1>4, <1>6

\* The least element of a set of natural numbers.
LEMMA Least ==
  ASSUME NEW T \in SUBSET Nat, T # {}
  PROVE  \E x \in T : \A y \in T : x <= y
<1>1. PICK x \in T : \A y \in T : ~(<<y, x>> \in OpToRel(<, Nat))
  BY WFMin, NatLessThanWellFounded
<1>2. \A y \in T : ~(y < x)
  BY <1>1 DEF OpToRel
<1> QED
  BY <1>2

\* A number is less than its power of two.
LEMMA PowerExceeds ==
  ASSUME NEW n \in Nat
  PROVE  n < 2 ^ n
<1> DEFINE T == {m \in Nat : ~(m < 2 ^ m)}
<1> SUFFICES ASSUME T # {} PROVE FALSE
  OBVIOUS
<1>1. PICK x \in T : \A y \in T : x <= y
  BY Least
<1>2. CASE x = 0
  BY <1>2, PowerOfTwo
<1>3. CASE x # 0
  <2>1. x - 1 \in Nat /\ x - 1 \notin T
    BY <1>1, <1>3
  <2>2. 2 ^ ((x - 1) + 1) = 2 * 2 ^ (x - 1) /\ 2 ^ (x - 1) \in Nat
    BY <2>1, PowerOfTwo
  <2>3. (x - 1) + 1 = x
    OBVIOUS
  <2>4. x - 1 < 2 ^ (x - 1)
    BY <2>1
  <2>5. x < 2 ^ x
    <3>1. 2 ^ x = 2 * 2 ^ (x - 1)
      BY <2>2, <2>3
    <3>2. \A p, q \in Nat : x - 1 < p /\ q = 2 * p /\ x # 0 => x < q
      OBVIOUS
    <3>3. 2 ^ x \in Nat
      BY PowerOfTwo
    <3> QED
      BY <1>3, <2>2, <2>4, <3>1, <3>2, <3>3
  <2> QED
    BY <2>5
<1> QED
  BY <1>2, <1>3

\* The miniheap that getObject selects with k random bits is one of the first
\* k + 1.
LEMMA SelectBound ==
  ASSUME NEW k \in Nat, NEW v \in 0 .. 2 ^ k - 1
  PROVE  SelectMiniHeap(v) \in 0 .. k
<1>1. 2 ^ k \in Nat
  BY PowerOfTwo
<1>2. CASE v = 0
  BY <1>2 DEF SelectMiniHeap, log2
<1>3. CASE v # 0
  <2>1. v \in Nat \ {0} /\ v < 2 ^ k /\ v + 1 - 1 = v /\ ~(v + 1 <= 1)
    BY <1>1, <1>3
  <2>2. SelectMiniHeap(v) = BitWidth(v)
    BY <2>1 DEF SelectMiniHeap, log2
  <2> DEFINE T == {b \in Nat : v < 2 ^ b}
  <2>3. PICK b \in T : \A c \in T : b <= c
    <3>1. v \in T
      BY <2>1, PowerExceeds
    <3> QED
      BY <3>1, Least
  <2>4. b \in 0 .. v
    BY <2>1, <2>3, PowerExceeds
  <2>5. v < 2 ^ b /\ (b > 0 => 2 ^ (b - 1) <= v)
    <3>1. b > 0 => b - 1 \in Nat /\ b - 1 \notin T
      BY <2>3
    <3>2. b > 0 => 2 ^ (b - 1) \in Nat
      BY <3>1, PowerOfTwo
    <3> QED
      BY <2>1, <3>1, <3>2
  <2>6. PICK w \in 0 .. v : /\ BitWidth(v) = w
                            /\ v < 2 ^ w /\ (w > 0 => 2 ^ (w - 1) <= v)
    BY <2>4, <2>5 DEF BitWidth
  <2>7. ASSUME w > k PROVE FALSE
    <3>1. w - 1 \in Nat /\ k <= w - 1 /\ w > 0
      BY <2>7
    <3>2. 2 ^ k <= 2 ^ (w - 1) /\ 2 ^ (w - 1) \in Nat
      BY <3>1, PowerMonotone, PowerOfTwo
    <3> QED
      BY <1>1, <2>1, <2>6, <3>1, <3>2
  <2> QED
    BY <2>1, <2>2, <2>6, <2>7
<1> QED
  BY <1>2, <1>3

-----------------------------------------------------------------------------
(* The steps *)

\* A miniheap has a positive number of objects.
LEMMA ObjectsOfMiniHeap ==
  ASSUME NEW i \in Nat
  PROVE  MiniHeapObjects(MinObjects, i) \in Nat \ {0}
<1>1. i # 0 => 2 ^ (i - 1) \in Nat \ {0}
  BY PowerOfTwo
<1>2. \A p \in Nat \ {0} : MinObjects * p \in Nat \ {0}
  BY RandomHeapAssumption
<1> QED
  BY <1>1, <1>2, RandomHeapAssumption DEF MiniHeapObjects

\* Every step keeps the types.
LEMMA TypeStep ==
  ASSUME TypeOK, LockInv, LocalInv, GrowInv, [Next]_vars
  PROVE  TypeOK'
<1> USE RandomHeapAssumption DEF TypeOK, Goto, At, Return, shared
<1>1. ASSUME NEW t \in Threads, MallocCall(t) PROVE TypeOK'
  BY <1>1 DEF MallocCall
<1>2. ASSUME NEW t \in Threads, LoadInUse(t) PROVE TypeOK'
  BY <1>2 DEF LoadInUse
<1>3. ASSUME NEW t \in Threads, LoadAvailableFull(t) PROVE TypeOK'
  BY <1>3 DEF LoadAvailableFull
<1>4. ASSUME NEW t \in Threads, LoadAvailableRoom(t) PROVE TypeOK'
  BY <1>4 DEF LoadAvailableRoom
<1>5. ASSUME NEW t \in Threads, NEW v \in Masked, SelectHeap(t, v)
      PROVE  TypeOK'
  <2>1. SelectMiniHeap(v) \in MiniHeap
    BY SelectBound DEF Masked, MiniHeap
  <2> QED
    BY <1>5, <2>1 DEF SelectHeap
<1>6. ASSUME NEW t \in Threads, NEW j \in 0 .. MiniHeapObjects(MinObjects, sel[t]) - 1, TrySlot(t, j)
      PROVE  TypeOK'
  <2>1. <<sel[t], j>> \in Object
    BY <1>6 DEF TrySlot, LocalInv, Object, Objects
  <2> QED
    BY <1>6, <2>1 DEF TrySlot
<1>7. ASSUME NEW t \in Threads, NEW j \in 0 .. MiniHeapObjects(MinObjects, sel[t]) - 1, TrySlotFails(t, j)
      PROVE  TypeOK'
  BY <1>7 DEF TrySlotFails
<1>8. ASSUME NEW t \in Threads, CountUp(t) PROVE TypeOK'
  BY <1>8 DEF CountUp, LocalInv, MiniHeap
<1>9. ASSUME NEW t \in Threads, Lock(t) PROVE TypeOK'
  BY <1>9 DEF Lock
<1>10. ASSUME NEW t \in Threads, LockFails(t) PROVE TypeOK'
  BY <1>10 DEF LockFails
<1>11. ASSUME NEW t \in Threads, SpinEnds(t) PROVE TypeOK'
  BY <1>11 DEF SpinEnds
<1>12. ASSUME NEW t \in Threads, Activate(t) PROVE TypeOK'
  BY <1>12 DEF Activate, GrowInv, Somebody, Storing, MiniHeap
<1>13. ASSUME NEW t \in Threads, StoreAvailable(t) PROVE TypeOK'
  <2>1. available' \in Nat
    BY <1>13, ObjectsOfMiniHeap DEF StoreAvailable
  <2> QED
    BY <1>13, <2>1 DEF StoreAvailable
<1>14. ASSUME NEW t \in Threads, StoreChunks(t) PROVE TypeOK'
  <2>1. chunksInUse' \in Nat
    BY <1>14, PowerOfTwo DEF StoreChunks
  <2> QED
    BY <1>14, <2>1 DEF StoreChunks
<1>15. ASSUME NEW t \in Threads, StoreMiniHeapsInUse(t) PROVE TypeOK'
  BY <1>15 DEF StoreMiniHeapsInUse, GrowInv, Somebody, Storing
<1>16. ASSUME NEW t \in Threads, Unlock(t) PROVE TypeOK'
  BY <1>16 DEF Unlock
<1>17. ASSUME NEW t \in Threads, NEW o \in Object, FreeCall(t, o)
      PROVE  TypeOK'
  BY <1>17 DEF FreeCall
<1>18. ASSUME NEW t \in Threads, FreeCached(t) PROVE TypeOK'
  BY <1>18 DEF FreeCached
<1>19. ASSUME NEW t \in Threads, NEW i \in MiniHeap, FreeSearch(t, i)
      PROVE  TypeOK'
  BY <1>19 DEF FreeSearch
<1>20. ASSUME NEW t \in Threads, FreeNotFound(t) PROVE TypeOK'
  BY <1>20 DEF FreeNotFound, MiniHeap
<1>21. ASSUME NEW t \in Threads, CountDown(t) PROVE TypeOK'
  BY <1>21 DEF CountDown, MiniHeap
<1>22. CASE UNCHANGED vars
  BY <1>22 DEF vars, shared, locals
<1>23. QED
  BY <1>1, <1>2, <1>3, <1>4, <1>5, <1>6, <1>7, <1>8, <1>9, <1>10, <1>11,
     <1>12, <1>13, <1>14, <1>15, <1>16, <1>17, <1>18, <1>19, <1>20, <1>21,
     <1>22
    DEF Next, Malloc, Grow, Free, Probe

\* Every step keeps the lock with its holder.
LEMMA LockStep ==
  ASSUME TypeOK, LockInv, LocalInv, [Next]_vars
  PROVE  LockInv' /\ LocalInv'
<1> USE DEF TypeOK, LockInv, LocalInv, Goto, At, Return, shared, Storing
<1>1. ASSUME NEW t \in Threads, MallocCall(t) PROVE LockInv' /\ LocalInv'
  BY <1>1 DEF MallocCall
<1>2. ASSUME NEW t \in Threads, LoadInUse(t) PROVE LockInv' /\ LocalInv'
  BY <1>2 DEF LoadInUse
<1>3. ASSUME NEW t \in Threads, LoadAvailableFull(t)
      PROVE  LockInv' /\ LocalInv'
  BY <1>3 DEF LoadAvailableFull
<1>4. ASSUME NEW t \in Threads, LoadAvailableRoom(t)
      PROVE  LockInv' /\ LocalInv'
  BY <1>4 DEF LoadAvailableRoom
<1>5. ASSUME NEW t \in Threads, NEW v \in Masked, SelectHeap(t, v)
      PROVE  LockInv' /\ LocalInv'
  <2>1. SelectMiniHeap(v) \in MiniHeap
    BY SelectBound, RandomHeapAssumption DEF Masked, MiniHeap
  <2> QED
    BY <1>5, <2>1 DEF SelectHeap
<1>6. ASSUME NEW t \in Threads, NEW j \in 0 .. MiniHeapObjects(MinObjects, sel[t]) - 1, TrySlot(t, j)
      PROVE  LockInv' /\ LocalInv'
  <2>1. <<sel[t], j>> \in Object
    BY <1>6 DEF TrySlot, Object, Objects
  <2> QED
    BY <1>6, <2>1 DEF TrySlot
<1>7. ASSUME NEW t \in Threads, NEW j \in 0 .. MiniHeapObjects(MinObjects, sel[t]) - 1, TrySlotFails(t, j)
      PROVE  LockInv' /\ LocalInv'
  BY <1>7 DEF TrySlotFails
<1>8. ASSUME NEW t \in Threads, CountUp(t) PROVE LockInv' /\ LocalInv'
  BY <1>8 DEF CountUp
<1>9. ASSUME NEW t \in Threads, Lock(t) PROVE LockInv' /\ LocalInv'
  BY <1>9 DEF Lock
<1>10. ASSUME NEW t \in Threads, LockFails(t) PROVE LockInv' /\ LocalInv'
  BY <1>10 DEF LockFails
<1>11. ASSUME NEW t \in Threads, SpinEnds(t) PROVE LockInv' /\ LocalInv'
  BY <1>11 DEF SpinEnds
<1>12. ASSUME NEW t \in Threads, Activate(t) PROVE LockInv' /\ LocalInv'
  BY <1>12 DEF Activate
<1>13. ASSUME NEW t \in Threads, StoreAvailable(t) PROVE LockInv' /\ LocalInv'
  BY <1>13 DEF StoreAvailable
<1>14. ASSUME NEW t \in Threads, StoreChunks(t) PROVE LockInv' /\ LocalInv'
  BY <1>14 DEF StoreChunks
<1>15. ASSUME NEW t \in Threads, StoreMiniHeapsInUse(t)
      PROVE  LockInv' /\ LocalInv'
  BY <1>15 DEF StoreMiniHeapsInUse
<1>16. ASSUME NEW t \in Threads, Unlock(t) PROVE LockInv' /\ LocalInv'
  BY <1>16 DEF Unlock
<1>17. ASSUME NEW t \in Threads, NEW o \in Object, FreeCall(t, o)
      PROVE  LockInv' /\ LocalInv'
  BY <1>17 DEF FreeCall
<1>18. ASSUME NEW t \in Threads, FreeCached(t) PROVE LockInv' /\ LocalInv'
  BY <1>18 DEF FreeCached
<1>19. ASSUME NEW t \in Threads, NEW i \in MiniHeap, FreeSearch(t, i)
      PROVE  LockInv' /\ LocalInv'
  BY <1>19 DEF FreeSearch
<1>20. ASSUME NEW t \in Threads, FreeNotFound(t) PROVE LockInv' /\ LocalInv'
  BY <1>20 DEF FreeNotFound
<1>21. ASSUME NEW t \in Threads, CountDown(t) PROVE LockInv' /\ LocalInv'
  BY <1>21 DEF CountDown
<1>22. CASE UNCHANGED vars
  BY <1>22 DEF vars, shared, locals
<1>23. QED
  BY <1>1, <1>2, <1>3, <1>4, <1>5, <1>6, <1>7, <1>8, <1>9, <1>10, <1>11,
     <1>12, <1>13, <1>14, <1>15, <1>16, <1>17, <1>18, <1>19, <1>20, <1>21,
     <1>22
    DEF Next, Malloc, Grow, Free, Probe

\* A step of a thread that is not in the middle of the stores, and enters none.
LEMMA GrowQuiet ==
  ASSUME TypeOK, GrowInv, NEW t \in Threads,
         UNCHANGED <<available, miniHeapsInUse, chunksInUse, activated>>,
         pc' = [pc EXCEPT ![t] = pc'[t]],
         pc[t] \notin Storing, pc'[t] \notin Storing
  PROVE  GrowInv'
<1>1. \A labels \in SUBSET Storing : Somebody(labels)' <=> Somebody(labels)
  BY DEF Somebody, TypeOK
<1>2. /\ Storing \in SUBSET Storing
      /\ {"storeAvailable", "storeChunks", "storeHeaps"} \in SUBSET Storing
      /\ {"storeChunks", "storeHeaps"} \in SUBSET Storing
      /\ {"storeHeaps"} \in SUBSET Storing
  BY DEF Storing
<1> HIDE DEF Storing
<1> QED
  BY <1>1, <1>2 DEF GrowInv

\* Who stores holds the lock: the others are not in the middle of the stores.
LEMMA StoresAlone ==
  ASSUME TypeOK, LockInv, NEW t \in Threads, pc[t] \in Storing,
         pc' = [pc EXCEPT ![t] = pc'[t]]
  PROVE  \A labels \in SUBSET Storing :
           /\ Somebody(labels) <=> pc[t] \in labels
           /\ Somebody(labels)' <=> pc'[t] \in labels
<1>1. \A u \in Threads : u # t => pc[u] \notin Storing /\ pc'[u] = pc[u]
  BY DEF TypeOK, LockInv
<1> QED
  BY <1>1 DEF Somebody

\* The labels of the stores.
LEMMA StoreLabels ==
  /\ {"storeAvailable", "storeChunks", "storeHeaps"} \in SUBSET Storing
  /\ {"storeChunks", "storeHeaps"} \in SUBSET Storing
  /\ {"storeHeaps"} \in SUBSET Storing
BY DEF Storing

\* One more miniheap.
LEMMA TotalNext ==
  ASSUME NEW m \in Nat
  PROVE  /\ Total(m + 1) = Total(m) + MiniHeapObjects(MinObjects, m)
         /\ Mask(m + 1) = 2 ^ m - 1
<1>1. m + 1 # 0 /\ (m + 1) - 1 = m
  OBVIOUS
<1>2. Total(m + 1) = MinObjects * 2 ^ m /\ Mask(m + 1) = 2 ^ m - 1
  BY <1>1 DEF Total, Mask
<1>3. CASE m = 0
  <2>1. 2 ^ m = 1 /\ MinObjects * 1 = MinObjects + 0
    BY <1>3, RandomHeapAssumption
  <2> QED
    BY <1>2, <1>3, <2>1, RandomHeapAssumption DEF Total, MiniHeapObjects
<1>4. CASE m # 0
  <2>1. m - 1 \in Nat /\ (m - 1) + 1 = m
    BY <1>4
  <2>2. 2 ^ m = 2 * 2 ^ (m - 1) /\ 2 ^ (m - 1) \in Nat
    BY <2>1, PowerOfTwo
  <2>3. \A p \in Nat : MinObjects * (2 * p) = MinObjects * p + MinObjects * p
    BY RandomHeapAssumption, Z3
  <2>4. MinObjects * 2 ^ m = MinObjects * 2 ^ (m - 1) + MinObjects * 2 ^ (m - 1)
    BY <2>2, <2>3
  <2> QED
    BY <1>2, <1>4, <2>4 DEF Total, MiniHeapObjects
<1> QED
  BY <1>3, <1>4

\* Every step keeps what the holder of the lock stores in step.
LEMMA GrowStep ==
  ASSUME TypeOK, LockInv, GrowInv, [Next]_vars
  PROVE  GrowInv'
<1> USE DEF Goto, At, Return, shared
<1>1. ASSUME NEW t \in Threads, MallocCall(t) PROVE GrowInv'
  BY <1>1, GrowQuiet DEF MallocCall, TypeOK, Storing
<1>2. ASSUME NEW t \in Threads, LoadInUse(t) PROVE GrowInv'
  BY <1>2, GrowQuiet DEF LoadInUse, TypeOK, Storing
<1>3. ASSUME NEW t \in Threads, LoadAvailableFull(t) PROVE GrowInv'
  <2>1. /\ UNCHANGED <<available, miniHeapsInUse, chunksInUse, activated>>
        /\ pc' = [pc EXCEPT ![t] = pc'[t]] /\ pc[t] = "available"
        /\ pc'[t] \in {"inUse", "lock", "activate", "unlock"}
        /\ pc'[t] = "activate" => miniHeapsInUse < MaxMiniHeaps
    BY <1>3 DEF LoadAvailableFull, TypeOK
  <2>2. CASE pc'[t] # "activate"
    BY <2>1, <2>2, GrowQuiet DEF Storing
  <2>3. CASE pc'[t] = "activate"
    <3>1. Somebody(Storing)' => miniHeapsInUse < MaxMiniHeaps
      BY <2>1, <2>3
    <3>2. \A labels \in SUBSET (Storing \ {"activate"}) :
            Somebody(labels)' <=> Somebody(labels)
      BY <2>1, <2>3 DEF Somebody, TypeOK, Storing
    <3>3. /\ {"storeAvailable", "storeChunks", "storeHeaps"} \in SUBSET (Storing \ {"activate"})
          /\ {"storeChunks", "storeHeaps"} \in SUBSET (Storing \ {"activate"})
          /\ {"storeHeaps"} \in SUBSET (Storing \ {"activate"})
      BY DEF Storing
    <3> HIDE DEF Storing
    <3> QED
      BY <2>1, <3>1, <3>2, <3>3 DEF GrowInv
  <2> QED
    BY <2>2, <2>3
<1>4. ASSUME NEW t \in Threads, LoadAvailableRoom(t) PROVE GrowInv'
  BY <1>4, GrowQuiet DEF LoadAvailableRoom, TypeOK, Storing
<1>5. ASSUME NEW t \in Threads, NEW v \in Masked, SelectHeap(t, v)
      PROVE  GrowInv'
  BY <1>5, GrowQuiet DEF SelectHeap, TypeOK, Storing
<1>6. ASSUME NEW t \in Threads, NEW j \in 0 .. MiniHeapObjects(MinObjects, sel[t]) - 1, TrySlot(t, j)
      PROVE  GrowInv'
  BY <1>6, GrowQuiet DEF TrySlot, TypeOK, Storing
<1>7. ASSUME NEW t \in Threads, NEW j \in 0 .. MiniHeapObjects(MinObjects, sel[t]) - 1, TrySlotFails(t, j)
      PROVE  GrowInv'
  BY <1>7, GrowQuiet DEF TrySlotFails, TypeOK, Storing
<1>8. ASSUME NEW t \in Threads, CountUp(t) PROVE GrowInv'
  BY <1>8, GrowQuiet DEF CountUp, TypeOK, Storing
<1>9. ASSUME NEW t \in Threads, Lock(t) PROVE GrowInv'
  BY <1>9, GrowQuiet DEF Lock, TypeOK, Storing
<1>10. ASSUME NEW t \in Threads, LockFails(t) PROVE GrowInv'
  BY <1>10, GrowQuiet DEF LockFails, TypeOK, Storing
<1>11. ASSUME NEW t \in Threads, SpinEnds(t) PROVE GrowInv'
  BY <1>11, GrowQuiet DEF SpinEnds, TypeOK, Storing
<1>12. ASSUME NEW t \in Threads, Activate(t) PROVE GrowInv'
  <2>1. /\ UNCHANGED <<available, miniHeapsInUse, chunksInUse>>
        /\ activated' = activated \cup {miniHeapsInUse}
        /\ pc' = [pc EXCEPT ![t] = pc'[t]]
        /\ pc[t] = "activate" /\ pc'[t] = "storeAvailable"
    BY <1>12 DEF Activate, TypeOK
  <2>2. pc[t] \in Storing /\ pc'[t] \in Storing
    BY <2>1 DEF Storing
  <2>3. activated = 0 .. miniHeapsInUse - 1 /\ activated' = 0 .. miniHeapsInUse
    <3>1. activated = 0 .. miniHeapsInUse - 1
      BY <2>1, <2>2, StoresAlone, StoreLabels DEF GrowInv
    <3> QED
      BY <2>1, <3>1 DEF TypeOK
  <2> QED
    BY <2>1, <2>2, <2>3, StoresAlone, StoreLabels DEF GrowInv, Somebody
<1>13. ASSUME NEW t \in Threads, StoreAvailable(t) PROVE GrowInv'
  <2>1. /\ UNCHANGED <<activated, miniHeapsInUse, chunksInUse>>
        /\ available' = available + MiniHeapObjects(MinObjects, miniHeapsInUse)
        /\ pc' = [pc EXCEPT ![t] = pc'[t]]
        /\ pc[t] = "storeAvailable" /\ pc'[t] = "storeChunks"
    BY <1>13 DEF StoreAvailable, TypeOK
  <2>2. pc[t] \in Storing /\ pc'[t] \in Storing
    BY <2>1 DEF Storing
  <2>3. available' = Total(miniHeapsInUse + 1)
    <3>1. available = Total(miniHeapsInUse)
      BY <2>1, <2>2, StoresAlone, StoreLabels DEF GrowInv
    <3> QED
      BY <2>1, <3>1, TotalNext DEF TypeOK
  <2> QED
    BY <2>1, <2>2, <2>3, StoresAlone, StoreLabels DEF GrowInv, Somebody
<1>14. ASSUME NEW t \in Threads, StoreChunks(t) PROVE GrowInv'
  <2>1. /\ UNCHANGED <<activated, miniHeapsInUse, available>>
        /\ chunksInUse' = 2 ^ miniHeapsInUse - 1
        /\ pc' = [pc EXCEPT ![t] = pc'[t]]
        /\ pc[t] = "storeChunks" /\ pc'[t] = "storeHeaps"
    BY <1>14 DEF StoreChunks, TypeOK
  <2>2. pc[t] \in Storing /\ pc'[t] \in Storing
    BY <2>1 DEF Storing
  <2>3. chunksInUse' = Mask(miniHeapsInUse + 1)
    BY <2>1, TotalNext DEF TypeOK
  <2> QED
    BY <2>1, <2>2, <2>3, StoresAlone, StoreLabels DEF GrowInv, Somebody
<1>15. ASSUME NEW t \in Threads, StoreMiniHeapsInUse(t) PROVE GrowInv'
  <2>1. /\ UNCHANGED <<activated, chunksInUse, available>>
        /\ miniHeapsInUse' = miniHeapsInUse + 1 /\ miniHeapsInUse \in Nat
        /\ pc' = [pc EXCEPT ![t] = pc'[t]]
        /\ pc[t] = "storeHeaps" /\ pc'[t] = "unlock"
    BY <1>15 DEF StoreMiniHeapsInUse, TypeOK
  <2>2. pc[t] \in Storing /\ pc'[t] \notin Storing
    BY <2>1 DEF Storing
  <2>3. /\ activated = 0 .. miniHeapsInUse
        /\ available = Total(miniHeapsInUse + 1)
        /\ chunksInUse = Mask(miniHeapsInUse + 1)
    BY <2>1, <2>2, StoresAlone, StoreLabels DEF GrowInv
  <2>4. (miniHeapsInUse + 1) - 1 = miniHeapsInUse
    BY <2>1
  <2>5. Storing \in SUBSET Storing
    OBVIOUS
  <2>6. /\ ~Somebody(Storing)'
        /\ ~Somebody({"storeAvailable", "storeChunks", "storeHeaps"})'
        /\ ~Somebody({"storeChunks", "storeHeaps"})'
        /\ ~Somebody({"storeHeaps"})'
    BY <2>2, <2>1, <2>5, StoresAlone, StoreLabels
  <2> HIDE DEF Storing
  <2> QED
    BY <2>1, <2>3, <2>4, <2>6 DEF GrowInv
<1>16. ASSUME NEW t \in Threads, Unlock(t) PROVE GrowInv'
  BY <1>16, GrowQuiet DEF Unlock, TypeOK, Storing
<1>17. ASSUME NEW t \in Threads, NEW o \in Object, FreeCall(t, o)
      PROVE  GrowInv'
  BY <1>17, GrowQuiet DEF FreeCall, TypeOK, Storing
<1>18. ASSUME NEW t \in Threads, FreeCached(t) PROVE GrowInv'
  BY <1>18, GrowQuiet DEF FreeCached, TypeOK, Storing
<1>19. ASSUME NEW t \in Threads, NEW i \in MiniHeap, FreeSearch(t, i)
      PROVE  GrowInv'
  BY <1>19, GrowQuiet DEF FreeSearch, TypeOK, Storing
<1>20. ASSUME NEW t \in Threads, FreeNotFound(t) PROVE GrowInv'
  BY <1>20, GrowQuiet DEF FreeNotFound, TypeOK, Storing
<1>21. ASSUME NEW t \in Threads, CountDown(t) PROVE GrowInv'
  BY <1>21, GrowQuiet DEF CountDown, TypeOK, Storing
<1>22. CASE UNCHANGED vars
  <2>1. UNCHANGED <<pc, available, miniHeapsInUse, chunksInUse, activated>>
    BY <1>22 DEF vars, locals
  <2> QED
    BY <2>1 DEF GrowInv, Somebody
<1>23. QED
  BY <1>1, <1>2, <1>3, <1>4, <1>5, <1>6, <1>7, <1>8, <1>9, <1>10, <1>11,
     <1>12, <1>13, <1>14, <1>15, <1>16, <1>17, <1>18, <1>19, <1>20, <1>21,
     <1>22
    DEF Next, Malloc, Grow, Free, Probe

\* The threads about to count are finitely many.
LEMMA CountersFinite ==
  ASSUME IsFiniteSet(Threads)
  PROVE  /\ IsFiniteSet(Returning) /\ Cardinality(Returning) \in Nat
         /\ IsFiniteSet(Uncounting) /\ Cardinality(Uncounting) \in Nat
<1>1. Returning \in SUBSET Threads /\ Uncounting \in SUBSET Threads
  BY DEF Returning, Uncounting
<1> QED
  BY <1>1, FS_Subset, FS_CardinalityType

\* A step that neither counts nor takes nor gives back an object.
LEMMA CountQuiet ==
  ASSUME TypeOK, CountInv, NEW t \in Threads, UNCHANGED <<bits, inUse>>,
         pc' = [pc EXCEPT ![t] = pc'[t]],
         pc[t] \notin {"count", "uncount"}, pc'[t] \notin {"count", "uncount"}
  PROVE  CountInv'
<1>1. Returning' = Returning /\ Uncounting' = Uncounting
  BY DEF Returning, Uncounting, TypeOK
<1> QED
  BY <1>1 DEF CountInv

\* An object that is freed is out of the bitmap and about to be counted.
LEMMA CountFreed ==
  ASSUME IsFiniteSet(Threads), TypeOK, CountInv, NEW t \in Threads,
         NEW o \in bits,
         bits' = bits \ {o}, inUse' = inUse,
         pc' = [pc EXCEPT ![t] = "uncount"], pc[t] \notin {"count", "uncount"}
  PROVE  CountInv'
<1>1. /\ Returning' = Returning
      /\ Uncounting' = Uncounting \cup {t} /\ t \notin Uncounting
  BY DEF Returning, Uncounting, TypeOK
<1>2. IsFiniteSet(bits) /\ Cardinality(bits) \in Nat
  BY FS_CardinalityType DEF CountInv
<1>3. IsFiniteSet(bits') /\ Cardinality(bits') = Cardinality(bits) - 1
  BY <1>2, FS_RemoveElement
<1>4. Cardinality(Uncounting') = Cardinality(Uncounting) + 1
  BY <1>1, CountersFinite, FS_AddElement
<1>5. inUse' = Cardinality(bits') - Cardinality(Returning') + Cardinality(Uncounting')
  <2> DEFINE b == Cardinality(bits)
             r == Cardinality(Returning)
             u == Cardinality(Uncounting)
  <2>1. inUse = b - r + u /\ b \in Nat /\ r \in Nat /\ u \in Nat
    BY <1>2, CountersFinite DEF CountInv
  <2> HIDE DEF b, r, u
  <2>2. inUse = (b - 1) - r + (u + 1)
    BY <2>1
  <2> QED
    BY <2>2, <1>1, <1>3, <1>4 DEF b, r, u
<1> QED
  BY <1>3, <1>5 DEF CountInv

\* Every step keeps the count of the objects in use.
LEMMA CountStep ==
  ASSUME IsFiniteSet(Threads), TypeOK, LocalInv, CountInv, [Next]_vars
  PROVE  CountInv'
<1> USE DEF Goto, At, Return, shared
<1>1. ASSUME NEW t \in Threads, MallocCall(t) PROVE CountInv'
  BY <1>1, CountQuiet DEF MallocCall, TypeOK
<1>2. ASSUME NEW t \in Threads, LoadInUse(t) PROVE CountInv'
  BY <1>2, CountQuiet DEF LoadInUse, TypeOK
<1>3. ASSUME NEW t \in Threads, LoadAvailableFull(t) PROVE CountInv'
  BY <1>3, CountQuiet DEF LoadAvailableFull, TypeOK
<1>4. ASSUME NEW t \in Threads, LoadAvailableRoom(t) PROVE CountInv'
  BY <1>4, CountQuiet DEF LoadAvailableRoom, TypeOK
<1>5. ASSUME NEW t \in Threads, NEW v \in Masked, SelectHeap(t, v)
      PROVE  CountInv'
  BY <1>5, CountQuiet DEF SelectHeap, TypeOK
<1>6. ASSUME NEW t \in Threads, NEW j \in 0 .. MiniHeapObjects(MinObjects, sel[t]) - 1, TrySlot(t, j)
      PROVE  CountInv'
  <2> DEFINE o == <<sel[t], j>>
  <2>1. /\ bits' = bits \cup {o} /\ o \notin bits /\ inUse' = inUse
        /\ Returning' = Returning \cup {t} /\ t \notin Returning
        /\ Uncounting' = Uncounting
    BY <1>6 DEF TrySlot, TypeOK, Returning, Uncounting
  <2>2. IsFiniteSet(bits) /\ Cardinality(bits) \in Nat
    BY FS_CardinalityType DEF CountInv
  <2> HIDE DEF o
  <2>3. IsFiniteSet(bits') /\ Cardinality(bits') = Cardinality(bits) + 1
    BY <2>1, <2>2, FS_AddElement
  <2>4. Cardinality(Returning') = Cardinality(Returning) + 1
    BY <2>1, CountersFinite, FS_AddElement
  <2> DEFINE b == Cardinality(bits)
             r == Cardinality(Returning)
             u == Cardinality(Uncounting)
  <2>5. inUse = b - r + u /\ b \in Nat /\ r \in Nat /\ u \in Nat
    BY <2>2, CountersFinite DEF CountInv
  <2> HIDE DEF b, r, u
  <2>6. inUse = (b + 1) - (r + 1) + u
    BY <2>5
  <2> QED
    BY <2>6, <2>1, <2>3, <2>4 DEF CountInv, b, r, u
<1>7. ASSUME NEW t \in Threads, NEW j \in 0 .. MiniHeapObjects(MinObjects, sel[t]) - 1, TrySlotFails(t, j)
      PROVE  CountInv'
  BY <1>7, CountQuiet DEF TrySlotFails, TypeOK
<1>8. ASSUME NEW t \in Threads, CountUp(t) PROVE CountInv'
  <2>1. /\ bits' = bits /\ inUse' = inUse + 1
        /\ Returning' = Returning \ {t} /\ t \in Returning
        /\ Uncounting' = Uncounting
    BY <1>8 DEF CountUp, TypeOK, Returning, Uncounting
  <2>2. IsFiniteSet(bits) /\ Cardinality(bits) \in Nat
    BY FS_CardinalityType DEF CountInv
  <2>3. Cardinality(Returning') = Cardinality(Returning) - 1
    BY <2>1, CountersFinite, FS_RemoveElement
  <2> DEFINE b == Cardinality(bits)
             r == Cardinality(Returning)
             u == Cardinality(Uncounting)
  <2>4. inUse = b - r + u /\ b \in Nat /\ r \in Nat /\ u \in Nat
    BY <2>2, CountersFinite DEF CountInv
  <2> HIDE DEF b, r, u
  <2>5. inUse + 1 = b - (r - 1) + u
    BY <2>4
  <2> QED
    BY <2>5, <2>1, <2>2, <2>3 DEF CountInv, b, r, u
<1>9. ASSUME NEW t \in Threads, Lock(t) PROVE CountInv'
  BY <1>9, CountQuiet DEF Lock, TypeOK
<1>10. ASSUME NEW t \in Threads, LockFails(t) PROVE CountInv'
  BY <1>10, CountQuiet DEF LockFails, TypeOK
<1>11. ASSUME NEW t \in Threads, SpinEnds(t) PROVE CountInv'
  BY <1>11, CountQuiet DEF SpinEnds, TypeOK
<1>12. ASSUME NEW t \in Threads, Activate(t) PROVE CountInv'
  BY <1>12, CountQuiet DEF Activate, TypeOK
<1>13. ASSUME NEW t \in Threads, StoreAvailable(t) PROVE CountInv'
  BY <1>13, CountQuiet DEF StoreAvailable, TypeOK
<1>14. ASSUME NEW t \in Threads, StoreChunks(t) PROVE CountInv'
  BY <1>14, CountQuiet DEF StoreChunks, TypeOK
<1>15. ASSUME NEW t \in Threads, StoreMiniHeapsInUse(t) PROVE CountInv'
  BY <1>15, CountQuiet DEF StoreMiniHeapsInUse, TypeOK
<1>16. ASSUME NEW t \in Threads, Unlock(t) PROVE CountInv'
  BY <1>16, CountQuiet DEF Unlock, TypeOK
<1>17. ASSUME NEW t \in Threads, NEW o \in Object, FreeCall(t, o)
      PROVE  CountInv'
  BY <1>17, CountQuiet DEF FreeCall, TypeOK
<1>18. ASSUME NEW t \in Threads, FreeCached(t) PROVE CountInv'
  <2>1. CASE Frees(arg[t], sel[t]) /\ 0 <= sel[t] /\ sel[t] < seen[t]
    <3>1. /\ arg[t] \in bits /\ bits' = bits \ {arg[t]} /\ inUse' = inUse
          /\ pc' = [pc EXCEPT ![t] = "uncount"] /\ pc[t] = "freeCached"
      BY <1>18, <2>1 DEF FreeCached, Frees
    <3> QED
      BY <3>1, CountFreed
  <2>2. CASE ~(Frees(arg[t], sel[t]) /\ 0 <= sel[t] /\ sel[t] < seen[t])
    BY <1>18, <2>2, CountQuiet DEF FreeCached, TypeOK
  <2> QED
    BY <2>1, <2>2
<1>19. ASSUME NEW t \in Threads, NEW i \in MiniHeap, FreeSearch(t, i)
      PROVE  CountInv'
  <2>1. /\ arg[t] \in bits /\ bits' = bits \ {arg[t]} /\ inUse' = inUse
        /\ pc' = [pc EXCEPT ![t] = "uncount"] /\ pc[t] = "freeSearch"
    BY <1>19 DEF FreeSearch, Frees
  <2> QED
    BY <2>1, CountFreed
<1>20. ASSUME NEW t \in Threads, FreeNotFound(t) PROVE CountInv'
  BY <1>20, CountQuiet DEF FreeNotFound, TypeOK
<1>21. ASSUME NEW t \in Threads, CountDown(t) PROVE CountInv'
  <2>1. /\ bits' = bits /\ inUse' = inUse - 1
        /\ Uncounting' = Uncounting \ {t} /\ t \in Uncounting
        /\ Returning' = Returning
    BY <1>21 DEF CountDown, TypeOK, Returning, Uncounting
  <2>2. IsFiniteSet(bits) /\ Cardinality(bits) \in Nat
    BY FS_CardinalityType DEF CountInv
  <2>3. Cardinality(Uncounting') = Cardinality(Uncounting) - 1
    BY <2>1, CountersFinite, FS_RemoveElement
  <2> DEFINE b == Cardinality(bits)
             r == Cardinality(Returning)
             u == Cardinality(Uncounting)
  <2>4. inUse = b - r + u /\ b \in Nat /\ r \in Nat /\ u \in Nat
    BY <2>2, CountersFinite DEF CountInv
  <2> HIDE DEF b, r, u
  <2>5. inUse - 1 = b - r + (u - 1)
    BY <2>4
  <2> QED
    BY <2>5, <2>1, <2>2, <2>3 DEF CountInv, b, r, u
<1>22. CASE UNCHANGED vars
  <2>1. UNCHANGED <<pc, bits, inUse>>
    BY <1>22 DEF vars, locals
  <2> QED
    BY <2>1 DEF CountInv, Returning, Uncounting
<1>23. QED
  BY <1>1, <1>2, <1>3, <1>4, <1>5, <1>6, <1>7, <1>8, <1>9, <1>10, <1>11,
     <1>12, <1>13, <1>14, <1>15, <1>16, <1>17, <1>18, <1>19, <1>20, <1>21,
     <1>22
    DEF Next, Malloc, Grow, Free, Probe

\* A step by which no thread joins those that passed the test.
LEMMA LoadQuiet ==
  ASSUME IsFiniteSet(Threads), TypeOK, TypeOK', LoadInv,
         inUse' <= inUse, available <= available',
         \A k \in Int : Numerator * k >= Denominator * available =>
           Passed(k)' \subseteq Passed(k)
  PROVE  LoadInv'
<1> SUFFICES ASSUME NEW k \in Int, Numerator * k >= Denominator * available'
             PROVE  inUse' + Cardinality(Passed(k)') < k + Cardinality(Threads)
  BY DEF LoadInv
<1>1. available \in Nat /\ available' \in Nat /\ inUse \in Int /\ inUse' \in Int
  BY DEF TypeOK
<1>2. Denominator * available <= Denominator * available'
  <2>1. \A d, x, y \in Nat : x <= y => d * x <= d * y
    BY Z3
  <2> QED
    BY <1>1, <2>1, RandomHeapAssumption
<1>3. Denominator * available \in Int /\ Denominator * available' \in Int
        /\ Numerator * k \in Int
  BY <1>1, RandomHeapAssumption
<1>4. Numerator * k >= Denominator * available
  BY <1>2, <1>3
<1>5. inUse + Cardinality(Passed(k)) < k + Cardinality(Threads)
  BY <1>4 DEF LoadInv
<1>6. Passed(k)' \in SUBSET Passed(k)
  BY <1>4
<1>7. Passed(k) \in SUBSET Threads
  BY DEF Passed
<1>8. IsFiniteSet(Passed(k)) /\ Cardinality(Passed(k)) \in Nat
  BY <1>7, FS_Subset, FS_CardinalityType
<1>9. Cardinality(Passed(k)') <= Cardinality(Passed(k)) /\ Cardinality(Passed(k)') \in Nat
  BY <1>6, <1>8, FS_Subset, FS_CardinalityType
<1>10. Cardinality(Threads) \in Nat
  BY FS_CardinalityType
<1> QED
  BY <1>1, <1>5, <1>8, <1>9, <1>10

\* Every step keeps the bound on the objects in use.
LEMMA LoadStep ==
  ASSUME IsFiniteSet(Threads), TypeOK, TypeOK', LoadInv, [Next]_vars
  PROVE  LoadInv'
<1> USE RandomHeapAssumption DEF Goto, At, Return, shared
<1>1. ASSUME NEW t \in Threads, MallocCall(t) PROVE LoadInv'
  BY <1>1, LoadQuiet DEF MallocCall, TypeOK, Passed
<1>2. ASSUME NEW t \in Threads, LoadInUse(t) PROVE LoadInv'
  <2>1. /\ UNCHANGED <<inUse, available>> /\ inUse \in Int /\ available \in Nat
        /\ pc[t] = "inUse" /\ seen'[t] = inUse /\ pc'[t] = "available"
        /\ \A u \in Threads \ {t} : pc'[u] = pc[u] /\ seen'[u] = seen[u]
    BY <1>2 DEF LoadInUse, TypeOK
  <2> SUFFICES ASSUME NEW k \in Int, Numerator * k >= Denominator * available
               PROVE  inUse + Cardinality(Passed(k)') < k + Cardinality(Threads)
    BY <2>1 DEF LoadInv
  <2>2. Cardinality(Threads) \in Nat
    BY FS_CardinalityType
  <2>3. Passed(k)' \in SUBSET Threads /\ Passed(k) \in SUBSET Threads
    BY DEF Passed
  <2>4. /\ IsFiniteSet(Passed(k)) /\ Cardinality(Passed(k)) \in Nat
        /\ Cardinality(Passed(k)') \in Nat
        /\ Cardinality(Passed(k)') <= Cardinality(Threads)
    BY <2>3, FS_Subset, FS_CardinalityType
  <2>5. CASE inUse < k
    BY <2>1, <2>2, <2>4, <2>5
  <2>6. CASE ~(inUse < k)
    <3>1. Passed(k)' \in SUBSET Passed(k)
      BY <2>1, <2>6 DEF Passed
    <3>2. Cardinality(Passed(k)') <= Cardinality(Passed(k))
      BY <2>4, <3>1, FS_Subset
    <3>3. inUse + Cardinality(Passed(k)) < k + Cardinality(Threads)
      BY DEF LoadInv
    <3> QED
      BY <2>1, <2>2, <2>4, <3>2, <3>3
  <2> QED
    BY <2>5, <2>6
<1>3. ASSUME NEW t \in Threads, LoadAvailableFull(t) PROVE LoadInv'
  BY <1>3, LoadQuiet DEF LoadAvailableFull, TypeOK, Passed
<1>4. ASSUME NEW t \in Threads, LoadAvailableRoom(t) PROVE LoadInv'
  <2>1. /\ UNCHANGED <<inUse, available, seen>> /\ inUse \in Int /\ available \in Nat
        /\ pc[t] = "available" /\ ~(Numerator * seen[t] >= available * Denominator)
        /\ seen[t] \in Int
        /\ \A u \in Threads \ {t} : pc'[u] = pc[u]
    BY <1>4 DEF LoadAvailableRoom, TypeOK, Full
  <2>2. ASSUME NEW k \in Int, Numerator * k >= Denominator * available
        PROVE  seen[t] < k
    <3> SUFFICES ASSUME seen[t] >= k PROVE FALSE
      BY <2>1
    <3>1. Numerator * seen[t] >= Numerator * k
      BY <2>1, Z3
    <3>2. available * Denominator = Denominator * available
      BY <2>1, Z3
    <3>3. /\ Numerator * seen[t] \in Int /\ Numerator * k \in Int
          /\ Denominator * available \in Int
      BY <2>1
    <3> QED
      BY <2>1, <2>2, <3>1, <3>2, <3>3
  <2>3. ASSUME NEW k \in Int, Numerator * k >= Denominator * available
        PROVE  Passed(k)' \subseteq Passed(k)
    BY <2>1, <2>2, <2>3 DEF Passed
  <2> QED
    BY <2>1, <2>3, LoadQuiet
<1>5. ASSUME NEW t \in Threads, NEW v \in Masked, SelectHeap(t, v)
      PROVE  LoadInv'
  BY <1>5, LoadQuiet DEF SelectHeap, TypeOK, Passed
<1>6. ASSUME NEW t \in Threads, NEW j \in 0 .. MiniHeapObjects(MinObjects, sel[t]) - 1, TrySlot(t, j)
      PROVE  LoadInv'
  BY <1>6, LoadQuiet DEF TrySlot, TypeOK, Passed
<1>7. ASSUME NEW t \in Threads, NEW j \in 0 .. MiniHeapObjects(MinObjects, sel[t]) - 1, TrySlotFails(t, j)
      PROVE  LoadInv'
  BY <1>7, LoadQuiet DEF TrySlotFails, TypeOK, Passed
<1>8. ASSUME NEW t \in Threads, CountUp(t) PROVE LoadInv'
  <2>1. /\ inUse' = inUse + 1 /\ UNCHANGED available /\ inUse \in Int
        /\ pc[t] = "count" /\ pc'[t] = "idle"
        /\ \A u \in Threads \ {t} : pc'[u] = pc[u] /\ seen'[u] = seen[u]
    BY <1>8 DEF CountUp, TypeOK
  <2> SUFFICES ASSUME NEW k \in Int, Numerator * k >= Denominator * available
               PROVE  inUse + 1 + Cardinality(Passed(k)') < k + Cardinality(Threads)
    BY <2>1 DEF LoadInv
  <2>2. Passed(k)' = Passed(k) \ {t} /\ t \in Passed(k)
    BY <2>1 DEF Passed
  <2>3. Passed(k) \in SUBSET Threads
    BY DEF Passed
  <2>4. IsFiniteSet(Passed(k)) /\ Cardinality(Passed(k)) \in Nat
    BY <2>3, FS_Subset, FS_CardinalityType
  <2>5. Cardinality(Passed(k)') = Cardinality(Passed(k)) - 1
    BY <2>2, <2>4, FS_RemoveElement
  <2>6. inUse + Cardinality(Passed(k)) < k + Cardinality(Threads)
    BY DEF LoadInv
  <2>7. Cardinality(Threads) \in Nat
    BY FS_CardinalityType
  <2> QED
    BY <2>1, <2>4, <2>5, <2>6, <2>7
<1>9. ASSUME NEW t \in Threads, Lock(t) PROVE LoadInv'
  BY <1>9, LoadQuiet DEF Lock, TypeOK, Passed
<1>10. ASSUME NEW t \in Threads, LockFails(t) PROVE LoadInv'
  BY <1>10, LoadQuiet DEF LockFails, TypeOK, Passed
<1>11. ASSUME NEW t \in Threads, SpinEnds(t) PROVE LoadInv'
  BY <1>11, LoadQuiet DEF SpinEnds, TypeOK, Passed
<1>12. ASSUME NEW t \in Threads, Activate(t) PROVE LoadInv'
  BY <1>12, LoadQuiet DEF Activate, TypeOK, Passed
<1>13. ASSUME NEW t \in Threads, StoreAvailable(t) PROVE LoadInv'
  <2>1. available' = available + MiniHeapObjects(MinObjects, miniHeapsInUse)
    BY <1>13 DEF StoreAvailable
  <2>2. available <= available'
    BY <2>1, ObjectsOfMiniHeap DEF TypeOK
  <2> QED
    BY <1>13, <2>2, LoadQuiet DEF StoreAvailable, TypeOK, Passed
<1>14. ASSUME NEW t \in Threads, StoreChunks(t) PROVE LoadInv'
  BY <1>14, LoadQuiet DEF StoreChunks, TypeOK, Passed
<1>15. ASSUME NEW t \in Threads, StoreMiniHeapsInUse(t) PROVE LoadInv'
  BY <1>15, LoadQuiet DEF StoreMiniHeapsInUse, TypeOK, Passed
<1>16. ASSUME NEW t \in Threads, Unlock(t) PROVE LoadInv'
  BY <1>16, LoadQuiet DEF Unlock, TypeOK, Passed
<1>17. ASSUME NEW t \in Threads, NEW o \in Object, FreeCall(t, o)
      PROVE  LoadInv'
  BY <1>17, LoadQuiet DEF FreeCall, TypeOK, Passed
<1>18. ASSUME NEW t \in Threads, FreeCached(t) PROVE LoadInv'
  BY <1>18, LoadQuiet DEF FreeCached, TypeOK, Passed
<1>19. ASSUME NEW t \in Threads, NEW i \in MiniHeap, FreeSearch(t, i)
      PROVE  LoadInv'
  BY <1>19, LoadQuiet DEF FreeSearch, TypeOK, Passed
<1>20. ASSUME NEW t \in Threads, FreeNotFound(t) PROVE LoadInv'
  BY <1>20, LoadQuiet DEF FreeNotFound, TypeOK, Passed
<1>21. ASSUME NEW t \in Threads, CountDown(t) PROVE LoadInv'
  BY <1>21, LoadQuiet DEF CountDown, TypeOK, Passed
<1>22. CASE UNCHANGED vars
  <2>1. UNCHANGED <<pc, seen, inUse, available>>
    BY <1>22 DEF vars, locals
  <2> QED
    BY <2>1, LoadQuiet DEF Passed, TypeOK
<1>23. QED
  BY <1>1, <1>2, <1>3, <1>4, <1>5, <1>6, <1>7, <1>8, <1>9, <1>10, <1>11,
     <1>12, <1>13, <1>14, <1>15, <1>16, <1>17, <1>18, <1>19, <1>20, <1>21,
     <1>22
    DEF Next, Malloc, Grow, Free, Probe

\* Two uses of the class: by a program that frees only what it holds, or by one
\* mutator, its owner.
OneMutator == \A t, u \in Threads : t = u
Regular == DoubleFrees = FALSE \/ OneMutator

\* A step that changes nothing that anybody holds.
LEMMA HoldQuiet ==
  ASSUME TypeOK, HoldInv, UNCHANGED <<live, bits, arg>>, NEW t \in Threads,
         pc' = [pc EXCEPT ![t] = pc'[t]],
         pc[t] \notin {"count", "freeCached", "freeSearch"},
         pc'[t] \notin {"count", "freeCached", "freeSearch"}
  PROVE  HoldInv'
<1>1. Returning' = Returning /\ Freeing' = Freeing
  BY DEF Returning, Freeing, TypeOK
<1> QED
  BY <1>1 DEF HoldInv

\* Every step keeps the threads' objects apart.
LEMMA HoldStep ==
  ASSUME Regular, TypeOK, LocalInv, HoldInv, [Next]_vars
  PROVE  HoldInv'
<1> USE DEF Goto, At, Return, shared
<1>1. ASSUME NEW t \in Threads, MallocCall(t) PROVE HoldInv'
  BY <1>1, HoldQuiet DEF MallocCall, TypeOK
<1>2. ASSUME NEW t \in Threads, LoadInUse(t) PROVE HoldInv'
  BY <1>2, HoldQuiet DEF LoadInUse, TypeOK
<1>3. ASSUME NEW t \in Threads, LoadAvailableFull(t) PROVE HoldInv'
  BY <1>3, HoldQuiet DEF LoadAvailableFull, TypeOK
<1>4. ASSUME NEW t \in Threads, LoadAvailableRoom(t) PROVE HoldInv'
  BY <1>4, HoldQuiet DEF LoadAvailableRoom, TypeOK
<1>5. ASSUME NEW t \in Threads, NEW v \in Masked, SelectHeap(t, v)
      PROVE  HoldInv'
  BY <1>5, HoldQuiet DEF SelectHeap, TypeOK
<1>6. ASSUME NEW t \in Threads, NEW j \in 0 .. MiniHeapObjects(MinObjects, sel[t]) - 1, TrySlot(t, j)
      PROVE  HoldInv'
  <2> DEFINE o == <<sel[t], j>>
  <2>1. /\ live' = live /\ bits' = bits \cup {o} /\ o \notin bits
        /\ arg'[t] = o /\ \A u \in Threads \ {t} : arg'[u] = arg[u]
        /\ pc[t] = "try" /\ Returning' = Returning \cup {t} /\ Freeing' = Freeing
        /\ t \notin Returning /\ t \notin Freeing
        /\ Returning \subseteq Threads /\ Freeing \subseteq Threads
    BY <1>6 DEF TrySlot, TypeOK, Returning, Freeing
  <2> HIDE DEF o
  <2>2. \A u \in Returning \cup Freeing : arg[u] # o
    BY <2>1 DEF HoldInv, Regular, OneMutator
  <2> QED
    BY <2>1, <2>2 DEF HoldInv
<1>7. ASSUME NEW t \in Threads, NEW j \in 0 .. MiniHeapObjects(MinObjects, sel[t]) - 1, TrySlotFails(t, j)
      PROVE  HoldInv'
  BY <1>7, HoldQuiet DEF TrySlotFails, TypeOK
<1>8. ASSUME NEW t \in Threads, CountUp(t) PROVE HoldInv'
  <2>1. /\ live' = live \cup {arg[t]} /\ bits' = bits
        /\ \A u \in Threads \ {t} : arg'[u] = arg[u]
        /\ t \in Returning /\ Returning' = Returning \ {t} /\ Freeing' = Freeing
        /\ t \notin Freeing /\ Returning \subseteq Threads /\ Freeing \subseteq Threads
    BY <1>8 DEF CountUp, TypeOK, Returning, Freeing
  <2> QED
    BY <2>1 DEF HoldInv
<1>9. ASSUME NEW t \in Threads, Lock(t) PROVE HoldInv'
  BY <1>9, HoldQuiet DEF Lock, TypeOK
<1>10. ASSUME NEW t \in Threads, LockFails(t) PROVE HoldInv'
  BY <1>10, HoldQuiet DEF LockFails, TypeOK
<1>11. ASSUME NEW t \in Threads, SpinEnds(t) PROVE HoldInv'
  BY <1>11, HoldQuiet DEF SpinEnds, TypeOK
<1>12. ASSUME NEW t \in Threads, Activate(t) PROVE HoldInv'
  BY <1>12, HoldQuiet DEF Activate, TypeOK
<1>13. ASSUME NEW t \in Threads, StoreAvailable(t) PROVE HoldInv'
  BY <1>13, HoldQuiet DEF StoreAvailable, TypeOK
<1>14. ASSUME NEW t \in Threads, StoreChunks(t) PROVE HoldInv'
  BY <1>14, HoldQuiet DEF StoreChunks, TypeOK
<1>15. ASSUME NEW t \in Threads, StoreMiniHeapsInUse(t) PROVE HoldInv'
  BY <1>15, HoldQuiet DEF StoreMiniHeapsInUse, TypeOK
<1>16. ASSUME NEW t \in Threads, Unlock(t) PROVE HoldInv'
  BY <1>16, HoldQuiet DEF Unlock, TypeOK
<1>17. ASSUME NEW t \in Threads, NEW o \in Object, FreeCall(t, o)
      PROVE  HoldInv'
  <2>1. /\ live' = live \ {o} /\ bits' = bits
        /\ arg'[t] = o /\ \A u \in Threads \ {t} : arg'[u] = arg[u]
        /\ t \notin Returning /\ Returning' = Returning
        /\ t \notin Freeing /\ Freeing' = Freeing \cup {t}
        /\ Returning \subseteq Threads /\ Freeing \subseteq Threads
        /\ o \in live \/ DoubleFrees
    BY <1>17 DEF FreeCall, TypeOK, Returning, Freeing
  <2>2. \A u \in Returning \cup Freeing : arg[u] # o
    BY <2>1 DEF HoldInv, Regular, OneMutator
  <2> QED
    BY <2>1, <2>2 DEF HoldInv
<1>18. ASSUME NEW t \in Threads, FreeCached(t) PROVE HoldInv'
  <2>1. /\ live' = live /\ arg' = arg /\ bits' \in {bits, bits \ {arg[t]}}
        /\ t \in Freeing /\ Returning' = Returning
        /\ Returning \subseteq Threads /\ Freeing \subseteq Threads
        /\ Freeing' = IF pc'[t] = "uncount" THEN Freeing \ {t} ELSE Freeing
        /\ bits' # bits => pc'[t] = "uncount"
        /\ t \notin Returning
    BY <1>18 DEF FreeCached, TypeOK, Returning, Freeing
  <2> QED
    BY <2>1 DEF HoldInv
<1>19. ASSUME NEW t \in Threads, NEW i \in MiniHeap, FreeSearch(t, i)
      PROVE  HoldInv'
  <2>1. /\ live' = live /\ arg' = arg /\ bits' = bits \ {arg[t]}
        /\ t \in Freeing /\ Returning' = Returning /\ t \notin Returning
        /\ Returning \subseteq Threads /\ Freeing \subseteq Threads
        /\ Freeing' = Freeing \ {t}
    BY <1>19 DEF FreeSearch, TypeOK, Returning, Freeing
  <2> QED
    BY <2>1 DEF HoldInv
<1>20. ASSUME NEW t \in Threads, FreeNotFound(t) PROVE HoldInv'
  <2>1. /\ UNCHANGED <<live, bits>> /\ \A u \in Threads \ {t} : arg'[u] = arg[u]
        /\ t \in Freeing /\ Returning' = Returning /\ t \notin Returning
        /\ Returning \subseteq Threads /\ Freeing \subseteq Threads
        /\ Freeing' = Freeing \ {t}
    BY <1>20 DEF FreeNotFound, TypeOK, Returning, Freeing
  <2> QED
    BY <2>1 DEF HoldInv
<1>21. ASSUME NEW t \in Threads, CountDown(t) PROVE HoldInv'
  <2>1. /\ UNCHANGED <<live, bits>> /\ \A u \in Threads \ {t} : arg'[u] = arg[u]
        /\ t \notin Freeing /\ Returning' = Returning /\ t \notin Returning
        /\ Returning \subseteq Threads /\ Freeing \subseteq Threads
        /\ Freeing' = Freeing
    BY <1>21 DEF CountDown, TypeOK, Returning, Freeing
  <2> QED
    BY <2>1 DEF HoldInv
<1>22. CASE UNCHANGED vars
  <2>1. UNCHANGED <<pc, live, bits, arg>>
    BY <1>22 DEF vars, locals
  <2> QED
    BY <2>1 DEF HoldInv, Returning, Freeing
<1>23. QED
  BY <1>1, <1>2, <1>3, <1>4, <1>5, <1>6, <1>7, <1>8, <1>9, <1>10, <1>11,
     <1>12, <1>13, <1>14, <1>15, <1>16, <1>17, <1>18, <1>19, <1>20, <1>21,
     <1>22
    DEF Next, Malloc, Grow, Free, Probe

\* As many bits are set as there are objects about to be counted.
LEMMA InUseNatural ==
  ASSUME IsFiniteSet(Threads), CountInv, HoldInv
  PROVE  inUse >= 0 /\ inUse \in Int
<1> DEFINE f == [t \in Returning |-> arg[t]]
<1>1. f \in Injection(Returning, bits)
  <2>1. f \in [Returning -> bits] /\ \A t \in Returning : f[t] = arg[t]
    BY DEF HoldInv
  <2>2. \A t, u \in Returning : f[t] = f[u] => t = u
    BY <2>1 DEF HoldInv
  <2> HIDE DEF f
  <2> QED
    BY <2>1, <2>2 DEF Injection, IsInjective
<1>2. Cardinality(Returning) <= Cardinality(bits)
  BY <1>1, FS_Injection DEF CountInv
<1>3. Cardinality(bits) \in Nat
  BY FS_CardinalityType DEF CountInv
<1> QED
  BY <1>2, <1>3, CountersFinite DEF CountInv

\* With k bits of mask at hand the miniheaps 0 .. k are there.
LEMMA SelectActivated ==
  ASSUME TypeOK, LockInv, GrowInv, available > 0, NEW v \in Nat,
         v <= chunksInUse
  PROVE  SelectMiniHeap(v) \in activated
<1> DEFINE m == miniHeapsInUse
<1> USE RandomHeapAssumption
<1>1. m \in Nat /\ 0 .. m - 1 \subseteq activated /\ activated \in {0 .. m, 0 .. m - 1}
  BY DEF GrowInv, TypeOK
<1>2. CASE chunksInUse = Mask(m) /\ m # 0
  <2>1. m - 1 \in Nat /\ v \in 0 .. 2 ^ (m - 1) - 1
    BY <1>1, <1>2, PowerOfTwo DEF Mask
  <2>2. SelectMiniHeap(v) \in 0 .. m - 1
    BY <2>1, SelectBound
  <2> QED
    BY <1>1, <2>2
<1>3. CASE chunksInUse = Mask(m) /\ m = 0
  <2>1. SelectMiniHeap(v) = 0
    BY <1>3 DEF Mask, SelectMiniHeap, log2
  <2>2. Somebody({"storeChunks", "storeHeaps"})
    BY <1>3 DEF GrowInv, Total
  <2>3. Somebody({"storeAvailable", "storeChunks", "storeHeaps"})
    BY <2>2 DEF Somebody
  <2>4. activated = 0 .. m
    BY <2>3 DEF GrowInv
  <2> QED
    BY <1>1, <2>1, <2>4
<1>4. CASE chunksInUse # Mask(m)
  <2>1. Somebody({"storeHeaps"}) /\ chunksInUse = Mask(m + 1)
    BY <1>4 DEF GrowInv
  <2>2. Somebody({"storeAvailable", "storeChunks", "storeHeaps"})
    BY <2>1 DEF Somebody
  <2>3. activated = 0 .. m
    BY <2>2 DEF GrowInv
  <2>4. v \in 0 .. 2 ^ m - 1
    BY <1>1, <2>1, TotalNext, PowerOfTwo
  <2>5. SelectMiniHeap(v) \in 0 .. m
    BY <1>1, <2>4, SelectBound
  <2> QED
    BY <2>3, <2>5
<1> QED
  BY <1>2, <1>3, <1>4

\* Every step keeps the threads to miniheaps that are there.
LEMMA SelectStep ==
  ASSUME IsFiniteSet(Threads), TypeOK, TypeOK', LockInv, GrowInv, CountInv,
         HoldInv,
         SelectInv, [Next]_vars
  PROVE  SelectInv'
<1> USE DEF Goto, At, Return, shared
<1>1. ASSUME NEW t \in Threads, MallocCall(t) PROVE SelectInv'
  BY <1>1 DEF MallocCall, TypeOK, SelectInv
<1>2. ASSUME NEW t \in Threads, LoadInUse(t) PROVE SelectInv'
  BY <1>2, InUseNatural DEF LoadInUse, TypeOK, SelectInv
<1>3. ASSUME NEW t \in Threads, LoadAvailableFull(t) PROVE SelectInv'
  BY <1>3 DEF LoadAvailableFull, TypeOK, SelectInv
<1>4. ASSUME NEW t \in Threads, LoadAvailableRoom(t) PROVE SelectInv'
  <2>1. /\ UNCHANGED <<available, activated, seen, sel>> /\ available \in Nat
        /\ pc[t] = "available" /\ ~(Numerator * seen[t] >= available * Denominator)
        /\ seen[t] >= 0 /\ seen[t] \in Int /\ pc'[t] \in {"get", "inUse", "unlock"}
        /\ \A u \in Threads \ {t} : pc'[u] = pc[u]
    BY <1>4 DEF LoadAvailableRoom, TypeOK, Full, SelectInv
  <2>2. available > 0
    <3> SUFFICES ASSUME available = 0 PROVE FALSE
      BY <2>1
    <3>1. available * Denominator = 0
      BY RandomHeapAssumption
    <3>2. Numerator * seen[t] >= 0
      <4>1. \A x, y \in Nat : x * y >= 0
        BY Z3
      <4> QED
        BY <4>1, <2>1, RandomHeapAssumption
    <3> QED
      BY <2>1, <3>1, <3>2
  <2> QED
    BY <2>1, <2>2 DEF SelectInv
<1>5. ASSUME NEW t \in Threads, NEW v \in Masked, SelectHeap(t, v)
      PROVE  SelectInv'
  <2>1. available > 0
    BY <1>5 DEF SelectHeap, SelectInv
  <2>2. 2 ^ (MaxMiniHeaps - 1) \in Nat
    BY PowerOfTwo, RandomHeapAssumption
  <2>3. v \in Nat /\ v <= chunksInUse
    BY <1>5, <2>2 DEF SelectHeap, Masked
  <2>4. SelectMiniHeap(v) \in activated
    BY <2>1, <2>3, SelectActivated
  <2> QED
    BY <1>5, <2>4 DEF SelectHeap, TypeOK, SelectInv
<1>6. ASSUME NEW t \in Threads, NEW j \in 0 .. MiniHeapObjects(MinObjects, sel[t]) - 1, TrySlot(t, j)
      PROVE  SelectInv'
  BY <1>6 DEF TrySlot, TypeOK, SelectInv
<1>7. ASSUME NEW t \in Threads, NEW j \in 0 .. MiniHeapObjects(MinObjects, sel[t]) - 1, TrySlotFails(t, j)
      PROVE  SelectInv'
  BY <1>7 DEF TrySlotFails, TypeOK, SelectInv
<1>8. ASSUME NEW t \in Threads, CountUp(t) PROVE SelectInv'
  BY <1>8 DEF CountUp, TypeOK, SelectInv
<1>9. ASSUME NEW t \in Threads, Lock(t) PROVE SelectInv'
  BY <1>9 DEF Lock, TypeOK, SelectInv
<1>10. ASSUME NEW t \in Threads, LockFails(t) PROVE SelectInv'
  BY <1>10 DEF LockFails, TypeOK, SelectInv
<1>11. ASSUME NEW t \in Threads, SpinEnds(t) PROVE SelectInv'
  BY <1>11 DEF SpinEnds, TypeOK, SelectInv
<1>12. ASSUME NEW t \in Threads, Activate(t) PROVE SelectInv'
  BY <1>12 DEF Activate, TypeOK, SelectInv
<1>13. ASSUME NEW t \in Threads, StoreAvailable(t) PROVE SelectInv'
  <2>1. available' = available + MiniHeapObjects(MinObjects, miniHeapsInUse)
    BY <1>13 DEF StoreAvailable
  <2>2. available <= available' /\ available \in Nat /\ available' \in Nat
    BY <2>1, ObjectsOfMiniHeap DEF TypeOK
  <2> QED
    BY <1>13, <2>2 DEF StoreAvailable, TypeOK, SelectInv
<1>14. ASSUME NEW t \in Threads, StoreChunks(t) PROVE SelectInv'
  BY <1>14 DEF StoreChunks, TypeOK, SelectInv
<1>15. ASSUME NEW t \in Threads, StoreMiniHeapsInUse(t) PROVE SelectInv'
  BY <1>15 DEF StoreMiniHeapsInUse, TypeOK, SelectInv
<1>16. ASSUME NEW t \in Threads, Unlock(t) PROVE SelectInv'
  BY <1>16 DEF Unlock, TypeOK, SelectInv
<1>17. ASSUME NEW t \in Threads, NEW o \in Object, FreeCall(t, o)
      PROVE  SelectInv'
  BY <1>17 DEF FreeCall, TypeOK, SelectInv
<1>18. ASSUME NEW t \in Threads, FreeCached(t) PROVE SelectInv'
  BY <1>18 DEF FreeCached, TypeOK, SelectInv
<1>19. ASSUME NEW t \in Threads, NEW i \in MiniHeap, FreeSearch(t, i)
      PROVE  SelectInv'
  BY <1>19 DEF FreeSearch, TypeOK, SelectInv
<1>20. ASSUME NEW t \in Threads, FreeNotFound(t) PROVE SelectInv'
  BY <1>20 DEF FreeNotFound, TypeOK, SelectInv
<1>21. ASSUME NEW t \in Threads, CountDown(t) PROVE SelectInv'
  BY <1>21 DEF CountDown, TypeOK, SelectInv
<1>22. CASE UNCHANGED vars
  BY <1>22 DEF vars, shared, locals, TypeOK, SelectInv
<1>23. QED
  BY <1>1, <1>2, <1>3, <1>4, <1>5, <1>6, <1>7, <1>8, <1>9, <1>10, <1>11,
     <1>12, <1>13, <1>14, <1>15, <1>16, <1>17, <1>18, <1>19, <1>20, <1>21,
     <1>22
    DEF Next, Malloc, Grow, Free, Probe

\* With one mutator the miniheap is counted before an object of it is given out.
LEMMA FindStep ==
  ASSUME OneMutator, TypeOK, GrowInv, SelectInv, FindInv, [Next]_vars
  PROVE  FindInv'
<1> USE DEF Goto, At, Return, shared
<1>1. ASSUME NEW t \in Threads, MallocCall(t) PROVE FindInv'
  BY <1>1 DEF MallocCall, TypeOK, FindInv
<1>2. ASSUME NEW t \in Threads, LoadInUse(t) PROVE FindInv'
  BY <1>2 DEF LoadInUse, TypeOK, FindInv
<1>3. ASSUME NEW t \in Threads, LoadAvailableFull(t) PROVE FindInv'
  BY <1>3 DEF LoadAvailableFull, TypeOK, FindInv
<1>4. ASSUME NEW t \in Threads, LoadAvailableRoom(t) PROVE FindInv'
  BY <1>4 DEF LoadAvailableRoom, TypeOK, FindInv
<1>5. ASSUME NEW t \in Threads, NEW v \in Masked, SelectHeap(t, v)
      PROVE  FindInv'
  BY <1>5 DEF SelectHeap, TypeOK, FindInv
<1>6. ASSUME NEW t \in Threads, NEW j \in 0 .. MiniHeapObjects(MinObjects, sel[t]) - 1, TrySlot(t, j)
      PROVE  FindInv'
  <2>1. /\ bits' = bits \cup {<<sel[t], j>>} /\ miniHeapsInUse' = miniHeapsInUse
        /\ pc[t] = "try" /\ miniHeapsInUse \in Nat
    BY <1>6 DEF TrySlot, TypeOK
  <2>2. ~Somebody({"storeAvailable", "storeChunks", "storeHeaps"})
    BY <2>1 DEF Somebody, OneMutator
  <2>3. sel[t] \in 0 .. miniHeapsInUse - 1
    BY <2>1, <2>2 DEF SelectInv, GrowInv
  <2> QED
    BY <2>1, <2>3 DEF FindInv
<1>7. ASSUME NEW t \in Threads, NEW j \in 0 .. MiniHeapObjects(MinObjects, sel[t]) - 1, TrySlotFails(t, j)
      PROVE  FindInv'
  BY <1>7 DEF TrySlotFails, TypeOK, FindInv
<1>8. ASSUME NEW t \in Threads, CountUp(t) PROVE FindInv'
  BY <1>8 DEF CountUp, TypeOK, FindInv
<1>9. ASSUME NEW t \in Threads, Lock(t) PROVE FindInv'
  BY <1>9 DEF Lock, TypeOK, FindInv
<1>10. ASSUME NEW t \in Threads, LockFails(t) PROVE FindInv'
  BY <1>10 DEF LockFails, TypeOK, FindInv
<1>11. ASSUME NEW t \in Threads, SpinEnds(t) PROVE FindInv'
  BY <1>11 DEF SpinEnds, TypeOK, FindInv
<1>12. ASSUME NEW t \in Threads, Activate(t) PROVE FindInv'
  BY <1>12 DEF Activate, TypeOK, FindInv
<1>13. ASSUME NEW t \in Threads, StoreAvailable(t) PROVE FindInv'
  BY <1>13 DEF StoreAvailable, TypeOK, FindInv
<1>14. ASSUME NEW t \in Threads, StoreChunks(t) PROVE FindInv'
  BY <1>14 DEF StoreChunks, TypeOK, FindInv
<1>15. ASSUME NEW t \in Threads, StoreMiniHeapsInUse(t) PROVE FindInv'
  <2>1. \A o \in bits : o[1] \in Nat
    BY DEF TypeOK, Object, Objects, MiniHeap
  <2> QED
    BY <1>15, <2>1 DEF StoreMiniHeapsInUse, TypeOK, FindInv
<1>16. ASSUME NEW t \in Threads, Unlock(t) PROVE FindInv'
  BY <1>16 DEF Unlock, TypeOK, FindInv
<1>17. ASSUME NEW t \in Threads, NEW o \in Object, FreeCall(t, o)
      PROVE  FindInv'
  BY <1>17 DEF FreeCall, TypeOK, FindInv
<1>18. ASSUME NEW t \in Threads, FreeCached(t) PROVE FindInv'
  BY <1>18 DEF FreeCached, TypeOK, FindInv
<1>19. ASSUME NEW t \in Threads, NEW i \in MiniHeap, FreeSearch(t, i)
      PROVE  FindInv'
  BY <1>19 DEF FreeSearch, TypeOK, FindInv
<1>20. ASSUME NEW t \in Threads, FreeNotFound(t) PROVE FindInv'
  BY <1>20 DEF FreeNotFound, TypeOK, FindInv
<1>21. ASSUME NEW t \in Threads, CountDown(t) PROVE FindInv'
  BY <1>21 DEF CountDown, TypeOK, FindInv
<1>22. CASE UNCHANGED vars
  BY <1>22 DEF vars, shared, locals, TypeOK, FindInv
<1>23. QED
  BY <1>1, <1>2, <1>3, <1>4, <1>5, <1>6, <1>7, <1>8, <1>9, <1>10, <1>11,
     <1>12, <1>13, <1>14, <1>15, <1>16, <1>17, <1>18, <1>19, <1>20, <1>21,
     <1>22
    DEF Next, Malloc, Grow, Free, Probe

-----------------------------------------------------------------------------
(* The theorems *)

\* The part of the invariant that needs no condition on the program.
HeapInv == TypeOK /\ LockInv /\ LocalInv /\ GrowInv /\ CountInv

\* The heap is empty at first.
LEMMA InitInv ==
  ASSUME IsFiniteSet(Threads), Init
  PROVE  HeapInv /\ HoldInv /\ SelectInv /\ FindInv
<1> USE RandomHeapAssumption DEF Init
<1>1. TypeOK
  <2>1. /\ available \in Nat /\ inUse \in Int /\ chunksInUse \in Nat
        /\ miniHeapsInUse \in 0 .. MaxMiniHeaps
        /\ activated \subseteq MiniHeap /\ bits \subseteq Object /\ live \subseteq Object
    OBVIOUS
  <2>2. growLock \in BOOLEAN
    OBVIOUS
  <2>3. 0 \in MiniHeap
    BY DEF MiniHeap
  <2>4. /\ seen \in [Threads -> Int]
        /\ sel \in [Threads -> {-1} \cup MiniHeap]
        /\ cached \in {-1} \cup MiniHeap
        /\ arg \in [Threads -> Object \cup {NoObject}]
    BY <2>3
  <2> QED
    BY <2>1, <2>2, <2>4 DEF TypeOK
<1>2. LockInv /\ LocalInv
  BY DEF LockInv, LocalInv, Storing
<1>3. GrowInv
  BY DEF GrowInv, Somebody, Storing, Total, Mask
<1>4. CountInv
  <2>1. Returning = {} /\ Uncounting = {}
    BY DEF Returning, Uncounting
  <2>2. IsFiniteSet({}) /\ Cardinality({}) = 0
    BY FS_EmptySet
  <2> QED
    BY <2>1, <2>2 DEF CountInv
<1>5. HoldInv /\ SelectInv /\ FindInv
  BY DEF HoldInv, SelectInv, FindInv, Returning, Freeing
<1> QED
  BY <1>1, <1>2, <1>3, <1>4, <1>5 DEF HeapInv

\* At first the load is within the bound.
LEMMA InitLoad ==
  ASSUME IsFiniteSet(Threads), Threads # {}, Init
  PROVE  LoadInv
<1> SUFFICES ASSUME NEW k \in Int, Numerator * k >= 0
             PROVE  0 + Cardinality(Passed(k)) < k + Cardinality(Threads)
  BY RandomHeapAssumption DEF LoadInv, Init
<1>1. Passed(k) = {}
  BY DEF Passed, Init
<1>2. Cardinality(Passed(k)) = 0 /\ Cardinality(Threads) \in Nat \ {0}
  BY <1>1, FS_EmptySet, FS_CardinalityType
<1>3. k >= 0
  <2>1. \A n \in Nat \ {0} : \A i \in Int : n * i >= 0 => i >= 0
    BY Z3
  <2> QED
    BY <2>1, RandomHeapAssumption
<1> QED
  BY <1>2, <1>3

\* The heap's invariant holds of any program.
THEOREM Invariant ==
  ASSUME IsFiniteSet(Threads)
  PROVE  Spec => []HeapInv
<1>1. Init => HeapInv
  BY InitInv
<1>2. HeapInv /\ [Next]_vars => HeapInv'
  BY TypeStep, LockStep, GrowStep, CountStep DEF HeapInv
<1> QED
  BY <1>1, <1>2, PTL DEF Spec

\* The objects of the first m miniheaps are as many as _available says.
LEMMA TotalCardinality ==
  ASSUME NEW m \in Nat
  PROVE  LET objects == UNION {Objects(i) : i \in 0 .. m - 1} IN
           IsFiniteSet(objects) /\ Cardinality(objects) = Total(m)
<1> DEFINE First(n) == UNION {Objects(i) : i \in 0 .. n - 1}
           Good(n) == IsFiniteSet(First(n)) /\ Cardinality(First(n)) = Total(n)
           Bad == {n \in Nat : ~Good(n)}
<1> SUFFICES ASSUME Bad # {} PROVE FALSE
  OBVIOUS
<1>1. PICK n \in Bad : \A k \in Bad : n <= k
  BY Least
<1>2. CASE n = 0
  <2>1. First(n) = {}
    BY <1>2
  <2>2. Total(n) = 0
    BY <1>2 DEF Total
  <2> HIDE DEF First
  <2> QED
    BY <1>1, <2>1, <2>2, FS_EmptySet
<1>3. CASE n # 0
  <2> DEFINE k == n - 1
  <2>1. k \in Nat /\ n = k + 1 /\ n - 1 = k /\ Good(k)
    BY <1>1, <1>3
  <2>2. First(n) = First(k) \cup Objects(k)
    <3>1. 0 .. n - 1 = (0 .. k - 1) \cup {k}
      BY <2>1
    <3> QED
      BY <3>1
  <2>3. First(k) \cap Objects(k) = {}
    BY <2>1 DEF Objects
  <2>4. /\ IsFiniteSet(Objects(k))
        /\ Cardinality(Objects(k)) = MiniHeapObjects(MinObjects, k)
    <3> DEFINE size == MiniHeapObjects(MinObjects, k)
    <3>1. size \in Nat \ {0}
      BY <2>1, ObjectsOfMiniHeap
    <3> HIDE DEF size
    <3>2. IsFiniteSet(0 .. size - 1) /\ Cardinality(0 .. size - 1) = size
      BY <3>1, FS_Interval
    <3>3. IsFiniteSet({k}) /\ Cardinality({k}) = 1
      BY FS_Singleton
    <3>4. /\ IsFiniteSet({k} \X (0 .. size - 1))
          /\ Cardinality({k} \X (0 .. size - 1)) = 1 * size
      BY <3>2, <3>3, FS_Product
    <3> QED
      BY <3>1, <3>4 DEF Objects, size
  <2>5. /\ IsFiniteSet(First(n))
        /\ Cardinality(First(n))
             = Cardinality(First(k)) + Cardinality(Objects(k)) - Cardinality({})
    <3> HIDE DEF First
    <3> QED
      BY <2>1, <2>2, <2>3, <2>4, FS_Union
  <2>6. Cardinality({}) = 0
    BY FS_EmptySet
  <2>7. Total(n) = Total(k) + MiniHeapObjects(MinObjects, k)
    BY <2>1, TotalNext
  <2>8. Cardinality(First(k)) \in Nat /\ Cardinality(Objects(k)) \in Nat
    BY <2>1, <2>4, FS_CardinalityType
  <2>9. Cardinality(First(n)) = Total(n)
    <3> HIDE DEF First, k
    <3> QED
      BY <2>1, <2>4, <2>5, <2>6, <2>7, <2>8
  <2> QED
    BY <1>1, <2>5, <2>9
<1> QED
  BY <1>2, <1>3

\* _inUse, _available and _chunksInUse count what they say: _inUse is the number
\* of set bits but for the threads between the bitmap and the counter, and
\* whenever nobody is between the stores of getAnotherMiniHeap its asserts hold.
\* This holds of any program, one that frees twice too.
THEOREM CountersAgreeAlways ==
  ASSUME IsFiniteSet(Threads)
  PROVE  Spec => []CountersAgree
<1>1. HeapInv => CountersAgree
  <2> SUFFICES ASSUME HeapInv PROVE CountersAgree
    OBVIOUS
  <2> DEFINE m == miniHeapsInUse
  <2>1. inUse = Cardinality(bits) - Cardinality(Returning)
                  + Cardinality({t \in Threads : pc[t] = "uncount"})
    BY DEF HeapInv, CountInv, Uncounting
  <2>2. ASSUME \A t \in Threads : pc[t] \notin Storing
        PROVE  /\ available = Cardinality(UNION {Objects(i) : i \in 0 .. m - 1})
               /\ m > 0 => (chunksInUse + 1) * MinObjects = available
    <3>1. m \in Nat
      BY RandomHeapAssumption DEF HeapInv, TypeOK
    <3>2. available = Total(m) /\ chunksInUse = Mask(m)
      BY <2>2 DEF HeapInv, GrowInv, Somebody, Storing
    <3>3. ASSUME m > 0 PROVE (chunksInUse + 1) * MinObjects = available
      <4>1. m - 1 \in Nat /\ m # 0
        BY <3>1, <3>3
      <4>2. available = MinObjects * 2 ^ (m - 1) /\ chunksInUse = 2 ^ (m - 1) - 1
        BY <3>2, <4>1 DEF Total, Mask
      <4>3. 2 ^ (m - 1) \in Nat /\ MinObjects \in Nat
        BY <4>1, PowerOfTwo, RandomHeapAssumption
      <4>4. \A x, y \in Nat : (x - 1 + 1) * y = y * x
        BY Z3
      <4> QED
        BY <4>2, <4>3, <4>4
    <3> QED
      BY <3>1, <3>2, <3>3, TotalCardinality
  <2> QED
    BY <2>1, <2>2 DEF CountersAgree, HeapInv
<1> QED
  BY <1>1, Invariant, PTL

\* malloc never fills the heap beyond the load factor by more than one object
\* per thread: however old the counts are that the threads test, and whatever is
\* freed, by whom and how often.
THEOREM LoadFactorAlways ==
  ASSUME IsFiniteSet(Threads), Threads # {}
  PROVE  Spec => []LoadFactor
<1>1. Init => LoadInv
  BY InitLoad
<1>2. HeapInv /\ HeapInv' /\ LoadInv /\ [Next]_vars => LoadInv'
  BY LoadStep DEF HeapInv
<1>3. HeapInv /\ LoadInv => LoadFactor
  <2> SUFFICES ASSUME HeapInv, LoadInv,
                      ~(Numerator * (inUse - Cardinality(Threads)) < Denominator * available)
               PROVE  FALSE
    BY DEF LoadFactor
  <2> DEFINE k == inUse - Cardinality(Threads)
  <2>1. Cardinality(Threads) \in Nat /\ inUse \in Int /\ available \in Nat
    BY FS_CardinalityType DEF HeapInv, TypeOK
  <2>2. k \in Int /\ inUse = k + Cardinality(Threads)
    BY <2>1
  <2>3. Numerator * k >= Denominator * available
    BY <2>1, RandomHeapAssumption
  <2>4. inUse + Cardinality(Passed(k)) < k + Cardinality(Threads)
    BY <2>2, <2>3 DEF LoadInv
  <2>5. Passed(k) \in SUBSET Threads
    BY DEF Passed
  <2>6. Cardinality(Passed(k)) \in Nat
    BY <2>5, FS_Subset, FS_CardinalityType
  <2> HIDE DEF k
  <2> QED
    BY <2>1, <2>2, <2>4, <2>6
<1> QED
  BY <1>1, <1>2, <1>3, Invariant, PTL DEF Spec

\* No object is given out while somebody holds it, and the bits a thread tries
\* are those of a miniheap that has its memory, at every point of a growth.
THEOREM NoDoubleAllocationAlways ==
  ASSUME IsFiniteSet(Threads), Regular
  PROVE  Spec => []NoDoubleAllocation
<1>1. Init => HoldInv /\ SelectInv
  BY InitInv
<1>2. HeapInv /\ HeapInv' /\ HoldInv /\ SelectInv /\ [Next]_vars
        => HoldInv' /\ SelectInv'
  BY HoldStep, SelectStep DEF HeapInv
<1>3. HoldInv /\ SelectInv => NoDoubleAllocation
  BY DEF HoldInv, SelectInv, NoDoubleAllocation
<1> QED
  BY <1>1, <1>2, <1>3, Invariant, PTL DEF Spec

\* When the owner is the heap's only mutator, as in the allocator that is
\* shipped, free and getSize search the miniheap of every object it handed out.
THEOREM LiveIsFindableAlways ==
  ASSUME OneMutator
  PROVE  Spec => []LiveIsFindable
<1>1. IsFiniteSet(Threads) /\ Regular
  <2>1. Threads = {} \/ \E t \in Threads : Threads = {t}
    BY DEF OneMutator
  <2>2. IsFiniteSet({}) /\ \A t : IsFiniteSet({t})
    BY FS_EmptySet, FS_Singleton
  <2> QED
    BY <2>1, <2>2 DEF Regular
<1>2. Init => HoldInv /\ SelectInv /\ FindInv
  BY <1>1, InitInv
<1>3. HeapInv /\ HeapInv' /\ HoldInv /\ SelectInv /\ FindInv /\ [Next]_vars
        => HoldInv' /\ SelectInv' /\ FindInv'
  BY <1>1, HoldStep, SelectStep, FindStep DEF HeapInv
<1>4. HoldInv /\ FindInv => LiveIsFindable
  BY DEF HoldInv, FindInv, LiveIsFindable
<1>5. Spec => []HeapInv
  BY <1>1, Invariant
<1> QED
  BY <1>2, <1>3, <1>4, <1>5, PTL DEF Spec
=============================================================================
