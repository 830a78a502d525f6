------------------------- MODULE ScalableHeapProofs -------------------------
(***************************************************************************)
(* Proofs about ScalableHeap for any number of threads that does not       *)
(* exceed MAX_THREADS, any number of slots, and any size of the queues.    *)
(***************************************************************************)
EXTENDS ScalableHeap, FiniteSetTheorems, TLAPS

(***************************************************************************)
(* The side condition of the proofs: thread ids do not wrap around, and    *)
(* the program frees only what it holds.                                   *)
(***************************************************************************)
Regular ==
  /\ DoubleFrees = FALSE
  /\ IsFiniteSet(Threads)
  /\ Cardinality(Threads) <= MAX_THREADS

InMalloc == {"malloc", "drain", "allocate"}
InFree == {"free", "find", "route"}

\* Where a thread is, what it was called for and what it has by then.
CallInv ==
  \A t \in Threads :
    /\ pc[t] \in {"idle", "exited"} <=> op[t] = "none"
    /\ pc[t] \in InMalloc => op[t] = "malloc"
    /\ pc[t] \in InFree => op[t] = "free"
    /\ pc[t] = "size" => op[t] = "size"
    /\ op[t] = "free" => arg[t] \in Object
    /\ pc[t] \in InMalloc \cup InFree => t \in DOMAIN id
    /\ pc[t] \in {"drain", "allocate", "route"} => t \in registered

\* Every heap has an id of its own.
IdInv ==
  /\ nextId = Cardinality(DOMAIN id)
  /\ \A t \in DOMAIN id : id[t] < nextId
  /\ \A t, u \in DOMAIN id : id[t] = id[u] => t = u

\* The registry holds the registered heaps, each under its id, and a search
\* up to _maxThreadId meets them all.
RegistryInv ==
  /\ \A t \in registered : entries[id[t]] = t /\ id[t] < maxId
  /\ \A i \in Ids : entries[i] # None => entries[i] \in registered /\ id[entries[i]] = i

\* What is in the program's hands, being freed, or queued is allocated, and
\* never in two of these places.
ObjectInv ==
  /\ freed = {}
  /\ live \subseteq allocated
  /\ \A o \in allocated : o[1] = Fallback \/ o[1] \in registered
  /\ \A t \in Threads : op[t] = "free" => arg[t] \in allocated \ live
  /\ \A t, u \in Threads :
       op[t] = "free" /\ op[u] = "free" /\ arg[t] = arg[u] => t = u
  /\ \A t \in Threads : pc[t] \in {"find", "route"} => arg[t][1] # t
  /\ \A t \in Threads : pc[t] = "route" =>
       IF owner[t] = INVALID_THREAD_ID THEN arg[t][1] = Fallback
                                       ELSE entries[owner[t]] = arg[t][1]

\* What a queue holds belongs to the thread that drains it, is in nobody's
\* hands, and is in one place of one queue.
QueueInv ==
  /\ \A i \in Ids : \A o \in Queued(i) :
       /\ entries[i] = o[1]
       /\ o[1] \in registered
       /\ id[o[1]] = i
       /\ o \in allocated \ live
       /\ \A t \in Threads : ~(op[t] = "free" /\ arg[t] = o)
  /\ \A i \in Ids : \A k, l \in DOMAIN queues[i] :
       queues[i][k] = queues[i][l] => k = l

IInv == TypeOK /\ CallInv /\ IdInv /\ RegistryInv /\ ObjectInv /\ QueueInv
          /\ NoSilentLeak

\* The registry knows at most one id for an object.
LEMMA OneOwner ==
  ASSUME TypeOK, RegistryInv, NEW o \in Object, NEW x
  PROVE  \A i, j \in Owners(o, x) : i = j
<1>1. o[1] # None
  BY ScalableHeapAssumption DEF Object
<1>2. \A i \in Owners(o, x) : i \in Ids /\ entries[i] = o[1]
  BY ScalableHeapAssumption DEF Owners, TypeOK, Ids
<1>3. QED
  BY <1>1, <1>2 DEF RegistryInv

\* Every step keeps the types.
LEMMA TypeStep ==
  ASSUME TypeOK, CallInv, RegistryInv, [Next]_vars
  PROVE  TypeOK'
<1> USE ScalableHeapAssumption DEF TypeOK, CallInv, Goto, Return, Call, Ids,
      InMalloc, InFree, initVars, idVars, regVars, heapVars, callVars
<1>1. ASSUME NEW t \in Threads, HeapReady(t) PROVE TypeOK'
  <2>1. pc[t] = "heap" /\ op[t] \in {"malloc", "free", "size"}
    BY <1>1 DEF HeapReady
  <2>2. QED
    BY <1>1, <2>1 DEF HeapReady
<1>2. ASSUME NEW t \in Threads, CreateHeap(t) PROVE TypeOK'
  <2>1. pc[t] = "heap" /\ op[t] \in {"malloc", "free", "size"}
    BY <1>2 DEF CreateHeap
  <2>2. allocateThreadId \in Ids
    BY DEF allocateThreadId
  <2>3. nextId' \in Nat
    BY <1>2 DEF CreateHeap
  <2>4. pc' \in [Threads -> {"idle", "heap", "slow", "spin", "init", "unlock",
                         "fallback", "malloc", "drain", "allocate", "free",
                         "find", "route", "size", "exited"}]
    BY <1>2, <2>1 DEF CreateHeap
  <2>5. /\ DOMAIN id' \subseteq Threads /\ \A u \in DOMAIN id' : id'[u] \in Ids
        /\ registered \subseteq DOMAIN id'
    BY <1>2, <2>2 DEF CreateHeap
  <2>6. QED
    BY <1>2, <2>3, <2>4, <2>5 DEF CreateHeap
<1>3. ASSUME NEW t \in Threads, CreateHeapFails(t) PROVE TypeOK'
  BY <1>3 DEF CreateHeapFails
<1>4. ASSUME NEW t \in Threads, HeapSlow(t) PROVE TypeOK'
  BY <1>4 DEF HeapSlow
<1>5. ASSUME NEW t \in Threads, InitLock(t) PROVE TypeOK'
  BY <1>5 DEF InitLock
<1>6. ASSUME NEW t \in Threads, InitBusy(t) PROVE TypeOK'
  BY <1>6 DEF InitBusy
<1>7. ASSUME NEW t \in Threads, SpinSees(t) PROVE TypeOK'
  BY <1>7 DEF SpinSees
<1>8. ASSUME NEW t \in Threads, SpinGivesUp(t) PROVE TypeOK'
  BY <1>8 DEF SpinGivesUp
<1>9. ASSUME NEW t \in Threads, InitAlready(t) PROVE TypeOK'
  BY <1>9 DEF InitAlready
<1>10. ASSUME NEW t \in Threads, InitKey(t) PROVE TypeOK'
  BY <1>10 DEF InitKey
<1>11. ASSUME NEW t \in Threads, InitKeyFails(t) PROVE TypeOK'
  BY <1>11 DEF InitKeyFails
<1>12. ASSUME NEW t \in Threads, InitUnlock(t) PROVE TypeOK'
  BY <1>12 DEF InitUnlock
<1>13. ASSUME NEW t \in Threads, FallbackMalloc(t) PROVE TypeOK'
  BY <1>13 DEF FallbackMalloc, AllocateFrom, Object
<1>14. ASSUME NEW t \in Threads, FallbackFree(t) PROVE TypeOK'
  BY <1>14 DEF FallbackFree, HeapFree, Object
<1>15. ASSUME NEW t \in Threads, FallbackSize(t) PROVE TypeOK'
  BY <1>15 DEF FallbackSize
<1>16. ASSUME NEW t \in Threads, Register(t) PROVE TypeOK'
  <2>1. t \in DOMAIN id /\ id[t] \in 0 .. MAX_THREADS - 1
    BY <1>16 DEF Register
  <2>2. entries' \in [Ids -> Threads \cup {None}]
    BY <1>16 DEF Register
  <2>3. maxId' \in 0 .. MAX_THREADS
    BY <1>16, <2>1 DEF Register
  <2>4. QED
    BY <1>16, <2>1, <2>2, <2>3 DEF Register
<1>17. ASSUME NEW t \in Threads, MallocCount(t) PROVE TypeOK'
  <2>1. (count[t] + 1) % Interval \in 0 .. Interval - 1
    OBVIOUS
  <2>2. count' \in [Threads -> 0 .. Interval - 1]
    BY <1>17, <2>1 DEF MallocCount
  <2>3. QED
    BY <1>17, <2>2 DEF MallocCount
<1>18. ASSUME NEW t \in Threads, Drain(t) PROVE TypeOK'
  <2>1. t \in DOMAIN id /\ id[t] \in Ids
    BY <1>18 DEF Drain
  <2>2. << >> \in Seq(Object) /\ Len(<< >>) <= Capacity
    OBVIOUS
  <2>3. queues' \in [Ids -> Seq(Object)] /\ \A i \in Ids : Len(queues'[i]) <= Capacity
    BY <1>18, <2>1, <2>2 DEF Drain
  <2>4. allocated' \subseteq Object
    BY <1>18 DEF Drain, HeapFree
  <2>5. QED
    BY <1>18, <2>3, <2>4 DEF Drain
<1>19. ASSUME NEW t \in Threads, DrainNot(t) PROVE TypeOK'
  BY <1>19 DEF DrainNot
<1>20. ASSUME NEW t \in Threads, Allocate(t) PROVE TypeOK'
  BY <1>20 DEF Allocate, AllocateFrom, Object
<1>21. ASSUME NEW t \in Threads, FreeOwn(t) PROVE TypeOK'
  BY <1>21 DEF FreeOwn, HeapFree, Object
<1>22. ASSUME NEW t \in Threads, FreeSlow(t) PROVE TypeOK'
  BY <1>22 DEF FreeSlow
<1>23. ASSUME NEW t \in Threads, FindOwner(t) PROVE TypeOK'
  <2>1. t \in DOMAIN id /\ id[t] \in Ids
    BY <1>23 DEF FindOwner
  <2>2. Owners(arg[t], id[t]) \subseteq Ids
    BY DEF Owners
  <2>3. \A i, j \in Owners(arg[t], id[t]) : i = j
    BY <1>23, OneOwner DEF FindOwner
  <2>4. owner' \in [Threads -> Ids \cup {INVALID_THREAD_ID}]
    BY <1>23, <2>2, <2>3 DEF FindOwner
  <2>5. QED
    BY <1>23, <2>4 DEF FindOwner
<1>24. ASSUME NEW t \in Threads, FreeUnknown(t) PROVE TypeOK'
  BY <1>24 DEF FreeUnknown, HeapFree, Object
<1>25. ASSUME NEW t \in Threads, CrossThreadFree(t) PROVE TypeOK'
  <2>1. arg[t] \in Object /\ owner[t] \in Ids
    BY <1>25 DEF CrossThreadFree
  <2>2. PICK q \in Seq(Object) : q = queues[owner[t]] /\ Len(q) < Capacity
    BY <1>25, <2>1 DEF CrossThreadFree
  <2>3. Append(q, arg[t]) \in Seq(Object) /\ Len(Append(q, arg[t])) <= Capacity
    BY <2>1, <2>2
  <2>4. queues' \in [Ids -> Seq(Object)] /\ \A i \in Ids : Len(queues'[i]) <= Capacity
    BY <1>25, <2>1, <2>2, <2>3 DEF CrossThreadFree
  <2>5. QED
    BY <1>25, <2>4 DEF CrossThreadFree
<1>26. ASSUME NEW t \in Threads, CrossThreadFreeRejected(t) PROVE TypeOK'
  <2>1. arg[t] \in Object /\ pc[t] = "route"
    BY <1>26 DEF CrossThreadFreeRejected
  <2>2. QED
    BY <1>26, <2>1 DEF CrossThreadFreeRejected
<1>27. ASSUME NEW t \in Threads, GetSize(t) PROVE TypeOK'
  BY <1>27 DEF GetSize
<1>28. ASSUME NEW t \in Threads, MallocCall(t) PROVE TypeOK'
  BY <1>28 DEF MallocCall
<1>29. ASSUME NEW t \in Threads, NEW o \in Object, FreeCall(t, o) PROVE TypeOK'
  BY <1>29 DEF FreeCall, Object
<1>30. ASSUME NEW t \in Threads, NEW o \in Object, GetSizeCall(t, o) PROVE TypeOK'
  BY <1>30 DEF GetSizeCall, Object
<1>31. ASSUME NEW t \in Threads, Exit(t) PROVE TypeOK'
  BY <1>31 DEF Exit
<1>32. CASE UNCHANGED vars
  BY <1>32 DEF vars, initVars, idVars, regVars, heapVars, callVars
<1>33. QED
  BY <1>1, <1>2, <1>3, <1>4, <1>5, <1>6, <1>7, <1>8, <1>9, <1>10, <1>11,
     <1>12, <1>13, <1>14, <1>15, <1>16, <1>17, <1>18, <1>19, <1>20, <1>21,
     <1>22, <1>23, <1>24, <1>25, <1>26, <1>27, <1>28, <1>29, <1>30, <1>31,
     <1>32 DEF Next, Step

\* Every step keeps a thread's position, operation and argument together.
LEMMA CallStep ==
  ASSUME TypeOK, CallInv, [Next]_vars
  PROVE  CallInv'
<1> USE ScalableHeapAssumption DEF TypeOK, CallInv, Goto, Return, Call,
        InMalloc, InFree,
      initVars, idVars, regVars, heapVars, callVars
<1>1. ASSUME NEW t \in Threads, HeapReady(t) PROVE CallInv'
  BY <1>1 DEF HeapReady
<1>2. ASSUME NEW t \in Threads, CreateHeap(t) PROVE CallInv'
  BY <1>2 DEF CreateHeap
<1>3. ASSUME NEW t \in Threads, CreateHeapFails(t) PROVE CallInv'
  BY <1>3 DEF CreateHeapFails
<1>4. ASSUME NEW t \in Threads, HeapSlow(t) PROVE CallInv'
  BY <1>4 DEF HeapSlow
<1>5. ASSUME NEW t \in Threads, InitLock(t) PROVE CallInv'
  BY <1>5 DEF InitLock
<1>6. ASSUME NEW t \in Threads, InitBusy(t) PROVE CallInv'
  BY <1>6 DEF InitBusy
<1>7. ASSUME NEW t \in Threads, SpinSees(t) PROVE CallInv'
  BY <1>7 DEF SpinSees
<1>8. ASSUME NEW t \in Threads, SpinGivesUp(t) PROVE CallInv'
  BY <1>8 DEF SpinGivesUp
<1>9. ASSUME NEW t \in Threads, InitAlready(t) PROVE CallInv'
  BY <1>9 DEF InitAlready
<1>10. ASSUME NEW t \in Threads, InitKey(t) PROVE CallInv'
  BY <1>10 DEF InitKey
<1>11. ASSUME NEW t \in Threads, InitKeyFails(t) PROVE CallInv'
  BY <1>11 DEF InitKeyFails
<1>12. ASSUME NEW t \in Threads, InitUnlock(t) PROVE CallInv'
  BY <1>12 DEF InitUnlock
<1>13. ASSUME NEW t \in Threads, FallbackMalloc(t) PROVE CallInv'
  BY <1>13 DEF FallbackMalloc
<1>14. ASSUME NEW t \in Threads, FallbackFree(t) PROVE CallInv'
  BY <1>14 DEF FallbackFree
<1>15. ASSUME NEW t \in Threads, FallbackSize(t) PROVE CallInv'
  BY <1>15 DEF FallbackSize
<1>16. ASSUME NEW t \in Threads, Register(t) PROVE CallInv'
  BY <1>16 DEF Register
<1>17. ASSUME NEW t \in Threads, MallocCount(t) PROVE CallInv'
  BY <1>17 DEF MallocCount
<1>18. ASSUME NEW t \in Threads, Drain(t) PROVE CallInv'
  BY <1>18 DEF Drain
<1>19. ASSUME NEW t \in Threads, DrainNot(t) PROVE CallInv'
  BY <1>19 DEF DrainNot
<1>20. ASSUME NEW t \in Threads, Allocate(t) PROVE CallInv'
  BY <1>20 DEF Allocate
<1>21. ASSUME NEW t \in Threads, FreeOwn(t) PROVE CallInv'
  BY <1>21 DEF FreeOwn
<1>22. ASSUME NEW t \in Threads, FreeSlow(t) PROVE CallInv'
  BY <1>22 DEF FreeSlow
<1>23. ASSUME NEW t \in Threads, FindOwner(t) PROVE CallInv'
  BY <1>23 DEF FindOwner
<1>24. ASSUME NEW t \in Threads, FreeUnknown(t) PROVE CallInv'
  BY <1>24 DEF FreeUnknown
<1>25. ASSUME NEW t \in Threads, CrossThreadFree(t) PROVE CallInv'
  BY <1>25 DEF CrossThreadFree
<1>26. ASSUME NEW t \in Threads, CrossThreadFreeRejected(t) PROVE CallInv'
  BY <1>26 DEF CrossThreadFreeRejected
<1>27. ASSUME NEW t \in Threads, GetSize(t) PROVE CallInv'
  BY <1>27 DEF GetSize
<1>28. ASSUME NEW t \in Threads, MallocCall(t) PROVE CallInv'
  BY <1>28 DEF MallocCall
<1>29. ASSUME NEW t \in Threads, NEW o \in Object, FreeCall(t, o) PROVE CallInv'
  BY <1>29 DEF FreeCall
<1>30. ASSUME NEW t \in Threads, NEW o \in Object, GetSizeCall(t, o) PROVE CallInv'
  BY <1>30 DEF GetSizeCall
<1>31. ASSUME NEW t \in Threads, Exit(t) PROVE CallInv'
  BY <1>31 DEF Exit
<1>32. CASE UNCHANGED vars
  BY <1>32 DEF vars, initVars, idVars, regVars, heapVars, callVars
<1>33. QED
  BY <1>1, <1>2, <1>3, <1>4, <1>5, <1>6, <1>7, <1>8, <1>9, <1>10, <1>11,
     <1>12, <1>13, <1>14, <1>15, <1>16, <1>17, <1>18, <1>19, <1>20, <1>21,
     <1>22, <1>23, <1>24, <1>25, <1>26, <1>27, <1>28, <1>29, <1>30, <1>31,
     <1>32 DEF Next, Step

\* No two heaps get one id while the ids do not wrap around.
LEMMA IdStep ==
  ASSUME Regular, TypeOK, IdInv, [Next]_vars
  PROVE  IdInv'
<1> USE DEF IdInv, Goto, Return, Call, initVars, idVars, regVars, heapVars,
        callVars
<1>1. ASSUME NEW t \in Threads, HeapReady(t) PROVE IdInv'
  BY <1>1 DEF HeapReady
<1>2. ASSUME NEW t \in Threads, CreateHeap(t) PROVE IdInv'
  <2>1. DOMAIN id' = DOMAIN id \cup {t} /\ t \notin DOMAIN id /\ nextId' = nextId + 1
    BY <1>2 DEF CreateHeap
  <2>2. DOMAIN id \subseteq Threads /\ nextId \in Nat
    BY DEF TypeOK
  <2>3. IsFiniteSet(DOMAIN id)
    BY <2>2, FS_Subset DEF Regular
  <2>4. IsFiniteSet(DOMAIN id') /\ Cardinality(DOMAIN id') = nextId + 1
    BY <2>1, <2>3, FS_AddElement
  <2>5. nextId + 1 <= Cardinality(Threads) /\ Cardinality(Threads) \in Nat
    BY <2>1, <2>2, <2>4, FS_Subset, FS_CardinalityType DEF Regular
  <2>6. allocateThreadId = nextId
    BY <2>2, <2>5, ScalableHeapAssumption DEF Regular, allocateThreadId
  <2>7. \A u \in DOMAIN id' : id'[u] = IF u = t THEN nextId ELSE id[u]
    BY <1>2, <2>6 DEF CreateHeap
  <2>8. \A u \in DOMAIN id : id[u] \in Nat
    BY ScalableHeapAssumption DEF TypeOK, Ids
  <2>9. QED
    BY <2>1, <2>2, <2>4, <2>7, <2>8
<1>3. ASSUME NEW t \in Threads, CreateHeapFails(t) PROVE IdInv'
  BY <1>3 DEF CreateHeapFails
<1>4. ASSUME NEW t \in Threads, HeapSlow(t) PROVE IdInv'
  BY <1>4 DEF HeapSlow
<1>5. ASSUME NEW t \in Threads, InitLock(t) PROVE IdInv'
  BY <1>5 DEF InitLock
<1>6. ASSUME NEW t \in Threads, InitBusy(t) PROVE IdInv'
  BY <1>6 DEF InitBusy
<1>7. ASSUME NEW t \in Threads, SpinSees(t) PROVE IdInv'
  BY <1>7 DEF SpinSees
<1>8. ASSUME NEW t \in Threads, SpinGivesUp(t) PROVE IdInv'
  BY <1>8 DEF SpinGivesUp
<1>9. ASSUME NEW t \in Threads, InitAlready(t) PROVE IdInv'
  BY <1>9 DEF InitAlready
<1>10. ASSUME NEW t \in Threads, InitKey(t) PROVE IdInv'
  BY <1>10 DEF InitKey
<1>11. ASSUME NEW t \in Threads, InitKeyFails(t) PROVE IdInv'
  BY <1>11 DEF InitKeyFails
<1>12. ASSUME NEW t \in Threads, InitUnlock(t) PROVE IdInv'
  BY <1>12 DEF InitUnlock
<1>13. ASSUME NEW t \in Threads, FallbackMalloc(t) PROVE IdInv'
  BY <1>13 DEF FallbackMalloc
<1>14. ASSUME NEW t \in Threads, FallbackFree(t) PROVE IdInv'
  BY <1>14 DEF FallbackFree
<1>15. ASSUME NEW t \in Threads, FallbackSize(t) PROVE IdInv'
  BY <1>15 DEF FallbackSize
<1>16. ASSUME NEW t \in Threads, Register(t) PROVE IdInv'
  BY <1>16 DEF Register
<1>17. ASSUME NEW t \in Threads, MallocCount(t) PROVE IdInv'
  BY <1>17 DEF MallocCount
<1>18. ASSUME NEW t \in Threads, Drain(t) PROVE IdInv'
  BY <1>18 DEF Drain
<1>19. ASSUME NEW t \in Threads, DrainNot(t) PROVE IdInv'
  BY <1>19 DEF DrainNot
<1>20. ASSUME NEW t \in Threads, Allocate(t) PROVE IdInv'
  BY <1>20 DEF Allocate
<1>21. ASSUME NEW t \in Threads, FreeOwn(t) PROVE IdInv'
  BY <1>21 DEF FreeOwn
<1>22. ASSUME NEW t \in Threads, FreeSlow(t) PROVE IdInv'
  BY <1>22 DEF FreeSlow
<1>23. ASSUME NEW t \in Threads, FindOwner(t) PROVE IdInv'
  BY <1>23 DEF FindOwner
<1>24. ASSUME NEW t \in Threads, FreeUnknown(t) PROVE IdInv'
  BY <1>24 DEF FreeUnknown
<1>25. ASSUME NEW t \in Threads, CrossThreadFree(t) PROVE IdInv'
  BY <1>25 DEF CrossThreadFree
<1>26. ASSUME NEW t \in Threads, CrossThreadFreeRejected(t) PROVE IdInv'
  BY <1>26 DEF CrossThreadFreeRejected
<1>27. ASSUME NEW t \in Threads, GetSize(t) PROVE IdInv'
  BY <1>27 DEF GetSize
<1>28. ASSUME NEW t \in Threads, MallocCall(t) PROVE IdInv'
  BY <1>28 DEF MallocCall
<1>29. ASSUME NEW t \in Threads, NEW o \in Object, FreeCall(t, o) PROVE IdInv'
  BY <1>29 DEF FreeCall
<1>30. ASSUME NEW t \in Threads, NEW o \in Object, GetSizeCall(t, o) PROVE IdInv'
  BY <1>30 DEF GetSizeCall
<1>31. ASSUME NEW t \in Threads, Exit(t) PROVE IdInv'
  BY <1>31 DEF Exit
<1>32. CASE UNCHANGED vars
  BY <1>32 DEF vars, initVars, idVars, regVars, heapVars, callVars
<1>33. QED
  BY <1>1, <1>2, <1>3, <1>4, <1>5, <1>6, <1>7, <1>8, <1>9, <1>10, <1>11,
     <1>12, <1>13, <1>14, <1>15, <1>16, <1>17, <1>18, <1>19, <1>20, <1>21,
     <1>22, <1>23, <1>24, <1>25, <1>26, <1>27, <1>28, <1>29, <1>30, <1>31,
     <1>32 DEF Next, Step

\* A heap is registered under its own id, once and for all.
LEMMA RegistryStep ==
  ASSUME TypeOK, CallInv, IdInv, RegistryInv, [Next]_vars
  PROVE  RegistryInv'
<1> USE ScalableHeapAssumption DEF TypeOK, CallInv, IdInv, RegistryInv, Ids,
        Goto, Return, Call, InMalloc, InFree, initVars, idVars, regVars,
        heapVars, callVars
<1>1. ASSUME NEW t \in Threads, HeapReady(t) PROVE RegistryInv'
  BY <1>1 DEF HeapReady
<1>2. ASSUME NEW t \in Threads, CreateHeap(t) PROVE RegistryInv'
  BY <1>2 DEF CreateHeap
<1>3. ASSUME NEW t \in Threads, CreateHeapFails(t) PROVE RegistryInv'
  BY <1>3 DEF CreateHeapFails
<1>4. ASSUME NEW t \in Threads, HeapSlow(t) PROVE RegistryInv'
  BY <1>4 DEF HeapSlow
<1>5. ASSUME NEW t \in Threads, InitLock(t) PROVE RegistryInv'
  BY <1>5 DEF InitLock
<1>6. ASSUME NEW t \in Threads, InitBusy(t) PROVE RegistryInv'
  BY <1>6 DEF InitBusy
<1>7. ASSUME NEW t \in Threads, SpinSees(t) PROVE RegistryInv'
  BY <1>7 DEF SpinSees
<1>8. ASSUME NEW t \in Threads, SpinGivesUp(t) PROVE RegistryInv'
  BY <1>8 DEF SpinGivesUp
<1>9. ASSUME NEW t \in Threads, InitAlready(t) PROVE RegistryInv'
  BY <1>9 DEF InitAlready
<1>10. ASSUME NEW t \in Threads, InitKey(t) PROVE RegistryInv'
  BY <1>10 DEF InitKey
<1>11. ASSUME NEW t \in Threads, InitKeyFails(t) PROVE RegistryInv'
  BY <1>11 DEF InitKeyFails
<1>12. ASSUME NEW t \in Threads, InitUnlock(t) PROVE RegistryInv'
  BY <1>12 DEF InitUnlock
<1>13. ASSUME NEW t \in Threads, FallbackMalloc(t) PROVE RegistryInv'
  BY <1>13 DEF FallbackMalloc
<1>14. ASSUME NEW t \in Threads, FallbackFree(t) PROVE RegistryInv'
  BY <1>14 DEF FallbackFree
<1>15. ASSUME NEW t \in Threads, FallbackSize(t) PROVE RegistryInv'
  BY <1>15 DEF FallbackSize
<1>16. ASSUME NEW t \in Threads, Register(t) PROVE RegistryInv'
  BY <1>16 DEF Register
<1>17. ASSUME NEW t \in Threads, MallocCount(t) PROVE RegistryInv'
  BY <1>17 DEF MallocCount
<1>18. ASSUME NEW t \in Threads, Drain(t) PROVE RegistryInv'
  BY <1>18 DEF Drain
<1>19. ASSUME NEW t \in Threads, DrainNot(t) PROVE RegistryInv'
  BY <1>19 DEF DrainNot
<1>20. ASSUME NEW t \in Threads, Allocate(t) PROVE RegistryInv'
  BY <1>20 DEF Allocate
<1>21. ASSUME NEW t \in Threads, FreeOwn(t) PROVE RegistryInv'
  BY <1>21 DEF FreeOwn
<1>22. ASSUME NEW t \in Threads, FreeSlow(t) PROVE RegistryInv'
  BY <1>22 DEF FreeSlow
<1>23. ASSUME NEW t \in Threads, FindOwner(t) PROVE RegistryInv'
  BY <1>23 DEF FindOwner
<1>24. ASSUME NEW t \in Threads, FreeUnknown(t) PROVE RegistryInv'
  BY <1>24 DEF FreeUnknown
<1>25. ASSUME NEW t \in Threads, CrossThreadFree(t) PROVE RegistryInv'
  BY <1>25 DEF CrossThreadFree
<1>26. ASSUME NEW t \in Threads, CrossThreadFreeRejected(t) PROVE RegistryInv'
  BY <1>26 DEF CrossThreadFreeRejected
<1>27. ASSUME NEW t \in Threads, GetSize(t) PROVE RegistryInv'
  BY <1>27 DEF GetSize
<1>28. ASSUME NEW t \in Threads, MallocCall(t) PROVE RegistryInv'
  BY <1>28 DEF MallocCall
<1>29. ASSUME NEW t \in Threads, NEW o \in Object, FreeCall(t, o) PROVE RegistryInv'
  BY <1>29 DEF FreeCall
<1>30. ASSUME NEW t \in Threads, NEW o \in Object, GetSizeCall(t, o) PROVE RegistryInv'
  BY <1>30 DEF GetSizeCall
<1>31. ASSUME NEW t \in Threads, Exit(t) PROVE RegistryInv'
  BY <1>31 DEF Exit
<1>32. CASE UNCHANGED vars
  BY <1>32 DEF vars, initVars, idVars, regVars, heapVars, callVars
<1>33. QED
  BY <1>1, <1>2, <1>3, <1>4, <1>5, <1>6, <1>7, <1>8, <1>9, <1>10, <1>11,
     <1>12, <1>13, <1>14, <1>15, <1>16, <1>17, <1>18, <1>19, <1>20, <1>21,
     <1>22, <1>23, <1>24, <1>25, <1>26, <1>27, <1>28, <1>29, <1>30, <1>31,
     <1>32 DEF Next, Step

\* drain() takes all that its queue holds out of the heap of its thread.
LEMMA DrainEffect ==
  ASSUME TypeOK, CallInv, RegistryInv, QueueInv, NEW t \in Threads, Drain(t)
  PROVE  /\ id[t] \in Ids
         /\ allocated' = allocated \ Queued(id[t])
         /\ queues' = [queues EXCEPT ![id[t]] = << >>]
         /\ Queued(id[t])' = {}
         /\ \A i \in Ids : i # id[t] => Queued(i)' = Queued(i)
<1>1. id[t] \in Ids /\ entries[id[t]] = t
  BY DEF TypeOK, CallInv, RegistryInv, Drain
<1>2. queues' = [queues EXCEPT ![id[t]] = << >>]
  BY DEF Drain
<1>3. PICK q \in Seq(Object) : q = queues[id[t]]
  BY <1>1 DEF TypeOK
<1>4. Queued(id[t]) = {q[k] : k \in 1 .. Len(q)}
  BY <1>3 DEF Queued
<1>5. allocated' = {o \in allocated : ~(o[1] = t /\ o \in Queued(id[t]))}
  BY <1>3, <1>4 DEF Drain, HeapFree
<1>6. \A o \in Queued(id[t]) : o[1] = t
  BY <1>1 DEF QueueInv
<1>7. /\ id' = id
      /\ queues'[id[t]] = << >>
      /\ \A i \in Ids : i # id[t] => queues'[i] = queues[i]
  BY <1>1, <1>2 DEF TypeOK, Drain, idVars
<1>8. Queued(id[t])' = {}
  <2>1. DOMAIN queues'[id[t]] = {}
    BY <1>7
  <2>2. QED
    BY <1>7, <2>1 DEF Queued
<1>9. \A i \in Ids : i # id[t] => Queued(i)' = Queued(i)
  BY <1>7 DEF Queued
<1>10. QED
  BY <1>1, <1>2, <1>5, <1>6, <1>8, <1>9

\* No step releases what the program holds, frees an object twice, or gives a
\* free to another heap than the object's.
LEMMA ObjectStep ==
  ASSUME Regular, TypeOK, CallInv, IdInv, RegistryInv, ObjectInv, QueueInv,
         [Next]_vars
  PROVE  ObjectInv'
<1> USE ScalableHeapAssumption DEF TypeOK, CallInv, IdInv, RegistryInv,
        ObjectInv, Ids, Goto, Return, Call, InMalloc, InFree,
      initVars, idVars, regVars, heapVars, callVars
<1>1. ASSUME NEW t \in Threads, HeapReady(t) PROVE ObjectInv'
  <2>1. op[t] \in {"malloc", "free", "size"}
    BY <1>1 DEF HeapReady
  <2>2. /\ UNCHANGED <<freed, live, allocated, op, arg, owner, entries, registered>>
        /\ pc' = [pc EXCEPT ![t] = op[t]]
    BY <1>1 DEF HeapReady
  <2>3. \A u \in Threads : pc'[u] \in {"find", "route"} => pc'[u] = pc[u]
    BY <2>1, <2>2
  <2>4. QED
    BY <2>2, <2>3
<1>2. ASSUME NEW t \in Threads, CreateHeap(t) PROVE ObjectInv'
  <2>1. op[t] \in {"malloc", "free", "size"}
    BY <1>2 DEF CreateHeap
  <2>2. /\ UNCHANGED <<freed, live, allocated, op, arg, owner, entries, registered>>
        /\ pc' = [pc EXCEPT ![t] = op[t]]
    BY <1>2 DEF CreateHeap
  <2>3. \A u \in Threads : pc'[u] \in {"find", "route"} => pc'[u] = pc[u]
    BY <2>1, <2>2
  <2>4. QED
    BY <2>2, <2>3
<1>3. ASSUME NEW t \in Threads, CreateHeapFails(t) PROVE ObjectInv'
  BY <1>3 DEF CreateHeapFails
<1>4. ASSUME NEW t \in Threads, HeapSlow(t) PROVE ObjectInv'
  BY <1>4 DEF HeapSlow
<1>5. ASSUME NEW t \in Threads, InitLock(t) PROVE ObjectInv'
  BY <1>5 DEF InitLock
<1>6. ASSUME NEW t \in Threads, InitBusy(t) PROVE ObjectInv'
  BY <1>6 DEF InitBusy
<1>7. ASSUME NEW t \in Threads, SpinSees(t) PROVE ObjectInv'
  BY <1>7 DEF SpinSees
<1>8. ASSUME NEW t \in Threads, SpinGivesUp(t) PROVE ObjectInv'
  BY <1>8 DEF SpinGivesUp
<1>9. ASSUME NEW t \in Threads, InitAlready(t) PROVE ObjectInv'
  BY <1>9 DEF InitAlready
<1>10. ASSUME NEW t \in Threads, InitKey(t) PROVE ObjectInv'
  BY <1>10 DEF InitKey
<1>11. ASSUME NEW t \in Threads, InitKeyFails(t) PROVE ObjectInv'
  BY <1>11 DEF InitKeyFails
<1>12. ASSUME NEW t \in Threads, InitUnlock(t) PROVE ObjectInv'
  BY <1>12 DEF InitUnlock
<1>13. ASSUME NEW t \in Threads, FallbackMalloc(t) PROVE ObjectInv'
  BY <1>13 DEF FallbackMalloc, AllocateFrom, Object
<1>14. ASSUME NEW t \in Threads, FallbackFree(t) PROVE ObjectInv'
  BY <1>14 DEF FallbackFree, HeapFree, Object
<1>15. ASSUME NEW t \in Threads, FallbackSize(t) PROVE ObjectInv'
  BY <1>15 DEF FallbackSize
<1>16. ASSUME NEW t \in Threads, Register(t) PROVE ObjectInv'
  BY <1>16 DEF Register
<1>17. ASSUME NEW t \in Threads, MallocCount(t) PROVE ObjectInv'
  BY <1>17 DEF MallocCount
<1>18. ASSUME NEW t \in Threads, Drain(t) PROVE ObjectInv'
  <2>1. /\ allocated' = allocated \ Queued(id[t])
        /\ id[t] \in Ids
    BY <1>18, DrainEffect
  <2>2. /\ UNCHANGED <<freed, live, op, arg, owner, entries, registered>>
        /\ \A u \in Threads : pc'[u] \in {"find", "route"} => pc'[u] = pc[u]
    BY <1>18 DEF Drain
  <2>3. \A u \in Threads : op[u] = "free" => arg[u] \notin Queued(id[t])
    BY <2>1 DEF QueueInv
  <2>4. live \cap Queued(id[t]) = {}
    BY <2>1 DEF QueueInv
  <2>5. QED
    BY <2>1, <2>2, <2>3, <2>4
<1>19. ASSUME NEW t \in Threads, DrainNot(t) PROVE ObjectInv'
  BY <1>19 DEF DrainNot
<1>20. ASSUME NEW t \in Threads, Allocate(t) PROVE ObjectInv'
  BY <1>20 DEF Allocate, AllocateFrom, Object
<1>21. ASSUME NEW t \in Threads, FreeOwn(t) PROVE ObjectInv'
  BY <1>21 DEF FreeOwn, HeapFree, Object
<1>22. ASSUME NEW t \in Threads, FreeSlow(t) PROVE ObjectInv'
  BY <1>22 DEF FreeSlow
<1>23. ASSUME NEW t \in Threads, FindOwner(t) PROVE ObjectInv'
  <2>1. /\ t \in DOMAIN id /\ id[t] \in Ids /\ arg[t] \in Object /\ pc[t] = "find"
        /\ op[t] = "free"
    BY <1>23 DEF FindOwner
  <2>2. arg[t][1] # t /\ arg[t][1] # None
    BY <2>1 DEF Object
  <2>3. arg[t][1] = Fallback \/ arg[t][1] \in registered
    BY <2>1
  <2>4. ASSUME Owners(arg[t], id[t]) = {}
        PROVE  owner'[t] = INVALID_THREAD_ID /\ arg[t][1] = Fallback
    <3>1. arg[t][1] \notin registered
      <4>1. SUFFICES ASSUME arg[t][1] \in registered PROVE FALSE
        OBVIOUS
      <4>2. id[arg[t][1]] \in 0 .. maxId - 1 /\ id[arg[t][1]] # id[t]
        BY <2>1, <2>2, <4>1
      <4>3. QED
        BY <2>4, <4>1, <4>2 DEF Owners
    <3>2. owner'[t] = INVALID_THREAD_ID
      BY <1>23, <2>4 DEF FindOwner
    <3>3. QED
      BY <2>3, <3>1, <3>2
  <2>5. ASSUME Owners(arg[t], id[t]) # {}
        PROVE  owner'[t] # INVALID_THREAD_ID /\ entries[owner'[t]] = arg[t][1]
    <3>1. \A i, j \in Owners(arg[t], id[t]) : i = j
      BY <2>1, OneOwner
    <3>2. Owners(arg[t], id[t]) \subseteq Ids
      BY DEF Owners
    <3>3. owner'[t] \in Owners(arg[t], id[t])
      BY <1>23, <2>5, <3>1, <3>2 DEF FindOwner
    <3>4. entries[owner'[t]] = arg[t][1] /\ owner'[t] # INVALID_THREAD_ID
      BY <3>2, <3>3 DEF Owners, INVALID_THREAD_ID
    <3>5. QED
      BY <3>4
  <2>6. /\ UNCHANGED <<freed, live, allocated, op, arg, entries, registered>>
        /\ \A u \in Threads : u # t => owner'[u] = owner[u] /\ pc'[u] = pc[u]
    BY <1>23 DEF FindOwner
  <2>7. \A u \in Threads : pc'[u] \in {"find", "route"} => arg'[u][1] # u
    BY <2>2, <2>6
  <2>8. \A u \in Threads : pc'[u] = "route" =>
          IF owner'[u] = INVALID_THREAD_ID THEN arg'[u][1] = Fallback
                                           ELSE entries'[owner'[u]] = arg'[u][1]
    <3>1. SUFFICES ASSUME NEW u \in Threads, pc'[u] = "route"
                   PROVE  IF owner'[u] = INVALID_THREAD_ID
                            THEN arg[u][1] = Fallback
                            ELSE entries[owner'[u]] = arg[u][1]
      BY <2>6
    <3>2. CASE u = t
      BY <2>4, <2>5, <3>2
    <3>3. CASE u # t
      BY <2>6, <3>1, <3>3
    <3>4. QED
      BY <3>2, <3>3
  <2>9. QED
    BY <2>6, <2>7, <2>8
<1>24. ASSUME NEW t \in Threads, FreeUnknown(t) PROVE ObjectInv'
  BY <1>24 DEF FreeUnknown, HeapFree, Object
<1>25. ASSUME NEW t \in Threads, CrossThreadFree(t) PROVE ObjectInv'
  <2>1. /\ UNCHANGED <<freed, live, allocated, entries, registered>>
        /\ op'[t] = "none" /\ pc'[t] = "idle"
        /\ \A u \in Threads : u # t =>
             op'[u] = op[u] /\ pc'[u] = pc[u] /\ arg'[u] = arg[u] /\ owner'[u] = owner[u]
    BY <1>25 DEF CrossThreadFree
  <2>2. \A u \in Threads : op'[u] = "free" => op[u] = "free" /\ arg'[u] = arg[u]
    BY <2>1
  <2>3. \A u \in Threads : pc'[u] \in {"find", "route"} =>
          pc'[u] = pc[u] /\ arg'[u] = arg[u] /\ owner'[u] = owner[u]
    BY <2>1
  <2>4. QED
    BY <2>1, <2>2, <2>3
<1>26. ASSUME NEW t \in Threads, CrossThreadFreeRejected(t) PROVE ObjectInv'
  BY <1>26 DEF CrossThreadFreeRejected
<1>27. ASSUME NEW t \in Threads, GetSize(t) PROVE ObjectInv'
  BY <1>27 DEF GetSize
<1>28. ASSUME NEW t \in Threads, MallocCall(t) PROVE ObjectInv'
  BY <1>28 DEF MallocCall
<1>29. ASSUME NEW t \in Threads, NEW o \in Object, FreeCall(t, o) PROVE ObjectInv'
  BY <1>29 DEF FreeCall, Object, Regular
<1>30. ASSUME NEW t \in Threads, NEW o \in Object, GetSizeCall(t, o) PROVE ObjectInv'
  BY <1>30 DEF GetSizeCall, Object
<1>31. ASSUME NEW t \in Threads, Exit(t) PROVE ObjectInv'
  BY <1>31 DEF Exit
<1>32. CASE UNCHANGED vars
  BY <1>32 DEF vars, initVars, idVars, regVars, heapVars, callVars
<1>33. QED
  BY <1>1, <1>2, <1>3, <1>4, <1>5, <1>6, <1>7, <1>8, <1>9, <1>10, <1>11,
     <1>12, <1>13, <1>14, <1>15, <1>16, <1>17, <1>18, <1>19, <1>20, <1>21,
     <1>22, <1>23, <1>24, <1>25, <1>26, <1>27, <1>28, <1>29, <1>30, <1>31,
     <1>32 DEF Next, Step

\* An accepted cross-thread free is put into one queue, once.
LEMMA CrossQueued ==
  ASSUME TypeOK, NEW t \in Threads, CrossThreadFree(t),
         NEW o \in Object, o = arg[t], NEW j \in Ids, j = owner[t]
  PROVE  /\ Queued(j)' = Queued(j) \cup {o}
         /\ \A i \in Ids : i # j => Queued(i)' = Queued(i) /\ queues'[i] = queues[i]
         /\ o \notin Queued(j) /\ (\A k, l \in DOMAIN queues[j] :
                                       queues[j][k] = queues[j][l] => k = l)
              => \A k, l \in DOMAIN queues'[j] : queues'[j][k] = queues'[j][l] => k = l
<1>1. PICK q \in Seq(Object) : q = queues[j]
  BY DEF TypeOK
<1>2. /\ queues'[j] = Append(q, o)
      /\ \A i \in Ids : i # j => queues'[i] = queues[i]
  BY <1>1 DEF CrossThreadFree, TypeOK
<1>3. /\ DOMAIN Append(q, o) = 1 .. Len(q) + 1
      /\ \A k \in 1 .. Len(q) : Append(q, o)[k] = q[k]
      /\ Append(q, o)[Len(q) + 1] = o
      /\ DOMAIN q = 1 .. Len(q) /\ Len(q) \in Nat
  OBVIOUS
<1>4. 1 .. Len(q) + 1 = (1 .. Len(q)) \cup {Len(q) + 1}
  BY <1>3
<1>5. Queued(j)' = Queued(j) \cup {o}
  <2>1. Queued(j) = {q[k] : k \in 1 .. Len(q)}
    BY <1>1, <1>3 DEF Queued
  <2>2. Queued(j)' = {Append(q, o)[k] : k \in 1 .. Len(q) + 1}
    BY <1>2, <1>3 DEF Queued
  <2>3. QED
    BY <1>3, <1>4, <2>1, <2>2
<1>6. \A i \in Ids : i # j => Queued(i)' = Queued(i)
  BY <1>2 DEF Queued
<1>7. ASSUME o \notin Queued(j),
             \A k, l \in DOMAIN queues[j] : queues[j][k] = queues[j][l] => k = l
      PROVE  \A k, l \in DOMAIN queues'[j] : queues'[j][k] = queues'[j][l] => k = l
  <2>1. \A k \in 1 .. Len(q) : q[k] # o
    BY <1>1, <1>3, <1>7 DEF Queued
  <2>2. \A k, l \in 1 .. Len(q) : q[k] = q[l] => k = l
    BY <1>1, <1>3, <1>7
  <2>3. QED
    BY <1>2, <1>3, <1>4, <2>1, <2>2
<1>8. QED
  BY <1>2, <1>5, <1>6, <1>7

\* A step that queues nothing and frees only what is in flight keeps what the
\* queues hold.
LEMMA QueueQuiet ==
  ASSUME QueueInv, UNCHANGED <<queues, entries, id, registered>>,
         \A o \in allocated \ live : o \in allocated' \ live' \/ InFlight(o),
         \A u \in Threads : op'[u] = "free" => op[u] = "free" /\ arg'[u] = arg[u]
  PROVE  QueueInv'
<1>1. \A i \in Ids : Queued(i)' = Queued(i)
  BY DEF Queued
<1>2. QED
  BY <1>1 DEF QueueInv, InFlight

\* No step spoils what waits in a queue: it stays allocated, and nobody else
\* frees it.
LEMMA QueueStep ==
  ASSUME Regular, TypeOK, CallInv, IdInv, RegistryInv, ObjectInv, QueueInv,
         [Next]_vars
  PROVE  QueueInv'
<1> USE DEF QueueInv
<1> USE ScalableHeapAssumption DEF TypeOK, CallInv, IdInv, RegistryInv,
        ObjectInv, Ids, Goto, Return, Call, InMalloc, InFree,
      initVars, idVars, regVars, heapVars, callVars
<1>1. ASSUME NEW t \in Threads, HeapReady(t) PROVE QueueInv'
  BY <1>1, QueueQuiet DEF HeapReady
<1>2. ASSUME NEW t \in Threads, CreateHeap(t) PROVE QueueInv'
  <2>1. UNCHANGED <<queues, allocated, live, op, arg>>
    BY <1>2 DEF CreateHeap
  <2>2. \A i \in Ids : Queued(i)' = Queued(i)
    BY <2>1 DEF Queued
  <2>3. QED
    BY <1>2, <2>1, <2>2 DEF CreateHeap
<1>3. ASSUME NEW t \in Threads, CreateHeapFails(t) PROVE QueueInv'
  BY <1>3, QueueQuiet DEF CreateHeapFails
<1>4. ASSUME NEW t \in Threads, HeapSlow(t) PROVE QueueInv'
  BY <1>4, QueueQuiet DEF HeapSlow
<1>5. ASSUME NEW t \in Threads, InitLock(t) PROVE QueueInv'
  BY <1>5, QueueQuiet DEF InitLock
<1>6. ASSUME NEW t \in Threads, InitBusy(t) PROVE QueueInv'
  BY <1>6, QueueQuiet DEF InitBusy
<1>7. ASSUME NEW t \in Threads, SpinSees(t) PROVE QueueInv'
  BY <1>7, QueueQuiet DEF SpinSees
<1>8. ASSUME NEW t \in Threads, SpinGivesUp(t) PROVE QueueInv'
  BY <1>8, QueueQuiet DEF SpinGivesUp
<1>9. ASSUME NEW t \in Threads, InitAlready(t) PROVE QueueInv'
  BY <1>9, QueueQuiet DEF InitAlready
<1>10. ASSUME NEW t \in Threads, InitKey(t) PROVE QueueInv'
  BY <1>10, QueueQuiet DEF InitKey
<1>11. ASSUME NEW t \in Threads, InitKeyFails(t) PROVE QueueInv'
  BY <1>11, QueueQuiet DEF InitKeyFails
<1>12. ASSUME NEW t \in Threads, InitUnlock(t) PROVE QueueInv'
  BY <1>12, QueueQuiet DEF InitUnlock
<1>13. ASSUME NEW t \in Threads, FallbackMalloc(t) PROVE QueueInv'
  BY <1>13, QueueQuiet DEF FallbackMalloc, AllocateFrom
<1>14. ASSUME NEW t \in Threads, FallbackFree(t) PROVE QueueInv'
  BY <1>14, QueueQuiet DEF FallbackFree, HeapFree, InFlight
<1>15. ASSUME NEW t \in Threads, FallbackSize(t) PROVE QueueInv'
  BY <1>15, QueueQuiet DEF FallbackSize
<1>16. ASSUME NEW t \in Threads, Register(t) PROVE QueueInv'
  <2>1. UNCHANGED <<queues, allocated, live, op, arg>>
    BY <1>16 DEF Register
  <2>2. \A i \in Ids : Queued(i)' = Queued(i)
    BY <2>1 DEF Queued
  <2>3. QED
    BY <1>16, <2>1, <2>2 DEF Register
<1>17. ASSUME NEW t \in Threads, MallocCount(t) PROVE QueueInv'
  BY <1>17, QueueQuiet DEF MallocCount
<1>18. ASSUME NEW t \in Threads, Drain(t) PROVE QueueInv'
  <2>1. /\ allocated' = allocated \ Queued(id[t])
        /\ id[t] \in Ids
        /\ queues' = [queues EXCEPT ![id[t]] = << >>]
        /\ Queued(id[t])' = {}
        /\ \A i \in Ids : i # id[t] => Queued(i)' = Queued(i)
    BY <1>18, DrainEffect
  <2>2. UNCHANGED <<live, op, arg, entries, registered, id>>
    BY <1>18 DEF Drain
  <2>3. \A i \in Ids : i # id[t] => Queued(i) \cap Queued(id[t]) = {}
    BY <2>1
  <2>4. \A i \in Ids : \A k, l \in DOMAIN queues'[i] :
          queues'[i][k] = queues'[i][l] => k = l
    BY <2>1
  <2>5. ASSUME NEW i \in Ids PROVE Queued(i)' \subseteq Queued(i) \ Queued(id[t])
    <3>1. CASE i = id[t]
      BY <2>1, <2>2, <3>1
    <3>2. CASE i # id[t]
      BY <2>1, <2>3, <3>2
    <3>3. QED
      BY <3>1, <3>2
  <2>6. QED
    BY <2>1, <2>2, <2>4, <2>5
<1>19. ASSUME NEW t \in Threads, DrainNot(t) PROVE QueueInv'
  BY <1>19, QueueQuiet DEF DrainNot
<1>20. ASSUME NEW t \in Threads, Allocate(t) PROVE QueueInv'
  BY <1>20, QueueQuiet DEF Allocate, AllocateFrom
<1>21. ASSUME NEW t \in Threads, FreeOwn(t) PROVE QueueInv'
  BY <1>21, QueueQuiet DEF FreeOwn, HeapFree, InFlight
<1>22. ASSUME NEW t \in Threads, FreeSlow(t) PROVE QueueInv'
  BY <1>22, QueueQuiet DEF FreeSlow
<1>23. ASSUME NEW t \in Threads, FindOwner(t) PROVE QueueInv'
  BY <1>23, QueueQuiet DEF FindOwner
<1>24. ASSUME NEW t \in Threads, FreeUnknown(t) PROVE QueueInv'
  BY <1>24, QueueQuiet DEF FreeUnknown, HeapFree, InFlight
<1>25. ASSUME NEW t \in Threads, CrossThreadFree(t) PROVE QueueInv'
  <2>1. PICK o \in Object, j \in Ids : o = arg[t] /\ j = owner[t]
    BY <1>25 DEF CrossThreadFree
  <2>2. op[t] = "free" /\ o \in allocated \ live /\ entries[j] = o[1] /\ o[1] # None
    BY <1>25, <2>1 DEF CrossThreadFree, Object
  <2>3. o[1] \in registered /\ id[o[1]] = j
    BY <2>2
  <2>4. \A i \in Ids : o \notin Queued(i)
    BY <2>1, <2>2
  <2>5. /\ Queued(j)' = Queued(j) \cup {o}
        /\ \A i \in Ids : i # j => Queued(i)' = Queued(i)
        /\ \A i \in Ids : i # j => queues'[i] = queues[i]
        /\ \A k, l \in DOMAIN queues'[j] : queues'[j][k] = queues'[j][l] => k = l
    <3>1. \A k, l \in DOMAIN queues[j] : queues[j][k] = queues[j][l] => k = l
      OBVIOUS
    <3> HIDE DEF TypeOK, CallInv, IdInv, RegistryInv, ObjectInv, Ids
    <3>2. QED
      BY <1>25, <2>1, <2>4, <3>1, CrossQueued
  <2>6. /\ UNCHANGED <<entries, registered, id, allocated, live>>
        /\ \A u \in Threads : u # t => op'[u] = op[u] /\ arg'[u] = arg[u]
        /\ \A u \in Threads : op'[u] = "free" => op[u] = "free" /\ arg'[u] = arg[u]
        /\ op'[t] = "none"
    BY <1>25 DEF CrossThreadFree
  <2>7. ASSUME NEW u \in Threads, op'[u] = "free", arg'[u] = o PROVE FALSE
    <3>1. u # t
      BY <2>6, <2>7
    <3>2. op[u] = "free" /\ arg[u] = arg[t]
      BY <2>1, <2>6, <2>7, <3>1
    <3>3. QED
      BY <2>2, <3>1, <3>2
  <2>8. ASSUME NEW i \in Ids, NEW x \in Queued(i)'
        PROVE  /\ entries'[i] = x[1]
               /\ x[1] \in registered'
               /\ id'[x[1]] = i
               /\ x \in allocated' \ live'
               /\ \A u \in Threads : ~(op'[u] = "free" /\ arg'[u] = x)
    <3>1. CASE x = o
      <4>1. i = j
        BY <2>4, <2>5, <2>8, <3>1
      <4>2. QED
        BY <2>2, <2>3, <2>6, <2>7, <3>1, <4>1
    <3>2. CASE x # o
      <4> HIDE DEF TypeOK, CallInv, IdInv, RegistryInv, ObjectInv, QueueInv,
               Ids
      <4>1. x \in Queued(i)
        BY <2>5, <2>8, <3>2
      <4>2. QED
        BY <2>6, <4>1 DEF QueueInv
    <3>3. QED
      BY <3>1, <3>2
  <2>9. QED
    BY <2>5, <2>8
<1>26. ASSUME NEW t \in Threads, CrossThreadFreeRejected(t) PROVE QueueInv'
  BY <1>26, QueueQuiet DEF CrossThreadFreeRejected
<1>27. ASSUME NEW t \in Threads, GetSize(t) PROVE QueueInv'
  BY <1>27, QueueQuiet DEF GetSize
<1>28. ASSUME NEW t \in Threads, MallocCall(t) PROVE QueueInv'
  BY <1>28, QueueQuiet DEF MallocCall
<1>29. ASSUME NEW t \in Threads, NEW o \in Object, FreeCall(t, o) PROVE QueueInv'
  <2>1. /\ UNCHANGED <<queues, allocated, entries, id, registered>>
        /\ live' = live \ {o} /\ o \in live
        /\ op'[t] = "free" /\ arg'[t] = o
        /\ \A u \in Threads : u # t => op'[u] = op[u] /\ arg'[u] = arg[u]
    BY <1>29 DEF FreeCall
  <2>2. \A i \in Ids : Queued(i)' = Queued(i)
    BY <2>1 DEF Queued
  <2>3. \A i \in Ids : o \notin Queued(i)
    BY <2>1
  <2>4. \A u \in Threads : op'[u] = "free" => arg'[u] = o \/ (op[u] = "free" /\ arg'[u] = arg[u])
    BY <2>1
  <2>5. ASSUME NEW i \in Ids, NEW x \in Queued(i)'
        PROVE  /\ entries'[i] = x[1]
               /\ x[1] \in registered'
               /\ id'[x[1]] = i
               /\ x \in allocated' \ live'
               /\ \A u \in Threads : ~(op'[u] = "free" /\ arg'[u] = x)
    <3>1. x \in Queued(i) /\ x # o
      BY <2>2, <2>3, <2>5
    <3>2. QED
      BY <2>1, <2>4, <3>1
  <2>6. QED
    BY <2>1, <2>5
<1>30. ASSUME NEW t \in Threads, NEW o \in Object, GetSizeCall(t, o) PROVE QueueInv'
  BY <1>30, QueueQuiet DEF GetSizeCall
<1>31. ASSUME NEW t \in Threads, Exit(t) PROVE QueueInv'
  BY <1>31, QueueQuiet DEF Exit
<1>32. CASE UNCHANGED vars
  BY <1>32, QueueQuiet DEF vars, initVars, idVars, regVars, heapVars, callVars
<1>33. QED
  BY <1>1, <1>2, <1>3, <1>4, <1>5, <1>6, <1>7, <1>8, <1>9, <1>10, <1>11,
     <1>12, <1>13, <1>14, <1>15, <1>16, <1>17, <1>18, <1>19, <1>20, <1>21,
     <1>22, <1>23, <1>24, <1>25, <1>26, <1>27, <1>28, <1>29, <1>30, <1>31,
     <1>32 DEF Next, Step

\* A step that gives up no object, performs no free and takes nothing from a
\* queue loses no free.
LEMMA LeakQuiet ==
  ASSUME NoSilentLeak,
         allocated' \ live' \subseteq allocated \ live,
         dropped' = dropped, queues' = queues,
         \A u \in Threads : op[u] = "free" => op'[u] = "free" /\ arg'[u] = arg[u]
  PROVE  NoSilentLeak'
<1>1. \A o : InFlight(o) => InFlight(o)'
  BY DEF InFlight
<1>2. \A o : \A i \in Ids : o \in Queued(i) => o \in Queued(i)'
  BY DEF Queued
<1>3. QED
  BY <1>1, <1>2 DEF NoSilentLeak, Pending

\* The free of one object moves on, to the owner's queue, to its end, or to
\* where it is given up, and the others stay where they are.
LEMMA LeakMoves ==
  ASSUME NoSilentLeak, NEW o,
         allocated' \ live' \subseteq (allocated \ live) \cup {o},
         dropped \subseteq dropped',
         \A x : x # o /\ InFlight(x) => InFlight(x)',
         \A x \in allocated' \ live' : \A i \in Ids : x \in Queued(i) => x \in Queued(i)',
         o \in allocated' \ live' =>
           o[1] = Fallback \/ o \in dropped' \/ InFlight(o)' \/ \E i \in Ids : o \in Queued(i)'
  PROVE  NoSilentLeak'
<1>1. SUFFICES ASSUME NEW x \in allocated' \ live'
               PROVE  x[1] = Fallback \/ x \in dropped' \/ Pending(x)'
  BY DEF NoSilentLeak
<1>2. CASE x = o
  BY <1>2 DEF Pending
<1>3. CASE x # o
  <2>1. x[1] = Fallback \/ x \in dropped \/ Pending(x)
    BY <1>3 DEF NoSilentLeak
  <2>2. QED
    BY <1>3, <2>1 DEF Pending
<1>4. QED
  BY <1>2, <1>3

\* No step loses a free that is on its way.
LEMMA LeakStep ==
  ASSUME Regular, TypeOK, CallInv, IdInv, RegistryInv, ObjectInv, QueueInv,
         NoSilentLeak, [Next]_vars
  PROVE  NoSilentLeak'
<1> USE ScalableHeapAssumption DEF TypeOK, CallInv, IdInv, RegistryInv,
        ObjectInv, Ids, Goto, Return, Call, InMalloc, InFree,
      initVars, idVars, regVars, heapVars, callVars
<1>1. ASSUME NEW t \in Threads, HeapReady(t) PROVE NoSilentLeak'
  BY <1>1, LeakQuiet DEF HeapReady
<1>2. ASSUME NEW t \in Threads, CreateHeap(t) PROVE NoSilentLeak'
  BY <1>2, LeakQuiet DEF CreateHeap
<1>3. ASSUME NEW t \in Threads, CreateHeapFails(t) PROVE NoSilentLeak'
  BY <1>3, LeakQuiet DEF CreateHeapFails
<1>4. ASSUME NEW t \in Threads, HeapSlow(t) PROVE NoSilentLeak'
  BY <1>4, LeakQuiet DEF HeapSlow
<1>5. ASSUME NEW t \in Threads, InitLock(t) PROVE NoSilentLeak'
  BY <1>5, LeakQuiet DEF InitLock
<1>6. ASSUME NEW t \in Threads, InitBusy(t) PROVE NoSilentLeak'
  BY <1>6, LeakQuiet DEF InitBusy
<1>7. ASSUME NEW t \in Threads, SpinSees(t) PROVE NoSilentLeak'
  BY <1>7, LeakQuiet DEF SpinSees
<1>8. ASSUME NEW t \in Threads, SpinGivesUp(t) PROVE NoSilentLeak'
  BY <1>8, LeakQuiet DEF SpinGivesUp
<1>9. ASSUME NEW t \in Threads, InitAlready(t) PROVE NoSilentLeak'
  BY <1>9, LeakQuiet DEF InitAlready
<1>10. ASSUME NEW t \in Threads, InitKey(t) PROVE NoSilentLeak'
  BY <1>10, LeakQuiet DEF InitKey
<1>11. ASSUME NEW t \in Threads, InitKeyFails(t) PROVE NoSilentLeak'
  BY <1>11, LeakQuiet DEF InitKeyFails
<1>12. ASSUME NEW t \in Threads, InitUnlock(t) PROVE NoSilentLeak'
  BY <1>12, LeakQuiet DEF InitUnlock
<1>13. ASSUME NEW t \in Threads, FallbackMalloc(t) PROVE NoSilentLeak'
  BY <1>13, LeakQuiet DEF FallbackMalloc, AllocateFrom
<1>14. ASSUME NEW t \in Threads, FallbackFree(t) PROVE NoSilentLeak'
  <2>1. PICK o \in Object : o = arg[t]
    BY <1>14 DEF FallbackFree
  <2>2. /\ allocated' \ live' \subseteq allocated \ live
        /\ dropped \subseteq dropped' /\ queues' = queues
        /\ \A u \in Threads : u # t => op'[u] = op[u] /\ arg'[u] = arg[u]
    BY <1>14 DEF FallbackFree, HeapFree
  <2>3. \A x : x # o /\ InFlight(x) => InFlight(x)'
    BY <2>1, <2>2 DEF InFlight
  <2>4. \A x : \A i \in Ids : x \in Queued(i) => x \in Queued(i)'
    BY <2>2 DEF Queued
  <2>5. o[1] = Fallback \/ o \in dropped'
    BY <1>14, <2>1 DEF FallbackFree
  <2>6. QED
    <3> HIDE DEF TypeOK, CallInv, IdInv, RegistryInv, ObjectInv, Ids
    <3>1. QED
      BY <2>2, <2>3, <2>4, <2>5, LeakMoves
<1>15. ASSUME NEW t \in Threads, FallbackSize(t) PROVE NoSilentLeak'
  BY <1>15, LeakQuiet DEF FallbackSize
<1>16. ASSUME NEW t \in Threads, Register(t) PROVE NoSilentLeak'
  BY <1>16, LeakQuiet DEF Register
<1>17. ASSUME NEW t \in Threads, MallocCount(t) PROVE NoSilentLeak'
  BY <1>17, LeakQuiet DEF MallocCount
<1>18. ASSUME NEW t \in Threads, Drain(t) PROVE NoSilentLeak'
  <2>1. /\ allocated' = allocated \ Queued(id[t])
        /\ id[t] \in Ids
        /\ \A i \in Ids : i # id[t] => Queued(i)' = Queued(i)
    BY <1>18, DrainEffect
  <2>2. UNCHANGED <<live, dropped, op, arg>>
    BY <1>18 DEF Drain
  <2>3. ASSUME NEW o \in allocated' \ live' PROVE o \in allocated \ live /\ o \notin Queued(id[t])
    BY <2>1, <2>2
  <2>4. \A o : InFlight(o) <=> InFlight(o)'
    BY <2>2 DEF InFlight
  <2>5. QED
    BY <2>1, <2>2, <2>3, <2>4 DEF NoSilentLeak, Pending
<1>19. ASSUME NEW t \in Threads, DrainNot(t) PROVE NoSilentLeak'
  BY <1>19, LeakQuiet DEF DrainNot
<1>20. ASSUME NEW t \in Threads, Allocate(t) PROVE NoSilentLeak'
  BY <1>20, LeakQuiet DEF Allocate, AllocateFrom
<1>21. ASSUME NEW t \in Threads, FreeOwn(t) PROVE NoSilentLeak'
  <2>1. PICK o \in Object : o = arg[t]
    BY <1>21 DEF FreeOwn
  <2>2. /\ allocated' \ live' \subseteq allocated \ live
        /\ dropped \subseteq dropped' /\ queues' = queues
        /\ \A u \in Threads : u # t => op'[u] = op[u] /\ arg'[u] = arg[u]
    BY <1>21 DEF FreeOwn, HeapFree
  <2>3. \A x : x # o /\ InFlight(x) => InFlight(x)'
    BY <2>1, <2>2 DEF InFlight
  <2>4. \A x : \A i \in Ids : x \in Queued(i) => x \in Queued(i)'
    BY <2>2 DEF Queued
  <2>5. o \notin allocated'
    BY <1>21, <2>1 DEF FreeOwn, HeapFree
  <2>6. QED
    <3> HIDE DEF TypeOK, CallInv, IdInv, RegistryInv, ObjectInv, Ids
    <3>1. QED
      BY <2>2, <2>3, <2>4, <2>5, LeakMoves
<1>22. ASSUME NEW t \in Threads, FreeSlow(t) PROVE NoSilentLeak'
  BY <1>22, LeakQuiet DEF FreeSlow
<1>23. ASSUME NEW t \in Threads, FindOwner(t) PROVE NoSilentLeak'
  BY <1>23, LeakQuiet DEF FindOwner
<1>24. ASSUME NEW t \in Threads, FreeUnknown(t) PROVE NoSilentLeak'
  <2>1. PICK o \in Object : o = arg[t]
    BY <1>24 DEF FreeUnknown
  <2>2. /\ allocated' \ live' \subseteq allocated \ live
        /\ dropped \subseteq dropped' /\ queues' = queues
        /\ \A u \in Threads : u # t => op'[u] = op[u] /\ arg'[u] = arg[u]
    BY <1>24 DEF FreeUnknown, HeapFree
  <2>3. \A x : x # o /\ InFlight(x) => InFlight(x)'
    BY <2>1, <2>2 DEF InFlight
  <2>4. \A x : \A i \in Ids : x \in Queued(i) => x \in Queued(i)'
    BY <2>2 DEF Queued
  <2>5. o[1] = Fallback
    BY <1>24, <2>1 DEF FreeUnknown
  <2>6. QED
    <3> HIDE DEF TypeOK, CallInv, IdInv, RegistryInv, ObjectInv, Ids
    <3>1. QED
      BY <2>2, <2>3, <2>4, <2>5, LeakMoves
<1>25. ASSUME NEW t \in Threads, CrossThreadFree(t) PROVE NoSilentLeak'
  <2>1. PICK o \in Object, j \in Ids : o = arg[t] /\ j = owner[t]
    BY <1>25 DEF CrossThreadFree
  <2>2. o \in Queued(j)' /\ \A i \in Ids : Queued(i) \subseteq Queued(i)'
    <3> HIDE DEF TypeOK, CallInv, IdInv, RegistryInv, ObjectInv, Ids
    <3>1. /\ Queued(j)' = Queued(j) \cup {o}
          /\ \A i \in Ids : i # j => Queued(i)' = Queued(i)
      BY <1>25, <2>1, CrossQueued
    <3>2. QED
      BY <3>1
  <2>3. \A x : x # o /\ InFlight(x) => InFlight(x)'
    BY <1>25, <2>1 DEF CrossThreadFree, InFlight
  <2>4. UNCHANGED <<allocated, live, dropped>>
    BY <1>25 DEF CrossThreadFree
  <2>5. QED
    <3> HIDE DEF TypeOK, CallInv, IdInv, RegistryInv, ObjectInv, Ids
    <3>1. QED
      BY <2>2, <2>3, <2>4, LeakMoves
<1>26. ASSUME NEW t \in Threads, CrossThreadFreeRejected(t) PROVE NoSilentLeak'
  <2>1. PICK o \in Object : o = arg[t]
    BY <1>26 DEF CrossThreadFreeRejected
  <2>2. /\ allocated' \ live' \subseteq allocated \ live
        /\ dropped \subseteq dropped' /\ queues' = queues
        /\ \A u \in Threads : u # t => op'[u] = op[u] /\ arg'[u] = arg[u]
    BY <1>26 DEF CrossThreadFreeRejected
  <2>3. \A x : x # o /\ InFlight(x) => InFlight(x)'
    BY <2>1, <2>2 DEF InFlight
  <2>4. \A x : \A i \in Ids : x \in Queued(i) => x \in Queued(i)'
    BY <2>2 DEF Queued
  <2>5. o \in dropped'
    BY <1>26, <2>1 DEF CrossThreadFreeRejected
  <2>6. QED
    <3> HIDE DEF TypeOK, CallInv, IdInv, RegistryInv, ObjectInv, Ids
    <3>1. QED
      BY <2>2, <2>3, <2>4, <2>5, LeakMoves
<1>27. ASSUME NEW t \in Threads, GetSize(t) PROVE NoSilentLeak'
  BY <1>27, LeakQuiet DEF GetSize
<1>28. ASSUME NEW t \in Threads, MallocCall(t) PROVE NoSilentLeak'
  BY <1>28, LeakQuiet DEF MallocCall
<1>29. ASSUME NEW t \in Threads, NEW o \in Object, FreeCall(t, o) PROVE NoSilentLeak'
  <2>1. /\ allocated' \ live' \subseteq (allocated \ live) \cup {o}
        /\ UNCHANGED <<dropped, queues>>
        /\ op'[t] = "free" /\ arg'[t] = o /\ op[t] = "none"
        /\ \A u \in Threads : u # t => op'[u] = op[u] /\ arg'[u] = arg[u]
    BY <1>29 DEF FreeCall
  <2>2. InFlight(o)' /\ \A x : InFlight(x) => InFlight(x)'
    BY <2>1 DEF InFlight
  <2>3. \A x : \A i \in Ids : x \in Queued(i) => x \in Queued(i)'
    BY <2>1 DEF Queued
  <2>4. QED
    BY <2>1, <2>2, <2>3, LeakMoves
<1>30. ASSUME NEW t \in Threads, NEW o \in Object, GetSizeCall(t, o) PROVE NoSilentLeak'
  BY <1>30, LeakQuiet DEF GetSizeCall
<1>31. ASSUME NEW t \in Threads, Exit(t) PROVE NoSilentLeak'
  BY <1>31, LeakQuiet DEF Exit
<1>32. CASE UNCHANGED vars
  BY <1>32, LeakQuiet DEF vars, initVars, idVars, regVars, heapVars, callVars
<1>33. QED
  BY <1>1, <1>2, <1>3, <1>4, <1>5, <1>6, <1>7, <1>8, <1>9, <1>10, <1>11,
     <1>12, <1>13, <1>14, <1>15, <1>16, <1>17, <1>18, <1>19, <1>20, <1>21,
     <1>22, <1>23, <1>24, <1>25, <1>26, <1>27, <1>28, <1>29, <1>30, <1>31,
     <1>32 DEF Next, Step

-----------------------------------------------------------------------------

\* The first state satisfies the inductive invariant.
LEMMA InitIInv == ASSUME Regular, Init PROVE IInv
<1> USE ScalableHeapAssumption DEF Init
<1>1. TypeOK
  BY DEF TypeOK, Ids
<1>2. CallInv
  BY DEF CallInv, InMalloc, InFree
<1>3. IdInv
  BY FS_EmptySet DEF IdInv
<1>4. RegistryInv /\ ObjectInv /\ NoSilentLeak
  BY DEF RegistryInv, ObjectInv, NoSilentLeak, Ids
<1>5. \A i \in Ids : DOMAIN queues[i] = {}
  OBVIOUS
<1>6. QueueInv
  BY <1>5 DEF QueueInv, Queued
<1>7. QED
  BY <1>1, <1>2, <1>3, <1>4, <1>6 DEF IInv

\* Every step preserves it.
LEMMA NextIInv == ASSUME Regular, IInv, [Next]_vars PROVE IInv'
<1> USE DEF IInv
<1>1. TypeOK' /\ CallInv' /\ IdInv' /\ RegistryInv'
  BY TypeStep, CallStep, IdStep, RegistryStep
<1>2. ObjectInv' /\ QueueInv' /\ NoSilentLeak'
  BY ObjectStep, QueueStep, LeakStep
<1>3. QED
  BY <1>1, <1>2

\* The inductive invariant holds in every reachable state: the ids, the
\* registry, the queues and the bits of the heaps agree at every step of the
\* layers above the heaps.
THEOREM Invariant ==
  ASSUME Regular
  PROVE  Spec => []IInv
<1>1. Init => IInv
  BY InitIInv
<1>2. IInv /\ [Next]_vars => IInv'
  BY NextIInv
<1>3. QED
  BY <1>1, <1>2, PTL DEF Spec

\* No free, on whatever path it takes to the heap of the object, releases an
\* object the program holds.
THEOREM LiveStaysAllocatedAlways ==
  ASSUME Regular
  PROVE  Spec => []LiveStaysAllocated
<1>1. IInv => LiveStaysAllocated
  BY DEF IInv, ObjectInv, LiveStaysAllocated
<1>2. QED
  BY <1>1, Invariant, PTL

\* A free whose object is neither dropped by a full queue nor given to a
\* thread without a heap is never lost: findOwner finds every owner.
THEOREM NoSilentLeakAlways ==
  ASSUME Regular
  PROVE  Spec => []NoSilentLeak
<1>1. IInv => NoSilentLeak
  BY DEF IInv
<1>2. QED
  BY <1>1, Invariant, PTL

\* The frees that wait in a queue can be performed by its owner, and none is
\* queued twice.
THEOREM PendingSoundAlways ==
  ASSUME Regular
  PROVE  Spec => []PendingSound
<1>1. ASSUME IInv PROVE PendingSound
  <2>1. TypeOK /\ QueueInv
    BY <1>1 DEF IInv
  <2>2. \A i \in Ids : \A k \in DOMAIN queues[i] : queues[i][k] \in Queued(i)
    BY DEF Queued
  <2>3. QED
    BY <2>1, <2>2 DEF QueueInv, PendingSound, InFlight
<1>2. QED
  BY <1>1, Invariant, PTL

\* Whatever threads race into tryInitialize, with or without a failure, the
\* TLS key is created once.  No side condition is needed.
THEOREM OneKeyAlways == Spec => []OneKey
<1> DEFINE Keys == keys \in Nat /\ initialized \in BOOLEAN /\ OneKey
<1>1. ASSUME Init PROVE Keys
  <2>1. initialized = FALSE /\ keys = 0
    BY <1>1 DEF Init
  <2>2. ~initialized
    BY <2>1
  <2>3. keys \in Nat /\ keys <= 1 /\ keys # 1
    BY <2>1
  <2>4. QED
    BY <2>1, <2>2, <2>3 DEF OneKey
<1>2. ASSUME Keys, [Next]_vars PROVE Keys'
  <2> USE DEF OneKey, initVars, Call, Goto, Return
  <2>1. ASSUME NEW t \in Threads, InitKey(t) PROVE Keys'
    BY <1>2, <2>1 DEF InitKey
  <2>2. ASSUME UNCHANGED <<initialized, keys>> PROVE Keys'
    BY <1>2, <2>2
  <2>3. ASSUME NEW t \in Threads, Step(t), ~InitKey(t) PROVE UNCHANGED <<initialized, keys>>
    BY <2>3 DEF Step, HeapReady, CreateHeap, CreateHeapFails, HeapSlow,
         InitLock, InitBusy, SpinSees, SpinGivesUp, InitAlready, InitKeyFails,
         InitUnlock, FallbackMalloc, FallbackFree, FallbackSize, Register,
         MallocCount, Drain, DrainNot, Allocate, FreeOwn, FreeSlow, FindOwner,
         FreeUnknown, CrossThreadFree, CrossThreadFreeRejected, GetSize
  <2>4. ASSUME NEW t \in Threads,
               \/ MallocCall(t) \/ Exit(t)
               \/ \E o \in Object : FreeCall(t, o) \/ GetSizeCall(t, o)
        PROVE  UNCHANGED <<initialized, keys>>
    BY <2>4 DEF MallocCall, FreeCall, GetSizeCall, Exit
  <2>5. CASE UNCHANGED vars
    BY <2>2, <2>5 DEF vars
  <2>6. QED
    BY <1>2, <2>1, <2>2, <2>3, <2>4, <2>5 DEF Next
<1>3. QED
  BY <1>1, <1>2, PTL DEF Spec
=============================================================================
