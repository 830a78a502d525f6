----------------------------- MODULE RandomHeap -----------------------------
(***************************************************************************)
(* RandomHeap (randomheap.h) with its miniheaps (randomminiheap-core.h,    *)
(* randomminiheap-diehard.h): the heap of one size class.  Objects live in *)
(* miniheaps that double in size; malloc probes random slots of a bitmap   *)
(* and activates another miniheap when the heap is Den/Num full.           *)
(*                                                                         *)
(* One action per access to shared memory.  The compare-and-swap loops of  *)
(* AtomicBitMap::tryToSet and reset are one action each.  A pointer is     *)
(* the pair <<miniheap, index>> that inBounds and computeIndex find for    *)
(* it.  In the shipped allocator a heap has one mutator, its owner (or the *)
(* holder of the heap lock); the class itself is written for several.      *)
(***************************************************************************)
EXTENDS HeapMath, FiniteSets

CONSTANTS
  Threads,        \* the threads that call malloc and free
  MinObjects,     \* MIN_OBJECTS
  MaxMiniHeaps,   \* MAX_MINIHEAPS
  Numerator, Denominator,
  MaxLive,        \* bound: objects the program holds at once
  DoubleFrees     \* whether the program also frees what it does not hold

ASSUME RandomHeapAssumption ==
  /\ MinObjects \in Nat \ {0}
  /\ MaxMiniHeaps \in Nat \ {0}
  /\ Denominator \in Nat \ {0}
  /\ Numerator \in Nat /\ Numerator >= Denominator   \* a static_assert
  /\ MaxLive \in Nat
  /\ DoubleFrees \in BOOLEAN

VARIABLES
  available,      \* _available
  inUse,          \* _inUse
  miniHeapsInUse, \* _miniHeapsInUse
  chunksInUse,    \* _chunksInUse
  growLock,       \* _growLock
  cached,         \* _cachedMiniHeap
  activated,      \* the miniheaps with memory and a bitmap
  bits,           \* the objects whose bit is set
  pc,             \* where each thread is
  site,           \* which of the four load-factor tests it is running
  seen,           \* its local inUse, or in free its local numHeaps
  sel,            \* the miniheap getObject selected, or free's local cached
  arg,            \* the object malloc returns or free is given
  live            \* the objects the program holds

shared == <<available, inUse, miniHeapsInUse, chunksInUse, growLock, cached,
            activated, bits>>
locals == <<pc, site, seen, sel, arg>>
vars == <<shared, locals, live>>

MiniHeap == 0 .. MaxMiniHeaps - 1
Objects(i) == {i} \X (0 .. MiniHeapObjects(MinObjects, i) - 1)
Object == UNION {Objects(i) : i \in MiniHeap}
NoObject == <<-1, -1>>

\* The values of the random number masked with _chunksInUse.
Masked == 0 .. 2 ^ (MaxMiniHeaps - 1) - 1

\* The constructor.
Init ==
  /\ available = 0
  /\ inUse = 0
  /\ miniHeapsInUse = 0
  /\ chunksInUse = 0
  /\ growLock = FALSE
  /\ cached = -1
  /\ activated = {}
  /\ bits = {}
  /\ pc = [t \in Threads |-> "idle"]
  /\ site = [t \in Threads |-> "fast"]
  /\ seen = [t \in Threads |-> 0]
  /\ sel = [t \in Threads |-> 0]
  /\ arg = [t \in Threads |-> NoObject]
  /\ live = {}

Goto(t, label) == pc' = [pc EXCEPT ![t] = label]
At(t, s, label) ==
  /\ site' = [site EXCEPT ![t] = s]
  /\ Goto(t, label)
Return(t) ==
  /\ At(t, "fast", "idle")
  /\ seen' = [seen EXCEPT ![t] = 0]
  /\ sel' = [sel EXCEPT ![t] = 0]
  /\ arg' = [arg EXCEPT ![t] = NoObject]

\* The objects a thread has taken for the program or from it.
Held == live \cup {arg[t] : t \in {u \in Threads : pc[u] = "count"}}

-----------------------------------------------------------------------------
(* malloc(sz) and its load-factor tests *)

MallocCall(t) ==
  /\ pc[t] = "idle"
  /\ Cardinality(live) + Cardinality({u \in Threads : pc[u] # "idle"}) < MaxLive
  /\ At(t, "fast", "inUse")
  /\ UNCHANGED <<shared, seen, sel, arg, live>>

LoadInUse(t) ==
  /\ pc[t] = "inUse"
  /\ seen' = [seen EXCEPT ![t] = inUse]
  /\ Goto(t, "available")
  /\ UNCHANGED <<shared, site, sel, arg, live>>

\* Variant of Full: half as strict.
FullTooLate(u) == Numerator * u >= 2 * available * Denominator

\* Numerator * inUse >= available * Denominator
Full(u) == Numerator * u >= available * Denominator

\* The heap is too full: malloc enters growHeapIfNeeded, its loop calls
\* getAnotherMiniHeap, a waiter tries the lock again, and the lock's holder
\* activates a miniheap if there is one left.
LoadAvailableFull(t) ==
  /\ pc[t] = "available"
  /\ Full(seen[t])
  /\ \/ site[t] = "fast" /\ At(t, "grow", "inUse")
     \/ site[t] = "grow" /\ At(t, "grow", "lock")
     \/ site[t] = "wait" /\ At(t, "wait", "lock")
     \/ /\ site[t] = "locked"
        /\ At(t, "locked", IF miniHeapsInUse < MaxMiniHeaps
                             THEN "activate" ELSE "unlock")
  /\ UNCHANGED <<shared, seen, sel, arg, live>>

\* It is not: malloc and growHeapIfNeeded go on to getObject, a waiter
\* returns to the loop, the lock's holder releases it.
LoadAvailableRoom(t) ==
  /\ pc[t] = "available"
  /\ ~Full(seen[t])
  /\ \/ site[t] \in {"fast", "grow"} /\ At(t, "fast", "get")
     \/ site[t] = "wait" /\ At(t, "grow", "inUse")
     \/ site[t] = "locked" /\ At(t, "locked", "unlock")
  /\ UNCHANGED <<shared, seen, sel, arg, live>>

-----------------------------------------------------------------------------
(* getAnotherMiniHeap *)

\* The compare-and-swap of _growLock succeeds.
Lock(t) ==
  /\ pc[t] = "lock"
  /\ ~growLock
  /\ growLock' = TRUE
  /\ At(t, "locked", "inUse")
  /\ UNCHANGED <<available, inUse, miniHeapsInUse, chunksInUse, cached,
                 activated, bits, seen, sel, arg, live>>

\* It fails: the first time the thread spins, the second time it returns.
LockFails(t) ==
  /\ pc[t] = "lock"
  /\ growLock
  /\ IF site[t] = "grow" THEN At(t, "wait", "spin") ELSE At(t, "grow", "inUse")
  /\ UNCHANGED <<shared, seen, sel, arg, live>>

\* The spinning thread sees the lock released.
SpinEnds(t) ==
  /\ pc[t] = "spin"
  /\ ~growLock
  /\ Goto(t, "inUse")
  /\ UNCHANGED <<shared, site, seen, sel, arg, live>>

\* activate() of the next miniheap, then the stores of _available and
\* _chunksInUse and, after the fence, of _miniHeapsInUse.  The first two are
\* relaxed; they are modelled in program order.
Activate(t) ==
  /\ pc[t] = "activate"
  /\ activated' = activated \cup {miniHeapsInUse}
  /\ Goto(t, "storeAvailable")
  /\ UNCHANGED <<available, inUse, miniHeapsInUse, chunksInUse, growLock,
                 cached, bits, site, seen, sel, arg, live>>

\* Variant of StoreAvailable: the shift is one too large.
StoreAvailableDoubled(t) ==
  /\ pc[t] = "storeAvailable"
  /\ available' = available + MinObjects * 2 ^ miniHeapsInUse
  /\ Goto(t, "storeChunks")
  /\ UNCHANGED <<inUse, miniHeapsInUse, chunksInUse, growLock, cached,
                 activated, bits, site, seen, sel, arg, live>>

StoreAvailable(t) ==
  /\ pc[t] = "storeAvailable"
  /\ available' = available + MiniHeapObjects(MinObjects, miniHeapsInUse)
  /\ Goto(t, "storeChunks")
  /\ UNCHANGED <<inUse, miniHeapsInUse, chunksInUse, growLock, cached,
                 activated, bits, site, seen, sel, arg, live>>

StoreChunks(t) ==
  /\ pc[t] = "storeChunks"
  /\ chunksInUse' = 2 ^ miniHeapsInUse - 1
  /\ Goto(t, "storeHeaps")
  /\ UNCHANGED <<available, inUse, miniHeapsInUse, growLock, cached,
                 activated, bits, site, seen, sel, arg, live>>

\* Variant of StoreMiniHeapsInUse: the store is forgotten.
StoreMiniHeapsInUseSkipped(t) ==
  /\ pc[t] = "storeHeaps"
  /\ Goto(t, "unlock")
  /\ UNCHANGED <<shared, site, seen, sel, arg, live>>

StoreMiniHeapsInUse(t) ==
  /\ pc[t] = "storeHeaps"
  /\ miniHeapsInUse' = miniHeapsInUse + 1
  /\ Goto(t, "unlock")
  /\ UNCHANGED <<available, inUse, chunksInUse, growLock, cached, activated,
                 bits, site, seen, sel, arg, live>>

\* The lock is released and growHeapIfNeeded tests again.
Unlock(t) ==
  /\ pc[t] = "unlock"
  /\ growLock' = FALSE
  /\ At(t, "grow", "inUse")
  /\ UNCHANGED <<available, inUse, miniHeapsInUse, chunksInUse, cached,
                 activated, bits, seen, sel, arg, live>>

-----------------------------------------------------------------------------
(* getObject: a random miniheap, then a random slot of it *)

\* Loads _chunksInUse and masks the random number with it.
SelectHeap(t, v) ==
  /\ pc[t] = "get"
  /\ v <= chunksInUse
  /\ sel' = [sel EXCEPT ![t] = SelectMiniHeap(v)]
  /\ Goto(t, "try")
  /\ UNCHANGED <<shared, site, seen, arg, live>>

\* Variant of TrySlot: the bit is set without looking at it.
TrySlotUnchecked(t, j) ==
  /\ pc[t] = "try"
  /\ bits' = bits \cup {<<sel[t], j>>}
  /\ arg' = [arg EXCEPT ![t] = <<sel[t], j>>]
  /\ Goto(t, "count")
  /\ UNCHANGED <<available, inUse, miniHeapsInUse, chunksInUse,
                 growLock, cached, activated, site, seen, sel, live>>

\* The miniheap's malloc: tryToSet sets the bit of a random index.
TrySlot(t, j) ==
  /\ pc[t] = "try"
  /\ <<sel[t], j>> \notin bits
  /\ bits' = bits \cup {<<sel[t], j>>}
  /\ arg' = [arg EXCEPT ![t] = <<sel[t], j>>]
  /\ Goto(t, "count")
  /\ UNCHANGED <<available, inUse, miniHeapsInUse, chunksInUse, growLock,
                 cached, activated, site, seen, sel, live>>

\* Variant of TrySlotFails: the retry probes the same miniheap again.
TrySlotFailsSameHeap(t, j) ==
  /\ pc[t] = "try"
  /\ <<sel[t], j>> \in bits
  /\ UNCHANGED vars

\* The bit was set: nullptr, and malloc tries getObject again.
TrySlotFails(t, j) ==
  /\ pc[t] = "try"
  /\ <<sel[t], j>> \in bits
  /\ Goto(t, "get")
  /\ UNCHANGED <<shared, site, seen, sel, arg, live>>

Probe(t) ==
  /\ pc[t] = "try"
  /\ \E j \in 0 .. MiniHeapObjects(MinObjects, sel[t]) - 1 :
       TrySlot(t, j) \/ TrySlotFails(t, j)

\* _inUse.fetch_add, and malloc returns the object.
CountUp(t) ==
  /\ pc[t] = "count"
  /\ inUse' = inUse + 1
  /\ live' = live \cup {arg[t]}
  /\ Return(t)
  /\ UNCHANGED <<available, miniHeapsInUse, chunksInUse, growLock, cached,
                 activated, bits>>

-----------------------------------------------------------------------------
(* free(ptr) *)

\* The program gives up an object, or frees one it does not hold.  free
\* loads _cachedMiniHeap and _miniHeapsInUse.
FreeCall(t, o) ==
  /\ pc[t] = "idle"
  /\ o \in live \/ (DoubleFrees /\ o \notin Held)
  /\ live' = live \ {o}
  /\ arg' = [arg EXCEPT ![t] = o]
  /\ sel' = [sel EXCEPT ![t] = cached]
  /\ seen' = [seen EXCEPT ![t] = miniHeapsInUse]
  /\ Goto(t, "freeCached")
  /\ UNCHANGED <<shared, site>>

\* The miniheap's free: in bounds, and reset found the bit set.
Frees(o, i) == o[1] = i /\ o \in bits

\* The cached miniheap is tried first.
FreeCached(t) ==
  /\ pc[t] = "freeCached"
  /\ IF 0 <= sel[t] /\ sel[t] < seen[t] /\ Frees(arg[t], sel[t])
       THEN bits' = bits \ {arg[t]} /\ Goto(t, "uncount")
       ELSE bits' = bits /\ Goto(t, "freeSearch")
  /\ UNCHANGED <<available, inUse, miniHeapsInUse, chunksInUse, growLock,
                 cached, activated, site, seen, sel, arg, live>>

\* Then the others, and the one that had the object becomes the cached one.
FreeSearch(t, i) ==
  /\ pc[t] = "freeSearch"
  /\ i < seen[t] /\ i # sel[t]
  /\ Frees(arg[t], i)
  /\ bits' = bits \ {arg[t]}
  /\ cached' = i
  /\ Goto(t, "uncount")
  /\ UNCHANGED <<available, inUse, miniHeapsInUse, chunksInUse, growLock,
                 activated, site, seen, sel, arg, live>>

\* None had it: free returns false.
FreeNotFound(t) ==
  /\ pc[t] = "freeSearch"
  /\ \A i \in 0 .. seen[t] - 1 : i # sel[t] => ~Frees(arg[t], i)
  /\ Return(t)
  /\ UNCHANGED <<shared, live>>

\* _inUse.fetch_sub, and free returns true.
CountDown(t) ==
  /\ pc[t] = "uncount"
  /\ inUse' = inUse - 1
  /\ Return(t)
  /\ UNCHANGED <<available, miniHeapsInUse, chunksInUse, growLock, cached,
                 activated, bits, live>>

-----------------------------------------------------------------------------

Grow(t) ==
  \/ Lock(t) \/ LockFails(t) \/ SpinEnds(t)
  \/ Activate(t) \/ StoreAvailable(t) \/ StoreChunks(t)
  \/ StoreMiniHeapsInUse(t) \/ Unlock(t)

Malloc(t) ==
  \/ LoadInUse(t) \/ LoadAvailableFull(t) \/ LoadAvailableRoom(t)
  \/ (\E v \in Masked : SelectHeap(t, v)) \/ Probe(t) \/ CountUp(t)

Free(t) ==
  \/ FreeCached(t) \/ FreeNotFound(t) \/ CountDown(t)
  \/ \E i \in MiniHeap : FreeSearch(t, i)

Next ==
  \E t \in Threads :
    \/ MallocCall(t) \/ Malloc(t) \/ Grow(t)
    \/ (\E o \in Object : FreeCall(t, o)) \/ Free(t)

Spec == Init /\ [][Next]_vars

\* Threads in malloc or free keep running, and the random numbers that
\* select a miniheap and a slot do not avoid any value forever.
FairSpec ==
  /\ Spec
  /\ \A t \in Threads :
       /\ WF_vars(Malloc(t) \/ Grow(t) \/ Free(t))
       /\ \A v \in Masked : SF_vars(SelectHeap(t, v))
       /\ SF_vars(\E o \in Object : o[1] = sel[t] /\ TrySlot(t, o[2]))

-----------------------------------------------------------------------------
(* Properties *)

\* The type invariant.
TypeOK ==
  /\ available \in Nat
  /\ inUse \in Int
  /\ miniHeapsInUse \in 0 .. MaxMiniHeaps
  /\ chunksInUse \in Nat
  /\ growLock \in BOOLEAN
  /\ cached \in {-1} \cup MiniHeap
  /\ activated \subseteq MiniHeap
  /\ bits \subseteq Object
  /\ pc \in [Threads -> {"idle", "inUse", "available", "lock", "spin",
                         "activate", "storeAvailable", "storeChunks",
                         "storeHeaps", "unlock", "get", "try", "count",
                         "freeCached", "freeSearch", "uncount"}]
  /\ site \in [Threads -> {"fast", "grow", "wait", "locked"}]
  /\ seen \in [Threads -> Int]
  /\ sel \in [Threads -> {-1} \cup MiniHeap]
  /\ arg \in [Threads -> Object \cup {NoObject}]
  /\ live \subseteq Object

\* The stores of getAnotherMiniHeap.
Storing == {"activate", "storeAvailable", "storeChunks", "storeHeaps"}

\* _inUse counts the set bits, up to the threads that are about to count:
\* double frees and failed probes do not disturb it.  And the asserts at the
\* end of getAnotherMiniHeap hold in every state in which nobody is between
\* the stores: with m miniheaps, _available is the number of their objects,
\* and (_chunksInUse + 1) * MIN_OBJECTS is _available.
Returning == {t \in Threads : pc[t] = "count"}
CountersAgree ==
  /\ TypeOK
  /\ inUse = Cardinality(bits) - Cardinality(Returning)
               + Cardinality({t \in Threads : pc[t] = "uncount"})
  /\ (\A t \in Threads : pc[t] \notin Storing) =>
       /\ available =
            Cardinality(UNION {Objects(i) : i \in 0 .. miniHeapsInUse - 1})
       /\ miniHeapsInUse > 0 => (chunksInUse + 1) * MinObjects = available

\* Nobody is given an object that somebody holds: what the program holds,
\* what is about to be returned, and the set bits agree.  In whatever state a
\* concurrent growth is, the miniheap whose bits a thread tries has its memory
\* and its bitmap.
NoDoubleAllocation ==
  /\ \A t \in Threads : pc[t] = "try" => sel[t] \in activated
  /\ live \subseteq bits
  /\ \A t \in Returning : arg[t] \in bits \ live
  /\ \A t, u \in Returning : arg[t] = arg[u] => t = u

\* malloc keeps the heap at most Denominator/Numerator full, but for one
\* object per thread that passed the test before the others counted theirs.
LoadFactor ==
  Numerator * (inUse - Cardinality(Threads)) < Denominator * available
    \/ inUse <= 0

\* free and the getSize of other threads find every object the program
\* holds: its miniheap is one of those they search.
LiveIsFindable == \A o \in live : o[1] < miniHeapsInUse

\* Every call of malloc returns.
MallocReturns ==
  \A t \in Threads : pc[t] = "inUse" ~> pc[t] = "idle"
=============================================================================
