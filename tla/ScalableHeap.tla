---------------------------- MODULE ScalableHeap ----------------------------
(***************************************************************************)
(* The scalable allocator: ScalableHeap (scalableheap.h) creates one heap  *)
(* per thread, OwnershipTrackingHeap (objectownership.h) routes each free  *)
(* to the heap that owns the object, through HeapRegistry (heapregistry.h) *)
(* and the queues of GlobalFreePool (globalfreepool.h).                    *)
(*                                                                         *)
(* A heap below these layers is the set of its allocated objects (module   *)
(* RandomHeap), and a queue is a sequence with an atomic push and drain    *)
(* (module FreeQueue implements PendingFrees).  An object is the pair of   *)
(* its heap, named after the thread that created it, and a slot.           *)
(***************************************************************************)
EXTENDS Integers, Sequences, FiniteSets

CONSTANTS
  Threads,      \* the threads of the program, over its whole life
  Fallback,     \* the heap of early initialisation
  None,         \* no heap, no object
  Slot,         \* bound: the slots of each heap
  MAX_THREADS,  \* the number of thread ids, queues and registry entries
  Capacity,     \* FREE_QUEUE_CAPACITY
  Batch,        \* FREE_BATCH_SIZE
  Interval,     \* DRAIN_CHECK_INTERVAL
  MapMayFail,   \* whether mapping a new heap can fail
  DoubleFrees   \* whether the program frees again what it freed before

ASSUME ScalableHeapAssumption ==
  /\ Fallback \notin Threads /\ None \notin Threads \cup {Fallback}
  /\ {MAX_THREADS, Capacity, Batch, Interval} \subseteq Nat \ {0}
  /\ Batch <= Capacity
  /\ {MapMayFail, DoubleFrees} \subseteq BOOLEAN

VARIABLES
  initialized, initializing,  \* _initialized, _initializing
  keys,         \* history: how often the TLS key was created
  nextId,       \* nextId of ThreadIdManager
  id,           \* _threadId of each thread's heap; a thread without one is
                \* not in its domain (its TLS value is null)
  registered,   \* the heaps with _registered
  entries,      \* _entries: the registered heap of each id
  maxId,        \* _maxThreadId
  count,        \* _allocCount modulo the interval
  queues,       \* _queues
  allocated,    \* the objects whose bit is set in their heap
  live,         \* the objects the program holds
  dropped,      \* history: the objects of the threads' heaps whose free was
                \* given up
  freed,        \* history, with DoubleFrees: the objects the program freed
  pc, op, arg,  \* each thread's position, operation and object
  owner         \* its local ownerId

initVars == <<initialized, initializing, keys>>
idVars == <<nextId, id>>
regVars == <<registered, entries, maxId>>
heapVars == <<count, queues, allocated, live, dropped, freed>>
callVars == <<op, arg, owner>>
vars == <<initVars, idVars, regVars, heapVars, pc, callVars>>

Ids == 0 .. MAX_THREADS - 1
INVALID_THREAD_ID == -1
Object == (Threads \cup {Fallback}) \X Slot

Init ==
  /\ initialized = FALSE
  /\ initializing = FALSE
  /\ keys = 0
  /\ nextId = 0
  /\ id = [t \in {} |-> 0]
  /\ registered = {}
  /\ entries = [i \in Ids |-> None]
  /\ maxId = 0
  /\ count = [t \in Threads |-> 0]
  /\ queues = [i \in Ids |-> << >>]
  /\ allocated = {}
  /\ live = {}
  /\ dropped = {}
  /\ freed = {}
  /\ pc = [t \in Threads |-> "idle"]
  /\ op = [t \in Threads |-> "none"]
  /\ arg = [t \in Threads |-> None]
  /\ owner = [t \in Threads |-> INVALID_THREAD_ID]

Goto(t, from, to) ==
  /\ pc[t] = from
  /\ pc' = [pc EXCEPT ![t] = to]

Call(t, what, o) ==
  /\ Goto(t, "idle", "heap")
  /\ op' = [op EXCEPT ![t] = what]
  /\ arg' = [arg EXCEPT ![t] = o]
  /\ UNCHANGED <<initVars, idVars, regVars, owner>>

\* The thread returns to the program.
Return(t, from) ==
  /\ Goto(t, from, "idle")
  /\ op' = [op EXCEPT ![t] = "none"]
  /\ arg' = [arg EXCEPT ![t] = None]
  /\ owner' = [owner EXCEPT ![t] = INVALID_THREAD_ID]

-----------------------------------------------------------------------------
(* The program's calls: malloc, free, getSize, and the end of a thread,    *)
(* which frees neither its heap nor its id (the TLS key has no destructor) *)

MallocCall(t) == Call(t, "malloc", None) /\ UNCHANGED heapVars

InFlight(o) == \E t \in Threads : op[t] = "free" /\ arg[t] = o

FreeCall(t, o) ==
  /\ o \in live \cup freed
  /\ Call(t, "free", o)
  /\ live' = live \ {o}
  /\ freed' = IF DoubleFrees THEN freed \cup {o} ELSE freed
  /\ UNCHANGED <<count, queues, allocated, dropped>>

GetSizeCall(t, o) ==
  /\ o \in live
  /\ Call(t, "size", o)
  /\ UNCHANGED heapVars

Exit(t) ==
  /\ Goto(t, "idle", "exited")
  /\ UNCHANGED <<initVars, idVars, regVars, heapVars, callVars>>

-----------------------------------------------------------------------------
(* getHeapSafe, tryInitialize, createHeapForThread *)

HeapReady(t) ==
  /\ initialized
  /\ t \in DOMAIN id
  /\ Goto(t, "heap", op[t])
  /\ UNCHANGED <<initVars, idVars, regVars, heapVars, callVars>>

\* allocateThreadId wraps around at MAX_THREADS.
allocateThreadId == nextId % MAX_THREADS

CreateHeap(t) ==
  /\ initialized
  /\ t \notin DOMAIN id
  /\ id' = [u \in DOMAIN id \cup {t} |->
              IF u = t THEN allocateThreadId ELSE id[u]]
  /\ nextId' = nextId + 1
  /\ Goto(t, "heap", op[t])
  /\ UNCHANGED <<initVars, regVars, heapVars, callVars>>

\* The map fails: nullptr, and the call goes to the fallback heap.
CreateHeapFails(t) ==
  /\ MapMayFail
  /\ initialized
  /\ t \notin DOMAIN id
  /\ Goto(t, "heap", "fallback")
  /\ UNCHANGED <<initVars, idVars, regVars, heapVars, callVars>>

\* Not initialised yet: getHeapSlow.
HeapSlow(t) ==
  /\ ~initialized
  /\ Goto(t, "heap", "slow")
  /\ UNCHANGED <<initVars, idVars, regVars, heapVars, callVars>>

\* The compare-and-swap of _initializing.
InitLock(t) ==
  /\ ~initializing
  /\ initializing' = TRUE
  /\ Goto(t, "slow", "init")
  /\ UNCHANGED <<initialized, keys, idVars, regVars, heapVars, callVars>>

InitBusy(t) ==
  /\ initializing
  /\ Goto(t, "slow", "spin")
  /\ UNCHANGED <<initVars, idVars, regVars, heapVars, callVars>>

\* A bounded spin: _initialized is seen, or the call uses the fallback heap.
SpinSees(t) ==
  /\ initialized
  /\ Goto(t, "spin", "heap")
  /\ UNCHANGED <<initVars, idVars, regVars, heapVars, callVars>>

SpinGivesUp(t) ==
  /\ ~initialized
  /\ Goto(t, "spin", "fallback")
  /\ UNCHANGED <<initVars, idVars, regVars, heapVars, callVars>>

\* The double check under the lock.
InitAlready(t) ==
  /\ initialized
  /\ Goto(t, "init", "unlock")
  /\ UNCHANGED <<initVars, idVars, regVars, heapVars, callVars>>

\* Variant: no double check.
InitKeyUnchecked(t) ==
  /\ initialized' = TRUE
  /\ keys' = keys + 1
  /\ Goto(t, "init", "unlock")
  /\ UNCHANGED <<initializing, idVars, regVars, heapVars, callVars>>

\* pthread_key_create succeeds, or fails because it is too early.
InitKey(t) ==
  /\ ~initialized
  /\ initialized' = TRUE
  /\ keys' = keys + 1
  /\ Goto(t, "init", "unlock")
  /\ UNCHANGED <<initializing, idVars, regVars, heapVars, callVars>>

InitKeyFails(t) ==
  /\ ~initialized
  /\ initializing' = FALSE
  /\ Goto(t, "init", "fallback")
  /\ UNCHANGED <<initialized, keys, idVars, regVars, heapVars, callVars>>

InitUnlock(t) ==
  /\ initializing' = FALSE
  /\ Goto(t, "unlock", "heap")
  /\ UNCHANGED <<initialized, keys, idVars, regVars, heapVars, callVars>>

-----------------------------------------------------------------------------
(* The heaps below: allocate a free slot of h, or clear an object's bit if *)
(* it is set.  At the bound on slots malloc returns no object.             *)

AllocateFrom(h) ==
  \/ \E o \in ({h} \X Slot) \ allocated :
       /\ allocated' = allocated \cup {o}
       /\ live' = live \cup {o}
  \/ /\ {h} \X Slot \subseteq allocated
     /\ UNCHANGED <<allocated, live>>

HeapFree(h, objs) == allocated' = {o \in allocated : ~(o[1] = h /\ o \in objs)}

\* The calls that getHeapSafe sent to the fallback heap.
FallbackMalloc(t) ==
  /\ op[t] = "malloc"
  /\ AllocateFrom(Fallback)
  /\ Return(t, "fallback")
  /\ UNCHANGED <<initVars, idVars, regVars, count, queues, dropped, freed>>

\* The fallback heap finds only its own objects: the free of another heap's
\* object by a thread that could not map a heap is lost.
FallbackFree(t) ==
  /\ op[t] = "free"
  /\ HeapFree(Fallback, {arg[t]})
  /\ dropped' = dropped \cup {o \in {arg[t]} : o[1] # Fallback}
  /\ Return(t, "fallback")
  /\ UNCHANGED <<initVars, idVars, regVars, count, queues, live, freed>>

FallbackSize(t) ==
  /\ op[t] = "size"
  /\ Return(t, "fallback")
  /\ UNCHANGED <<initVars, idVars, regVars, heapVars>>

-----------------------------------------------------------------------------
(* OwnershipTrackingHeap *)

\* Variant: _maxThreadId is the largest id, not one more.
RegisterMaxTooLow(t) ==
  /\ pc[t] \in {"malloc", "find"}
  /\ t \notin registered
  /\ registered' = registered \cup {t}
  /\ entries' = [entries EXCEPT ![id[t]] = t]
  /\ maxId' = IF maxId < id[t] THEN id[t] ELSE maxId
  /\ UNCHANGED <<initVars, idVars, heapVars, pc, callVars>>

\* doRegister, before the first malloc or cross-thread free of a heap.  No
\* other thread has an object of this heap yet, so the steps of registerHeap
\* (the entry, then _maxThreadId) are one.
Register(t) ==
  /\ pc[t] \in {"malloc", "find"}
  /\ t \notin registered
  /\ registered' = registered \cup {t}
  /\ entries' = [entries EXCEPT ![id[t]] = t]
  /\ maxId' = IF maxId < id[t] + 1 THEN id[t] + 1 ELSE maxId
  /\ UNCHANGED <<initVars, idVars, heapVars, pc, callVars>>

\* malloc: every Interval-th call looks at the queue.
MallocCount(t) ==
  /\ t \in registered
  /\ count' = [count EXCEPT ![t] = (@ + 1) % Interval]
  /\ Goto(t, "malloc", IF count'[t] = 0 THEN "drain" ELSE "allocate")
  /\ UNCHANGED <<initVars, idVars, regVars, queues, allocated, live, dropped,
                 freed, callVars>>

\* Variant: more than a batch.
shouldDrainTooLate(t) == Len(queues[id[t]]) > Batch

\* maybeDrainPendingFrees: a queue with a batch is emptied into this heap.
shouldDrain(t) == Len(queues[id[t]]) >= Batch

\* Variant: the drained objects stay in the queue.
DrainKeeps(t) ==
  /\ pc[t] = "drain"
  /\ shouldDrain(t)
  /\ LET q == queues[id[t]] IN HeapFree(t, {q[i] : i \in 1 .. Len(q)})
  /\ Goto(t, "drain", "allocate")
  /\ UNCHANGED <<initVars, idVars, regVars, count, queues, live, dropped, freed,
                 callVars>>

Drain(t) ==
  /\ pc[t] = "drain"
  /\ shouldDrain(t)
  /\ LET q == queues[id[t]] IN HeapFree(t, {q[i] : i \in 1 .. Len(q)})
  /\ queues' = [queues EXCEPT ![id[t]] = << >>]
  /\ Goto(t, "drain", "allocate")
  /\ UNCHANGED <<initVars, idVars, regVars, count, live, dropped, freed,
                 callVars>>

DrainNot(t) ==
  /\ pc[t] = "drain"
  /\ ~shouldDrain(t)
  /\ Goto(t, "drain", "allocate")
  /\ UNCHANGED <<initVars, idVars, regVars, heapVars, callVars>>

Allocate(t) ==
  /\ pc[t] = "allocate"
  /\ AllocateFrom(t)
  /\ Return(t, "allocate")
  /\ UNCHANGED <<initVars, idVars, regVars, count, queues, dropped, freed>>

\* free: the fast path, this heap had the object.
FreeOwn(t) ==
  /\ pc[t] = "free"
  /\ arg[t][1] = t /\ arg[t] \in allocated
  /\ HeapFree(t, {arg[t]})
  /\ Return(t, "free")
  /\ UNCHANGED <<initVars, idVars, regVars, count, queues, live, dropped,
                 freed>>

FreeSlow(t) ==
  /\ pc[t] = "free"
  /\ ~(arg[t][1] = t /\ arg[t] \in allocated)
  /\ Goto(t, "free", "find")
  /\ UNCHANGED <<initVars, idVars, regVars, heapVars, callVars>>

\* findOwner asks the registered heaps, in the order of their ids, for the
\* size of the object, which a heap gives for every slot it has; the caller's
\* own id is skipped.
Owners(o, exclude) == {i \in 0 .. maxId - 1 : i # exclude /\ entries[i] = o[1]}

FindOwner(t) ==
  /\ pc[t] = "find"
  /\ t \in registered
  /\ LET s == Owners(arg[t], id[t]) IN
       owner' = [owner EXCEPT ![t] =
                   IF s = {} THEN INVALID_THREAD_ID
                             ELSE CHOOSE i \in s : \A j \in s : i <= j]
  /\ Goto(t, "find", "route")
  /\ UNCHANGED <<initVars, idVars, regVars, heapVars, op, arg>>

\* No owner: this heap's free is tried once more.
FreeUnknown(t) ==
  /\ pc[t] = "route"
  /\ owner[t] = INVALID_THREAD_ID
  /\ HeapFree(t, {arg[t]})
  /\ Return(t, "route")
  /\ UNCHANGED <<initVars, idVars, regVars, count, queues, live, dropped,
                 freed>>

\* Variant: the object goes to the caller's queue.
CrossThreadFreeToSelf(t) ==
  /\ owner[t] # INVALID_THREAD_ID
  /\ Len(queues[id[t]]) < Capacity
  /\ queues' = [queues EXCEPT ![id[t]] = Append(@, arg[t])]
  /\ Return(t, "route")
  /\ UNCHANGED <<initVars, idVars, regVars, count, allocated, live, dropped,
                 freed>>

\* crossThreadFree: the owner's queue takes the object, or is full; free
\* returns true in both cases.
CrossThreadFree(t) ==
  /\ owner[t] # INVALID_THREAD_ID
  /\ Len(queues[owner[t]]) < Capacity
  /\ queues' = [queues EXCEPT ![owner[t]] = Append(@, arg[t])]
  /\ Return(t, "route")
  /\ UNCHANGED <<initVars, idVars, regVars, count, allocated, live, dropped,
                 freed>>

CrossThreadFreeRejected(t) ==
  /\ owner[t] # INVALID_THREAD_ID
  /\ Len(queues[owner[t]]) >= Capacity
  /\ dropped' = dropped \cup {arg[t]}
  /\ Return(t, "route")
  /\ UNCHANGED <<initVars, idVars, regVars, count, queues, allocated, live,
                 freed>>

\* ScalableHeap::getSize asks the thread's own heap, then the fallback heap, and
\* changes nothing in them.
GetSize(t) ==
  /\ Return(t, "size")
  /\ UNCHANGED <<initVars, idVars, regVars, heapVars>>

-----------------------------------------------------------------------------
Step(t) ==
  \/ HeapReady(t) \/ CreateHeap(t) \/ CreateHeapFails(t) \/ HeapSlow(t)
  \/ InitLock(t) \/ InitBusy(t) \/ SpinSees(t) \/ SpinGivesUp(t)
  \/ InitAlready(t) \/ InitKey(t) \/ InitKeyFails(t) \/ InitUnlock(t)
  \/ FallbackMalloc(t) \/ FallbackFree(t) \/ FallbackSize(t)
  \/ Register(t) \/ MallocCount(t) \/ Drain(t) \/ DrainNot(t) \/ Allocate(t)
  \/ FreeOwn(t) \/ FreeSlow(t) \/ FindOwner(t) \/ FreeUnknown(t)
  \/ CrossThreadFree(t) \/ CrossThreadFreeRejected(t) \/ GetSize(t)

Next ==
  \E t \in Threads :
    \/ Step(t)
    \/ MallocCall(t)
    \/ \E o \in Object : FreeCall(t, o) \/ GetSizeCall(t, o)
    \/ Exit(t)

Spec == Init /\ [][Next]_vars

\* Every thread is scheduled, and a thread that has not ended goes on
\* allocating: only malloc drains.
FairSpec ==
  Spec /\ \A t \in Threads : WF_vars(Step(t)) /\ SF_vars(MallocCall(t))

-----------------------------------------------------------------------------
(* Properties *)

\* The type invariant.
TypeOK ==
  /\ initialized \in BOOLEAN /\ initializing \in BOOLEAN
  /\ keys \in Nat /\ nextId \in Nat
  /\ DOMAIN id \subseteq Threads /\ \A t \in DOMAIN id : id[t] \in Ids
  /\ registered \subseteq DOMAIN id
  /\ entries \in [Ids -> Threads \cup {None}]
  /\ maxId \in 0 .. MAX_THREADS
  /\ count \in [Threads -> 0 .. Interval - 1]
  /\ queues \in [Ids -> Seq(Object)]
  /\ \A i \in Ids : Len(queues[i]) <= Capacity
  /\ allocated \subseteq Object /\ live \subseteq Object
  /\ dropped \subseteq Object /\ freed \subseteq Object
  /\ pc \in [Threads -> {"idle", "heap", "slow", "spin", "init", "unlock",
                         "fallback", "malloc", "drain", "allocate", "free",
                         "find", "route", "size", "exited"}]
  /\ op \in [Threads -> {"none", "malloc", "free", "size"}]
  /\ arg \in [Threads -> Object \cup {None}]
  /\ owner \in [Threads -> Ids \cup {INVALID_THREAD_ID}]

\* No free, direct, queued, drained by the owner or sent to the fallback heap,
\* ever releases an object the program holds: malloc cannot hand it out twice.
LiveStaysAllocated == live \subseteq allocated

Queued(i) == {queues[i][k] : k \in DOMAIN queues[i]}

Pending(o) ==
  \/ \E i \in Ids : o \in Queued(i)
  \/ InFlight(o)

\* A free of an object of a thread's heap, made by any thread, is on its way
\* to that heap until it is performed, unless it was given up (a full queue,
\* or a heap that could not be mapped): findOwner finds every owner.
NoSilentLeak ==
  \A o \in allocated \ live : o[1] = Fallback \/ o \in dropped \/ Pending(o)

\* What a queue holds can be freed by the thread that drains it: its own
\* allocated objects, released by the program, each queued once.
PendingSound ==
  /\ TypeOK
  /\ \A i \in Ids : \A k \in DOMAIN queues[i] :
       LET o == queues[i][k] IN
         /\ entries[i] = o[1] /\ o[1] \in registered /\ id[o[1]] = i
         /\ o \in allocated \ live
         /\ ~InFlight(o)
         /\ \A l \in DOMAIN queues[i] : queues[i][l] = o => l = k

\* tryInitialize creates the TLS key once, whatever threads race into it: a
\* second key would hide the heaps stored under the first.
OneKey == keys <= 1 /\ (initialized <=> keys = 1)

HasBacklog(t) == t \in DOMAIN id /\ Len(queues[id[t]]) >= Batch

\* A thread that goes on allocating empties its queue once a batch waits in
\* it, although it looks only at every Interval-th malloc.
BacklogDrained ==
  \A t \in Threads : HasBacklog(t) ~> (~HasBacklog(t) \/ pc[t] = "exited")

\* README.md: double frees have no effect.  So malloc returns no object with a
\* free of it waiting in a queue.
NoAllocationOfPending ==
  [][\A o \in live' \ live : \A i \in Ids : o \notin Queued(i)]_vars
=============================================================================
