------------------------------ MODULE ExtHeap ------------------------------
(***************************************************************************)
(* The heap of Exterminator: CorrectingHeap over DieHardHeap over a         *)
(* partition per size class, as libdiehard.cpp stacks them (single-         *)
(* threaded, DieFast on).                                                   *)
(*                                                                          *)
(* A slot is a pair <<class, index>>.  Of memory the model keeps whether a  *)
(* slot still holds the canary ("sentinel" in every word).  Sizes are in    *)
(* units of a double; a class c serves objects of 2^c units.  The program   *)
(* under test may err: it writes where it must not (Corrupt) and frees an   *)
(* object twice.                                                            *)
(***************************************************************************)
EXTENDS Integers, FiniteSets, Sequences

CONSTANTS
  NumberOfClasses, \* size classes 0 .. NumberOfClasses - 1
  PartitionSize,   \* units per partition, a power of two
  Sites,           \* call sites of the program
  Padding,         \* Padding[s]: the patch's padding for allocations at s
  Extension,       \* Extension[<<a, f>>]: how much longer an object lives
  StaleCounts,     \* what the member global_ct, never written, may hold
  Environments,    \* DH_DEATHTIME (0 if unset), and whether DH_REPLICATED is set
  PQUEUE_SIZE,     \* capacity of the queue of deferred frees
  Sizes,           \* requested sizes
  LastPage,        \* pages 0 .. LastPage can be mapped for direct objects
  PagesPerIndex,   \* pages of MaxObjectSize: one entry of the table
  MaxAllocs,       \* bound: allocations
  MaxErrors,       \* bound: stray writes
  MaxDoubleFrees,  \* bound: frees of objects that are not held
  NULL

ASSUME ExtHeapAssumption ==
  /\ NumberOfClasses \in Nat \ {0} /\ PartitionSize \in Nat \ {0}
  /\ \A c \in 0 .. NumberOfClasses - 1 : PartitionSize % (2 ^ (c + 1)) = 0
  /\ Padding \in [Sites -> Nat]
  /\ Extension \in [(Sites \cup {0}) \X Sites -> Nat]
  /\ PQUEUE_SIZE \in Nat /\ Sizes \subseteq Nat
  /\ LastPage \in Nat /\ PagesPerIndex \in Nat \ {0}
  /\ MaxAllocs \in Nat
  /\ Environments \subseteq [death : Nat, replicated : BOOLEAN]

VARIABLES
  env,       \* the environment variables of this process
  status,    \* "run", "aborting" or "dead"
  global_ct, \* allocations so far
  memberCt,  \* CorrectingHeap::global_ct, which shadows the counter above
  bad,       \* DIEHARD_BAD_REPLICA in _heap_config_flags
  allocated, \* _allocated of all partitions
  hasData,   \* _hasData
  canary,    \* the slots that hold the sentinel in every word
  requested, \* _requested of each partition
  info,      \* slot_info_t of each slot
  pqueue,    \* deferred frees
  los,       \* LargeObjectManager: an entry for every PagesPerIndex pages
  losCt,     \* its ct
  mapped,    \* pages mapped for direct objects (operating system)
  call,      \* the call in progress
  live,      \* history: slots the program holds
  liveDirect,\* history: direct objects the program holds
  marked,    \* history: slots quarantined by checkOverflow
  twice,     \* history: slots freed twice, one free deferred
  smallDirect,\* history: an object not above MaxObjectSize was mapped
  errors,    \* history: stray writes and crashes of the program
  doubleFrees\* history: frees of free slots, per partition

heapVars == <<allocated, hasData, canary, requested, info>>
directVars == <<los, losCt, mapped>>
ghostVars == <<live, liveDirect, marked, twice, smallDirect, errors,
               doubleFrees>>
vars == <<env, status, global_ct, memberCt, bad, heapVars, pqueue, directVars,
          call, ghostVars>>

----------------------------------------------------------------------------
Classes == 0 .. NumberOfClasses - 1

\* log2 rounds up.
log2(sz) == CHOOSE l \in 0 .. sz : 2 ^ l >= sz /\ \A k \in 0 .. l - 1 : 2 ^ k < sz

sizeClass(sz) == log2(IF sz = 0 THEN 1 ELSE sz)

classToSize(c) == 2 ^ c

MaxObjectSize == classToSize(NumberOfClasses - 1)

Elements(c) == PartitionSize \div classToSize(c)

\* Half of the slots of a partition may be requested.
Threshold(c) == (PartitionSize \div 2) \div classToSize(c)

Slots == UNION {{c} \X (0 .. Elements(c) - 1) : c \in Classes}

SlotsOf(c) == {c} \X (0 .. Elements(c) - 1)

\* What freeEvent records (site and time of the free) is only dumped.
NoInfo == [id |-> 0, alloc |-> 0]

Idle == [op |-> "none"]

Pages == 0 .. LastPage

PagesOf(sz) == IF sz > MaxObjectSize THEN PagesPerIndex + 1 ELSE 1

getIndex(p) == p \div PagesPerIndex

NoEntry == [size |-> 0, addr |-> 0]

\* Every partition is filled with the sentinel at once.
InitPartitions ==
  /\ allocated = {} /\ hasData = {} /\ canary = Slots
  /\ requested = [c \in Classes |-> 0]
  /\ info = [s \in Slots |-> NoInfo]

\* The constructor of CorrectingHeap does not set global_ct.
InitCorrecting == pqueue = <<>> /\ memberCt \in StaleCounts

Init ==
  /\ env \in Environments
  /\ status = "run" /\ global_ct = 0
  /\ bad = FALSE
  /\ InitPartitions /\ InitCorrecting
  /\ los = [g \in {getIndex(p) : p \in Pages} |-> NoEntry] /\ losCt = 0
  /\ mapped = {}
  /\ call = Idle
  /\ live = {} /\ liveDirect = {} /\ marked = {} /\ twice = {}
  /\ smallDirect = FALSE /\ errors = 0
  /\ doubleFrees = [c \in Classes |-> 0]

----------------------------------------------------------------------------
\* DieFast found corrupted memory.  A program that runs alone and is not
\* replayed aborts; one of several tells the supervisor and goes on.
diefast_error ==
  /\ bad' = TRUE
  /\ status' = IF env.death = 0 /\ ~env.replicated THEN "aborting" ELSE status

----------------------------------------------------------------------------
(* malloc *)

\* CorrectingHeap::malloc pads the request; deferred frees come next.
Malloc(sz, site, old) ==
  /\ status = "run" /\ call = Idle /\ global_ct < MaxAllocs
  /\ call' = [op |-> "due", size |-> sz + Padding[site], site |-> site,
              old |-> old]
  /\ UNCHANGED <<status, global_ct, memberCt, bad, heapVars, pqueue,
                 directVars, ghostVars>>

CallMalloc == \E sz \in Sizes, site \in Sites : Malloc(sz, site, NULL)

\* realloc of a live object: malloc, copy, free.
CallRealloc ==
  \E sz \in Sizes \ {0}, site \in Sites, s \in live : Malloc(sz, site, s)

IsMin(i) == \A j \in DOMAIN pqueue : pqueue[i].death <= pqueue[j].death

\* The loop stops at the first entry that is due later than the member
\* global_ct says.
NothingDue == \A i \in DOMAIN pqueue : pqueue[i].death > memberCt

\* DieHardHeap::malloc counts the allocation and, at its death time, raises
\* SIGUSR2; otherwise it goes to a partition or, above MaxObjectSize, maps.
MallocCount ==
  /\ status = "run" /\ call.op = "due" /\ NothingDue
  /\ global_ct' = global_ct + 1
  /\ IF global_ct' = env.death
     THEN status' = "suicide" /\ call' = Idle
     ELSE /\ status' = status
          /\ call' = IF call.size > MaxObjectSize
                     THEN [call EXCEPT !.op = "direct"]
                     ELSE [op |-> "probe", size |-> call.size,
                           site |-> call.site, old |-> call.old,
                           class |-> sizeClass(call.size)]
  /\ UNCHANGED <<memberCt, bad, heapVars, pqueue, directVars,
                 ghostVars>>

\* The call returns; realloc then frees the old object.
Return(c) == IF c.old = NULL THEN Idle ELSE [op |-> "free", ptr |-> c.old,
                                             site |-> c.site]

LastClass(c) == c + 1 >= NumberOfClasses

\* allocObject: the partition is at its threshold, the next class is tried,
\* and after the last one memory is mapped.
ProbeThreshold ==
  /\ status = "run" /\ call.op = "probe"
  /\ requested[call.class] >= Threshold(call.class)
  /\ call' = IF LastClass(call.class)
             THEN [op |-> "direct", size |-> call.size, site |-> call.site,
                   old |-> call.old]
             ELSE [call EXCEPT !.class = @ + 1]
  /\ UNCHANGED <<status, global_ct, memberCt, bad, heapVars, pqueue,
                 directVars, ghostVars>>

\* The slot was filled with the sentinel when it was freed and is not now.
Corrupted(s) == s \notin hasData /\ s \notin canary

CountUp(c) == [requested EXCEPT ![c] = @ + 1]

allocEvent(s) == [info EXCEPT ![s].id = global_ct, ![s].alloc = call.site]

DataAfterAllocMissing(s) == hasData
DataAfterAlloc(s) == hasData \cup {s}

\* A probe that hits a free slot: a corrupted one stays allocated as a bad
\* block and probing goes on; otherwise it is zeroed and returned.
ProbeBad(s) ==
  /\ Corrupted(s)
  /\ diefast_error
  /\ UNCHANGED <<hasData, canary, info, call, live>>

ProbeGood(s) ==
  /\ ~Corrupted(s)
  /\ hasData' = DataAfterAlloc(s)
  /\ canary' = canary \ {s}
  /\ info' = allocEvent(s)
  /\ call' = Return(call)
  /\ live' = live \cup {s}
  /\ UNCHANGED <<status, bad>>

Probe ==
  /\ status = "run" /\ call.op = "probe"
  /\ requested[call.class] < Threshold(call.class)
  /\ \E s \in SlotsOf(call.class) \ allocated :
       /\ allocated' = allocated \cup {s}
       /\ requested' = CountUp(call.class)
       /\ ProbeBad(s) \/ ProbeGood(s)
  /\ UNCHANGED <<global_ct, memberCt, pqueue, directVars, liveDirect,
                 marked, twice, smallDirect, errors, doubleFrees>>

PageRun(p, n) == p .. p + n - 1

CtAfterSet(g) == losCt + (IF los[g].size = 0 THEN 1 ELSE 0)

\* allocateDirect: map (external), then LargeObjectManager::set.
DirectMap ==
  /\ status = "run" /\ call.op = "direct"
  /\ \E p \in Pages :
       LET n == PagesOf(call.size) IN
       /\ PageRun(p, n) \subseteq Pages \ mapped
       /\ mapped' = mapped \cup PageRun(p, n)
       /\ losCt' = CtAfterSet(getIndex(p))
       /\ los' = [los EXCEPT ![getIndex(p)] = [size |-> n, addr |-> p]]
       /\ liveDirect' = liveDirect \cup {[ptr |-> p, size |-> n]}
  /\ smallDirect' = (smallDirect \/ call.size <= MaxObjectSize)
  /\ call' = Return(call)
  /\ UNCHANGED <<status, global_ct, memberCt, bad, heapVars, pqueue,
                 live, marked, twice, errors, doubleFrees>>

\* Neither call of allocateDirect gets memory: malloc returns NULL.  realloc
\* frees the old object all the same.
DirectFails ==
  /\ status = "run" /\ call.op = "direct"
  /\ call' = Return(call)
  /\ UNCHANGED <<status, global_ct, memberCt, bad, heapVars, pqueue,
                 directVars, ghostVars>>

----------------------------------------------------------------------------
(* free *)

Next1(s) == <<s[1], s[2] + 1>>

\* checkOverflow looks at the successor of a freed object.
Overflowed(s, data, can) ==
  /\ s[2] < Elements(s[1]) - 1
  /\ Next1(s) \notin data /\ Next1(s) \notin can

CountDownClamped(c) ==
  [requested EXCEPT ![c] = IF @ > 0 THEN @ - 1 ELSE 0]
CountDown(c) == [requested EXCEPT ![c] = @ - 1]

\* The slot counts as filled only if it was filled.
DataAfterFreeAlways(s, filled) == hasData \ {s}
DataAfterFree(s, filled) == IF filled THEN hasData \ {s} ELSE hasData

\* forceFreeIndex: the bitmap is reset whatever it says.  Half of the time
\* (never in a bad replica) the object is filled with the sentinel.
forceFreeIndex(s) ==
  \E filled \in (IF bad THEN {FALSE} ELSE BOOLEAN) :
    /\ requested' = CountDown(s[1])
    /\ canary' = IF filled THEN canary \cup {s} ELSE canary
    /\ hasData' = DataAfterFree(s, filled)
    /\ doubleFrees' = IF s \in allocated \ marked THEN doubleFrees
                      ELSE [doubleFrees EXCEPT ![s[1]] = @ + 1]
    /\ IF Overflowed(s, hasData', canary')
       THEN /\ allocated' = (allocated \ {s}) \cup {Next1(s)}
            /\ marked' = IF Next1(s) \in allocated THEN marked \ {s}
                         ELSE (marked \ {s}) \cup {Next1(s)}
            /\ diefast_error
       ELSE /\ allocated' = allocated \ {s}
            /\ marked' = marked \ {s}
            /\ UNCHANGED <<status, bad>>

getAllocCallsite(s) == info[s].alloc

getObjectID(s) == info[s].id

td(s, site) == Extension[<<getAllocCallsite(s), site>>]

Deferred == {pqueue[i].ptr : i \in DOMAIN pqueue}

\* CorrectingHeap::free of a slot without a patch for its sites ...
FreeNow(s, site) ==
  /\ td(s, site) = 0
  /\ forceFreeIndex(s)
  /\ twice' = twice \cup ({s} \cap Deferred)
  /\ UNCHANGED <<info, pqueue>>

\* ... and with one: the free waits until the object is old enough.
FreeLater(s, site) ==
  /\ td(s, site) # 0
  /\ Len(pqueue) < PQUEUE_SIZE
  /\ twice' = twice \cup ({s} \ (live \ Deferred))
  /\ pqueue' = Append(pqueue, [ptr |-> s, death |-> td(s, site) + getObjectID(s)])
  /\ UNCHANGED <<status, bad, heapVars, marked, doubleFrees>>

\* What the program calls free with: an object it holds, or one it held.
CallFree ==
  /\ status = "run" /\ call = Idle
  /\ \E s \in Slots, site \in Sites :
       /\ \/ s \in live
          \/ /\ s \notin live /\ info[s].id > 0
             /\ \A c \in Classes : doubleFrees[c] + Cardinality(twice)
                                     < MaxDoubleFrees
       /\ live' = live \ {s}
       /\ FreeNow(s, site) \/ FreeLater(s, site)
  /\ UNCHANGED <<global_ct, memberCt, directVars, call, liveDirect,
                 smallDirect, errors>>

\* The last step of realloc.
ReallocFree ==
  /\ status = "run" /\ call.op = "free"
  /\ call' = Idle
  /\ live' = live \ {call.ptr}
  /\ FreeNow(call.ptr, call.site) \/ FreeLater(call.ptr, call.site)
  /\ UNCHANGED <<global_ct, memberCt, directVars, liveDirect,
                 smallDirect, errors>>

WithoutKept(i) == pqueue
Without(i) ==
  [j \in 1 .. Len(pqueue) - 1 |->
     IF j < i THEN pqueue[j] ELSE pqueue[j + 1]]

\* malloc performs a deferred free that is due.
FreeDue ==
  /\ status = "run" /\ call.op = "due"
  /\ \E i \in DOMAIN pqueue :
       /\ pqueue[i].death <= memberCt /\ IsMin(i)
       /\ forceFreeIndex(pqueue[i].ptr)
       /\ pqueue' = Without(i)
  /\ UNCHANGED <<global_ct, memberCt, info, directVars, call, live,
                 liveDirect, twice, smallDirect, errors>>

getLargeObjectSize(p) == los[getIndex(p)].size

\* freeDirect: unmap as many pages as the table says, clear the entry.
FreeDirect ==
  /\ status = "run" /\ call = Idle
  /\ \E d \in liveDirect :
       LET g == getIndex(d.ptr)
           sz == getLargeObjectSize(d.ptr) IN
       /\ liveDirect' = liveDirect \ {d}
       /\ IF sz # 0
          THEN /\ mapped' = mapped \ PageRun(d.ptr, sz)
               /\ los' = [los EXCEPT ![g] = NoEntry]
               /\ losCt' = losCt - 1
          ELSE UNCHANGED directVars
  /\ UNCHANGED <<status, global_ct, memberCt, bad, heapVars, pqueue, call,
                 live, marked, twice, smallDirect, errors, doubleFrees>>

----------------------------------------------------------------------------
(* signals and the program's errors *)

\* dump_heap writes the heap as it is to the image and may set a flag in it.
\* SIGUSR1, by which the supervisor asks for an image, changes nothing here.
Dump(corrupt) == bad' = (bad \/ corrupt)

\* SIGSEGV of a program that went wrong.
SigSegv ==
  /\ status = "run" /\ errors > 0
  /\ Dump(TRUE)
  /\ status' = "dead"
  /\ UNCHANGED <<global_ct, memberCt, heapVars, pqueue, directVars, call,
                 ghostVars>>

\* SIGABRT by diefast_error, and SIGUSR2 at the death time.
SigFatal ==
  /\ status \in {"aborting", "suicide"}
  /\ Dump(status = "aborting")
  /\ status' = "dead"
  /\ UNCHANGED <<global_ct, memberCt, heapVars, pqueue, directVars, call,
                 ghostVars>>

\* The program ends.  diefast_error may have registered a dump for this.
Exit ==
  /\ status = "run" /\ call = Idle
  /\ status' = "dead"
  /\ IF bad /\ env.replicated /\ env.death = 0 THEN Dump(TRUE)
                                         ELSE UNCHANGED bad
  /\ UNCHANGED <<global_ct, memberCt, heapVars, pqueue, directVars, call,
                 ghostVars>>

\* The program writes through a dangling pointer or past an object.
Corrupt ==
  /\ status = "run" /\ call = Idle /\ errors < MaxErrors
  /\ \E s \in canary : canary' = canary \ {s}
  /\ errors' = errors + 1
  /\ UNCHANGED <<status, global_ct, memberCt, bad, allocated, hasData,
                 requested, info, pqueue, directVars, call, live,
                 liveDirect, marked, twice, smallDirect, doubleFrees>>

Next ==
  /\ \/ CallMalloc \/ CallRealloc \/ MallocCount \/ FreeDue
     \/ ProbeThreshold \/ Probe \/ DirectMap \/ DirectFails
     \/ CallFree \/ ReallocFree \/ FreeDirect
     \/ SigSegv \/ SigFatal \/ Exit \/ Corrupt
  /\ UNCHANGED env

Spec == Init /\ [][Next]_vars

----------------------------------------------------------------------------
(* Properties *)

\* Types; in particular the classes tried are those that exist and the queue
\* of deferred frees stays within its mapping.
TypeOK ==
  /\ status \in {"run", "aborting", "suicide", "dead"}
  /\ global_ct \in 0 .. MaxAllocs /\ bad \in BOOLEAN
  /\ allocated \subseteq Slots /\ hasData \subseteq Slots
  /\ canary \subseteq Slots
  /\ requested \in [Classes -> Int]
  /\ Len(pqueue) <= PQUEUE_SIZE /\ Deferred \subseteq Slots
  /\ call.op = "probe" => call.class \in Classes
  /\ mapped \subseteq Pages /\ losCt \in Nat

InClass(S, c) == Cardinality({s \in S : s[1] = c})

\* _requested is the number of allocated slots, except for what the code
\* leaves uncounted: slots that checkOverflow quarantines, and frees of slots
\* that were free already.  So allocObject, which loops until a probe succeeds
\* (iterations is never counted up), has a free slot to find as long as
\* neither has happened.
Accounting ==
  /\ TypeOK
  /\ \A c \in Classes :
       /\ requested[c] = InClass(allocated, c) - InClass(marked, c) - doubleFrees[c]
       /\ requested[c] < Threshold(c) /\ doubleFrees[c] = 0 /\ InClass(marked, c) = 0
          => SlotsOf(c) \ allocated # {}

\* Whatever is freed, deferred, quarantined or dumped, an object the program
\* holds keeps its bits and an identity of its own, unless the same slot was
\* freed twice and one of the frees was deferred.  As long as only objects
\* above MaxObjectSize are mapped directly, the table knows the size of each
\* and their pages stay mapped, and the count that a dump writes is the number
\* of entries that follow it (the assertion in dump_los).
LiveIntact ==
  /\ \A s \in live \ twice :
       /\ s \in allocated /\ s \in hasData
       /\ info[s].id \in 1 .. global_ct
       /\ \A t \in live \ {s} : info[t].id # info[s].id
  /\ ~smallDirect =>
       \A d \in liveDirect :
         /\ getLargeObjectSize(d.ptr) = d.size
         /\ PageRun(d.ptr, d.size) \subseteq mapped
  /\ losCt = Cardinality({g \in DOMAIN los : los[g].size # 0})

\* DieFast accuses only programs that did write where they must not: the
\* heap's own filling and bookkeeping never look like corruption.
NoFalseAlarm == bad => errors > 0

\* An object whose free is deferred is not given to anybody meanwhile.
DeferredKept == \A s \in Deferred \ twice : s \in allocated /\ s \notin live

\* malloc performs the deferred frees that are due before it allocates.
DeferredFreesOnTime ==
  [][MallocCount => \A i \in DOMAIN pqueue : pqueue[i].death > global_ct]_vars
============================================================================
