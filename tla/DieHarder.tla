------------------------------ MODULE DieHarder ------------------------------
(***************************************************************************)
(* DieHarder: the heap of libdieharder.cpp with its size classes           *)
(* (DieHardHeap), whose miniheaps scatter their pages over the address     *)
(* space (RandomMiniHeapDieHarder) and find them again through a page      *)
(* table, a hash table with linear probing (DynamicHashTable), and with    *)
(* LargeHeap for what is larger (CombineHeap).  LockedHeap makes each call *)
(* atomic.  The growth of a size class and the choice of a slot are two    *)
(* steps of one call, which `pending` keeps together.                      *)
(*                                                                         *)
(* The unit of sizes and addresses is Alignment.  The operating system's   *)
(* mapper (external) gives any run of pages that is not mapped.            *)
(***************************************************************************)
EXTENDS HeapMath, FiniteSets, Sequences

CONSTANTS
  Numerator, Denominator,
  PageSize, MaxSize,       \* in units, powers of two
  INIT_SIZE,               \* slots of the hash table at first
  PageNumbers,             \* bound: the page numbers the mapper may give
  Requests, Alignments,    \* bound: what the program asks for
  MaxLive                  \* bound: objects the program holds

VARIABLES
  entries, size,    \* the hash table: slot to entry, and its number of slots
  pages,            \* _mapEntryToPage of every active miniheap
  bits,             \* the objects that are allocated: <<class, miniheap, index>>
  inUse,            \* of each size class
  cachedSizeClass,
  big,              \* _objectSize of the LargeHeap: address to remaining size
  pending,          \* the call that has grown and not yet found a slot
  live,             \* the objects the program holds
  zeroed            \* history: addresses of live objects that free has cleared

tableVars == <<entries, size>>
vars == <<tableVars, pages, bits, inUse, cachedSizeClass, big, pending, live, zeroed>>

MAX_INDEX == log2(MaxSize) + 1
Class == 0 .. MAX_INDEX - 1
getClassSize(c) == 2 ^ c
getIndex(sz) == log2(sz)

ObjectsPerPage(c) == IF getClassSize(c) <= PageSize THEN PageSize \div getClassSize(c) ELSE 1
PagesPerObject(c) == IF getClassSize(c) <= PageSize THEN 1 ELSE getClassSize(c) \div PageSize

LargerOf(a, b) == IF a > b THEN a ELSE b
MIN_OBJECTS(c) ==
  LargerOf(MaxSize, (Numerator * getClassSize(c)) \div Denominator) \div getClassSize(c)
NObjects(h) == MiniHeapObjects(MIN_OBJECTS(h[1]), h[2])

Active(c) == {h \in DOMAIN pages : h[1] = c}
computePageNumber(a) == a \div PageSize
Nothing == <<>>

Init ==
  /\ entries = Nothing /\ size = INIT_SIZE
  /\ pages = Nothing /\ bits = {} /\ inUse = [c \in Class |-> 0]
  /\ cachedSizeClass = -1
  /\ big = Nothing /\ pending = Nothing /\ live = {} /\ zeroed = {}

-----------------------------------------------------------------------------
(* DynamicHashTable *)

LOAD_FACTOR_RECIPROCAL == 8
ExpansionFactor == 2

\* Probing begins at the key and does not reach the slot before it.
Probe(key, d, n) == (key + d) % n
Probes(n) == 0 .. n - 2

\* How many probes it takes to a slot that is empty or, for find, has the key.
FirstStop(t, n, key, wanted) ==
  CHOOSE d \in Probes(n) :
    LET Stops(e) == Probe(key, e, n) \notin DOMAIN t
                      \/ (wanted /\ t[Probe(key, e, n)].page = key)
    IN Stops(d) /\ \A e \in 0 .. d - 1 : ~Stops(e)

PageTableEntry(p, h, i) == [page |-> p, heap |-> h, index |-> i]

Put(t, slot, entry) == [s \in DOMAIN t \cup {slot} |-> IF s = slot THEN entry ELSE t[s]]
insertOne(t, n, entry) == Put(t, Probe(entry.page, FirstStop(t, n, entry.page, FALSE), n), entry)

\* Variant: the entries keep their slots in the larger table.
growInPlace(t, n) == t

\* Every entry is inserted again, in the order of the old table.
grow(t, n) ==
  LET rehashed[i \in 0 .. n] ==
        IF i = 0 THEN Nothing
        ELSE IF i - 1 \in DOMAIN t
             THEN insertOne(rehashed[i - 1], n * ExpansionFactor, t[i - 1])
             ELSE rehashed[i - 1]
  IN rehashed[n]

insert(tab, entry) ==
  LET grows == Cardinality(DOMAIN tab.t) + 1 > tab.n \div LOAD_FACTOR_RECIPROCAL
      n == IF grows THEN tab.n * ExpansionFactor ELSE tab.n
      t == IF grows THEN grow(tab.t, tab.n) ELSE tab.t
  IN [t |-> insertOne(t, n, entry), n |-> n]

\* The entry of a page, or Nothing.
getEntry(page) ==
  LET slot == Probe(page, FirstStop(entries, size, page, TRUE), size) IN
  IF slot \in DOMAIN entries THEN entries[slot] ELSE Nothing

-----------------------------------------------------------------------------
(* RandomMiniHeapDieHarder *)

\* Variant: the entry of a page holds the number of the page.
IndexByPage(c, k) == k - 1
\* The index stored for the k-th page or run of pages: that of its first object.
IndexOfEntry(c, k) == (k - 1) * ObjectsPerPage(c)

getPageFromIndex(h, i) == pages[h][(i \div ObjectsPerPage(h[1])) + 1]

getObject(h, i) ==
  getPageFromIndex(h, i) * PageSize
    + (IF getClassSize(h[1]) > PageSize THEN 0
       ELSE (i % ObjectsPerPage(h[1])) * getClassSize(h[1]))

computeIndex(entry, a) ==
  LET c == entry.heap[1] IN
  IF ObjectsPerPage(c) = 1 THEN entry.index
  ELSE entry.index + ((a % PageSize) \div getClassSize(c))

\* Variant: a large object is treated as a small one.
getSizeByModulo(entry, a) == LET sz == getClassSize(entry.heap[1]) IN sz - (a % sz)

\* The space from the address to the end of its object.
getSizeIn(entry, a) ==
  LET sz == getClassSize(entry.heap[1]) IN
  IF sz >= PageSize THEN sz - (a - getObject(entry.heap, computeIndex(entry, a)))
  ELSE sz - (a % sz)

Run(p, n) == p .. p + n - 1
MappedPages ==
  (UNION {UNION {Run(pages[h][k], PagesPerObject(h[1])) : k \in DOMAIN pages[h]} : h \in DOMAIN pages})
    \cup {computePageNumber(a) : a \in DOMAIN big}
Mappable(p, n) == Run(p, n) \subseteq PageNumbers \ MappedPages

\* The page table after a miniheap got the pages f: one entry for every page.
InsertAll(h, f) ==
  LET c == h[1]
      n == PagesPerObject(c)
      entry(k, p) == PageTableEntry(f[k] + p, h, IndexOfEntry(c, k))
      table[x \in 0 .. Len(f) * n] ==
        IF x = 0 THEN [t |-> entries, n |-> size]
        ELSE insert(table[x - 1], entry(((x - 1) \div n) + 1, (x - 1) % n))
  IN table[Len(f) * n]

\* activate: map the pages of the next miniheap of the class and register them.
NextMiniHeap(c) == <<c, Cardinality(Active(c))>>
NumEntries(h) == (NObjects(h) + ObjectsPerPage(h[1]) - 1) \div ObjectsPerPage(h[1])

internalActivate(c, f) ==
  LET h == NextMiniHeap(c)
      tab == InsertAll(h, f)
  IN /\ \A k \in DOMAIN f : Mappable(f[k], PagesPerObject(c))
     /\ \A k, l \in DOMAIN f : k # l =>
          Run(f[k], PagesPerObject(c)) \cap Run(f[l], PagesPerObject(c)) = {}
     /\ entries' = tab.t /\ size' = tab.n
     /\ pages' = Put(pages, h, f)

-----------------------------------------------------------------------------
(* The calls *)

available(c) ==
  LET sum[m \in 0 .. Cardinality(Active(c))] ==
        IF m = 0 THEN 0 ELSE sum[m - 1] + NObjects(<<c, m - 1>>)
  IN sum[Cardinality(Active(c))]
Full(c) == Numerator * inUse[c] >= available(c) * Denominator

\* What xxmemalign asks malloc for; xxmalloc is the case of alignment 1.
xxmemalign(sz, al) == LargerOf(sz, al)

\* A request that fits a size class.
MallocSmall(sz, al) ==
  LET c == getIndex(xxmemalign(sz, al)) IN
  /\ pending = Nothing /\ Cardinality(live) < MaxLive
  /\ xxmemalign(sz, al) <= MaxSize
  /\ \/ ~Full(c) /\ UNCHANGED <<tableVars, pages>>
     \/ /\ Full(c)
        /\ \E f \in [1 .. NumEntries(NextMiniHeap(c)) -> PageNumbers] : internalActivate(c, f)
  /\ pending' = [size |-> sz, align |-> al, class |-> c]
  /\ UNCHANGED <<bits, inUse, cachedSizeClass, big, live, zeroed>>

\* A slot whose bit was not set.
Place(h, i) ==
  /\ pending # Nothing /\ h \in Active(pending.class)
  /\ i < NObjects(h) /\ <<h[1], h[2], i>> \notin bits
  /\ bits' = bits \cup {<<h[1], h[2], i>>}
  /\ inUse' = [inUse EXCEPT ![h[1]] = @ + 1]
  /\ live' = live \cup {[addr |-> getObject(h, i), size |-> pending.size,
                         align |-> pending.align]}
  /\ pending' = Nothing
  /\ UNCHANGED <<tableVars, pages, cachedSizeClass, big, zeroed>>

\* LargeHeap::malloc: an entry for every page, with the size from there on.
MallocBig(sz, al, p) ==
  LET need == xxmemalign(sz, al)
      n == (need + PageSize - 1) \div PageSize
  IN
  /\ pending = Nothing /\ Cardinality(live) < MaxLive
  /\ need > MaxSize /\ Mappable(p, n)
  /\ big' = [a \in DOMAIN big \cup {q * PageSize : q \in Run(p, n)} |->
               IF a \in DOMAIN big THEN big[a] ELSE need - (a - p * PageSize)]
  /\ live' = live \cup {[addr |-> p * PageSize, size |-> sz, align |-> al]}
  /\ UNCHANGED <<tableVars, pages, bits, inUse, cachedSizeClass, pending, zeroed>>

\* All of the object may be used, up to the size of its class.
Usable(o) ==
  LET need == xxmemalign(o.size, o.align) IN
  IF need > MaxSize THEN need ELSE getClassSize(getIndex(need))
AddressesOf(o) == Run(o.addr, Usable(o))
LiveAddresses(objects) == UNION {AddressesOf(o) : o \in objects}

\* free of an address whose bit was set.  It is cleared from the address on.
FreeSmall(a) ==
  LET entry == getEntry(computePageNumber(a))
      c == entry.heap[1]
      slot == <<c, entry.heap[2], computeIndex(entry, a)>>
  IN /\ entry # Nothing /\ slot \in bits
     /\ bits' = bits \ {slot}
     /\ inUse' = [inUse EXCEPT ![c] = @ - 1]
     /\ cachedSizeClass' = c
     /\ live' = {o \in live : o.addr # a}
     /\ zeroed' = (zeroed \cup Run(a, getClassSize(c))) \cap LiveAddresses(live')
     /\ UNCHANGED big

\* LargeHeap::free unmaps and forgets as much as the entry says.
FreeBig(a) ==
  /\ a \in DOMAIN big
  /\ big' = [b \in DOMAIN big \ Run(a, big[a]) |-> big[b]]
  /\ live' = {o \in live : o.addr # a}
  /\ UNCHANGED <<bits, inUse, cachedSizeClass, zeroed>>

\* A double free, or an address of neither heap.
Owned(a) ==
  LET entry == getEntry(computePageNumber(a)) IN
  IF entry = Nothing THEN a \in DOMAIN big
  ELSE <<entry.heap[1], entry.heap[2], computeIndex(entry, a)>> \in bits

FreeNothing(a) ==
  /\ ~Owned(a)
  /\ UNCHANGED <<bits, inUse, cachedSizeClass, big, live, zeroed>>

Interior(a) == \E o \in live : a \in AddressesOf(o) \ {o.addr}

\* The program frees any address that is not inside an object it holds.
Free(a) ==
  /\ pending = Nothing
  /\ ~Interior(a)
  /\ FreeSmall(a) \/ FreeBig(a) \/ FreeNothing(a)
  /\ UNCHANGED <<tableVars, pages, pending>>

\* DieHardHeap::getSize, then CombineHeap::getSize.
getSizeSmall(a) ==
  LET entry == getEntry(computePageNumber(a)) IN
  IF entry = Nothing THEN 0 ELSE getSizeIn(entry, a)
getSize(a) ==
  IF getSizeSmall(a) # 0 THEN getSizeSmall(a)
  ELSE IF a \in DOMAIN big THEN big[a] ELSE 0

UsedAddresses == UNION {Run(p * PageSize, PageSize) : p \in PageNumbers}

Next ==
  \/ \E sz \in Requests, al \in Alignments :
       MallocSmall(sz, al) \/ \E p \in PageNumbers : MallocBig(sz, al, p)
  \/ \E h \in DOMAIN pages : \E i \in 0 .. NObjects(h) - 1 : Place(h, i)
  \/ \E a \in UsedAddresses : Free(a)

Spec == Init /\ [][Next]_vars

-----------------------------------------------------------------------------
(* Properties *)

\* Every page of an active miniheap is found with the miniheap and the first
\* index of the page, however the table has grown and collided since, and no
\* other page is found; every address of an object gives the object's index.
PageTableExact ==
  /\ \A h \in DOMAIN pages : \A i \in 0 .. NObjects(h) - 1 :
       \A a \in Run(getObject(h, i), getClassSize(h[1])) :
         LET e == getEntry(computePageNumber(a)) IN
         e # Nothing /\ e.heap = h /\ computeIndex(e, a) = i
  /\ \A a \in DOMAIN big : getEntry(computePageNumber(a)) = Nothing

\* What the program holds stays allocated, large enough, aligned as xxmemalign
\* was asked, apart from every other object, and no free clears a part of it.
LiveKept ==
  /\ zeroed = {}
  /\ \A o \in live : Owned(o.addr) /\ o.addr % o.align = 0
  /\ \A o1, o2 \in live : o1 # o2 => AddressesOf(o1) \cap AddressesOf(o2) = {}

\* getSize tells from any address of a small object, and from any page of a
\* large one, how far it is to the end: never past it, and at least what the
\* program asked for.
SizesExact ==
  \A o \in live : \A a \in AddressesOf(o) :
    (o.size <= MaxSize \/ a % PageSize = 0) => getSize(a) = o.addr + Usable(o) - a
==============================================================================
