------------------------------ MODULE LargeHeap ------------------------------
(***************************************************************************)
(* LargeHeap (largeheap.h): objects too large for the size classes, each a *)
(* mapping of its own.  One LargeHeap serves all threads (OneHeap in       *)
(* libdieharder.cpp).  It keeps the size of every object in a table with   *)
(* an entry per page, under a mutex; malloc maps before it takes the       *)
(* mutex, free unmaps while it holds it.                                   *)
(*                                                                         *)
(* The mapper below is the operating system's (external): it hands out any *)
(* run of pages that is not mapped, and may fail.  Sizes are in pages.     *)
(***************************************************************************)
EXTENDS Integers

CONSTANTS
  Threads,
  None,     \* nobody holds the mutex
  MaxSize,  \* bound: the largest size that is requested
  PAGES     \* bound: the number of pages, more than MaxSize

VARIABLES
  mapped,   \* the pages that are mapped for large objects
  table,    \* _objectSize: page to remaining size, 0 if absent
  mutex,    \* the holder of _mutex
  pc,       \* where each thread is
  base,     \* the first page of the object it maps or frees
  req,      \* the size it maps
  live      \* the objects the program holds: <<first page, size>>

vars == <<mapped, table, mutex, pc, base, req, live>>

\* Page 0 is at the null pointer.  The pages that a request could reach from
\* there are never mapped.
NULL == 0
Page == 0 .. PAGES - 1
Mappable == MaxSize .. PAGES - 1
Sizes == 1 .. MaxSize

Run(p, n) == p .. p + n - 1
PagesOf(o) == Run(o[1], o[2])

Init ==
  /\ mapped = {}
  /\ table = [p \in Page |-> 0]
  /\ mutex = None
  /\ pc = [t \in Threads |-> "idle"]
  /\ base = [t \in Threads |-> NULL]
  /\ req = [t \in Threads |-> 0]
  /\ live = {}

Goto(t, from, to) ==
  /\ pc[t] = from
  /\ pc' = [pc EXCEPT ![t] = to]

-----------------------------------------------------------------------------
(* malloc: map, then the mutex, then set *)

Map(t, n, p) ==
  /\ Goto(t, "idle", "set")
  /\ Run(p, n) \subseteq Mappable \ mapped
  /\ mapped' = mapped \cup Run(p, n)
  /\ base' = [base EXCEPT ![t] = p]
  /\ req' = [req EXCEPT ![t] = n]
  /\ UNCHANGED <<table, mutex, live>>

\* A failed map is not tested for: set runs on the null pointer.
MapFails(t, n) ==
  /\ Goto(t, "idle", "set")
  /\ base' = [base EXCEPT ![t] = NULL]
  /\ req' = [req EXCEPT ![t] = n]
  /\ UNCHANGED <<mapped, table, mutex, live>>

\* malloc returns; the program holds what is not null.
Returned(t) ==
  /\ live' = live \cup {o \in {<<base[t], req[t]>>} : o[1] # NULL}
  /\ base' = [base EXCEPT ![t] = NULL]
  /\ req' = [req EXCEPT ![t] = 0]

\* Every page of the object gets the size that remains from it on.
SetSizes(t) ==
  /\ Goto(t, "set", "idle")
  /\ mutex = None
  /\ table' = [p \in Page |-> IF p \in Run(base[t], req[t])
                                THEN req[t] - (p - base[t]) ELSE table[p]]
  /\ Returned(t)
  /\ UNCHANGED <<mapped, mutex>>

-----------------------------------------------------------------------------
(* free: get, unmap and clear, all under the mutex *)

FreeLookup(t, o) ==
  /\ Goto(t, "idle", "unmap")
  /\ o \in live
  /\ mutex = None
  /\ table[o[1]] > 0
  /\ mutex' = t
  /\ base' = [base EXCEPT ![t] = o[1]]
  /\ live' = live \ {o}
  /\ UNCHANGED <<mapped, table, req>>

\* A pointer that is not in the table (every free of a small object that is
\* not in the caller's heap comes here): free returns false.
FreeNotFound(t, p) ==
  /\ pc[t] = "idle"
  /\ mutex = None
  /\ table[p] = 0
  /\ UNCHANGED vars

\* Variant: the mutex is released before the unmap.
FreeUnmapUnlocked(t) ==
  /\ Goto(t, "unmap", "clear")
  /\ mapped' = mapped \ Run(base[t], table[base[t]])
  /\ mutex' = None
  /\ UNCHANGED <<table, base, req, live>>

\* Variant: one page too many.
FreeUnmapLong(t) ==
  /\ Goto(t, "unmap", "clear")
  /\ mapped' = mapped \ Run(base[t], table[base[t]] + 1)
  /\ UNCHANGED <<table, mutex, base, req, live>>

\* The unmap of as much as the table says.
FreeUnmap(t) ==
  /\ Goto(t, "unmap", "clear")
  /\ mapped' = mapped \ Run(base[t], table[base[t]])
  /\ UNCHANGED <<table, mutex, base, req, live>>

\* clear looks the size up again and erases the entries of the object.
FreeClear(t) ==
  /\ Goto(t, "clear", "idle")
  /\ table' = [p \in Page |-> IF p \in Run(base[t], table[base[t]])
                                THEN 0 ELSE table[p]]
  /\ mutex' = None
  /\ base' = [base EXCEPT ![t] = NULL]
  /\ UNCHANGED <<mapped, req, live>>

-----------------------------------------------------------------------------
Next ==
  \E t \in Threads :
    \/ \E n \in Sizes : MapFails(t, n) \/ \E p \in Mappable : Map(t, n, p)
    \/ SetSizes(t)
    \/ \E o \in live : FreeLookup(t, o)
    \/ \E p \in Page : FreeNotFound(t, p)
    \/ FreeUnmap(t) \/ FreeClear(t)

Spec == Init /\ [][Next]_vars

-----------------------------------------------------------------------------
(* Properties *)

\* The type invariant.
TypeOK ==
  /\ mapped \subseteq Mappable
  /\ table \in [Page -> 0 .. MaxSize]
  /\ mutex \in Threads \cup {None}
  /\ pc \in [Threads -> {"idle", "set", "unmap", "clear"}]
  /\ base \in [Threads -> Page]
  /\ req \in [Threads -> 0 .. MaxSize]
  /\ live \subseteq Mappable \X Sizes

\* The pages that a thread holds for an object on its way to the program or
\* back from it.
InTransit(t) ==
  CASE pc[t] = "set" /\ base[t] # NULL -> Run(base[t], req[t])
    [] pc[t] = "unmap" -> Run(base[t], table[base[t]])
    [] OTHER -> {}

\* No page belongs to two objects, held by the program or on the way to or
\* from it, no object loses a page, and none is leaked: the sizes that free
\* reads back from the table are those of the object, whoever mapped and freed
\* its neighbours.
PagesExclusive ==
  /\ \A o1, o2 \in live : o1 # o2 => PagesOf(o1) \cap PagesOf(o2) = {}
  /\ \A t \in Threads, o \in live : InTransit(t) \cap PagesOf(o) = {}
  /\ \A t, u \in Threads : t # u => InTransit(t) \cap InTransit(u) = {}
  /\ mapped = (UNION {PagesOf(o) : o \in live})
                \cup (UNION {InTransit(t) : t \in Threads})

\* Whoever gets the mutex sees the table agree with the objects: getSize gives
\* the space left in the object from any of its pages on, and 0 for every
\* other page that could be mapped, although the pages that free unmaps can be
\* mapped again, outside the mutex, before their entries are erased.  (At the
\* null pointer a failed map does leave entries.)
TableExact ==
  /\ TypeOK
  /\ mutex = None =>
       \A p \in Mappable :
         LET here == {o \in live : p \in PagesOf(o)} IN
           /\ here = {} => table[p] = 0
           /\ \A o \in here : table[p] = o[1] + o[2] - p
=============================================================================
