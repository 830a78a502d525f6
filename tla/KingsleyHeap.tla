---------------------------- MODULE KingsleyHeap ----------------------------
(***************************************************************************)
(* The heap of the fault injectors' own containers: a Kingsley heap        *)
(* (StrictSegHeap) with a FreelistHeap per size class, each over its own   *)
(* SizeHeap and BumpAlloc, one more of which (bigheap) serves what is too  *)
(* large.  SegHeap, the base of StrictSegHeap, has a malloc and a free of  *)
(* its own that look for the first size class with something in it.        *)
(*                                                                         *)
(* SizeHeap keeps the requested size in front of an object and not the     *)
(* size of its class, so that free files it under the class below.  The    *)
(* operating system (external) always has a fresh chunk.                   *)
(***************************************************************************)
EXTENDS Naturals, Sequences, FiniteSets

CONSTANTS
  NUMBINS,     \* at most 32: the bins of one word of the binmap
  ChunkBytes,  \* ChunkSize of BumpAlloc
  Header,      \* sizeof(freeObject) of SizeHeap
  Requests,    \* bound: sizes asked for, from 8 on (less goes to class -1)
  MaxObjects,  \* bound: objects that are carved from chunks
  MaxHeld      \* bound: memoryHeld, which malloc never counts down

VARIABLES
  layer,      \* "StrictSegHeap" or "SegHeap"
  bump, remaining, \* of the BumpAlloc of every bin, and of bigheap
  mapped,     \* the bytes the operating system has given
  sz,         \* the header: address of an object to its size
  myFreeList, \* of every bin
  binmap,     \* the bins marked
  memoryHeld,
  asked       \* the objects in use: address to the size asked for

vars == <<layer, bump, remaining, mapped, sz, myFreeList, binmap, memoryHeld, asked>>

Bins == 0 .. NUMBINS - 1
bigheap == NUMBINS

----------------------------------------------------------------------------
(* Size classes *)

cl == <<0, 1, 2, 2, 3, 3, 3, 3, 4, 4, 4, 4, 4, 4, 4, 4>>

class2Size(i) == 2 ^ (i + 3)

size2Class(n) ==
  IF n < 128 THEN cl[((n - 1) \div 8) + 1]
  ELSE 5 + (CHOOSE k \in 0 .. NUMBINS :
              LET left(j) == ((n - 1) \div 32) \div 2 ^ j
              IN left(k) <= 7 /\ \A j \in 0 .. k - 1 : left(j) > 7)

maxObjectSize == class2Size(NUMBINS - 1)

\* The class a freed object is filed under: all its objects are large enough.
FiledUnderOwn(n) == size2Class(n)
FiledUnder(n) ==
  CHOOSE c \in 0 .. size2Class(n) :
    class2Size(c) <= n /\ \A d \in c + 1 .. size2Class(n) : class2Size(d) > n

Init ==
  /\ layer \in {"StrictSegHeap", "SegHeap"}
  /\ bump = [h \in Bins \cup {bigheap} |-> 0]
  /\ remaining = [h \in Bins \cup {bigheap} |-> 0]
  /\ mapped = 0 /\ sz = <<>>
  /\ myFreeList = [b \in Bins |-> <<>>] /\ binmap = {} /\ memoryHeld = 0
  /\ asked = <<>>

----------------------------------------------------------------------------
Extend(f, a, v) == [x \in DOMAIN f \cup {a} |-> IF x = a THEN v ELSE f[x]]

\* BumpAlloc::refill gets a chunk of at least ChunkSize.
refill(n) == IF n < ChunkBytes THEN ChunkBytes ELSE n

\* SizeHeap::malloc over BumpAlloc::malloc.
Carve(h, n) ==
  LET need == n + Header
      full == remaining[h] < need
      start == IF full THEN mapped ELSE bump[h]
      space == IF full THEN refill(need) ELSE remaining[h]
  IN /\ Cardinality(DOMAIN sz) < MaxObjects
     /\ mapped' = IF full THEN mapped + space ELSE mapped
     /\ bump' = [bump EXCEPT ![h] = start + need]
     /\ remaining' = [remaining EXCEPT ![h] = space - need]
     /\ sz' = Extend(sz, start + Header, n)
     /\ asked' = Extend(asked, start + Header, n)
     /\ UNCHANGED myFreeList

\* FreelistHeap::malloc.
LittleMalloc(b, n) ==
  \/ myFreeList[b] = <<>> /\ Carve(b, n)
  \/ /\ myFreeList[b] # <<>>
     /\ myFreeList' = [myFreeList EXCEPT ![b] = Tail(@)]
     /\ asked' = Extend(asked, Head(myFreeList[b]), n)
     /\ UNCHANGED <<bump, remaining, mapped, sz>>

\* SegHeap::malloc: the first marked bin from the size's own on.
FirstMarked(c) == {b \in binmap : b >= c /\ \A d \in binmap : d >= c => b <= d}

malloc(n) ==
  /\ \/ n > maxObjectSize /\ Carve(bigheap, n)
     \/ /\ n <= maxObjectSize /\ layer = "StrictSegHeap"
        /\ LittleMalloc(size2Class(n), n)
     \/ /\ n <= maxObjectSize /\ layer = "SegHeap"
        /\ \/ \E b \in FirstMarked(size2Class(n)) : LittleMalloc(b, n)
           \/ FirstMarked(size2Class(n)) = {} /\ Carve(bigheap, n)
  /\ UNCHANGED <<layer, binmap, memoryHeld>>

InUseWithout(p) == [a \in DOMAIN asked \ {p} |-> asked[a]]

\* free: BumpAlloc does nothing for a large object, others are filed.
FreeLarge(p) ==
  /\ sz[p] > maxObjectSize
  /\ asked' = InUseWithout(p)
  /\ UNCHANGED <<layer, bump, remaining, mapped, sz, myFreeList, binmap, memoryHeld>>

FreeLittle(p) ==
  LET c == FiledUnder(sz[p]) IN
  /\ sz[p] <= maxObjectSize
  /\ myFreeList' = [myFreeList EXCEPT ![c] = <<p>> \o @]
  /\ binmap' = IF layer = "SegHeap" THEN binmap \cup {c} ELSE binmap
  /\ memoryHeld' = memoryHeld + sz[p]
  /\ asked' = InUseWithout(p)
  /\ UNCHANGED <<layer, bump, remaining, mapped, sz>>

Next ==
  \/ \E n \in Requests : malloc(n)
  \/ \E p \in DOMAIN asked :
       FreeLarge(p) \/ (memoryHeld < MaxHeld /\ FreeLittle(p))

Spec == Init /\ [][Next]_vars

----------------------------------------------------------------------------
Listed(p) == {at \in Bins \X (1 .. MaxObjects) :
                at[2] \in DOMAIN myFreeList[at[1]] /\ myFreeList[at[1]][at[2]] = p}

\* Whatever was asked for, freed, filed under another class and given out again,
\* an object in use is as large as its user asked, its header and memory are its
\* own, and it is on no free list; a free object is on one at most.
NodesFit ==
  /\ \A p \in DOMAIN asked : sz[p] >= asked[p] /\ Listed(p) = {}
  /\ \A p \in DOMAIN sz :
       /\ Cardinality(Listed(p)) <= 1
       /\ p >= Header /\ p + sz[p] <= mapped
       /\ \A q \in DOMAIN sz : p < q => p + sz[p] <= q - Header
=============================================================================
