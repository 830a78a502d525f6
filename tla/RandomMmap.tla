----------------------------- MODULE RandomMmap -----------------------------
(***************************************************************************)
(* RandomMmap (randommmap.h) and the BitMap it keeps (util/bitmap.h): runs *)
(* of pages of one reserved region, handed out at random places.  A thread *)
(* that maps holds the lock while it probes: it sets the bits of a run one *)
(* after the other and takes them back when one was set already.           *)
(***************************************************************************)
EXTENDS Naturals

CONSTANTS
  Mappers,    \* the threads
  Nobody,     \* nobody holds the lock
  PageBytes,  \* CPUInfo::PageSize
  PAGES,      \* the number of pages of the region
  WORDBITS,   \* the number of bits in a word of the bitmap
  Bytes       \* bound: the sizes that are requested

VARIABLES
  word,       \* _bitarray: item to the positions that are set
  holder,     \* who holds _lock
  asked,      \* the size that the holder asks for, 0 if it asks for none
  open,       \* the pages that are not protected
  runs        \* what the callers hold: <<address, size>>

vars == <<word, holder, asked, open, runs>>

Index == 0 .. PAGES - 1

----------------------------------------------------------------------------
(* The bitmap *)

Item(i) == i \div WORDBITS
Position(i) == i % WORDBITS

\* reserve rounds the number of elements up to whole words, and clears them.
reserve == [item \in 0 .. ((PAGES + WORDBITS - 1) \div WORDBITS) - 1 |-> {}]

isSet(i) == Position(i) \in word[Item(i)]

\* The words after tryToSet, or reset, of all indexes in I.
SetAll(I) == [w \in DOMAIN word |->
                word[w] \cup {Position(i) : i \in {j \in I : Item(j) = w}}]
ResetAll(I) == [w \in DOMAIN word |->
                  word[w] \ {Position(i) : i \in {j \in I : Item(j) = w}}]

----------------------------------------------------------------------------
Init ==
  /\ word = reserve /\ holder = Nobody /\ asked = 0
  /\ open = {} /\ runs = {}

npages(sz) == (sz + PageBytes - 1) \div PageBytes

\* map takes the lock.
MapLock(t, sz) ==
  /\ holder = Nobody
  /\ holder' = t /\ asked' = sz
  /\ UNCHANGED <<word, open, runs>>

\* One probe at a random index.  The bits before the first one that was set
\* are reset again, and map probes anew.  (Variant: that one too.)
UndoneTooFar(index, i) == index .. index + i
Undone(index, i) == index .. index + i - 1

Probe(index) ==
  LET n == npages(asked)
      taken == {i \in 0 .. n - 1 : isSet(index + i)}
  IN /\ asked > 0
     /\ index \in 0 .. PAGES - n
     /\ IF taken = {}
        THEN /\ word' = SetAll(index .. index + n - 1)
             /\ open' = open \cup (index .. index + n - 1)
             /\ runs' = runs \cup {<<index * PageBytes, asked>>}
             /\ holder' = Nobody /\ asked' = 0
        ELSE LET i == CHOOSE i \in taken : \A j \in taken : i <= j
             IN /\ word' = ResetAll(Undone(index, i))
                /\ UNCHANGED <<holder, asked, open, runs>>

\* unmap of a run by its address and size, under the lock.
unmap(r) ==
  LET index == r[1] \div PageBytes
      pages == index .. index + npages(r[2]) - 1
  IN /\ holder = Nobody /\ r \in runs
     /\ word' = ResetAll(pages)
     /\ open' = open \ pages
     /\ runs' = runs \ {r}
     /\ UNCHANGED <<holder, asked>>

Next ==
  \/ \E t \in Mappers, sz \in Bytes : MapLock(t, sz)
  \/ \E index \in Index : Probe(index)
  \/ \E r \in runs : unmap(r)

Spec == Init /\ [][Next]_vars

----------------------------------------------------------------------------
PagesOfRun(r) == {p \in Index : /\ p * PageBytes < r[1] + r[2]
                                /\ (p + 1) * PageBytes > r[1]}

\* However the probes of others fail half-way, no page is in two runs, and the
\* bits set in the bitmap and the pages that can be accessed are those of the
\* runs that are held.
RunsExclusive ==
  /\ \A r, q \in runs : r # q => PagesOfRun(r) \cap PagesOfRun(q) = {}
  /\ open = UNION {PagesOfRun(r) : r \in runs}
  /\ \A p \in Index : isSet(p) <=> p \in open
=============================================================================
