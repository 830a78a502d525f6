---------------------------- MODULE ShuffleHeap ----------------------------
(***************************************************************************)
(* ShuffleHeap (shuffleheap.h), as libshuffle puts it over a Kingsley heap *)
(* and under one lock: a bin of shuffled objects per size class.  malloc   *)
(* swaps a new object with a random one of the bin, free evicts a random   *)
(* one.  The heap below is external: it hands out any object of the class  *)
(* that is not allocated.                                                  *)
(***************************************************************************)
EXTENDS Naturals

CONSTANTS
  ChunkSize,   \* the bytes of objects in a bin
  MaxBinned,   \* MaxSize: larger requests pass the bins by
  ClassSizes,  \* get_class_size: the sizes of the size classes
  Copies       \* bound: how many objects of a class exist

\* An object is <<its size, a number>>.
NULL == <<0, 0>>
Objects == ClassSizes \X (1 .. Copies)

\* The slots of a class's bin.
Slots(c) == 0 .. (ChunkSize \div c) - 1

VARIABLES
  buffer,   \* _buffer: class, slot to object
  filled,   \* _is_filled: the classes whose bin was filled
  taken,    \* the objects allocated in the heap below
  held,     \* the objects the program holds
  crashed   \* 0, or the size of the object whose free crashed

vars == <<buffer, filled, taken, held, crashed>>

Init ==
  /\ buffer = [c \in ClassSizes |-> [j \in Slots(c) |-> NULL]]
  /\ filled = {} /\ taken = {} /\ held = {} /\ crashed = 0

get_size_class(sz) == CHOOSE c \in ClassSizes :
                        c >= sz /\ \A d \in ClassSizes : d >= sz => c <= d

\* What the heap below may hand out.
SuperMalloc(c) == {o \in Objects : o[1] = c} \ taken

\* A request over MaxSize goes to the heap below.
MallocBig(sz) ==
  /\ crashed = 0 /\ sz > MaxBinned
  /\ \E o \in SuperMalloc(get_size_class(sz)) :
       taken' = taken \cup {o} /\ held' = held \cup {o}
  /\ UNCHANGED <<buffer, filled, crashed>>

\* fill: the contents of a bin that is filled for the first time.
fill(c) ==
  {f \in [Slots(c) -> SuperMalloc(c)] :
     \A i, j \in Slots(c) : i # j => f[i] # f[j]}

\* malloc fills the bin if need be, takes an object from the heap below and
\* swaps it with the one in a random slot.
malloc(sz) ==
  LET c == get_size_class(sz) IN
  /\ crashed = 0 /\ sz <= MaxBinned
  /\ \E bin \in (IF c \in filled THEN {buffer[c]} ELSE fill(c)) :
     LET now == taken \cup ({bin[j] : j \in Slots(c)} \ {NULL}) IN
     \E o \in SuperMalloc(c) \ now, j \in Slots(c) :
       /\ taken' = now \cup {o}
       /\ buffer' = [buffer EXCEPT ![c] = [bin EXCEPT ![j] = o]]
       /\ held' = held \cup {bin[j]}
  /\ filled' = filled \cup {c}
  /\ crashed' = crashed

\* free swaps the object with the one in a random slot of its class's bin and
\* frees that one.  A class with no slot divides by zero; a slot of a bin that
\* was never filled is the null pointer, whose size the heap below reads.
FreeNoSwap(o) ==
  LET c == o[1] IN
  /\ crashed = 0 /\ o \in held
  /\ held' = held \ {o}
  /\ \E j \in Slots(c) : taken' = taken \ {buffer[c][j]}
  /\ UNCHANGED <<buffer, filled, crashed>>

free(o) ==
  LET c == o[1] IN
  /\ crashed = 0 /\ o \in held
  /\ held' = held \ {o}
  /\ \/ /\ Slots(c) = {}
        /\ crashed' = c /\ UNCHANGED <<buffer, taken>>
     \/ \E j \in Slots(c) :
          /\ buffer' = [buffer EXCEPT ![c][j] = o]
          /\ IF buffer[c][j] = NULL
             THEN crashed' = c /\ taken' = taken
             ELSE crashed' = crashed /\ taken' = taken \ {buffer[c][j]}
  /\ filled' = filled

Next ==
  \/ \E sz \in 1 .. (CHOOSE c \in ClassSizes : \A d \in ClassSizes : d <= c) :
       MallocBig(sz) \/ malloc(sz)
  \/ \E o \in held : free(o)

Spec == Init /\ [][Next]_vars

----------------------------------------------------------------------------
\* The objects in the slots of the bins.
Binned == (UNION {{buffer[c][j] : j \in Slots(c)} : c \in ClassSizes}) \ {NULL}

\* No swap loses or duplicates an object: what the heap below has given out is
\* either in one slot of one bin or with the program, malloc never returns the
\* null slot of a bin, and free fails only for objects larger than MaxSize,
\* whose bins are never filled.
NothingLost ==
  /\ crashed = 0 => taken = held \cup Binned
  /\ held \cap Binned = {} /\ NULL \notin held
  /\ \A c \in filled : \A i, j \in Slots(c) : i # j => buffer[c][i] # buffer[c][j]
  /\ crashed # 0 => crashed > MaxBinned
=============================================================================
