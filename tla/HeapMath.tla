------------------------------ MODULE HeapMath ------------------------------
(***************************************************************************)
(* The integer functions that DieHard's heaps share.                       *)
(***************************************************************************)
EXTENDS Integers

\* std::bit_width: the number of bits of n.
BitWidth(n) == CHOOSE k \in 0 .. n : n < 2 ^ k /\ (k > 0 => 2 ^ (k - 1) <= n)

\* math/log2.h: the ceiling of the base-2 logarithm.
log2(sz) == IF sz <= 1 THEN 0 ELSE BitWidth(sz - 1)

\* The number of objects of the i-th of the miniheaps of a RandomHeap: the
\* first two have MinObjects, and each later one twice the one before.
MiniHeapObjects(min, i) == IF i = 0 THEN min ELSE min * 2 ^ (i - 1)

\* The miniheap that RandomHeap::getObject selects with the random bits v.
SelectMiniHeap(v) == log2(v + 1)
=============================================================================
