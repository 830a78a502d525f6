--------------------------- MODULE MCScalableHeap ---------------------------
(* ScalableHeap for TLC: threads and slots are interchangeable.  The        *)
(* registry is scanned in the order of the ids, not of the threads.         *)
EXTENDS ScalableHeap, TLC

Sym == Permutations(Threads) \cup Permutations(Slot)
=============================================================================
