---------------------------- MODULE MCRandomHeap ----------------------------
(* Small instances of RandomHeap for TLC. *)
EXTENDS RandomHeap, TLC

\* Threads are only compared for equality.
Sym == Permutations(Threads)
=============================================================================
