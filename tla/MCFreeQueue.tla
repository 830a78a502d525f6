---------------------------- MODULE MCFreeQueue ----------------------------
(* Small instances of FreeQueue for TLC. *)
EXTENDS FreeQueue, TLC

\* Producers and pointers are only compared for equality.
Sym == Permutations(Producers) \cup Permutations(Ptr)
=============================================================================
