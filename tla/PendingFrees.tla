---------------------------- MODULE PendingFrees ----------------------------
(***************************************************************************)
(* What PerThreadFreeQueue promises its callers, without the ring: the     *)
(* frees it accepts are performed by the owner exactly once each, in the   *)
(* order they were accepted, and at most Capacity of them are pending.     *)
(***************************************************************************)
EXTENDS Integers, Sequences

CONSTANTS Ptr, Capacity

VARIABLES accepted, freed

Pending == Len(accepted) - Len(freed)

Init ==
  /\ accepted = << >>
  /\ freed = << >>

\* A push that returns true.
Accept(o) ==
  /\ Pending < Capacity
  /\ accepted' = Append(accepted, o)
  /\ UNCHANGED freed

\* The owner performs the oldest pending free.
Deliver ==
  /\ Pending > 0
  /\ freed' = Append(freed, accepted[Len(freed) + 1])
  /\ UNCHANGED accepted

Next == (\E o \in Ptr : Accept(o)) \/ Deliver

Spec == Init /\ [][Next]_<<accepted, freed>>
=============================================================================
