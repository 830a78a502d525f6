------------------------------ MODULE FreeQueue ------------------------------
(***************************************************************************)
(* PerThreadFreeQueue (globalfreepool.h): the lock-free ring in which      *)
(* threads that free somebody else's object leave it for the owner.        *)
(* Any number of producers run push(); one consumer, the owning thread,    *)
(* runs drain().                                                           *)
(*                                                                         *)
(* One action per access to shared memory: a load, a compare-and-swap or   *)
(* a store of _head, _tail or _slots, together with the local computation  *)
(* that follows it.  _head and _tail are size_t, counted modulo SizeMod.   *)
(* The relaxed load of _head in push() may return an old value; a producer *)
(* that loads it and is then delayed reaches the same states.              *)
(***************************************************************************)
EXTENDS Integers, Sequences

CONSTANTS
  Producers,  \* the threads that free objects they do not own
  Ptr,        \* the pointers they free
  NULL,       \* nullptr
  Capacity,   \* FREE_QUEUE_CAPACITY
  SizeMod,    \* the number of values of size_t (2^32 or 2^64)
  MaxPush     \* bound: the number of slots claimed in a behaviour

ASSUME CapacityAssumption == Capacity \in Nat /\ Capacity > 0

\* The static_assert of PerThreadFreeQueue.
ASSUME PowerOfTwoAssumption == \E k \in 0 .. Capacity : Capacity = 2 ^ k

ASSUME SizeAssumption ==
  /\ SizeMod \in Nat
  /\ SizeMod > Capacity
  /\ MaxPush \in Nat

\* Both are powers of two, so that a wrapped counter keeps its slot.
ASSUME WholeLapsAssumption == SizeMod % Capacity = 0

ASSUME NullAssumption == NULL \notin Ptr

VARIABLES
  head,       \* _head: next slot to claim
  tail,       \* _tail: next slot to drain, as the producers see it
  slots,      \* _slots: the ring
  ppc,        \* where each producer is in push()
  phead,      \* its local currentHead
  pptr,       \* its argument ptr
  cpc,        \* where the consumer is in drain()
  ctail,      \* its local currentTail
  chead,      \* its local currentHead
  cptr,       \* its local ptr
  accepted,   \* history: the pointers whose slot was claimed, in that order
  freed       \* history: the pointers handed to drain's callback

prodVars == <<ppc, phead, pptr>>
consVars == <<cpc, ctail, chead, cptr>>
vars == <<head, tail, slots, prodVars, consVars, accepted, freed>>

\* Unsigned arithmetic on size_t.
Inc(a) == IF a + 1 = SizeMod THEN 0 ELSE a + 1
Sub(a, b) == IF a >= b THEN a - b ELSE (a + SizeMod) - b

\* x & (FREE_QUEUE_CAPACITY - 1)
SlotOf(a) == a % Capacity

QInit ==
  /\ head = 0
  /\ tail = 0
  /\ slots = [i \in 0 .. Capacity - 1 |-> NULL]
  /\ ppc = [p \in Producers |-> "idle"]
  /\ phead = [p \in Producers |-> 0]
  /\ pptr = [p \in Producers |-> NULL]
  /\ cpc = "idle"
  /\ ctail = 0
  /\ chead = 0
  /\ cptr = NULL
  /\ accepted = << >>
  /\ freed = << >>

-----------------------------------------------------------------------------
(* push(ptr) *)

\* push() is called and loads _head.
PushLoadHead(p, o) ==
  /\ ppc[p] = "idle"
  /\ Len(accepted) < MaxPush
  /\ ppc' = [ppc EXCEPT ![p] = "check"]
  /\ phead' = [phead EXCEPT ![p] = head]
  /\ pptr' = [pptr EXCEPT ![p] = o]
  /\ UNCHANGED <<head, tail, slots, consVars, accepted, freed>>

\* Variant: off by one.
SeenFullTooLate(p) == Sub(phead[p], tail) > Capacity

\* The capacity test that follows the load of _tail.
SeenFull(p) == Sub(phead[p], tail) >= Capacity

\* push() returns and its locals go out of scope.
PushReturn(p) ==
  /\ ppc' = [ppc EXCEPT ![p] = "idle"]
  /\ phead' = [phead EXCEPT ![p] = 0]
  /\ pptr' = [pptr EXCEPT ![p] = NULL]

\* The queue looks full: push() returns false.
PushFull(p) ==
  /\ ppc[p] = "check"
  /\ SeenFull(p)
  /\ PushReturn(p)
  /\ UNCHANGED <<head, tail, slots, consVars, accepted, freed>>

PushCheck(p) ==
  /\ ppc[p] = "check"
  /\ ~SeenFull(p)
  /\ ppc' = [ppc EXCEPT ![p] = "cas"]
  /\ UNCHANGED <<head, tail, slots, phead, pptr, consVars, accepted, freed>>

\* Variant: a store of _head in place of the compare-and-swap.
PushClaimByStore(p) ==
  /\ ppc[p] = "cas"
  /\ Len(accepted) < MaxPush
  /\ head' = Inc(phead[p])
  /\ ppc' = [ppc EXCEPT ![p] = "store"]
  /\ accepted' = Append(accepted, pptr[p])
  /\ UNCHANGED <<tail, slots, phead, pptr, consVars, freed>>

\* compare_exchange_weak claims a slot.  The bound on the number of claims
\* is checked again, for producers that started before it was reached.
PushClaim(p) ==
  /\ ppc[p] = "cas"
  /\ phead[p] = head
  /\ Len(accepted) < MaxPush
  /\ head' = Inc(head)
  /\ ppc' = [ppc EXCEPT ![p] = "store"]
  /\ accepted' = Append(accepted, pptr[p])
  /\ UNCHANGED <<tail, slots, phead, pptr, consVars, freed>>

\* It fails, because _head moved or spuriously, and reloads currentHead.
PushRetry(p) ==
  /\ ppc[p] = "cas"
  /\ ppc' = [ppc EXCEPT ![p] = "check"]
  /\ phead' = [phead EXCEPT ![p] = head]
  /\ UNCHANGED <<head, tail, slots, pptr, consVars, accepted, freed>>

\* The pointer is stored in the claimed slot: push() returns true.
PushStore(p) ==
  /\ ppc[p] = "store"
  /\ slots' = [slots EXCEPT ![SlotOf(phead[p])] = pptr[p]]
  /\ PushReturn(p)
  /\ UNCHANGED <<head, tail, consVars, accepted, freed>>

-----------------------------------------------------------------------------
(* drain(callback) *)

\* drain() is called: the loads of _tail (which only the owner writes) and
\* of _head.
DrainBegin ==
  /\ cpc = "idle"
  /\ cpc' = "loop"
  /\ ctail' = tail
  /\ chead' = head
  /\ UNCHANGED <<head, tail, slots, prodVars, cptr, accepted, freed>>

\* The loop reads a slot that holds a pointer.
DrainLoad ==
  /\ cpc = "loop"
  /\ ctail < chead
  /\ slots[SlotOf(ctail)] # NULL
  /\ cptr' = slots[SlotOf(ctail)]
  /\ cpc' = "take"
  /\ UNCHANGED <<head, tail, slots, prodVars, ctail, chead, accepted, freed>>

\* Variant: the slot is not cleared.
DrainTakeKeeps ==
  /\ cpc = "take"
  /\ freed' = Append(freed, cptr)
  /\ ctail' = Inc(ctail)
  /\ cpc' = "loop"
  /\ UNCHANGED <<head, tail, slots, prodVars, chead, cptr, accepted>>

\* It clears the slot and runs the callback, which frees the object.
DrainTake ==
  /\ cpc = "take"
  /\ slots' = [slots EXCEPT ![SlotOf(ctail)] = NULL]
  /\ freed' = Append(freed, cptr)
  /\ ctail' = Inc(ctail)
  /\ cpc' = "loop"
  /\ UNCHANGED <<head, tail, prodVars, chead, cptr, accepted>>

\* A claimed slot is still empty: the loop stops.
DrainBreak ==
  /\ cpc = "loop"
  /\ ctail < chead
  /\ slots[SlotOf(ctail)] = NULL
  /\ cpc' = "end"
  /\ UNCHANGED <<head, tail, slots, prodVars, ctail, chead, cptr,
                 accepted, freed>>

\* Variant: the position read at the start is stored, past an empty slot.
DrainEndAtHead ==
  /\ \/ cpc = "loop" /\ ~(ctail < chead)
     \/ cpc = "end"
  /\ tail' = chead
  /\ cpc' = "idle"
  /\ cptr' = NULL
  /\ UNCHANGED <<head, slots, prodVars, ctail, chead, accepted, freed>>

\* The end of the loop, by its condition or by the break: _tail is stored.
DrainEnd ==
  /\ \/ cpc = "loop" /\ ~(ctail < chead)
     \/ cpc = "end"
  /\ tail' = ctail
  /\ cpc' = "idle"
  /\ cptr' = NULL
  /\ UNCHANGED <<head, slots, prodVars, ctail, chead, accepted, freed>>

-----------------------------------------------------------------------------

Push(p) ==
  \/ \E o \in Ptr : PushLoadHead(p, o)
  \/ PushFull(p)
  \/ PushCheck(p)
  \/ PushClaim(p)
  \/ PushRetry(p)
  \/ PushStore(p)

Drain == DrainBegin \/ DrainLoad \/ DrainTake \/ DrainBreak \/ DrainEnd

Next == (\E p \in Producers : Push(p)) \/ Drain

Spec == QInit /\ [][Next]_vars

\* A thread that has claimed a slot keeps running, and the owner keeps
\* calling drain.
FairSpec ==
  /\ Spec
  /\ \A p \in Producers : WF_vars(PushStore(p))
  /\ WF_vars(Drain)

-----------------------------------------------------------------------------
(* Properties.  NoWrap is the side condition of the proofs: the counters   *)
(* have not gone round size_t.                                             *)

NoWrap == MaxPush < SizeMod

\* The type invariant.  Its last parts say that drain() never calls its
\* callback with nullptr, which a claimed and unwritten slot still holds.
TypeOK ==
  /\ head \in 0 .. SizeMod - 1
  /\ tail \in 0 .. SizeMod - 1
  /\ slots \in [0 .. Capacity - 1 -> Ptr \cup {NULL}]
  /\ ppc \in [Producers -> {"idle", "check", "cas", "store"}]
  /\ phead \in [Producers -> 0 .. SizeMod - 1]
  /\ pptr \in [Producers -> Ptr \cup {NULL}]
  /\ \A p \in Producers : ppc[p] # "idle" => pptr[p] \in Ptr
  /\ cpc \in {"idle", "loop", "take", "end"}
  /\ ctail \in 0 .. SizeMod - 1
  /\ chead \in 0 .. SizeMod - 1
  /\ cptr \in Ptr \cup {NULL}
  /\ cpc = "take" => cptr \in Ptr
  /\ accepted \in Seq(Ptr)
  /\ freed \in Seq(Ptr)

\* The order of the counters: what was drained is behind the shared tail's
\* ring, and nobody's local copy is ahead of the shared counter.
CountersInv ==
  /\ head = Len(accepted)
  /\ ctail = Len(freed)
  /\ head <= MaxPush
  /\ tail <= ctail
  /\ ctail <= head
  /\ head <= tail + Capacity
  /\ cpc = "idle" => tail = ctail
  /\ cpc # "idle" => ctail <= chead /\ chead <= head
  /\ cpc = "take" => ctail < chead /\ cptr = slots[SlotOf(ctail)]
  /\ \A p \in Producers :
       /\ phead[p] <= head
       /\ ppc[p] = "cas" /\ phead[p] = head => head < tail + Capacity

\* A producer that claimed a slot owns it alone until it has written it.
Claimed(p) ==
  /\ ctail <= phead[p]
  /\ phead[p] < head
  /\ slots[SlotOf(phead[p])] = NULL
  /\ accepted[phead[p] + 1] = pptr[p]
  /\ \A q \in Producers \ {p} : ppc[q] = "store" => phead[q] # phead[p]

\* The ring from the drained position on: claimed positions hold what was
\* accepted there or wait for the producer that claimed them, the others
\* are empty.
RingInv ==
  /\ \A p \in Producers : ppc[p] = "store" => Claimed(p)
  /\ \A i \in ctail .. ctail + Capacity - 1 :
       IF i < head
         THEN \/ slots[SlotOf(i)] = accepted[i + 1]
              \/ /\ slots[SlotOf(i)] = NULL
                 /\ \E p \in Producers : ppc[p] = "store" /\ phead[p] = i
         ELSE slots[SlotOf(i)] = NULL

\* drain() hands its callback exactly the pointers that push() accepted,
\* each once and in the order their slots were claimed, whatever the
\* interleaving of claims, late stores and drains.
FreedOnceInOrder ==
  /\ Len(freed) <= Len(accepted)
  /\ \A i \in 1 .. Len(freed) : freed[i] = accepted[i]

\* The inductive invariant of the proofs: with the types, the order of the
\* counters and what each slot of the ring holds, at every step between a
\* claim, its store and the drain that meets or misses it.
IInv == TypeOK /\ CountersInv /\ RingInv /\ FreedOnceInOrder

\* No store ever overwrites a pointer that was not drained yet: a slot that
\* holds one keeps it or is cleared by the owner.
NoLostSlot ==
  [][\A i \in 0 .. Capacity - 1 :
        slots[i] # NULL => slots'[i] \in {slots[i], NULL}]_slots

\* The ring implements the promise.
PF == INSTANCE PendingFrees WITH
        Ptr <- Ptr, Capacity <- Capacity, accepted <- accepted, freed <- freed
RefinesPendingFrees == PF!Spec

\* If the owner keeps draining, every accepted free is performed: a slot
\* claimed and not yet written delays the frees behind it and loses none.
EveryFreePerformed ==
  \A n \in 1 .. MaxPush : Len(accepted) >= n ~> Len(freed) >= n
=============================================================================
