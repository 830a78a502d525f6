--------------------------- MODULE FreeQueueProofs ---------------------------
(***************************************************************************)
(* Proofs about FreeQueue for every number of producers, every capacity    *)
(* and every length of history that does not wrap size_t.                  *)
(***************************************************************************)
EXTENDS FreeQueue, TLAPS

\* A position's slot is one of the ring's.
LEMMA SlotRange ==
  ASSUME NEW i \in Nat
  PROVE  SlotOf(i) \in 0 .. Capacity - 1
  BY CapacityAssumption, Z3 DEF SlotOf

\* A position is its lap times the capacity plus its slot.
LEMMA LapAndSlot ==
  ASSUME NEW i \in Nat
  PROVE  \E a \in Int : i = Capacity * a + SlotOf(i)
<1>1. i \div Capacity \in Int
  BY CapacityAssumption, Z3
<1>2. i = Capacity * (i \div Capacity) + (i % Capacity)
  BY CapacityAssumption, Z3
<1>3. QED
  BY <1>1, <1>2 DEF SlotOf

\* The only multiple of the capacity closer to zero than it is zero.
LEMMA SmallMultiple ==
  ASSUME NEW c \in Int, -Capacity < Capacity * c, Capacity * c < Capacity
  PROVE  c = 0
<1>1. c < 1
  <2>1. SUFFICES ASSUME c >= 1 PROVE FALSE
    OBVIOUS
  <2>2. Capacity * c >= Capacity
    BY <2>1, CapacityAssumption, Z3
  <2>3. QED
    BY <2>2, CapacityAssumption
<1>2. c > -1
  <2>1. SUFFICES ASSUME c <= -1 PROVE FALSE
    OBVIOUS
  <2>2. Capacity * c <= -Capacity
    BY <2>1, CapacityAssumption, Z3
  <2>3. QED
    BY <2>2, CapacityAssumption
<1>3. QED
  BY <1>1, <1>2

\* Positions less than Capacity apart have different slots.
LEMMA SlotDistinct ==
  ASSUME NEW i \in Nat, NEW j \in Nat, i < j, j < i + Capacity
  PROVE  SlotOf(i) # SlotOf(j)
<1>1. SUFFICES ASSUME SlotOf(i) = SlotOf(j) PROVE FALSE
  OBVIOUS
<1>2. PICK a \in Int : i = Capacity * a + SlotOf(i)
  BY LapAndSlot
<1>3. PICK b \in Int : j = Capacity * b + SlotOf(i)
  BY <1>1, LapAndSlot
<1>4. SlotOf(i) \in Int
  BY SlotRange, CapacityAssumption
<1>5. j - i = Capacity * (b - a)
  BY <1>2, <1>3, <1>4, CapacityAssumption
<1>6. b - a = 0
  BY <1>5, SmallMultiple, CapacityAssumption
<1>7. QED
  BY <1>5, <1>6, CapacityAssumption

\* The position Capacity further on has the same slot.
LEMMA SlotPeriod ==
  ASSUME NEW i \in Nat
  PROVE  SlotOf(i + Capacity) = SlotOf(i)
<1>0. PICK j \in Nat : j = i + Capacity
  BY CapacityAssumption
<1>1. PICK a \in Int : i = Capacity * a + SlotOf(i)
  BY LapAndSlot
<1>2. PICK b \in Int : j = Capacity * b + SlotOf(j)
  BY LapAndSlot
<1>3. SlotOf(i) \in 0 .. Capacity - 1 /\ SlotOf(j) \in 0 .. Capacity - 1
  BY SlotRange
<1>4. SlotOf(i) - SlotOf(j) = Capacity * (b - a - 1)
  BY <1>0, <1>1, <1>2, <1>3, CapacityAssumption
<1>5. b - a - 1 = 0
  BY <1>3, <1>4, SmallMultiple, CapacityAssumption
<1>6. QED
  BY <1>0, <1>3, <1>4, <1>5, CapacityAssumption

-----------------------------------------------------------------------------

\* Without a wrap, claiming and draining add one to the counters.
LEMMA IncNoWrap ==
  ASSUME NoWrap, NEW a \in Nat, a < MaxPush
  PROVE  Inc(a) = a + 1
  BY SizeAssumption DEF NoWrap, Inc

\* An empty ring satisfies the inductive invariant.
LEMMA InitIInv == QInit => IInv
<1> SUFFICES ASSUME QInit PROVE IInv
  OBVIOUS
<1>1. TypeOK
  BY CapacityAssumption, SizeAssumption DEF QInit, TypeOK
<1>2. CountersInv
  BY CapacityAssumption, SizeAssumption DEF QInit, CountersInv
<1>3. RingInv
  BY CapacityAssumption, SlotRange DEF QInit, RingInv
<1>4. FreedOnceInOrder
  BY DEF QInit, FreedOnceInOrder
<1>5. QED
  BY <1>1, <1>2, <1>3, <1>4 DEF IInv

\* The type invariant is inductive by itself.
LEMMA TypeStep == TypeOK /\ [Next]_vars => TypeOK'
<1> SUFFICES ASSUME TypeOK, [Next]_vars PROVE TypeOK'
  OBVIOUS
<1> USE DEF TypeOK, prodVars, consVars
<1>1. \A a \in 0 .. SizeMod - 1 : Inc(a) \in 0 .. SizeMod - 1
  BY SizeAssumption, CapacityAssumption DEF Inc
<1>2. ASSUME NEW a \in 0 .. SizeMod - 1
      PROVE  SlotOf(a) \in 0 .. Capacity - 1
  <2>1. a \in Nat
    BY SizeAssumption
  <2>2. QED
    BY <2>1, SlotRange
<1>3. ASSUME NEW p \in Producers, NEW o \in Ptr, PushLoadHead(p, o)
      PROVE  TypeOK'
  BY <1>3 DEF PushLoadHead
<1>4. ASSUME NEW p \in Producers, PushFull(p) PROVE TypeOK'
  BY <1>4, SizeAssumption, CapacityAssumption DEF PushFull, PushReturn
<1>5. ASSUME NEW p \in Producers, PushCheck(p) PROVE TypeOK'
  BY <1>5 DEF PushCheck
<1>6. ASSUME NEW p \in Producers, PushClaim(p) PROVE TypeOK'
  <2>1. pptr[p] \in Ptr
    BY <1>6 DEF PushClaim
  <2>2. accepted' \in Seq(Ptr) /\ head' \in 0 .. SizeMod - 1
    BY <1>1, <1>6, <2>1 DEF PushClaim
  <2>3. QED
    BY <1>6, <2>2 DEF PushClaim
<1>7. ASSUME NEW p \in Producers, PushRetry(p) PROVE TypeOK'
  BY <1>7 DEF PushRetry
<1>8. ASSUME NEW p \in Producers, PushStore(p) PROVE TypeOK'
  BY <1>2, <1>8, SizeAssumption, CapacityAssumption
  DEF PushStore, PushReturn
<1>9. CASE DrainBegin
  BY <1>9 DEF DrainBegin
<1>10. CASE DrainLoad
  BY <1>2, <1>10 DEF DrainLoad
<1>11. CASE DrainTake
  <2>1. freed' \in Seq(Ptr) /\ ctail' \in 0 .. SizeMod - 1
    BY <1>1, <1>11 DEF DrainTake
  <2>2. slots' \in [0 .. Capacity - 1 -> Ptr \cup {NULL}]
    BY <1>11 DEF DrainTake
  <2>3. QED
    BY <1>11, <2>1, <2>2 DEF DrainTake
<1>12. CASE DrainBreak
  BY <1>12 DEF DrainBreak
<1>13. CASE DrainEnd
  BY <1>13 DEF DrainEnd
<1>14. CASE UNCHANGED vars
  BY <1>14 DEF vars
<1>15. QED
  BY <1>3, <1>4, <1>5, <1>6, <1>7, <1>8, <1>9, <1>10, <1>11, <1>12, <1>13,
     <1>14 DEF Next, Push, Drain

\* TypeOK always holds, wrapped counters included: the type of every
\* variable, and that a producer in push() and the callback of drain()
\* always have a pointer that is not null.
THEOREM TypeCorrect == Spec => []TypeOK
<1>1. QInit => TypeOK
  BY InitIInv DEF IInv
<1>2. QED
  BY <1>1, TypeStep, PTL DEF Spec

-----------------------------------------------------------------------------

\* Every step of push() and drain() keeps the counters in order.
LEMMA CountersStep ==
  ASSUME NoWrap, IInv, [Next]_vars
  PROVE  CountersInv'
<1> USE DEF IInv, CountersInv, prodVars, consVars
<1>0. TypeOK'
  BY TypeStep
<1>1. /\ head \in Nat /\ tail \in Nat /\ ctail \in Nat /\ chead \in Nat
      /\ phead \in [Producers -> Nat]
      /\ Capacity \in Nat /\ Capacity > 0 /\ MaxPush \in Nat
      /\ ppc \in [Producers -> {"idle", "check", "cas", "store"}]
      /\ accepted \in Seq(Ptr) /\ freed \in Seq(Ptr)
  BY SizeAssumption, CapacityAssumption DEF TypeOK
<1>2. ASSUME NEW p \in Producers, NEW o \in Ptr, PushLoadHead(p, o)
      PROVE  CountersInv'
  BY <1>1, <1>2 DEF PushLoadHead
<1>3. ASSUME NEW p \in Producers, PushFull(p) PROVE CountersInv'
  BY <1>1, <1>3 DEF PushFull, PushReturn
<1>4. ASSUME NEW p \in Producers, PushCheck(p) PROVE CountersInv'
  <2>1. phead[p] = head => head < tail + Capacity
    BY <1>1, <1>4 DEF PushCheck, SeenFull, Sub
  <2>2. QED
    BY <1>1, <1>4, <2>1 DEF PushCheck
<1>5. ASSUME NEW p \in Producers, PushClaim(p) PROVE CountersInv'
  <2>1. head' = head + 1 /\ head + 1 <= MaxPush
    BY <1>1, <1>5, IncNoWrap DEF PushClaim
  <2>2. Len(accepted') = Len(accepted) + 1
    BY <1>1, <1>5 DEF PushClaim, TypeOK
  <2>3. QED
    BY <1>1, <1>5, <2>1, <2>2 DEF PushClaim
<1>6. ASSUME NEW p \in Producers, PushRetry(p) PROVE CountersInv'
  BY <1>1, <1>6 DEF PushRetry
<1>7. ASSUME NEW p \in Producers, PushStore(p) PROVE CountersInv'
  <2>1. cpc = "take" => slots'[SlotOf(ctail)] = slots[SlotOf(ctail)]
    <3>1. SUFFICES ASSUME cpc = "take"
                   PROVE  SlotOf(phead[p]) # SlotOf(ctail)
      BY <1>7 DEF PushStore
    <3>2. slots[SlotOf(phead[p])] = NULL
      BY <1>7 DEF PushStore, RingInv, Claimed
    <3>3. slots[SlotOf(ctail)] # NULL
      BY <3>1, NullAssumption DEF TypeOK
    <3>4. QED
      BY <3>2, <3>3
  <2>2. QED
    BY <1>1, <1>7, <2>1 DEF PushStore, PushReturn
<1>8. CASE DrainBegin
  BY <1>1, <1>8 DEF DrainBegin
<1>9. CASE DrainLoad
  BY <1>1, <1>9 DEF DrainLoad
<1>10. CASE DrainTake
  <2>1. ctail < chead /\ chead <= head
    BY <1>10 DEF DrainTake
  <2>2. ctail' = ctail + 1
    BY <1>1, <1>10, <2>1, IncNoWrap DEF DrainTake
  <2>3. Len(freed') = Len(freed) + 1
    BY <1>1, <1>10 DEF DrainTake, TypeOK
  <2>4. QED
    BY <1>1, <1>10, <2>1, <2>2, <2>3 DEF DrainTake
<1>11. CASE DrainBreak
  BY <1>1, <1>11 DEF DrainBreak
<1>12. CASE DrainEnd
  BY <1>1, <1>12 DEF DrainEnd
<1>13. CASE UNCHANGED vars
  BY <1>13 DEF vars
<1>14. QED
  BY <1>2, <1>3, <1>4, <1>5, <1>6, <1>7, <1>8, <1>9, <1>10, <1>11, <1>12,
     <1>13 DEF Next, Push, Drain

\* The ring's window of Capacity positions: their slots are all different.
LEMMA WindowDistinct ==
  ASSUME NEW c \in Nat, NEW i \in c .. c + Capacity - 1,
         NEW j \in c .. c + Capacity - 1, i # j
  PROVE  SlotOf(i) # SlotOf(j)
<1>1. i \in Nat /\ j \in Nat
  BY CapacityAssumption
<1>2. CASE i < j
  BY <1>1, <1>2, SlotDistinct, CapacityAssumption
<1>3. CASE j < i
  BY <1>1, <1>3, SlotDistinct, CapacityAssumption
<1>4. QED
  BY <1>1, <1>2, <1>3

\* Every step keeps the claimed slots and the window of the ring right.
LEMMA RingStep ==
  ASSUME NoWrap, IInv, [Next]_vars
  PROVE  RingInv'
<1> USE DEF IInv, prodVars, consVars
<1>0. CountersInv' /\ TypeOK'
  BY TypeStep, CountersStep
<1>1. /\ head \in Nat /\ tail \in Nat /\ ctail \in Nat /\ chead \in Nat
      /\ phead \in [Producers -> Nat]
      /\ Capacity \in Nat /\ Capacity > 0 /\ MaxPush \in Nat
      /\ ppc \in [Producers -> {"idle", "check", "cas", "store"}]
      /\ accepted \in Seq(Ptr) /\ freed \in Seq(Ptr)
      /\ head = Len(accepted) /\ ctail = Len(freed)
      /\ tail <= ctail /\ ctail <= head /\ head <= tail + Capacity
  BY SizeAssumption, CapacityAssumption DEF TypeOK, CountersInv
<1>2. ASSUME NEW p \in Producers, ppc[p] # "store", ppc'[p] # "store",
             ppc' = [ppc EXCEPT ![p] = ppc'[p]],
             \A q \in Producers \ {p} :
                  phead'[q] = phead[q] /\ pptr'[q] = pptr[q],
             UNCHANGED <<head, slots, ctail, accepted>>
      PROVE  RingInv'
  <2>1. \A q \in Producers :
          /\ ppc'[q] = "store" <=> ppc[q] = "store"
          /\ ppc[q] = "store" => phead'[q] = phead[q] /\ pptr'[q] = pptr[q]
    BY <1>1, <1>2
  <2>2. ASSUME NEW q \in Producers, ppc'[q] = "store" PROVE Claimed(q)'
    <3>1. Claimed(q)
      BY <2>1, <2>2 DEF RingInv
    <3>2. QED
      BY <1>2, <2>1, <2>2, <3>1 DEF Claimed
  <2>3. ASSUME NEW i \in ctail .. ctail + Capacity - 1
        PROVE  IF i < head
                 THEN \/ slots[SlotOf(i)] = accepted[i + 1]
                      \/ /\ slots[SlotOf(i)] = NULL
                         /\ \E q \in Producers :
                              ppc'[q] = "store" /\ phead'[q] = i
                 ELSE slots[SlotOf(i)] = NULL
    BY <2>1 DEF RingInv
  <2>4. QED
    BY <1>2, <2>2, <2>3 DEF RingInv
<1>3. ASSUME NEW p \in Producers, PushClaim(p) PROVE RingInv'
  <2>1. head' = head + 1
    BY <1>1, <1>3, IncNoWrap DEF PushClaim
  <2>2. /\ Len(accepted') = head + 1
        /\ accepted'[head + 1] = pptr[p]
        /\ \A i \in 1 .. head : accepted'[i] = accepted[i]
    BY <1>1, <1>3 DEF PushClaim, TypeOK
  <2>3. head \in ctail .. ctail + Capacity - 1
    BY <1>1, <1>3 DEF PushClaim, CountersInv
  <2>4. slots[SlotOf(head)] = NULL
    BY <1>1, <2>3 DEF RingInv
  <2>5. ppc' = [ppc EXCEPT ![p] = "store"]
        /\ phead[p] = head
        /\ UNCHANGED <<tail, slots, phead, pptr, ctail, freed>>
    BY <1>3 DEF PushClaim
  <2>6. ASSUME NEW q \in Producers, ppc'[q] = "store" PROVE Claimed(q)'
    <3>1. CASE q = p
      BY <1>1, <2>1, <2>2, <2>4, <2>5, <3>1 DEF Claimed, RingInv
    <3>2. CASE q # p
      <4>1. Claimed(q)
        BY <1>1, <2>5, <2>6, <3>2 DEF RingInv
      <4>2. phead[q] + 1 \in 1 .. head
        BY <1>1, <4>1 DEF Claimed
      <4>3. QED
        BY <1>1, <2>1, <2>2, <2>5, <3>2, <4>1, <4>2 DEF Claimed
    <3>3. QED
      BY <3>1, <3>2
  <2>7. ASSUME NEW i \in ctail .. ctail + Capacity - 1
        PROVE  IF i < head + 1
                 THEN \/ slots[SlotOf(i)] = accepted'[i + 1]
                      \/ /\ slots[SlotOf(i)] = NULL
                         /\ \E q \in Producers :
                              ppc'[q] = "store" /\ phead[q] = i
                 ELSE slots[SlotOf(i)] = NULL
    <3>1. CASE i < head
      BY <1>1, <2>2, <2>5, <3>1 DEF RingInv
    <3>2. CASE i = head
      BY <1>1, <2>4, <2>5, <3>2
    <3>3. CASE i > head
      BY <1>1, <3>3 DEF RingInv
    <3>4. QED
      BY <1>1, <3>1, <3>2, <3>3
  <2>8. QED
    BY <2>1, <2>5, <2>6, <2>7 DEF RingInv
<1>4. ASSUME NEW p \in Producers, PushStore(p) PROVE RingInv'
  <2>1. Claimed(p)
    BY <1>4 DEF PushStore, RingInv
  <2>2. /\ phead[p] \in ctail .. ctail + Capacity - 1
        /\ phead[p] < head
        /\ accepted[phead[p] + 1] = pptr[p]
    BY <1>1, <2>1 DEF Claimed
  <2>3. SlotOf(phead[p]) \in 0 .. Capacity - 1
    BY <1>1, SlotRange
  <2>4. /\ slots' = [slots EXCEPT ![SlotOf(phead[p])] = pptr[p]]
        /\ ppc' = [ppc EXCEPT ![p] = "idle"]
        /\ \A q \in Producers \ {p} : phead'[q] = phead[q] /\ pptr'[q] = pptr[q]
        /\ UNCHANGED <<head, ctail, accepted>>
    BY <1>1, <1>4 DEF PushStore, PushReturn
  <2>5. slots'[SlotOf(phead[p])] = pptr[p]
    BY <2>3, <2>4 DEF TypeOK
  <2>6. ASSUME NEW i \in ctail .. ctail + Capacity - 1, i # phead[p]
        PROVE  slots'[SlotOf(i)] = slots[SlotOf(i)]
    <3>1. SlotOf(i) # SlotOf(phead[p])
      BY <1>1, <2>2, <2>6, WindowDistinct
    <3>2. QED
      BY <2>4, <3>1 DEF TypeOK
  <2>7. ASSUME NEW q \in Producers, ppc'[q] = "store" PROVE Claimed(q)'
    <3>1. q # p /\ ppc[q] = "store"
      BY <1>1, <2>4, <2>7
    <3>2. Claimed(q) /\ phead[q] # phead[p]
      BY <1>4, <2>1, <3>1 DEF RingInv, Claimed, PushStore
    <3>3. phead[q] \in ctail .. ctail + Capacity - 1
      BY <1>1, <3>2 DEF Claimed
    <3>4. slots'[SlotOf(phead[q])] = NULL
      BY <2>6, <3>2, <3>3 DEF Claimed
    <3>5. QED
      BY <1>1, <2>4, <3>1, <3>2, <3>4 DEF Claimed
  <2>8. ASSUME NEW i \in ctail .. ctail + Capacity - 1
        PROVE  IF i < head
                 THEN \/ slots'[SlotOf(i)] = accepted[i + 1]
                      \/ /\ slots'[SlotOf(i)] = NULL
                         /\ \E q \in Producers :
                              ppc'[q] = "store" /\ phead'[q] = i
                 ELSE slots'[SlotOf(i)] = NULL
    <3>1. CASE i = phead[p]
      BY <2>2, <2>5, <3>1
    <3>2. CASE i # phead[p]
      <4>1. slots'[SlotOf(i)] = slots[SlotOf(i)]
        BY <2>6, <3>2
      <4>2. CASE i < head /\ slots[SlotOf(i)] # accepted[i + 1]
        <5>1. PICK q \in Producers : ppc[q] = "store" /\ phead[q] = i
          BY <4>2 DEF RingInv
        <5>2. ppc'[q] = "store" /\ phead'[q] = i
          BY <1>1, <2>4, <3>2, <5>1
        <5>3. QED
          BY <4>1, <4>2, <5>2 DEF RingInv
      <4>3. CASE ~(i < head /\ slots[SlotOf(i)] # accepted[i + 1])
        BY <4>1, <4>3 DEF RingInv
      <4>4. QED
        BY <4>2, <4>3
    <3>3. QED
      BY <3>1, <3>2
  <2>9. QED
    BY <2>4, <2>7, <2>8 DEF RingInv
<1>5. CASE DrainTake
  <2>1. ctail < chead /\ chead <= head /\ cptr = slots[SlotOf(ctail)]
    BY <1>5 DEF DrainTake, CountersInv
  <2>2. ctail' = ctail + 1
    BY <1>1, <1>5, <2>1, IncNoWrap DEF DrainTake, CountersInv
  <2>3. /\ slots' = [slots EXCEPT ![SlotOf(ctail)] = NULL]
        /\ UNCHANGED <<head, ppc, phead, pptr, accepted>>
    BY <1>5 DEF DrainTake
  <2>4. SlotOf(ctail) \in 0 .. Capacity - 1
    BY <1>1, SlotRange
  <2>5. slots[SlotOf(ctail)] # NULL
    BY <1>5, <2>1, NullAssumption DEF DrainTake, TypeOK
  <2>6. ASSUME NEW i \in ctail + 1 .. ctail + Capacity - 1
        PROVE  slots'[SlotOf(i)] = slots[SlotOf(i)]
    <3>1. i \in ctail .. ctail + Capacity - 1 /\ i # ctail
          /\ ctail \in ctail .. ctail + Capacity - 1
      BY <1>1
    <3>2. SlotOf(i) # SlotOf(ctail)
      BY <1>1, <3>1, WindowDistinct
    <3>3. QED
      BY <2>3, <3>2 DEF TypeOK
  <2>7. ASSUME NEW q \in Producers, ppc[q] = "store" PROVE Claimed(q)'
    <3>1. Claimed(q)
      BY <2>7 DEF RingInv
    <3>2. phead[q] # ctail
      BY <2>5, <3>1 DEF Claimed
    <3>3. phead[q] \in ctail + 1 .. ctail + Capacity - 1
      BY <1>1, <3>1, <3>2 DEF Claimed
    <3>4. slots'[SlotOf(phead[q])] = NULL
      BY <2>6, <3>1, <3>3 DEF Claimed
    <3>5. QED
      BY <1>1, <2>2, <2>3, <3>1, <3>3, <3>4 DEF Claimed
  <2>8. ASSUME NEW i \in ctail + 1 .. ctail + Capacity
        PROVE  IF i < head
                 THEN \/ slots'[SlotOf(i)] = accepted[i + 1]
                      \/ /\ slots'[SlotOf(i)] = NULL
                         /\ \E q \in Producers :
                              ppc[q] = "store" /\ phead[q] = i
                 ELSE slots'[SlotOf(i)] = NULL
    <3>1. CASE i = ctail + Capacity
      <4>1. SlotOf(i) = SlotOf(ctail)
        BY <1>1, <3>1, SlotPeriod
      <4>2. slots'[SlotOf(i)] = NULL
        BY <2>3, <2>4, <4>1 DEF TypeOK
      <4>3. ~(i < head)
        BY <1>1, <3>1
      <4>4. QED
        BY <4>2, <4>3
    <3>2. CASE i # ctail + Capacity
      <4>1. i \in ctail + 1 .. ctail + Capacity - 1
            /\ i \in ctail .. ctail + Capacity - 1
        <5>1. ctail \in Nat /\ Capacity \in Nat /\ i \in Int
          BY <1>1
        <5>2. QED
          BY <3>2, <5>1
      <4>2. slots'[SlotOf(i)] = slots[SlotOf(i)]
        BY <2>6, <4>1
      <4>3. QED
        BY <4>1, <4>2 DEF RingInv
    <3>3. QED
      BY <3>1, <3>2
  <2>9. ctail' .. ctail' + Capacity - 1 = ctail + 1 .. ctail + Capacity
    BY <1>1, <2>2
  <2>10. QED
    BY <2>3, <2>7, <2>8, <2>9 DEF RingInv
<1>6. CASE \/ DrainBegin \/ DrainLoad \/ DrainBreak \/ DrainEnd
           \/ UNCHANGED vars
  <2>1. UNCHANGED <<head, slots, ppc, phead, pptr, accepted, ctail>>
    BY <1>6 DEF DrainBegin, DrainLoad, DrainBreak, DrainEnd, vars, CountersInv
  <2>2. QED
    BY <2>1 DEF RingInv, Claimed
<1>7. ASSUME NEW p \in Producers, NEW o \in Ptr, PushLoadHead(p, o)
      PROVE  RingInv'
  <2>1. /\ ppc[p] # "store" /\ ppc'[p] # "store"
        /\ ppc' = [ppc EXCEPT ![p] = ppc'[p]]
        /\ UNCHANGED <<head, slots, ctail, accepted>>
    BY <1>1, <1>7 DEF PushLoadHead
  <2>2. \A q \in Producers \ {p} :
          phead'[q] = phead[q] /\ pptr'[q] = pptr[q]
    BY <1>1, <1>7 DEF PushLoadHead, TypeOK
  <2>3. QED
    BY <1>2, <2>1, <2>2
<1>8. ASSUME NEW p \in Producers, PushFull(p) PROVE RingInv'
  <2>1. /\ ppc[p] # "store" /\ ppc'[p] # "store"
        /\ ppc' = [ppc EXCEPT ![p] = ppc'[p]]
        /\ UNCHANGED <<head, slots, ctail, accepted>>
    BY <1>1, <1>8 DEF PushFull, PushReturn
  <2>2. \A q \in Producers \ {p} :
          phead'[q] = phead[q] /\ pptr'[q] = pptr[q]
    BY <1>1, <1>8 DEF PushFull, PushReturn, TypeOK
  <2>3. QED
    BY <1>2, <2>1, <2>2
<1>9. ASSUME NEW p \in Producers, PushCheck(p) PROVE RingInv'
  BY <1>1, <1>2, <1>9 DEF PushCheck
<1>10. ASSUME NEW p \in Producers, PushRetry(p) PROVE RingInv'
  BY <1>1, <1>2, <1>10 DEF PushRetry
<1>11. QED
  BY <1>3, <1>4, <1>5, <1>6, <1>7, <1>8, <1>9, <1>10 DEF Next, Push, Drain

\* What the callback is given next is the oldest accepted free that was not
\* performed yet.
LEMMA TakeNext ==
  ASSUME IInv, DrainTake
  PROVE  /\ Len(freed) < Len(accepted)
         /\ cptr = accepted[Len(freed) + 1]
<1>1. /\ ctail \in Nat /\ head \in Nat /\ chead \in Nat
      /\ Capacity \in Nat /\ Capacity > 0
      /\ head = Len(accepted) /\ ctail = Len(freed)
  BY SizeAssumption, CapacityAssumption DEF IInv, TypeOK, CountersInv
<1>2. ctail < head /\ cptr = slots[SlotOf(ctail)] /\ cptr # NULL
  BY <1>1, NullAssumption DEF IInv, TypeOK, CountersInv, DrainTake
<1>3. ctail \in ctail .. ctail + Capacity - 1
  BY <1>1
<1>4. slots[SlotOf(ctail)] = accepted[ctail + 1]
  BY <1>2, <1>3 DEF IInv, RingInv
<1>5. QED
  BY <1>1, <1>2, <1>4

\* Every step keeps the frees performed a prefix of those accepted.
LEMMA FreedStep ==
  ASSUME IInv, [Next]_vars
  PROVE  FreedOnceInOrder'
<1> USE DEF IInv, prodVars, consVars
<1>1. accepted \in Seq(Ptr) /\ freed \in Seq(Ptr)
  BY DEF TypeOK
<1>2. ASSUME NEW p \in Producers, PushClaim(p) PROVE FreedOnceInOrder'
  <2>1. pptr[p] \in Ptr /\ accepted' = Append(accepted, pptr[p])
        /\ freed' = freed
    BY <1>2 DEF TypeOK, PushClaim
  <2>2. QED
    BY <1>1, <2>1 DEF FreedOnceInOrder
<1>3. CASE DrainTake
  <2>1. cptr \in Ptr /\ freed' = Append(freed, cptr) /\ accepted' = accepted
    BY <1>3 DEF TypeOK, DrainTake
  <2>2. Len(freed) < Len(accepted) /\ cptr = accepted[Len(freed) + 1]
    BY <1>3, TakeNext
  <2>3. QED
    BY <1>1, <2>1, <2>2 DEF FreedOnceInOrder
<1>4. CASE \/ \E p \in Producers :
               \/ \E o \in Ptr : PushLoadHead(p, o)
               \/ PushFull(p) \/ PushCheck(p) \/ PushRetry(p) \/ PushStore(p)
           \/ DrainBegin \/ DrainLoad \/ DrainBreak \/ DrainEnd
           \/ UNCHANGED vars
  <2>1. accepted' = accepted /\ freed' = freed
    BY <1>4 DEF PushLoadHead, PushFull, PushCheck, PushRetry, PushStore,
                DrainBegin, DrainLoad, DrainBreak, DrainEnd, vars
  <2>2. QED
    BY <2>1 DEF FreedOnceInOrder
<1>5. QED
  BY <1>2, <1>3, <1>4 DEF Next, Push, Drain

\* The inductive invariant: counters in order, every position of the window
\* filled, awaited or empty, and the frees performed a prefix of those
\* accepted.  It holds in every behaviour that does not wrap size_t.
THEOREM Invariance ==
  ASSUME NoWrap
  PROVE  Spec => []IInv
<1>1. QInit => IInv
  BY InitIInv
<1>2. IInv /\ [Next]_vars => IInv'
  BY TypeStep, CountersStep, RingStep, FreedStep DEF IInv
<1>3. QED
  BY <1>1, <1>2, PTL DEF Spec

\* Every accepted pointer is handed to the callback at most once and in
\* order, and nothing else is: for any number of producers and any capacity.
THEOREM FreesOnceInOrder ==
  ASSUME NoWrap
  PROVE  Spec => []FreedOnceInOrder
<1>1. IInv => FreedOnceInOrder
  BY DEF IInv
<1>2. QED
  BY <1>1, Invariance, PTL

\* A claimed slot is written only when it is empty, so no producer
\* overwrites a pointer that waits to be drained.
THEOREM NoSlotLost ==
  ASSUME NoWrap
  PROVE  Spec => NoLostSlot
<1> DEFINE Keep == \A i \in 0 .. Capacity - 1 :
                      slots[i] # NULL => slots'[i] \in {slots[i], NULL}
<1>1. ASSUME IInv, [Next]_vars PROVE [Keep]_slots
  <2>1. ASSUME NEW p \in Producers, PushStore(p) PROVE Keep
    <3>1. slots[SlotOf(phead[p])] = NULL
      BY <1>1, <2>1 DEF IInv, RingInv, Claimed, PushStore
    <3>2. QED
      BY <1>1, <2>1, <3>1 DEF PushStore, IInv, TypeOK
  <2>2. CASE DrainTake
    BY <1>1, <2>2 DEF DrainTake, IInv, TypeOK
  <2>3. CASE \/ \E p \in Producers :
                 \/ \E o \in Ptr : PushLoadHead(p, o)
                 \/ PushFull(p) \/ PushCheck(p) \/ PushRetry(p) \/ PushClaim(p)
             \/ DrainBegin \/ DrainLoad \/ DrainBreak \/ DrainEnd
             \/ UNCHANGED vars
    BY <2>3 DEF PushLoadHead, PushFull, PushCheck, PushRetry, PushClaim,
                DrainBegin, DrainLoad, DrainBreak, DrainEnd, vars
  <2>4. QED
    BY <1>1, <2>1, <2>2, <2>3 DEF Next, Push, Drain
<1>2. QED
  BY <1>1, Invariance, PTL DEF NoLostSlot, Spec

\* The ring implements PendingFrees: a claim is an Accept of the abstract
\* queue with room for it, a callback is a Deliver, and every other step
\* leaves the abstract queue alone.
THEOREM Refinement ==
  ASSUME NoWrap
  PROVE  Spec => RefinesPendingFrees
<1>1. QInit => PF!Init
  BY DEF QInit, PF!Init
<1>2. ASSUME IInv, [Next]_vars PROVE [PF!Next]_<<accepted, freed>>
  <2>1. ASSUME NEW p \in Producers, PushClaim(p) PROVE PF!Next
    <3>1. Len(accepted) - Len(freed) < Capacity
      <4>1. /\ head \in Nat /\ tail \in Nat /\ ctail \in Nat
            /\ head = Len(accepted) /\ ctail = Len(freed) /\ tail <= ctail
            /\ Capacity \in Nat
        BY <1>2, SizeAssumption, CapacityAssumption
        DEF IInv, TypeOK, CountersInv
      <4>2. head < tail + Capacity
        BY <1>2, <2>1 DEF IInv, CountersInv, PushClaim
      <4>3. QED
        BY <4>1, <4>2
    <3>2. pptr[p] \in Ptr
      BY <1>2, <2>1 DEF IInv, TypeOK, PushClaim
    <3>3. PF!Accept(pptr[p])
      BY <2>1, <3>1 DEF PushClaim, PF!Accept, PF!Pending
    <3>4. QED
      BY <3>2, <3>3 DEF PF!Next
  <2>2. CASE DrainTake
    <3>1. Len(freed) < Len(accepted) /\ cptr = accepted[Len(freed) + 1]
      BY <1>2, <2>2, TakeNext
    <3>2. Len(accepted) - Len(freed) > 0
      BY <1>2, <3>1 DEF IInv, TypeOK
    <3>3. QED
      BY <2>2, <3>1, <3>2 DEF DrainTake, PF!Next, PF!Deliver, PF!Pending
  <2>3. CASE \/ \E p \in Producers :
                 \/ \E o \in Ptr : PushLoadHead(p, o)
                 \/ PushFull(p) \/ PushCheck(p) \/ PushRetry(p) \/ PushStore(p)
             \/ DrainBegin \/ DrainLoad \/ DrainBreak \/ DrainEnd
             \/ UNCHANGED vars
    BY <2>3 DEF PushLoadHead, PushFull, PushCheck, PushRetry, PushStore,
                DrainBegin, DrainLoad, DrainBreak, DrainEnd, vars
  <2>4. QED
    BY <1>2, <2>1, <2>2, <2>3 DEF Next, Push, Drain
<1>3. QED
  BY <1>1, <1>2, Invariance, PTL DEF RefinesPendingFrees, Spec, PF!Spec
=============================================================================
