-------------------------- MODULE ReplicatedProofs --------------------------
(***************************************************************************)
(* Proofs about the replicated version of DieHard, for every number of     *)
(* replicas, whatever they write and in whatever order the processes run.  *)
(***************************************************************************)
EXTENDS Replicated, FiniteSetTheorems, WellFoundedInduction, TLAPS

----------------------------------------------------------------------------
(* The inductive invariant *)

TypeInv == TypeOK /\ out \in [Replica -> Seq(Value)]

\* A reader that goes on has not met the end of its input; no reader runs
\* while a reply waits in its pipe, and one that runs although its last signal
\* was never read does so because nobody is left to read it.
LocalInv ==
  \A i \in Replica :
    /\ pc[i] \in {"fill", "wait"} => ~last[i]
    /\ ~last[i] => Len(out[i]) < Chunks
    /\ pc[i] \in {"fill", "signal"} => cont[i] = 0
    /\ full[i] = 1 => cont[i] = 0
    /\ full[i] = 1 /\ pc[i] \in {"fill", "signal"} => VoterEndsClosed(i)

\* What a replica has written, against what has been printed.
Behind(i) == Len(out[i]) = Len(printed)
Ahead(i) == Len(out[i]) = Len(printed) + 1
Stopped(i) == pc[i] \in {"wait", "leaving", "exited"}

\* The replicas whose signal of this round the voter has read.
Arrived == {i \in Replica : Ahead(i) /\ Stopped(i) /\ full[i] = 0}

\* A replica is in the round of the voter or has finished it: its signal comes
\* after its buffer and its reply is for the buffer that was printed.
Round(i) ==
  /\ Behind(i) \/ Ahead(i)
  /\ Behind(i) => pc[i] # "signal" /\ full[i] = 0
  /\ Ahead(i) => /\ pc[i] # "fill" /\ cont[i] = 0
                 /\ buffer[i] = out[i][Len(printed) + 1]

\* While the voter runs, barrierArrivals counts replicas, though it counts
\* bytes, and the replicas that it has not yet replied to stand still.
RoundInv ==
  ~VoterGone =>
    /\ \A i \in Replica : Round(i)
    /\ voter = "vote" => arrivals = 0 /\ Arrived = Replica
    /\ voter # "vote" => arrivals = Cardinality(Arrived)
    /\ voter = "reply" =>
         /\ arrivals = 0
         /\ \A i \in next .. N - 1 : Behind(i) /\ Stopped(i) /\ cont[i] = 0

\* Nothing is printed that a replica has not come to.
PrintedInv == \A i \in Replica : Len(out[i]) >= Len(printed)

IInv == TypeInv /\ LocalInv /\ RoundInv /\ PrintedInv /\ OutputAgreed

----------------------------------------------------------------------------
(* Lemmas *)

\* The least element of a set of natural numbers.
LEMMA Least ==
  ASSUME NEW T \in SUBSET Nat, T # {}
  PROVE  \E x \in T : \A y \in T : x <= y
<1>1. PICK x \in T : \A y \in T : ~(<<y, x>> \in OpToRel(<, Nat))
  BY WFMin, NatLessThanWellFounded
<1>2. \A y \in T : ~(y < x)
  BY <1>1 DEF OpToRel
<1> QED
  BY <1>2

\* There are N replicas.
LEMMA ReplicaFacts ==
  /\ IsFiniteSet(Replica) /\ Cardinality(Replica) = N
  /\ \A S \in SUBSET Replica :
       /\ IsFiniteSet(S) /\ Cardinality(S) \in 0 .. N
       /\ Cardinality(S) = N => S = Replica
<1>1. IsFiniteSet(Replica) /\ Cardinality(Replica) = N
  BY FS_Interval, ReplicatedAssumption DEF Replica
<1>2. ASSUME NEW S \in SUBSET Replica
      PROVE  /\ IsFiniteSet(S) /\ Cardinality(S) \in 0 .. N
             /\ Cardinality(S) = N => S = Replica
  <2>1. /\ IsFiniteSet(S) /\ Cardinality(S) <= N
        /\ Cardinality(S) = N => S = Replica
    BY <1>1, FS_Subset
  <2>2. Cardinality(S) \in Nat
    BY <2>1, FS_CardinalityType
  <2> QED
    BY <2>1, <2>2, ReplicatedAssumption
<1> QED
  BY <1>1, <1>2

\* What a sequence is after an Append.
LEMMA AppendFacts ==
  ASSUME NEW S, NEW q \in Seq(S), NEW v \in S
  PROVE  /\ Append(q, v) \in Seq(S) /\ Len(q) \in Nat
         /\ Len(Append(q, v)) = Len(q) + 1 /\ Append(q, v)[Len(q) + 1] = v
         /\ \A n \in 1 .. Len(q) : Append(q, v)[n] = q[n]
OBVIOUS

\* mostCommonElement finds a replica that no other outvotes.
LEMMA WinnerFacts ==
  /\ Winner \in Replica
  /\ \A j \in Replica : Cardinality(Same(j)) <= Cardinality(Same(Winner))
<1> DEFINE c(i) == Cardinality(Same(i))
           Beats(i, j) == c(i) > c(j) \/ (c(i) = c(j) /\ i <= j)
           S == {N - c(i) : i \in Replica}
<1>1. \A i \in Replica : c(i) \in 0 .. N
  <2>1. \A i \in Replica : Same(i) \in SUBSET Replica
    BY DEF Same
  <2> QED
    BY <2>1, ReplicaFacts
<1>2. N \in Nat /\ 0 \in Replica /\ Replica \subseteq Nat
  BY ReplicatedAssumption DEF Replica
<1>3. Winner = CHOOSE i \in Replica : \A j \in Replica : Beats(i, j)
  BY DEF Winner
<1> HIDE DEF c
<1>4. S \in SUBSET Nat /\ S # {}
  BY <1>1, <1>2
<1>5. PICK m \in S : \A x \in S : m <= x
  <2> HIDE DEF S
  <2> QED
    BY <1>4, Least
<1> DEFINE T == {i \in Replica : N - c(i) = m}
<1>6. T \in SUBSET Nat /\ T # {}
  BY <1>2, <1>5
<1>7. PICK w \in T : \A x \in T : w <= x
  <2> HIDE DEF T
  <2> QED
    BY <1>6, Least
<1>8. \A j \in Replica : Beats(w, j)
  <2> TAKE j \in Replica
  <2>1. c(j) \in 0 .. N /\ c(w) \in 0 .. N /\ N - c(w) = m /\ m <= N - c(j)
    BY <1>1, <1>5, <1>7
  <2>2. CASE N - c(j) = m
    <3>1. w <= j
      BY <1>7, <2>2
    <3>2. c(w) = c(j)
      BY <1>2, <2>1, <2>2
    <3> QED
      BY <3>1, <3>2
  <2>3. CASE N - c(j) # m
    BY <1>2, <2>1, <2>3
  <2> QED
    BY <2>2, <2>3
<1>9. w \in Replica
  BY <1>7
<1> HIDE DEF Beats
<1>10. Winner \in Replica /\ \A j \in Replica : Beats(Winner, j)
  BY <1>3, <1>8, <1>9
<1>11. \A j \in Replica : c(j) <= c(Winner)
  BY <1>1, <1>2, <1>10 DEF Beats
<1> QED
  BY <1>10, <1>11 DEF c

----------------------------------------------------------------------------
(* Every step preserves the invariant, part by part *)

\* Every step keeps the types.
LEMMA TypeStep ==
  ASSUME TypeInv, LocalInv, RoundInv, Next
  PROVE  TypeInv'
<1>n. N \in Nat /\ N >= 2
  BY ReplicatedAssumption
<1>1. ASSUME NEW i \in Replica, NEW v \in Value, NEW isLast \in BOOLEAN,
            FillChunk(i, v, isLast)
     PROVE TypeInv'
  <2>1. /\ Append(out[i], v) \in Seq(Value)
        /\ Len(Append(out[i], v)) = Len(out[i]) + 1 /\ Len(out[i]) \in Nat
    BY AppendFacts DEF TypeInv
  <2>2. Len(Append(out[i], v)) <= Chunks
    <3>1. Len(out[i]) < Chunks
      BY <1>1 DEF LocalInv, FillChunk
    <3> QED
      BY <2>1, <3>1, ReplicatedAssumption
  <2>3. out' = [out EXCEPT ![i] = Append(out[i], v)]
    BY <1>1 DEF FillChunk
  <2>4. /\ out' \in [Replica -> Seq(Value)]
        /\ \A j \in Replica : out'[j] \in Seq(Value) /\ Len(out'[j]) <= Chunks
    BY <2>1, <2>2, <2>3 DEF TypeInv, TypeOK
  <2>5. /\ buffer' \in [Replica -> Value \cup {Junk}] /\ last' \in [Replica -> BOOLEAN]
        /\ pc' \in [Replica -> {"fill", "signal", "wait", "leaving", "exited"}]
    BY <1>1 DEF FillChunk, TypeInv, TypeOK
  <2> QED
    BY <1>1, <2>4, <2>5 DEF FillChunk, TypeInv, TypeOK, voterVars
<1>2. ASSUME NEW i \in Replica, Signal(i) PROVE TypeInv'
  <2>1. full[i] = 0
    BY <1>2 DEF Signal, LocalInv, TypeInv, TypeOK
  <2>2. full' \in [Replica -> 0 .. 1]
    BY <1>2, <2>1 DEF Signal, TypeInv, TypeOK
  <2> QED
    BY <1>2, <2>2 DEF Signal, TypeInv, TypeOK, voterVars
<1>3. ASSUME NEW i \in Replica, SignalBroken(i) PROVE TypeInv'
  BY <1>3 DEF SignalBroken, TypeInv, TypeOK, readerVars, voterVars
<1>4. ASSUME NEW i \in Replica, WaitReply(i) PROVE TypeInv'
  BY <1>4 DEF WaitReply, TypeInv, TypeOK, readerVars, voterVars
<1>5. ASSUME NEW i \in Replica, WaitEof(i) PROVE TypeInv'
  BY <1>5 DEF WaitEof, TypeInv, TypeOK, readerVars, voterVars
<1>6. ASSUME NEW i \in Replica, ReaderExit(i) PROVE TypeInv'
  BY <1>6 DEF ReaderExit, TypeInv, TypeOK, readerVars, voterVars
<1>7. ASSUME NEW i \in Replica, VoterArrive(i) PROVE TypeInv'
  <2>1. full[i] - 1 \in 0 .. 1 /\ full' = [full EXCEPT ![i] = full[i] - 1]
    BY <1>7 DEF VoterArrive, TypeInv, TypeOK
  <2>2. full' \in [Replica -> 0 .. 1] /\ arrivals \in 0 .. N - 1
    BY <2>1 DEF TypeInv, TypeOK
  <2>3. arrivals' \in 0 .. N - 1 /\ voter' \in {"select", "vote"}
    BY <1>7, <1>n, <2>2 DEF VoterArrive, ReplicasAliveNow
  <2> QED
    BY <1>7, <2>2, <2>3 DEF VoterArrive, TypeInv, TypeOK, readerVars
<1>8. ASSUME NEW i \in Replica, VoterEof(i) PROVE TypeInv'
  BY <1>8 DEF VoterEof, TypeInv, TypeOK, readerVars, voterVars
<1>9. ASSUME Disagree PROVE TypeInv'
  BY <1>9 DEF Disagree, TypeInv, TypeOK, readerVars, voterVars
<1>10. ASSUME Vote PROVE TypeInv'
  <2>1. Winner \in Replica /\ Ahead(Winner) /\ Round(Winner)
    BY <1>10, WinnerFacts DEF Vote, RoundInv, VoterGone, Arrived
  <2>2. buffer[Winner] = out[Winner][Len(printed) + 1]
    BY <2>1 DEF Round
  <2>3. Len(printed) + 1 \in 1 .. Len(out[Winner])
    BY <2>1 DEF Ahead, TypeInv, TypeOK
  <2>4. buffer[Winner] \in Value
    BY <2>1, <2>2, <2>3 DEF TypeInv, TypeOK
  <2>5. printed' \in Seq(Value)
    BY <1>10, <2>4, AppendFacts DEF Vote, TypeInv, TypeOK
  <2>6. buffer' \in [Replica -> Value \cup {Junk}]
    BY <1>10, <2>1 DEF Vote, TypeInv, TypeOK
  <2> QED
    BY <1>10, <1>n, <2>5, <2>6 DEF Vote, TypeInv, TypeOK, Replica
<1>11. ASSUME Reply PROVE TypeInv'
  <2>1. next \in Replica /\ cont[next] = 0
    BY <1>11, <1>n DEF Reply, RoundInv, VoterGone, Replica, TypeInv, TypeOK
  <2>2. cont' \in [Replica -> 0 .. 1]
    BY <1>11, <2>1 DEF Reply, TypeInv, TypeOK
  <2>3. next' \in Replica
    BY <1>11, <1>n, <2>1 DEF Reply, Replica
  <2>4. voter' \in {"select", "reply"}
    BY <1>11 DEF Reply
  <2> QED
    BY <1>11, <2>2, <2>3, <2>4 DEF Reply, TypeInv, TypeOK, readerVars
<1>12. ASSUME ReplyBroken PROVE TypeInv'
  BY <1>12 DEF ReplyBroken, TypeInv, TypeOK, readerVars, voterVars
<1>13. QED
  BY <1>1, <1>2, <1>3, <1>4, <1>5, <1>6, <1>7, <1>8, <1>9, <1>10, <1>11,
     <1>12 DEF Next, Reader, Voter

\* The voter, once gone, is gone, and so is a reader that exited.
LEMMA EndsStayClosed ==
  ASSUME TypeInv, Next, NEW k \in Replica, VoterEndsClosed(k)
  PROVE  VoterEndsClosed(k)'
<1>closed. VoterGone /\ \A j \in Replica : j > k => pc[j] = "exited"
  BY DEF VoterEndsClosed
<1>still. ASSUME VoterGone', \A j \in Replica : pc[j] = "exited" => pc'[j] = "exited"
          PROVE  VoterEndsClosed(k)'
  BY <1>closed, <1>still DEF VoterEndsClosed
<1>1. ASSUME NEW i \in Replica, NEW v \in Value, NEW isLast \in BOOLEAN,
            FillChunk(i, v, isLast)
     PROVE VoterEndsClosed(k)'
  BY <1>1, <1>closed, <1>still DEF FillChunk, VoterGone, readerVars,
     voterVars, TypeInv, TypeOK
<1>2. ASSUME NEW i \in Replica, Signal(i) PROVE VoterEndsClosed(k)'
  BY <1>2, <1>closed, <1>still DEF Signal, VoterGone, readerVars, voterVars,
     TypeInv, TypeOK
<1>3. ASSUME NEW i \in Replica, SignalBroken(i) PROVE VoterEndsClosed(k)'
  BY <1>3, <1>closed, <1>still DEF SignalBroken, VoterGone, readerVars,
     voterVars, TypeInv, TypeOK
<1>4. ASSUME NEW i \in Replica, WaitReply(i) PROVE VoterEndsClosed(k)'
  BY <1>4, <1>closed, <1>still DEF WaitReply, VoterGone, readerVars,
     voterVars, TypeInv, TypeOK
<1>5. ASSUME NEW i \in Replica, WaitEof(i) PROVE VoterEndsClosed(k)'
  BY <1>5, <1>closed, <1>still DEF WaitEof, VoterGone, readerVars, voterVars,
     TypeInv, TypeOK
<1>6. ASSUME NEW i \in Replica, ReaderExit(i) PROVE VoterEndsClosed(k)'
  BY <1>6, <1>closed, <1>still DEF ReaderExit, VoterGone, readerVars,
     voterVars, TypeInv, TypeOK
<1>7. ASSUME NEW i \in Replica, VoterArrive(i) PROVE VoterEndsClosed(k)'
  BY <1>7, <1>closed, <1>still DEF VoterArrive, VoterGone, readerVars,
     voterVars, TypeInv, TypeOK
<1>8. ASSUME NEW i \in Replica, VoterEof(i) PROVE VoterEndsClosed(k)'
  BY <1>8, <1>closed, <1>still DEF VoterEof, VoterGone, readerVars,
     voterVars, TypeInv, TypeOK
<1>9. ASSUME Disagree PROVE VoterEndsClosed(k)'
  BY <1>9, <1>closed, <1>still DEF Disagree, VoterGone, readerVars,
     voterVars, TypeInv, TypeOK
<1>10. ASSUME Vote PROVE VoterEndsClosed(k)'
  BY <1>10, <1>closed, <1>still DEF Vote, VoterGone, readerVars, voterVars,
     TypeInv, TypeOK
<1>11. ASSUME Reply PROVE VoterEndsClosed(k)'
  BY <1>11, <1>closed, <1>still DEF Reply, VoterGone, readerVars, voterVars,
     TypeInv, TypeOK
<1>12. ASSUME ReplyBroken PROVE VoterEndsClosed(k)'
  BY <1>12, <1>closed, <1>still DEF ReplyBroken, VoterGone, readerVars,
     voterVars, TypeInv, TypeOK
<1>13. QED
  BY <1>1, <1>2, <1>3, <1>4, <1>5, <1>6, <1>7, <1>8, <1>9, <1>10, <1>11,
     <1>12 DEF Next, Reader, Voter

\* Every step keeps a reader and its two pipes in agreement.
LEMMA LocalStep ==
  ASSUME TypeInv, LocalInv, RoundInv, Next
  PROVE  LocalInv'
<1> USE DEF LocalInv
<1>ends. \A j \in Replica : VoterEndsClosed(j) => VoterEndsClosed(j)'
  BY EndsStayClosed
<1>pipes. \A j \in Replica : full[j] \in 0 .. 1 /\ cont[j] \in 0 .. 1
  BY DEF TypeInv, TypeOK
<1>1. ASSUME NEW i \in Replica, NEW v \in Value, NEW isLast \in BOOLEAN,
            FillChunk(i, v, isLast)
     PROVE LocalInv'
  <2>1. Len(Append(out[i], v)) = Len(out[i]) + 1 /\ Len(out[i]) \in Nat
    BY AppendFacts DEF TypeInv
  <2>2. ~isLast => Len(Append(out[i], v)) < Chunks
    BY <1>1, <2>1 DEF FillChunk
  <2> QED
    BY <1>1, <1>ends, <2>2 DEF FillChunk, voterVars, TypeInv, TypeOK
<1>2. ASSUME NEW i \in Replica, Signal(i) PROVE LocalInv'
  BY <1>2, <1>ends, <1>pipes DEF Signal, readerVars, voterVars, TypeInv, TypeOK
<1>3. ASSUME NEW i \in Replica, SignalBroken(i) PROVE LocalInv'
  BY <1>3, <1>ends, <1>pipes DEF SignalBroken, readerVars, voterVars,
     TypeInv, TypeOK
<1>4. ASSUME NEW i \in Replica, WaitReply(i) PROVE LocalInv'
  BY <1>4, <1>ends, <1>pipes DEF WaitReply, readerVars, voterVars, TypeInv,
     TypeOK
<1>5. ASSUME NEW i \in Replica, WaitEof(i) PROVE LocalInv'
  BY <1>5, <1>ends, <1>pipes DEF WaitEof, readerVars, voterVars, TypeInv,
     TypeOK
<1>6. ASSUME NEW i \in Replica, ReaderExit(i) PROVE LocalInv'
  BY <1>6, <1>ends, <1>pipes DEF ReaderExit, readerVars, voterVars, TypeInv,
     TypeOK
<1>7. ASSUME NEW i \in Replica, VoterArrive(i) PROVE LocalInv'
  BY <1>7, <1>ends, <1>pipes DEF VoterArrive, readerVars, voterVars, TypeInv,
     TypeOK
<1>8. ASSUME NEW i \in Replica, VoterEof(i) PROVE LocalInv'
  BY <1>8, <1>ends, <1>pipes DEF VoterEof, readerVars, voterVars, TypeInv,
     TypeOK
<1>9. ASSUME Disagree PROVE LocalInv'
  BY <1>9, <1>ends, <1>pipes DEF Disagree, readerVars, voterVars, TypeInv,
     TypeOK
<1>10. ASSUME Vote PROVE LocalInv'
  BY <1>10, <1>ends, <1>pipes DEF Vote, readerVars, voterVars, TypeInv, TypeOK
<1>11. ASSUME Reply PROVE LocalInv'
  <2>1. next \in Replica /\ Behind(next) /\ Stopped(next) /\ Round(next)
    BY <1>11, ReplicatedAssumption DEF Reply, RoundInv, VoterGone, Replica,
       TypeInv, TypeOK
  <2>2. full[next] = 0 /\ pc[next] \notin {"fill", "signal"}
    BY <2>1 DEF Round, Stopped
  <2> QED
    BY <1>11, <1>ends, <1>pipes, <2>1, <2>2 DEF Reply, readerVars, TypeInv,
       TypeOK
<1>12. ASSUME ReplyBroken PROVE LocalInv'
  BY <1>12, <1>ends, <1>pipes DEF ReplyBroken, readerVars, voterVars,
     TypeInv, TypeOK
<1>13. QED
  BY <1>1, <1>2, <1>3, <1>4, <1>5, <1>6, <1>7, <1>8, <1>9, <1>10, <1>11,
     <1>12 DEF Next, Reader, Voter

\* What only changes a stopped or running replica i, without the voter's
\* knowledge, leaves the round as it is.
LEMMA RoundQuiet ==
  ASSUME TypeInv, RoundInv, ~VoterGone, NEW i \in Replica, Round(i)',
         UNCHANGED <<voterVars>>, i \in Arrived <=> Ahead(i)' /\ Stopped(i)' /\ full'[i] = 0,
         \A j \in Replica \ {i} : /\ pc'[j] = pc[j] /\ out'[j] = out[j]
                                  /\ full'[j] = full[j] /\ cont'[j] = cont[j]
                                  /\ buffer'[j] = buffer[j],
         voter = "reply" /\ i >= next => Behind(i)' /\ Stopped(i)' /\ cont'[i] = 0
  PROVE  RoundInv'
<1>1. /\ \A j \in Replica : Round(j)
      /\ voter = "vote" => arrivals = 0 /\ Arrived = Replica
      /\ voter # "vote" => arrivals = Cardinality(Arrived)
      /\ voter = "reply" => /\ arrivals = 0
                            /\ \A j \in next .. N - 1 : Behind(j) /\ Stopped(j) /\ cont[j] = 0
  BY DEF RoundInv
<1>2. voter' = voter /\ arrivals' = arrivals /\ next' = next /\ printed' = printed
  BY DEF voterVars
<1>3. ASSUME NEW j \in Replica, j # i
      PROVE  /\ Round(j)' /\ Behind(j)' = Behind(j) /\ Stopped(j)' = Stopped(j)
             /\ (Ahead(j)' /\ Stopped(j)' /\ full'[j] = 0) <=> j \in Arrived
  BY <1>1, <1>2, <1>3 DEF Round, Behind, Ahead, Stopped, Arrived
<1>4. Arrived' = Arrived
  <2>1. \A j : j \in Arrived' <=> j \in Replica /\ Ahead(j)' /\ Stopped(j)' /\ full'[j] = 0
    BY DEF Arrived
  <2>2. Arrived \subseteq Replica
    BY DEF Arrived
  <2> QED
    BY <1>3, <2>1, <2>2
<1>5. \A j \in Replica : Round(j)'
  BY <1>3
<1>6. ASSUME voter = "reply", NEW j \in next .. N - 1
      PROVE  Behind(j)' /\ Stopped(j)' /\ cont'[j] = 0
  <2>1. j \in Replica /\ j >= next
    BY <1>6, ReplicatedAssumption DEF TypeInv, TypeOK, Replica
  <2>2. CASE j = i
    BY <1>6, <2>1, <2>2
  <2>3. CASE j # i
    BY <1>1, <1>3, <1>6, <2>1, <2>3
  <2> QED
    BY <2>2, <2>3
<1> QED
  BY <1>1, <1>2, <1>4, <1>5, <1>6 DEF RoundInv

\* Every step keeps the readers in the round of the voter.
LEMMA RoundStep ==
  ASSUME TypeInv, LocalInv, RoundInv, Next
  PROVE  RoundInv'
<1>gone. ASSUME VoterGone' PROVE RoundInv'
  BY <1>gone DEF RoundInv
<1>round. ASSUME ~VoterGone
          PROVE  /\ \A i \in Replica : Round(i) /\ ~VoterEndsClosed(i)
                 /\ voter = "vote" => arrivals = 0 /\ Arrived = Replica
                 /\ voter # "vote" => arrivals = Cardinality(Arrived)
                 /\ voter = "reply" =>
                      /\ arrivals = 0
                      /\ \A i \in next .. N - 1 : Behind(i) /\ Stopped(i) /\ cont[i] = 0
  BY <1>round DEF RoundInv, VoterEndsClosed
<1>types. /\ N \in Nat /\ N >= 2 /\ next \in Replica /\ Replica = 0 .. N - 1
          /\ \A i \in Replica : /\ full[i] \in 0 .. 1 /\ cont[i] \in 0 .. 1
                                /\ Len(out[i]) \in Nat
          /\ Len(printed) \in Nat
  BY ReplicatedAssumption DEF TypeInv, TypeOK, Replica
<1>stays. ASSUME VoterGone, UNCHANGED voter PROVE RoundInv'
  BY <1>stays DEF RoundInv, VoterGone
<1>1. ASSUME NEW i \in Replica, NEW v \in Value, NEW isLast \in BOOLEAN,
            FillChunk(i, v, isLast)
     PROVE RoundInv'
  <2>gone. CASE VoterGone
    BY <1>1, <1>stays, <2>gone DEF FillChunk, voterVars
  <2> SUFFICES ASSUME ~VoterGone PROVE RoundInv'
    BY <2>gone
  <2>1. Round(i) /\ pc[i] = "fill" /\ UNCHANGED <<full, cont, voterVars>>
    BY <1>1, <1>round DEF FillChunk
  <2>2. Behind(i) /\ ~Ahead(i) /\ full[i] = 0
    BY <1>types, <2>1 DEF Round, Behind, Ahead
  <2>3. cont[i] = 0
    BY <2>1 DEF LocalInv
  <2>4. /\ out' = [out EXCEPT ![i] = Append(out[i], v)] /\ buffer' = [buffer EXCEPT ![i] = v]
        /\ pc' = [pc EXCEPT ![i] = "signal"]
    BY <1>1 DEF FillChunk
  <2>5. out[i] \in Seq(Value)
    BY DEF TypeInv
  <2>6. /\ out'[i] = Append(out[i], v) /\ Len(out'[i]) = Len(out[i]) + 1
        /\ out'[i][Len(out[i]) + 1] = v /\ buffer'[i] = v /\ pc'[i] = "signal"
    BY <2>4, <2>5, AppendFacts DEF TypeInv, TypeOK
  <2>7. printed' = printed /\ full'[i] = full[i] /\ cont'[i] = cont[i]
    BY <2>1 DEF voterVars
  <2>8. Round(i)' /\ ~Stopped(i)'
    BY <1>types, <2>2, <2>3, <2>6, <2>7 DEF Round, Behind, Ahead, Stopped
  <2>9. i \notin Arrived
    BY <2>2 DEF Arrived
  <2>10. voter = "reply" => ~(i >= next)
    BY <1>round, <1>types, <2>1 DEF Stopped
  <2>11. \A j \in Replica \ {i} : /\ pc'[j] = pc[j] /\ out'[j] = out[j]
                                 /\ full'[j] = full[j] /\ cont'[j] = cont[j]
                                 /\ buffer'[j] = buffer[j]
    BY <2>1, <2>4 DEF TypeInv, TypeOK
  <2> QED
    BY <2>1, <2>8, <2>9, <2>10, <2>11, RoundQuiet
<1>2. ASSUME NEW i \in Replica, Signal(i) PROVE RoundInv'
  <2>gone. CASE VoterGone
    BY <1>2, <1>stays, <2>gone DEF Signal, voterVars
  <2> SUFFICES ASSUME ~VoterGone PROVE RoundInv'
    BY <2>gone
  <2>1. Round(i) /\ pc[i] = "signal" /\ UNCHANGED <<last, buffer, out, cont, voterVars>>
    BY <1>2, <1>round DEF Signal
  <2>2. Ahead(i) /\ ~Behind(i) /\ cont[i] = 0
    BY <1>types, <2>1 DEF Round, Behind, Ahead
  <2>3. full[i] = 0
    BY <1>2, <1>types, <2>1 DEF LocalInv, Signal
  <2>4. pc'[i] \in {"leaving", "wait"} /\ full'[i] = 1
    BY <1>2, <2>3 DEF Signal, TypeInv, TypeOK
  <2>5. /\ printed' = printed /\ out'[i] = out[i] /\ cont'[i] = cont[i]
        /\ buffer'[i] = buffer[i]
    BY <2>1 DEF voterVars
  <2>6. Round(i)' /\ i \notin Arrived
    BY <1>types, <2>1, <2>2, <2>4, <2>5 DEF Round, Behind, Ahead, Stopped,
       Arrived
  <2>7. voter = "reply" => ~(i >= next)
    BY <1>round, <1>types, <2>1 DEF Stopped
  <2>8. \A j \in Replica \ {i} : /\ pc'[j] = pc[j] /\ out'[j] = out[j]
                                /\ full'[j] = full[j] /\ cont'[j] = cont[j]
                                /\ buffer'[j] = buffer[j]
    BY <1>2 DEF Signal, TypeInv, TypeOK
  <2> QED
    BY <2>1, <2>4, <2>6, <2>7, <2>8, RoundQuiet
<1>3. ASSUME NEW i \in Replica, SignalBroken(i) PROVE RoundInv'
  BY <1>3, <1>stays DEF SignalBroken, VoterEndsClosed, voterVars
<1>4. ASSUME NEW i \in Replica, WaitReply(i) PROVE RoundInv'
  <2>gone. CASE VoterGone
    BY <1>4, <1>stays, <2>gone DEF WaitReply, voterVars
  <2> SUFFICES ASSUME ~VoterGone PROVE RoundInv'
    BY <2>gone
  <2>1. Round(i) /\ cont[i] = 1 /\ UNCHANGED <<last, buffer, out, full, voterVars>>
    BY <1>4, <1>round, <1>types DEF WaitReply
  <2>2. Behind(i) /\ ~Ahead(i) /\ full[i] = 0
    BY <1>types, <2>1 DEF Round, Behind, Ahead
  <2>3. pc'[i] = "fill" /\ cont'[i] = 0
    BY <1>4, <2>1 DEF WaitReply, TypeInv, TypeOK
  <2>4. printed' = printed /\ out'[i] = out[i] /\ full'[i] = full[i]
    BY <2>1 DEF voterVars
  <2>5. Round(i)' /\ i \notin Arrived /\ ~Stopped(i)'
    BY <1>types, <2>2, <2>3, <2>4 DEF Round, Behind, Ahead, Stopped, Arrived
  <2>6. voter = "reply" => ~(i >= next)
    BY <1>round, <1>types, <2>1
  <2>7. \A j \in Replica \ {i} : /\ pc'[j] = pc[j] /\ out'[j] = out[j]
                                /\ full'[j] = full[j] /\ cont'[j] = cont[j]
                                /\ buffer'[j] = buffer[j]
    BY <1>4 DEF WaitReply, TypeInv, TypeOK
  <2> QED
    BY <2>1, <2>5, <2>6, <2>7, RoundQuiet
<1>5. ASSUME NEW i \in Replica, WaitEof(i) PROVE RoundInv'
  BY <1>5, <1>stays DEF WaitEof, VoterEndsClosed, voterVars
<1>6. ASSUME NEW i \in Replica, ReaderExit(i) PROVE RoundInv'
  <2>gone. CASE VoterGone
    BY <1>6, <1>stays, <2>gone DEF ReaderExit, voterVars
  <2> SUFFICES ASSUME ~VoterGone PROVE RoundInv'
    BY <2>gone
  <2>1. /\ Round(i) /\ pc[i] = "leaving" /\ pc'[i] = "exited"
        /\ UNCHANGED <<last, buffer, out, full, cont, voterVars>>
    BY <1>6, <1>round DEF ReaderExit, TypeInv, TypeOK
  <2>2. printed' = printed
    BY <2>1 DEF voterVars
  <2>3. Stopped(i) /\ Stopped(i)' /\ Behind(i)' = Behind(i) /\ Ahead(i)' = Ahead(i)
    BY <2>1, <2>2 DEF Stopped, Behind, Ahead
  <2>4. Round(i)' /\ (i \in Arrived <=> Ahead(i)' /\ Stopped(i)' /\ full'[i] = 0)
    BY <2>1, <2>2, <2>3 DEF Round, Arrived
  <2>5. voter = "reply" /\ i >= next => Behind(i)' /\ Stopped(i)' /\ cont'[i] = 0
    BY <1>round, <1>types, <2>1, <2>3
  <2>6. \A j \in Replica \ {i} : pc'[j] = pc[j]
    BY <1>6 DEF ReaderExit, TypeInv, TypeOK
  <2> QED
    BY <2>1, <2>4, <2>5, <2>6, RoundQuiet
<1>7. ASSUME NEW i \in Replica, VoterArrive(i) PROVE RoundInv'
  <2>1. voter = "select" /\ ~VoterGone /\ full[i] = 1 /\ UNCHANGED <<readerVars, cont, next, printed>>
    BY <1>7, <1>types DEF VoterArrive, VoterGone
  <2>2. Ahead(i) /\ Stopped(i) /\ i \notin Arrived
    <3>1. Round(i) /\ ~VoterEndsClosed(i)
      BY <1>round, <2>1
    <3>2. Ahead(i) /\ pc[i] # "fill"
      BY <2>1, <3>1 DEF Round
    <3>3. pc[i] # "signal"
      BY <2>1, <3>1 DEF LocalInv
    <3> QED
      BY <2>1, <3>2, <3>3 DEF Stopped, Arrived, TypeInv, TypeOK
  <2>3. full'[i] = 0 /\ \A j \in Replica \ {i} : full'[j] = full[j]
    BY <1>7, <2>1 DEF VoterArrive, TypeInv, TypeOK
  <2>4. \A j \in Replica : /\ Behind(j)' = Behind(j) /\ Ahead(j)' = Ahead(j)
                           /\ Stopped(j)' = Stopped(j)
    BY <2>1 DEF readerVars, Behind, Ahead, Stopped
  <2>5. Arrived' = Arrived \cup {i}
    <3>1. \A j : j \in Arrived' <=> j \in Replica /\ Ahead(j) /\ Stopped(j) /\ full'[j] = 0
      BY <2>4 DEF Arrived
    <3> QED
      BY <2>2, <2>3, <3>1 DEF Arrived
  <2>6. Arrived \in SUBSET Replica /\ Arrived' \in SUBSET Replica
    BY <2>5 DEF Arrived
  <2>7. Cardinality(Arrived') = Cardinality(Arrived) + 1 /\ arrivals = Cardinality(Arrived)
    BY <1>round, <2>1, <2>2, <2>5, <2>6, ReplicaFacts, FS_AddElement
  <2>8. Cardinality(Arrived') \in 0 .. N /\ (Cardinality(Arrived') = N => Arrived' = Replica)
    BY <2>6, ReplicaFacts
  <2>9. \A j \in Replica : Round(j)'
    <3> TAKE j \in Replica
    <3>1. Round(j)
      BY <1>round, <2>1
    <3>2. full'[j] = 0 \/ full'[j] = full[j]
      BY <2>3
    <3> QED
      BY <2>1, <2>4, <3>1, <3>2 DEF Round, readerVars
  <2>10. CASE arrivals + 1 >= N
    <3>1. arrivals' = 0 /\ voter' = "vote"
      BY <1>7, <2>10 DEF VoterArrive, ReplicasAliveNow
    <3>2. Arrived' = Replica
      BY <1>types, <2>7, <2>8, <2>10
    <3> QED
      BY <2>9, <3>1, <3>2 DEF RoundInv
  <2>11. CASE ~(arrivals + 1 >= N)
    <3>1. arrivals' = arrivals + 1 /\ voter' = "select"
      BY <1>7, <2>1, <2>11 DEF VoterArrive, ReplicasAliveNow
    <3> QED
      BY <2>7, <2>9, <3>1 DEF RoundInv
  <2> QED
    BY <2>10, <2>11
<1>8. ASSUME NEW i \in Replica, VoterEof(i) PROVE RoundInv'
  BY <1>8 DEF VoterEof, RoundInv, Round, Behind, Ahead, Stopped, Arrived,
     VoterGone, readerVars
<1>9. ASSUME Disagree PROVE RoundInv'
  BY <1>9, <1>gone DEF Disagree, VoterGone
<1>10. ASSUME Vote PROVE RoundInv'
  <2>1. /\ voter = "vote" /\ ~VoterGone /\ voter' = "reply" /\ next' = 0
        /\ UNCHANGED <<pc, last, out, full, cont, arrivals>>
    BY <1>10 DEF Vote, VoterGone
  <2>2. Len(printed') = Len(printed) + 1
    BY <1>10 DEF Vote, TypeInv, TypeOK
  <2>3. \A i \in Replica : Ahead(i) /\ Stopped(i) /\ full[i] = 0 /\ cont[i] = 0
    BY <1>round, <2>1 DEF Arrived, Round
  <2>4. \A i \in Replica : Behind(i)' /\ ~Ahead(i)' /\ Stopped(i)' /\ full'[i] = 0 /\ cont'[i] = 0
    BY <1>types, <2>1, <2>2, <2>3 DEF Ahead, Behind, Stopped
  <2>5. \A i \in Replica : Round(i)'
    BY <2>4 DEF Round, Stopped
  <2>6. Arrived' = {}
    BY <2>4 DEF Arrived
  <2>7. arrivals' = 0 /\ Cardinality(Arrived') = 0
    BY <1>round, <2>1, <2>6, FS_EmptySet
  <2>8. \A i \in next' .. N - 1 : Behind(i)' /\ Stopped(i)' /\ cont'[i] = 0
    BY <1>types, <2>1, <2>4
  <2> QED
    BY <2>1, <2>5, <2>7, <2>8 DEF RoundInv
<1>11. ASSUME Reply PROVE RoundInv'
  <2>1. /\ voter = "reply" /\ ~VoterGone /\ UNCHANGED <<readerVars, full, arrivals, printed>>
        /\ cont' = [cont EXCEPT ![next] = cont[next] + 1]
        /\ next' = (next + 1) % N
        /\ voter' = IF next = N - 1 THEN "select" ELSE "reply"
    BY <1>11 DEF Reply, VoterGone
  <2>2. Behind(next) /\ Stopped(next) /\ cont[next] = 0
    BY <1>round, <1>types, <2>1
  <2>3. \A i \in Replica : /\ Behind(i)' = Behind(i) /\ Ahead(i)' = Ahead(i)
                           /\ Stopped(i)' = Stopped(i)
    BY <2>1 DEF readerVars, Behind, Ahead, Stopped
  <2>4. \A i \in Replica \ {next} : cont'[i] = cont[i]
    BY <2>1 DEF TypeInv, TypeOK
  <2>5. \A i \in Replica : Round(i)'
    <3> TAKE i \in Replica
    <3>1. Round(i) /\ (Ahead(i) => i # next)
      BY <1>round, <1>types, <2>1, <2>2 DEF Behind, Ahead
    <3> QED
      BY <2>1, <2>3, <2>4, <3>1 DEF Round, readerVars
  <2>6. Arrived' = Arrived
    BY <2>1, <2>3 DEF Arrived
  <2>7. arrivals' = 0 /\ arrivals' = Cardinality(Arrived')
    BY <1>round, <2>1, <2>6
  <2>8. CASE next = N - 1
    BY <2>1, <2>5, <2>7, <2>8 DEF RoundInv
  <2>9. CASE next # N - 1
    <3>mod. \A x, n \in Nat : x < n => x % n = x
      BY Z3
    <3>below. next + 1 \in Nat /\ next + 1 < N /\ N \in Nat
      BY <1>types, <2>9
    <3>next. (next + 1) % N = next + 1
      BY <3>mod, <3>below
    <3>1. next + 1 \in Replica /\ next' = next + 1
      BY <1>types, <2>1, <3>below, <3>next
    <3>2. \A i \in next' .. N - 1 : i \in Replica \ {next} /\ i \in next .. N - 1
      BY <1>types, <3>1
    <3>3. \A i \in next' .. N - 1 : Behind(i)' /\ Stopped(i)' /\ cont'[i] = 0
      BY <1>round, <2>1, <2>3, <2>4, <3>2
    <3> QED
      BY <2>1, <2>5, <2>7, <2>9, <3>3 DEF RoundInv
  <2> QED
    BY <2>8, <2>9
<1>12. ASSUME ReplyBroken PROVE RoundInv'
  BY <1>12, <1>gone DEF ReplyBroken, VoterGone
<1>13. QED
  BY <1>1, <1>2, <1>3, <1>4, <1>5, <1>6, <1>7, <1>8, <1>9, <1>10, <1>11,
     <1>12 DEF Next, Reader, Voter

\* Whatever a reader writes is added to what it wrote.
LEMMA OutGrows ==
  ASSUME TypeInv, Next
  PROVE  \A i \in Replica :
           /\ Len(out[i]) \in Nat /\ Len(out'[i]) \in Nat /\ Len(out'[i]) >= Len(out[i])
           /\ \A n \in 1 .. Len(out[i]) : out'[i][n] = out[i][n]
<1> DEFINE G == \A i \in Replica :
                  /\ Len(out[i]) \in Nat /\ Len(out'[i]) \in Nat /\ Len(out'[i]) >= Len(out[i])
                  /\ \A n \in 1 .. Len(out[i]) : out'[i][n] = out[i][n]
<1>types. \A i \in Replica : out[i] \in Seq(Value) /\ Len(out[i]) \in Nat
  BY DEF TypeInv
<1>quiet. ASSUME UNCHANGED out PROVE G
  BY <1>types, <1>quiet
<1>same. SUFFICES G
  OBVIOUS
<1> HIDE DEF G
<1>1. ASSUME NEW i \in Replica, NEW v \in Value, NEW isLast \in BOOLEAN,
            FillChunk(i, v, isLast)
     PROVE G
  <2>1. out' = [out EXCEPT ![i] = Append(out[i], v)]
    BY <1>1 DEF FillChunk
  <2>2. /\ Len(Append(out[i], v)) = Len(out[i]) + 1
        /\ \A n \in 1 .. Len(out[i]) : Append(out[i], v)[n] = out[i][n]
    BY <1>types, AppendFacts
  <2>3. out'[i] = Append(out[i], v) /\ \A j \in Replica \ {i} : out'[j] = out[j]
    BY <2>1 DEF TypeInv
  <2> QED
    BY <1>types, <2>2, <2>3 DEF G
<1>2. ASSUME NEW i \in Replica, Signal(i) PROVE G
  BY <1>2, <1>quiet DEF Signal, readerVars
<1>3. ASSUME NEW i \in Replica, SignalBroken(i) PROVE G
  BY <1>3, <1>quiet DEF SignalBroken, readerVars
<1>4. ASSUME NEW i \in Replica, WaitReply(i) PROVE G
  BY <1>4, <1>quiet DEF WaitReply, readerVars
<1>5. ASSUME NEW i \in Replica, WaitEof(i) PROVE G
  BY <1>5, <1>quiet DEF WaitEof, readerVars
<1>6. ASSUME NEW i \in Replica, ReaderExit(i) PROVE G
  BY <1>6, <1>quiet DEF ReaderExit, readerVars
<1>7. ASSUME NEW i \in Replica, VoterArrive(i) PROVE G
  BY <1>7, <1>quiet DEF VoterArrive, readerVars
<1>8. ASSUME NEW i \in Replica, VoterEof(i) PROVE G
  BY <1>8, <1>quiet DEF VoterEof, readerVars
<1>9. ASSUME Disagree PROVE G
  BY <1>9, <1>quiet DEF Disagree, readerVars
<1>10. ASSUME Vote PROVE G
  BY <1>10, <1>quiet DEF Vote, readerVars
<1>11. ASSUME Reply PROVE G
  BY <1>11, <1>quiet DEF Reply, readerVars
<1>12. ASSUME ReplyBroken PROVE G
  BY <1>12, <1>quiet DEF ReplyBroken, readerVars
<1>13. QED
  BY <1>1, <1>2, <1>3, <1>4, <1>5, <1>6, <1>7, <1>8, <1>9, <1>10, <1>11,
     <1>12 DEF Next, Reader, Voter

\* What was agreed on stays agreed on, and so does what is printed next.
LEMMA OutputStep ==
  ASSUME TypeInv, RoundInv, PrintedInv, OutputAgreed, Next
  PROVE  PrintedInv' /\ OutputAgreed'
<1> DEFINE Writers(n, o, fp) == {i \in Replica : Fp[o[i][n]] = fp}
           Good(n, pr, o) ==
             /\ \A i \in Replica : Len(o[i]) >= n
             /\ \E i \in Writers(n, o, Fp[pr[n]]) : o[i][n] = pr[n]
             /\ Cardinality(Writers(n, o, Fp[pr[n]])) >= 2
             /\ \A i \in Replica : Cardinality(Writers(n, o, Fp[o[i][n]]))
                                     <= Cardinality(Writers(n, o, Fp[pr[n]]))
<1>1. \A n \in 1 .. Len(printed) : Good(n, printed, out)
  BY DEF OutputAgreed
<1>2. (\A n \in 1 .. Len(printed') : Good(n, printed', out')) => OutputAgreed'
  BY DEF OutputAgreed
<1>3. Len(printed) \in Nat
  BY DEF TypeInv, TypeOK
<1>4. ASSUME NEW n \in 1 .. Len(printed), printed'[n] = printed[n]
      PROVE  Good(n, printed', out')
  <2>1. \A i \in Replica : Len(out[i]) >= n /\ Len(out[i]) \in Nat
    BY <1>1, OutGrows
  <2>2. \A i \in Replica : out'[i][n] = out[i][n] /\ Len(out'[i]) >= n
    BY <1>3, <2>1, OutGrows
  <2>3. \A fp : Writers(n, out', fp) = Writers(n, out, fp)
    BY <2>2
  <2>4. Good(n, printed, out) /\ Writers(n, out, Fp[printed[n]]) \subseteq Replica
    BY <1>1
  <2> HIDE DEF Writers
  <2> QED
    BY <1>4, <2>2, <2>3, <2>4
<1>5. CASE UNCHANGED printed
  <2>1. PrintedInv'
    BY <1>3, <1>5, OutGrows DEF PrintedInv
  <2>2. \A n \in 1 .. Len(printed') : Good(n, printed', out')
    BY <1>4, <1>5
  <2> QED
    BY <1>2, <2>1, <2>2
<1>6. CASE Vote
  <2> DEFINE p == Len(printed) + 1
  <2>1. /\ \A i \in Replica : Len(out[i]) = p /\ buffer[i] = out[i][p]
        /\ UNCHANGED out
    BY <1>6 DEF Vote, RoundInv, VoterGone, Arrived, Round, Ahead
  <2>2. /\ Len(printed') = p /\ printed'[p] = buffer[Winner]
        /\ \A n \in 1 .. Len(printed) : printed'[n] = printed[n]
    BY <1>6 DEF Vote, TypeInv, TypeOK
  <2>3. Winner \in Replica /\ Cardinality(Same(Winner)) >= 2
        /\ \A j \in Replica : Cardinality(Same(j)) <= Cardinality(Same(Winner))
    BY <1>6, WinnerFacts DEF Vote
  <2>4. p \in Nat
    BY <1>3
  <2> HIDE DEF p
  <2>5. \A j \in Replica : {i \in Replica : Fp[out'[i][p]] = Fp[buffer[j]]} = Same(j)
    BY <2>1 DEF Same
  <2>6. Good(p, printed', out')
    <3>1. \A i \in Replica : Len(out'[i]) >= p
      BY <2>1, <2>4
    <3>2. Winner \in Same(Winner) /\ out'[Winner][p] = printed'[p]
      BY <2>1, <2>2, <2>3 DEF Same
    <3>3. {i \in Replica : Fp[out'[i][p]] = Fp[printed'[p]]} = Same(Winner)
      BY <2>2, <2>3, <2>5
    <3>4. \A i \in Replica :
            {j \in Replica : Fp[out'[j][p]] = Fp[out'[i][p]]} = Same(i)
      BY <2>1, <2>5
    <3> QED
      BY <2>3, <3>1, <3>2, <3>3, <3>4
  <2>7. PrintedInv'
    BY <2>1, <2>2, <2>4 DEF PrintedInv
  <2>8. \A n \in 1 .. Len(printed') : n = p \/ n \in 1 .. Len(printed)
    BY <1>3, <2>2 DEF p
  <2>9. \A n \in 1 .. Len(printed') : Good(n, printed', out')
    <3> HIDE DEF Good
    <3> QED
      BY <1>4, <2>2, <2>6, <2>8
  <2> QED
    BY <1>2, <2>7, <2>9
<1>7. Vote \/ UNCHANGED printed
  BY DEF Next, Reader, Voter, FillChunk, Signal, SignalBroken, WaitReply,
     WaitEof, ReaderExit,
         VoterArrive, VoterEof, Disagree, Reply, ReplyBroken, voterVars
<1> QED
  BY <1>5, <1>6, <1>7

----------------------------------------------------------------------------
(* The theorems *)

\* At first nobody has written, and no signal is on its way.
LEMMA InitInv ==
  ASSUME Init
  PROVE  IInv
<1> USE DEF Init
<1>n. N \in Nat /\ N >= 2 /\ Chunks \in Nat \ {0}
  BY ReplicatedAssumption
<1>1. \A i \in Replica : out[i] = <<>> /\ Len(out[i]) = 0
  OBVIOUS
<1>2. printed \in Seq(Value) /\ Len(printed) = 0
  OBVIOUS
<1>3. TypeInv
  <2>1. out \in [Replica -> Seq(Value)] /\ \A i \in Replica : Len(out[i]) <= Chunks
    BY <1>n, <1>1
  <2>2. next \in Replica /\ arrivals \in 0 .. N - 1
    BY <1>n DEF Replica
  <2> HIDE DEF Replica
  <2>3. full \in [Replica -> 0 .. 1] /\ cont \in [Replica -> 0 .. 1]
    OBVIOUS
  <2> QED
    BY <1>2, <2>1, <2>2, <2>3 DEF TypeInv, TypeOK
<1>4. LocalInv
  BY <1>n, <1>1 DEF LocalInv
<1>5. \A i \in Replica : Behind(i) /\ ~Ahead(i)
  BY <1>1, <1>2 DEF Behind, Ahead
<1>6. Arrived = {}
  BY <1>5 DEF Arrived
<1>7. RoundInv
  BY <1>5, <1>6, FS_EmptySet DEF RoundInv, Round
<1>8. PrintedInv /\ OutputAgreed
  BY <1>1, <1>2 DEF PrintedInv, OutputAgreed
<1> QED
  BY <1>3, <1>4, <1>7, <1>8 DEF IInv

\* IInv is an invariant of the replicated version.
THEOREM Invariant == Spec => []IInv
<1>1. Init => IInv
  BY InitInv
<1>2. IInv /\ [Next]_vars => IInv'
  <2> SUFFICES ASSUME IInv, [Next]_vars PROVE IInv'
    OBVIOUS
  <2>1. CASE UNCHANGED vars
    <3> USE <2>1 DEF vars
    <3>1. TypeInv' /\ LocalInv' /\ PrintedInv'
      BY DEF IInv, TypeInv, TypeOK, LocalInv, VoterEndsClosed, VoterGone,
         PrintedInv
    <3>2. RoundInv'
      BY DEF IInv, RoundInv, Round, Behind, Ahead, Stopped, Arrived, VoterGone
    <3>3. OutputAgreed'
      BY DEF IInv, OutputAgreed
    <3> QED
      BY <3>1, <3>2, <3>3 DEF IInv
  <2>2. CASE Next
    BY <2>2, TypeStep, LocalStep, RoundStep, OutputStep DEF IInv
  <2> QED
    BY <2>1, <2>2
<1> QED
  BY <1>1, <1>2, PTL DEF Spec

\* When the barrier opens, every replica has stopped at the same point of its
\* output, and its buffer holds that part of it.
THEOREM VoteAlignedAlways == Spec => []VoteAligned
<1>1. ASSUME IInv PROVE VoteAligned
  <2>1. /\ TypeOK /\ Len(printed) \in Nat /\ \A i \in Replica : Len(out[i]) \in Nat
    BY <1>1 DEF IInv, TypeInv, TypeOK
  <2>2. ASSUME voter = "vote", NEW i \in Replica
        PROVE  /\ pc[i] \in {"wait", "leaving", "exited"}
               /\ Len(out[i]) = Len(printed) + 1
               /\ buffer[i] = out[i][Len(printed) + 1]
    BY <1>1, <2>2 DEF IInv, RoundInv, VoterGone, Arrived, Round, Ahead, Stopped
  <2>3. ASSUME ~VoterGone, NEW i \in Replica
        PROVE  Len(out[i]) - Len(printed) \in {0, 1}
    <3>1. Behind(i) \/ Ahead(i)
      BY <1>1, <2>3 DEF IInv, RoundInv, Round
    <3> QED
      BY <2>1, <3>1 DEF Behind, Ahead
  <2> QED
    BY <2>1, <2>2, <2>3 DEF VoteAligned
<1> QED
  BY <1>1, Invariant, PTL

\* What the voter prints is what a replica wrote there and at least two have
\* the fingerprint of, and no other fingerprint is more frequent.
THEOREM OutputAgreedAlways == Spec => []OutputAgreed
<1>1. IInv => OutputAgreed
  BY DEF IInv
<1> QED
  BY <1>1, Invariant, PTL
=============================================================================
