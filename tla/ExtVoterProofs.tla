--------------------------- MODULE ExtVoterProofs ---------------------------
(***************************************************************************)
(* Proofs about the voter of Exterminator's replicated mode, for every     *)
(* number of replicas and whatever a correct replica writes.               *)
(***************************************************************************)
EXTENDS ExtVoter, FiniteSetTheorems, WellFoundedInduction, TLAPS

----------------------------------------------------------------------------
(* The inductive invariant *)

\* What the buffer of a replica holds after so many bytes, in the end, and how
\* often its reader has signalled.
Contents(i, j) == IF j = 0 THEN Nul ELSE Byte(i, j)
Signals(i) == (IF rd[i].got > 0 THEN rd[i].got - 1 ELSE 0)
                + (IF rd[i].pc = "done" THEN 1 ELSE 0)

Reader ==
  [pc : {"fetch", "reply", "done"}, got : 0 .. Len(Output), held : BOOLEAN]

VoterTypeInv ==
  /\ wrong \in {{}, {1}} /\ sent \in [Replicas -> 0 .. Len(Output)]
  /\ ended \in [Replicas -> {"no", "exit", "crash", "reaped"}] /\ faults \in Nat
  /\ rd \in [Replicas -> Reader]
  /\ space \in [Replicas -> {Nul, "a", "b", "w"}]
  /\ full \in [Replicas -> Nat] /\ cont \in [Replicas -> Nat]
  /\ closed \subseteq Replicas /\ voter \in {"select", "getc", "exited"}
  /\ dead \subseteq Replicas /\ alive = N - Cardinality(dead)
  /\ arrivals \in 0 .. N /\ ready \subseteq Replicas \ dead /\ isolators \in Nat
  /\ printed \in Seq({"a", "b"})

\* A reader holds a byte once it has read one, and signals for all but the first
\* of the bytes it read and for the end.
ReaderInv ==
  /\ voter = "getc" => ready # {}
  /\ \A i \in Replicas :
       /\ rd[i].got <= sent[i] /\ (rd[i].held <=> rd[i].got > 0)
       /\ rd[i].pc = "reply" => rd[i].got > 1
       /\ rd[i].pc = "done" <=> i \in closed
       /\ full[i] <= Signals(i)
       /\ space[i] = "w" => i = 1

\* Before the vote on byte r, every signal of the rounds before has been counted.
\* What the voter is about to take from a pipe is counted already.
Counted(i) ==
  (Signals(i) - full[i])
    + (IF voter = "getc" /\ i = Min(ready) /\ full[i] > 0 THEN 1 ELSE 0)

Quiet == usr1 = FALSE /\ usr2 = FALSE /\ dumpPending = FALSE /\ isolators = 0

\* A reader in round r: it has a reply for every signal of the rounds before, in
\* its pipe or taken, and its buffer holds the byte before its last signal.
InRound(i, r) ==
  /\ rd[i].pc = "fetch" => /\ rd[i].got <= r /\ cont[i] = r - 1 - Signals(i)
                           /\ space[i] = Contents(i, rd[i].got)
  /\ rd[i].pc = "reply" => /\ cont[i] = r - Signals(i)
                           /\ space[i] = Contents(i, rd[i].got - 1)
  /\ rd[i].pc = "done" => /\ rd[i].got = Len(Output) /\ r = Len(Output)
                          /\ space[i] = Contents(i, Len(Output))
  /\ Counted(i) \in {r - 1, r}
  /\ i \in ready => IsReady(i)
  /\ i \in dead => i \in closed /\ full[i] = 0

\* The rounds up to the vote on the last byte.  The end of a pipe is counted as
\* an arrival besides the last signal of its reader, and so are those whose end
\* was taken.
Rounds ==
  LET r == Len(printed) + 1 IN
  /\ r <= Len(Output) /\ voter # "exited" /\ Quiet
  /\ \A k \in DOMAIN printed : printed[k] = Output[k]
  /\ \A i \in Replicas : InRound(i, r)
  /\ arrivals = Cardinality({i \in Replicas : Counted(i) = r}) + Cardinality(dead)
                  + (IF voter = "getc" /\ full[Min(ready)] = 0 THEN 1 ELSE 0)

\* What is printed: all bytes but the last in order, and then, as long as buffers
\* are voted on again, the last; with four replicas also the last but one.
Printed ==
  \A k \in DOMAIN printed :
    /\ k < Len(Output) => printed[k] = Output[k]
    /\ k >= Len(Output) =>
         \/ printed[k] = Output[Len(Output)]
         \/ N > 3 /\ Len(Output) > 1 /\ printed[k] = Output[Len(Output) - 1]

\* After that vote the buffers hold the last byte or the one before it, and with
\* at most three replicas all readers but one are done.
Endgame ==
  /\ \A i \in Replicas :
       /\ space[i] \in {Contents(i, Len(Output) - 1), Contents(i, Len(Output))}
       /\ rd[i].got >= Len(Output) - 1
       /\ rd[i].pc # "fetch" => rd[i].got = Len(Output)
       /\ rd[i].pc # "reply" => space[i] = Contents(i, rd[i].got)
  /\ Len(printed) >= Len(Output) - 1 /\ Printed
  /\ N <= 3 => Cardinality(Replicas \ closed) <= 1

FaultFree ==
  faults = 0 =>
    /\ \A i \in Replicas : sent[i] = Len(Output) /\ ended[i] \in {"no", "exit"}
    /\ Len(Output) = 0 => printed = <<>> /\ \A i \in Replicas : space[i] = Nul
    /\ Len(Output) > 0 => Rounds \/ Endgame \/ (voter = "exited" /\ Printed)

VoterIInv == VoterTypeInv /\ ReaderInv /\ FaultFree

----------------------------------------------------------------------------
(* Lemmas *)

\* The least element of a set of natural numbers.
LEMMA Least ==
  ASSUME NEW T \in SUBSET Nat, T # {}
  PROVE  \E x \in T : \A y \in T : x <= y
<1>1. PICK x \in T : \A y \in T : ~(<<y, x>> \in OpToRel(<, Nat))
  BY WFMin, NatLessThanWellFounded
<1>2. \A y \in T : ~(y < x)
  BY <1>1 DEF OpToRel
<1> QED
  BY <1>2

\* Min finds the least element.
LEMMA MinFacts ==
  ASSUME NEW T \in SUBSET Nat, T # {}
  PROVE  Min(T) \in T /\ \A y \in T : Min(T) <= y
<1>1. \E x \in T : \A y \in T : x <= y
  BY Least
<1> QED
  BY <1>1 DEF Min

\* There are N replicas.
LEMMA ReplicaFacts ==
  /\ N \in Nat /\ N >= 2 /\ 1 \in Replicas /\ 2 \in Replicas
  /\ Replicas \subseteq Nat /\ IsFiniteSet(Replicas) /\ Cardinality(Replicas) = N
  /\ \A S \in SUBSET Replicas :
       /\ IsFiniteSet(S) /\ Cardinality(S) \in 0 .. N
       /\ Cardinality(S) = N => S = Replicas
<1>1. N \in Nat /\ N >= 2 /\ 1 \in Replicas /\ 2 \in Replicas /\ Replicas \subseteq Nat
  BY ExtVoterAssumption DEF Replicas
<1>2. IsFiniteSet(Replicas) /\ Cardinality(Replicas) = N
  BY <1>1, FS_Interval DEF Replicas
<1>3. ASSUME NEW S \in SUBSET Replicas
      PROVE  /\ IsFiniteSet(S) /\ Cardinality(S) \in 0 .. N
             /\ Cardinality(S) = N => S = Replicas
  <2>1. /\ IsFiniteSet(S) /\ Cardinality(S) <= N
        /\ Cardinality(S) = N => S = Replicas
    BY <1>2, FS_Subset
  <2>2. Cardinality(S) \in Nat
    BY <2>1, FS_CardinalityType
  <2> QED
    BY <1>1, <2>1, <2>2
<1> QED
  BY <1>1, <1>2, <1>3

\* What a sequence is after an Append.
LEMMA AppendFacts ==
  ASSUME NEW S, NEW q \in Seq(S), NEW v \in S
  PROVE  /\ Append(q, v) \in Seq(S) /\ Len(q) \in Nat
         /\ Len(Append(q, v)) = Len(q) + 1 /\ Append(q, v)[Len(q) + 1] = v
         /\ \A n \in 1 .. Len(q) : Append(q, v)[n] = q[n]
OBVIOUS

\* A set with two elements has them.
LEMMA TwoMembers ==
  ASSUME NEW S \in SUBSET Replicas, Cardinality(S) >= 2
  PROVE  \E i, j \in S : i # j
<1>1. SUFFICES ASSUME \A i, j \in S : i = j PROVE FALSE
  OBVIOUS
<1>2. CASE S = {}
  BY <1>2, FS_EmptySet
<1>3. CASE S # {}
  <2>1. PICK i \in S : S = {i}
    BY <1>1, <1>3
  <2> QED
    BY <2>1, FS_Singleton
<1> QED
  BY <1>2, <1>3

\* One more element.
LEMMA OneMore ==
  ASSUME NEW S \in SUBSET Replicas, NEW i \in Replicas, i \notin S
  PROVE  Cardinality(S \cup {i}) = Cardinality(S) + 1
BY ReplicaFacts, FS_AddElement

\* mostCommonElement is in as many buffers as Agreed says, and no other byte in
\* more.
LEMMA WinnerFacts ==
  /\ Agreed \in 0 .. N /\ Votes(mostCommonElement) = Agreed
  /\ \A i \in Replicas : Votes(space[i]) <= Agreed
  /\ \E i \in Replicas : mostCommonElement = space[i]
<1> DEFINE V == {Votes(c) : c \in Values}
           S == {N - n : n \in V}
           Most(i) == Votes(space[i]) = Agreed
           T == {i \in Replicas : Most(i)}
<1>1. \A c : Votes(c) \in 0 .. N
  BY ReplicaFacts DEF Votes
<1>2. N \in Nat /\ 1 \in Replicas
  BY ReplicaFacts
<1>3. S \in SUBSET Nat /\ S # {}
  BY <1>1, <1>2 DEF Values
<1>4. PICK m \in S : \A x \in S : m <= x
  <2> HIDE DEF S
  <2> QED
    BY <1>3, Least
<1>5. PICK n \in V : m = N - n
  BY <1>4
<1>6. \A x \in V : x \in 0 .. N /\ n >= x
  <2>1. \A x \in V : x \in 0 .. N /\ N - x \in S
    BY <1>1
  <2>2. \A x \in V : m <= N - x
    BY <1>4, <2>1
  <2> HIDE DEF V
  <2> QED
    BY <1>2, <1>5, <2>1, <2>2
<1>7. Agreed = Max(V)
  BY DEF Agreed
<1> HIDE DEF V
<1>8. Agreed \in V /\ \A x \in V : Agreed >= x
  BY <1>5, <1>6, <1>7 DEF Max
<1>9. \A i \in Replicas : Votes(space[i]) \in V
  BY DEF V, Values
<1>10. \A i \in Replicas : Votes(space[i]) <= Agreed
  BY <1>1, <1>6, <1>8, <1>9
<1>11. PICK i \in Replicas : Agreed = Votes(space[i])
  BY <1>8 DEF V, Values
<1>12. T \in SUBSET Nat /\ T # {}
  BY <1>11, ReplicaFacts
<1>13. Min(T) \in T
  BY <1>12, MinFacts
<1>14. mostCommonElement = space[Min(T)]
  BY DEF mostCommonElement
<1> QED
  BY <1>6, <1>8, <1>10, <1>13, <1>14

\* A quorum is of two replicas.
LEMMA QuorumFacts ==
  ASSUME Agreed >= Quorum
  PROVE  \E i, j \in Replicas : /\ i # j
                                /\ space[i] = mostCommonElement
                                /\ space[j] = mostCommonElement
<1> DEFINE S == {i \in Replicas : space[i] = mostCommonElement}
<1>1. S \in SUBSET Replicas /\ Cardinality(S) >= 2
  BY WinnerFacts DEF Votes, Quorum
<1> HIDE DEF S
<1>2. PICK i, j \in S : i # j
  BY <1>1, TwoMembers
<1> QED
  BY <1>2 DEF S

\* When all buffers hold the same, that wins with the votes of all.
LEMMA Unanimous ==
  ASSUME NEW c, \A i \in Replicas : space[i] = c
  PROVE  mostCommonElement = c /\ Agreed = N
<1>1. {i \in Replicas : space[i] = c} = Replicas
  OBVIOUS
<1>2. Votes(c) = N
  BY <1>1, ReplicaFacts DEF Votes
<1> QED
  BY <1>2, WinnerFacts

\* A byte of the output, or of a replica that errs.
LEMMA ByteFacts ==
  ASSUME VoterTypeInv, NEW i \in Replicas, NEW j \in 1 .. Len(Output)
  PROVE  /\ Output[j] \in {"a", "b"} /\ Byte(i, j) \in {"a", "b", "w"}
         /\ Byte(i, j) = "w" => i = 1 /\ j = Len(Output)
         /\ Byte(i, j) # "w" => Byte(i, j) = Output[j]
         /\ Contents(i, j) = Byte(i, j)
<1>1. Output[j] \in {"a", "b"}
  BY ExtVoterAssumption
<1>2. wrong \in {{}, {1}}
  BY DEF VoterTypeInv
<1>3. j # 0
  OBVIOUS
<1> QED
  BY <1>1, <1>2, <1>3 DEF Byte, Contents

----------------------------------------------------------------------------
(* What the steps of a reader do *)

\* A reader reads its first byte.
LEMMA ReadFirst ==
  ASSUME VoterTypeInv, ReaderInv, NEW i \in Replicas, ReadByte(i), ~rd[i].held
  PROVE  /\ rd[i].pc = "fetch" /\ rd[i].got = 0 /\ 0 < sent[i]
         /\ rd' \in [Replicas -> Reader]
         /\ rd'[i].pc = "fetch" /\ rd'[i].got = 1 /\ rd'[i].held
         /\ \A j \in Replicas : j # i => rd'[j] = rd[j]
         /\ space' = [space EXCEPT ![i] = Byte(i, 1)]
         /\ UNCHANGED <<full, replicaVars, closed, cont, voterVars, signalVars>>
<1>1. /\ rd[i].pc = "fetch" /\ rd[i].got < sent[i]
      /\ rd' = [rd EXCEPT ![i].got = @ + 1, ![i].held = TRUE]
      /\ space' = [space EXCEPT ![i] = Byte(i, rd[i].got + 1)]
      /\ UNCHANGED <<full, replicaVars, closed, cont, voterVars, signalVars>>
  BY DEF ReadByte
<1>2. rd[i].got \in 0 .. Len(Output) /\ sent[i] \in 0 .. Len(Output)
  BY DEF VoterTypeInv, Reader
<1>3. rd[i].got = 0
  BY <1>2 DEF ReaderInv
<1>4. rd[i].got + 1 \in 0 .. Len(Output)
  BY <1>1, <1>2
<1>5. rd[i] \in Reader
  BY DEF VoterTypeInv
<1>6. /\ rd'[i] = [rd[i] EXCEPT !.got = rd[i].got + 1, !.held = TRUE]
      /\ \A j \in Replicas : j # i => rd'[j] = rd[j]
      /\ DOMAIN rd' = Replicas
  BY <1>1 DEF VoterTypeInv
<1>7. /\ rd'[i].pc = "fetch" /\ rd'[i].got = 1 /\ rd'[i].held
      /\ rd'[i] \in Reader
  BY <1>1, <1>3, <1>4, <1>5, <1>6 DEF Reader
<1>8. rd' \in [Replicas -> Reader]
  <2>1. rd \in [Replicas -> Reader] /\ rd'[i] \in Reader
    BY <1>7 DEF VoterTypeInv
  <2>2. rd' = [rd EXCEPT ![i] = rd'[i]]
    BY <1>1, <1>6, <2>1
  <2> QED
    BY <2>1, <2>2
<1> QED
  BY <1>1, <1>2, <1>3, <1>6, <1>7, <1>8

\* A reader reads another byte and signals the one in its buffer.
LEMMA ReadNext ==
  ASSUME VoterTypeInv, ReaderInv, NEW i \in Replicas, ReadByte(i), rd[i].held
  PROVE  /\ rd[i].pc = "fetch" /\ rd[i].got > 0 /\ rd[i].got < sent[i]
         /\ rd' \in [Replicas -> Reader]
         /\ rd'[i].pc = "reply" /\ rd'[i].got = rd[i].got + 1 /\ rd'[i].held
         /\ \A j \in Replicas : j # i => rd'[j] = rd[j]
         /\ full' = [full EXCEPT ![i] = full[i] + 1]
         /\ UNCHANGED <<space, replicaVars, closed, cont, voterVars, signalVars>>
<1>1. /\ rd[i].pc = "fetch" /\ rd[i].got < sent[i]
      /\ rd' = [rd EXCEPT ![i].pc = "reply", ![i].got = @ + 1]
      /\ full' = [full EXCEPT ![i] = full[i] + 1]
      /\ UNCHANGED <<space, replicaVars, closed, cont, voterVars, signalVars>>
  BY DEF ReadByte
<1>2. rd[i].got \in 0 .. Len(Output) /\ sent[i] \in 0 .. Len(Output)
  BY DEF VoterTypeInv, Reader
<1>3. rd[i].got > 0
  BY <1>2 DEF ReaderInv
<1>4. rd[i].got + 1 \in 0 .. Len(Output)
  BY <1>1, <1>2
<1>5. rd[i] \in Reader
  BY DEF VoterTypeInv
<1>6. /\ rd'[i] = [rd[i] EXCEPT !.pc = "reply", !.got = rd[i].got + 1]
      /\ \A j \in Replicas : j # i => rd'[j] = rd[j]
      /\ DOMAIN rd' = Replicas
  BY <1>1 DEF VoterTypeInv
<1>7. /\ rd'[i].pc = "reply" /\ rd'[i].got = rd[i].got + 1 /\ rd'[i].held
      /\ rd'[i] \in Reader
  BY <1>1, <1>3, <1>4, <1>5, <1>6 DEF Reader
<1>8. rd' \in [Replicas -> Reader]
  <2>1. rd \in [Replicas -> Reader] /\ rd'[i] \in Reader
    BY <1>7 DEF VoterTypeInv
  <2>2. rd' = [rd EXCEPT ![i] = rd'[i]]
    BY <1>1, <1>6, <2>1
  <2> QED
    BY <2>1, <2>2
<1> QED
  BY <1>1, <1>3, <1>6, <1>7, <1>8

\* A reader gets its reply and puts the byte in hand into the buffer.
LEMMA Replied ==
  ASSUME VoterTypeInv, ReaderInv, NEW i \in Replicas, GetReply(i)
  PROVE  /\ rd[i].pc = "reply" /\ rd[i].got > 1
         /\ rd' \in [Replicas -> Reader]
         /\ rd'[i].pc = "fetch" /\ rd'[i].got = rd[i].got /\ rd'[i].held = rd[i].held
         /\ \A j \in Replicas : j # i => rd'[j] = rd[j]
         /\ space' = [space EXCEPT ![i] = Byte(i, rd[i].got)]
         /\ cont' \in [Replicas -> Nat] /\ \A j \in Replicas : j # i => cont'[j] = cont[j]
         /\ voter # "exited" => cont[i] > 0 /\ cont'[i] = cont[i] - 1
         /\ UNCHANGED <<replicaVars, full, closed, voterVars, signalVars>>
<1>1. /\ rd[i].pc = "reply" /\ (cont[i] > 0 \/ voter = "exited")
      /\ rd' = [rd EXCEPT ![i].pc = "fetch"]
      /\ cont' = [cont EXCEPT ![i] = IF cont[i] > 0 THEN cont[i] - 1 ELSE 0]
      /\ space' = [space EXCEPT ![i] = Byte(i, rd[i].got)]
      /\ UNCHANGED <<replicaVars, full, closed, voterVars, signalVars>>
  BY DEF GetReply
<1>2. rd[i].got \in 0 .. Len(Output) /\ rd[i].got > 1
  BY <1>1 DEF VoterTypeInv, Reader, ReaderInv
<1>3. rd[i] \in Reader
  BY DEF VoterTypeInv
<1>4. /\ rd'[i] = [rd[i] EXCEPT !.pc = "fetch"]
      /\ \A j \in Replicas : j # i => rd'[j] = rd[j]
      /\ DOMAIN rd' = Replicas
  BY <1>1 DEF VoterTypeInv
<1>5. /\ rd'[i].pc = "fetch" /\ rd'[i].got = rd[i].got /\ rd'[i].held = rd[i].held
      /\ rd'[i] \in Reader
  BY <1>3, <1>4 DEF Reader
<1>6. rd' \in [Replicas -> Reader]
  <2>1. rd \in [Replicas -> Reader] /\ rd'[i] \in Reader
    BY <1>5 DEF VoterTypeInv
  <2>2. rd' = [rd EXCEPT ![i] = rd'[i]]
    BY <1>1, <1>4, <2>1
  <2> QED
    BY <2>1, <2>2
<1>7. /\ cont' \in [Replicas -> Nat] /\ \A j \in Replicas : j # i => cont'[j] = cont[j]
      /\ cont[i] > 0 => cont'[i] = cont[i] - 1
  <2>1. cont \in [Replicas -> Nat] /\ cont[i] \in Nat
    BY DEF VoterTypeInv
  <2>2. (IF cont[i] > 0 THEN cont[i] - 1 ELSE 0) \in Nat
    BY <2>1
  <2> QED
    BY <1>1, <2>1, <2>2
<1> QED
  BY <1>1, <1>2, <1>4, <1>5, <1>6, <1>7

\* A reader finds the end, signals a last time and leaves.
LEMMA ReadEnd ==
  ASSUME VoterTypeInv, ReaderInv, NEW i \in Replicas, ReadEOF(i)
  PROVE  /\ rd[i].pc = "fetch" /\ ended[i] # "no" /\ rd[i].got = sent[i]
         /\ rd' \in [Replicas -> Reader]
         /\ rd'[i].pc = "done" /\ rd'[i].got = rd[i].got /\ rd'[i].held = rd[i].held
         /\ \A j \in Replicas : j # i => rd'[j] = rd[j]
         /\ space' = [space EXCEPT ![i] = IF rd[i].got > 0 THEN space[i] ELSE Nul]
         /\ full' = [full EXCEPT ![i] = full[i] + 1]
         /\ closed' = closed \cup {i} /\ i \notin closed
         /\ UNCHANGED <<replicaVars, cont, voterVars, signalVars>>
<1>1. /\ rd[i].pc = "fetch" /\ ended[i] # "no" /\ rd[i].got = sent[i]
      /\ rd' = [rd EXCEPT ![i].pc = "done"]
      /\ full' = [full EXCEPT ![i] = full[i] + 1]
      /\ space' = [space EXCEPT ![i] = IF rd[i].held THEN space[i] ELSE Nul]
      /\ closed' = closed \cup {i}
      /\ UNCHANGED <<replicaVars, cont, voterVars, signalVars>>
  BY DEF ReadEOF
<1>2. (rd[i].held <=> rd[i].got > 0) /\ i \notin closed
  BY <1>1 DEF ReaderInv
<1>3. rd[i] \in Reader
  BY DEF VoterTypeInv
<1>4. /\ rd'[i] = [rd[i] EXCEPT !.pc = "done"]
      /\ \A j \in Replicas : j # i => rd'[j] = rd[j]
      /\ DOMAIN rd' = Replicas
  BY <1>1 DEF VoterTypeInv
<1>5. /\ rd'[i].pc = "done" /\ rd'[i].got = rd[i].got /\ rd'[i].held = rd[i].held
      /\ rd'[i] \in Reader
  BY <1>3, <1>4 DEF Reader
<1>6. rd' \in [Replicas -> Reader]
  <2>1. rd \in [Replicas -> Reader] /\ rd'[i] \in Reader
    BY <1>5 DEF VoterTypeInv
  <2>2. rd' = [rd EXCEPT ![i] = rd'[i]]
    BY <1>1, <1>4, <2>1
  <2> QED
    BY <2>1, <2>2
<1>7. space' = [space EXCEPT ![i] = IF rd[i].got > 0 THEN space[i] ELSE Nul]
  <2>1. CASE rd[i].held
    BY <1>1, <1>2, <2>1
  <2>2. CASE ~rd[i].held
    BY <1>1, <1>2, <2>2
  <2> QED
    BY <2>1, <2>2
<1> QED
  BY <1>1, <1>2, <1>4, <1>5, <1>6, <1>7

----------------------------------------------------------------------------
(* The types and the readers *)

\* The winner of a vote of two replicas is a byte of a correct one, or nothing.
LEMMA WinnerCorrect ==
  ASSUME VoterTypeInv, ReaderInv, Agreed >= Quorum
  PROVE  mostCommonElement \in {Nul, "a", "b"}
<1>1. PICK i, j \in Replicas : /\ i # j
                               /\ space[i] = mostCommonElement
                               /\ space[j] = mostCommonElement
  BY QuorumFacts
<1>2. mostCommonElement # "w"
  BY <1>1 DEF ReaderInv
<1>3. space[i] \in {Nul, "a", "b", "w"}
  BY DEF VoterTypeInv
<1> QED
  BY <1>1, <1>2, <1>3

\* The types stay.
LEMMA VoterTypeStep ==
  ASSUME VoterTypeInv, ReaderInv, Next
  PROVE  VoterTypeInv'
<1> USE DEF replicaVars, readerVars, voterVars, signalVars
<1>s. space \in [Replicas -> {Nul, "a", "b", "w"}]
  BY DEF VoterTypeInv
<1>1. ASSUME NEW i \in Replicas, NEW how \in {"exit", "crash"}, NEW k \in 0 .. Len(Output),
             End(i, how, k)
      PROVE  VoterTypeInv'
  BY <1>1 DEF End, VoterTypeInv
<1>2. ASSUME NEW i \in Replicas, Reap(i) PROVE VoterTypeInv'
  BY <1>2 DEF Reap, VoterTypeInv
<1>3. ASSUME NEW i \in Replicas, relayToVoter(i) PROVE VoterTypeInv'
  BY <1>3 DEF relayToVoter, VoterTypeInv
<1>4. ASSUME NEW i \in Replicas, ReadByte(i), ~rd[i].held PROVE VoterTypeInv'
  <2>1. 1 \in 1 .. Len(Output)
    BY <1>4, ReadFirst DEF VoterTypeInv
  <2>2. Byte(i, 1) \in {"a", "b", "w"}
    BY <2>1, ByteFacts
  <2>3. space' = [space EXCEPT ![i] = Byte(i, 1)]
    BY <1>4, ReadFirst
  <2>4. space' \in [Replicas -> {Nul, "a", "b", "w"}]
    BY <1>s, <2>2, <2>3
  <2>5. /\ rd' \in [Replicas -> Reader]
        /\ UNCHANGED <<full, replicaVars, closed, cont, voterVars, signalVars>>
    BY <1>4, ReadFirst
  <2> QED
    BY <2>4, <2>5 DEF VoterTypeInv
<1>5. ASSUME NEW i \in Replicas, ReadByte(i), rd[i].held PROVE VoterTypeInv'
  <2>1. /\ rd' \in [Replicas -> Reader] /\ full' = [full EXCEPT ![i] = full[i] + 1]
        /\ UNCHANGED <<space, replicaVars, closed, cont, voterVars, signalVars>>
    BY <1>5, ReadNext
  <2> QED
    BY <2>1 DEF VoterTypeInv
<1>6. ASSUME NEW i \in Replicas, GetReply(i) PROVE VoterTypeInv'
  <2>1. rd[i].got \in 1 .. Len(Output)
    BY <1>6, Replied DEF VoterTypeInv, Reader
  <2>2. Byte(i, rd[i].got) \in {"a", "b", "w"}
    BY <2>1, ByteFacts
  <2>3. /\ rd' \in [Replicas -> Reader] /\ cont' \in [Replicas -> Nat]
        /\ space' = [space EXCEPT ![i] = Byte(i, rd[i].got)]
        /\ UNCHANGED <<replicaVars, full, closed, voterVars, signalVars>>
    BY <1>6, Replied
  <2>4. space' \in [Replicas -> {Nul, "a", "b", "w"}]
    BY <1>s, <2>2, <2>3
  <2> QED
    BY <2>3, <2>4 DEF VoterTypeInv
<1>7. ASSUME NEW i \in Replicas, ReadEOF(i) PROVE VoterTypeInv'
  <2>1. /\ rd' \in [Replicas -> Reader] /\ full' = [full EXCEPT ![i] = full[i] + 1]
        /\ space' = [space EXCEPT ![i] = IF rd[i].got > 0 THEN space[i] ELSE Nul]
        /\ closed' = closed \cup {i}
        /\ UNCHANGED <<replicaVars, cont, voterVars, signalVars>>
    BY <1>7, ReadEnd
  <2>2. (IF rd[i].got > 0 THEN space[i] ELSE Nul) \in {Nul, "a", "b", "w"}
    BY <1>s
  <2>3. space' \in [Replicas -> {Nul, "a", "b", "w"}]
    BY <1>s, <2>1, <2>2
  <2> QED
    BY <2>1, <2>3 DEF VoterTypeInv
<1>8. CASE TakeSignal
  BY <1>8 DEF TakeSignal, requestDump, dumpCompleted, VoterTypeInv
<1>9. CASE Select
  BY <1>9 DEF Select, VoterTypeInv
<1>10. CASE handleInput
  <2>1. UNCHANGED <<replicaVars, readerVars, alive, dead, ready>>
    BY <1>10 DEF handleInput
  <2>2. CASE ~BarrierReached(arrivals + 1)
    <3>1. arrivals + 1 \in 0 .. N
      <4>1. arrivals \in 0 .. N /\ alive = N - Cardinality(dead) /\ dead \subseteq Replicas
        BY DEF VoterTypeInv
      <4>2. Cardinality(dead) \in Nat
        BY <4>1, ReplicaFacts
      <4> QED
        BY <2>2, <4>1, <4>2, ReplicaFacts DEF BarrierReached
    <3>2. arrivals' = arrivals + 1 /\ voter' = "getc" /\ UNCHANGED <<cont, printed, isolators>>
      BY <1>10, <2>2 DEF handleInput
    <3> QED
      BY <2>1, <3>1, <3>2 DEF VoterTypeInv
  <2>3. CASE BarrierReached(arrivals + 1)
    <3>1. Barrier
      BY <1>10, <2>3 DEF handleInput
    <3>2. arrivals' = 0 /\ arrivals' \in 0 .. N
      BY <3>1, ReplicaFacts DEF Barrier
    <3>3. isolators' \in Nat
      <4>1. \A p, q \in {0, 1} : isolators + p + q \in Nat
        BY DEF VoterTypeInv
      <4> QED
        BY <3>1, <4>1 DEF Barrier
    <3>4. CASE Agreed < Quorum
      BY <2>1, <3>1, <3>2, <3>3, <3>4 DEF Barrier, VoterTypeInv
    <3>5. CASE ~(Agreed < Quorum)
      <4>1. Agreed >= Quorum
        BY <3>5, WinnerFacts, ReplicaFacts DEF Quorum
      <4>2. printed' \in Seq({"a", "b"})
        <5>1. CASE mostCommonElement = Nul
          BY <3>1, <3>5, <5>1 DEF Barrier, VoterTypeInv
        <5>2. CASE mostCommonElement # Nul
          <6>1. mostCommonElement \in {"a", "b"}
            BY <4>1, <5>2, WinnerCorrect
          <6>2. printed' = Append(printed, mostCommonElement)
            BY <3>1, <3>5, <5>2 DEF Barrier
          <6> QED
            BY <6>1, <6>2, AppendFacts DEF VoterTypeInv
        <5> QED
          BY <5>1, <5>2
      <4>3. cont' \in [Replicas -> Nat] /\ voter' = "getc"
        BY <3>1, <3>5 DEF Barrier, WakeReaders, VoterTypeInv
      <4> QED
        BY <2>1, <3>2, <3>3, <4>2, <4>3 DEF VoterTypeInv
    <3> QED
      BY <3>4, <3>5
  <2> QED
    BY <2>2, <2>3
<1>11. CASE Getc
  <2> DEFINE i == Min(ready)
  <2>1. i \in ready /\ i \in Replicas \ dead
    <3>1. ready \in SUBSET Nat /\ ready # {} /\ ready \subseteq Replicas \ dead
      BY <1>11, ReplicaFacts DEF Getc, ReaderInv, VoterTypeInv
    <3> QED
      BY <3>1, MinFacts
  <2>2. UNCHANGED <<replicaVars, rd, space, closed, cont, arrivals, printed, signalVars>>
    BY <1>11 DEF Getc
  <2>3. ready' = ready \ {i} /\ voter' = "select"
    BY <1>11 DEF Getc
  <2>4. CASE full[i] > 0
    <3>1. full' = [full EXCEPT ![i] = full[i] - 1] /\ UNCHANGED <<dead, alive>>
      BY <1>11, <2>4 DEF Getc
    <3> HIDE DEF i
    <3>2. full' \in [Replicas -> Nat]
      <4>1. full[i] \in Nat
        BY <2>1 DEF VoterTypeInv
      <4>2. full[i] - 1 \in Nat
        BY <2>4, <4>1
      <4> QED
        BY <3>1, <4>2 DEF VoterTypeInv
    <3> QED
      BY <2>2, <2>3, <3>1, <3>2 DEF VoterTypeInv
  <2>5. CASE ~(full[i] > 0)
    <3>1. dead' = dead \cup {i} /\ alive' = alive - 1 /\ UNCHANGED full
      BY <1>11, <2>5 DEF Getc
    <3> HIDE DEF i
    <3>2. Cardinality(dead') = Cardinality(dead) + 1 /\ Cardinality(dead) \in Nat
      <4>1. dead \in SUBSET Replicas /\ i \in Replicas /\ i \notin dead
        BY <2>1 DEF VoterTypeInv
      <4>2. Cardinality(dead \cup {i}) = Cardinality(dead) + 1
        BY <4>1, OneMore
      <4>3. Cardinality(dead) \in Nat
        BY <4>1, ReplicaFacts
      <4> QED
        BY <3>1, <4>2, <4>3
    <3>3. alive' = N - Cardinality(dead')
      BY <3>1, <3>2, ReplicaFacts DEF VoterTypeInv
    <3> QED
      BY <2>1, <2>2, <2>3, <3>1, <3>3 DEF VoterTypeInv
  <2> QED
    BY <2>4, <2>5
<1>12. CASE VoterExit
  BY <1>12 DEF VoterExit, VoterTypeInv
<1>13. CASE isolator
  <2>1. isolators' \in Nat
    BY <1>13 DEF isolator, VoterTypeInv
  <2> QED
    BY <1>13, <2>1 DEF isolator, VoterTypeInv
<1> QED
  BY <1>1, <1>2, <1>3, <1>4, <1>5, <1>6, <1>7, <1>8, <1>9, <1>10, <1>11,
     <1>12, <1>13
     DEF Next

\* What is true of a reader that does not step stays true of it.
LEMMA ReaderStep ==
  ASSUME VoterTypeInv, ReaderInv, Next
  PROVE  ReaderInv'
<1> USE DEF replicaVars, readerVars, voterVars, signalVars
<1> DEFINE Local(i) ==
       /\ rd[i].got <= sent[i] /\ (rd[i].held <=> rd[i].got > 0)
       /\ rd[i].pc = "reply" => rd[i].got > 1
       /\ rd[i].pc = "done" <=> i \in closed
       /\ full[i] <= Signals(i)
       /\ space[i] = "w" => i = 1
<1>t. \A i \in Replicas : /\ rd[i].got \in 0 .. Len(Output) /\ sent[i] \in 0 .. Len(Output)
                          /\ full[i] \in Nat /\ rd[i].got \in Nat /\ sent[i] \in Nat
  <2>1. Len(Output) \in Nat
    BY ExtVoterAssumption
  <2> QED
    BY <2>1 DEF VoterTypeInv, Reader
<1>r. ReaderInv = ((voter = "getc" => ready # {}) /\ \A i \in Replicas : Local(i))
  BY DEF ReaderInv
<1>q. ReaderInv' = ((voter' = "getc" => ready' # {}) /\ \A i \in Replicas : Local(i)')
  BY DEF ReaderInv
<1>u. ASSUME UNCHANGED <<rd, sent, closed, full, space>>, voter' = "getc" => ready' # {}
      PROVE  ReaderInv'
  <2>1. \A i \in Replicas : Local(i)'
    BY <1>r, <1>u DEF Signals
  <2> QED
    BY <1>q, <1>u, <2>1
<1>v. ASSUME NEW i \in Replicas, Local(i)', UNCHANGED <<voter, ready>>,
             \A j \in Replicas : j # i =>
               UNCHANGED <<rd[j], sent[j], full[j], space[j]>>
               /\ (j \in closed' <=> j \in closed)
      PROVE  ReaderInv'
  <2>1. ASSUME NEW j \in Replicas PROVE Local(j)'
    <3>1. CASE j = i
      BY <1>v, <3>1
    <3>2. CASE j # i
      <4>1. Local(j) /\ Signals(j)' = Signals(j)
        BY <1>r, <1>v, <3>2 DEF Signals
      <4> QED
        BY <1>v, <3>2, <4>1
    <3> QED
      BY <3>1, <3>2
  <2> QED
    BY <1>q, <1>r, <1>v, <2>1
<1>1. ASSUME NEW i \in Replicas, NEW how \in {"exit", "crash"}, NEW k \in 0 .. Len(Output),
             End(i, how, k)
      PROVE  ReaderInv'
  <2>1. /\ k >= rd[i].got /\ sent' = [sent EXCEPT ![i] = k]
        /\ UNCHANGED <<rd, space, full, closed, voter, ready>>
    BY <1>1 DEF End
  <2>2. Local(i)'
    BY <1>r, <1>t, <2>1 DEF Signals, VoterTypeInv
  <2> HIDE DEF Local
  <2> QED
    BY <1>v, <2>1, <2>2
<1>2. ASSUME NEW i \in Replicas, Reap(i) PROVE ReaderInv'
  BY <1>2, <1>r, <1>u DEF Reap
<1>3. ASSUME NEW i \in Replicas, relayToVoter(i) PROVE ReaderInv'
  BY <1>3, <1>r, <1>u DEF relayToVoter
<1>4. ASSUME NEW i \in Replicas, ReadByte(i), ~rd[i].held PROVE ReaderInv'
  <2>1. /\ rd[i].pc = "fetch" /\ rd[i].got = 0 /\ 0 < sent[i]
        /\ rd'[i].pc = "fetch" /\ rd'[i].got = 1 /\ rd'[i].held
        /\ \A j \in Replicas : j # i => rd'[j] = rd[j]
        /\ space' = [space EXCEPT ![i] = Byte(i, 1)]
        /\ UNCHANGED <<full, sent, closed, voter, ready>>
    BY <1>4, ReadFirst
  <2>2. 1 \in 1 .. Len(Output)
    BY <1>t, <2>1
  <2>3. Byte(i, 1) = "w" => i = 1
    BY <2>2, ByteFacts
  <2>4. space'[i] = Byte(i, 1) /\ \A j \in Replicas : j # i => space'[j] = space[j]
    BY <2>1 DEF VoterTypeInv
  <2>5. Local(i)'
    <3>1. Local(i) /\ full[i] \in Nat /\ sent[i] \in Nat /\ rd[i].got \in Nat
      BY <1>r, <1>t
    <3>2. Signals(i)' = Signals(i) /\ rd'[i].got <= sent[i] /\ rd'[i].got > 0 /\ rd'[i].held
      BY <2>1, <3>1 DEF Signals
    <3>3. i \notin closed
      BY <2>1, <3>1
    <3> QED
      BY <2>1, <2>3, <2>4, <3>1, <3>2, <3>3
  <2> HIDE DEF Local
  <2> QED
    BY <1>v, <2>1, <2>4, <2>5
<1>5. ASSUME NEW i \in Replicas, ReadByte(i), rd[i].held PROVE ReaderInv'
  <2>1. /\ rd[i].pc = "fetch" /\ rd[i].got > 0 /\ rd[i].got < sent[i]
        /\ rd'[i].pc = "reply" /\ rd'[i].got = rd[i].got + 1 /\ rd'[i].held
        /\ \A j \in Replicas : j # i => rd'[j] = rd[j]
        /\ full' = [full EXCEPT ![i] = full[i] + 1]
        /\ UNCHANGED <<space, sent, closed, voter, ready>>
    BY <1>5, ReadNext
  <2>2. full'[i] = full[i] + 1 /\ \A j \in Replicas : j # i => full'[j] = full[j]
    BY <2>1 DEF VoterTypeInv
  <2>3. Local(i)'
    <3>1. Local(i) /\ full[i] \in Nat /\ sent[i] \in Nat /\ rd[i].got \in Nat
      BY <1>r, <1>t
    <3>2. /\ Signals(i)' = Signals(i) + 1 /\ Signals(i) \in Nat
          /\ rd'[i].got <= sent[i] /\ rd'[i].got > 1
      BY <2>1, <3>1 DEF Signals
    <3>3. full'[i] <= Signals(i)'
      BY <2>2, <3>1, <3>2
    <3>4. i \notin closed
      BY <2>1, <3>1
    <3> QED
      BY <2>1, <3>1, <3>2, <3>3, <3>4
  <2> HIDE DEF Local
  <2> QED
    BY <1>v, <2>1, <2>2, <2>3
<1>6. ASSUME NEW i \in Replicas, GetReply(i) PROVE ReaderInv'
  <2>1. /\ rd[i].pc = "reply" /\ rd[i].got > 1
        /\ rd'[i].pc = "fetch" /\ rd'[i].got = rd[i].got /\ rd'[i].held = rd[i].held
        /\ \A j \in Replicas : j # i => rd'[j] = rd[j]
        /\ space' = [space EXCEPT ![i] = Byte(i, rd[i].got)]
        /\ UNCHANGED <<full, sent, closed, voter, ready>>
    BY <1>6, Replied
  <2>2. rd[i].got \in 1 .. Len(Output)
    BY <1>t, <2>1
  <2>3. Byte(i, rd[i].got) = "w" => i = 1
    BY <2>2, ByteFacts
  <2>4. space'[i] = Byte(i, rd[i].got) /\ \A j \in Replicas : j # i => space'[j] = space[j]
    BY <2>1 DEF VoterTypeInv
  <2>5. Local(i)'
    <3>1. Local(i) /\ full[i] \in Nat /\ sent[i] \in Nat /\ rd[i].got \in Nat
      BY <1>r, <1>t
    <3>2. Signals(i)' = Signals(i) /\ rd'[i].got <= sent[i] /\ rd'[i].got > 0 /\ rd'[i].held
      BY <2>1, <3>1 DEF Signals
    <3>3. i \notin closed
      BY <2>1, <3>1
    <3> QED
      BY <2>1, <2>3, <2>4, <3>1, <3>2, <3>3
  <2> HIDE DEF Local
  <2> QED
    BY <1>v, <2>1, <2>4, <2>5
<1>7. ASSUME NEW i \in Replicas, ReadEOF(i) PROVE ReaderInv'
  <2>1. /\ rd[i].pc = "fetch" /\ rd[i].got = sent[i]
        /\ rd'[i].pc = "done" /\ rd'[i].got = rd[i].got /\ rd'[i].held = rd[i].held
        /\ \A j \in Replicas : j # i => rd'[j] = rd[j]
        /\ space' = [space EXCEPT ![i] = IF rd[i].got > 0 THEN space[i] ELSE Nul]
        /\ full' = [full EXCEPT ![i] = full[i] + 1]
        /\ closed' = closed \cup {i} /\ i \notin closed
        /\ UNCHANGED <<sent, voter, ready>>
    BY <1>7, ReadEnd
  <2>2. /\ full'[i] = full[i] + 1 /\ \A j \in Replicas : j # i => full'[j] = full[j]
        /\ \A j \in Replicas : j # i => space'[j] = space[j]
        /\ space'[i] \in {space[i], Nul}
    BY <2>1 DEF VoterTypeInv
  <2>3. Local(i)'
    <3>1. Local(i) /\ full[i] \in Nat /\ sent[i] \in Nat /\ rd[i].got \in Nat
      BY <1>r, <1>t
    <3>2. Signals(i)' = Signals(i) + 1 /\ Signals(i) \in Nat
      BY <2>1, <3>1 DEF Signals
    <3>3. full'[i] <= Signals(i)'
      BY <2>2, <3>1, <3>2
    <3>4. space'[i] = "w" => i = 1
      BY <2>2, <3>1 DEF Nul
    <3> QED
      BY <2>1, <3>1, <3>3, <3>4
  <2> HIDE DEF Local
  <2> QED
    BY <1>v, <2>1, <2>2, <2>3
<1>8. CASE TakeSignal
  BY <1>8, <1>r, <1>u DEF TakeSignal, Interrupts
<1>9. CASE Select
  BY <1>9, <1>u DEF Select
<1>10. CASE handleInput
  BY <1>10, <1>u DEF handleInput
<1>11. CASE Getc
  <2> DEFINE i == Min(ready)
  <2>1. UNCHANGED <<rd, sent, closed, space>> /\ voter' = "select"
    BY <1>11 DEF Getc
  <2>2. i \in ready /\ i \in Replicas
    <3>1. ready \in SUBSET Nat /\ ready # {} /\ ready \subseteq Replicas
      BY <1>11, ReplicaFacts DEF Getc, ReaderInv, VoterTypeInv
    <3> QED
      BY <3>1, MinFacts
  <2>3. full' = full \/ (full[i] > 0 /\ full' = [full EXCEPT ![i] = full[i] - 1])
    BY <1>11 DEF Getc
  <2> HIDE DEF i
  <2>4. \A j \in Replicas : full'[j] <= full[j] /\ full'[j] \in Nat
    <3>1. full \in [Replicas -> Nat] /\ full[i] \in Nat
      BY <2>2 DEF VoterTypeInv
    <3>2. CASE full' = full
      BY <3>1, <3>2
    <3>3. CASE full[i] > 0 /\ full' = [full EXCEPT ![i] = full[i] - 1]
      <4>1. full[i] - 1 \in Nat /\ full[i] - 1 <= full[i]
        BY <3>1, <3>3
      <4>2. \A j \in Replicas : full'[j] = IF j = i THEN full[i] - 1 ELSE full[j]
        BY <3>1, <3>3
      <4> QED
        BY <3>1, <4>1, <4>2
    <3> QED
      BY <2>3, <3>2, <3>3
  <2>5. ASSUME NEW j \in Replicas PROVE Local(j)'
    <3>1. Signals(j)' = Signals(j) /\ Signals(j) \in Nat
      BY <1>t, <2>1 DEF Signals
    <3>2. Local(j)
      BY <1>r
    <3>3. full'[j] <= Signals(j)'
      BY <1>t, <2>4, <3>1, <3>2
    <3> QED
      BY <2>1, <3>2, <3>3
  <2> QED
    BY <1>q, <2>1, <2>5
<1>12. CASE VoterExit
  BY <1>12, <1>u DEF VoterExit
<1>13. CASE isolator
  BY <1>13, <1>r, <1>u DEF isolator
<1> QED
  BY <1>1, <1>2, <1>3, <1>4, <1>5, <1>6, <1>7, <1>8, <1>9, <1>10, <1>11,
     <1>12, <1>13
     DEF Next

----------------------------------------------------------------------------
(* Runs without faults *)

\* Numbers of a reader.
LEMMA ReaderNumbers ==
  ASSUME VoterTypeInv, NEW i \in Replicas
  PROVE  /\ rd[i].got \in Nat /\ rd[i].got <= Len(Output) /\ Len(Output) \in Nat
         /\ full[i] \in Nat /\ cont[i] \in Nat
         /\ Signals(i) \in Nat /\ Counted(i) \in Int
         /\ rd[i].pc \in {"fetch", "reply", "done"}
         /\ rd[i].pc # "done" /\ rd[i].got > 0 => Signals(i) = rd[i].got - 1
         /\ rd[i].pc # "done" /\ rd[i].got = 0 => Signals(i) = 0
         /\ rd[i].pc = "done" /\ rd[i].got > 0 => Signals(i) = rd[i].got
         /\ voter # "getc" => Counted(i) = Signals(i) - full[i]
<1>1. /\ rd[i].got \in 0 .. Len(Output) /\ Len(Output) \in Nat
      /\ full[i] \in Nat /\ cont[i] \in Nat
      /\ rd[i].pc \in {"fetch", "reply", "done"}
  BY ExtVoterAssumption DEF VoterTypeInv, Reader
<1>2. /\ Signals(i) \in Nat
      /\ rd[i].pc # "done" /\ rd[i].got > 0 => Signals(i) = rd[i].got - 1
      /\ rd[i].pc # "done" /\ rd[i].got = 0 => Signals(i) = 0
      /\ rd[i].pc = "done" /\ rd[i].got > 0 => Signals(i) = rd[i].got
  BY <1>1 DEF Signals
<1>3. Counted(i) \in Int /\ (voter # "getc" => Counted(i) = Signals(i) - full[i])
  BY <1>1, <1>2 DEF Counted
<1> QED
  BY <1>1, <1>2, <1>3

\* The voter has not been told of a signal that was not sent, and no reader is
\* more than one signal ahead of the replies.
LEMMA RoundNumbers ==
  ASSUME VoterTypeInv, ReaderInv, Rounds, NEW i \in Replicas, NEW r,
         r = Len(printed) + 1
  PROVE  /\ r \in Nat /\ r >= 1 /\ r <= Len(Output) /\ Len(Output) \in Nat
         /\ InRound(i, r) /\ Signals(i) <= r
         /\ rd[i].pc = "fetch" => Signals(i) <= r - 1
         /\ rd[i].pc = "done" => r = Len(Output) /\ Signals(i) = r
<1>1. Len(printed) \in Nat
  BY DEF VoterTypeInv
<1>2. r \in Nat /\ r >= 1 /\ r <= Len(Output) /\ InRound(i, r)
  BY <1>1 DEF Rounds
<1>3. /\ rd[i].pc \in {"fetch", "reply", "done"} /\ cont[i] \in Nat /\ Signals(i) \in Nat
      /\ Len(Output) \in Nat /\ rd[i].got \in Nat
      /\ rd[i].pc = "done" /\ rd[i].got > 0 => Signals(i) = rd[i].got
  BY ReaderNumbers
<1>4. CASE rd[i].pc = "fetch"
  <2>1. cont[i] = r - 1 - Signals(i)
    BY <1>2, <1>4 DEF InRound
  <2> QED
    BY <1>2, <1>3, <1>4, <2>1
<1>5. CASE rd[i].pc = "reply"
  <2>1. cont[i] = r - Signals(i)
    BY <1>2, <1>5 DEF InRound
  <2> QED
    BY <1>2, <1>3, <1>5, <2>1
<1>6. CASE rd[i].pc = "done"
  <2>1. rd[i].got = Len(Output) /\ r = Len(Output)
    BY <1>2, <1>6 DEF InRound
  <2> QED
    BY <1>2, <1>3, <1>6, <2>1
<1> QED
  BY <1>3, <1>4, <1>5, <1>6

\* The next pipe of the set.
LEMMA NextReady ==
  ASSUME VoterTypeInv, ready # {}
  PROVE  Min(ready) \in ready /\ Min(ready) \in Replicas \ dead
<1>1. ready \in SUBSET Nat /\ ready \subseteq Replicas \ dead
  BY ReplicaFacts DEF VoterTypeInv
<1> QED
  BY <1>1, MinFacts

\* What Printed says follows from the rounds.
LEMMA RoundsPrinted ==
  ASSUME VoterTypeInv, Rounds
  PROVE  Printed
<1>1. Len(printed) \in Nat /\ DOMAIN printed = 1 .. Len(printed) /\ Len(Output) \in Nat
  BY ExtVoterAssumption DEF VoterTypeInv
<1>2. Len(printed) + 1 <= Len(Output) /\ \A k \in DOMAIN printed : printed[k] = Output[k]
  BY DEF Rounds
<1>3. \A k \in DOMAIN printed : k < Len(Output)
  BY <1>1, <1>2
<1> QED
  BY <1>1, <1>2, <1>3 DEF Printed

\* A step of one reader within a round.
LEMMA RoundsByOne ==
  ASSUME VoterTypeInv, ReaderInv, Rounds, NEW i \in Replicas,
         UNCHANGED <<wrong, printed, voter, arrivals, dead, ready, usr1, usr2,
                     dumpPending, isolators>>,
         \A j \in Replicas : j # i =>
           UNCHANGED <<rd[j], space[j], full[j], cont[j]>> /\ (j \in closed <=> j \in closed'),
         full'[i] # full[i] =>
           full'[i] = full[i] + 1 /\ ~(voter = "getc" /\ i = Min(ready) /\ full[i] = 0),
         Counted(i)' = Counted(i), InRound(i, Len(printed) + 1)'
  PROVE  Rounds'
<1> DEFINE r == Len(printed) + 1
<1>1. r' = r
  OBVIOUS
<1>2. /\ r <= Len(Output) /\ voter # "exited" /\ Quiet
      /\ \A k \in DOMAIN printed : printed[k] = Output[k]
      /\ \A j \in Replicas : InRound(j, r)
      /\ arrivals = Cardinality({j \in Replicas : Counted(j) = r}) + Cardinality(dead)
                      + (IF voter = "getc" /\ full[Min(ready)] = 0 THEN 1 ELSE 0)
  BY DEF Rounds
<1>3. \A j \in Replicas : Counted(j)' = Counted(j)
  <2>1. ASSUME NEW j \in Replicas, j # i PROVE Counted(j)' = Counted(j)
    BY <2>1 DEF Counted, Signals
  <2> QED
    BY <2>1
<1>4. \A j \in Replicas : InRound(j, r)'
  <2>1. ASSUME NEW j \in Replicas, j # i PROVE InRound(j, r)'
    <3>1. /\ InRound(j, r) /\ Counted(j)' = Counted(j) /\ Signals(j)' = Signals(j)
          /\ UNCHANGED <<rd[j], space[j], full[j], cont[j]>> /\ (j \in closed <=> j \in closed')
      BY <1>2, <1>3, <2>1 DEF Signals
    <3>2. \A n : Contents(j, n)' = Contents(j, n)
      BY DEF Contents, Byte
    <3> HIDE DEF r
    <3> QED
      BY <1>1, <3>1, <3>2 DEF InRound, IsReady
  <2> QED
    BY <2>1
<1>5. {j \in Replicas : Counted(j)' = r'} = {j \in Replicas : Counted(j) = r}
  BY <1>1, <1>3
<1>6. (voter' = "getc" /\ full'[Min(ready')] = 0) <=> (voter = "getc" /\ full[Min(ready)] = 0)
  <2>1. CASE voter = "getc"
    <3> DEFINE m == Min(ready)
    <3>1. m \in Replicas
      BY <2>1, NextReady DEF ReaderInv
    <3>2. m # i => full'[m] = full[m]
      BY <3>1
    <3>3. m = i => (full'[m] = 0 <=> full[m] = 0)
      <4>1. SUFFICES ASSUME m = i, full'[i] # full[i] PROVE full'[i] # 0 /\ full[i] # 0
        OBVIOUS
      <4>2. full[i] # 0
        BY <2>1, <4>1
      <4>3. full[i] \in Nat /\ full[i] > 0
        BY <4>2, ReaderNumbers
      <4>4. full'[i] # 0
        BY <4>1, <4>3
      <4> QED
        BY <4>2, <4>4
    <3> QED
      BY <3>2, <3>3
  <2>2. CASE voter # "getc"
    BY <2>2
  <2> QED
    BY <2>1, <2>2
<1>7. Quiet'
  BY <1>2 DEF Quiet
<1> QED
  BY <1>1, <1>2, <1>4, <1>5, <1>6, <1>7 DEF Rounds

\* A reader steps before the vote on the last byte.
LEMMA RoundsReader ==
  ASSUME VoterTypeInv, ReaderInv, Rounds, NEW i \in Replicas,
         sent[i] = Len(Output),
         ReadByte(i) \/ GetReply(i) \/ ReadEOF(i)
  PROVE  Rounds'
<1> USE DEF replicaVars, readerVars, voterVars, signalVars
<1> DEFINE r == Len(printed) + 1
<1>n. /\ rd[i].got \in Nat /\ rd[i].got <= Len(Output) /\ Len(Output) \in Nat
      /\ full[i] \in Nat /\ cont[i] \in Nat /\ Signals(i) \in Nat
      /\ rd[i].pc # "done" /\ rd[i].got > 0 => Signals(i) = rd[i].got - 1
      /\ rd[i].pc # "done" /\ rd[i].got = 0 => Signals(i) = 0
  BY ReaderNumbers
<1>r. /\ r \in Nat /\ r >= 1 /\ r <= Len(Output) /\ InRound(i, r)
      /\ rd[i].pc = "fetch" => Signals(i) <= r - 1
  BY RoundNumbers
<1>v. voter # "exited"
  BY DEF Rounds
<1>c. \A j, n : UNCHANGED wrong => Contents(j, n)' = Contents(j, n)
  BY DEF Contents, Byte
\* Its end is not taken before it is done.
<1>g. rd[i].pc = "fetch" => ~(voter = "getc" /\ i = Min(ready) /\ full[i] = 0)
  <2>1. SUFFICES ASSUME rd[i].pc = "fetch", voter = "getc", i = Min(ready), full[i] = 0
                 PROVE FALSE
    OBVIOUS
  <2>2. i \in ready
    BY <2>1, NextReady DEF ReaderInv
  <2>3. i \in closed
    BY <1>r, <2>1, <2>2 DEF InRound, IsReady
  <2> QED
    BY <2>1, <2>3 DEF ReaderInv
<1> DEFINE One == (IF voter = "getc" /\ i = Min(ready) /\ full[i] > 0 THEN 1 ELSE 0)
<1>1. CASE ReadByte(i) /\ ~rd[i].held
  <2>1. /\ rd[i].pc = "fetch" /\ rd[i].got = 0
        /\ rd'[i].pc = "fetch" /\ rd'[i].got = 1
        /\ \A j \in Replicas : j # i => rd'[j] = rd[j]
        /\ space' = [space EXCEPT ![i] = Byte(i, 1)]
        /\ UNCHANGED <<full, replicaVars, closed, cont, voterVars, signalVars>>
    BY <1>1, ReadFirst
  <2>2. space'[i] = Byte(i, 1) /\ \A j \in Replicas : j # i => space'[j] = space[j]
    BY <2>1 DEF VoterTypeInv
  <2>3. Contents(i, rd[i].got)' = Byte(i, 1)
    BY <2>1 DEF Contents, Byte
  <2>4. Signals(i)' = Signals(i) /\ Counted(i)' = Counted(i)
    BY <2>1 DEF Signals, Counted
  <2>5. r' = r
    BY <2>1
  <2>6. InRound(i, r)'
    <3> HIDE DEF r
    <3>1. cont[i] = r - 1 - Signals(i) /\ Counted(i) \in {r - 1, r}
      BY <1>r, <2>1 DEF InRound
    <3>2. rd'[i].got <= r' /\ cont'[i] = r' - 1 - Signals(i)' /\ Counted(i)' \in {r' - 1, r'}
      BY <1>r, <2>1, <2>4, <2>5, <3>1
    <3>3. i \in ready' => IsReady(i)'
      BY <1>r, <2>1 DEF InRound, IsReady
    <3>4. i \in dead' => i \in closed' /\ full'[i] = 0
      BY <1>r, <2>1 DEF InRound
    <3>5. space'[i] = Contents(i, rd[i].got)'
      BY <2>1, <2>2, <2>3
    <3> QED
      BY <2>1, <3>2, <3>3, <3>4, <3>5 DEF InRound
  <2> QED
    BY <2>1, <2>2, <2>4, <2>6, RoundsByOne
<1>2. CASE ReadByte(i) /\ rd[i].held
  <2>1. /\ rd[i].pc = "fetch" /\ rd[i].got > 0
        /\ rd'[i].pc = "reply" /\ rd'[i].got = rd[i].got + 1
        /\ \A j \in Replicas : j # i => rd'[j] = rd[j]
        /\ full' = [full EXCEPT ![i] = full[i] + 1]
        /\ UNCHANGED <<space, replicaVars, closed, cont, voterVars, signalVars>>
    BY <1>2, ReadNext
  <2>2. full'[i] = full[i] + 1 /\ \A j \in Replicas : j # i => full'[j] = full[j]
    BY <2>1 DEF VoterTypeInv
  <2>3. Signals(i)' = Signals(i) + 1
    BY <1>n, <2>1 DEF Signals
  <2>4. Counted(i)' = Counted(i)
    <3>1. One' = One
      BY <1>g, <1>n, <2>1, <2>2
    <3>2. Counted(i) = Signals(i) - full[i] + One /\ One \in Int
      BY DEF Counted
    <3>3. Counted(i)' = Signals(i)' - full'[i] + One'
      BY DEF Counted
    <3> HIDE DEF One
    <3> QED
      BY <1>n, <2>2, <2>3, <3>1, <3>2, <3>3
  <2>5. r' = r
    BY <2>1
  <2>6. InRound(i, r)'
    <3> HIDE DEF r
    <3>1. /\ cont[i] = r - 1 - Signals(i) /\ Counted(i) \in {r - 1, r}
          /\ space[i] = Contents(i, rd[i].got)
      BY <1>r, <2>1 DEF InRound
    <3>2. cont'[i] = r' - Signals(i)' /\ Counted(i)' \in {r' - 1, r'}
      BY <1>n, <1>r, <2>1, <2>3, <2>4, <2>5, <3>1
    <3>3. i \in ready' => IsReady(i)'
      BY <1>n, <2>2 DEF IsReady
    <3>4. i \notin dead'
      BY <1>r, <2>1 DEF InRound, ReaderInv
    <3>5. space'[i] = Contents(i, rd[i].got - 1)'
      <4>1. rd'[i].got - 1 = rd[i].got
        BY <1>n, <2>1
      <4> QED
        BY <2>1, <3>1, <4>1 DEF Contents, Byte
    <3> QED
      BY <2>1, <3>2, <3>3, <3>4, <3>5 DEF InRound
  <2> QED
    BY <1>g, <2>1, <2>2, <2>4, <2>6, RoundsByOne
<1>3. CASE GetReply(i)
  <2>1. /\ rd[i].pc = "reply" /\ rd[i].got > 1
        /\ rd'[i].pc = "fetch" /\ rd'[i].got = rd[i].got
        /\ \A j \in Replicas : j # i => rd'[j] = rd[j]
        /\ space' = [space EXCEPT ![i] = Byte(i, rd[i].got)]
        /\ \A j \in Replicas : j # i => cont'[j] = cont[j]
        /\ cont[i] > 0 /\ cont'[i] = cont[i] - 1
        /\ UNCHANGED <<replicaVars, full, closed, voterVars, signalVars>>
    BY <1>3, <1>v, Replied
  <2>2. /\ space'[i] = Byte(i, rd[i].got)
        /\ \A j \in Replicas : j # i => space'[j] = space[j]
    BY <2>1 DEF VoterTypeInv
  <2>3. Contents(i, rd[i].got)' = Byte(i, rd[i].got)
    BY <1>n, <2>1 DEF Contents, Byte
  <2>4. Signals(i)' = Signals(i) /\ Counted(i)' = Counted(i)
    BY <2>1 DEF Signals, Counted
  <2>5. r' = r
    BY <2>1
  <2>6. InRound(i, r)'
    <3> HIDE DEF r
    <3>1. cont[i] = r - Signals(i) /\ Counted(i) \in {r - 1, r}
      BY <1>r, <2>1 DEF InRound
    <3>2. /\ rd'[i].got <= r' /\ cont'[i] = r' - 1 - Signals(i)'
          /\ Counted(i)' \in {r' - 1, r'}
      BY <1>n, <1>r, <2>1, <2>4, <2>5, <3>1
    <3>3. i \in ready' => IsReady(i)'
      BY <1>r, <2>1 DEF InRound, IsReady
    <3>4. i \in dead' => i \in closed' /\ full'[i] = 0
      BY <1>r, <2>1 DEF InRound
    <3>5. space'[i] = Contents(i, rd[i].got)'
      BY <2>1, <2>2, <2>3
    <3> QED
      BY <2>1, <3>2, <3>3, <3>4, <3>5 DEF InRound
  <2> QED
    BY <2>1, <2>2, <2>4, <2>6, RoundsByOne
<1>4. CASE ReadEOF(i)
  <2>1. /\ rd[i].pc = "fetch" /\ rd[i].got = Len(Output)
        /\ rd'[i].pc = "done" /\ rd'[i].got = rd[i].got
        /\ \A j \in Replicas : j # i => rd'[j] = rd[j]
        /\ space' = [space EXCEPT ![i] = IF rd[i].got > 0 THEN space[i] ELSE Nul]
        /\ full' = [full EXCEPT ![i] = full[i] + 1]
        /\ closed' = closed \cup {i}
        /\ UNCHANGED <<replicaVars, cont, voterVars, signalVars>>
    BY <1>4, ReadEnd
  <2>2. /\ full'[i] = full[i] + 1 /\ \A j \in Replicas : j # i => full'[j] = full[j]
        /\ \A j \in Replicas : j # i => space'[j] = space[j]
        /\ space'[i] = space[i]
    BY <1>n, <1>r, <2>1 DEF VoterTypeInv
  <2>3. Signals(i)' = Signals(i) + 1
    BY <1>n, <1>r, <2>1 DEF Signals
  <2>4. Counted(i)' = Counted(i)
    <3>1. One' = One
      BY <1>g, <1>n, <2>1, <2>2
    <3>2. Counted(i) = Signals(i) - full[i] + One /\ One \in Int
      BY DEF Counted
    <3>3. Counted(i)' = Signals(i)' - full'[i] + One'
      BY DEF Counted
    <3> HIDE DEF One
    <3> QED
      BY <1>n, <2>2, <2>3, <3>1, <3>2, <3>3
  <2>5. r' = r
    BY <2>1
  <2>6. InRound(i, r)'
    <3> HIDE DEF r
    <3>1. /\ rd[i].got <= r /\ Counted(i) \in {r - 1, r}
          /\ space[i] = Contents(i, rd[i].got)
      BY <1>r, <2>1 DEF InRound
    <3>2. r' = Len(Output) /\ rd'[i].got = Len(Output) /\ Counted(i)' \in {r' - 1, r'}
      BY <1>n, <1>r, <2>1, <2>4, <2>5, <3>1
    <3>3. i \in ready' => IsReady(i)'
      BY <2>1 DEF IsReady
    <3>4. i \notin dead'
      BY <1>r, <2>1 DEF InRound, ReaderInv
    <3>5. space'[i] = Contents(i, Len(Output))'
      BY <1>c, <2>1, <2>2, <3>1
    <3> QED
      BY <2>1, <3>2, <3>3, <3>4, <3>5 DEF InRound
  <2> QED
    BY <1>g, <2>1, <2>2, <2>4, <2>6, RoundsByOne
<1> QED
  BY <1>1, <1>2, <1>3, <1>4

\* The voter waits for pipes that are ready.
LEMMA RoundsSelect ==
  ASSUME VoterTypeInv, ReaderInv, Rounds, Select
  PROVE  Rounds'
<1> USE DEF replicaVars, readerVars, voterVars, signalVars
<1> DEFINE r == Len(printed) + 1
<1>1. /\ voter = "select" /\ ready' = {i \in Replicas \ dead : IsReady(i)}
      /\ UNCHANGED <<replicaVars, readerVars, cont, voter, alive, arrivals, dead,
                     dumpPending, dumpRunning, interrupted, printed, signalVars>>
  BY DEF Select
<1>2. \A i \in Replicas : /\ Counted(i)' = Counted(i) /\ Signals(i)' = Signals(i)
                          /\ IsReady(i)' = IsReady(i)
                          /\ \A n : Contents(i, n)' = Contents(i, n)
  BY <1>1 DEF Counted, Signals, IsReady, Contents, Byte
<1>3. r' = r
  BY <1>1
<1>4. \A i \in Replicas : InRound(i, r)
  BY DEF Rounds
<1>5. \A i \in Replicas : InRound(i, r)'
  <2> HIDE DEF r
  <2>1. ASSUME NEW i \in Replicas PROVE InRound(i, r)'
    BY <1>1, <1>2, <1>3, <1>4 DEF InRound
  <2> QED
    BY <2>1
<1>6. arrivals = Cardinality({i \in Replicas : Counted(i) = r}) + Cardinality(dead) + 0
  BY <1>1 DEF Rounds
<1>7. {i \in Replicas : Counted(i)' = r'} = {i \in Replicas : Counted(i) = r}
  BY <1>2, <1>3
<1>8. Quiet' /\ r <= Len(Output) /\ \A k \in DOMAIN printed : printed[k] = Output[k]
  BY <1>1 DEF Rounds, Quiet
<1>9. arrivals' = Cardinality({i \in Replicas : Counted(i)' = r'}) + Cardinality(dead') + 0
  BY <1>1, <1>6, <1>7
<1> QED
  BY <1>1, <1>3, <1>5, <1>8, <1>9 DEF Rounds

\* An arrival is counted.
LEMMA RoundsArrival ==
  ASSUME VoterTypeInv, ReaderInv, Rounds, handleInput,
         ~BarrierReached(arrivals + 1)
  PROVE  Rounds'
<1> USE DEF replicaVars, readerVars, voterVars, signalVars
<1> DEFINE r == Len(printed) + 1
           m == Min(ready)
           A == {i \in Replicas : Counted(i) = r}
<1>1. /\ voter = "select" /\ ready # {} /\ arrivals' = arrivals + 1 /\ voter' = "getc"
      /\ UNCHANGED <<cont, printed, dumpPending, dumpRunning, isolators, replicaVars,
                     readerVars, alive, dead, ready, interrupted, usr1, usr2, patched>>
  BY DEF handleInput
<1>2. m \in ready /\ m \in Replicas
  BY <1>1, NextReady
<1>3. \A i \in Replicas : /\ i # m => Counted(i)' = Counted(i)
                          /\ IsReady(i)' = IsReady(i)
                          /\ Signals(i)' = Signals(i)
                          /\ \A n : Contents(i, n)' = Contents(i, n)
  BY <1>1 DEF Counted, Signals, IsReady, Contents, Byte
<1>4. r' = r /\ m' = m
  BY <1>1
<1>5. \A i \in Replicas : InRound(i, r)
  BY DEF Rounds
<1>6. arrivals = Cardinality(A) + Cardinality(dead) + 0
  BY <1>1 DEF Rounds
<1>7. /\ full[m] \in Nat /\ Signals(m) \in Nat /\ Signals(m) <= r /\ r \in Nat
      /\ Counted(m) \in {r - 1, r} /\ Counted(m) = Signals(m) - full[m]
      /\ IsReady(m)
  BY <1>1, <1>2, <1>5, ReaderNumbers, RoundNumbers DEF InRound
<1>8. Cardinality(A) \in Nat /\ Cardinality(dead) \in Nat
  BY ReplicaFacts DEF VoterTypeInv
<1>9. Quiet' /\ r <= Len(Output) /\ \A k \in DOMAIN printed : printed[k] = Output[k]
  BY <1>1 DEF Rounds, Quiet
<1>10. CASE full[m] > 0
  <2>1. Counted(m) = r - 1 /\ Counted(m)' = r
    <3>1. Counted(m) = r - 1
      BY <1>7, <1>10
    <3>2. Counted(m)' = Signals(m) - full[m] + 1
      BY <1>1, <1>2, <1>3, <1>4, <1>10 DEF Counted
    <3> QED
      BY <1>7, <3>1, <3>2
  <2>2. {i \in Replicas : Counted(i)' = r'} = A \cup {m}
    BY <1>2, <1>3, <1>4, <2>1
  <2>3. m \notin A
    BY <1>7, <2>1
  <2>4. Cardinality(A \cup {m}) = Cardinality(A) + 1
    BY <1>2, <2>3, OneMore
  <2>5. \A i \in Replicas : InRound(i, r)'
    <3> HIDE DEF r, A, m
    <3>1. ASSUME NEW i \in Replicas PROVE InRound(i, r)'
      <4>1. Counted(i)' \in {r' - 1, r'}
        BY <1>3, <1>4, <1>5, <2>1 DEF InRound
      <4> QED
        BY <1>1, <1>3, <1>4, <1>5, <4>1 DEF InRound
    <3> QED
      BY <3>1
  <2>6. arrivals' = Cardinality({i \in Replicas : Counted(i)' = r'}) + Cardinality(dead') + 0
    <3> DEFINE B == {i \in Replicas : Counted(i)' = r'}
    <3>1. Cardinality(B) = Cardinality(A) + 1 /\ Cardinality(dead') = Cardinality(dead)
      BY <1>1, <2>2, <2>4
    <3> HIDE DEF A, B
    <3>2. arrivals' = Cardinality(B) + Cardinality(dead') + 0
      BY <1>1, <1>6, <1>8, <3>1
    <3> QED
      BY <3>2 DEF B
  <2>7. full'[Min(ready')] # 0
    BY <1>1, <1>7, <1>10
  <2> QED
    BY <1>1, <1>4, <1>9, <2>5, <2>6, <2>7 DEF Rounds
<1>11. CASE full[m] = 0
  <2>1. \A i \in Replicas : Counted(i)' = Counted(i)
    <3> TAKE i \in Replicas
    <3>1. Counted(i) = Signals(i) - full[i] + 0
      BY <1>11 DEF Counted
    <3>2. Counted(i)' = Signals(i)' - full'[i] + 0
      BY <1>1, <1>11 DEF Counted
    <3> QED
      BY <1>1, <1>3, <3>1, <3>2
  <2>2. {i \in Replicas : Counted(i)' = r'} = A
    BY <1>4, <2>1
  <2>3. \A i \in Replicas : InRound(i, r)'
    <3> HIDE DEF r, A, m
    <3>1. ASSUME NEW i \in Replicas PROVE InRound(i, r)'
      <4>1. Counted(i)' = Counted(i)
        BY <2>1
      <4> QED
        BY <1>1, <1>3, <1>4, <1>5, <4>1 DEF InRound
    <3> QED
      BY <3>1
  <2>4. arrivals' = Cardinality({i \in Replicas : Counted(i)' = r'}) + Cardinality(dead') + 1
    <3> DEFINE B == {i \in Replicas : Counted(i)' = r'}
    <3>1. Cardinality(B) = Cardinality(A) /\ Cardinality(dead') = Cardinality(dead)
      BY <1>1, <2>2
    <3> HIDE DEF A, B
    <3>2. arrivals' = Cardinality(B) + Cardinality(dead') + 1
      BY <1>1, <1>6, <1>8, <3>1
    <3> QED
      BY <3>2 DEF B
  <2>5. full'[Min(ready')] = 0
    BY <1>1, <1>11
  <2> QED
    BY <1>1, <1>4, <1>9, <2>3, <2>4, <2>5 DEF Rounds
<1> QED
  BY <1>7, <1>10, <1>11

\* The voter takes a byte, or the end, from a pipe.
LEMMA RoundsGetc ==
  ASSUME VoterTypeInv, ReaderInv, Rounds, Getc
  PROVE  Rounds'
<1> USE DEF replicaVars, readerVars, voterVars, signalVars
<1> DEFINE r == Len(printed) + 1
           m == Min(ready)
           A == {i \in Replicas : Counted(i) = r}
<1>1. /\ voter = "getc" /\ IsReady(m) /\ ready' = ready \ {m} /\ voter' = "select"
      /\ UNCHANGED <<replicaVars, rd, space, closed, cont, arrivals, dumpPending,
                     dumpRunning, interrupted, printed, signalVars>>
  BY DEF Getc
<1>2. m \in ready /\ m \in Replicas \ dead
  BY <1>1, NextReady DEF ReaderInv
<1>3. r' = r
  BY <1>1
<1>4. \A i \in Replicas : InRound(i, r)
  BY DEF Rounds
<1>5. /\ arrivals = Cardinality(A) + Cardinality(dead)
                      + (IF voter = "getc" /\ full[m] = 0 THEN 1 ELSE 0)
  BY DEF Rounds
<1>6. Cardinality(A) \in Nat /\ Cardinality(dead) \in Nat /\ full[m] \in Nat
  <2>1. full[m] \in Nat
    BY <1>2, ReaderNumbers
  <2>2. Cardinality(A) \in Nat /\ Cardinality(dead) \in Nat
    BY ReplicaFacts DEF VoterTypeInv
  <2> QED
    BY <2>1, <2>2
<1>7. Quiet' /\ r <= Len(Output) /\ \A k \in DOMAIN printed : printed[k] = Output[k]
  BY <1>1 DEF Rounds, Quiet
<1>8. \A i \in Replicas : /\ Signals(i)' = Signals(i)
                          /\ \A n : Contents(i, n)' = Contents(i, n)
  BY <1>1 DEF Signals, Contents, Byte
<1>9. CASE full[m] > 0
  <2>1. full' = [full EXCEPT ![m] = full[m] - 1] /\ UNCHANGED <<dead, alive>>
    BY <1>9 DEF Getc
  <2>2. full'[m] = full[m] - 1 /\ \A i \in Replicas : i # m => full'[i] = full[i]
    BY <1>2, <2>1 DEF VoterTypeInv
  <2>3. \A i \in Replicas : Counted(i)' = Counted(i)
    <3> TAKE i \in Replicas
    <3>1. Signals(i) \in Nat /\ full[i] \in Nat
      BY ReaderNumbers
    <3>2. CASE i = m
      <4>1. Counted(i) = Signals(i) - full[i] + 1
        BY <1>1, <1>9, <3>2 DEF Counted
      <4>2. Counted(i)' = Signals(i)' - full'[i] + 0
        BY <1>1 DEF Counted
      <4> QED
        BY <1>8, <2>2, <3>1, <3>2, <4>1, <4>2
    <3>3. CASE i # m
      <4>1. Counted(i) = Signals(i) - full[i] + 0
        BY <3>3 DEF Counted
      <4>2. Counted(i)' = Signals(i)' - full'[i] + 0
        BY <1>1 DEF Counted
      <4> QED
        BY <1>8, <2>2, <3>1, <3>3, <4>1, <4>2
    <3> QED
      BY <3>2, <3>3
  <2>4. \A i \in Replicas : InRound(i, r)'
    <3> HIDE DEF r, A, m
    <3>1. ASSUME NEW i \in Replicas PROVE InRound(i, r)'
      <4>1. i \in ready' => IsReady(i)'
        BY <1>1, <1>4, <2>2 DEF InRound, IsReady
      <4>2. i \in dead' => i \in closed' /\ full'[i] = 0
        BY <1>1, <1>2, <1>4, <2>1, <2>2 DEF InRound
      <4> QED
        BY <1>1, <1>3, <1>4, <1>8, <2>3, <4>1, <4>2 DEF InRound
    <3> QED
      BY <3>1
  <2>5. {i \in Replicas : Counted(i)' = r'} = A
    BY <1>3, <2>3
  <2>6. arrivals' = Cardinality({i \in Replicas : Counted(i)' = r'}) + Cardinality(dead') + 0
    <3> DEFINE B == {i \in Replicas : Counted(i)' = r'}
    <3>1. Cardinality(B) = Cardinality(A) /\ Cardinality(dead') = Cardinality(dead)
      BY <2>1, <2>5
    <3> HIDE DEF A, B
    <3>2. arrivals' = Cardinality(B) + Cardinality(dead') + 0
      BY <1>1, <1>5, <1>6, <1>9, <3>1
    <3> QED
      BY <3>2 DEF B
  <2> QED
    BY <1>1, <1>3, <1>7, <2>4, <2>6 DEF Rounds
<1>10. CASE full[m] = 0
  <2>1. dead' = dead \cup {m} /\ UNCHANGED full
    BY <1>10 DEF Getc
  <2>2. \A i \in Replicas : Counted(i)' = Counted(i)
    <3> TAKE i \in Replicas
    <3>1. Counted(i) = Signals(i) - full[i] + 0
      BY <1>10 DEF Counted
    <3>2. Counted(i)' = Signals(i)' - full'[i] + 0
      BY <1>1 DEF Counted
    <3> QED
      BY <1>8, <2>1, <3>1, <3>2
  <2>3. m \in closed
    BY <1>1, <1>10 DEF IsReady
  <2>4. \A i \in Replicas : InRound(i, r)'
    <3> HIDE DEF r, A
    <3>1. ASSUME NEW i \in Replicas PROVE InRound(i, r)'
      <4>1. i \in ready' => IsReady(i)'
        BY <1>1, <1>4, <2>1 DEF InRound, IsReady
      <4>2. i \in dead' => i \in closed' /\ full'[i] = 0
        BY <1>1, <1>4, <1>10, <2>1, <2>3 DEF InRound
      <4> HIDE DEF m
      <4> QED
        BY <1>1, <1>3, <1>4, <1>8, <2>1, <2>2, <4>1, <4>2 DEF InRound
    <3> QED
      BY <3>1
  <2>5. {i \in Replicas : Counted(i)' = r'} = A
    BY <1>3, <2>2
  <2>6. Cardinality(dead') = Cardinality(dead) + 1
    <3>1. dead \in SUBSET Replicas /\ m \in Replicas /\ m \notin dead
      BY <1>2 DEF VoterTypeInv
    <3> HIDE DEF m
    <3> QED
      BY <2>1, <3>1, OneMore
  <2>7. arrivals' = Cardinality({i \in Replicas : Counted(i)' = r'}) + Cardinality(dead') + 0
    <3> DEFINE B == {i \in Replicas : Counted(i)' = r'}
    <3>1. Cardinality(B) = Cardinality(A)
      BY <2>5
    <3> HIDE DEF A, B
    <3>2. arrivals' = Cardinality(B) + Cardinality(dead') + 0
      BY <1>1, <1>5, <1>6, <1>10, <2>6, <3>1
    <3> QED
      BY <3>2 DEF B
  <2> QED
    BY <1>1, <1>3, <1>7, <2>4, <2>7 DEF Rounds
<1> QED
  BY <1>6, <1>9, <1>10

\* A vote before the last: every reader waits with the byte of the round in its
\* buffer, and all agree.
LEMMA RoundsVote ==
  ASSUME VoterTypeInv, ReaderInv, Rounds, handleInput,
         BarrierReached(arrivals + 1),
         Len(printed) + 1 < Len(Output)
  PROVE  Rounds'
<1> USE DEF replicaVars, readerVars, voterVars, signalVars
<1> DEFINE r == Len(printed) + 1
           m == Min(ready)
           A == {i \in Replicas : Counted(i) = r}
<1>1. /\ voter = "select" /\ ready # {} /\ Barrier
      /\ UNCHANGED <<replicaVars, readerVars, alive, dead, ready, interrupted, usr1,
                     usr2, patched>>
  BY DEF handleInput
<1>2. m \in ready /\ m \in Replicas
  BY <1>1, NextReady
<1>3. \A i \in Replicas : InRound(i, r)
  BY DEF Rounds
<1>4. r \in Nat /\ r < Len(Output) /\ Len(Output) \in Nat /\ r \in 1 .. Len(Output)
  BY <1>2, RoundNumbers
<1>5. \A i \in Replicas :
        /\ rd[i].pc \in {"fetch", "reply"} /\ i \notin closed /\ i \notin dead
        /\ Signals(i) \in Nat /\ full[i] \in Nat /\ Signals(i) <= r
        /\ Counted(i) = Signals(i) - full[i] /\ Counted(i) \in {r - 1, r}
        /\ rd[i].pc = "fetch" => Signals(i) <= r - 1
        /\ cont[i] \in Nat
        /\ rd[i].pc = "reply" => Signals(i) = rd[i].got - 1 /\ rd[i].got \in Nat
  <2> TAKE i \in Replicas
  <2>1. rd[i].pc # "done"
    BY <1>4, RoundNumbers
  <2>2. i \notin closed
    BY <2>1 DEF ReaderInv
  <2>3. i \notin dead /\ Counted(i) \in {r - 1, r}
    BY <1>3, <2>2 DEF InRound
  <2>4. rd[i].pc = "reply" => rd[i].got > 1
    BY DEF ReaderInv
  <2> QED
    BY <1>1, <2>1, <2>2, <2>3, <2>4, ReaderNumbers, RoundNumbers
<1>6. dead = {} /\ alive = N
  <2>1. dead = {}
    BY <1>5 DEF VoterTypeInv
  <2> QED
    BY <2>1, FS_EmptySet, ReplicaFacts DEF VoterTypeInv
<1>7. arrivals = Cardinality(A)
  <2>1. Cardinality(A) \in Nat
    BY ReplicaFacts
  <2>2. arrivals = Cardinality(A) + Cardinality(dead) + 0
    BY <1>1 DEF Rounds
  <2> QED
    BY <1>6, <2>1, <2>2, FS_EmptySet
<1>8. full[m] > 0 /\ Counted(m) = r - 1
  <2>1. IsReady(m)
    BY <1>2, <1>3 DEF InRound
  <2>2. full[m] > 0
    BY <1>2, <1>5, <2>1 DEF IsReady
  <2> QED
    BY <1>2, <1>4, <1>5, <2>2
<1>9. A \cup {m} = Replicas
  <2>1. A \in SUBSET Replicas /\ m \in Replicas /\ m \notin A
    BY <1>2, <1>4, <1>8
  <2> HIDE DEF A, m
  <2>2. Cardinality(A \cup {m}) = Cardinality(A) + 1 /\ Cardinality(A) \in Nat
    BY <2>1, OneMore, ReplicaFacts
  <2>3. A \cup {m} \in SUBSET Replicas
    BY <2>1
  <2>4. Cardinality(A \cup {m}) >= N /\ Cardinality(A \cup {m}) \in 0 .. N
    BY <1>6, <1>7, <2>2, <2>3, ReplicaFacts DEF BarrierReached
  <2> QED
    BY <2>3, <2>4, ReplicaFacts
<1>10. \A i \in Replicas : /\ rd[i].pc = "reply" /\ Signals(i) = r
                           /\ space[i] = Output[r] /\ cont[i] = 0
                           /\ full[i] = IF i = m THEN 1 ELSE 0
  <2> TAKE i \in Replicas
  <2>1. i = m \/ Counted(i) = r
    BY <1>9
  <2>2. Signals(i) = r /\ full[i] = IF i = m THEN 1 ELSE 0
    <3>1. CASE i = m
      BY <1>2, <1>4, <1>5, <1>8, <3>1
    <3>2. CASE i # m
      BY <1>4, <1>5, <2>1, <3>2
    <3> QED
      BY <3>1, <3>2
  <2>3. rd[i].pc = "reply"
    BY <1>4, <1>5, <2>2
  <2>4. space[i] = Contents(i, rd[i].got - 1) /\ cont[i] = r - Signals(i)
    BY <1>3, <2>3 DEF InRound
  <2>5. rd[i].got - 1 = r
    BY <1>4, <1>5, <2>2, <2>3
  <2>6. Contents(i, r) = Output[r]
    BY <1>4, ByteFacts
  <2> QED
    BY <1>4, <2>2, <2>3, <2>4, <2>5, <2>6
<1>11. mostCommonElement = Output[r] /\ Agreed = N /\ Output[r] \in {"a", "b"}
  BY <1>2, <1>4, <1>10, ByteFacts, Unanimous
<1>12. /\ arrivals' = 0 /\ voter' = "getc" /\ printed' = Append(printed, Output[r])
       /\ isolators' = isolators + 0 + 0 /\ dumpPending' = FALSE
       /\ cont' = [j \in Replicas |-> cont[j] + 1]
  <2>1. ~(Agreed < Quorum) /\ ~(Agreed < alive)
    BY <1>6, <1>11, ReplicaFacts DEF Quorum
  <2>2. mostCommonElement # Nul
    BY <1>11 DEF Nul
  <2>3. dumpPending = FALSE
    BY DEF Rounds, Quiet
  <2> QED
    BY <1>1, <1>11, <2>1, <2>2, <2>3 DEF Barrier, WakeReaders
<1>13. /\ Len(printed') = Len(printed) + 1 /\ printed'[r] = Output[r]
       /\ DOMAIN printed' = 1 .. r /\ DOMAIN printed = 1 .. Len(printed)
       /\ \A k \in 1 .. Len(printed) : printed'[k] = printed[k]
       /\ Len(printed) \in Nat
  BY <1>11, <1>12, AppendFacts DEF VoterTypeInv
<1>14. \A k \in DOMAIN printed' : printed'[k] = Output[k]
  BY <1>13 DEF Rounds
<1>15. Quiet'
  BY <1>1, <1>12 DEF Rounds, Quiet, VoterTypeInv
<1>16. r' = r + 1 /\ m' = m
  BY <1>1, <1>13
<1>17. \A i \in Replicas : Counted(i)' = r
  <2> TAKE i \in Replicas
  <2>1. Counted(i)' = (Signals(i) - full[i]) + (IF i = m THEN 1 ELSE 0)
    BY <1>1, <1>8, <1>10, <1>12, <1>16 DEF Counted, Signals
  <2> QED
    BY <1>4, <1>10, <2>1
<1>18. \A i \in Replicas : InRound(i, r)'
  <2> HIDE DEF A, m
  <2> TAKE i \in Replicas
  <2>1. /\ Signals(i)' = Signals(i) /\ IsReady(i)' = IsReady(i)
        /\ Contents(i, rd[i].got - 1)' = Contents(i, rd[i].got - 1)
    BY <1>1 DEF Signals, IsReady, Contents, Byte
  <2>2. cont'[i] = r' - Signals(i)'
    BY <1>4, <1>10, <1>12, <1>16, <2>1
  <2>3. space[i] = Contents(i, rd[i].got - 1)
    BY <1>3, <1>10 DEF InRound
  <2>4. Counted(i)' \in {r' - 1, r'}
    BY <1>4, <1>16, <1>17
  <2>5. i \in ready => IsReady(i)
    BY <1>3 DEF InRound
  <2> HIDE DEF r
  <2> QED
    BY <1>1, <1>5, <1>10, <2>1, <2>2, <2>3, <2>4, <2>5 DEF InRound
<1>19. arrivals' = Cardinality({i \in Replicas : Counted(i)' = r'}) + Cardinality(dead') + 0
  <2> DEFINE B == {i \in Replicas : Counted(i)' = r'}
  <2>1. B = {}
    BY <1>4, <1>16, <1>17
  <2>2. Cardinality(B) = 0 /\ Cardinality(dead') = 0
    BY <1>1, <1>6, <2>1, FS_EmptySet
  <2> HIDE DEF B
  <2>3. arrivals' = Cardinality(B) + Cardinality(dead') + 0
    BY <1>12, <2>2
  <2> QED
    BY <2>3 DEF B
<1>20. full'[Min(ready')] # 0 /\ voter' # "exited" /\ r' <= Len(Output)
  BY <1>1, <1>4, <1>8, <1>12, <1>16
<1> QED
  BY <1>14, <1>15, <1>18, <1>19, <1>20 DEF Rounds

\* Two elements are two.
LEMMA AtLeastTwo ==
  ASSUME NEW S \in SUBSET Replicas, NEW i \in S, NEW j \in S, i # j
  PROVE  Cardinality(S) >= 2
<1>1. Cardinality({i}) = 1 /\ {i} \in SUBSET Replicas /\ j \notin {i} /\ j \in Replicas
  BY FS_Singleton
<1>2. Cardinality({i} \cup {j}) = 2
  BY <1>1, OneMore
<1>3. Cardinality({i} \cup {j}) <= Cardinality(S) /\ Cardinality(S) \in Nat
  <2>1. {i} \cup {j} \in SUBSET S /\ IsFiniteSet(S)
    BY ReplicaFacts
  <2> QED
    BY <2>1, FS_Subset, FS_CardinalityType
<1> QED
  BY <1>2, <1>3

\* When the last vote is due, the buffers hold the last byte or the one before,
\* and the replicas that have not ended were not counted.
LEMMA RoundsLast ==
  ASSUME VoterTypeInv, ReaderInv, Rounds, voter = "select", ready # {},
         BarrierReached(arrivals + 1), Len(printed) + 1 = Len(Output)
  PROVE  Endgame
<1> DEFINE r == Len(Output)
           m == Min(ready)
           A == {i \in Replicas : Counted(i) = r}
<1>1. m \in ready /\ m \in Replicas /\ m \notin dead
  BY NextReady
<1>2. \A i \in Replicas : InRound(i, r)
  BY DEF Rounds
<1>3. r \in Nat /\ r >= 1 /\ Len(printed) = r - 1
  <2>1. Len(printed) \in Nat
    BY DEF VoterTypeInv
  <2> QED
    BY <2>1
<1>4. \A i \in Replicas :
        /\ Signals(i) \in Nat /\ full[i] \in Nat /\ rd[i].got \in Nat /\ rd[i].got <= r
        /\ Counted(i) = Signals(i) - full[i] /\ Counted(i) \in {r - 1, r}
        /\ rd[i].pc = "fetch" => Signals(i) <= r - 1
        /\ rd[i].pc \in {"fetch", "reply", "done"}
        /\ rd[i].pc # "done" /\ rd[i].got > 0 => Signals(i) = rd[i].got - 1
        /\ rd[i].pc # "done" /\ rd[i].got = 0 => Signals(i) = 0
        /\ rd[i].pc = "done" => rd[i].got = r /\ Signals(i) = r
        /\ rd[i].pc = "reply" => rd[i].got > 1
  <2> TAKE i \in Replicas
  <2>1. InRound(i, r) /\ (rd[i].pc = "reply" => rd[i].got > 1)
    BY <1>2 DEF ReaderInv
  <2>2. rd[i].pc = "done" => rd[i].got = r
    BY <2>1 DEF InRound
  <2>3. Counted(i) \in {r - 1, r}
    BY <2>1 DEF InRound
  <2>4. /\ rd[i].pc = "fetch" => Signals(i) <= r - 1
        /\ rd[i].pc = "done" => Signals(i) = r
    BY RoundNumbers
  <2> QED
    BY <2>1, <2>2, <2>3, <2>4, ReaderNumbers
<1>5. \A i \in Replicas : Signals(i) >= r - 1
  BY <1>3, <1>4
<1>6. ASSUME NEW i \in Replicas
      PROVE  /\ space[i] \in {Contents(i, r - 1), Contents(i, r)}
             /\ rd[i].got >= r - 1
             /\ rd[i].pc # "fetch" => rd[i].got = r
             /\ rd[i].pc # "reply" => space[i] = Contents(i, rd[i].got)
  <2>1. CASE rd[i].pc = "fetch"
    <3>1. space[i] = Contents(i, rd[i].got)
      BY <1>2, <2>1 DEF InRound
    <3>2. rd[i].got = r \/ rd[i].got = r - 1
      BY <1>3, <1>4, <1>5, <2>1
    <3> QED
      BY <1>3, <2>1, <3>1, <3>2
  <2>2. CASE rd[i].pc = "reply"
    <3>1. space[i] = Contents(i, rd[i].got - 1)
      BY <1>2, <2>2 DEF InRound
    <3>2. rd[i].got = r
      <4>1. rd[i].got \in Nat /\ rd[i].got > 1 /\ rd[i].got <= r /\ Signals(i) = rd[i].got - 1
        BY <1>4, <2>2
      <4>2. Signals(i) >= r - 1
        BY <1>5
      <4> QED
        BY <1>3, <4>1, <4>2
    <3> QED
      BY <1>3, <2>2, <3>1, <3>2
  <2>3. CASE rd[i].pc = "done"
    <3>1. space[i] = Contents(i, r) /\ rd[i].got = r
      BY <1>2, <2>3 DEF InRound
    <3> QED
      BY <1>3, <2>3, <3>1
  <2> QED
    BY <1>4, <2>1, <2>2, <2>3
<1>7. \A i \in A : i \in closed
  <2> TAKE i \in A
  <2>1. i \in Replicas /\ Counted(i) = r
    OBVIOUS
  <2>2. Signals(i) >= r
    BY <1>3, <1>4, <2>1
  <2>3. rd[i].pc = "done"
    BY <1>3, <1>4, <2>1, <2>2
  <2> QED
    BY <2>1, <2>3 DEF ReaderInv
<1>8. m \in closed
  <2>1. IsReady(m)
    BY <1>1, <1>2 DEF InRound
  <2>2. CASE full[m] > 0
    <3>1. Signals(m) >= r
      BY <1>1, <1>3, <1>4, <2>2
    <3>2. rd[m].pc = "done"
      BY <1>1, <1>3, <1>4, <3>1
    <3> QED
      BY <1>1, <3>2 DEF ReaderInv
  <2> QED
    BY <2>1, <2>2 DEF IsReady
<1>9. ASSUME N <= 3 PROVE Cardinality(Replicas \ closed) <= 1
  <2>1. SUFFICES ASSUME Cardinality(Replicas \ closed) >= 2 PROVE FALSE
    <3>1. Replicas \ closed \in SUBSET Replicas
      OBVIOUS
    <3>2. Cardinality(Replicas \ closed) \in Nat
      BY <3>1, ReplicaFacts
    <3> QED
      BY <3>2
  <2>2. PICK i, j \in Replicas \ closed : i # j
    BY <2>1, TwoMembers
  <2>3. i # m /\ j # m
    BY <1>8, <2>2
  <2> HIDE DEF m, A
  <2>4. N = 3 /\ \A k \in Replicas : k \in {i, j, m}
    <3>1. i \in 1 .. N /\ j \in 1 .. N /\ m \in 1 .. N /\ N \in Nat /\ N >= 2
      BY <1>1, ReplicaFacts DEF Replicas
    <3>2. N = 3
      BY <1>9, <2>2, <2>3, <3>1
    <3>3. \A k \in 1 .. N : k \in {i, j, m}
      BY <2>2, <2>3, <3>1, <3>2
    <3> QED
      BY <3>2, <3>3 DEF Replicas
  <2>5. dead = {}
    <3>1. \A k \in dead : k \in Replicas /\ k \in closed
      BY <1>2 DEF InRound, VoterTypeInv
    <3>2. \A k \in dead : k = m
      BY <2>2, <2>4, <3>1
    <3> QED
      BY <1>1, <3>2
  <2>6. A \subseteq {m}
    BY <1>7, <2>2, <2>4 DEF A
  <2>7. Cardinality(A) <= 1 /\ Cardinality(A) \in Nat /\ Cardinality(dead) = 0
    <3>1. A = {} \/ A = {m}
      BY <2>6
    <3>2. Cardinality({m}) = 1
      BY FS_Singleton
    <3>3. Cardinality(A) = 0 \/ Cardinality(A) = 1
      <4>1. CASE A = {}
        BY <4>1, FS_EmptySet
      <4>2. CASE A = {m}
        BY <3>2, <4>2
      <4> QED
        BY <3>1, <4>1, <4>2
    <3>4. Cardinality(dead) = 0
      BY <2>5, FS_EmptySet
    <3> QED
      BY <3>3, <3>4
  <2>8. arrivals = Cardinality(A) + Cardinality(dead) + 0
    BY <1>3 DEF Rounds, A
  <2>9. alive = 3
    BY <2>4, <2>7 DEF VoterTypeInv
  <2> QED
    BY <2>7, <2>8, <2>9 DEF BarrierReached
<1>10. Printed
  BY RoundsPrinted
<1> QED
  BY <1>3, <1>6, <1>9, <1>10 DEF Endgame

\* The bytes a buffer may hold at the end of the run.
LEMMA LastBytes ==
  ASSUME VoterTypeInv, Len(Output) > 0, NEW i \in Replicas
  PROVE  /\ Len(Output) \in Nat
         /\ Contents(i, Len(Output)) \in {Output[Len(Output)], "w"}
         /\ Output[Len(Output)] \in {"a", "b"}
         /\ Len(Output) = 1 => Contents(i, Len(Output) - 1) = Nul
         /\ Len(Output) > 1 => /\ Contents(i, Len(Output) - 1) = Output[Len(Output) - 1]
                               /\ Output[Len(Output) - 1] \in {"a", "b"}
<1> DEFINE L == Len(Output)
<1>1. L \in Nat /\ L \in 1 .. L
  BY ExtVoterAssumption
<1>2. Contents(i, L) = Byte(i, L) /\ Output[L] \in {"a", "b"}
      /\ (Byte(i, L) # "w" => Byte(i, L) = Output[L])
  BY <1>1, ByteFacts
<1>3. L = 1 => Contents(i, L - 1) = Nul
  BY DEF Contents
<1>4. ASSUME L > 1
      PROVE  Contents(i, L - 1) = Output[L - 1] /\ Output[L - 1] \in {"a", "b"}
  <2>1. L - 1 \in 1 .. L /\ L - 1 # L
    BY <1>1, <1>4
  <2> QED
    BY <2>1, ByteFacts
<1> QED
  BY <1>1, <1>2, <1>3, <1>4

\* What the last votes choose: two buffers hold it, and with at most three
\* replicas one of the two belongs to a reader that is done.
LEMMA LastChoice ==
  ASSUME VoterTypeInv, ReaderInv, Endgame, Len(Output) > 0, Agreed >= Quorum,
         mostCommonElement # Nul
  PROVE  \/ mostCommonElement = Output[Len(Output)]
         \/ /\ N > 3 /\ Len(Output) > 1
            /\ mostCommonElement = Output[Len(Output) - 1]
<1>1. PICK i, j \in Replicas : /\ i # j
                               /\ space[i] = mostCommonElement
                               /\ space[j] = mostCommonElement
  BY QuorumFacts
<1>2. mostCommonElement # "w"
  BY <1>1 DEF ReaderInv
<1>3. Len(Output) \in Nat
  BY LastBytes
<1>4. CASE N <= 3
  <2>1. i \in closed \/ j \in closed
    <3>1. SUFFICES ASSUME i \notin closed, j \notin closed PROVE FALSE
      OBVIOUS
    <3>2. Replicas \ closed \in SUBSET Replicas /\ i \in Replicas \ closed
          /\ j \in Replicas \ closed
      BY <3>1
    <3>3. Cardinality(Replicas \ closed) >= 2 /\ Cardinality(Replicas \ closed) \in Nat
      BY <1>1, <3>2, AtLeastTwo, ReplicaFacts
    <3>4. Cardinality(Replicas \ closed) <= 1
      BY <1>4 DEF Endgame
    <3> QED
      BY <3>3, <3>4
  <2>2. ASSUME NEW k \in Replicas, k \in closed, space[k] = mostCommonElement
        PROVE  mostCommonElement = Output[Len(Output)]
    <3>1. rd[k].pc = "done"
      BY <2>2 DEF ReaderInv
    <3>2. rd[k].got = Len(Output) /\ space[k] = Contents(k, rd[k].got)
      BY <3>1 DEF Endgame
    <3> QED
      BY <1>2, <2>2, <3>2, LastBytes
  <2> QED
    BY <1>1, <2>1, <2>2
<1>5. CASE N > 3
  <2>1. space[i] \in {Contents(i, Len(Output) - 1), Contents(i, Len(Output))}
    BY DEF Endgame
  <2>2. CASE space[i] = Contents(i, Len(Output))
    BY <1>1, <1>2, <2>2, LastBytes
  <2>3. CASE space[i] = Contents(i, Len(Output) - 1)
    <3>1. Len(Output) > 1
      <4>1. Contents(i, Len(Output) - 1) # Nul
        BY <1>1, <2>3
      <4>2. Len(Output) # 1
        BY <4>1, LastBytes
      <4> QED
        BY <1>3, <4>2
    <3> QED
      BY <1>1, <1>5, <2>3, <3>1, LastBytes
  <2> QED
    BY <2>1, <2>2, <2>3
<1> QED
  BY <1>4, <1>5, ReplicaFacts

\* A step that leaves the readers and what is printed.
LEMMA EndOther ==
  ASSUME Endgame, UNCHANGED <<wrong, rd, space, closed, printed>>
  PROVE  Endgame'
<1>1. \A i \in Replicas : /\ Contents(i, Len(Output) - 1)' = Contents(i, Len(Output) - 1)
                          /\ Contents(i, Len(Output))' = Contents(i, Len(Output))
                          /\ Contents(i, rd[i].got)' = Contents(i, rd[i].got)
  BY DEF Contents, Byte
<1>2. Printed'
  BY DEF Endgame, Printed
<1> QED
  BY <1>1, <1>2 DEF Endgame

\* A vote on the last bytes.
LEMMA EndVote ==
  ASSUME VoterTypeInv, ReaderInv, Endgame, Len(Output) > 0, handleInput
  PROVE  Endgame' \/ (voter' = "exited" /\ Printed')
<1> USE DEF replicaVars, readerVars, voterVars, signalVars
<1>1. UNCHANGED <<wrong, rd, space, closed>>
  BY DEF handleInput
<1>2. CASE printed' = printed
  BY <1>1, <1>2, EndOther
<1>3. CASE printed' # printed
  <2>1. Barrier /\ Agreed >= Quorum
    <3>1. Barrier
      BY <1>3 DEF handleInput
    <3>2. Agreed \in Nat
      BY WinnerFacts, ReplicaFacts
    <3> QED
      BY <1>3, <3>1, <3>2 DEF Barrier, Quorum
  <2> DEFINE c == mostCommonElement
             L == Len(Output)
  <2>2. c # Nul /\ printed' = Append(printed, c) /\ c \in {"a", "b"}
    <3>1. c # Nul /\ printed' = Append(printed, c)
      <4>1. ~(Agreed < Quorum)
        BY <2>1, WinnerFacts, ReplicaFacts DEF Quorum
      <4> QED
        BY <1>3, <2>1, <4>1 DEF Barrier
    <3> QED
      BY <2>1, <3>1, WinnerCorrect
  <2>3. c = Output[L] \/ (N > 3 /\ L > 1 /\ c = Output[L - 1])
    BY <2>1, <2>2, LastChoice
  <2> HIDE DEF c
  <2>4. /\ Len(printed') = Len(printed) + 1 /\ printed'[Len(printed) + 1] = c
        /\ Len(printed) \in Nat
        /\ \A n \in 1 .. Len(printed) : printed'[n] = printed[n]
        /\ DOMAIN printed = 1 .. Len(printed) /\ DOMAIN printed' = 1 .. Len(printed')
    BY <2>2, AppendFacts DEF VoterTypeInv
  <2>5. L \in Nat /\ Len(printed) >= L - 1
    BY ExtVoterAssumption DEF Endgame
  <2> DEFINE Right(p, k) ==
               /\ k < L => p[k] = Output[k]
               /\ k >= L => \/ p[k] = Output[L]
                            \/ N > 3 /\ L > 1 /\ p[k] = Output[L - 1]
  <2>6. \A k \in DOMAIN printed : Right(printed, k)
    BY DEF Endgame, Printed
  <2>7. ASSUME NEW k \in DOMAIN printed' PROVE Right(printed', k)
    <3>1. CASE k = Len(printed) + 1
      BY <2>3, <2>4, <2>5, <3>1
    <3>2. CASE k # Len(printed) + 1
      <4>1. k \in DOMAIN printed /\ printed'[k] = printed[k]
        BY <2>4, <3>2
      <4>2. Right(printed, k)
        BY <2>6, <4>1
      <4> QED
        BY <4>1, <4>2
    <3> QED
      BY <3>1, <3>2
  <2>8. Printed'
    BY <2>7 DEF Printed
  <2>9. \A i \in Replicas : /\ Contents(i, L - 1)' = Contents(i, L - 1)
                            /\ Contents(i, L)' = Contents(i, L)
                            /\ Contents(i, rd[i].got)' = Contents(i, rd[i].got)
    BY <1>1 DEF Contents, Byte
  <2>10. Len(printed') >= L - 1
    BY <2>4, <2>5
  <2> QED
    BY <1>1, <2>8, <2>9, <2>10 DEF Endgame
<1> QED
  BY <1>2, <1>3

\* A step of a reader at the end.
LEMMA EndReader ==
  ASSUME VoterTypeInv, ReaderInv, Endgame, Len(Output) > 0, NEW i \in Replicas,
         sent[i] = Len(Output), ReadByte(i) \/ GetReply(i) \/ ReadEOF(i)
  PROVE  Endgame'
<1> USE DEF replicaVars, readerVars, voterVars, signalVars
<1> DEFINE L == Len(Output)
           Mine(j) == /\ space[j] \in {Contents(j, L - 1), Contents(j, L)}
                      /\ rd[j].got >= L - 1
                      /\ rd[j].pc # "fetch" => rd[j].got = L
                      /\ rd[j].pc # "reply" => space[j] = Contents(j, rd[j].got)
<1>1. Mine(i) /\ L \in Nat /\ L > 0
  BY ExtVoterAssumption DEF Endgame
<1>2. /\ rd[i] \in Reader /\ rd[i].got \in Nat /\ rd[i].got <= L
      /\ (rd[i].held <=> rd[i].got > 0) /\ (rd[i].pc = "reply" => rd[i].got > 1)
  BY ReaderNumbers DEF VoterTypeInv, ReaderInv
<1>3. /\ UNCHANGED <<wrong, printed>> /\ closed \subseteq closed'
      /\ \A j \in Replicas : j # i => UNCHANGED <<rd[j], space[j]>>
  BY DEF ReadByte, GetReply, ReadEOF, VoterTypeInv
<1>4. /\ Contents(i, L - 1)' = Contents(i, L - 1) /\ Contents(i, L)' = Contents(i, L)
      /\ Contents(i, L) = Byte(i, L)
  BY <1>1, <1>3 DEF Contents, Byte
<1>5. Mine(i)'
  <2>1. CASE ReadByte(i)
    <3>1. rd[i].pc = "fetch" /\ rd[i].got = L - 1
      BY <1>1, <1>2, <2>1 DEF ReadByte
    <3>2. CASE rd[i].held
      <4>1. rd'[i].pc = "reply" /\ rd'[i].got = L /\ space'[i] = space[i]
        <5>1. /\ rd'[i].pc = "reply" /\ rd'[i].got = rd[i].got + 1
              /\ UNCHANGED space
          BY <2>1, <3>2, ReadNext
        <5> QED
          BY <1>1, <3>1, <5>1
      <4> QED
        BY <1>1, <1>4, <4>1
    <3>3. CASE ~rd[i].held
      <4>1. rd[i].got = 0 /\ L = 1
        <5>1. ~(rd[i].got > 0)
          BY <1>2, <3>3
        <5>2. rd[i].got = 0
          BY <1>2, <5>1
        <5>3. L \in Nat /\ L - 1 = 0
          BY <1>1, <3>1, <5>2
        <5> HIDE DEF L
        <5> QED
          BY <5>2, <5>3
      <4>2. rd'[i].pc = "fetch" /\ rd'[i].got = L /\ space'[i] = Byte(i, L)
        <5>1. /\ rd'[i].pc = "fetch" /\ rd'[i].got = 1
              /\ space' = [space EXCEPT ![i] = Byte(i, 1)]
          BY <2>1, <3>3, ReadFirst
        <5> QED
          BY <4>1, <5>1 DEF VoterTypeInv
      <4>3. Contents(i, rd[i].got)' = Contents(i, L)
        BY <1>4, <4>2 DEF Contents, Byte
      <4> QED
        BY <1>1, <1>4, <4>2, <4>3
    <3> QED
      BY <3>2, <3>3
  <2>2. CASE GetReply(i)
    <3>1. rd[i].pc = "reply" /\ rd[i].got = L
      BY <1>1, <2>2 DEF GetReply
    <3>2. rd'[i].pc = "fetch" /\ rd'[i].got = L /\ space'[i] = Byte(i, L)
      BY <2>2, <3>1 DEF GetReply, VoterTypeInv, Reader
    <3>3. Contents(i, rd[i].got)' = Contents(i, L)
      BY <1>4, <3>2
    <3> QED
      BY <1>1, <1>4, <3>2, <3>3
  <2>3. CASE ReadEOF(i)
    <3>1. rd[i].pc = "fetch" /\ rd[i].got = L /\ rd[i].held
      BY <1>1, <1>2, <2>3 DEF ReadEOF
    <3>2. rd'[i].pc = "done" /\ rd'[i].got = L /\ space'[i] = space[i]
      BY <2>3, <3>1 DEF ReadEOF, VoterTypeInv, Reader
    <3>3. Contents(i, rd[i].got)' = Contents(i, L)
      BY <1>4, <3>2
    <3> QED
      BY <1>1, <1>4, <3>1, <3>2, <3>3
  <2> QED
    BY <2>1, <2>2, <2>3
<1>6. ASSUME NEW j \in Replicas PROVE Mine(j)'
  <2>1. CASE j = i
    BY <1>5, <2>1
  <2>2. CASE j # i
    <3>1. Mine(j)
      BY DEF Endgame
    <3>2. /\ Contents(j, L - 1)' = Contents(j, L - 1) /\ Contents(j, L)' = Contents(j, L)
          /\ Contents(j, rd[j].got)' = Contents(j, rd[j].got)
      BY <1>3, <2>2 DEF Contents, Byte
    <3> QED
      BY <1>3, <2>2, <3>1, <3>2
  <2> QED
    BY <2>1, <2>2
<1>7. N <= 3 => Cardinality(Replicas \ closed') <= 1
  <2>1. Replicas \ closed' \in SUBSET (Replicas \ closed) /\ IsFiniteSet(Replicas \ closed)
    BY <1>3, ReplicaFacts
  <2>2. /\ Cardinality(Replicas \ closed') <= Cardinality(Replicas \ closed)
        /\ Cardinality(Replicas \ closed') \in Nat /\ Cardinality(Replicas \ closed) \in Nat
    BY <2>1, FS_Subset, FS_CardinalityType
  <2>3. N <= 3 => Cardinality(Replicas \ closed) <= 1
    BY DEF Endgame
  <2> QED
    BY <2>2, <2>3
<1>8. Printed' /\ Len(printed') >= L - 1
  BY <1>3 DEF Endgame, Printed
<1> HIDE DEF Mine
<1>9. \A j \in Replicas : Mine(j)'
  BY <1>6
<1> QED
  BY <1>7, <1>8, <1>9 DEF Endgame, Mine

\* A step that changes nothing the rounds are about.
LEMMA RoundsOther ==
  ASSUME Rounds,
         UNCHANGED <<wrong, rd, space, full, closed, cont, voter, arrivals, dead, ready,
                     printed, usr1, usr2, dumpPending, isolators>>
  PROVE  Rounds'
<1>1. Quiet' /\ Len(printed') = Len(printed)
  BY DEF Rounds, Quiet
<1>2. \A i \in Replicas : Counted(i)' = Counted(i) /\ Signals(i)' = Signals(i)
  BY DEF Counted, Signals
<1>3. \A i \in Replicas : InRound(i, Len(printed) + 1)'
  <2> TAKE i \in Replicas
  <2>1. InRound(i, Len(printed) + 1)
    BY DEF Rounds
  <2>2. /\ Contents(i, rd[i].got)' = Contents(i, rd[i].got)
        /\ Contents(i, rd[i].got - 1)' = Contents(i, rd[i].got - 1)
        /\ Contents(i, Len(Output))' = Contents(i, Len(Output))
        /\ IsReady(i)' = IsReady(i)
    BY DEF Contents, Byte, IsReady
  <2> QED
    BY <1>1, <1>2, <2>1, <2>2 DEF InRound
<1>4. {i \in Replicas : Counted(i)' = Len(printed') + 1}
        = {i \in Replicas : Counted(i) = Len(printed) + 1}
  BY <1>1, <1>2
<1> QED
  BY <1>1, <1>3, <1>4 DEF Rounds

\* One step of a run without faults that prints something.
LEMMA RunStep ==
  ASSUME VoterTypeInv, ReaderInv, Next, Len(Output) > 0, faults = 0,
         faults' = 0,
         \A i \in Replicas : sent[i] = Len(Output) /\ ended[i] \in {"no", "exit"},
         Rounds \/ Endgame \/ (voter = "exited" /\ Printed)
  PROVE  (Rounds \/ Endgame \/ (voter = "exited" /\ Printed))'
<1> USE DEF replicaVars, readerVars, voterVars, signalVars
<1> DEFINE Run == Rounds \/ Endgame \/ (voter = "exited" /\ Printed)
<1>o. ASSUME UNCHANGED <<wrong, rd, space, full, closed, cont, voter, arrivals, dead, ready,
                         printed>>,
             Rounds => UNCHANGED <<usr1, usr2, dumpPending, isolators>>
      PROVE  Run'
  <2>1. CASE Rounds
    BY <1>o, <2>1, RoundsOther
  <2>2. CASE Endgame
    BY <1>o, <2>2, EndOther
  <2>3. CASE voter = "exited" /\ Printed
    BY <1>o, <2>3 DEF Printed
  <2> QED
    BY <2>1, <2>2, <2>3
<1>e. ASSUME voter = "exited" /\ Printed, UNCHANGED <<voter, printed>>
      PROVE  Run'
  BY <1>e DEF Printed
<1>1. ASSUME NEW i \in Replicas, NEW how \in {"exit", "crash"}, NEW k \in 0 .. Len(Output),
             End(i, how, k)
      PROVE  Run'
  BY <1>1, <1>o DEF End
<1>2. ASSUME NEW i \in Replicas, Reap(i) PROVE Run'
  <2>1. ended[i] = "crash"
    BY <1>2 DEF Reap
  <2> QED
    BY <2>1
<1>3. ASSUME NEW i \in Replicas, relayToVoter(i) PROVE Run'
  <2>1. faults' = faults + 1
    BY <1>3 DEF relayToVoter
  <2> QED
    BY <2>1
<1>4. ASSUME NEW i \in Replicas, ReadByte(i) \/ GetReply(i) \/ ReadEOF(i) PROVE Run'
  <2>1. CASE Rounds
    BY <1>4, <2>1, RoundsReader
  <2>2. CASE Endgame
    BY <1>4, <2>2, EndReader
  <2>3. CASE voter = "exited" /\ Printed
    <3>1. UNCHANGED <<voter, printed>>
      BY <1>4 DEF ReadByte, GetReply, ReadEOF
    <3> QED
      BY <1>e, <2>3, <3>1
  <2> QED
    BY <2>1, <2>2, <2>3
<1>5. ASSUME TakeSignal PROVE Run'
  <2>1. ~Rounds
    BY <1>5 DEF TakeSignal, Rounds, Quiet
  <2>2. voter # "exited"
    BY <1>5 DEF TakeSignal
  <2>3. UNCHANGED <<wrong, rd, space, closed, printed>>
    BY <1>5 DEF TakeSignal
  <2> QED
    BY <2>1, <2>2, <2>3, EndOther
<1>6. ASSUME Select PROVE Run'
  <2>1. voter = "select" /\ UNCHANGED <<wrong, rd, space, closed, printed>>
    BY <1>6 DEF Select
  <2> QED
    BY <1>6, <2>1, EndOther, RoundsSelect
<1>7. ASSUME handleInput PROVE Run'
  <2>1. voter = "select" /\ ready # {}
    BY <1>7 DEF handleInput
  <2>2. CASE Endgame
    BY <1>7, <2>2, EndVote
  <2>3. CASE Rounds
    <3>1. CASE ~BarrierReached(arrivals + 1)
      BY <1>7, <2>3, <3>1, RoundsArrival
    <3>2. CASE BarrierReached(arrivals + 1)
      <4>1. Len(printed) + 1 <= Len(Output) /\ Len(printed) \in Nat /\ Len(Output) \in Nat
        BY <2>3, ExtVoterAssumption DEF Rounds, VoterTypeInv
      <4>2. CASE Len(printed) + 1 < Len(Output)
        BY <1>7, <2>3, <3>2, <4>2, RoundsVote
      <4>3. CASE Len(printed) + 1 = Len(Output)
        <5>1. Endgame
          BY <2>1, <2>3, <3>2, <4>3, RoundsLast
        <5> QED
          BY <1>7, <5>1, EndVote
      <4> QED
        BY <4>1, <4>2, <4>3
    <3> QED
      BY <3>1, <3>2
  <2> QED
    BY <2>1, <2>2, <2>3
<1>8. ASSUME Getc PROVE Run'
  <2>1. voter = "getc" /\ UNCHANGED <<wrong, rd, space, closed, printed>>
    BY <1>8 DEF Getc
  <2> QED
    BY <1>8, <2>1, EndOther, RoundsGetc
<1>9. ASSUME VoterExit PROVE Run'
  <2>1. voter = "select" /\ voter' = "exited" /\ UNCHANGED printed
    BY <1>9 DEF VoterExit
  <2>2. Printed
    BY <2>1, RoundsPrinted DEF Endgame
  <2> QED
    BY <2>1, <2>2 DEF Printed
<1>10. ASSUME isolator PROVE Run'
  <2>1. ~Rounds
    BY <1>10 DEF isolator, Rounds, Quiet
  <2>2. UNCHANGED <<wrong, rd, space, closed, voter, printed>>
    BY <1>10 DEF isolator
  <2> QED
    BY <2>1, <2>2, <1>e, EndOther
<1> QED
  BY <1>1, <1>2, <1>3, <1>4, <1>5, <1>6, <1>7, <1>8, <1>9, <1>10 DEF Next

\* Without output nothing is printed.
LEMMA SilentStep ==
  ASSUME VoterTypeInv, ReaderInv, Next, Len(Output) = 0, printed = <<>>,
         \A i \in Replicas : sent[i] = Len(Output), \A i \in Replicas : space[i] = Nul
  PROVE  printed' = <<>> /\ \A i \in Replicas : space'[i] = Nul
<1> USE DEF replicaVars, readerVars, voterVars, signalVars
<1> DEFINE Silent == printed' = <<>> /\ \A i \in Replicas : space'[i] = Nul
<1>1. ASSUME NEW i \in Replicas, NEW how \in {"exit", "crash"}, NEW k \in 0 .. Len(Output),
             End(i, how, k)
      PROVE  Silent
  BY <1>1 DEF End
<1>2. ASSUME NEW i \in Replicas, Reap(i) \/ relayToVoter(i) PROVE Silent
  BY <1>2 DEF Reap, relayToVoter
<1>r. \A i \in Replicas : rd[i].got \in Nat /\ rd[i].got <= 0
  BY ReaderNumbers
<1>3. ASSUME NEW i \in Replicas, ReadByte(i) \/ GetReply(i) PROVE Silent
  <2>1. ~ReadByte(i)
    BY <1>r DEF ReadByte
  <2>2. ~GetReply(i)
    BY <1>r DEF GetReply, ReaderInv
  <2> QED
    BY <1>3, <2>1, <2>2
<1>4. ASSUME NEW i \in Replicas, ReadEOF(i) PROVE Silent
  BY <1>4 DEF ReadEOF, VoterTypeInv
<1>5. ASSUME TakeSignal \/ Select \/ Getc \/ VoterExit \/ isolator PROVE Silent
  BY <1>5 DEF TakeSignal, Select, Getc, VoterExit, isolator
<1>6. ASSUME handleInput PROVE Silent
  <2>1. mostCommonElement = Nul
    BY Unanimous
  <2> QED
    BY <1>6, <2>1 DEF handleInput, Barrier
<1> QED
  BY <1>1, <1>2, <1>3, <1>4, <1>5, <1>6 DEF Next

\* The runs without faults keep their rounds.
LEMMA FaultFreeStep ==
  ASSUME VoterTypeInv, ReaderInv, FaultFree, Next
  PROVE  FaultFree'
<1> USE DEF replicaVars, readerVars, voterVars, signalVars
<1>1. SUFFICES ASSUME faults' = 0 PROVE FaultFree'
  BY DEF FaultFree
<1>2. faults = 0
  <2>1. faults' \in {faults, faults + 1}
    BY DEF Next, End, Reap, relayToVoter, ReadByte, GetReply, ReadEOF,
       TakeSignal, Select,
           handleInput, Getc, VoterExit, isolator
  <2> QED
    BY <1>1, <2>1 DEF VoterTypeInv
<1>3. /\ \A i \in Replicas : sent[i] = Len(Output) /\ ended[i] \in {"no", "exit"}
      /\ Len(Output) = 0 => printed = <<>> /\ \A i \in Replicas : space[i] = Nul
      /\ Len(Output) > 0 => Rounds \/ Endgame \/ (voter = "exited" /\ Printed)
  BY <1>2 DEF FaultFree
<1>4. ASSUME NEW j \in Replicas
      PROVE  sent'[j] = Len(Output) /\ ended'[j] \in {"no", "exit"}
  <2>1. ASSUME NEW i \in Replicas, NEW how \in {"exit", "crash"}, NEW k \in 0 .. Len(Output),
               End(i, how, k)
        PROVE  sent'[j] = Len(Output) /\ ended'[j] \in {"no", "exit"}
    <3>1. how = "exit" /\ k = Len(Output)
      BY <1>1, <1>2, <2>1 DEF End
    <3> QED
      BY <1>3, <2>1, <3>1 DEF End, VoterTypeInv
  <2>2. ASSUME NEW i \in Replicas, Reap(i) PROVE FALSE
    BY <1>3, <2>2 DEF Reap
  <2>3. ASSUME NEW i \in Replicas, relayToVoter(i) PROVE FALSE
    BY <1>1, <1>2, <2>3 DEF relayToVoter
  <2>4. CASE UNCHANGED <<sent, ended>>
    BY <1>3, <2>4
  <2> QED
    BY <2>1, <2>2, <2>3, <2>4
    DEF Next, ReadByte, GetReply, ReadEOF, TakeSignal, Select, handleInput, Getc, VoterExit,
        isolator
<1>5. CASE Len(Output) = 0
  <2>1. printed' = <<>> /\ \A i \in Replicas : space'[i] = Nul
    BY <1>3, <1>5, SilentStep
  <2> QED
    BY <1>4, <1>5, <2>1 DEF FaultFree
<1>6. CASE Len(Output) > 0
  <2>1. (Rounds \/ Endgame \/ (voter = "exited" /\ Printed))'
    BY <1>1, <1>2, <1>3, <1>6, RunStep
  <2> QED
    BY <1>4, <1>6, <2>1 DEF FaultFree
<1>7. Len(Output) \in Nat
  BY ExtVoterAssumption
<1> QED
  BY <1>5, <1>6, <1>7

\* The invariant holds at first.
LEMMA VoterInit ==
  ASSUME Init
  PROVE  VoterIInv
<1>1. Len(Output) \in Nat
  BY ExtVoterAssumption
<1>2. VoterTypeInv
  <2>1. [pc |-> "fetch", got |-> 0, held |-> FALSE] \in Reader
    BY <1>1 DEF Reader
  <2>2. Cardinality({}) = 0 /\ N \in Nat /\ N - 0 = N /\ 0 \in 0 .. N
    BY FS_EmptySet, ReplicaFacts
  <2>3. sent \in [Replicas -> 0 .. Len(Output)]
    BY <1>1 DEF Init
  <2>4. rd \in [Replicas -> Reader]
    BY <2>1 DEF Init
  <2> QED
    <3>1. space \in [Replicas -> {Nul, "a", "b", "w"}]
      BY DEF Init, Nul
    <3>2. full \in [Replicas -> Nat] /\ cont \in [Replicas -> Nat]
      BY DEF Init
    <3>3. ended \in [Replicas -> {"no", "exit", "crash", "reaped"}]
      BY DEF Init
    <3>4. dead = {} /\ alive = N - Cardinality(dead) /\ arrivals \in 0 .. N
      BY <2>2 DEF Init
    <3>5. printed \in Seq({"a", "b"})
      BY DEF Init
    <3> QED
      BY <2>3, <2>4, <3>1, <3>2, <3>3, <3>4, <3>5 DEF Init, VoterTypeInv
<1>3. \A i \in Replicas : Signals(i) = 0 /\ rd[i].got = 0 /\ rd[i].pc = "fetch" /\ full[i] = 0
                          /\ rd[i].held = FALSE /\ space[i] = Nul /\ cont[i] = 0
  BY DEF Init, Signals
<1>4. ReaderInv
  <2>1. \A i \in Replicas : sent[i] = Len(Output) /\ i \notin closed
    BY DEF Init
  <2>2. voter = "select"
    BY DEF Init
  <2>3. Nul # "w"
    BY DEF Nul
  <2> QED
    BY <1>1, <1>3, <2>1, <2>2, <2>3 DEF ReaderInv
<1>5. ASSUME Len(Output) > 0 PROVE Rounds
  <2> DEFINE A == {i \in Replicas : Counted(i) = Len(printed) + 1}
  <2>1. Len(printed) = 0 /\ printed = <<>>
    BY DEF Init
  <2>2. \A i \in Replicas : Counted(i) = 0
    BY <1>3 DEF Init, Counted
  <2>3. A = {}
    BY <2>1, <2>2
  <2>4. arrivals = Cardinality(A) + Cardinality(dead) + 0
    <3>1. Cardinality(A) = 0 /\ Cardinality(dead) = 0
      BY <2>3, FS_EmptySet DEF Init
    <3> QED
      BY <3>1 DEF Init
  <2>5. \A i \in Replicas : InRound(i, Len(printed) + 1)
    BY <1>3, <2>1, <2>2 DEF Init, InRound, Contents
  <2>6. Quiet /\ voter = "select" /\ Len(printed) + 1 <= Len(Output)
    BY <1>1, <1>5, <2>1 DEF Init, Quiet
  <2> QED
    BY <2>1, <2>4, <2>5, <2>6 DEF Rounds
<1>6. FaultFree
  BY <1>3, <1>5 DEF Init, FaultFree
<1> QED
  BY <1>2, <1>4, <1>6 DEF VoterIInv

\* A step that changes nothing keeps the invariant.
LEMMA VoterStutter ==
  ASSUME VoterIInv, UNCHANGED vars
  PROVE  VoterIInv'
<1> USE DEF vars, replicaVars, readerVars, voterVars, signalVars
<1>1. VoterTypeInv'
  BY DEF VoterIInv, VoterTypeInv
<1>2. \A i \in Replicas : Signals(i)' = Signals(i)
  BY DEF Signals
<1>3. ReaderInv'
  BY <1>2 DEF VoterIInv, ReaderInv
<1>4. Rounds => Rounds'
  BY RoundsOther
<1>5. Endgame => Endgame'
  BY EndOther
<1>6. Printed => Printed'
  BY DEF Printed
<1> QED
  BY <1>1, <1>3, <1>4, <1>5, <1>6 DEF VoterIInv, FaultFree

\* The invariant is inductive.
LEMMA VoterStep ==
  ASSUME VoterIInv, [Next]_vars
  PROVE  VoterIInv'
<1>1. CASE Next
  BY <1>1, VoterTypeStep, ReaderStep, FaultFreeStep DEF VoterIInv
<1>2. CASE UNCHANGED vars
  BY <1>2, VoterStutter
<1> QED
  BY <1>1, <1>2

\* It holds throughout.
LEMMA VoterAlways == Spec => []VoterIInv
BY VoterInit, VoterStep, PTL DEF Spec

----------------------------------------------------------------------------
(* What the voter prints *)

\* A replica that errs alone does not get its byte printed, whoever crashed,
\* stopped early or was signalled: handleInput prints only a byte two buffers
\* hold, and no buffer but the first replica's ever holds the wrong one.
THEOREM OutputVouchedAlways == Spec => []OutputVouched
<1>1. VoterIInv => OutputVouched
  <2>1. SUFFICES ASSUME VoterIInv PROVE \A k \in DOMAIN printed : printed[k] \in {"a", "b"}
    BY DEF OutputVouched
  <2> QED
    BY <2>1 DEF VoterIInv, VoterTypeInv
<1> QED
  BY <1>1, VoterAlways, PTL

\* With any number of replicas and no faults, all bytes but the last are printed
\* once and in order, and after them only the last, or, with more than three
\* replicas, the last but one.
THEOREM PrintedAlways == Spec => [](faults = 0 /\ Len(Output) > 0 => Printed)
<1>1. VoterIInv => (faults = 0 /\ Len(Output) > 0 => Printed)
  <2>1. VoterTypeInv /\ Rounds => Printed
    BY RoundsPrinted
  <2> QED
    BY <2>1 DEF VoterIInv, FaultFree, Endgame
<1> QED
  BY <1>1, VoterAlways, PTL

\* With two or three replicas the k-th vote prints the k-th byte, and the counts
\* of the voter and of the pipes stay within their bounds.
THEOREM InStepAlways == N <= 3 /\ Spec => []InStep
<1> SUFFICES ASSUME N <= 3 PROVE Spec => []InStep
  OBVIOUS
<1>1. VoterIInv => TypeOK
  <2> SUFFICES ASSUME VoterIInv PROVE TypeOK
    OBVIOUS
  <2>1. VoterTypeInv /\ ReaderInv
    BY DEF VoterIInv
  <2>2. Cardinality(dead) \in 0 .. N /\ N \in Nat
    BY <2>1, ReplicaFacts DEF VoterTypeInv
  <2>3. alive \in 0 .. N
    BY <2>1, <2>2 DEF VoterTypeInv
  <2>4. ASSUME NEW i \in Replicas
        PROVE  full[i] \in 0 .. Len(Output) + 1 /\ cont[i] \in Nat
    <3>1. full[i] <= Signals(i)
      BY <2>1 DEF ReaderInv
    <3>2. rd[i].got \in Nat /\ rd[i].got <= Len(Output) /\ Len(Output) \in Nat
          /\ full[i] \in Nat /\ cont[i] \in Nat
      BY <2>1, ReaderNumbers
    <3>3. Signals(i) <= Len(Output) + 1 /\ Signals(i) \in Nat
      BY <3>2 DEF Signals
    <3> QED
      BY <3>1, <3>2, <3>3
  <2> QED
    BY <2>1, <2>3, <2>4 DEF VoterTypeInv, TypeOK
<1>2. ASSUME N <= 3, VoterIInv, faults = 0
      PROVE  \A k \in DOMAIN printed : printed[k] = Output[Min({k, Len(Output)})]
  <2>1. Len(Output) \in Nat /\ DOMAIN printed = 1 .. Len(printed) /\ Len(printed) \in Nat
    BY <1>2, ExtVoterAssumption DEF VoterIInv, VoterTypeInv
  <2>2. CASE Len(Output) = 0
    <3>1. printed = <<>>
      BY <1>2, <2>2 DEF VoterIInv, FaultFree
    <3> QED
      BY <3>1
  <2>3. CASE Len(Output) > 0
    <3>1. Printed
      <4>1. VoterTypeInv /\ Rounds => Printed
        BY RoundsPrinted
      <4> QED
        BY <1>2, <2>3, <4>1 DEF VoterIInv, FaultFree, Endgame
    <3> TAKE k \in DOMAIN printed
    <3> DEFINE m == Min({k, Len(Output)})
    <3>2. k \in Nat
      BY <2>1
    <3>3. m \in {k, Len(Output)} /\ m <= k /\ m <= Len(Output)
      <4>1. {k, Len(Output)} \subseteq Nat /\ {k, Len(Output)} # {}
        BY <2>1, <3>2
      <4> QED
        BY <4>1, MinFacts
    <3> HIDE DEF m
    <3>4. CASE k < Len(Output)
      <4>1. m = k
        BY <2>1, <3>2, <3>3, <3>4
      <4> QED
        BY <3>1, <3>4, <4>1 DEF Printed, m
    <3>5. CASE k >= Len(Output)
      <4>1. m = Len(Output)
        BY <2>1, <3>2, <3>3, <3>5
      <4>2. N \in Nat
        BY ReplicaFacts
      <4>3. printed[k] = Output[Len(Output)]
        BY <1>2, <3>1, <3>5, <4>2 DEF Printed
      <4> QED
        BY <4>1, <4>3 DEF m
    <3> QED
      BY <2>1, <3>2, <3>4, <3>5
  <2> QED
    BY <2>1, <2>2, <2>3
<1>3. VoterIInv => InStep
  BY <1>1, <1>2 DEF InStep
<1> QED
  BY <1>3, VoterAlways, PTL
=============================================================================
