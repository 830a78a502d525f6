------------------------------ MODULE Replicated ------------------------------
(***************************************************************************)
(* The replicated version of DieHard (src/src/replicated): N copies of a   *)
(* program run with differently randomized heaps; a reader process per     *)
(* copy gathers its output in a shared buffer of fixed length and stops    *)
(* there; the voter process, once all N have stopped, prints the buffer    *)
(* most of them agree on and lets them go on.                              *)
(*                                                                         *)
(* A buffer's worth of output is one value; Fp is its fingerprint.  The    *)
(* processes are joined by pipes that carry one byte per signal.  Who      *)
(* holds an end of a pipe follows from the order of the forks in main: a   *)
(* process forked for replica j inherits, of every replica i < j, the      *)
(* reading end of bufferFull[i] and the writing end of continuePipe[i].    *)
(***************************************************************************)
EXTENDS Integers, Sequences, FiniteSets

CONSTANTS
  N,      \* NUMBER_OF_REPLICAS
  Value,  \* what a buffer can hold
  Junk,   \* a buffer of random numbers, which no replica wrote
  Fp,     \* the fingerprint of what a buffer holds
  Chunks  \* bound: the most buffers a replica's output fills

ASSUME ReplicatedAssumption ==
  /\ N \in Nat /\ N >= 2
  /\ Chunks \in Nat \ {0}
  /\ Junk \notin Value
  /\ Fp \in [Value \cup {Junk} -> Int]

VARIABLES
  pc,       \* where each reader is
  last,     \* TRUE once a reader has met the end of its input
  buffer,   \* the shared space, one buffer per replica
  out,      \* history: what each replica has written so far
  full,     \* the bytes in each bufferFull pipe
  cont,     \* the bytes in each continuePipe
  voter,    \* where the voter is
  arrivals, \* barrierArrivals
  deadFd,   \* the replicas the voter has seen the end of
  next,     \* the replica the voter replies to next
  printed   \* what the voter has printed

vars == <<pc, last, buffer, out, full, cont, voter, arrivals, deadFd, next,
          printed>>
readerVars == <<pc, last, buffer, out>>
voterVars == <<voter, arrivals, deadFd, next, printed>>

Replica == 0 .. N - 1

Init ==
  /\ pc = [i \in Replica |-> "fill"]
  /\ last = [i \in Replica |-> FALSE]
  /\ buffer = [i \in Replica |-> Junk]
  /\ out = [i \in Replica |-> <<>>]
  /\ full = [i \in Replica |-> 0]
  /\ cont = [i \in Replica |-> 0]
  /\ voter = "select"
  /\ arrivals = 0
  /\ deadFd = {}
  /\ next = 0
  /\ printed = <<>>

VoterGone == voter \in {"disagreed", "killed"}

\* Nobody else holds the end of i's pipes that the voter held.
VoterEndsClosed(i) == VoterGone /\ \A j \in Replica : j > i => pc[j] = "exited"

-----------------------------------------------------------------------------
(* reader: copy input to the buffer; when it is full and there is more, or *)
(* at the end of the input, signal the voter                               *)

FillChunk(i, v, isLast) ==
  /\ pc[i] = "fill"
  /\ isLast \/ Len(out[i]) + 1 < Chunks
  /\ buffer' = [buffer EXCEPT ![i] = v]
  /\ out' = [out EXCEPT ![i] = Append(@, v)]
  /\ last' = [last EXCEPT ![i] = isLast]
  /\ pc' = [pc EXCEPT ![i] = "signal"]
  /\ UNCHANGED <<full, cont, voterVars>>

\* The byte reaches the pipe; the last one is not answered.
Signal(i) ==
  /\ pc[i] = "signal"
  /\ ~VoterEndsClosed(i)
  /\ full' = [full EXCEPT ![i] = @ + 1]
  /\ pc' = [pc EXCEPT ![i] = IF last[i] THEN "leaving" ELSE "wait"]
  /\ UNCHANGED <<last, buffer, out, cont, voterVars>>

\* Nobody can read the pipe any more: SIGPIPE ends the reader.
SignalBroken(i) ==
  /\ pc[i] = "signal"
  /\ VoterEndsClosed(i)
  /\ pc' = [pc EXCEPT ![i] = "exited"]
  /\ UNCHANGED <<last, buffer, out, full, cont, voterVars>>

WaitReply(i) ==
  /\ pc[i] = "wait"
  /\ cont[i] > 0
  /\ cont' = [cont EXCEPT ![i] = @ - 1]
  /\ pc' = [pc EXCEPT ![i] = "fill"]
  /\ UNCHANGED <<last, buffer, out, full, voterVars>>

\* fgetc(continueSignal) returns EOF, which the reader takes for a reply.
WaitEof(i) ==
  /\ pc[i] = "wait"
  /\ cont[i] = 0
  /\ VoterEndsClosed(i)
  /\ pc' = [pc EXCEPT ![i] = "fill"]
  /\ UNCHANGED <<last, buffer, out, full, cont, voterVars>>

ReaderExit(i) ==
  /\ pc[i] = "leaving"
  /\ pc' = [pc EXCEPT ![i] = "exited"]
  /\ UNCHANGED <<last, buffer, out, full, cont, voterVars>>

Reader(i) ==
  \/ \E v \in Value, isLast \in BOOLEAN : FillChunk(i, v, isLast)
  \/ Signal(i)
  \/ SignalBroken(i)
  \/ WaitReply(i)
  \/ WaitEof(i)
  \/ ReaderExit(i)

-----------------------------------------------------------------------------
(* voter and handleInput.  The voter was forked before main installed the  *)
(* SIGCHLD handler, so its copy of ReplicasAliveNow is N for ever.         *)

ReplicasAliveNow == N

VoterArriveEarly(i) ==  \* variant: the barrier opens one arrival too early
  /\ voter = "select"
  /\ full[i] > 0
  /\ full' = [full EXCEPT ![i] = @ - 1]
  /\ IF arrivals + 1 >= ReplicasAliveNow - 1
       THEN arrivals' = 0 /\ voter' = "vote"
       ELSE arrivals' = arrivals + 1 /\ UNCHANGED voter
  /\ UNCHANGED <<readerVars, cont, deadFd, next, printed>>

VoterArriveLate(i) ==  \* variant: > in place of >=
  /\ voter = "select"
  /\ full[i] > 0
  /\ full' = [full EXCEPT ![i] = @ - 1]
  /\ IF arrivals + 1 > ReplicasAliveNow
       THEN arrivals' = 0 /\ voter' = "vote"
       ELSE arrivals' = arrivals + 1 /\ UNCHANGED voter
  /\ UNCHANGED <<readerVars, cont, deadFd, next, printed>>

VoterArrive(i) ==
  /\ voter = "select"
  /\ full[i] > 0
  /\ full' = [full EXCEPT ![i] = @ - 1]
  /\ IF arrivals + 1 >= ReplicasAliveNow
       THEN arrivals' = 0 /\ voter' = "vote"
       ELSE arrivals' = arrivals + 1 /\ UNCHANGED voter
  /\ UNCHANGED <<readerVars, cont, deadFd, next, printed>>

VoterEof(i) ==
  /\ voter = "select"
  /\ i \notin deadFd
  /\ full[i] = 0
  /\ pc[i] = "exited"
  /\ deadFd' = deadFd \cup {i}
  /\ UNCHANGED <<readerVars, full, cont, voter, arrivals, next, printed>>

Same(i) == {j \in Replica : Fp[buffer[j]] = Fp[buffer[i]]}

\* mostCommonElement: the first of the replicas whose fingerprint is the
\* most frequent.
Winner ==
  CHOOSE i \in Replica :
    \A j \in Replica :
      \/ Cardinality(Same(i)) > Cardinality(Same(j))
      \/ Cardinality(Same(i)) = Cardinality(Same(j)) /\ i <= j

Disagree ==
  /\ voter = "vote"
  /\ Cardinality(Same(Winner)) < 2
  /\ voter' = "disagreed"
  /\ UNCHANGED <<readerVars, full, cont, arrivals, deadFd, next, printed>>

VoteUnchecked ==  \* variant: the count is not looked at
  /\ voter = "vote"
  /\ printed' = Append(printed, buffer[Winner])
  /\ buffer' = [buffer EXCEPT ![Winner] = Junk]
  /\ next' = 0
  /\ voter' = "reply"
  /\ UNCHANGED <<pc, last, out, full, cont, arrivals, deadFd>>

\* Print the winner's buffer, then overwrite it with random numbers.
Vote ==
  /\ voter = "vote"
  /\ Cardinality(Same(Winner)) >= 2
  /\ printed' = Append(printed, buffer[Winner])
  /\ buffer' = [buffer EXCEPT ![Winner] = Junk]
  /\ next' = 0
  /\ voter' = "reply"
  /\ UNCHANGED <<pc, last, out, full, cont, arrivals, deadFd>>

Reply ==
  /\ voter = "reply"
  /\ pc[next] # "exited"
  /\ cont' = [cont EXCEPT ![next] = @ + 1]
  /\ next' = (next + 1) % N
  /\ voter' = IF next = N - 1 THEN "select" ELSE "reply"
  /\ UNCHANGED <<readerVars, full, arrivals, deadFd, printed>>

\* The reader has gone: SIGPIPE, which only main ignores, ends the voter.
ReplyBroken ==
  /\ voter = "reply"
  /\ pc[next] = "exited"
  /\ voter' = "killed"
  /\ UNCHANGED <<readerVars, full, cont, arrivals, deadFd, next, printed>>

Voter ==
  \/ \E i \in Replica : VoterArrive(i) \/ VoterEof(i)
  \/ Disagree
  \/ Vote
  \/ Reply
  \/ ReplyBroken

Next == (\E i \in Replica : Reader(i)) \/ Voter

Spec == Init /\ [][Next]_vars

\* The operating system runs every process that can run; a replica may stop
\* writing for ever, so FillChunk is not fair.
FairSpec ==
  /\ Spec
  /\ WF_vars(Voter)
  /\ \A i \in Replica :
       WF_vars(Signal(i) \/ WaitReply(i) \/ ReaderExit(i))

-----------------------------------------------------------------------------
(* The type invariant.  No pipe ever holds two signals. *)
TypeOK ==
  /\ pc \in [Replica -> {"fill", "signal", "wait", "leaving", "exited"}]
  /\ last \in [Replica -> BOOLEAN]
  /\ buffer \in [Replica -> Value \cup {Junk}]
  /\ \A i \in Replica : out[i] \in Seq(Value) /\ Len(out[i]) <= Chunks
  /\ full \in [Replica -> 0 .. 1]
  /\ cont \in [Replica -> 0 .. 1]
  /\ voter \in {"select", "vote", "reply", "disagreed", "killed"}
  /\ arrivals \in 0 .. N - 1
  /\ deadFd \subseteq Replica
  /\ next \in Replica
  /\ printed \in Seq(Value)

(* The barrier of handleInput, though it only counts bytes: when it opens, *)
(* every replica has stopped, all at the same point of their output, and   *)
(* every buffer holds that part of it; neither a reader that is already    *)
(* filling its buffer again nor the random numbers left by an earlier vote *)
(* take part.  While the voter runs no replica gets more than one buffer   *)
(* ahead of the printed output: the continue signals of one round never    *)
(* let a reader through two.                                               *)
VoteAligned ==
  /\ TypeOK
  /\ voter = "vote" =>
       \A i \in Replica :
         /\ pc[i] \in {"wait", "leaving", "exited"}
         /\ Len(out[i]) = Len(printed) + 1
         /\ buffer[i] = out[i][Len(printed) + 1]
  /\ ~VoterGone =>
       \A i \in Replica : Len(out[i]) - Len(printed) \in {0, 1}

(* What the voter prints as the n-th buffer is the n-th buffer of some     *)
(* replica, at least two replicas have its fingerprint there, and no other *)
(* fingerprint is more frequent.                                           *)
OutputAgreed ==
  \A n \in 1 .. Len(printed) :
    LET Writers(fp) == {i \in Replica : Fp[out[i][n]] = fp}
        Agreeing == Writers(Fp[printed[n]])
    IN  /\ \A i \in Replica : Len(out[i]) >= n
        /\ \E i \in Agreeing : out[i][n] = printed[n]
        /\ Cardinality(Agreeing) >= 2
        /\ \A i \in Replica :
             Cardinality(Writers(Fp[out[i][n]])) <= Cardinality(Agreeing)

(* Output that all replicas have produced does not stay in the buffers: it *)
(* is printed, or the voter gives up because no two agree.  It does not    *)
(* matter that a reader may already have exited, whose reply kills the     *)
(* voter.                                                                  *)
ChunksPrinted ==
  \A n \in 1 .. Chunks :
    (\A i \in Replica : Len(out[i]) >= n)
      ~> (Len(printed) >= n \/ voter = "disagreed")
===============================================================================
