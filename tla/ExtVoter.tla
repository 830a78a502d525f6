------------------------------ MODULE ExtVoter ------------------------------
(***************************************************************************)
(* Exterminator's replicated mode while it runs (diehard.cpp): a proxy      *)
(* (spawnExecutable) and a reader for each replica, one voter, and the      *)
(* isolators the voter forks.  All are processes of their own that share    *)
(* pipes, signals and the output buffers.  ExtHarness models the process    *)
(* that forks and reaps them; here it reaps a proxy that ended at any time. *)
(*                                                                          *)
(* The buffer of a replica has one byte (BUFFER_LENGTH = 1) and is 0 at     *)
(* first: the loop that fills it with random longs does not run.            *)
(***************************************************************************)
EXTENDS Integers, FiniteSets, FiniteSetsExt, Sequences

CONSTANTS
  N,           \* NUMBER_OF_REPLICAS
  Output,      \* what a correct replica writes
  MaxFaults    \* bound: replicas that crash, stop early or detect corruption

ASSUME ExtVoterAssumption ==
  N \in Nat /\ N >= 2 /\ Output \in Seq({"a", "b"}) /\ MaxFaults \in Nat

Replicas == 1 .. N
Nul == ""

VARIABLES
  wrong,            \* the replicas that compute a wrong last byte
  sent, ended,      \* of each replica: bytes it writes before it ends, how it ended
  faults,           \* history: faults so far
  rd,               \* of each reader: where it is, bytes read, byte in hand
  space,            \* the shared buffer of each replica
  full, closed, cont, \* bytes in bufferFull, its end, bytes in continuePipe
  voter, alive, arrivals, dead, ready, \* the voter's state
  dumpPending, dumpRunning, usr1, usr2, \* its flags and pending signals
  isolators, patched, \* isolators about to run; has one run the patcher
  interrupted, printed \* history: a signal met select; the output

replicaVars == <<wrong, sent, ended, faults>>
readerVars == <<rd, space, full, closed>>
voterVars == <<voter, alive, arrivals, dead, ready, dumpPending, dumpRunning,
               interrupted, printed>>
signalVars == <<usr1, usr2, isolators, patched>>
vars == <<replicaVars, readerVars, cont, voterVars, signalVars>>

Init ==
  /\ wrong \in {{}, {1}}
  /\ sent = [i \in Replicas |-> Len(Output)] /\ ended = [i \in Replicas |-> "no"]
  /\ faults = 0
  /\ rd = [i \in Replicas |-> [pc |-> "fetch", got |-> 0, held |-> FALSE]]
  /\ space = [i \in Replicas |-> Nul]
  /\ full = [i \in Replicas |-> 0] /\ closed = {}
  /\ cont = [i \in Replicas |-> 0]
  /\ voter = "select" /\ alive = N /\ arrivals = 0 /\ dead = {} /\ ready = {}
  /\ dumpPending = FALSE /\ dumpRunning = FALSE
  /\ usr1 = FALSE /\ usr2 = FALSE
  /\ isolators = 0 /\ patched = FALSE
  /\ interrupted = FALSE /\ printed = <<>>

----------------------------------------------------------------------------
(* Replicas, their proxies and the harness *)

Byte(i, j) == IF i \in wrong /\ j = Len(Output) THEN "w" ELSE Output[j]

\* spawnExecutable ends as its program did: it exits or raises the signal.
End(i, how, bytes) ==
  /\ ended[i] = "no"
  /\ (how = "exit" /\ bytes = Len(Output)) \/ faults < MaxFaults
  /\ bytes >= rd[i].got
  /\ sent' = [sent EXCEPT ![i] = bytes]
  /\ faults' = IF how = "exit" /\ bytes = Len(Output) THEN faults ELSE faults + 1
  /\ ended' = [ended EXCEPT ![i] = how]
  /\ UNCHANGED <<wrong, readerVars, cont, voterVars, signalVars>>

\* The harness reaps a proxy that crashed; its handler tells the voter, its own
\* wait does not.
Reap(i) ==
  /\ ended[i] = "crash"
  /\ ended' = [ended EXCEPT ![i] = "reaped"]
  /\ usr1' \in {usr1, usr1 \/ voter # "exited"}
  /\ UNCHANGED <<wrong, sent, faults, readerVars, cont, voterVars, usr2,
                 isolators, patched>>

\* DieFast in a replica tells the harness, which relays it to the voter.
relayToVoter(i) ==
  /\ ended[i] = "no" /\ faults < MaxFaults /\ voter # "exited"
  /\ faults' = faults + 1
  /\ usr1' = TRUE
  /\ UNCHANGED <<wrong, sent, ended, readerVars, cont, voterVars, usr2,
                 isolators, patched>>

----------------------------------------------------------------------------
(* Readers *)

\* A byte arrives.  If the buffer holds one already, the reader signals it
\* and waits before it overwrites it.
ReadByte(i) ==
  /\ rd[i].pc = "fetch" /\ rd[i].got < sent[i]
  /\ IF rd[i].held
     THEN /\ full' = [full EXCEPT ![i] = @ + 1]
          /\ rd' = [rd EXCEPT ![i].pc = "reply", ![i].got = @ + 1]
          /\ UNCHANGED space
     ELSE /\ rd' = [rd EXCEPT ![i].got = @ + 1, ![i].held = TRUE]
          /\ space' = [space EXCEPT ![i] = Byte(i, rd[i].got + 1)]
          /\ UNCHANGED full
  /\ UNCHANGED <<replicaVars, closed, cont, voterVars, signalVars>>

\* fgetc(continueSignal): a reply, or the voter is gone.
GetReply(i) ==
  /\ rd[i].pc = "reply"
  /\ cont[i] > 0 \/ voter = "exited"
  /\ cont' = [cont EXCEPT ![i] = IF @ > 0 THEN @ - 1 ELSE 0]
  /\ space' = [space EXCEPT ![i] = Byte(i, rd[i].got)]
  /\ rd' = [rd EXCEPT ![i].pc = "fetch"]
  /\ UNCHANGED <<replicaVars, full, closed, voterVars, signalVars>>

\* The program ended: fill the buffer, signal a last time, close, exit.
ReadEOF(i) ==
  /\ rd[i].pc = "fetch"
  /\ ended[i] # "no" /\ rd[i].got = sent[i]
  /\ space' = [space EXCEPT ![i] = IF rd[i].held THEN @ ELSE Nul]
  /\ full' = [full EXCEPT ![i] = @ + 1]
  /\ closed' = closed \cup {i}
  /\ rd' = [rd EXCEPT ![i].pc = "done"]
  /\ UNCHANGED <<replicaVars, cont, voterVars, signalVars>>

----------------------------------------------------------------------------
(* The voter *)

IsReady(i) == full[i] > 0 \/ i \in closed

requestDump == usr1' = FALSE /\ dumpPending' = TRUE /\ UNCHANGED <<usr2, dumpRunning>>

dumpCompleted ==
  usr2' = FALSE /\ dumpPending' = FALSE /\ dumpRunning' = FALSE /\ UNCHANGED usr1

\* A signal is handled; when it finds the voter in select, select fails with
\* EINTR, leaves the set as it was and every open pipe counts as ready.
Interrupts == voter = "select" /\ ready = {} /\ alive > 0

TakeSignal ==
  /\ voter # "exited"
  /\ \/ usr1 /\ requestDump
     \/ usr2 /\ dumpCompleted
  /\ \/ Interrupts /\ ready' = Replicas \ dead /\ interrupted' = TRUE
     \/ UNCHANGED <<ready, interrupted>>
  /\ UNCHANGED <<replicaVars, readerVars, cont, voter, alive,
                 arrivals, dead, printed, isolators, patched>>

Select ==
  /\ voter = "select" /\ ready = {} /\ alive > 0
  /\ ready' = {i \in Replicas \ dead : IsReady(i)} /\ ready' # {}
  /\ UNCHANGED <<replicaVars, readerVars, cont, voter, alive,
                 arrivals, dead, dumpPending, dumpRunning, interrupted, printed,
                 signalVars>>

Votes(c) == Cardinality({i \in Replicas : space[i] = c})
Values == {space[i] : i \in Replicas}
Agreed == Max({Votes(c) : c \in Values})
mostCommonElement == space[Min({i \in Replicas : Votes(space[i]) = Agreed})]

QuorumOne == 1
Quorum == 2

BarrierHalf(a) == 2 * a >= alive
BarrierReached(a) == a >= alive

\* An X for every reader, also for those that are gone.
WakeLast == [cont EXCEPT ![Min(ready)] = @ + 1]
WakeReaders == [j \in Replicas |-> cont[j] + 1]

\* handleInput: at the barrier, start an isolator if one was requested, vote,
\* print, start another isolator unless all agree, and wake the readers.
Barrier ==
  LET requested == dumpPending /\ ~dumpRunning
      disagree == Agreed >= Quorum /\ Agreed < alive
  IN /\ arrivals' = 0
     /\ dumpRunning' = (dumpRunning \/ requested)
     /\ dumpPending' = (dumpPending /\ ~requested)
     /\ isolators' = isolators + (IF requested THEN 1 ELSE 0)
                               + (IF disagree THEN 1 ELSE 0)
     /\ IF Agreed < Quorum
        THEN voter' = "exited" /\ UNCHANGED <<printed, cont>>
        ELSE /\ printed' = IF mostCommonElement = Nul THEN printed
                           ELSE Append(printed, mostCommonElement)
             /\ cont' = WakeReaders
             /\ voter' = "getc"

\* The next pipe of the set counts as an arrival, the end of a pipe too.
handleInput ==
  /\ voter = "select" /\ ready # {}
  /\ IF BarrierReached(arrivals + 1)
     THEN Barrier
     ELSE /\ arrivals' = arrivals + 1 /\ voter' = "getc"
          /\ UNCHANGED <<cont, printed, dumpPending, dumpRunning, isolators>>
  /\ UNCHANGED <<replicaVars, readerVars, alive, dead, ready,
                 interrupted, usr1, usr2, patched>>

\* fgetc(bufferFull[i]), which blocks while the pipe is empty and open.
Getc ==
  LET i == Min(ready) IN
  /\ voter = "getc" /\ IsReady(i)
  /\ IF full[i] > 0
     THEN full' = [full EXCEPT ![i] = @ - 1] /\ UNCHANGED <<dead, alive>>
     ELSE dead' = dead \cup {i} /\ alive' = alive - 1 /\ UNCHANGED full
  /\ ready' = ready \ {i}
  /\ voter' = "select"
  /\ UNCHANGED <<replicaVars, rd, space, closed, cont, arrivals,
                 dumpPending, dumpRunning, interrupted, printed, signalVars>>

VoterExit ==
  /\ voter = "select" /\ ready = {} /\ alive = 0
  /\ voter' = "exited"
  /\ UNCHANGED <<replicaVars, readerVars, cont, alive, arrivals,
                 dead, ready, dumpPending, dumpRunning, interrupted, printed,
                 signalVars>>

----------------------------------------------------------------------------
(* Isolators *)

\* kill succeeds on every proxy that has not been reaped.  The answers of the
\* replicas find the static ct, which is 0, and not the local one that counts:
\* only an isolator whose kills all fail runs the patcher, the others pause
\* for ever.  The kills are made one by one and may have succeeded although
\* every proxy has ended by now, so KillsFail permits failure and forces none.
KillsFail == \A i \in Replicas : ended[i] \in {"exit", "reaped"}

isolator ==
  /\ isolators > 0
  /\ isolators' = isolators - 1
  /\ \/ KillsFail /\ patched' = TRUE /\ usr2' = (voter # "exited")
     \/ UNCHANGED <<patched, usr2>>
  /\ UNCHANGED <<replicaVars, readerVars, cont, voterVars, usr1>>

----------------------------------------------------------------------------
Next ==
  \/ \E i \in Replicas : \/ \E how \in {"exit", "crash"}, k \in 0 .. Len(Output) :
                              End(i, how, k)
                         \/ Reap(i) \/ relayToVoter(i)
                         \/ ReadByte(i) \/ GetReply(i) \/ ReadEOF(i)
  \/ TakeSignal \/ Select \/ handleInput \/ Getc \/ VoterExit
  \/ isolator

\* Every process runs when it can, and a program that does not crash ends.
Fairness ==
  /\ \A i \in Replicas : /\ WF_vars(End(i, "exit", Len(Output)))
                         /\ WF_vars(ReadByte(i) \/ GetReply(i) \/ ReadEOF(i))
  /\ WF_vars(Select \/ handleInput \/ Getc \/ VoterExit) /\ WF_vars(TakeSignal)
  /\ WF_vars(isolator)

Spec == Init /\ [][Next]_vars /\ Fairness

----------------------------------------------------------------------------
(* Properties *)

\* The type invariant; alive counts the readers whose pipe is open.
TypeOK ==
  /\ alive \in 0 .. N /\ alive = N - Cardinality(dead)
  /\ arrivals \in 0 .. N /\ ready \subseteq Replicas \ dead
  /\ \A i \in Replicas : full[i] \in 0 .. Len(Output) + 1 /\ cont[i] \in Nat
  /\ isolators \in Nat

\* A replica that errs alone cannot get its own byte printed: the vote of
\* handleInput needs two equal buffers, whoever ended before.
OutputVouched == \A k \in DOMAIN printed : printed[k] # "w"

\* Without faults the votes are aligned with the output: the k-th vote prints
\* the k-th byte, as no reader overwrites its buffer before the vote.  The ends
\* of the pipes count as arrivals too, so that the last byte may come again.
\* This is so of up to three replicas: of four, two may end while the other two
\* still show the byte before the last, which is then printed in its place.
InStep ==
  /\ TypeOK
  /\ faults = 0 => \A k \in DOMAIN printed : printed[k] = Output[Min({k, Len(Output)})]

\* The voter leaves unless a signal interrupted its select: no reader waits
\* for a reply that never comes, replicas that end early included.
VoterLeaves == <>(voter = "exited" \/ interrupted)
=============================================================================
