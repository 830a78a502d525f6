----------------------------- MODULE ExtHarness -----------------------------
(***************************************************************************)
(* The two harnesses of Exterminator: diehard (replicated execution) and   *)
(* dieinject (a first run that dumps a heap image, then N runs up to the   *)
(* same allocation).  Both fork for every replica a proxy that runs the    *)
(* program and a reader of its output, and then the voter; both count the  *)
(* replicas in a handler of SIGCHLD that reaps ONE child with wait, while  *)
(* main itself reaps children with wait once its input is over.            *)
(*                                                                         *)
(* A child's end makes SIGCHLD pending; SIGCHLD is not queued and is       *)
(* blocked in its handler.  When the children end is up to them: proxies   *)
(* at any time, a reader when the output it reads is closed or the voter   *)
(* is gone, the voter when no reader is left or when it is killed.         *)
(***************************************************************************)
EXTENDS Naturals, FiniteSets

CONSTANT N      \* NUMBER_OF_REPLICAS, at least two

Replicas == 1..N
Proxy(i) == <<"proxy", i>>
Reader(i) == <<"reader", i>>
Voter == <<"voter", 0>>
Proxies == {Proxy(i) : i \in Replicas}
Readers == {Reader(i) : i \in Replicas}

VARIABLES
  mode,         \* "diehard" or "dieinject"
  pc, k,        \* where main is, and the index of its loop
  over,         \* "no", "handler", "main", or "relay": it only relays SIGUSR1
  executablePid, \* the proxies whose pid has been stored
  voterPid,     \* voterPid # 0
  replicasAlive, \* ReplicasAliveNow
  handling,     \* the handler of SIGCHLD runs (SIGCHLD is blocked)
  sigchld,      \* SIGCHLD is pending
  running,      \* the children that run
  zombies,      \* the ones that ended and were not reaped
  uncounted,    \* proxies reaped by someone other than the counting handler
  patched       \* create_patch has run

vars == <<mode, pc, k, over, executablePid, voterPid, replicasAlive, handling,
          sigchld, running, zombies, uncounted, patched>>
mainVars == <<pc, k>>
countVars == <<executablePid, voterPid, replicasAlive>>
childVars == <<sigchld, running, zombies, uncounted>>

children == running \cup zombies

Init ==
  /\ mode \in {"diehard", "dieinject"}
  /\ pc = (IF mode = "dieinject" THEN "first" ELSE "fork") /\ k = 1
  /\ over = "no" /\ executablePid = {} /\ voterPid = FALSE /\ replicasAlive = N
  /\ handling = FALSE /\ sigchld = FALSE /\ running = {} /\ zombies = {}
  /\ uncounted = {} /\ patched = FALSE

\* main runs when no handler interrupts it.
MainRuns == over = "no" /\ ~handling

\* dieinject runs the program once; if that dumped no image it is done.
FirstRun ==
  /\ pc = "first" /\ MainRuns
  /\ \/ pc' = "fork" /\ over' = over
     \/ pc' = pc /\ over' = "main"
  /\ UNCHANGED <<mode, k, countVars, handling, childVars, patched>>

\* fork returns in the parent; the pid is stored by a later instruction, and
\* a signal may be handled in between.
Fork(c, next) ==
  /\ MainRuns
  /\ running' = running \cup {c} /\ pc' = next
  /\ UNCHANGED <<mode, k, over, countVars, handling, sigchld, zombies,
                 uncounted, patched>>

ForkProxy == pc = "fork" /\ Fork(Proxy(k), "store")

StoreProxy ==
  /\ pc = "store" /\ MainRuns
  /\ executablePid' = executablePid \cup {Proxy(k)} /\ pc' = "reader"
  /\ UNCHANGED <<mode, k, over, voterPid, replicasAlive, handling, childVars,
                 patched>>

\* The reader's pid is kept in a local array nobody reads.
ForkReader ==
  /\ pc = "reader" /\ MainRuns
  /\ running' = running \cup {Reader(k)}
  /\ IF k < N THEN pc' = "fork" /\ k' = k + 1 ELSE pc' = "voter" /\ k' = k
  /\ UNCHANGED <<mode, over, countVars, handling, sigchld, zombies, uncounted,
                 patched>>

ForkVoter == pc = "voter" /\ Fork(Voter, "storevoter")

\* In dieinject voterPid is a local variable the handler does not know.
StoreVoter ==
  /\ pc = "storevoter" /\ MainRuns
  /\ voterPid' = (mode = "diehard") /\ pc' = "input"
  /\ UNCHANGED <<mode, k, over, executablePid, replicasAlive, handling,
                 childVars, patched>>

\* The broadcast of stdin ends; main then calls wait 2 * N times.
WaitsHalf == N
Waits == 2 * N
InputEnds ==
  /\ pc = "input" /\ MainRuns
  /\ pc' = "wait" /\ k' = 1
  /\ UNCHANGED <<mode, over, countVars, handling, childVars, patched>>

MainWait ==
  /\ pc = "wait" /\ MainRuns
  /\ \/ \E z \in zombies : /\ zombies' = zombies \ {z}
                           /\ uncounted' = uncounted \cup ({z} \cap Proxies)
     \/ children = {} /\ UNCHANGED <<zombies, uncounted>>
  /\ k' = k + 1
  /\ over' = IF k = Waits THEN "main" ELSE over
  /\ UNCHANGED <<mode, pc, countVars, handling, sigchld, running, patched>>

----------------------------------------------------------------------------
(* The handler of SIGCHLD *)

Signalled ==
  /\ sigchld /\ MainRuns
  /\ sigchld' = FALSE /\ handling' = TRUE
  /\ UNCHANGED <<mode, mainVars, over, countVars, running, zombies, uncounted,
                 patched>>

IsReplica(z) == z \in executablePid

\* diehard is done when the voter and all replicas are, dieinject when all
\* replicas are.
DoneEither(vp, left) == left = 0
Done(vp, left) == left = 0 /\ (mode = "diehard" => ~vp)

\* kill(0, SIGUSR1) signals the harness itself, whose handler relays it by the
\* same kill(0, SIGUSR1): it does nothing else any more.
RelaysForEver == over' = "relay"

handleChildCrash ==
  /\ handling /\ over = "no"
  /\ handling' = FALSE
  /\ \/ /\ children = {}                      \* ECHILD
        /\ UNCHANGED <<over, voterPid, replicasAlive, zombies, uncounted, patched>>
     \/ \E z \in zombies, crashed \in BOOLEAN :
          LET vp == voterPid /\ z # Voter
              left == IF IsReplica(z) THEN replicasAlive - 1 ELSE replicasAlive
          IN /\ zombies' = zombies \ {z}
             /\ voterPid' = vp
             /\ uncounted' = IF IsReplica(z) THEN uncounted
                             ELSE uncounted \cup ({z} \cap Proxies)
             /\ IF mode = "diehard" /\ IsReplica(z) /\ crashed /\ ~vp
                THEN RelaysForEver /\ UNCHANGED <<replicasAlive, patched>>
                ELSE /\ replicasAlive' = left
                     /\ IF Done(vp, left) /\ (mode = "dieinject" => IsReplica(z))
                        THEN over' = "handler" /\ patched' = (mode = "dieinject")
                        ELSE UNCHANGED <<over, patched>>
  /\ UNCHANGED <<mode, mainVars, executablePid, sigchld, running>>

\* libdiefast of a replica found an error and sends SIGUSR1 to the harness,
\* which relays it to the voter.
relayToVoter ==
  /\ mode = "diehard" /\ over = "no" /\ running \cap Proxies # {} /\ ~voterPid
  /\ RelaysForEver
  /\ UNCHANGED <<mode, mainVars, countVars, handling, childVars, patched>>

----------------------------------------------------------------------------
(* The children *)

MayEnd(c) ==
  \/ c \in Proxies \cup {Voter}
  \/ Proxy(c[2]) \notin running
  \/ pc \in {"input", "wait"} /\ Voter \notin running

End ==
  \E c \in running :
    /\ MayEnd(c)
    /\ running' = running \ {c} /\ zombies' = zombies \cup {c}
    /\ sigchld' = TRUE
    /\ UNCHANGED <<mode, mainVars, over, countVars, handling, uncounted, patched>>

Next ==
  \/ FirstRun \/ ForkProxy \/ StoreProxy \/ ForkReader \/ ForkVoter \/ StoreVoter
  \/ InputEnds \/ MainWait \/ Signalled \/ handleChildCrash \/ relayToVoter \/ End

Spec == Init /\ [][Next]_vars

----------------------------------------------------------------------------
\* The handler of diehard ends the harness only when the voter, which prints
\* the program's output, has ended (a voter whose pid is not stored yet cannot
\* be known to it), and the patcher of dieinject is started only when no
\* replica can still be writing its heap image.
EndsAfterAll ==
  /\ over = "handler" /\ mode = "diehard" /\ pc # "storevoter" => Voter \notin children
  /\ patched => Proxies \cap children = {} /\ executablePid = Proxies

\* When dieinject ends after the replicas ran, the patcher has been run, unless
\* a replica's end was reaped by main's own wait or before its pid was stored.
PatchMade ==
  over \in {"handler", "main"} /\ mode = "dieinject" /\ pc # "first" =>
    patched \/ uncounted # {}
=============================================================================
