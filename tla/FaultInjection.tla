---------------------------- MODULE FaultInjection ----------------------------
(***************************************************************************)
(* The fault injectors of util/ and exterminator/src/util/.  A first run   *)
(* with libtrackalloc logs when each object is allocated and freed; sortlog *)
(* sorts the log; a second run of the same program with libbrokenmalloc or *)
(* libdetfaults reads it as an oracle and frees objects before their time  *)
(* or makes them smaller than the program asked for.                       *)
(*                                                                         *)
(* Objects are named by their allocation time.  The program is the trace   *)
(* of its calls, which both runs make.  The C library's heap (external)    *)
(* gives any address that it has not given out; libtrackalloc never calls  *)
(* its free.  The coins of the random number generator are choices.        *)
(***************************************************************************)
EXTENDS Integers, Sequences, FiniteSets, SequencesExt

CONSTANTS
  Libraries,     \* "broken", "det", and "old": the copy in util/
  Addresses,     \* bound: addresses of the C library's heap
  MaxMallocs,    \* bound: allocations of the program
  Distance,      \* INJECTED_DANGLING_DISTANCE
  Sites          \* bound: call sites of malloc

VARIABLES
  lib, phase,
  trace,          \* the calls of the program
  time,           \* currentAllocationTime
  theMap, log,    \* libtrackalloc: the objects not freed, the log
  pos,            \* the next call of the second run
  allocated,      \* allocatedObjects: allocation time to address
  liveObjects,    \* the addresses the injector believes allocated
  real,           \* the addresses the C library's heap has given out
  oraclePosition,
  injected, site, \* the counter and the call site of the short objects
  dangled, short  \* history: <<object, when>> freed early, objects made short

vars == <<lib, phase, trace, time, theMap, log, pos, allocated, liveObjects,
          real, oraclePosition, injected, site, dangled, short>>

Init ==
  /\ lib \in Libraries /\ phase = "track"
  /\ trace = <<>> /\ time = 0 /\ theMap = {} /\ log = <<>>
  /\ pos = 1 /\ allocated = <<>> /\ liveObjects = {} /\ real = {}
  /\ oraclePosition = 1 /\ injected = 0 /\ site = 0
  /\ dangled = {} /\ short = {}

trackVars == <<lib, pos, allocated, liveObjects, real, oraclePosition, injected,
               site, dangled, short>>

-----------------------------------------------------------------------------
(* libtrackalloc and sortlog *)

TrackMalloc(s) ==
  /\ phase = "track" /\ time < MaxMallocs
  /\ trace' = Append(trace, [op |-> "malloc", site |-> s])
  /\ theMap' = theMap \cup {time}
  /\ time' = time + 1
  /\ UNCHANGED <<phase, log, trackVars>>

TrackFree(k) ==
  /\ phase = "track" /\ k \in theMap
  /\ trace' = Append(trace, [op |-> "free", object |-> k])
  /\ log' = Append(log, [freed |-> time, allocated |-> k])
  /\ theMap' = theMap \ {k}
  /\ UNCHANGED <<phase, time, trackVars>>

byAllocation(r1, r2) == r1.allocated < r2.allocated

\* The library's qsort: the same records, in order.  No object is freed twice, so
\* that no two records compare equal.
qsort(records) ==
  CHOOSE s \in [DOMAIN records -> Range(records)] :
    /\ Range(s) = Range(records)
    /\ \A i, j \in DOMAIN s : i < j => byAllocation(s[i], s[j])

\* The first run ends; the log is sorted, and by its new name is the oracle.
sortlog ==
  /\ phase = "track"
  /\ phase' = "inject"
  /\ log' = qsort(log)
  /\ time' = 0
  /\ UNCHANGED <<trace, theMap, trackVars>>

-----------------------------------------------------------------------------
(* The injectors *)

\* Which objects get less than they asked for: those the coin chooses until one
\* got short (libbrokenmalloc), and those of a chosen call site (libdetfaults).
\* Only a short object of a smaller size class is counted.
Shortens(s, coin) ==
  \/ injected = 0 /\ coin
  \/ lib = "det" /\ s = site

\* The records from the current position on of objects that are older than
\* this one, which the loop of malloc passes now.
Passed == {i \in oraclePosition .. Len(log) :
             \A j \in oraclePosition .. i : log[j].allocated < time}

\* Those it may free in the copy in util/: to be freed within the distance,
\* address in use (the one malloc is about to return included).
CandidatesOld(now) ==
  {i \in Passed : /\ time + Distance >= log[i].freed
                  /\ now[log[i].allocated + 1] \in liveObjects \cup {Last(now)}}

\* The others ask too that the program has not freed it before.
Candidates(now) ==
  {i \in CandidatesOld(now) : lib # "old" => log[i].freed - time > 0}

InjectMalloc(address, coin) ==
  LET call == trace[pos]
      now == Append(allocated, address)
  IN
  /\ phase = "inject" /\ pos <= Len(trace) /\ call.op = "malloc"
  /\ address \notin real
  /\ allocated' = now
  /\ short' = IF Shortens(call.site, coin) THEN short \cup {time} ELSE short
  /\ site' = IF injected = 0 /\ coin THEN call.site ELSE site
  /\ injected' \in IF lib = "broken" /\ Shortens(call.site, coin)
                    THEN {injected, injected + 1} ELSE {injected}
  /\ \E chosen \in SUBSET Candidates(now) :
       LET gone == {now[log[i].allocated + 1] : i \in chosen} IN
       /\ real' = (real \cup {address}) \ gone
       /\ liveObjects' = (liveObjects \cup {address}) \ gone
       /\ dangled' = dangled \cup {<<log[i].allocated, time>> : i \in chosen}
  /\ oraclePosition' = oraclePosition + Cardinality(Passed)
  /\ time' = time + 1 /\ pos' = pos + 1
  /\ UNCHANGED <<lib, phase, trace, theMap, log>>

Gone(address) == address \notin liveObjects

\* free of an object: nothing if its address was freed early.
InjectFree ==
  LET address == allocated[trace[pos].object + 1] IN
  /\ phase = "inject" /\ pos <= Len(trace) /\ trace[pos].op = "free"
  /\ IF Gone(address) THEN UNCHANGED <<liveObjects, real>>
     ELSE /\ liveObjects' = liveObjects \ {address}
          /\ real' = IF address \in real THEN real \ {address} ELSE real \cup {"corrupt"}
  /\ pos' = pos + 1
  /\ UNCHANGED <<lib, phase, trace, time, theMap, log, allocated, oraclePosition,
                 injected, site, dangled, short>>

Next ==
  \/ \E s \in Sites : TrackMalloc(s)
  \/ \E k \in theMap : TrackFree(k)
  \/ sortlog
  \/ \E a \in Addresses, coin \in BOOLEAN : InjectMalloc(a, coin)
  \/ InjectFree

Spec == Init /\ [][Next]_vars

-----------------------------------------------------------------------------
(* Properties *)

\* The objects of the second run that the program has allocated and not freed.
FreedByProgram == {trace[j].object : j \in {j \in 1 .. pos - 1 : trace[j].op = "free"}}
Held == {k \in 0 .. Len(allocated) - 1 : k \notin FreedByProgram}
DangledObjects == {d[1] : d \in dangled}

\* An object that is freed early is one that the program still holds, whose own
\* free comes within the distance: the time of the oracle and the order of the
\* records agree with the second run (the copy in util/ may free the object
\* that got the address of a freed one).  Nothing is freed twice, and nothing
\* else is lost: an object that the program holds and that was not freed early
\* keeps its memory, unless its address was that of one that was.
InjectedAsPlanned ==
  /\ "corrupt" \notin real
  /\ lib # "old" =>
       /\ \A d \in dangled : \E i \in DOMAIN log :
            log[i].allocated = d[1] /\ log[i].freed \in d[2] + 1 .. d[2] + Distance
       /\ \A k \in Held \ DangledObjects :
            \/ allocated[k + 1] \in real
            \/ \E d \in DangledObjects : allocated[d + 1] = allocated[k + 1]
=============================================================================
