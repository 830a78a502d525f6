-------------------------------- MODULE Parts --------------------------------
(***************************************************************************)
(* Components that use no other and that no other uses: the table of       *)
(* LargeHeap, the pages that RandomMmap hands out, the bins that           *)
(* ShuffleHeap puts over a heap, the processes of Exterminator's harness,  *)
(* the fault injectors and the heap of their containers.  They share no    *)
(* state; this module names their properties, for the model checker, which *)
(* runs one of them at a time, and for the proofs, which take them for all *)
(* constants.                                                              *)
(***************************************************************************)
EXTENDS Integers

CONSTANTS
  Threads, None, LargestRequest, PAGES,                          \* LargeHeap
  Mappers, Nobody, PageBytes, RegionPages, WORDBITS, Bytes,      \* RandomMmap
  ChunkSize, MaxBinned, ClassSizes, Copies,                      \* ShuffleHeap
  N,                                                             \* ExtHarness
  Libraries, Addresses, MaxMallocs, Distance, Sites,             \* FaultInjection
  NUMBINS, ChunkBytes, Header, NodeSizes, MaxObjects, MaxHeld    \* KingsleyHeap

ASSUME LargeHeapAssumption ==
  /\ LargestRequest \in Nat \ {0}
  /\ PAGES \in Nat /\ PAGES > LargestRequest
  /\ None \notin Threads

VARIABLES
  mapped, table, mutex, largePc, base, req, largeLive,  \* LargeHeap
  word, holder, asked, open, runs,       \* RandomMmap
  buffer, filled, taken, held, crashed,  \* ShuffleHeap
  mode, harnessPc, k, over, executablePid, voterPid, replicasAlive, handling,
  sigchld, running, zombies, uncounted, patched,  \* ExtHarness
  lib, phase, trace, time, theMap, log, pos, allocated, liveObjects, real,
  oraclePosition, injected, site, dangled, short,  \* FaultInjection
  layer, bump, remaining, mappedBytes, headers, myFreeList, binmap, memoryHeld,
  askedFor                               \* KingsleyHeap

largeVars == <<mapped, table, mutex, largePc, base, req, largeLive>>
mmapVars == <<word, holder, asked, open, runs>>
shuffleVars == <<buffer, filled, taken, held, crashed>>
harnessVars == <<mode, harnessPc, k, over, executablePid, voterPid, replicasAlive,
                 handling, sigchld, running, zombies, uncounted, patched>>
faultVars == <<lib, phase, trace, time, theMap, log, pos, allocated, liveObjects,
               real, oraclePosition, injected, site, dangled, short>>
kingsleyVars == <<layer, bump, remaining, mappedBytes, headers, myFreeList, binmap,
                  memoryHeld, askedFor>>

Large == INSTANCE LargeHeap WITH MaxSize <- LargestRequest, pc <- largePc, live <- largeLive
Mmap == INSTANCE RandomMmap WITH PAGES <- RegionPages
Shuffle == INSTANCE ShuffleHeap
Harness == INSTANCE ExtHarness WITH pc <- harnessPc
Faults == INSTANCE FaultInjection
Kingsley == INSTANCE KingsleyHeap WITH
              Requests <- NodeSizes, mapped <- mappedBytes, sz <- headers, asked <- askedFor

\* LargeHeap: no page belongs to two objects and none is leaked.
PagesExclusive == Large!PagesExclusive
\* LargeHeap: the table agrees with the objects whenever the mutex is free.
TableExact == Large!TableExact
\* RandomMmap: the runs, the bitmap and the page protection agree.
RunsExclusive == Mmap!RunsExclusive
\* ShuffleHeap: no swap loses or duplicates an object.
NothingLost == Shuffle!NothingLost
\* Exterminator's harness outlives the voter and the replicas it counts.
EndsAfterAll == Harness!EndsAfterAll
\* dieinject ends with a patch unless a replica's end was not counted.
PatchMade == Harness!PatchMade
\* The fault injectors free early what the oracle says, and nothing else.
InjectedAsPlanned == Faults!InjectedAsPlanned
\* KingsleyHeap: an object is as large as asked and in one place.
NodesFit == Kingsley!NodesFit
=============================================================================
