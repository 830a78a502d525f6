------------------------------- MODULE MCParts -------------------------------
(***************************************************************************)
(* The components that share no state with one another, side by side: the  *)
(* first state chooses one of them, which alone then runs.  This is a sum  *)
(* and not a product: the state space is the sum of theirs.                *)
(***************************************************************************)
EXTENDS DieHarder, Parts, TLC

VARIABLE part

partsVars == <<part, vars, largeVars, mmapVars, shuffleVars, faultVars, harnessVars,
               kingsleyVars>>

PartsInit ==
  /\ part \in {"large", "dieharder", "mmap", "shuffle", "faults", "harness",
              "kingsley"}
  /\ Init /\ Large!Init /\ Mmap!Init /\ Shuffle!Init /\ Faults!Init /\ Harness!Init
  /\ Kingsley!Init
  /\ part # "faults" => lib = "det"
  /\ part # "harness" => mode = "diehard"
  /\ part # "kingsley" => layer = "SegHeap"

LargeHeapStep ==
  /\ part = "large" /\ Large!Next
  /\ UNCHANGED <<part, vars, mmapVars, shuffleVars, faultVars, harnessVars, kingsleyVars>>
DieHarderStep ==
  /\ part = "dieharder" /\ Next
  /\ UNCHANGED <<part, largeVars, mmapVars, shuffleVars, faultVars, harnessVars, kingsleyVars>>
RandomMmapStep ==
  /\ part = "mmap" /\ Mmap!Next
  /\ UNCHANGED <<part, vars, largeVars, shuffleVars, faultVars, harnessVars, kingsleyVars>>
ShuffleHeapStep ==
  /\ part = "shuffle" /\ Shuffle!Next
  /\ UNCHANGED <<part, vars, largeVars, mmapVars, faultVars, harnessVars, kingsleyVars>>
FaultInjectionStep ==
  /\ part = "faults" /\ Faults!Next
  /\ UNCHANGED <<part, vars, largeVars, mmapVars, shuffleVars, harnessVars, kingsleyVars>>
ExtHarnessStep ==
  /\ part = "harness" /\ Harness!Next
  /\ UNCHANGED <<part, vars, largeVars, mmapVars, shuffleVars, faultVars, kingsleyVars>>

KingsleyHeapStep ==
  /\ part = "kingsley" /\ Kingsley!Next
  /\ UNCHANGED <<part, vars, largeVars, mmapVars, shuffleVars, faultVars,
                 harnessVars>>

PartsNext ==
  \/ LargeHeapStep \/ DieHarderStep \/ RandomMmapStep
  \/ ShuffleHeapStep \/ FaultInjectionStep \/ ExtHarnessStep
  \/ KingsleyHeapStep

PartsSpec == PartsInit /\ [][PartsNext]_partsVars

Sym == Permutations(Threads)
=============================================================================
