----------------------------- MODULE MCPatcher -----------------------------
EXTENDS Patcher

Bin(a) == [lib |-> FALSE, pc |-> a]
Lib(a) == [lib |-> TRUE, pc |-> a]

Direct == <<Bin(1), Lib(2)>>
InLibrary == <<Lib(3), Bin(1), Bin(3)>>
MCLocations == {Direct, InLibrary}
MCFreeLocation == <<Bin(2)>>
MCContentAt == [l \in MCLocations |-> IF l = Direct THEN "pointer" ELSE "lib"]
MCSureStatic == {<<h, 0>> : h \in 4 .. 9}
MCSchedules == {<<4>>, <<2, 2>>}
=============================================================================
