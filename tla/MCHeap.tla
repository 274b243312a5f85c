------------------------------- MODULE MCHeap -------------------------------
(* The heap with the sizes of the code.                                    *)
EXTENDS HeapInv
CONSTANTS s1, s2, s3,
    MaxLate         \* bound on the programs started once reaper has been late

(* width * height * 3 of the windows of shell, ted, test and test1.        *)
Vaults == [p \in {"shell", "ted", "test", "test1"} |->
             CASE p = "test" -> 11250 [] p = "test1" -> 1200 [] OTHER -> 22500]
(* A point that all their windows cover, and one of MEM_INSP under ted.    *)
Points == ("middle" :> "desktop") @@ ("corner" :> "MEM_INSP")
Areas == [p \in DOMAIN Vaults |-> IF p = "ted" THEN {"middle", "corner"} ELSE {"middle"}]
SlotSymmetry == Permutations(Slot)

(* At the bound no shell runs: the merge through a stale prev comes up     *)
(* with the programs of test.                                              *)
FewLate ==
    /\ late <= MaxLate
    /\ late = MaxLate => \A i \in DOMAIN running : running[i].prog \in {"test", "test1"}
=============================================================================
