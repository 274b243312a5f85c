----------------------------- MODULE MCTaskMgr -----------------------------
(* Instances of TaskMgr for TLC: the four boot tasks and up to two more.   *)
EXTENDS TaskMgrInv, TLC
CONSTANTS kernel, reaper, meminsp, launcher, t1, t2

AppSymmetry == Permutations(Tcb \ Boot)

(* At most one kind of race has happened.                                  *)
Few == Cardinality(raced) <= 1
=============================================================================
