---------------------------- MODULE MCHeapCalls -----------------------------
(***************************************************************************)
(* What boot made and a program that has exited (old); the task that       *)
(* starts another, and that other with its window, for which two pages are *)
(* missing.  Sizes are small.                                              *)
(***************************************************************************)
EXTENDS HeapCallsInv, TLC
CONSTANTS old, parent, child

malloc(role, size) == [op |-> "malloc", role |-> role, size |-> size]
free(role) == [op |-> "free", role |-> role]
SpawnTask == << malloc("tcb", 1), malloc("stack", 3) >>
Window(vault) == << malloc("win", 1), malloc("vault", vault), free("vault"), free("win") >>
Boot == << malloc("kernel", 1) >>
Scripts == (old :> Boot \o SpawnTask \o Window(2)) @@ (parent :> SpawnTask)
           @@ (child :> Window(19))
=============================================================================
