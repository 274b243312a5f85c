------------------------------ MODULE MCPaging ------------------------------
(* The heap grows by tasks that may preempt each other in sbrk.            *)
EXTENDS Paging, TLC
CONSTANTS t1, t2

(* Bounds: once both tasks have been in sbrk at a time they are followed   *)
(* for the first three pages of the heap, later only until one of them     *)
(* leaves it, and until the pointer is three below the array.              *)
Followed ==
    /\ overlapped => heap_current < 3 \/ \A t \in Task : pc[t] # "out"
    /\ stack_pointer >= -2
TaskSymmetry == Permutations(Task)
=============================================================================
