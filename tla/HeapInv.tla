------------------------------- MODULE HeapInv ------------------------------
(* The inductive invariant of Heap, by which its blocks tile the heap.     *)
EXTENDS Heap

(* Nothing is said of heap_tail, nor of any prev: they may be stale, and   *)
(* so may headers that are not in Blocks any more.                         *)
Headed ==
    /\ DOMAIN hdr \in SUBSET Nat /\ IsFiniteSet(DOMAIN hdr)
    /\ hdr \in [DOMAIN hdr -> Header]
    /\ heap_current \in Nat
Sound ==
    /\ Headed
    /\ Blocks \subseteq DOMAIN hdr /\ IsTiling(hdr, heap_current, Blocks)
    /\ heap_pointer \in Blocks
    /\ GivenOut(hdr, Blocks, live)

-----------------------------------------------------------------------------
(* The calls to come.                                                      *)
Role == {"tcb", "stack", "win", "vault"}
Owner == Slot \cup {"boot"}
HeapCall ==
         [op : {"malloc"}, task : Owner, role : Role, size : Nat]
    \cup [op : {"free"}, task : Slot, role : Role]
    \cup [op : {"link"}, task : Owner, prog : Program]
    \cup [op : {"unlink"}, task : Owner]

Has(t, role) == \E m \in live : m.task = t /\ m.role = role
Coming(op, t, role) ==
    \E k \in DOMAIN todo : todo[k].op = op /\ todo[k].task = t /\ todo[k].role = role

Typed ==
    /\ todo \in Seq(HeapCall)
    /\ running \in Seq([task : Slot, prog : Program])
    /\ dead \in SUBSET Slot

(* What is freed was allocated, and each call of my_free is for another    *)
(* block.                                                                  *)
FreedOnce ==
    \A k \in DOMAIN todo : todo[k].op = "free" =>
        /\ Has(todo[k].task, todo[k].role)
        /\ \A j \in DOMAIN todo :
             /\ todo[j].op = "free"
             /\ todo[j].task = todo[k].task /\ todo[j].role = todo[k].role
             => j = k

(* The stack and the TCB of a task are there until reaper comes, ...       *)
Unreaped ==
    \A t \in dead : \A role \in {"stack", "tcb"} :
        Has(t, role) /\ ~Coming("free", t, role)

(* ... and a running program has all that it allocates, or will allocate.  *)
Furnished ==
    \A i \in DOMAIN running :
        LET t == running[i].task IN
        /\ t \notin dead
        /\ \A j \in DOMAIN running : running[j].task = t => j = i
        /\ \A role \in Role : (Has(t, role) \/ Coming("malloc", t, role)) /\ ~Coming("free", t, role)

Protocol == Typed /\ FreedOnce /\ Unreaped /\ Furnished

(* The first block goes to the first task of kernel_main, and that is for  *)
(* ever: my_free is never called for heap_start.                           *)
Founded ==
    IF live = {} THEN /\ todo # << >> /\ call.op = "malloc" /\ call.task = "boot"
                      /\ hdr # << >> => Blocks = {heap_start}
                 ELSE \E m \in live : m.addr = heap_start + 1 /\ m.task = "boot"

HeapInvariant ==
    broken = "no" => /\ Protocol /\ Founded
                     /\ IF hdr = << >> THEN live = {} ELSE Sound

-----------------------------------------------------------------------------
(* heap_tail may be stale, but all that precedes the last block ends below *)
(* it: it is in the last block, and nobody's data is there.                *)
TailInLast ==
    /\ heap_tail \in DOMAIN hdr /\ hdr[heap_tail].free
    /\ \A a \in Blocks : hdr[a].next # heap_start => End(hdr, a) <= heap_tail

(* To grow a header that is no block helps nobody: my_malloc does so again *)
(* and again.                                                              *)
Stuck ==
    /\ todo # << >> /\ call.op = "malloc" /\ call.size \in Nat /\ depth > 0
    /\ hdr # << >> /\ hdr[heap_tail] \in Header
    /\ Readable(heap_tail) /\ hdr[heap_tail].free /\ heap_tail \notin Blocks
    /\ {heap_start, heap_pointer} \subseteq Blocks /\ Blocks \subseteq DOMAIN hdr
    /\ \A a \in Blocks : hdr[a].next \in Blocks
    /\ Fits(call.size) = {}

TailInvariant ==
    /\ depth \in Nat
    /\ broken = "no" /\ hdr # << >> => TailInLast
    /\ broken = "tail" => Stuck

(* All that is known of the blocks.                                        *)
BlocksInvariant == HeapInvariant /\ TailInvariant

-----------------------------------------------------------------------------
(* The windows.  A program's is allocated once, and it is open from when   *)
(* create_window links it to close_window.                                 *)
Runs(t) == \E i \in DOMAIN running : running[i].task = t
WindowOf(w, t) == \E m \in live : m.task = t /\ m.role = "win" /\ m.addr = w

OneWindow ==
    /\ \A m, n \in live : m.role = "win" /\ n.role = "win" /\ m.task = n.task => m = n
    /\ \A m \in live : m.role = "win" => Runs(m.task) \/ Coming("free", m.task, "win")
    /\ \A k \in DOMAIN todo : todo[k].op = "malloc" /\ todo[k].role = "win" =>
         Len(todo) = k + 2 /\ Runs(todo[k].task) /\ ~Has(todo[k].task, "win")

(* Windows are closed in the opposite order: who opens one runs above.     *)
Nested ==
    /\ \A i \in DOMAIN opened \cap DOMAIN running : WindowOf(opened[i], running[i].task)
    /\ \A k \in DOMAIN todo : todo[k].op = "link" =>
         /\ Len(todo) = k /\ Len(running) = Len(opened) + 1
         /\ todo[k].task = running[Len(running)].task
    /\ \A k \in DOMAIN todo : todo[k].op = "unlink" =>
         /\ Len(todo) = k + 2 /\ Len(opened) = Len(running) + 1
         /\ todo[k + 2].op = "free" /\ todo[k + 2].role = "win" /\ todo[k + 2].task = todo[k].task
         /\ WindowOf(opened[Len(opened)], todo[k].task)
    /\ (\A k \in DOMAIN todo : todo[k].op \notin {"link", "unlink"}) => Len(opened) = Len(running)

WindowsTyped ==
    /\ DOMAIN screen = DOMAIN Desktop
    /\ window \in [DOMAIN window -> [name : Program, next : Int, prev : Int]]
    /\ bottom_window \in Int /\ top_window \in Int
    /\ opened \in Seq(DOMAIN window \cap DOMAIN vault \cap Nat)

(* The vault of each window has what was there when it was opened.         *)
Kept ==
    \A i \in DOMAIN opened :
        /\ DOMAIN vault[opened[i]] = Area[window[opened[i]].name]
        /\ \A p \in DOMAIN vault[opened[i]] : Shows(vault[opened[i]][p], p, i - 1)

WindowsInvariant == OneWindow /\ Nested /\ WindowsTyped /\ Kept /\ NothingLeft
=============================================================================
