-------------------------------- MODULE Heap --------------------------------
(***************************************************************************)
(* The kernel heap: my_malloc, my_free and sbrk of mem_mgr.c, driven by    *)
(* the calls the kernel makes: the boot tasks, and programs that are       *)
(* started, open a window, close it, exit and are reaped (task_mgr.c,      *)
(* ui.c), with the list of their windows, which lies in the heap.  Every   *)
(* call runs to its end before the next: this module is about sequences of *)
(* calls; HeapCalls is about their preemption.                             *)
(***************************************************************************)
EXTENDS HeapBlocks, Windows, FiniteSetsExt

CONSTANTS
    Boot,           \* how many tasks kernel_main creates
    Slot,           \* programs that are running or not yet reaped
    Vault,          \* the size of the vault of each program's window
    Area,           \* the points of the screen that each program's window covers
    Desktop,        \* what these points show without windows
    TCB, STACK, WINDOW,     \* 8, 256 and 5; PAGE is 256
    WIDTH,          \* 2^32 bytes: sizes are uint32_t
    MaxHeap,        \* what the heap never outgrows
    MaxDepth        \* bound: how deep my_malloc calls itself

Program == DOMAIN Vault
ASSUME SizesAssumption ==
    /\ {PAGE, TCB, STACK, WINDOW, WIDTH, MaxHeap, MaxDepth, Boot} \subseteq Nat \ {0}
    /\ \A p \in Program : Vault[p] \in Nat \ {0} /\ Area[p] \subseteq DOMAIN Desktop
ASSUME SlotAssumption == "boot" \notin Slot

VARIABLES
    todo,           \* the heap calls the operations in progress still make
    depth,          \* how often my_malloc has called itself
    running,        \* the programs that run, each started by the one before
    dead,           \* those that have exited and are not yet reaped
    late,           \* history: programs started since one was before reaper was done
    broken          \* history: what has gone wrong, see below

client == <<running, dead, late>>
vars == <<blocks, todo, depth, live, client, windows, broken>>

-----------------------------------------------------------------------------
(***************************************************************************)
(* What can go wrong:                                                      *)
(*   tail   the heap grew behind a heap_tail that is no block any more     *)
(*   prev   a freed block was merged into one that is not just before it   *)
(*   link   a link of a closed window, whose memory has other uses by then *)
(*          or holds a block header, was written                           *)
(* After the last two, what the code reads and overwrites is anybody's     *)
(* guess; the model stops there.                                           *)
(***************************************************************************)
Works == broken \in {"no", "tail"}

(* How far from heap_pointer my_malloc finds a block that fits size.       *)
Visited == Chain(hdr, heap_pointer)
Fits(size) == {k \in 0 .. Cardinality(DOMAIN hdr) : Fit(Visited[k], size)}

malloc(t, role, size) == [op |-> "malloc", task |-> t, role |-> role, size |-> size]
free(t, role) == [op |-> "free", task |-> t, role |-> role]
link_window(t, p) == [op |-> "link", task |-> t, prog |-> p]
unlink_window(t) == [op |-> "unlink", task |-> t]
call == Head(todo)
Calls(op) == Works /\ todo # << >> /\ call.op = op

-----------------------------------------------------------------------------
Init ==
    /\ NoHeap(NULL)
    /\ todo = [k \in 1 .. 2 * Boot |-> IF k % 2 = 1 THEN malloc("boot", "tcb", TCB)
                                                  ELSE malloc("boot", "stack", STACK)]
    /\ depth = 0
    /\ InitWindows(Desktop)
    /\ running = << >> /\ dead = {} /\ late = 0 /\ broken = "no"

FirstPage ==
    /\ Calls("malloc") /\ FirstBlock
    /\ UNCHANGED <<todo, depth, live, client, windows, broken>>

(* The first block that fits is split, even if nothing remains of it.      *)
Allocate ==
    LET curr == Visited[Min(Fits(call.size))]
        new == curr + 1 + call.size
    IN  /\ Calls("malloc") /\ hdr # << >> /\ Fits(call.size) # {}
        /\ hdr' = Put([hdr EXCEPT ![curr] = Taken(curr, call.size)], new, Rest(curr, call.size))
        /\ heap_tail' = TailAfter(curr, new)
        /\ heap_pointer' = new
        /\ live' = live \cup {[task |-> call.task, role |-> call.role,
                               addr |-> curr + 1, size |-> call.size]}
        /\ todo' = Tail(todo) /\ depth' = 0
        /\ UNCHANGED <<heap_current, client, windows, broken>>

(* No block fits.  heap_tail grows by the pages that are missing, counted  *)
(* in unsigned integers; then my_malloc calls itself.  The code has a      *)
(* branch for a heap_tail that is not free: TailUsable says that it is     *)
(* never taken.                                                            *)
Expanding == Calls("malloc") /\ hdr # << >> /\ Fits(call.size) = {}

Expand ==
    LET pages == (((call.size - hdr[heap_tail].size) + PAGE - 1) % WIDTH) \div PAGE
    IN  /\ Expanding /\ depth < MaxDepth
        /\ hdr' = [hdr EXCEPT ![heap_tail].size = @ + pages * PAGE]
        /\ heap_current' = heap_current + pages * PAGE
        /\ broken' = IF heap_tail \in Blocks /\ hdr[heap_tail].next = heap_start
                      THEN broken ELSE "tail"
        /\ depth' = depth + 1
        /\ UNCHANGED <<heap_tail, heap_pointer, todo, live, client, windows>>

(* my_free merges the block with a free successor, then with a free prev.  *)
Free ==
    LET used == The(call.role, call.task)
        block == used.addr - 1
        freed == [hdr EXCEPT ![block].free = TRUE]
        forward == MergesNext(freed, block)
        h == IF forward THEN Absorb(freed, block, hdr[block].next) ELSE freed
        p == h[block].prev
    IN  /\ Calls("free")
        /\ live' = live \ {used}
        /\ \E back \in BOOLEAN :
             /\ Readable(p) => back = MergesPrev(h, block)
             /\ p = heap_tail => ~back
             /\ hdr' = IF back THEN Absorb(h, p, block) ELSE h
             /\ heap_pointer' = IF back THEN p ELSE IF forward THEN block ELSE heap_pointer
             /\ broken' = IF back /\ (p \notin Blocks \/ hdr[p].next # block)
                            THEN "prev" ELSE broken
        /\ todo' = Tail(todo)
        /\ UNCHANGED <<heap_tail, heap_current, depth, client, windows>>

Window == The("win", call.task).addr

(* The last unit of a Window_t holds its links.                            *)
HoldsData(unit) ==
    unit \in Blocks \/ \E m \in live : unit \in m.addr .. m.addr + m.size - 1

Links(touched) ==
    /\ broken' = IF \A w \in touched : IsOpen(w) \/ w = Window \/ ~HoldsData(w + WINDOW - 1)
                   THEN broken ELSE "link"
    /\ todo' = Tail(todo)
    /\ UNCHANGED <<blocks, depth, live, client>>

LinkWindow ==
    /\ Calls("link")
    /\ open_window(Window, call.prog, Area[call.prog])
    /\ Links(Touched(Window))

UnlinkWindow == Calls("unlink") /\ close_window(Window) /\ Links(Joined(Window))

(* The task that shows MEM_INSP draws over whatever window is there.       *)
display_heap_data ==
    /\ Works
    /\ Draw({p \in DOMAIN Desktop : Desktop[p] = "MEM_INSP"}, "MEM_INSP")
    /\ UNCHANGED <<blocks, todo, depth, live, client, broken,
                   bottom_window, top_window, window, vault, opened>>

-----------------------------------------------------------------------------
(* The kernel.  launcher starts shell or test, shell ted, test test1; who  *)
(* starts a program is blocked until it exits.                             *)
Starts(p) == IF running = << >> THEN p \in {"shell", "test"}
             ELSE <<running[Len(running)].prog, p>> \in {<<"shell", "ted">>, <<"test", "test1">>}

(* SpawnTask allocates the TCB and the stack, and the program its window.  *)
Start(p, t) ==
    /\ Works /\ todo = << >>
    /\ Starts(p)
    /\ \A i \in DOMAIN running : running[i].task # t
    /\ t \notin dead
    /\ running' = Append(running, [task |-> t, prog |-> p])
    /\ late' = IF late = 0 /\ dead = {} THEN 0 ELSE late + 1
    /\ todo' = << malloc(t, "tcb", TCB), malloc(t, "stack", STACK),
                  malloc(t, "win", WINDOW), malloc(t, "vault", Vault[p]), link_window(t, p) >>
    /\ UNCHANGED <<blocks, depth, live, dead, windows, broken>>

(* close_window, and KillTask.                                             *)
Exit ==
    /\ Works /\ todo = << >> /\ running # << >>
    /\ LET t == running[Len(running)].task
       IN  /\ todo' = << unlink_window(t), free(t, "vault"), free(t, "win") >>
           /\ dead' = dead \cup {t}
    /\ running' = SubSeq(running, 1, Len(running) - 1)
    /\ UNCHANGED <<blocks, depth, live, late, windows, broken>>

(* reaper frees the stack and the TCB with interrupts off, between any two *)
(* calls of the programs.                                                  *)
Reaping == todo # << >> /\ call.op = "free" /\ call.role \in {"stack", "tcb"}
Reap(t) ==
    /\ Works /\ depth = 0 /\ ~Reaping
    /\ t \in dead
    /\ \A m \in live : m.task = t => m.role \in {"stack", "tcb"}
    /\ todo' = << free(t, "stack"), free(t, "tcb") >> \o todo
    /\ dead' = dead \ {t}
    /\ UNCHANGED <<blocks, depth, live, running, late, windows, broken>>

Next == \/ FirstPage \/ Allocate \/ Expand \/ Free \/ LinkWindow \/ UnlinkWindow \/ Exit
        \/ display_heap_data
        \/ \E t \in Slot : Reap(t) \/ \E p \in Program : Start(p, t)
Spec == Init /\ [][Next]_vars

-----------------------------------------------------------------------------
(* The blocks tile the heap and the occupied ones are what was given out:  *)
(* no two allocations overlap and no byte is lost, until something of the  *)
(* above goes wrong.                                                       *)
HeapTiled == broken = "no" /\ hdr # << >> => Tiled

(* Out of date or not, the heap_tail that is to grow is a free header that *)
(* no user data has overwritten, so a new tail is never made behind it.    *)
TailUsable == Expanding => Readable(heap_tail) /\ hdr[heap_tail].free

(* While each program is reaped before the next is started, nothing goes   *)
(* wrong, although prev and heap_tail are left out of date, ...            *)
NeverBroken == late = 0 => broken = "no"

(* ... and the heap does not creep, however often programs come and go.    *)
HeapBounded == late = 0 => heap_current <= MaxHeap

(* ... and the ring holds the open windows in their order: the freed       *)
(* window at which closing the last one leaves bottom_window is the one    *)
(* that the next create_window is given, so that no link is written to     *)
(* memory that is not a window's.                                          *)
WindowsListed == late = 0 => Ring

(* That point p shows the youngest of the first n windows above it, or     *)
(* what the desktop has there, perhaps drawn over the window.              *)
Above(i, p) == p \in Area[window[opened[i]].name]
Shows(value, p, n) ==
    \/ \E i \in 1 .. n : /\ Above(i, p) /\ \A j \in i + 1 .. n : ~Above(j, p)
                        /\ value = window[opened[i]].name
    \/ /\ Desktop[p] = "MEM_INSP" \/ \A i \in 1 .. n : ~Above(i, p)
       /\ value = Desktop[p]

(* Every point shows what was drawn there: the youngest window above it    *)
(* or the desktop; nothing of a window that was closed comes back or stays.*)
NothingLeft == \A p \in DOMAIN Desktop : Shows(screen[p], p, Len(opened))

(* my_malloc: "heap expansion using sbrk when no block fits".  So one      *)
(* expansion is enough, and my_malloc calls itself once.                   *)
ExpansionFits == depth <= 1
=============================================================================
