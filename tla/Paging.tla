------------------------------- MODULE Paging -------------------------------
(***************************************************************************)
(* How the heap grows: sbrk of mem_mgr.c takes a frame from the stack of   *)
(* free frames and maps it behind the heap, with a page table when the     *)
(* page directory has none there (mmap.c).  Tasks call it inside           *)
(* my_malloc, with an increment of one page, and nothing keeps a task from *)
(* being preempted in it: each step below makes one access to what they    *)
(* share, but for the clearing of a page table, which is one step.         *)
(*                                                                         *)
(* Pages are numbered from HEAP_START on.  Frames that init_pmm has found  *)
(* are 1 .. Frames; NOTHING is what pmm_alloc_page returns when there are  *)
(* none, and the address of the lowest frame of the machine.  BEYOND is    *)
(* what lies below the array of the stack, read as a frame: nobody knows   *)
(* which one, and it counts here as a page of memory like the others.      *)
(***************************************************************************)
EXTENDS Integers, FiniteSets

CONSTANTS
    Task,
    Frames,         \* how many frames init_pmm has found
    NO_OF_ENTRIES,  \* entries of a page table
    Garbage,        \* what a frame may hold before its first use: a frame number or ABSENT
    MaxPages        \* bound on the pages of the heap

NOTHING == 0
ABSENT == -1
BEYOND == -2
Frame == 1 .. Frames
Physical == Frame \cup {NOTHING, BEYOND}
Entry == 0 .. NO_OF_ENTRIES - 1
ASSUME SizesAssumption ==
    /\ Frames \in Nat /\ NO_OF_ENTRIES \in Nat \ {0} /\ MaxPages \in Nat
    /\ Garbage \in Frame \cup {NOTHING, ABSENT}

VARIABLES
    stack_pointer,  \* of pmm_stack; a number below 0 is its value less 2^32
    page_directory, \* the page table of each directory entry, or ABSENT
    tables,         \* the entries of each frame that is read as a page table
    heap_current,
    pc, old, new, phys, pt, \* each task in sbrk: next step, page, new break, frame, page table
    wants, top,     \* ... and in pmm_alloc_page: what it wants a frame for, the pointer it has read
    starved,        \* history: a frame was wanted when there was none
    overlapped      \* history: a task entered sbrk while another was in it

memory == <<stack_pointer, page_directory, tables, heap_current>>
history == <<starved, overlapped>>
vars == <<stack_pointer, page_directory, tables, heap_current,
          pc, old, new, phys, pt, wants, top, starved, overlapped>>

Directory == 0 .. MaxPages \div NO_OF_ENTRIES
pd_index(page) == page \div NO_OF_ENTRIES
pt_index(page) == page % NO_OF_ENTRIES

page_addresses(i) == IF i \in 0 .. Frames - 1 THEN i + 1 ELSE BEYOND

Init ==
    /\ stack_pointer = Frames
    /\ page_directory = [d \in Directory |-> ABSENT]
    /\ tables = [f \in Physical |-> [e \in Entry |-> Garbage]]
    /\ heap_current = 0
    /\ pc = [t \in Task |-> "out"] /\ wants = [t \in Task |-> "frame"]
    /\ old = [t \in Task |-> 0] /\ new = [t \in Task |-> 0] /\ top = [t \in Task |-> 0]
    /\ phys = [t \in Task |-> NOTHING] /\ pt = [t \in Task |-> NOTHING]
    /\ starved = FALSE /\ overlapped = FALSE

Goto(t, from, to) == pc[t] = from /\ pc' = [pc EXCEPT ![t] = to]

-----------------------------------------------------------------------------
(* sbrk reads the break twice; MaxPages bounds both.                       *)
sbrk(t) ==
    /\ Goto(t, "out", "again")
    /\ heap_current < MaxPages
    /\ old' = [old EXCEPT ![t] = heap_current]
    /\ overlapped' = (overlapped \/ \E o \in Task : pc[o] # "out")
    /\ UNCHANGED <<memory, new, phys, pt, wants, top, starved>>

ReadAgain(t) ==
    /\ heap_current < MaxPages
    /\ Goto(t, "again", IF old[t] < heap_current + 1 THEN "test" ELSE "move")
    /\ new' = [new EXCEPT ![t] = heap_current + 1]
    /\ wants' = [wants EXCEPT ![t] = "frame"]
    /\ UNCHANGED <<memory, old, phys, pt, top, history>>

-----------------------------------------------------------------------------
(* pmm_alloc_page.  Nobody checks what it returns.                         *)
Return(t, frame) ==
    /\ pc' = [pc EXCEPT ![t] = IF wants[t] = "frame" THEN "lookup" ELSE "install"]
    /\ phys' = [phys EXCEPT ![t] = IF wants[t] = "frame" THEN frame ELSE @]
    /\ pt' = [pt EXCEPT ![t] = IF wants[t] = "table" THEN frame ELSE @]

(* Mutant: an empty stack is not noticed.                                  *)
EmptyNotNoticed(t) ==
    /\ Goto(t, "test", "load")
    /\ UNCHANGED <<memory, old, new, phys, pt, wants, top, history>>

TestStack(t) ==
    /\ pc[t] = "test"
    /\ IF stack_pointer = 0
       THEN Return(t, NOTHING) /\ starved' = TRUE
       ELSE Goto(t, "test", "load") /\ UNCHANGED <<phys, pt, starved>>
    /\ UNCHANGED <<memory, old, new, wants, top, overlapped>>

(* The pointer is read, stored one less, and read once more.               *)
LoadPointer(t) ==
    /\ Goto(t, "load", "store")
    /\ top' = [top EXCEPT ![t] = stack_pointer]
    /\ UNCHANGED <<memory, old, new, phys, pt, wants, history>>

(* Mutant: the frame stays on the stack.                                   *)
NotTaken(t) ==
    /\ Goto(t, "store", "read")
    /\ UNCHANGED <<memory, old, new, phys, pt, wants, top, history>>

StorePointer(t) ==
    /\ Goto(t, "store", "read")
    /\ stack_pointer' = top[t] - 1
    /\ UNCHANGED <<page_directory, tables, heap_current, old, new, phys, pt, wants, top, history>>

ReadPage(t) ==
    /\ pc[t] = "read"
    /\ Return(t, page_addresses(stack_pointer))
    /\ UNCHANGED <<memory, old, new, wants, top, history>>

-----------------------------------------------------------------------------
(* vmm_map_page: the page table is there, or has to be made.               *)
Lookup(t) ==
    LET absent == page_directory[pd_index(old[t])] = ABSENT
    IN  /\ Goto(t, "lookup", IF absent THEN "test" ELSE "entry")
        /\ wants' = [wants EXCEPT ![t] = IF absent THEN "table" ELSE @]
        /\ UNCHANGED <<memory, old, new, phys, pt, top, history>>

(* The directory entry is written, and then the table it leads to cleared. *)
InstallTable(t) ==
    /\ Goto(t, "install", "clear")
    /\ page_directory' = [page_directory EXCEPT ![pd_index(old[t])] = pt[t]]
    /\ UNCHANGED <<stack_pointer, tables, heap_current, old, new, phys, pt, wants, top, history>>

(* Mutant: the table is not cleared.                                       *)
TableNotCleared(t) ==
    /\ Goto(t, "clear", "entry")
    /\ UNCHANGED <<memory, old, new, phys, pt, wants, top, history>>

ClearTable(t) ==
    /\ Goto(t, "clear", "entry")
    /\ tables' = [tables EXCEPT ![page_directory[pd_index(old[t])]] = [e \in Entry |-> ABSENT]]
    /\ UNCHANGED <<stack_pointer, page_directory, heap_current, old, new, phys, pt, wants, top,
                   history>>

(* The entry is written, and sbrk goes on to the next page, if there is    *)
(* one.                                                                    *)
WriteEntry(t) ==
    /\ Goto(t, "entry", IF old[t] + 1 < new[t] THEN "test" ELSE "move")
    /\ tables' = [tables EXCEPT
                    ![page_directory[pd_index(old[t])]][pt_index(old[t])] = phys[t]]
    /\ old' = [old EXCEPT ![t] = @ + 1]
    /\ wants' = [wants EXCEPT ![t] = "frame"]
    /\ UNCHANGED <<stack_pointer, page_directory, heap_current, new, phys, pt, top, history>>

MoveBreak(t) ==
    /\ Goto(t, "move", "out")
    /\ heap_current' = new[t]
    /\ UNCHANGED <<stack_pointer, page_directory, tables, old, new, phys, pt, wants, top, history>>

Next == \E t \in Task :
    \/ sbrk(t) \/ ReadAgain(t) \/ MoveBreak(t)
    \/ TestStack(t) \/ LoadPointer(t) \/ StorePointer(t) \/ ReadPage(t)
    \/ Lookup(t) \/ InstallTable(t) \/ ClearTable(t) \/ WriteEntry(t)
Spec == Init /\ [][Next]_vars

-----------------------------------------------------------------------------
Installed == {d \in Directory : page_directory[d] # ABSENT}
Lost == overlapped \/ starved

(* The stack never holds more than it was filled with, and as long as no   *)
(* two tasks are in sbrk at once its pointer does not fall below the array *)
(* and every frame that is used was on it, or is the NOTHING that a call   *)
(* on the empty stack returns.                                             *)
TypeOK ==
    /\ stack_pointer \in Int /\ stack_pointer <= Frames
    /\ page_directory \in [Directory -> Physical \cup {ABSENT}]
    /\ tables \in [Physical -> [Entry -> Physical \cup {ABSENT}]]
    /\ heap_current \in 0 .. MaxPages
    /\ pc \in [Task -> {"out", "again", "test", "load", "store", "read", "lookup", "install",
                        "clear", "entry", "move"}]
    /\ old \in [Task -> 0 .. MaxPages] /\ new \in [Task -> 0 .. MaxPages]
    /\ phys \in [Task -> Physical] /\ pt \in [Task -> Physical]
    /\ wants \in [Task -> {"frame", "table"}] /\ top \in [Task -> Int]
    /\ starved \in BOOLEAN /\ overlapped \in BOOLEAN
    /\ ~overlapped => /\ stack_pointer >= 0
                      /\ \A t \in Task : phys[t] # BEYOND /\ pt[t] # BEYOND
                      /\ \A d \in Directory : page_directory[d] # BEYOND

(* What each frame is used for.                                            *)
Pages == 0 .. heap_current - 1
frame_of(page) == tables[page_directory[pd_index(page)]][pt_index(page)]
Allocating(t) == pc[t] \in {"test", "load", "store", "read"}
Taken(t) == \/ pc[t] \in {"lookup", "install", "clear", "entry", "move"}
            \/ Allocating(t) /\ wants[t] = "table"
Uses(f) == {<<"page", p>> : p \in {q \in Pages : frame_of(q) = f}}
           \cup {<<"table", d>> : d \in {e \in Installed : page_directory[e] = f}}
           \cup {<<"popped", t>> : t \in {u \in Task : pc[u] = "read" /\ top[u] = f}}
           \cup {<<"taken", t>> : t \in {u \in Task : Taken(u) /\ phys[u] = f}}
           \cup {<<"table taken", t>> : t \in {u \in Task : pc[u] = "install" /\ pt[u] = f}}

(* Every page of the heap is mapped, and every frame is free or used once: *)
(* none is lost and no two pages or tables share one, at every step of a   *)
(* growth, until two tasks are in sbrk at once or memory runs out.         *)
FramesKept ==
    ~Lost => /\ \A p \in Pages : page_directory[pd_index(p)] \in Frame /\ frame_of(p) \in Frame
             /\ \A f \in Frame : Cardinality(Uses(f)) = IF f <= stack_pointer THEN 0 ELSE 1

(* Nothing else is mapped: a page of the heap's tables is below the break, *)
(* or is the one that a task is about to add, or stands in a table that    *)
(* was installed a moment ago and is about to be cleared.                  *)
NoStrayPage ==
    ~Lost => \A d \in Installed, e \in Entry :
        tables[page_directory[d]][e] # ABSENT =>
            \/ d * NO_OF_ENTRIES + e < heap_current
            \/ \E t \in Task : pc[t] = "clear" /\ pd_index(old[t]) = d
            \/ \E t \in Task : pc[t] = "move" /\ d * NO_OF_ENTRIES + e < new[t]
=============================================================================
