----------------------------- MODULE HeapCalls ------------------------------
(***************************************************************************)
(* my_malloc and my_free of mem_mgr.c, preempted: tasks run them with      *)
(* interrupts on, and reaper frees the stack and the TCB of a task that    *)
(* has exited with interrupts off, between any two steps of theirs.  A     *)
(* step ends at each store that another call can see, and at each load     *)
(* that decides what a call does; those that read only blocks the call is  *)
(* at work on (AtWork) are part of the step that uses what they read.      *)
(***************************************************************************)
EXTENDS HeapBlocks

CONSTANTS
    Task,           \* the tasks that make heap calls
    Script,         \* the calls that each of them makes
    former          \* the one of them that has exited before the others start

(* Whether a task that has made the first n calls of a script holds what   *)
(* it calls role.                                                          *)
Held(s, n, role) ==
    \E i \in 1 .. n : /\ s[i].op = "malloc" /\ s[i].role = role
                      /\ \A j \in i + 1 .. n : ~(s[j].op = "free" /\ s[j].role = role)

(* What a task frees it has allocated, and it has one thing of each role.  *)
(* The first allocation is for ever; reaper finds what it frees.           *)
ASSUME ScriptAssumption ==
    /\ PAGE \in Nat \ {0} /\ former \in Task /\ Task = DOMAIN Script
    /\ \A t \in Task : Script[t] \in Seq([op : {"malloc"}, role : STRING, size : Nat]
                                         \cup [op : {"free"}, role : STRING])
    /\ \A t \in Task : \A k \in DOMAIN Script[t] :
         Script[t][k].op = "free" <=> Held(Script[t], k - 1, Script[t][k].role)
    /\ \A role \in {Script[former][1].role, "stack", "tcb"} :
         Held(Script[former], Len(Script[former]), role)
    /\ Script[former][1].role \notin {"stack", "tcb"}
    /\ \A k \in DOMAIN Script[former] :
         Script[former][k].op = "free" => Script[former][k].role # Script[former][1].role

VARIABLES
    done,           \* how many of its calls each task has made
    pc,             \* the next step of its call
    curr, pages,    \* of my_malloc: the block it looks at; the pages to come
    block,          \* of my_free
    reaped,         \* whether reaper has freed what former left
    raced           \* history: which races have happened, see below

globals == <<heap_tail, heap_pointer, heap_current>>
locals == <<pc, curr, pages, block>>
call_vars == <<blocks, live, done, locals, reaped, raced>>

NONE == -1

CallsInit ==
    /\ NoHeap(NONE)
    /\ done = [t \in Task |-> 0] /\ pc = [t \in Task |-> "idle"]
    /\ curr = [t \in Task |-> NONE] /\ pages = [t \in Task |-> 0]
    /\ block = [t \in Task |-> NONE]
    /\ reaped = FALSE /\ raced = {}

-----------------------------------------------------------------------------
Call(t) == Script[t][done[t] + 1]
Idle(t) == pc[t] = "idle"
Finished(t) == Idle(t) /\ done[t] = Len(Script[t])

(* Where the rest of the block is that my_malloc splits.                   *)
New(t) == curr[t] + 1 + Call(t).size

(* What a call is doing, by its next step.                                 *)
SearchSteps == {"search", "size", "next", "wrap", "point"}
SplitSteps == {"rest", "tail", "back", "link", "shrink", "occupy"}
GrowSteps == {"count", "sbrk", "widen"}
MergeSteps == {"nextSize", "nextLink", "nextBack", "pointer"}
MergeBackSteps == {"pointBack", "prevSize", "prevLink", "prevBack"}
FreeSteps == {"forward", "backward"} \cup MergeSteps \cup MergeBackSteps

(***************************************************************************)
(* The blocks that a call is at work on: my_malloc from the test that a    *)
(* block passes to the last store to its header, and while heap_tail       *)
(* grows; my_free from the mark to the end.                                *)
(***************************************************************************)
AtWork(t) ==
    CASE pc[t] \in SplitSteps -> {curr[t], New(t)}
      [] pc[t] \in GrowSteps -> {heap_tail}
      [] pc[t] \in FreeSteps -> {block[t], hdr[block[t]].next, hdr[block[t]].prev}
      [] OTHER -> {}
Searches(t) == pc[t] \in SearchSteps

(***************************************************************************)
(* The races, after which the list may be anything; the model stops there. *)
(*   window   two calls are at work on one block                           *)
(*   absorbed the block that a search has reached becomes part of another, *)
(*            or heap_pointer is left at such a block                      *)
(*   taken    a block is given out between the two loads that find it free *)
(*            and large enough, and is still large enough                  *)
(*   prev     a block is merged into one that is not just before it: the   *)
(*            stale prev that needs no race (see Heap)                     *)
(*   tail     heap_tail is stale when the heap is to grow (see Heap)       *)
(*   pages    the number of missing pages is unsigned: it is nearly 2^20   *)
(*            when a search that ended too early finds a page too many,    *)
(*            and 0, for ever, when only the header has no room            *)
(***************************************************************************)
Raises(own) ==
    raced' = raced \cup own
      \cup (IF \E t, u \in Task : t # u /\ AtWork(t)' \cap AtWork(u)' # {} THEN {"window"} ELSE {})
      \cup (IF \/ \E t \in Task : Searches(t)' /\ curr[t]' \notin Blocks'
               \/ /\ heap_pointer' \notin Blocks'
                  /\ \A t \in Task : pc[t]' \notin {"nextBack", "pointer"}
              THEN {"absorbed"} ELSE {})
Races == Raises({})

Step(t, from, to) == raced = {} /\ pc[t] = from /\ pc' = [pc EXCEPT ![t] = to]

(* A test, and a store to a header, that change nothing else.              *)
Test(t, from, to) == Step(t, from, to) /\ UNCHANGED <<blocks, live, done, curr, pages, block, reaped>>
Store(t, from, to, h) ==
    /\ Step(t, from, to)
    /\ hdr' = h
    /\ UNCHANGED <<globals, live, done, curr, pages, block, reaped>> /\ Races

-----------------------------------------------------------------------------
(* my_malloc makes the heap, or starts the search at heap_pointer.         *)
Begin(t) ==
    /\ Step(t, "idle", "search")
    /\ done[t] < Len(Script[t]) /\ Call(t).op = "malloc"
    /\ t # former => Finished(former)
    /\ IF hdr = << >> THEN FirstBlock ELSE UNCHANGED blocks
    /\ curr' = [curr EXCEPT ![t] = heap_pointer']
    /\ UNCHANGED <<live, done, pages, block, reaped>> /\ Races

Search(t) == Test(t, "search", IF hdr[curr[t]].free THEN "size" ELSE "next") /\ Races

Size(t) ==
    LET fits == hdr[curr[t]].size >= Call(t).size + 1
    IN  /\ Test(t, "size", IF fits THEN "rest" ELSE "next")
        /\ Raises(IF fits /\ ~hdr[curr[t]].free THEN {"taken"} ELSE {})

(* A block that does not fit: on to the next one, up to where heap_pointer *)
(* is by now.                                                              *)
Advance(t) ==
    /\ Step(t, "next", "wrap")
    /\ curr' = [curr EXCEPT ![t] = hdr[curr[t]].next]
    /\ UNCHANGED <<blocks, live, done, pages, block, reaped>> /\ Races

(* Mutant: the search ends at heap_tail.                                   *)
EndsAtTail == heap_tail

EndsAt == heap_pointer

Wrap(t) == Test(t, "wrap", IF curr[t] = EndsAt THEN "grow" ELSE "search") /\ Races

(* The header of the rest, but for its prev: nobody reads it before        *)
(* heap_tail or the next of the block in front leads there.                *)
StoreRest(t) ==
    Store(t, "rest", "tail",
          Put(hdr, New(t), [Rest(curr[t], Call(t).size) EXCEPT !.prev = NONE]))

MoveTail(t) ==
    /\ Step(t, "tail", "back")
    /\ heap_tail' = TailAfter(curr[t], New(t))
    /\ UNCHANGED <<hdr, heap_pointer, heap_current, live, done, curr, pages, block, reaped>>
    /\ Races

StoreBack(t) == Store(t, "back", "link", [hdr EXCEPT ![New(t)].prev = curr[t]])

(* From here on the caller counts as the owner of the block.               *)
Link(t) ==
    /\ Step(t, "link", "shrink")
    /\ hdr' = [hdr EXCEPT ![curr[t]].next = New(t)]
    /\ live' = live \cup {[task |-> t, role |-> Call(t).role,
                           addr |-> curr[t] + 1, size |-> Call(t).size]}
    /\ UNCHANGED <<globals, done, curr, pages, block, reaped>> /\ Races

Shrink(t) == Store(t, "shrink", "occupy", [hdr EXCEPT ![curr[t]].size = Call(t).size])

(* Mutant: the block is given out and stays free.                          *)
NotOccupied(a) == hdr

Occupied(a) == [hdr EXCEPT ![a].free = FALSE]

Occupy(t) ==
    /\ Step(t, "occupy", "point")
    /\ hdr' = Occupied(curr[t])
    /\ curr' = [curr EXCEPT ![t] = New(t)]
    /\ UNCHANGED <<globals, live, done, pages, block, reaped>> /\ Races

Point(t) ==
    /\ Step(t, "point", "idle")
    /\ heap_pointer' = curr[t]
    /\ done' = [done EXCEPT ![t] = @ + 1]
    /\ curr' = [curr EXCEPT ![t] = NONE]
    /\ UNCHANGED <<hdr, heap_tail, heap_current, live, pages, block, reaped>> /\ Races

(* No block fits, or the search was led astray: heap_tail is to grow.  It  *)
(* is free if it is the last block (see IsTiling).                         *)
Grow(t) ==
    /\ Step(t, "grow", "count")
    /\ curr' = [curr EXCEPT ![t] = NONE]
    /\ UNCHANGED <<blocks, live, done, pages, block, reaped>>
    /\ Raises(IF heap_tail \in Blocks /\ hdr[heap_tail].next = heap_start THEN {} ELSE {"tail"})

(* The pages that are missing: none when the tail had room for the call    *)
(* without its header, which is no harm if another block has room by now.  *)
Count(t) ==
    LET missing == Call(t).size - hdr[heap_tail].size
        number == (missing + PAGE - 1) \div PAGE
        helps == number > 0 \/ (number = 0 /\ \E a \in Blocks : Fit(a, Call(t).size))
    IN  /\ Step(t, "count", IF number = 0 THEN "idle" ELSE "sbrk")
        /\ pages' = [pages EXCEPT ![t] = number]
        /\ UNCHANGED <<blocks, live, done, curr, block, reaped>>
        /\ Raises(IF helps THEN {} ELSE {"pages"})

(* sbrk, of which Paging has the steps: no other task is in it, since one  *)
(* that grows heap_tail meanwhile is at work on the same block.            *)
sbrk(t) ==
    /\ Step(t, "sbrk", "widen")
    /\ heap_current' = heap_current + PAGE
    /\ UNCHANGED <<hdr, heap_tail, heap_pointer, live, done, curr, pages, block, reaped>> /\ Races

(* After the last page my_malloc calls itself.                             *)
Widen(t) ==
    /\ Step(t, "widen", IF pages[t] = 1 THEN "idle" ELSE "sbrk")
    /\ hdr' = [hdr EXCEPT ![heap_tail].size = @ + PAGE]
    /\ pages' = [pages EXCEPT ![t] = @ - 1]
    /\ UNCHANGED <<globals, live, done, curr, block, reaped>> /\ Races

my_malloc(t) ==
    \/ Begin(t) \/ Search(t) \/ Size(t) \/ Advance(t) \/ Wrap(t)
    \/ StoreRest(t) \/ MoveTail(t) \/ StoreBack(t)
    \/ Link(t) \/ Shrink(t) \/ Occupy(t) \/ Point(t)
    \/ Grow(t) \/ Count(t) \/ sbrk(t) \/ Widen(t)

-----------------------------------------------------------------------------
Mark(t) ==
    LET used == The(Call(t).role, t)
    IN  /\ done[t] < Len(Script[t]) /\ Call(t).op = "free"
        /\ Step(t, "idle", "forward")
        /\ hdr' = [hdr EXCEPT ![used.addr - 1].free = TRUE]
        /\ live' = live \ {used}
        /\ block' = [block EXCEPT ![t] = used.addr - 1]
        /\ UNCHANGED <<globals, done, curr, pages, reaped>> /\ Races

Forward(t) ==
    Test(t, "forward", IF MergesNext(hdr, block[t]) THEN "nextSize" ELSE "backward") /\ Races

(* block takes in the block that follows, and that one leads back to it.   *)
NextSize(t) ==
    LET b == block[t]
    IN  Store(t, "nextSize", "nextLink", [hdr EXCEPT ![b].size = @ + hdr[hdr[b].next].size + 1])
NextLink(t) ==
    LET b == block[t]
    IN  Store(t, "nextLink", "nextBack", [hdr EXCEPT ![b].next = hdr[hdr[b].next].next])
NextBack(t) ==
    LET b == block[t]
    IN  Store(t, "nextBack", "pointer", [hdr EXCEPT ![hdr[b].next].prev = b])

Pointer(t) ==
    /\ Step(t, "pointer", "backward")
    /\ heap_pointer' = block[t]
    /\ UNCHANGED <<hdr, heap_tail, heap_current, live, done, curr, pages, block, reaped>> /\ Races

Stale(h, b) == h[b].prev \notin BlocksOf(h) \/ h[h[b].prev].next # b

Return(t) == done' = [done EXCEPT ![t] = @ + 1] /\ block' = [block EXCEPT ![t] = NONE]

Backward(t) ==
    LET merges == MergesPrev(hdr, block[t])
    IN  /\ Step(t, "backward", IF merges THEN "pointBack" ELSE "idle")
        /\ IF merges THEN UNCHANGED <<done, block>> ELSE Return(t)
        /\ UNCHANGED <<blocks, live, curr, pages, reaped>>
        /\ Raises(IF merges /\ Stale(hdr, block[t]) THEN {"prev"} ELSE {})

PointBack(t) ==
    /\ Step(t, "pointBack", "prevSize")
    /\ heap_pointer' = hdr[block[t]].prev
    /\ UNCHANGED <<hdr, heap_tail, heap_current, live, done, curr, pages, block, reaped>> /\ Races

(* The block in front takes in block, and the one behind leads back to it. *)
PrevSize(t) ==
    LET b == block[t]
    IN  Store(t, "prevSize", "prevLink", [hdr EXCEPT ![hdr[b].prev].size = @ + hdr[b].size + 1])
PrevLink(t) ==
    LET b == block[t]
    IN  Store(t, "prevLink", "prevBack", [hdr EXCEPT ![hdr[b].prev].next = hdr[b].next])
PrevBack(t) ==
    /\ Step(t, "prevBack", "idle") /\ Return(t)
    /\ hdr' = [hdr EXCEPT ![hdr[block[t]].next].prev = hdr[block[t]].prev]
    /\ UNCHANGED <<globals, live, curr, pages, reaped>> /\ Races

my_free(t) ==
    \/ Mark(t) \/ Forward(t) \/ NextSize(t) \/ NextLink(t) \/ NextBack(t) \/ Pointer(t)
    \/ Backward(t) \/ PointBack(t) \/ PrevSize(t) \/ PrevLink(t) \/ PrevBack(t)

-----------------------------------------------------------------------------
(* reaper: what my_free makes of the headers and of heap_pointer.          *)
Freed(h, b) ==
    LET marked == [h EXCEPT ![b].free = TRUE]
        merged == IF MergesNext(marked, b) THEN Absorb(marked, b, h[b].next) ELSE marked
    IN  IF MergesPrev(merged, b) THEN Absorb(merged, merged[b].prev, b) ELSE merged
PointerAfter(h, b, p) ==
    LET marked == [h EXCEPT ![b].free = TRUE]
    IN  IF MergesPrev(marked, b) THEN h[b].prev ELSE IF MergesNext(marked, b) THEN b ELSE p
Near(h, b) == {b, h[b].next, h[b].prev, h[h[b].next].next}

reaper ==
    LET stack == The("stack", former)
        tcb == The("tcb", former)
        once == Freed(hdr, stack.addr - 1)
        touched == Near(hdr, stack.addr - 1) \cup Near(once, tcb.addr - 1)
    IN  /\ raced = {} /\ Finished(former) /\ ~reaped /\ reaped' = TRUE
        /\ hdr' = Freed(once, tcb.addr - 1)
        /\ heap_pointer' = PointerAfter(once, tcb.addr - 1,
                                        PointerAfter(hdr, stack.addr - 1, heap_pointer))
        /\ live' = live \ {stack, tcb}
        /\ raced' = raced
             \cup (IF \E t \in Task : AtWork(t) \cap touched # {} THEN {"window"} ELSE {})
             \cup (IF Stale(hdr, stack.addr - 1) \/ Stale(once, tcb.addr - 1) THEN {"prev"} ELSE {})
             \cup (IF \E t \in Task : Searches(t) /\ curr[t] \notin Blocks' THEN {"absorbed"} ELSE {})
        /\ UNCHANGED <<heap_tail, heap_current, done, locals>>

CallsNext == reaper \/ \E t \in Task : my_malloc(t) \/ my_free(t)
CallsSpec == CallsInit /\ [][CallsNext]_call_vars

(* The scheduler goes round; and a task makes its next call in the end.    *)
FairSpec == CallsSpec /\ \A t \in Task : WF_call_vars(my_malloc(t) \/ my_free(t))

-----------------------------------------------------------------------------
(* What is given out never overlaps, at every step of every call, and when *)
(* no call is in progress the blocks tile the heap: unless one of the      *)
(* races happens, calls may overlap in any other way, with heap_pointer    *)
(* and heap_tail written in any order.                                     *)
CallsTiled ==
    raced = {} =>
      /\ \A m, n \in live : m = n \/ m.addr + m.size < n.addr \/ n.addr + n.size < m.addr
      /\ (\A t \in Task : Idle(t)) /\ hdr # << >> => Tiled

(* Every call ends, although the search ends at a heap_pointer that others *)
(* move meanwhile, unless one of the races happens.                        *)
CallsEnd == <>(raced # {} \/ \A t \in Task : Finished(t))
=============================================================================
