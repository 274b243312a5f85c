----------------------------- MODULE HeapBlocks -----------------------------
(***************************************************************************)
(* The list of blocks of the kernel heap (mem_mgr.c): a header of one unit *)
(* before each block, linked in a ring from heap_start.  Sizes and         *)
(* addresses are in units of sizeof(HeapBlockMetaData) = 16 bytes, of      *)
(* which everything the kernel allocates is a multiple; address 0 is       *)
(* HEAP_START.                                                             *)
(***************************************************************************)
EXTENDS Integers, FiniteSets, Sequences

CONSTANT PAGE

VARIABLES
    hdr,            \* the headers that were written: size, free, next, prev
    heap_tail, heap_pointer, heap_current,
    live            \* history: what my_malloc returned and nobody freed

blocks == <<hdr, heap_tail, heap_pointer, heap_current>>

(* Where the first sbrk starts; heap_start is never assigned again.        *)
heap_start == 0

NoHeap(none) ==
    /\ hdr = << >> /\ heap_tail = none /\ heap_pointer = none /\ heap_current = 0
    /\ live = {}

Put(h, a, header) == [x \in DOMAIN h \cup {a} |-> IF x = a THEN header ELSE h[x]]

(* The first my_malloc finds no heap_start and makes one block of a page.  *)
FirstBlock ==
    /\ hdr = << >>
    /\ hdr' = Put(hdr, heap_start, [size |-> PAGE - 1, free |-> TRUE,
                                    next |-> heap_start, prev |-> heap_start])
    /\ heap_tail' = heap_start /\ heap_pointer' = heap_start
    /\ heap_current' = PAGE

(* The blocks from a on, and round again, of the headers h.                *)
Chain(h, a) ==
    LET at[k \in Nat] == IF k = 0 THEN a ELSE h[at[k - 1]].next
    IN  at

(* The blocks of the heap, as the search and MEM_INSP reach them.          *)
BlocksOf(h) == {Chain(h, heap_start)[k] : k \in 0 .. Cardinality(DOMAIN h)}
Blocks == BlocksOf(hdr)

(* Mutant: no room is kept for the header of the rest.                     *)
FitsExactly(a, size) == hdr[a].free /\ hdr[a].size >= size

Fit(a, size) == hdr[a].free /\ hdr[a].size >= size + 1

(* The split of block curr: the header of the rest, and what becomes of    *)
(* curr.  The block that follows keeps its prev.                           *)
Rest(curr, size) == [size |-> hdr[curr].size - size - 1, free |-> TRUE,
                     next |-> hdr[curr].next, prev |-> curr]
Taken(curr, size) == [hdr[curr] EXCEPT !.size = size, !.free = FALSE, !.next = curr + 1 + size]

(* Mutant: the split does not move heap_tail.                              *)
TailForgotten(curr, new) == heap_tail

TailAfter(curr, new) == IF hdr[curr].next = heap_start THEN new ELSE heap_tail

(* Mutants: the header of a merged block is lost; nothing is merged.       *)
HeaderLost(h, a, b) == [[h EXCEPT ![a].size = @ + h[b].size, ![a].next = h[b].next]
                        EXCEPT ![h[b].next].prev = a]
NothingMerged(h, a, b) == h

(* Block b becomes part of block a.                                        *)
Absorb(h, a, b) == [[h EXCEPT ![a].size = @ + h[b].size + 1, ![a].next = h[b].next]
                    EXCEPT ![h[b].next].prev = a]

MergesNext(h, block) == h[block].next # heap_start /\ h[h[block].next].free
MergesPrev(h, block) == h[block].prev # heap_tail /\ h[h[block].prev].free

The(role, t) == CHOOSE m \in live : m.task = t /\ m.role = role

(* A header that user data may have overwritten means nothing.             *)
Readable(a) == a \in DOMAIN hdr /\ \A m \in live : a \notin m.addr .. m.addr + m.size - 1

-----------------------------------------------------------------------------
(* The blocks follow each other without a gap from heap_start to           *)
(* heap_current, and the occupied ones are what my_malloc has given out.   *)
End(h, a) == a + 1 + h[a].size
Reaches(h, current, a) ==
    End(h, a) = IF h[a].next = heap_start THEN current ELSE h[a].next

Header == [size : Nat, free : BOOLEAN, next : Nat, prev : Int]

(* The headers B follow each other from heap_start to current without a    *)
(* gap, next leads from one to the other and round, and the last is free.  *)
IsTiling(h, current, B) ==
    /\ heap_start \in B
    /\ \A a \in B : h[a].next \in B /\ Reaches(h, current, a)
    /\ \A a, b \in B : a < b => End(h, a) <= b
    /\ \A b \in B \ {heap_start} : \E a \in B : h[a].next = b
    /\ \A a \in B : h[a].next = heap_start => h[a].free

GivenOut(h, B, given) ==
    /\ \A a \in B : ~h[a].free => \E m \in given : m.addr = a + 1 /\ m.size = h[a].size
    /\ \A m \in given : \E a \in B : ~h[a].free /\ m.addr = a + 1 /\ m.size = h[a].size
    /\ \A m, n \in given : m.addr = n.addr => m = n

Tiled ==
    /\ \A a \in Blocks : Reaches(hdr, heap_current, a)
    /\ heap_pointer \in Blocks
    /\ GivenOut(hdr, Blocks, live)
=============================================================================
