---------------------------- MODULE HeapCallsInv ----------------------------
(* The inductive invariant of HeapCalls, by which its blocks tile the heap *)
(* whenever no call is in progress.                                        *)
EXTENDS HeapCalls

Frees(t) == pc[t] \in FreeSteps
Called == {"idle", "grow"} \cup SearchSteps \cup SplitSteps \cup GrowSteps \cup FreeSteps

(* The calls of t that have given out a block or taken one back.           *)
Made(t) == done[t] + IF pc[t] \in {"shrink", "occupy", "point"} \/ Frees(t) THEN 1 ELSE 0

Placed(t) ==
    /\ Made(t) <= Len(Script[t])
    /\ ~Idle(t) => /\ done[t] < Len(Script[t])
                   /\ Call(t).op = IF Frees(t) THEN "free" ELSE "malloc"
Located ==
    /\ pc \in [Task -> Called] /\ done \in [Task -> Nat]
    /\ {curr, pages, block} \subseteq [Task -> Int] /\ reaped \in BOOLEAN
    /\ \A t \in Task : Placed(t)
    /\ reaped => Finished(former)

(* What each task holds is what its calls say.                             *)
Owns(t, role) == \E m \in live : m.task = t /\ m.role = role
Due(t, role) ==
    /\ Held(Script[t], Made(t), role)
    /\ ~(t = former /\ reaped /\ role \in {"stack", "tcb"})
Owned ==
    /\ \A m, n \in live : m.task = n.task /\ m.role = n.role => m = n
    /\ \A m \in live : m.task \in Task
    /\ \A t \in Task : \A k \in DOMAIN Script[t] :
         Owns(t, Script[t][k].role) <=> Due(t, Script[t][k].role)

(* The first block is for ever that of the first call.                     *)
Rooted ==
    IF Made(former) = 0
      THEN /\ live = {}
           /\ hdr # << >> => Blocks = {heap_start}
           /\ \A t \in Task \ {former} : Idle(t) /\ done[t] = 0
      ELSE \E m \in live : /\ m.addr = heap_start + 1 /\ m.task = former
                           /\ m.role = Script[former][1].role

-----------------------------------------------------------------------------
(* The blocks as a walk along next has them: a block whose size and next a *)
(* call has not both stored yet goes as far as its next, one that is given *)
(* out is occupied, and a page that sbrk has added is not there yet.       *)
Torn(t) ==
    IF pc[t] \in {"shrink", "occupy"} THEN {curr[t]}
    ELSE IF pc[t] = "nextLink" THEN {block[t]}
    ELSE IF pc[t] = "prevLink" THEN {hdr[block[t]].prev} ELSE {}
GivesOut(a) == \E t \in Task : pc[t] \in {"shrink", "occupy"} /\ curr[t] = a
View ==
    [a \in DOMAIN hdr |->
       [hdr[a] EXCEPT !.size = IF \E t \in Task : a \in Torn(t) THEN hdr[a].next - a - 1 ELSE @,
                      !.free = @ /\ ~GivesOut(a)]]
Mapped == heap_current - IF \E t \in Task : pc[t] = "widen" THEN PAGE ELSE 0

Headers(h) == DOMAIN h \in SUBSET Nat /\ IsFiniteSet(DOMAIN h) /\ h \in [DOMAIN h -> Header]
Laid(h, current, B, given) ==
    /\ Headers(h) /\ B \subseteq DOMAIN h /\ current \in Nat
    /\ IsTiling(h, current, B)
    /\ GivenOut(h, B, given)

(* What a call that splits block a knows, where the rest goes to new.      *)
Splits(t, a, new) ==
    /\ a \in Blocks /\ hdr[a].free
    /\ pc[t] \in {"rest", "tail", "back", "link"} => hdr[a].size >= Call(t).size + 1
    /\ pc[t] \in {"tail", "back", "link"} =>
         /\ new \in DOMAIN hdr /\ hdr[new].free /\ hdr[new].next = hdr[a].next
         /\ hdr[new].size = hdr[a].size - Call(t).size - 1
    /\ pc[t] \in {"back", "link"} /\ hdr[a].next = heap_start => heap_tail = new
    /\ pc[t] \in {"shrink", "occupy"} => hdr[a].next = new
    /\ pc[t] = "occupy" => hdr[a].size = Call(t).size

(* What a call knows that merges block a with the block behind, or with    *)
(* the block before, where the other one is b.                             *)
Absorbs(t, a, b) ==
    /\ pc[t] \in {"nextSize", "nextLink"} => b # heap_start /\ hdr[b].free
    /\ pc[t] = "nextLink" => hdr[a].size = b - a + hdr[b].size
Backs(t, a, b) ==
    /\ pc[t] \in MergeBackSteps => b \in Blocks /\ hdr[b].free
    /\ pc[t] \in MergeBackSteps \ {"prevBack"} => hdr[b].next = a
    /\ pc[t] = "prevLink" => hdr[b].size = a - b + hdr[a].size

(* What a call that is in progress knows.                                  *)
Knows(t) ==
    /\ Searches(t) => curr[t] \in Blocks
    /\ pc[t] \in SplitSteps => Splits(t, curr[t], New(t))
    /\ pc[t] \in GrowSteps => heap_tail \in Blocks /\ hdr[heap_tail].next = heap_start
    /\ pc[t] \in {"sbrk", "widen"} => pages[t] >= 1
    /\ Frees(t) => /\ block[t] \in DOMAIN hdr /\ block[t] # heap_start
                   /\ hdr[block[t]].free /\ hdr[block[t]].next \in Blocks
                   /\ pc[t] # "prevBack" => block[t] \in Blocks
                   /\ Absorbs(t, block[t], hdr[block[t]].next)
                   /\ Backs(t, block[t], hdr[block[t]].prev)

(* No two calls are at work on one block.                                  *)
Apart == \A t, u \in Task : t # u => AtWork(t) \cap AtWork(u) = {}

Built ==
    /\ Headers(hdr) /\ heap_tail \in Nat /\ heap_current \in Nat
    /\ Laid(View, Mapped, Blocks, live)
    /\ heap_pointer \in Blocks \/ \E t \in Task : pc[t] \in {"nextBack", "pointer"}
    /\ \A t \in Task : Knows(t)

CallsSound ==
    /\ Located /\ Owned /\ Rooted /\ Apart
    /\ IF hdr = << >> THEN \A t \in Task : Idle(t) /\ done[t] = 0 ELSE Built

CallsInvariant == raced = {} => CallsSound
=============================================================================
