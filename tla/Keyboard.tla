------------------------------ MODULE Keyboard ------------------------------
(***************************************************************************)
(* The keyboard of keyboard.c: the interrupt handler decodes scancodes and *)
(* puts keys into a ring of MAX_KEYS slots, tasks take them out with       *)
(* read_key.  The handler runs with interrupts off, so it is one step; a   *)
(* task may be interrupted or preempted between any two loads and stores.  *)
(***************************************************************************)
EXTENDS Integers, Sequences

CONSTANTS
    MAX_KEYS,
    Readers,        \* the tasks that call read_key
    Keys,           \* the keys that are pressed
    MaxOffered      \* bound: no key is pressed once so many were offered

VARIABLES
    key_buffer, writing_index, reading_index,       \* key_collector
    shift_pressed, capslock_active, is_extended,
    pc, nxt, idx, key,      \* read_key: next step, next_read_index, index, key
    accepted, delivered, dropped,   \* history: what went in, came out, was refused
    overlapped              \* history: a read_key finished inside another one

flags == <<shift_pressed, capslock_active, is_extended>>
reads == <<pc, nxt, idx, key>>
vars == <<key_buffer, writing_index, reading_index, shift_pressed, capslock_active,
          is_extended, pc, nxt, idx, key, accepted, delivered, dropped, overlapped>>

(* Scancodes, up to what HandleKeyboardInterrupt and decode_scancode tell  *)
(* apart: NONE stands for the keys whose table entry is 0.                 *)
Code == {"SHIFT", "CAPS_LOCK", "ARROW", "WINDOWS_BUTTON", "LEFT_CTRL", "LETTER", "SYMBOL", "NONE"}
Char == {"a", "A", "1", "!", "nul", "win", "ctrl"}

ASSUME KeysAssumption ==
    MAX_KEYS \in Nat /\ MAX_KEYS >= 2 /\ Keys \subseteq Code /\ MaxOffered \in Nat

decode_scancode(code) ==
    CASE code = "LETTER" -> IF shift_pressed # capslock_active THEN "A" ELSE "a"
      [] code = "SYMBOL" -> IF shift_pressed THEN "!" ELSE "1"
      [] OTHER -> "nul"

-----------------------------------------------------------------------------
Init ==
    /\ key_buffer = [i \in 0 .. MAX_KEYS - 1 |-> "nul"]
    /\ writing_index = 0 /\ reading_index = 0
    /\ shift_pressed = FALSE /\ capslock_active = FALSE /\ is_extended = FALSE
    /\ pc = [r \in Readers |-> "next"]
    /\ nxt = [r \in Readers |-> 0] /\ idx = [r \in Readers |-> 0]
    /\ key = [r \in Readers |-> "nul"]
    /\ accepted = <<>> /\ delivered = <<>> /\ dropped = 0
    /\ overlapped = FALSE

(* Mutants of write_key: the index runs past the buffer; one slot too many *)
(* is kept free; a full buffer is not noticed.                             *)
IndexNotWrapped(c, k) ==
    IF c.w + 1 = reading_index THEN [c EXCEPT !.out = @ + 1]
    ELSE [buf |-> [c.buf EXCEPT ![c.w] = k], w |-> c.w + 1, in |-> Append(c.in, k), out |-> c.out]

FullTooEarly(c, k) ==
    IF (c.w + 2) % MAX_KEYS = reading_index THEN [c EXCEPT !.out = @ + 1]
    ELSE [buf |-> [c.buf EXCEPT ![c.w] = k], w |-> (c.w + 1) % MAX_KEYS,
          in |-> Append(c.in, k), out |-> c.out]

FullNotNoticed(c, k) ==
    [buf |-> [c.buf EXCEPT ![c.w] = k], w |-> (c.w + 1) % MAX_KEYS,
     in |-> Append(c.in, k), out |-> c.out]

(* write_key on a collector c = [buf, w, in, out]: in and out record what  *)
(* was accepted and how much was dropped.                                  *)
write_key(c, k) ==
    LET next_write_index == (c.w + 1) % MAX_KEYS
    IN  IF next_write_index = reading_index
          THEN [c EXCEPT !.out = @ + 1]
          ELSE [buf |-> [c.buf EXCEPT ![c.w] = k], w |-> next_write_index,
                in |-> Append(c.in, k), out |-> c.out]

collector == [buf |-> key_buffer, w |-> writing_index, in |-> accepted, out |-> dropped]

Collect(c) ==
    /\ key_buffer' = c.buf /\ writing_index' = c.w
    /\ accepted' = c.in /\ dropped' = c.out

Bounded == Len(accepted) + dropped < MaxOffered

(* 0xE0 announces an extended key; is_extended is never cleared again.     *)
ExtendedPrefix ==
    /\ is_extended' = TRUE
    /\ UNCHANGED <<key_buffer, writing_index, reading_index, shift_pressed, capslock_active,
                   reads, accepted, delivered, dropped, overlapped>>

(* A key is pressed.  Once is_extended is set, two keys are written twice, *)
(* under their own code and then as what the table holds for them.         *)
KeyDown(code) ==
    LET own == [c \in {"WINDOWS_BUTTON", "LEFT_CTRL"} |-> IF c = "LEFT_CTRL" THEN "ctrl" ELSE "win"]
        extended == IF is_extended /\ code \in DOMAIN own
                      THEN write_key(collector, own[code]) ELSE collector
    IN  /\ Bounded
        /\ Collect(IF code \in {"SHIFT", "CAPS_LOCK", "ARROW"}
                     THEN extended ELSE write_key(extended, decode_scancode(code)))
        /\ shift_pressed' = (shift_pressed \/ code = "SHIFT")
        /\ capslock_active' = (capslock_active # (code = "CAPS_LOCK"))
        /\ UNCHANGED <<reading_index, is_extended, reads, delivered, overlapped>>

KeyUp(code) ==
    /\ shift_pressed' = (shift_pressed /\ code # "SHIFT")
    /\ UNCHANGED <<key_buffer, writing_index, reading_index, capslock_active, is_extended,
                   reads, accepted, delivered, dropped, overlapped>>

HandleKeyboardInterrupt ==
    \/ ExtendedPrefix
    \/ \E code \in Keys : KeyDown(code) \/ KeyUp(code)

-----------------------------------------------------------------------------
(* read_key, one load or store of shared memory at a time.                 *)
Goto(r, from, to) == pc[r] = from /\ pc' = [pc EXCEPT ![r] = to]
Rest == <<key_buffer, writing_index, flags, accepted, dropped>>

ReadNext(r) ==
    /\ Goto(r, "next", "cmpr")
    /\ nxt' = [nxt EXCEPT ![r] = (reading_index + 1) % MAX_KEYS]
    /\ UNCHANGED <<Rest, reading_index, idx, key, delivered, overlapped>>

ReadCompareIndex(r) ==
    /\ Goto(r, "cmpr", "cmpw")
    /\ idx' = [idx EXCEPT ![r] = reading_index]
    /\ UNCHANGED <<Rest, reading_index, nxt, key, delivered, overlapped>>

(* Mutant: a buffer with one key counts as empty.                          *)
LastKeyKept(r) ==
    /\ Goto(r, "cmpw", IF writing_index \in {idx[r], nxt[r]} THEN "next" ELSE "index")
    /\ UNCHANGED <<Rest, reading_index, nxt, idx, key, delivered, overlapped>>

(* An empty buffer: read_key returns 0 and is called again.                *)
ReadCompare(r) ==
    /\ Goto(r, "cmpw", IF idx[r] = writing_index THEN "next" ELSE "index")
    /\ UNCHANGED <<Rest, reading_index, nxt, idx, key, delivered, overlapped>>

ReadIndex(r) ==
    /\ Goto(r, "index", "load")
    /\ idx' = [idx EXCEPT ![r] = reading_index]
    /\ UNCHANGED <<Rest, reading_index, nxt, key, delivered, overlapped>>

ReadLoad(r) ==
    /\ Goto(r, "load", "store")
    /\ key' = [key EXCEPT ![r] = key_buffer[idx[r]]]
    /\ UNCHANGED <<Rest, reading_index, nxt, idx, delivered, overlapped>>

ReadStore(r) ==
    /\ Goto(r, "store", "next")
    /\ reading_index' = nxt[r]
    /\ delivered' = Append(delivered, key[r])
    /\ overlapped' = (overlapped \/ \E o \in Readers \ {r} : pc[o] # "next")
    /\ UNCHANGED <<Rest, nxt, idx, key>>

read_key(r) == \/ ReadNext(r) \/ ReadCompareIndex(r) \/ ReadCompare(r)
               \/ ReadIndex(r) \/ ReadLoad(r) \/ ReadStore(r)

Next == HandleKeyboardInterrupt \/ \E r \in Readers : read_key(r)
Spec == Init /\ [][Next]_vars

(* Each program calls read_key in a loop, and the scheduler runs it.       *)
FairSpec == Spec /\ \A r \in Readers : WF_vars(read_key(r))

-----------------------------------------------------------------------------
Index == 0 .. MAX_KEYS - 1
TypeOK ==
    /\ key_buffer \in [Index -> Char]
    /\ writing_index \in Index /\ reading_index \in Index
    /\ flags \in BOOLEAN \X BOOLEAN \X BOOLEAN
    /\ pc \in [Readers -> {"next", "cmpr", "cmpw", "index", "load", "store"}]
    /\ nxt \in [Readers -> Index] /\ idx \in [Readers -> Index]
    /\ key \in [Readers -> Char]
    /\ accepted \in Seq(Char) /\ delivered \in Seq(Char)
    /\ dropped \in Nat
    /\ overlapped \in BOOLEAN

(* The ring of MAX_KEYS slots keeps the promise of a queue one slot        *)
(* shorter: no key is lost, overwritten, given twice or out of order,      *)
(* however the interrupt and the reads interleave, until one read_key      *)
(* finishes inside another: the slower one then stores an index it read    *)
(* before.  One task that reads never comes to that.                       *)
Queue == INSTANCE KeyQueue WITH Capacity <- MAX_KEYS - 1
QueueSpec == Queue!Init /\ [][overlapped' \/ Queue!Next]_(Queue!vars)

(* What this comes to: what was delivered is a prefix of what was accepted *)
(* and the rest fits the ring.                                             *)
InOrder ==
    ~overlapped => /\ Len(delivered) <= Len(accepted)
                   /\ delivered = SubSeq(accepted, 1, Len(delivered))
                   /\ Len(accepted) - Len(delivered) < MAX_KEYS

(* Every accepted key is in the end given to a program, or reads overlap.  *)
KeyDelivered ==
    \A n \in 1 .. MaxOffered + 1 :
        Len(accepted) >= n ~> Len(delivered) >= n \/ overlapped
=============================================================================
