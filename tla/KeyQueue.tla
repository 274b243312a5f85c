------------------------------ MODULE KeyQueue ------------------------------
(***************************************************************************)
(* What the keyboard promises to a program: the keys it is given are the   *)
(* keys that were accepted, each once and in the order they were typed,    *)
(* and a key is refused only when Capacity keys wait to be read.           *)
(***************************************************************************)
EXTENDS Naturals, Sequences

CONSTANTS Char, Capacity

VARIABLES accepted, delivered, dropped
vars == <<accepted, delivered, dropped>>

Init == accepted = <<>> /\ delivered = <<>> /\ dropped = 0

Waiting == Len(accepted) - Len(delivered)

(* One interrupt offers the keys ks; those that do not fit are dropped.    *)
Offer(ks) ==
    \E n \in 0 .. Len(ks) :
        /\ \/ n = Len(ks) /\ Waiting + n <= Capacity
           \/ n < Len(ks) /\ Waiting + n = Capacity
        /\ accepted' = accepted \o SubSeq(ks, 1, n)
        /\ dropped' = dropped + (Len(ks) - n)
        /\ UNCHANGED delivered

Deliver ==
    /\ Waiting > 0
    /\ delivered' = Append(delivered, accepted[Len(delivered) + 1])
    /\ UNCHANGED <<accepted, dropped>>

Next == Deliver \/ (\E k \in Char : Offer(<<k>>)) \/ (\E j, k \in Char : Offer(<<j, k>>))
Spec == Init /\ [][Next]_vars
=============================================================================
