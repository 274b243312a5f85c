----------------------------- MODULE MCKeyboard -----------------------------
EXTENDS Keyboard, TLC
CONSTANTS r1, r2

(* Once a read_key has finished inside another one, nothing is promised.   *)
Ordered == ~overlapped
=============================================================================
