------------------------------ MODULE Windows -------------------------------
(***************************************************************************)
(* The windows of ui.c: a ring of Window_t from bottom_window to           *)
(* top_window, and the screen under each of them, kept in its vault while  *)
(* it is open.  A window is its address; the screen is a few points that   *)
(* tell the windows apart, and what a point shows is who drew there last.  *)
(*                                                                         *)
(* Closing the last window leaves bottom_window and top_window at it, so   *)
(* that create_window takes a freed window for the end of the ring.        *)
(***************************************************************************)
EXTENDS Integers, SequencesExt

NULL == -1

VARIABLES
    bottom_window, top_window,
    window,         \* the name, next and prev of every address that was a window
    vault,          \* what was on the screen where the window at an address is
    screen,
    opened          \* history: the open windows, the oldest first

windows == <<bottom_window, top_window, window, vault, screen, opened>>

InitWindows(desktop) ==
    /\ bottom_window = NULL /\ top_window = NULL
    /\ window = << >> /\ vault = << >> /\ opened = << >>
    /\ screen = desktop

IsOpen(w) == \E i \in DOMAIN opened : opened[i] = w

(* f, and where f says nothing, g.                                         *)
Over(f, g) == [x \in DOMAIN f \cup DOMAIN g |-> IF x \in DOMAIN f THEN f[x] ELSE g[x]]

(* The windows that create_window and close_window write links of.         *)
Touched(w) == IF bottom_window = NULL THEN {w} ELSE {w, bottom_window, top_window}
Joined(w) == {w, window[w].next, window[w].prev}

(* The end of create_window: w becomes the top of the ring.                *)
create_window(w, name) ==
    LET end == IF bottom_window = NULL THEN w ELSE bottom_window
        top == IF bottom_window = NULL THEN w ELSE top_window
        new == Over([a \in {w} |-> [name |-> name, next |-> end, prev |-> top]], window)
    IN  /\ window' = [new EXCEPT ![end].prev = w, ![top].next = w]
        /\ bottom_window' = end
        /\ top_window' = w
        /\ opened' = Append(opened, w)

Draw(points, name) == screen' = Over([p \in points |-> name], screen)

(* Mutant: the snapshot is taken of the window that has just been drawn.   *)
SnapshotTooLate(w, points) == vault' = Over([a \in {w} |-> [p \in points |-> screen'[p]]], vault)

take_snapshot(w, points) == vault' = Over([a \in {w} |-> [p \in points |-> screen[p]]], vault)

open_window(w, name, points) ==
    create_window(w, name) /\ Draw(points, name) /\ take_snapshot(w, points)

(* Mutant: the window below does not become the top.                       *)
StillTop(w) == top_window

TopWithout(w) == IF top_window = w THEN window'[w].prev ELSE top_window

redraw_snapshot(w) == screen' = Over(vault[w], screen)

close_window(w) ==
    /\ redraw_snapshot(w)
    /\ window' = [window EXCEPT ![window[w].prev].next = window[w].next,
                                ![window[w].next].prev = window[w].prev]
    /\ top_window' = TopWithout(w)
    /\ bottom_window' = IF bottom_window = w THEN window'[w].next ELSE bottom_window
    /\ opened' = RemoveAt(opened, CHOOSE i \in DOMAIN opened : opened[i] = w)
    /\ UNCHANGED vault

-----------------------------------------------------------------------------
(* The ring holds the open windows, the oldest at the bottom and the       *)
(* youngest on top.                                                        *)
Ring ==
    LET n == Len(opened)
        After(i) == opened[(i % n) + 1]
    IN  n > 0 => /\ bottom_window = opened[1] /\ top_window = opened[n]
                 /\ \A i \in 1 .. n : /\ window[opened[i]].next = After(i)
                                      /\ window[After(i)].prev = opened[i]
=============================================================================
