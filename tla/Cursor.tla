------------------------------- MODULE Cursor -------------------------------
(***************************************************************************)
(* The cursor of screen.c.  A task draws characters, opens a window and    *)
(* closes it, and moves the cursor along; the timer interrupt makes the    *)
(* cursor blink, and the keyboard interrupt moves it with the arrow keys.  *)
(* All of them invert the cell under the cursor.  cursor_busy keeps the    *)
(* timer from doing so while the task does, but not the keyboard.  A       *)
(* handler runs with interrupts off and is one step; the task can be       *)
(* interrupted between any two of its own.                                 *)
(*                                                                         *)
(* Positions are in pixels.  A cell is an inverted one or not; every       *)
(* position is a multiple of CELL, as the first one is and moves are.      *)
(***************************************************************************)
EXTENDS Integers, Sequences

CONSTANTS
    CELL,           \* 8 pixels
    Screen, Base,   \* bounds: of reset_cursor_bounds, and of the first task
    Nested,         \* the windows, each opened over the one before
    Right           \* bound: no text is written so far to the right

Bounds == [min_x : Nat, max_x : Nat, min_y : Nat, max_y : Nat]
Window == [bounds : Bounds, area : Bounds, start : Nat \X Nat]
ASSUME GeometryAssumption ==
    /\ CELL \in Nat \ {0} /\ Right \in Nat
    /\ {Screen, Base} \subseteq Bounds
    /\ Nested \in Seq(Window)

(* The bounds have room for a cell, and a program puts the cursor inside   *)
(* of its bounds and not less than a cell from the edges of the screen.    *)
ASSUME RoomAssumption ==
    /\ \A b \in {Base} \cup {Nested[i].bounds : i \in DOMAIN Nested} :
         b.min_x + CELL <= b.max_x /\ b.min_y + CELL <= b.max_y
    /\ \A i \in DOMAIN Nested :
         LET b == Nested[i].bounds   x == Nested[i].start[1]   y == Nested[i].start[2] IN
         /\ b.min_x <= x /\ x <= b.max_x /\ b.min_y <= y /\ y + CELL <= b.max_y
         /\ Screen.min_x + CELL <= x /\ x + CELL <= Screen.max_x
         /\ Screen.min_y + CELL <= y /\ y + CELL <= Screen.max_y

VARIABLES
    cursor_x, cursor_y, cursor_bounds, cursor_visible, cursor_busy,
    inverted,       \* the cells of the screen that are inverted
    stack,          \* cb, cpos and vault of the open windows
    pc, then,       \* the task's next step, and what follows a move_cursor
    h, v,           \* how far move_cursor moves
    saw,            \* the cursor_visible that the task has loaded
    spoiled         \* history: what the code does not keep apart, see below

position == <<cursor_x, cursor_y>>
screen == <<position, cursor_bounds, cursor_visible, cursor_busy, inverted, stack>>
registers == <<then, h, v, saw>>
vars == <<screen, pc, registers, spoiled>>

-----------------------------------------------------------------------------
(***************************************************************************)
(* What spoils the screen or the cursor:                                   *)
(*   wrapped  a character was drawn with the cursor at the right edge:     *)
(*            move_cursor is called inside draw_char, inverts the cell     *)
(*            that was just restored and clears cursor_busy                *)
(*   arrow    an arrow key came while the task was drawing or moving       *)
(*   covered  a window was drawn or removed over a visible cursor, or over *)
(*            a part of it                                                 *)
(*   astray   closing a window did not bring the cursor back               *)
(* From then on the inverted cells are not followed any further; nothing   *)
(* depends on them.                                                        *)
(***************************************************************************)
Spoils(what, when, cells) ==
    /\ spoiled' = IF when THEN spoiled \cup {what} ELSE spoiled
    /\ inverted' = IF spoiled' = {} THEN cells ELSE {}
Inverts(cells) == Spoils("", FALSE, cells)

Init ==
    /\ cursor_x = Base.min_x /\ cursor_y = Base.min_y /\ cursor_bounds = Base
    /\ cursor_visible = FALSE /\ cursor_busy = FALSE
    /\ inverted = {} /\ stack = << >>
    /\ pc = "rest" /\ then = "rest" /\ h = 0 /\ v = 0
    /\ saw = FALSE /\ spoiled = {}

Toggled == IF position \in inverted THEN inverted \ {position} ELSE inverted \cup {position}
Goto(from, to) == pc = from /\ pc' = to

Within(x, y, b) == b.min_x <= x /\ x < b.max_x /\ b.min_y <= y /\ y < b.max_y
Inside(dx, dy) == Within(cursor_x + dx * CELL, cursor_y + dy * CELL, cursor_bounds)

-----------------------------------------------------------------------------
(* The timer; which tick is a sixteenth is left open.                      *)
cursor_blink ==
    /\ ~cursor_busy
    /\ cursor_visible' = ~cursor_visible
    /\ Inverts(Toggled)
    /\ UNCHANGED <<position, cursor_bounds, cursor_busy, stack, pc, registers>>

(* The keyboard handler calls move_cursor, whatever the task is doing.     *)
Arrow(dx, dy) ==
    /\ cursor_busy' = FALSE
    /\ IF Inside(dx, dy)
         THEN /\ cursor_visible' = FALSE
              /\ cursor_x' = cursor_x + dx * CELL /\ cursor_y' = cursor_y + dy * CELL
         ELSE UNCHANGED <<cursor_visible, position>>
    /\ Spoils("arrow", pc # "rest", IF cursor_visible /\ Inside(dx, dy) THEN Toggled ELSE inverted)
    /\ UNCHANGED <<cursor_bounds, stack, pc, registers>>

HandleKeyboardInterrupt == \E d \in {-1, 1} : Arrow(d, 0) \/ Arrow(0, d)

-----------------------------------------------------------------------------
(* Integer division of C, towards zero.                                    *)
Quotient(a) == IF a >= 0 THEN a \div CELL ELSE -((-a) \div CELL)

(* set_cursor(x, y) calls move_cursor with the difference, and goes on as  *)
(* next says.                                                              *)
set_cursor(x, y, next) ==
    /\ h' = Quotient(x - cursor_x) /\ v' = Quotient(y - cursor_y)
    /\ then' = next /\ saw' = FALSE
    /\ pc' = "move"

(* Mutant: the interrupt is not kept out.                                  *)
NotBusy(from, to) ==
    /\ Goto(from, to)
    /\ UNCHANGED <<screen, registers, spoiled>>

SetBusy(from, to) ==
    /\ Goto(from, to) /\ cursor_busy' = TRUE
    /\ UNCHANGED <<position, cursor_bounds, cursor_visible, inverted, stack, registers, spoiled>>

ClearBusy(from, to) ==
    /\ Goto(from, to) /\ cursor_busy' = FALSE
    /\ then' = "rest" /\ h' = 0 /\ v' = 0 /\ saw' = FALSE
    /\ UNCHANGED <<position, cursor_bounds, cursor_visible, inverted, stack, spoiled>>

(* The task loads cursor_visible, and then toggles the cursor or not.      *)
Look(from, to) ==
    /\ Goto(from, to) /\ saw' = cursor_visible
    /\ UNCHANGED <<screen, then, h, v, spoiled>>

Toggle(from, to) ==
    /\ Goto(from, to) /\ Inverts(IF saw THEN Toggled ELSE inverted)
    /\ UNCHANGED <<position, cursor_bounds, cursor_visible, cursor_busy, stack, registers>>

(* move_cursor refuses to leave the window, and leaves the cursor off.     *)
MoveInside ==
    /\ Goto("inside", IF Inside(h, v) THEN "moveLook" ELSE "moveDone")
    /\ UNCHANGED <<screen, registers, spoiled>>

MoveHide ==
    /\ Goto("hide", "step")
    /\ cursor_visible' = (cursor_visible /\ ~saw)
    /\ UNCHANGED <<position, cursor_bounds, cursor_busy, inverted, stack, registers, spoiled>>

MoveStep ==
    /\ Goto("step", "moveDone")
    /\ cursor_x' = cursor_x + h * CELL /\ cursor_y' = cursor_y + v * CELL
    /\ UNCHANGED <<cursor_bounds, cursor_visible, cursor_busy, inverted, stack, registers, spoiled>>

move_cursor ==
    \/ SetBusy("move", "inside") \/ MoveInside
    \/ Look("moveLook", "moveToggle") \/ Toggle("moveToggle", "hide")
    \/ MoveHide \/ MoveStep
    \/ ClearBusy("moveDone", then)

-----------------------------------------------------------------------------
(* draw_char: a new line is a move; any other character is drawn with the  *)
(* cursor off, after a move to the next line if it is at the right edge.   *)
NewLine ==
    /\ pc = "rest"
    /\ set_cursor(cursor_bounds.min_x, cursor_y + CELL, "rest")
    /\ UNCHANGED <<screen, spoiled>>

DrawBusy == cursor_x < Right /\ SetBusy("rest", "eraseLook")

(* Mutant: the edge is noticed a column too late.                          *)
EdgeTooLate == cursor_x >= cursor_bounds.max_x + CELL

AtEdge == cursor_x >= cursor_bounds.max_x

DrawEdge ==
    /\ pc = "edge"
    /\ IF AtEdge THEN set_cursor(cursor_bounds.min_x, cursor_y + CELL, "advance")
                 ELSE pc' = "advance" /\ UNCHANGED registers
    /\ Spoils("wrapped", AtEdge, inverted)
    /\ UNCHANGED <<position, cursor_bounds, cursor_visible, cursor_busy, stack>>

DrawAdvance ==
    /\ Goto("advance", "showLook")
    /\ cursor_x' = cursor_x + CELL
    /\ UNCHANGED <<cursor_y, cursor_bounds, cursor_visible, cursor_busy, inverted, stack,
                   registers, spoiled>>

draw_char ==
    \/ NewLine \/ DrawBusy
    \/ Look("eraseLook", "erase") \/ Toggle("erase", "edge")
    \/ DrawEdge \/ DrawAdvance
    \/ Look("showLook", "show") \/ Toggle("show", "drawDone")
    \/ ClearBusy("drawDone", "rest")

-----------------------------------------------------------------------------
(* A program opens its window, which covers the one below, and puts the    *)
(* cursor into it, and brings it back when it closes the window.  Nothing  *)
(* is done about a cursor that is visible meanwhile, wholly or in part     *)
(* under the window.                                                       *)
depth == Len(stack)
Overlaps(c, b) == /\ b.min_x < c[1] + CELL /\ c[1] < b.max_x
                  /\ b.min_y < c[2] + CELL /\ c[2] < b.max_y
Area == {c \in inverted \cup {position} : Overlaps(c, Nested[depth].area)}
Covers(cells) == Spoils("covered", cursor_visible /\ position \in Area, cells)

store_cursor_attributes ==
    /\ depth < Len(Nested) /\ Goto("rest", "snapshot")
    /\ stack' = Append(stack, [cb |-> cursor_bounds, cpos |-> position, vault |-> {}])
    /\ UNCHANGED <<position, cursor_bounds, cursor_visible, cursor_busy, inverted, registers, spoiled>>

take_snapshot ==
    /\ Goto("snapshot", "paint")
    /\ stack' = [stack EXCEPT ![depth].vault = Area \cap inverted]
    /\ Covers(inverted)
    /\ UNCHANGED <<position, cursor_bounds, cursor_visible, cursor_busy, registers>>

draw_window ==
    /\ Goto("paint", "enter")
    /\ Covers(inverted \ Area)
    /\ UNCHANGED <<position, cursor_bounds, cursor_visible, cursor_busy, stack, registers>>

reset_cursor_bounds ==
    /\ pc = "enter"
    /\ cursor_bounds' = Screen
    /\ set_cursor(Nested[depth].start[1], Nested[depth].start[2], "bounds")
    /\ UNCHANGED <<position, cursor_visible, cursor_busy, inverted, stack, spoiled>>

set_cursor_bounds ==
    /\ Goto("bounds", "rest")
    /\ cursor_bounds' = Nested[depth].bounds
    /\ UNCHANGED <<position, cursor_visible, cursor_busy, inverted, stack, registers, spoiled>>

redraw_snapshot ==
    /\ depth > 0 /\ Goto("rest", "restore")
    /\ Covers((inverted \ Area) \cup stack[depth].vault)
    /\ UNCHANGED <<position, cursor_bounds, cursor_visible, cursor_busy, stack, registers>>

(* Mutant: the cursor is moved before the bounds are those of the window   *)
(* below.                                                                  *)
BoundsKept(b) == cursor_bounds

BoundsRestored(b) == b

restore_cursor ==
    LET below == stack[depth] IN
    /\ pc = "restore"
    /\ cursor_bounds' = BoundsRestored(below.cb)
    /\ set_cursor(below.cpos[1], below.cpos[2], "closed")
    /\ UNCHANGED <<position, cursor_visible, cursor_busy, inverted, stack, spoiled>>

Closed ==
    /\ Goto("closed", "rest")
    /\ Spoils("astray", position # stack[depth].cpos, inverted)
    /\ stack' = SubSeq(stack, 1, depth - 1)
    /\ UNCHANGED <<position, cursor_bounds, cursor_visible, cursor_busy, registers>>

open_window ==
    store_cursor_attributes \/ take_snapshot \/ draw_window \/ reset_cursor_bounds \/ set_cursor_bounds
close_window == redraw_snapshot \/ restore_cursor \/ Closed

Next == \/ cursor_blink \/ HandleKeyboardInterrupt
        \/ move_cursor \/ draw_char \/ open_window \/ close_window
Spec == Init /\ [][Next]_vars

-----------------------------------------------------------------------------
(* When the task is not drawing, the cell under a visible cursor is        *)
(* inverted and no other: the cursor leaves no trace, wherever the timer   *)
(* interrupts fall, unless it is spoiled as said above.                    *)
NoTrace ==
    pc = "rest" /\ spoiled = {} => inverted = IF cursor_visible THEN {position} ELSE {}

(* No character is drawn wholly outside of the window, but on its last     *)
(* line.  It begins less than a cell left of the window or above it, for   *)
(* set_cursor rounds, and before the right and the lower edge.  It may     *)
(* still overhang these by less than a cell, for draw_char asks only where *)
(* a character begins, and the bounds are no multiples of a cell (616 to   *)
(* 624 in the launcher, which ends at 620).  Between two characters the    *)
(* cursor may stand one cell further to the right.                         *)
InWindow ==
    LET b == cursor_bounds IN
    pc \in {"rest", "advance"} /\ {"arrow", "astray"} \cap spoiled = {} =>
      /\ b.min_y - CELL < cursor_y /\ cursor_y < b.max_y
      /\ b.min_x - CELL < cursor_x
      /\ cursor_y + CELL < b.max_y =>
           cursor_x < (IF pc = "advance" THEN b.max_x ELSE b.max_x + CELL)

(* Closing a window brings cursor and bounds back to where they were, if   *)
(* they were such that the cursor was inside.                              *)
CursorRestored ==
    pc = "closed" /\ "arrow" \notin spoiled =>
      LET below == stack[depth] IN
      /\ cursor_bounds = below.cb
      /\ Within(below.cpos[1], below.cpos[2], below.cb) => position = below.cpos
=============================================================================
