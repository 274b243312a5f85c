---------------------------- MODULE CursorProofs ----------------------------
(***************************************************************************)
(* For every size of a cell, of the screen and of the windows: the cursor  *)
(* leaves no trace, closing a window brings it back, and text stays in the *)
(* window.                                                                 *)
(***************************************************************************)
EXTENDS Cursor, SequenceTheorems, TLAPS

USE GeometryAssumption


Point == Int \X Int
Saved == [cb : Bounds, cpos : Point, vault : SUBSET Point]

(* What follows a move; and where the top of the stack is worked on.       *)
Follows == {"rest", "bounds", "closed", "advance"}
Moving == {"move", "inside", "moveLook", "moveToggle", "hide", "step", "moveDone"}
Drawing == {"eraseLook", "erase", "edge", "advance", "showLook", "show", "drawDone"}
Opening == {"snapshot", "paint", "enter", "bounds", "restore", "closed"}

TypeOK ==
    /\ cursor_x \in Int /\ cursor_y \in Int /\ cursor_bounds \in Bounds
    /\ cursor_visible \in BOOLEAN /\ cursor_busy \in BOOLEAN /\ saw \in BOOLEAN
    /\ h \in Int /\ v \in Int
    /\ inverted \in SUBSET Point
    /\ stack \in Seq(Saved) /\ Len(stack) <= Len(Nested)
    /\ pc \in {"rest"} \cup Moving \cup Drawing \cup Opening
    /\ then \in Follows
    /\ pc \in Opening \/ (pc \in Moving /\ then \in Opening) => Len(stack) > 0

(* The cell under a visible cursor is inverted when neither the task nor   *)
(* move_cursor has restored it; then the timer is kept out.                *)
Shown == inverted = IF cursor_visible THEN {position} ELSE {}
Restored == {"hide", "step", "edge", "advance", "showLook", "show"}
Traceless ==
    spoiled = {} =>
      /\ pc \in Restored => inverted = {}
      /\ pc \notin Restored => Shown
      /\ pc \in (Moving \ {"move"}) \cup Drawing => cursor_busy
      /\ pc \in {"moveToggle", "hide", "erase", "show"} => saw = cursor_visible
      /\ pc = "step" => ~cursor_visible
      /\ pc \in Moving => then # "advance"
      /\ \A i \in DOMAIN stack : stack[i].vault = {}

(* Every position differs from the first by whole cells.                   *)
Apart(x, y) == \E k \in Int : x = y + k * CELL
Aligned(p) == Apart(p[1], Base.min_x) /\ Apart(p[2], Base.min_y)

Placed == Aligned(position) /\ \A i \in DOMAIN stack : Aligned(stack[i].cpos)

(* A window that is being closed: where move_cursor is to go, and is.      *)
Goal == stack[Len(stack)].cpos
InReach == Within(Goal[1], Goal[2], stack[Len(stack)].cb)
Closing == (pc \in Moving /\ then = "closed") \/ pc = "closed"
Arrived == pc = "closed" \/ (pc = "moveDone" /\ then = "closed")
Returning ==
    "arrow" \notin spoiled /\ Closing =>
      /\ cursor_bounds = stack[Len(stack)].cb
      /\ ~Arrived => cursor_x + h * CELL = Goal[1] /\ cursor_y + v * CELL = Goal[2]
      /\ pc \in Moving \ {"move", "inside", "moveDone"} => InReach
      /\ Arrived /\ InReach => position = Goal

-----------------------------------------------------------------------------
LEMMA QuotientInt == \A a \in Int : Quotient(a) \in Int
BY DEF Quotient

(* What is left of the stack when its top is taken off.                    *)
LEMMA Front ==
    ASSUME NEW S, NEW s \in Seq(S), NEW n \in Nat, n <= Len(s)
    PROVE  /\ SubSeq(s, 1, n) \in Seq(S) /\ Len(SubSeq(s, 1, n)) = n
           /\ \A i \in 1 .. n : SubSeq(s, 1, n)[i] = s[i]
OBVIOUS

LEMMA Dropped ==
    ASSUME NEW S, NEW s \in Seq(S), Len(s) > 0
    PROVE  LET t == SubSeq(s, 1, Len(s) - 1)
           IN  t \in Seq(S) /\ Len(t) = Len(s) - 1 /\ \A i \in 1 .. Len(t) : t[i] = s[i]
<1>1. Len(s) - 1 \in Nat /\ Len(s) - 1 <= Len(s)
  OBVIOUS
<1> QED BY <1>1, Front

LEMMA NestedTyped ==
    ASSUME TypeOK, Len(stack) > 0
    PROVE  /\ Nested[depth].bounds \in Bounds /\ Nested[depth].start \in Int \X Int
           /\ depth \in DOMAIN stack /\ stack[depth] \in Saved
<1>1. stack \in Seq(Saved) /\ Nested \in Seq(Window) /\ Len(stack) <= Len(Nested)
  BY DEF TypeOK
<1>2. depth \in 1 .. Len(Nested) /\ depth \in 1 .. Len(stack) /\ DOMAIN stack = 1 .. Len(stack)
  BY <1>1 DEF depth
<1>3. Nested[depth] \in Window
  BY <1>1, <1>2
<1>4. stack[depth] \in Saved
  BY <1>1, <1>2
<1> QED BY <1>2, <1>3, <1>4 DEF Window

LEMMA ToggledTyped == ASSUME TypeOK PROVE Toggled \in SUBSET Point
BY DEF TypeOK, Toggled, Point, position

LEMMA AreaTyped == ASSUME TypeOK PROVE Area \in SUBSET Point
BY DEF TypeOK, Area, Point, position

(* The types.                                                              *)
LEMMA Types == Spec => []TypeOK
<1>1. Init => TypeOK
  <2> SUFFICES ASSUME Init PROVE TypeOK
    OBVIOUS
  <2>1. Base.min_x \in Int /\ Base.min_y \in Int /\ Base \in Bounds
    BY DEF Bounds
  <2>2. stack \in Seq(Saved) /\ Len(stack) = 0 /\ Len(Nested) \in Nat
    BY DEF Init
  <2>3. /\ cursor_x \in Int /\ cursor_y \in Int /\ cursor_bounds \in Bounds
        /\ h \in Int /\ v \in Int /\ inverted \in SUBSET Point
    BY <2>1 DEF Init
  <2>4. cursor_visible \in BOOLEAN /\ cursor_busy \in BOOLEAN /\ saw \in BOOLEAN
    BY DEF Init
  <2>5. /\ pc \in {"rest"} \cup Moving \cup Drawing \cup Opening /\ then \in Follows
        /\ ~(pc \in Opening \/ (pc \in Moving /\ then \in Opening))
    BY DEF Init, Follows, Moving, Opening
  <2> QED BY <2>2, <2>3, <2>4, <2>5 DEF TypeOK
<1>2. TypeOK /\ [Next]_vars => TypeOK'
  <2> SUFFICES ASSUME TypeOK, [Next]_vars PROVE TypeOK'
    OBVIOUS
  <2> USE DEF TypeOK, Goto, Inverts, Spoils, position, Moving, Drawing, Opening, Follows
  <2>1. CASE cursor_blink
    BY <2>1, ToggledTyped DEF cursor_blink, registers
  <2>2. CASE HandleKeyboardInterrupt
    <3>1. PICK dx \in Int, dy \in Int : Arrow(dx, dy)
      BY <2>2 DEF HandleKeyboardInterrupt
    <3>2. cursor_x + dx * CELL \in Int /\ cursor_y + dy * CELL \in Int
      OBVIOUS
    <3> QED BY <3>1, <3>2, ToggledTyped DEF Arrow, registers
  <2>3. CASE move_cursor
    <3>1. CASE SetBusy("move", "inside")
      BY <3>1 DEF SetBusy, registers
    <3>2. CASE MoveInside
      BY <3>2 DEF MoveInside, screen, registers
    <3>3. CASE Look("moveLook", "moveToggle")
      BY <3>3 DEF Look, screen
    <3>4. CASE Toggle("moveToggle", "hide")
      BY <3>4, ToggledTyped DEF Toggle, registers
    <3>5. CASE MoveHide
      BY <3>5 DEF MoveHide, registers
    <3>6. CASE MoveStep
      <4>1. cursor_x + h * CELL \in Int /\ cursor_y + v * CELL \in Int
        OBVIOUS
      <4> QED BY <3>6, <4>1 DEF MoveStep, registers
    <3>7. CASE ClearBusy("moveDone", then)
      <4>1. pc' \in Follows /\ (pc' \in Opening => Len(stack) > 0) /\ then' = "rest" /\ stack' = stack
        BY <3>7 DEF ClearBusy
      <4>2. h' = 0 /\ v' = 0 /\ UNCHANGED <<cursor_x, cursor_y, cursor_bounds, inverted>>
        BY <3>7 DEF ClearBusy
      <4>3. cursor_visible' \in BOOLEAN /\ cursor_busy' \in BOOLEAN /\ saw' \in BOOLEAN
        BY <3>7 DEF ClearBusy
      <4> QED BY <4>1, <4>2, <4>3
    <3> QED BY <2>3, <3>1, <3>2, <3>3, <3>4, <3>5, <3>6, <3>7 DEF move_cursor
  <2>4. CASE draw_char
    <3>0. Quotient(cursor_bounds.min_x - cursor_x) \in Int /\ Quotient((cursor_y + CELL) - cursor_y) \in Int
      <4>1. cursor_bounds.min_x - cursor_x \in Int /\ (cursor_y + CELL) - cursor_y \in Int
        BY DEF Bounds
      <4> QED BY <4>1, QuotientInt
    <3>1. CASE NewLine
      BY <3>0, <3>1 DEF NewLine, set_cursor, screen
    <3>2. CASE SetBusy("rest", "eraseLook")
      BY <3>2 DEF SetBusy, registers
    <3>3. CASE Look("eraseLook", "erase") \/ Look("showLook", "show")
      BY <3>3 DEF Look, screen
    <3>4. CASE Toggle("erase", "edge") \/ Toggle("show", "drawDone")
      BY <3>4, ToggledTyped DEF Toggle, registers
    <3>5. CASE DrawEdge
      BY <3>0, <3>5 DEF DrawEdge, set_cursor, registers
    <3>6. CASE DrawAdvance
      <4>1. cursor_x + CELL \in Int
        OBVIOUS
      <4> QED BY <3>6, <4>1 DEF DrawAdvance, registers
    <3>7. CASE ClearBusy("drawDone", "rest")
      <4>1. pc' = "rest" /\ then' = "rest" /\ stack' = stack
        BY <3>7 DEF ClearBusy
      <4>2. h' = 0 /\ v' = 0 /\ UNCHANGED <<cursor_x, cursor_y, cursor_bounds, inverted>>
        BY <3>7 DEF ClearBusy
      <4>3. cursor_visible' \in BOOLEAN /\ cursor_busy' \in BOOLEAN /\ saw' \in BOOLEAN
        BY <3>7 DEF ClearBusy
      <4> QED BY <4>1, <4>2, <4>3
    <3> QED BY <2>4, <3>1, <3>2, <3>3, <3>4, <3>5, <3>6, <3>7 DEF draw_char, DrawBusy
  <2>5. CASE open_window
    <3>1. CASE store_cursor_attributes
      <4>1. [cb |-> cursor_bounds, cpos |-> position, vault |-> {}] \in Saved
        BY DEF Saved, Point
      <4>2. stack' \in Seq(Saved) /\ Len(stack') = Len(stack) + 1
        BY <3>1, <4>1 DEF store_cursor_attributes
      <4> QED BY <3>1, <4>2 DEF store_cursor_attributes, depth, registers
    <3>2. CASE take_snapshot
      <4>1. stack' \in Seq(Saved) /\ Len(stack') = Len(stack)
        <5>1. depth \in DOMAIN stack /\ stack[depth] \in Saved
          BY <3>2, NestedTyped DEF take_snapshot
        <5>2. Area \cap inverted \in SUBSET Point
          BY AreaTyped
        <5>3. [stack[depth] EXCEPT !.vault = Area \cap inverted] \in Saved
          BY <5>1, <5>2 DEF Saved
        <5>4. stack' = [stack EXCEPT ![depth] = [stack[depth] EXCEPT !.vault = Area \cap inverted]]
          BY <3>2 DEF take_snapshot
        <5> QED BY <5>1, <5>3, <5>4
      <4> QED BY <3>2, <4>1 DEF take_snapshot, Covers, registers
    <3>3. CASE draw_window
      BY <3>3 DEF draw_window, Covers, registers
    <3>4. CASE reset_cursor_bounds
      <4>1. Nested[depth].start[1] \in Int /\ Nested[depth].start[2] \in Int
        BY <3>4, NestedTyped DEF reset_cursor_bounds
      <4>2. /\ Nested[depth].start[1] - cursor_x \in Int /\ Nested[depth].start[2] - cursor_y \in Int
        BY <4>1
      <4>3. h' \in Int /\ v' \in Int
        BY <3>4, <4>2, QuotientInt DEF reset_cursor_bounds, set_cursor
      <4> QED BY <3>4, <4>3 DEF reset_cursor_bounds, set_cursor
    <3>5. CASE set_cursor_bounds
      BY <3>5, NestedTyped DEF set_cursor_bounds, registers
    <3> QED BY <2>5, <3>1, <3>2, <3>3, <3>4, <3>5 DEF open_window
  <2>6. CASE close_window
    <3>1. CASE redraw_snapshot
      BY <3>1, NestedTyped DEF redraw_snapshot, Covers, registers, depth, Saved
    <3>2. CASE restore_cursor
      <4>1. stack[depth].cb \in Bounds /\ stack[depth].cpos[1] \in Int /\ stack[depth].cpos[2] \in Int
        BY <3>2, NestedTyped DEF restore_cursor, Saved, Point
      <4>2. stack[depth].cpos[1] - cursor_x \in Int /\ stack[depth].cpos[2] - cursor_y \in Int
        BY <4>1
      <4>3. h' \in Int /\ v' \in Int
        BY <3>2, <4>2, QuotientInt DEF restore_cursor, set_cursor
      <4> QED BY <3>2, <4>1, <4>3 DEF restore_cursor, BoundsRestored, set_cursor
    <3>3. CASE Closed
      <4>1. stack' \in Seq(Saved) /\ Len(stack') = Len(stack) - 1
        <5>1. stack' = SubSeq(stack, 1, Len(stack) - 1) /\ Len(stack) > 0
          BY <3>3 DEF Closed, depth
        <5> QED BY <5>1, Dropped
      <4> QED BY <3>3, <4>1 DEF Closed, registers
    <3> QED BY <2>6, <3>1, <3>2, <3>3 DEF close_window
  <2>7. CASE UNCHANGED vars
    BY <2>7 DEF vars, screen, registers
  <2> QED BY <2>1, <2>2, <2>3, <2>4, <2>5, <2>6, <2>7 DEF Next
<1> QED BY <1>1, <1>2, PTL DEF Spec

-----------------------------------------------------------------------------
(* A step after which the screen is unspoiled spoils nothing.              *)
LEMMA Unspoiled ==
    ASSUME NEW what, NEW when, NEW cells, Spoils(what, when, cells), spoiled' = {}
    PROVE  spoiled = {} /\ ~when /\ inverted' = cells
BY DEF Spoils

LEMMA ToggledShown ==
    ASSUME cursor_visible \in BOOLEAN
    PROVE  /\ Shown => Toggled = IF cursor_visible THEN {} ELSE {position}
           /\ inverted = {} => Toggled = {position}
BY DEF Shown, Toggled

(* A window that does not cover the cursor touches no inverted cell.       *)
LEMMA AreaClear ==
    ASSUME Shown, ~(cursor_visible /\ position \in Area)
    PROVE  Area \cap inverted = {} /\ inverted \ Area = inverted
BY DEF Shown

(* The phases of the task.                                                 *)
LEMMA Phases ==
    /\ Restored \subseteq (Moving \ {"move"}) \cup Drawing
    /\ {"moveToggle", "hide", "erase", "show"} \subseteq (Moving \ {"move"}) \cup Drawing
    /\ "rest" \notin Moving \cup Drawing /\ "step" \in Restored
    /\ Opening \cap ((Moving \cup Drawing) \ {"advance"}) = {}
BY DEF Restored, Moving, Drawing, Opening

(* Wherever the interrupts fall, the cell under the cursor is as the       *)
(* task's next step expects it.                                            *)
LEMMA TracelessStep ==
    ASSUME TypeOK, Traceless, [Next]_vars
    PROVE  Traceless'
<1> SUFFICES ASSUME spoiled' = {} PROVE Traceless'
  BY DEF Traceless
<1> DEFINE Phase ==
      /\ pc \in Restored => inverted = {}
      /\ pc \notin Restored => Shown
      /\ pc \in (Moving \ {"move"}) \cup Drawing => cursor_busy
      /\ pc \in {"moveToggle", "hide", "erase", "show"} => saw = cursor_visible
      /\ pc = "step" => ~cursor_visible
      /\ pc \in Moving => then # "advance"
    Empty == \A i \in DOMAIN stack : stack[i].vault = {}
<1> SUFFICES Phase' /\ Empty'
  BY DEF Traceless
<1>0. spoiled = {} => Phase /\ Empty
  BY DEF Traceless
<1>b. cursor_visible \in BOOLEAN /\ cursor_busy \in BOOLEAN /\ saw \in BOOLEAN
  BY DEF TypeOK
<1> USE DEF Goto, Inverts
<1>1. CASE cursor_blink
  <2>1. spoiled = {} /\ inverted' = Toggled
    BY <1>1, Unspoiled DEF cursor_blink
  <2>2. ~cursor_busy /\ cursor_visible' = ~cursor_visible /\ UNCHANGED <<position, stack, pc, then, saw>>
    BY <1>1 DEF cursor_blink, registers
  <2>3. pc \notin (Moving \ {"move"}) \cup Drawing /\ Shown
    BY <1>0, <2>1, <2>2, Phases
  <2>4. Shown'
    BY <1>b, <2>1, <2>2, <2>3, ToggledShown DEF Shown
  <2> QED BY <1>0, <2>1, <2>2, <2>3, <2>4, Phases
<1>2. CASE HandleKeyboardInterrupt
  <2>1. PICK dx, dy : Arrow(dx, dy)
    BY <1>2 DEF HandleKeyboardInterrupt
  <2>2. /\ spoiled = {} /\ pc = "rest" /\ UNCHANGED <<pc, stack>>
        /\ inverted' = IF cursor_visible /\ Inside(dx, dy) THEN Toggled ELSE inverted
    BY <2>1 DEF Arrow, Spoils
  <2>3. Shown
    BY <1>0, <2>2, Phases
  <2>4. Shown'
    <3>1. CASE Inside(dx, dy)
      <4>1. cursor_visible' = FALSE
        BY <2>1, <3>1 DEF Arrow
      <4>2. inverted' = {}
        BY <1>b, <2>2, <2>3, <3>1, ToggledShown DEF Shown
      <4> QED BY <4>1, <4>2 DEF Shown
    <3>2. CASE ~Inside(dx, dy)
      BY <2>1, <2>2, <2>3, <3>2 DEF Arrow, Shown
    <3> QED BY <3>1, <3>2
  <2> QED BY <1>0, <2>2, <2>4, Phases
<1>3. CASE move_cursor
  <2>0. spoiled = {}
    <3>1. spoiled' = spoiled \/ Spoils("", FALSE, IF saw THEN Toggled ELSE inverted)
      BY <1>3 DEF move_cursor, SetBusy, MoveInside, Look, Toggle, MoveHide, MoveStep, ClearBusy, screen
    <3> QED BY <3>1, Unspoiled
  <2>1. CASE SetBusy("move", "inside")
    BY <1>0, <2>0, <2>1 DEF SetBusy, Moving, Restored, Drawing, Shown, registers
  <2>2. CASE MoveInside
    BY <1>0, <2>0, <2>2 DEF MoveInside, Moving, Restored, Drawing, Shown, screen, registers
  <2>3. CASE Look("moveLook", "moveToggle")
    BY <1>0, <2>0, <2>3 DEF Look, Moving, Restored, Drawing, Shown, screen
  <2>4. CASE Toggle("moveToggle", "hide")
    <3>1. Shown /\ saw = cursor_visible /\ inverted' = IF saw THEN Toggled ELSE inverted
      BY <1>0, <2>0, <2>4 DEF Toggle, Spoils, Restored
    <3>2. inverted' = {}
      BY <1>b, <3>1, ToggledShown DEF Shown
    <3> QED BY <1>0, <2>0, <2>4, <3>1, <3>2 DEF Toggle, Moving, Restored, Drawing, registers
  <2>5. CASE MoveHide
    BY <1>0, <1>b, <2>0, <2>5 DEF MoveHide, Moving, Restored, Drawing, registers
  <2>6. CASE MoveStep
    <3>1. inverted' = {} /\ cursor_visible' = FALSE
      BY <1>0, <1>b, <2>0, <2>6 DEF MoveStep, Restored
    <3>2. Shown'
      BY <3>1 DEF Shown
    <3> QED BY <1>0, <2>0, <2>6, <3>2 DEF MoveStep, Moving, Restored, Drawing, registers
  <2>7. CASE ClearBusy("moveDone", then)
    <3>1. pc' \in {"rest", "bounds", "closed"} /\ Shown /\ UNCHANGED <<inverted, position, cursor_visible, stack>>
      BY <1>0, <2>0, <2>7 DEF ClearBusy, TypeOK, Follows, Moving, Restored
    <3> QED BY <1>0, <2>0, <3>1 DEF Moving, Restored, Drawing, Shown
  <2> QED BY <1>3, <2>1, <2>2, <2>3, <2>4, <2>5, <2>6, <2>7 DEF move_cursor
<1>4. CASE draw_char
  <2>1. CASE NewLine
    BY <1>0, <2>1 DEF NewLine, set_cursor, Moving, Restored, Drawing, Shown, screen
  <2>2. CASE SetBusy("rest", "eraseLook")
    BY <1>0, <2>2 DEF SetBusy, Moving, Restored, Drawing, Shown, registers
  <2>3. CASE Look("eraseLook", "erase") \/ Look("showLook", "show")
    BY <1>0, <2>3 DEF Look, Moving, Restored, Drawing, Shown, screen
  <2>4. CASE Toggle("erase", "edge")
    <3>1. spoiled = {} /\ inverted' = IF saw THEN Toggled ELSE inverted
      BY <2>4 DEF Toggle, Spoils
    <3>2. Shown /\ saw = cursor_visible
      BY <1>0, <2>4, <3>1 DEF Toggle, Restored
    <3>3. inverted' = {}
      BY <1>b, <3>1, <3>2, ToggledShown DEF Shown
    <3> QED BY <1>0, <2>4, <3>1, <3>3 DEF Toggle, Moving, Restored, Drawing, registers
  <2>5. CASE Toggle("show", "drawDone")
    <3>1. spoiled = {} /\ inverted' = IF saw THEN Toggled ELSE inverted
      BY <2>5 DEF Toggle, Spoils
    <3>2. inverted = {} /\ saw = cursor_visible
      BY <1>0, <2>5, <3>1 DEF Toggle, Restored
    <3>3. inverted' = IF cursor_visible THEN {position} ELSE {}
      BY <1>b, <3>1, <3>2, ToggledShown
    <3> QED BY <1>0, <2>5, <3>1, <3>3 DEF Toggle, Moving, Restored, Drawing, Shown, registers
  <2>6. CASE DrawEdge
    <3>1. spoiled = {} /\ ~AtEdge /\ inverted' = inverted
      BY <2>6, Unspoiled DEF DrawEdge
    <3> QED BY <1>0, <2>6, <3>1 DEF DrawEdge, Moving, Restored, Drawing, registers
  <2>7. CASE DrawAdvance
    BY <1>0, <2>7 DEF DrawAdvance, Moving, Restored, Drawing, registers
  <2>8. CASE ClearBusy("drawDone", "rest")
    BY <1>0, <2>8 DEF ClearBusy, Moving, Restored, Drawing, Shown
  <2> QED BY <1>4, <2>1, <2>2, <2>3, <2>4, <2>5, <2>6, <2>7, <2>8 DEF draw_char, DrawBusy
<1>5. CASE open_window
  <2>1. CASE store_cursor_attributes
    <3>1. Empty'
      BY <1>0, <2>1 DEF store_cursor_attributes, TypeOK
    <3> QED BY <1>0, <2>1, <3>1 DEF store_cursor_attributes, Moving, Restored, Drawing, Shown, registers
  <2>2. CASE take_snapshot
    <3>1. spoiled = {} /\ ~(cursor_visible /\ position \in Area) /\ inverted' = inverted
      BY <2>2, Unspoiled DEF take_snapshot, Covers
    <3>2. Area \cap inverted = {}
      BY <1>0, <2>2, <3>1, AreaClear DEF take_snapshot, Restored
    <3>3. Empty'
      BY <1>0, <2>2, <3>1, <3>2 DEF take_snapshot, TypeOK
    <3> QED BY <1>0, <2>2, <3>1, <3>3 DEF take_snapshot, Moving, Restored, Drawing, Shown, registers
  <2>3. CASE draw_window
    <3>1. spoiled = {} /\ ~(cursor_visible /\ position \in Area) /\ inverted' = inverted \ Area
      BY <2>3, Unspoiled DEF draw_window, Covers
    <3>2. inverted' = inverted
      BY <1>0, <2>3, <3>1, AreaClear DEF draw_window, Restored
    <3> QED BY <1>0, <2>3, <3>1, <3>2 DEF draw_window, Moving, Restored, Drawing, Shown, registers
  <2>4. CASE reset_cursor_bounds
    BY <1>0, <2>4 DEF reset_cursor_bounds, set_cursor, Moving, Restored, Drawing, Shown
  <2>5. CASE set_cursor_bounds
    BY <1>0, <2>5 DEF set_cursor_bounds, Moving, Restored, Drawing, Shown, registers
  <2> QED BY <1>5, <2>1, <2>2, <2>3, <2>4, <2>5 DEF open_window
<1>6. CASE close_window
  <2>1. CASE redraw_snapshot
    <3>1. /\ spoiled = {} /\ ~(cursor_visible /\ position \in Area)
          /\ inverted' = (inverted \ Area) \cup stack[depth].vault
      BY <2>1, Unspoiled DEF redraw_snapshot, Covers
    <3>2. stack[depth].vault = {}
      <4>1. depth \in DOMAIN stack
        BY <2>1, NestedTyped DEF redraw_snapshot, depth
      <4> QED BY <1>0, <3>1, <4>1
    <3>3. inverted' = inverted
      BY <1>0, <2>1, <3>1, <3>2, AreaClear DEF redraw_snapshot, Restored
    <3> QED BY <1>0, <2>1, <3>1, <3>3 DEF redraw_snapshot, Moving, Restored, Drawing, Shown, registers
  <2>2. CASE restore_cursor
    BY <1>0, <2>2 DEF restore_cursor, set_cursor, Moving, Restored, Drawing, Shown
  <2>3. CASE Closed
    <3>1. spoiled = {} /\ inverted' = inverted
      BY <2>3, Unspoiled DEF Closed
    <3>2. Empty'
      <4>1. Len(stack) > 0 /\ stack' = SubSeq(stack, 1, Len(stack) - 1) /\ stack \in Seq(Saved)
        BY <2>3 DEF Closed, depth, TypeOK, Opening
      <4>2. stack' \in Seq(Saved) /\ Len(stack') = Len(stack) - 1 /\ \A i \in 1 .. Len(stack') : stack'[i] = stack[i]
        BY <4>1, Dropped
      <4> QED BY <1>0, <3>1, <4>1, <4>2
    <3> QED BY <1>0, <2>3, <3>1, <3>2 DEF Closed, Moving, Restored, Drawing, Shown, registers
  <2> QED BY <1>6, <2>1, <2>2, <2>3 DEF close_window
<1>7. CASE UNCHANGED vars
  BY <1>0, <1>7 DEF vars, screen, registers, Shown
<1> QED BY <1>1, <1>2, <1>3, <1>4, <1>5, <1>6, <1>7 DEF Next

(* When the task is not drawing, the cell under a visible cursor is        *)
(* inverted and no other, wherever the timer interrupts fall: the cursor   *)
(* leaves no trace (cursor_blink, move_cursor and draw_char of screen.c).  *)
THEOREM NoTraceLeft == Spec => []NoTrace
<1>1. Init => Traceless
  <2> SUFFICES ASSUME Init PROVE Traceless
    OBVIOUS
  <2>1. DOMAIN stack = {}
    BY DEF Init
  <2> QED BY <2>1 DEF Init, Traceless, Restored, Moving, Drawing, Shown
<1>2. TypeOK /\ Traceless /\ [Next]_vars => Traceless'
  BY TracelessStep
<1>3. Traceless => NoTrace
  BY DEF Traceless, NoTrace, Shown, Restored
<1> QED BY <1>1, <1>2, <1>3, Types, PTL DEF Spec

-----------------------------------------------------------------------------
(* Quotient loses nothing of a distance between two aligned positions.     *)
LEMMA Whole == ASSUME NEW k \in Int PROVE Quotient(k * CELL) = k
<1>1. \A n \in Nat : (n * CELL) \div CELL = n
  OBVIOUS
<1>2. CASE k >= 0
  <2>1. k * CELL >= 0
    BY <1>2
  <2> QED BY <1>1, <1>2, <2>1 DEF Quotient
<1>3. CASE k < 0
  <2>1. k * CELL < 0 /\ -(k * CELL) = (-k) * CELL
    BY <1>3
  <2> QED BY <1>1, <1>3, <2>1 DEF Quotient
<1> QED BY <1>2, <1>3

LEMMA ApartMoved ==
    ASSUME NEW x \in Int, NEW y \in Int, NEW k \in Int, Apart(x, y)
    PROVE  Apart(x + k * CELL, y)
<1>1. PICK j \in Int : x = y + j * CELL
  BY DEF Apart
<1>2. x + k * CELL = y + (j + k) * CELL
  BY <1>1
<1> QED BY <1>2 DEF Apart

LEMMA ApartReached ==
    ASSUME NEW x \in Int, NEW y \in Int, NEW b \in Int, Apart(x, b), Apart(y, b)
    PROVE  y + Quotient(x - y) * CELL = x
<1>1. PICK j \in Int, k \in Int : x = b + j * CELL /\ y = b + k * CELL
  BY DEF Apart
<1>2. x - y = (j - k) * CELL
  BY <1>1
<1>3. Quotient(x - y) = j - k
  BY <1>2, Whole
<1> QED BY <1>1, <1>2, <1>3

LEMMA AlignedMoved ==
    ASSUME TypeOK, Aligned(position), NEW dx \in Int, NEW dy \in Int
    PROVE  Aligned(<<cursor_x + dx * CELL, cursor_y + dy * CELL>>)
<1>1. Apart(cursor_x, Base.min_x) /\ Apart(cursor_y, Base.min_y)
  BY DEF Aligned, position
<1>2. cursor_x \in Int /\ cursor_y \in Int /\ Base.min_x \in Int /\ Base.min_y \in Int
  BY DEF TypeOK, Bounds
<1> QED BY <1>1, <1>2, ApartMoved DEF Aligned

(* All moves are by whole cells.                                           *)
LEMMA PlacedStep ==
    ASSUME TypeOK, Placed, [Next]_vars
    PROVE  Placed'
<1> DEFINE Stay == position' = position
           Keep == stack' = stack
<1>0. Aligned(position) /\ stack \in Seq(Saved)
  BY DEF Placed, TypeOK
<1>a. ASSUME Stay, Keep PROVE Placed'
  BY <1>a DEF Placed, Aligned, Apart
<1>b. ASSUME NEW dx \in Int, NEW dy \in Int, Keep,
             cursor_x' = cursor_x + dx * CELL, cursor_y' = cursor_y + dy * CELL
      PROVE  Placed'
  <2>1. Aligned(position)'
    BY <1>0, <1>b, AlignedMoved DEF Aligned, Apart, position
  <2> QED BY <1>b, <2>1 DEF Placed, Aligned, Apart
<1>c. ASSUME Stay, DOMAIN stack' \subseteq DOMAIN stack,
             \A i \in DOMAIN stack' : stack'[i].cpos = stack[i].cpos
      PROVE  Placed'
  BY <1>c DEF Placed, Aligned, Apart
<1>1. CASE cursor_blink
  BY <1>1, <1>a DEF cursor_blink
<1>2. CASE HandleKeyboardInterrupt
  <2>1. PICK dx \in Int, dy \in Int : Arrow(dx, dy)
    BY <1>2 DEF HandleKeyboardInterrupt
  <2> QED BY <2>1, <1>a, <1>b DEF Arrow
<1>3. CASE move_cursor
  <2>1. CASE MoveStep
    BY <2>1, <1>b DEF MoveStep, TypeOK
  <2>2. CASE ~MoveStep
    BY <1>3, <1>a, <2>2 DEF move_cursor, SetBusy, MoveInside, Look, Toggle, MoveHide, ClearBusy, screen
  <2> QED BY <2>1, <2>2
<1>4. CASE draw_char
  <2>1. CASE DrawAdvance
    <3> DEFINE right == 1
               down == 0
    <3>1. right \in Int /\ down \in Int
      OBVIOUS
    <3>2. cursor_x' = cursor_x + right * CELL /\ cursor_y' = cursor_y + down * CELL /\ stack' = stack
      BY <2>1 DEF DrawAdvance, TypeOK
    <3> HIDE DEF right, down
    <3> QED BY <3>1, <3>2, <1>b
  <2>2. CASE ~DrawAdvance
    BY <1>4, <1>a, <2>2 DEF draw_char, NewLine, DrawBusy, SetBusy, Look, Toggle, DrawEdge, ClearBusy, screen
  <2> QED BY <2>1, <2>2
<1>5. CASE open_window
  <2>1. CASE store_cursor_attributes
    <3>1. /\ position' = position /\ Len(stack') = Len(stack) + 1 /\ DOMAIN stack' = 1 .. Len(stack) + 1
          /\ \A i \in DOMAIN stack : stack'[i] = stack[i]
          /\ stack'[Len(stack) + 1].cpos = position
      BY <1>0, <2>1 DEF store_cursor_attributes
    <3>2. \A i \in DOMAIN stack' : i \in DOMAIN stack \/ i = Len(stack) + 1
      BY <1>0, <3>1
    <3>3. \A i \in DOMAIN stack' : Aligned(stack'[i].cpos)
      BY <3>1, <3>2 DEF Placed
    <3> QED BY <1>0, <3>1, <3>3 DEF Placed, Aligned, Apart
  <2>2. CASE take_snapshot
    BY <1>0, <1>c, <2>2 DEF take_snapshot
  <2>3. CASE draw_window \/ reset_cursor_bounds \/ set_cursor_bounds
    BY <1>a, <2>3 DEF draw_window, reset_cursor_bounds, set_cursor_bounds
  <2> QED BY <1>5, <2>1, <2>2, <2>3 DEF open_window
<1>6. CASE close_window
  <2>1. CASE redraw_snapshot \/ restore_cursor
    BY <1>a, <2>1 DEF redraw_snapshot, restore_cursor
  <2>2. CASE Closed
    <3>1. Len(stack) > 0 /\ stack' = SubSeq(stack, 1, Len(stack) - 1)
      BY <2>2 DEF Closed, Goto, depth, TypeOK, Opening
    <3>2. stack' \in Seq(Saved) /\ Len(stack') = Len(stack) - 1 /\ \A i \in 1 .. Len(stack') : stack'[i] = stack[i]
      BY <1>0, <3>1, Dropped
    <3>3. DOMAIN stack' \subseteq DOMAIN stack /\ \A i \in DOMAIN stack' : stack'[i].cpos = stack[i].cpos
      BY <1>0, <3>1, <3>2
    <3>4. position' = position
      BY <2>2 DEF Closed
    <3> QED BY <1>c, <3>3, <3>4
  <2> QED BY <1>6, <2>1, <2>2 DEF close_window
<1>7. CASE UNCHANGED vars
  BY <1>7, <1>a DEF vars, screen
<1> QED BY <1>1, <1>2, <1>3, <1>4, <1>5, <1>6, <1>7 DEF Next

(* What is spoiled stays so.                                               *)
LEMMA SpoiledGrows == ASSUME [Next]_vars PROVE spoiled \subseteq spoiled'
BY DEF Next, cursor_blink, HandleKeyboardInterrupt, Arrow, move_cursor, SetBusy, MoveInside, Look, Toggle,
       MoveHide, MoveStep, ClearBusy, draw_char, NewLine, DrawBusy, DrawEdge, DrawAdvance, open_window,
       store_cursor_attributes, take_snapshot, draw_window, reset_cursor_bounds, set_cursor_bounds,
       close_window, redraw_snapshot, restore_cursor, Closed, Covers, Inverts, Spoils, screen, vars

(* restore_cursor aims at the position that was saved, and no step but an  *)
(* arrow key leads move_cursor away from it.                               *)
LEMMA ReturningStep ==
    ASSUME TypeOK, Placed, Returning, [Next]_vars
    PROVE  Returning'
<1> SUFFICES ASSUME "arrow" \notin spoiled', Closing' PROVE Returning'
  BY DEF Returning
<1> DEFINE top == stack[Len(stack)]
           Still == UNCHANGED <<cursor_x, cursor_y, cursor_bounds, stack, h, v, then>>
<1> USE DEF Goto
<1>0. spoiled \subseteq spoiled' /\ "arrow" \notin spoiled
  BY SpoiledGrows
<1>a. ASSUME Still, pc' = pc PROVE Returning'
  BY <1>0, <1>a DEF Returning, Closing, Arrived, Goal, InReach, Within, position
<1>1. CASE cursor_blink
  BY <1>1, <1>a DEF cursor_blink, registers, position
<1>2. CASE HandleKeyboardInterrupt
  BY <1>2 DEF HandleKeyboardInterrupt, Arrow, Spoils, Closing, Moving
<1>3. CASE move_cursor
  <2>0. pc \in Moving /\ then = "closed"
    BY <1>3 DEF move_cursor, SetBusy, MoveInside, Look, Toggle, MoveHide, MoveStep, ClearBusy, Moving, Closing, Follows,
                TypeOK, screen, registers
  <2>1. CASE SetBusy("move", "inside")
    BY <1>0, <2>0, <2>1 DEF SetBusy, Returning, Closing, Arrived, Goal, InReach, Within, Moving, position, registers
  <2>2. CASE MoveInside
    <3>1. /\ cursor_bounds = top.cb /\ cursor_x + h * CELL = Goal[1] /\ cursor_y + v * CELL = Goal[2]
          /\ Still
      BY <1>0, <2>0, <2>2 DEF MoveInside, Returning, Closing, Arrived, screen, registers, position
    <3>2. Inside(h, v) <=> InReach
      BY <3>1 DEF Inside, InReach
    <3>3. InReach' <=> InReach
      BY <3>1 DEF InReach, Goal, Within
    <3> QED BY <2>2, <3>1, <3>2, <3>3 DEF MoveInside, Returning, Closing, Arrived, Goal, Moving
  <2>3. CASE Look("moveLook", "moveToggle") \/ Toggle("moveToggle", "hide") \/ MoveHide
    BY <1>0, <2>0, <2>3
       DEF Look, Toggle, MoveHide, Returning, Closing, Arrived, Goal, InReach, Within, Moving, position, screen, registers
  <2>4. CASE MoveStep
    <3>1. /\ cursor_bounds = top.cb /\ cursor_x + h * CELL = Goal[1] /\ cursor_y + v * CELL = Goal[2]
      BY <1>0, <2>0, <2>4 DEF MoveStep, Returning, Closing, Arrived
    <3>2. Goal \in Int \X Int
      BY <2>0, NestedTyped DEF TypeOK, Opening, Saved, Point, Goal, depth
    <3>3. position' = <<Goal[1], Goal[2]>> /\ Goal' = Goal /\ pc' = "moveDone"
      BY <2>4, <3>1 DEF MoveStep, Goal, position
    <3>4. cursor_bounds' = stack'[Len(stack')].cb /\ then' = "closed"
      BY <2>0, <2>4, <3>1 DEF MoveStep, registers
    <3>5. position' = Goal'
      BY <3>2, <3>3
    <3> QED BY <3>3, <3>4, <3>5 DEF Returning, Arrived, Moving
  <2>5. CASE ClearBusy("moveDone", then)
    BY <1>0, <2>0, <2>5 DEF ClearBusy, Returning, Closing, Arrived, Goal, InReach, Within, Moving, position
  <2> QED BY <1>3, <2>1, <2>2, <2>3, <2>4, <2>5 DEF move_cursor
<1>4. CASE draw_char
  BY <1>4 DEF draw_char, NewLine, DrawBusy, SetBusy, Look, Toggle, DrawEdge, DrawAdvance, ClearBusy, set_cursor,
              Closing, Moving, registers
<1>5. CASE open_window
  BY <1>5 DEF open_window, store_cursor_attributes, take_snapshot, draw_window, reset_cursor_bounds,
              set_cursor_bounds, set_cursor, Closing, Moving, registers
<1>6. CASE close_window
  <2>1. CASE redraw_snapshot \/ Closed
    BY <2>1 DEF redraw_snapshot, Closed, Closing, Moving
  <2>2. CASE restore_cursor
    <3>1. /\ cursor_bounds' = top.cb /\ stack' = stack /\ pc' = "move" /\ then' = "closed"
          /\ h' = Quotient(Goal[1] - cursor_x) /\ v' = Quotient(Goal[2] - cursor_y)
          /\ cursor_x' = cursor_x /\ cursor_y' = cursor_y
      BY <2>2 DEF restore_cursor, BoundsRestored, set_cursor, Goal, depth, position
    <3>2. depth \in DOMAIN stack /\ stack[depth] \in Saved /\ depth = Len(stack)
      BY <2>2, NestedTyped DEF restore_cursor, TypeOK, Opening, depth
    <3>3. Goal[1] \in Int /\ Goal[2] \in Int
      BY <3>2 DEF Saved, Point, Goal
    <3>4. /\ Apart(Goal[1], Base.min_x) /\ Apart(cursor_x, Base.min_x)
          /\ Apart(Goal[2], Base.min_y) /\ Apart(cursor_y, Base.min_y)
      BY <3>2 DEF Placed, Aligned, Goal, position
    <3>5. cursor_x \in Int /\ cursor_y \in Int /\ Base.min_x \in Int /\ Base.min_y \in Int
      BY DEF TypeOK, Bounds
    <3>6. cursor_x + h' * CELL = Goal[1] /\ cursor_y + v' * CELL = Goal[2]
      BY <3>1, <3>3, <3>4, <3>5, ApartReached
    <3> QED BY <3>1, <3>6 DEF Returning, Arrived, Goal, Moving
  <2> QED BY <1>6, <2>1, <2>2 DEF close_window
<1>7. CASE UNCHANGED vars
  BY <1>7, <1>a DEF vars, screen, registers, position
<1> QED BY <1>1, <1>2, <1>3, <1>4, <1>5, <1>6, <1>7 DEF Next

LEMMA Begins == ASSUME Init PROVE Placed /\ Returning
<1> DEFINE none == 0
<1>1. none \in Int /\ Base.min_x = Base.min_x + none * CELL /\ Base.min_y = Base.min_y + none * CELL
  BY DEF Bounds
<1> HIDE DEF none
<1>2. Apart(Base.min_x, Base.min_x) /\ Apart(Base.min_y, Base.min_y)
  BY <1>1 DEF Apart
<1>3. Aligned(position) /\ DOMAIN stack = {}
  BY <1>2 DEF Init, Aligned, position
<1> QED BY <1>3 DEF Init, Placed, Returning, Closing, Moving

(* Closing a window brings cursor and bounds back to where they were when  *)
(* it was opened (store_cursor_attributes and restore_cursor of screen.c). *)
THEOREM CursorIsRestored == Spec => []CursorRestored
<1>1. Init => Placed /\ Returning
  BY Begins
<1>2. TypeOK /\ Placed /\ Returning /\ [Next]_vars => Placed' /\ Returning'
  BY PlacedStep, ReturningStep
<1>3. Returning => CursorRestored
  BY DEF Returning, CursorRestored, Closing, Arrived, Goal, InReach, depth
<1> QED BY <1>1, <1>2, <1>3, Types, PTL DEF Spec

-----------------------------------------------------------------------------
(* What InWindow says of the position, for a position and bounds; it is so *)
(* of all that is saved, too.                                              *)
Fit(x, y, b) ==
    /\ b.min_y - CELL < y /\ y < b.max_y /\ b.min_x - CELL < x
    /\ y + CELL < b.max_y => x < b.max_x + CELL
Roomy(b) == b.min_x + CELL <= b.max_x /\ b.min_y + CELL <= b.max_y
Near(a, c) == c - CELL < a /\ a < c + CELL

(* Where move_cursor is to go: within the bounds, to a new line when the   *)
(* cursor is at the right edge, and next to the start of a window.         *)
ToX == cursor_x + h * CELL
ToY == cursor_y + v * CELL
Going(to) == pc \in Moving /\ then = to
Settled == pc = "rest" \/ pc \in Drawing \/ Going("rest") \/ Going("advance")
Tidy ==
    /\ \A i \in DOMAIN stack :
         Fit(stack[i].cpos[1], stack[i].cpos[2], stack[i].cb) /\ Roomy(stack[i].cb)
    /\ Settled => Fit(cursor_x, cursor_y, cursor_bounds) /\ Roomy(cursor_bounds)
    /\ pc \in {"moveLook", "moveToggle", "hide", "step"} => Inside(h, v)
    /\ Going("advance") /\ pc # "moveDone" =>
         cursor_bounds.min_x <= ToX /\ ToX < cursor_bounds.min_x + CELL /\ v = 1
    /\ (Going("advance") /\ pc = "moveDone") \/ pc = "advance" =>
         (cursor_y + CELL < cursor_bounds.max_y => cursor_x < cursor_bounds.max_x)
    /\ Going("bounds") =>
         /\ cursor_bounds = Screen
         /\ pc # "moveDone" => Near(ToX, Nested[depth].start[1]) /\ Near(ToY, Nested[depth].start[2])
    /\ (Going("bounds") /\ pc = "moveDone") \/ pc = "bounds" =>
         Near(cursor_x, Nested[depth].start[1]) /\ Near(cursor_y, Nested[depth].start[2])
TidyInv == {"arrow", "astray"} \cap spoiled = {} => Tidy

(* Division towards zero rounds towards where the cursor comes from.       *)
LEMMA Rounded ==
    ASSUME NEW x \in Int, NEW y \in Int
    PROVE  /\ Near(y + Quotient(x - y) * CELL, x)
           /\ y >= x => y + Quotient(x - y) * CELL >= x
<1> DEFINE q(n) == n \div CELL
<1>1. ASSUME NEW n \in Nat
      PROVE  q(n) \in Nat /\ 0 <= q(n) * CELL /\ q(n) * CELL <= n /\ n < q(n) * CELL + CELL
  <2>1. n = CELL * q(n) + (n % CELL) /\ n % CELL \in 0 .. CELL - 1 /\ q(n) \in Nat
    OBVIOUS
  <2> HIDE DEF q
  <2>2. CELL * q(n) = q(n) * CELL /\ q(n) * CELL \in Nat
    BY <2>1
  <2> QED BY <2>1, <2>2
<1>2. CASE x - y >= 0
  <2>1. x - y \in Nat /\ Quotient(x - y) = q(x - y)
    BY <1>2 DEF Quotient
  <2> DEFINE p == q(x - y) * CELL
  <2>2. 0 <= p /\ p <= x - y /\ x - y < p + CELL /\ p \in Int
    BY <1>1, <2>1
  <2>3. y + Quotient(x - y) * CELL = y + p
    BY <2>1
  <2> HIDE DEF p, q
  <2>4. Near(y + p, x) /\ (y >= x => y + p >= x)
    BY <1>2, <2>2 DEF Near
  <2> QED BY <2>3, <2>4
<1>3. CASE x - y < 0
  <2>1. y - x \in Nat /\ -(x - y) = y - x /\ Quotient(x - y) = -q(y - x)
    BY <1>3 DEF Quotient
  <2> DEFINE p == q(y - x) * CELL
  <2>2. p <= y - x /\ y - x < p + CELL /\ p \in Int /\ q(y - x) \in Nat
    BY <1>1, <2>1
  <2>3. Quotient(x - y) * CELL = -p
    <3> HIDE DEF q
    <3>1. (-q(y - x)) * CELL = -(q(y - x) * CELL)
      BY <2>2
    <3> QED BY <2>1, <3>1
  <2> HIDE DEF p, q
  <2>4. Near(y - p, x) /\ y - p >= x
    BY <1>3, <2>2 DEF Near
  <2>5. y + Quotient(x - y) * CELL = y - p
    BY <2>2, <2>3
  <2> QED BY <2>4, <2>5
<1> QED BY <1>2, <1>3

LEMMA InsideFits ==
    ASSUME TypeOK, NEW dx \in Int, NEW dy \in Int, Inside(dx, dy)
    PROVE  Fit(cursor_x + dx * CELL, cursor_y + dy * CELL, cursor_bounds)
<1> DEFINE x == cursor_x + dx * CELL   y == cursor_y + dy * CELL   b == cursor_bounds
<1>1. /\ b.min_x <= x /\ x < b.max_x /\ b.min_y <= y /\ y < b.max_y
      /\ x \in Int /\ y \in Int /\ b.min_x \in Int /\ b.max_x \in Int /\ b.min_y \in Int /\ b.max_y \in Int
  BY DEF TypeOK, Inside, Within, Bounds
<1> HIDE DEF x, y, b
<1>2. Fit(x, y, b)
  BY <1>1 DEF Fit
<1> QED BY <1>2 DEF x, y, b

(* A character further to the left: in the same line or the next.          *)
LEMMA LineBelow ==
    ASSUME TypeOK, cursor_x >= cursor_bounds.max_x, Roomy(cursor_bounds)
    PROVE  LET x == cursor_x + Quotient(cursor_bounds.min_x - cursor_x) * CELL
           IN  /\ cursor_bounds.min_x <= x /\ x < cursor_bounds.min_x + CELL
               /\ Quotient((cursor_y + CELL) - cursor_y) = 1
<1>1. cursor_bounds.min_x \in Int /\ cursor_bounds.max_x \in Int /\ cursor_x \in Int /\ cursor_y \in Int
  BY DEF TypeOK, Bounds
<1>2. cursor_x >= cursor_bounds.min_x
  BY <1>1 DEF Roomy
<1>3. (cursor_y + CELL) - cursor_y = 1 * CELL
  BY <1>1
<1>4. Quotient((cursor_y + CELL) - cursor_y) = 1
  <2> DEFINE one == 1
  <2>1. one \in Int /\ (cursor_y + CELL) - cursor_y = one * CELL
    BY <1>3
  <2> HIDE DEF one
  <2>2. Quotient(one * CELL) = one
    BY <2>1, Whole
  <2> QED BY <2>1, <2>2 DEF one
<1> QED BY <1>1, <1>2, <1>4, Rounded DEF Near

(* The start of a window is in the screen, with a cell around it; next to  *)
(* it the cursor is in the window.                                         *)
LEMMA NextTo ==
    ASSUME NEW x \in Int, NEW y \in Int, NEW sx \in Int, NEW sy \in Int, NEW b \in Bounds,
           Near(x, sx), Near(y, sy)
    PROVE  /\ (/\ b.min_x + CELL <= sx /\ sx + CELL <= b.max_x
               /\ b.min_y + CELL <= sy /\ sy + CELL <= b.max_y) => Within(x, y, b)
           /\ (/\ b.min_x <= sx /\ sx <= b.max_x
               /\ b.min_y <= sy /\ sy + CELL <= b.max_y) => Fit(x, y, b)
<1>1. b.min_x \in Int /\ b.max_x \in Int /\ b.min_y \in Int /\ b.max_y \in Int /\ CELL \in Int
  BY DEF Bounds
<1>2. sx - CELL < x /\ x < sx + CELL /\ sy - CELL < y /\ y < sy + CELL
  BY DEF Near
<1> HIDE GeometryAssumption
<1>3. ASSUME b.min_x + CELL <= sx, sx + CELL <= b.max_x, b.min_y + CELL <= sy, sy + CELL <= b.max_y
      PROVE  Within(x, y, b)
  <2>1. b.min_x <= x
    BY <1>1, <1>2, <1>3
  <2>2. x < b.max_x
    BY <1>1, <1>2, <1>3
  <2>3. b.min_y <= y /\ y < b.max_y
    BY <1>1, <1>2, <1>3
  <2> QED BY <2>1, <2>2, <2>3 DEF Within
<1>4. ASSUME b.min_x <= sx, sx <= b.max_x, b.min_y <= sy, sy + CELL <= b.max_y
      PROVE  Fit(x, y, b)
  <2>1. b.min_y - CELL < y /\ y < b.max_y
    BY <1>1, <1>2, <1>4
  <2>2. b.min_x - CELL < x
    BY <1>1, <1>2, <1>4
  <2>3. x < b.max_x + CELL
    BY <1>1, <1>2, <1>4
  <2> QED BY <2>1, <2>2, <2>3 DEF Fit
<1> QED BY <1>3, <1>4

LEMMA StartFits ==
    ASSUME TypeOK, Len(stack) > 0, NEW x \in Int, NEW y \in Int,
           Near(x, Nested[depth].start[1]), Near(y, Nested[depth].start[2])
    PROVE  /\ Within(x, y, Screen)
           /\ Fit(x, y, Nested[depth].bounds) /\ Roomy(Nested[depth].bounds)
<1> DEFINE b == Nested[depth].bounds   sx == Nested[depth].start[1]   sy == Nested[depth].start[2]
<1>1. depth \in DOMAIN Nested
  BY DEF TypeOK, depth
<1>2. /\ b.min_x + CELL <= b.max_x /\ b.min_y + CELL <= b.max_y
      /\ b.min_x <= sx /\ sx <= b.max_x /\ b.min_y <= sy /\ sy + CELL <= b.max_y
      /\ Screen.min_x + CELL <= sx /\ sx + CELL <= Screen.max_x
      /\ Screen.min_y + CELL <= sy /\ sy + CELL <= Screen.max_y
  BY <1>1, RoomAssumption
<1>3. b \in Bounds /\ sx \in Int /\ sy \in Int /\ Near(x, sx) /\ Near(y, sy) /\ Screen \in Bounds
  BY NestedTyped
<1> HIDE DEF b, sx, sy
<1>4. Within(x, y, Screen)
  BY <1>2, <1>3, NextTo
<1>5. Fit(x, y, b) /\ Roomy(b)
  BY <1>2, <1>3, NextTo DEF Roomy
<1> QED BY <1>4, <1>5 DEF b

(* The steps by which the cursor does not leave where it should be.        *)
LEMMA TidyStep ==
    ASSUME TypeOK, Returning, TidyInv, [Next]_vars
    PROVE  TidyInv'
<1> SUFFICES ASSUME {"arrow", "astray"} \cap spoiled' = {} PROVE Tidy'
  BY DEF TidyInv
<1> DEFINE Stays == UNCHANGED <<cursor_x, cursor_y, cursor_bounds>>
           Keeps == UNCHANGED stack
           b == cursor_bounds
           Entries == \A i \in DOMAIN stack :
                        Fit(stack[i].cpos[1], stack[i].cpos[2], stack[i].cb) /\ Roomy(stack[i].cb)
           AtStart == Near(cursor_x, Nested[depth].start[1]) /\ Near(cursor_y, Nested[depth].start[2])
           ToStart == Near(ToX, Nested[depth].start[1]) /\ Near(ToY, Nested[depth].start[2])
<1> USE DEF Goto
<1>0. Tidy /\ {"arrow", "astray"} \cap spoiled = {}
  BY SpoiledGrows DEF TidyInv
<1>t. /\ cursor_x \in Int /\ cursor_y \in Int /\ h \in Int /\ v \in Int /\ ToX \in Int /\ ToY \in Int
      /\ b.min_x \in Int /\ b.max_x \in Int /\ b.min_y \in Int /\ b.max_y \in Int
  BY DEF TypeOK, Bounds, ToX, ToY
<1>e. Entries
  BY <1>0 DEF Tidy
<1>a. ASSUME Stays, Keeps, UNCHANGED <<pc, then, h, v>> PROVE Tidy'
  BY <1>0, <1>a DEF Tidy, Settled, Going, Inside, Within, ToX, ToY, Fit, Roomy, Near, depth
<1>f. ASSUME Keeps PROVE Entries'
  BY <1>e, <1>f DEF Fit, Roomy
(* Steps of the task that only go on to where the same is asked of it.     *)
<1>g. ASSUME Stays, Keeps, Settled, pc' = "rest" \/ pc' \in Drawing \ {"advance"} PROVE Tidy'
  <2>1. Entries'
    BY <1>f, <1>g
  <2>2. Fit(cursor_x, cursor_y, cursor_bounds)' /\ Roomy(cursor_bounds)'
    BY <1>0, <1>g DEF Tidy, Fit, Roomy
  <2>3. pc' \notin Moving /\ pc' \notin {"advance", "bounds", "moveLook", "moveToggle", "hide", "step"}
    BY <1>g DEF Drawing, Moving
  <2> QED BY <2>1, <2>2, <2>3 DEF Tidy, Going
<1>w. ASSUME Keeps, pc' \in Opening \ {"advance", "bounds"} PROVE Tidy'
  <2>1. Entries'
    BY <1>f, <1>w
  <2>2. pc' \notin Moving \cup Drawing \cup {"rest"}
    BY <1>w DEF Drawing, Moving, Opening
  <2> QED BY <1>w, <2>1, <2>2 DEF Tidy, Going, Settled, Moving, Opening, Drawing
<1>1. CASE cursor_blink
  BY <1>1, <1>a DEF cursor_blink, registers, position
<1>2. CASE HandleKeyboardInterrupt
  <2>1. PICK dx \in Int, dy \in Int : Arrow(dx, dy)
    BY <1>2 DEF HandleKeyboardInterrupt
  <2>2. pc = "rest" /\ UNCHANGED <<pc, stack, cursor_bounds>>
    BY <2>1 DEF Arrow, Spoils, registers
  <2>3. Fit(cursor_x', cursor_y', b)
    <3>1. CASE Inside(dx, dy)
      BY <2>1, <3>1, InsideFits DEF Arrow
    <3>2. CASE ~Inside(dx, dy)
      BY <1>0, <2>1, <2>2, <3>2 DEF Arrow, position, Tidy, Settled
    <3> QED BY <3>1, <3>2
  <2>4. Fit(cursor_x, cursor_y, cursor_bounds)' /\ Roomy(cursor_bounds)'
    BY <1>0, <2>2, <2>3 DEF Tidy, Settled, Fit, Roomy
  <2> QED BY <1>f, <2>2, <2>4 DEF Tidy, Going, Moving, Drawing
<1>3. CASE move_cursor
  <2>1. CASE SetBusy("move", "inside")
    BY <1>0, <2>1 DEF SetBusy, Tidy, Settled, Going, Inside, Within, ToX, ToY, Fit, Roomy, Near, depth,
                      Moving, Drawing, registers, position
  <2>2. CASE MoveInside
    <3>1. Stays /\ Keeps /\ UNCHANGED <<then, h, v>> /\ pc = "inside"
          /\ pc' = IF Inside(h, v) THEN "moveLook" ELSE "moveDone"
      BY <2>2 DEF MoveInside, screen, position, registers
    <3>2. CASE Inside(h, v)
      BY <1>0, <3>1, <3>2 DEF Tidy, Settled, Going, Inside, Within, ToX, ToY, Fit, Roomy, Near, depth, Moving, Drawing
    <3>3. CASE ~Inside(h, v)
      <4>1. then # "bounds"
        <5> SUFFICES ASSUME then = "bounds" PROVE FALSE
          OBVIOUS
        <5>1. b = Screen /\ ToStart /\ Len(stack) > 0
          BY <1>0, <3>1 DEF Tidy, Going, Moving, Opening, TypeOK
        <5>2. Within(ToX, ToY, b)
          BY <1>t, <5>1, StartFits
        <5> QED BY <3>3, <5>2 DEF Inside, ToX, ToY
      <4>2. then = "advance" => ~ cursor_y + CELL < b.max_y
        <5> SUFFICES ASSUME then = "advance", cursor_y + CELL < b.max_y PROVE FALSE
          OBVIOUS
        <5>1. b.min_x <= ToX /\ ToX < b.min_x + CELL /\ v = 1
          BY <1>0, <3>1 DEF Tidy, Going, Moving
        <5>2. Fit(cursor_x, cursor_y, b) /\ Roomy(b)
          BY <1>0, <3>1 DEF Tidy, Settled, Going, Moving
        <5>3. ToY = cursor_y + CELL
          BY <1>t, <5>1 DEF ToY
        <5>4. Within(ToX, ToY, b)
          BY <1>t, <5>1, <5>2, <5>3 DEF Within, Fit, Roomy
        <5> QED BY <3>3, <5>4 DEF Inside, ToX, ToY
      <4>3. Entries'
        BY <1>f, <3>1
      <4>4. Settled' => Fit(cursor_x, cursor_y, cursor_bounds)' /\ Roomy(cursor_bounds)'
        <5>1. Settled' => Settled
          BY <3>1 DEF Settled, Going, Moving, Drawing
        <5> QED BY <1>0, <3>1, <5>1 DEF Tidy, Fit, Roomy
      <4>5. pc' = "moveDone" /\ then' = then
        BY <3>1, <3>3
      <4> QED BY <3>1, <4>1, <4>2, <4>3, <4>4, <4>5 DEF Tidy, Going
    <3> QED BY <3>2, <3>3
  <2>3. CASE Look("moveLook", "moveToggle") \/ Toggle("moveToggle", "hide") \/ MoveHide
    <3>1. Stays /\ Keeps /\ UNCHANGED <<then, h, v>>
          /\ pc \in {"moveLook", "moveToggle", "hide"} /\ pc' \in {"moveToggle", "hide", "step"}
      BY <2>3 DEF Look, Toggle, MoveHide, screen, position, registers
    <3> QED BY <1>0, <3>1 DEF Tidy, Settled, Going, Inside, Within, ToX, ToY, Fit, Roomy, Near, depth, Moving, Drawing
  <2>4. CASE MoveStep
    <3>1. /\ pc = "step" /\ pc' = "moveDone" /\ cursor_x' = ToX /\ cursor_y' = ToY
          /\ Keeps /\ UNCHANGED <<cursor_bounds, then, h, v>>
      BY <2>4 DEF MoveStep, registers, ToX, ToY
    <3>2. Inside(h, v)
      BY <1>0, <3>1 DEF Tidy
    <3>3. Fit(ToX, ToY, b) /\ ToX < b.max_x
      BY <1>t, <3>2, InsideFits DEF Inside, Within, ToX, ToY
    <3>4. Settled' => Fit(cursor_x, cursor_y, cursor_bounds)' /\ Roomy(cursor_bounds)'
      <4>1. Settled' => Settled
        BY <3>1 DEF Settled, Going, Moving, Drawing
      <4> QED BY <1>0, <3>1, <3>3, <4>1 DEF Tidy, Fit, Roomy
    <3>5. Entries'
      BY <1>f, <3>1
    <3>6. Going("bounds") => b = Screen /\ ToStart
      BY <1>0, <3>1 DEF Tidy
    <3>7. Going("bounds")' => AtStart'
      <4>1. Going("bounds")' => Going("bounds")
        BY <3>1 DEF Going, Moving
      <4> QED BY <3>1, <3>6, <4>1 DEF Near, depth
    <3>8. Going("bounds")' => cursor_bounds' = Screen
      BY <3>1, <3>6 DEF Going, Moving
    <3> QED BY <3>1, <3>3, <3>4, <3>5, <3>7, <3>8 DEF Tidy
  <2>5. CASE ClearBusy("moveDone", then)
    <3>1. Stays /\ Keeps /\ pc = "moveDone" /\ pc' = then /\ then \in Follows
      BY <2>5 DEF ClearBusy, position, TypeOK
    <3>2. CASE then = "rest"
      BY <1>g, <3>1, <3>2 DEF Settled, Going, Moving
    <3>3. CASE then = "closed"
      BY <1>w, <3>1, <3>3 DEF Opening
    <3>4. CASE then = "bounds"
      <4>1. AtStart'
        BY <1>0, <3>1, <3>4 DEF Tidy, Going, Moving, Near, depth
      <4> QED BY <1>f, <3>1, <3>4, <4>1 DEF Tidy, Settled, Going, Moving, Drawing
    <3>5. CASE then = "advance"
      BY <1>0, <1>f, <3>1, <3>5 DEF Tidy, Settled, Going, Moving, Drawing, Fit, Roomy
    <3> QED BY <3>1, <3>2, <3>3, <3>4, <3>5 DEF Follows
  <2> QED BY <1>3, <2>1, <2>2, <2>3, <2>4, <2>5 DEF move_cursor
<1>4. CASE draw_char
  <2>1. CASE NewLine
    <3>1. Stays /\ Keeps /\ pc = "rest" /\ pc' = "move" /\ then' = "rest"
      BY <2>1 DEF NewLine, set_cursor, screen, position
    <3>2. Fit(cursor_x, cursor_y, cursor_bounds)' /\ Roomy(cursor_bounds)'
      BY <1>0, <3>1 DEF Tidy, Settled, Fit, Roomy
    <3> QED BY <1>f, <3>1, <3>2 DEF Tidy, Going
  <2>2. CASE SetBusy("rest", "eraseLook")
    BY <2>2, <1>g DEF SetBusy, Drawing, Settled, position
  <2>3. CASE Look("eraseLook", "erase") \/ Look("showLook", "show")
    BY <2>3, <1>g DEF Look, Drawing, Settled, screen, position
  <2>4. CASE Toggle("erase", "edge") \/ Toggle("show", "drawDone")
    BY <2>4, <1>g DEF Toggle, Drawing, Settled, position
  <2>5. CASE DrawEdge
    <3>1. Stays /\ Keeps /\ pc = "edge"
      BY <2>5 DEF DrawEdge, position
    <3>2. Fit(cursor_x, cursor_y, cursor_bounds)' /\ Roomy(cursor_bounds)'
      BY <1>0, <3>1 DEF Tidy, Settled, Drawing, Fit, Roomy
    <3>3. CASE AtEdge
      <4>1. /\ pc' = "move" /\ then' = "advance"
            /\ h' = Quotient(b.min_x - cursor_x) /\ v' = Quotient((cursor_y + CELL) - cursor_y)
        BY <2>5, <3>3 DEF DrawEdge, set_cursor
      <4>2. Roomy(b) /\ cursor_x >= b.max_x
        BY <1>0, <3>1, <3>3 DEF Tidy, Settled, Drawing, AtEdge
      <4>3. b.min_x <= ToX' /\ ToX' < b.min_x + CELL /\ v' = 1
        BY <3>1, <4>1, <4>2, LineBelow DEF ToX
      <4> QED BY <1>f, <3>1, <3>2, <4>1, <4>3 DEF Tidy, Going
    <3>4. CASE ~AtEdge
      <4>1. pc' = "advance" /\ cursor_x < b.max_x
        BY <1>t, <2>5, <3>4 DEF DrawEdge, AtEdge
      <4> QED BY <1>f, <3>1, <3>2, <4>1 DEF Tidy, Going, Moving
    <3> QED BY <3>3, <3>4
  <2>6. CASE DrawAdvance
    <3>1. /\ pc = "advance" /\ pc' = "showLook" /\ cursor_x' = cursor_x + CELL
          /\ UNCHANGED <<cursor_y, cursor_bounds>> /\ Keeps
      BY <2>6 DEF DrawAdvance
    <3>2. /\ Fit(cursor_x, cursor_y, b) /\ Roomy(b)
          /\ cursor_y + CELL < b.max_y => cursor_x < b.max_x
      BY <1>0, <3>1 DEF Tidy, Settled, Drawing
    <3>3. Fit(cursor_x + CELL, cursor_y, b)
      BY <1>t, <3>2 DEF Fit
    <3>4. Fit(cursor_x, cursor_y, cursor_bounds)' /\ Roomy(cursor_bounds)'
      BY <3>1, <3>2, <3>3 DEF Fit, Roomy
    <3> QED BY <1>f, <3>1, <3>4 DEF Tidy, Going, Moving
  <2>7. CASE ClearBusy("drawDone", "rest")
    BY <2>7, <1>g DEF ClearBusy, Drawing, Settled, position
  <2> QED BY <1>4, <2>1, <2>2, <2>3, <2>4, <2>5, <2>6, <2>7 DEF draw_char, DrawBusy
<1>5. CASE open_window
  <2>1. CASE store_cursor_attributes
    <3>1. /\ pc = "rest" /\ pc' = "snapshot" /\ stack \in Seq(Saved)
          /\ stack' = Append(stack, [cb |-> b, cpos |-> position, vault |-> {}])
      BY <2>1 DEF store_cursor_attributes, TypeOK
    <3>2. Fit(position[1], position[2], b) /\ Roomy(b)
      BY <1>0, <3>1 DEF Tidy, Settled, position
    <3>3. Entries'
      <4>1. \A i \in DOMAIN stack' :
              \/ i \in DOMAIN stack /\ stack'[i] = stack[i]
              \/ stack'[i] = [cb |-> b, cpos |-> position, vault |-> {}]
        BY <3>1
      <4> QED BY <1>e, <3>2, <4>1 DEF Fit, Roomy
    <3>4. pc' \notin Moving \cup Drawing
      BY <3>1 DEF Moving, Drawing
    <3> QED BY <3>1, <3>3, <3>4 DEF Tidy, Going, Settled
  <2>2. CASE take_snapshot
    <3>1. /\ pc' = "paint" /\ stack \in Seq(Saved)
          /\ stack' = [stack EXCEPT ![depth].vault = Area \cap inverted]
      BY <2>2 DEF take_snapshot, TypeOK
    <3>2. DOMAIN stack' = DOMAIN stack
          /\ \A i \in DOMAIN stack : stack'[i].cpos = stack[i].cpos /\ stack'[i].cb = stack[i].cb
      BY <3>1 DEF Saved
    <3>3. Entries'
      BY <1>e, <3>2 DEF Fit, Roomy
    <3>4. pc' \notin Moving \cup Drawing
      BY <3>1 DEF Moving, Drawing
    <3> QED BY <3>1, <3>3, <3>4 DEF Tidy, Going, Settled
  <2>3. CASE draw_window
    BY <2>3, <1>w DEF draw_window, Opening
  <2>4. CASE reset_cursor_bounds
    <3>1. /\ pc' = "move" /\ then' = "bounds" /\ cursor_bounds' = Screen /\ Keeps
          /\ h' = Quotient(Nested[depth].start[1] - cursor_x)
          /\ v' = Quotient(Nested[depth].start[2] - cursor_y)
          /\ cursor_x' = cursor_x /\ cursor_y' = cursor_y
      BY <2>4 DEF reset_cursor_bounds, set_cursor, position
    <3>2. Nested[depth].start[1] \in Int /\ Nested[depth].start[2] \in Int
      BY <2>4, NestedTyped DEF reset_cursor_bounds, TypeOK, Opening
    <3>3. Near(ToX', Nested[depth].start[1]) /\ Near(ToY', Nested[depth].start[2])
      BY <1>t, <3>1, <3>2, Rounded DEF ToX, ToY
    <3>4. ToStart'
      BY <3>1, <3>3 DEF depth, Near, ToX, ToY
    <3> QED BY <1>f, <3>1, <3>4 DEF Tidy, Going, Settled, Drawing
  <2>5. CASE set_cursor_bounds
    <3>1. /\ pc = "bounds" /\ pc' = "rest" /\ cursor_bounds' = Nested[depth].bounds /\ Keeps
          /\ cursor_x' = cursor_x /\ cursor_y' = cursor_y
      BY <2>5 DEF set_cursor_bounds, position
    <3>2. AtStart /\ Len(stack) > 0
      BY <1>0, <3>1 DEF Tidy, TypeOK, Opening
    <3>3. Fit(cursor_x, cursor_y, Nested[depth].bounds) /\ Roomy(Nested[depth].bounds)
      BY <1>t, <3>2, StartFits
    <3>4. Fit(cursor_x, cursor_y, cursor_bounds)' /\ Roomy(cursor_bounds)'
      BY <3>1, <3>3 DEF Fit, Roomy
    <3> QED BY <1>f, <3>1, <3>4 DEF Tidy, Going, Moving
  <2> QED BY <1>5, <2>1, <2>2, <2>3, <2>4, <2>5 DEF open_window
<1>6. CASE close_window
  <2>1. CASE redraw_snapshot
    BY <2>1, <1>w DEF redraw_snapshot, Opening
  <2>2. CASE restore_cursor
    <3>1. pc' = "move" /\ then' = "closed" /\ Keeps
      BY <2>2 DEF restore_cursor, set_cursor
    <3> QED BY <1>f, <3>1 DEF Tidy, Going, Settled, Drawing
  <2>3. CASE Closed
    <3>1. /\ pc = "closed" /\ pc' = "rest" /\ stack' = SubSeq(stack, 1, Len(stack) - 1)
          /\ stack \in Seq(Saved) /\ Len(stack) > 0 /\ depth = Len(stack) /\ Stays
      BY <2>3 DEF Closed, depth, TypeOK, Opening, position
    <3>2. position = stack[depth].cpos
      BY <2>3 DEF Closed, Spoils
    <3>3. b = stack[depth].cb
      BY <1>0, <3>1 DEF Returning, Closing
    <3>4. depth \in DOMAIN stack
      BY <3>1
    <3>5. Fit(position[1], position[2], b) /\ Roomy(b)
      BY <1>e, <3>2, <3>3, <3>4
    <3>6. Fit(cursor_x, cursor_y, cursor_bounds)' /\ Roomy(cursor_bounds)'
      BY <3>1, <3>5 DEF Fit, Roomy, position
    <3>7. Entries'
      <4>1. \A i \in DOMAIN stack' : i \in DOMAIN stack /\ stack'[i] = stack[i]
        BY <3>1, Dropped
      <4> QED BY <1>e, <4>1 DEF Fit, Roomy
    <3> QED BY <3>1, <3>6, <3>7 DEF Tidy, Going, Moving
  <2> QED BY <1>6, <2>1, <2>2, <2>3 DEF close_window
<1>7. CASE UNCHANGED vars
  BY <1>7, <1>a DEF vars, screen, position, registers
<1> QED BY <1>1, <1>2, <1>3, <1>4, <1>5, <1>6, <1>7 DEF Next

(* No character is drawn wholly outside of the window, but on its last     *)
(* line: it begins less than a cell left of or above it, and before the    *)
(* right and the lower edge (draw_char, move_cursor and set_cursor of      *)
(* screen.c), in windows with room for a cell.                             *)
THEOREM TextStaysInWindow == Spec => []InWindow
<1>1. Init => Placed /\ Returning /\ TidyInv
  <2> SUFFICES ASSUME Init PROVE TidyInv
    BY Begins
  <2>1. /\ cursor_x = Base.min_x /\ cursor_y = Base.min_y /\ cursor_bounds = Base /\ pc = "rest"
        /\ DOMAIN stack = {}
    BY DEF Init
  <2>2. Base.min_x + CELL <= Base.max_x /\ Base.min_y + CELL <= Base.max_y
    BY RoomAssumption
  <2>3. Base.min_x \in Int /\ Base.max_x \in Int /\ Base.min_y \in Int /\ Base.max_y \in Int
    BY DEF Bounds
  <2>4. Fit(cursor_x, cursor_y, cursor_bounds) /\ Roomy(cursor_bounds)
    BY <2>1, <2>2, <2>3 DEF Fit, Roomy
  <2> QED BY <2>1, <2>4 DEF TidyInv, Tidy, Going, Moving
<1>2. TypeOK /\ Placed /\ Returning /\ TidyInv /\ [Next]_vars => Placed' /\ Returning' /\ TidyInv'
  BY PlacedStep, ReturningStep, TidyStep
<1>3. TidyInv => InWindow
  BY DEF TidyInv, Tidy, Settled, Drawing, InWindow, Fit
<1> QED BY <1>1, <1>2, <1>3, Types, PTL DEF Spec
=============================================================================
