------------------------------ MODULE MCCursor ------------------------------
(* Two windows on a screen of 6 by 5 cells; like those of the code, their  *)
(* bounds are not multiples of a cell.                                     *)
EXTENDS Cursor

Rectangle(min_x, max_x, min_y, max_y) ==
    [min_x |-> min_x, max_x |-> max_x, min_y |-> min_y, max_y |-> max_y]
SmallScreen == Rectangle(0, 48, 0, 40)
Launcher == Rectangle(16, 38, 8, 40)
Shell == [area |-> Rectangle(4, 36, 8, 40), start |-> <<8, 20>>, bounds |-> Rectangle(8, 30, 20, 40)]
Ted == [area |-> Rectangle(4, 36, 0, 32), start |-> <<12, 8>>, bounds |-> Rectangle(12, 28, 8, 28)]
ShellAndTed == <<Shell, Ted>>

StillGood == {"arrow", "astray"} \cap spoiled = {}
=============================================================================
