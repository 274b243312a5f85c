------------------------------ MODULE MCClock -------------------------------
(* The machine is switched on shortly before a minute, an hour or a day    *)
(* ends, here or three hours ahead.                                        *)
EXTENDS Clock

At(hour, minute, second) == [second |-> second, minute |-> minute, hour |-> hour, day |-> 9]
CloseToTheEnd ==
    {At(23, 59, 58), At(20, 59, 58), At(19, 59, 59), At(12, 9, 58), At(0, 0, 0), At(7, 30, 29)}
=============================================================================
