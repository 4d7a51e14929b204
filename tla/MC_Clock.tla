------------------------------ MODULE MC_Clock ------------------------------
(* The times of day at which a day or a half-day begins and ends.          *)
EXTENDS VerixClock

DayEdges ==
    << [hour |-> 0, minute |-> 0, second |-> 0],
       [hour |-> 11, minute |-> 59, second |-> 59],
       [hour |-> 12, minute |-> 0, second |-> 0],
       [hour |-> 23, minute |-> 59, second |-> 59] >>
=============================================================================
