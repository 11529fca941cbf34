------------------------------ MODULE MCClock ------------------------------
(***************************************************************************)
(* Moments for TLC to start the machine in: just before a new minute, a    *)
(* new century and the end of a leap February, and in the middle of a      *)
(* minute.                                                                 *)
(***************************************************************************)
EXTENDS Clock

Moment(ce, y, mo, d, h, mi, s) ==
    [century |-> ce, year |-> y, month |-> mo, day |-> d,
     hour |-> h, minute |-> mi, second |-> s]

Moments ==
    {Moment(20, 24, 2, 29, 23, 59, 58), Moment(19, 99, 12, 31, 23, 59, 59),
     Moment(20, 23, 9, 15, 12, 29, 59), Moment(20, 23, 10, 9, 9, 30, 9),
     Moment(20, 25, 1, 31, 0, 0, 30)}
=============================================================================
