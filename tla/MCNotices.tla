------------------------------ MODULE MCNotices ------------------------------
(* Schedules for the TLC run of Notices. *)
EXTENDS Notices

Window(a, b) == [off |-> a, on |-> b]

MCSchedules ==
    {[action |-> "sleep", windows |-> {Window(7, 9)}],
     [action |-> "shutdown", windows |-> {Window(7, 9)}],
     [action |-> "sleep", windows |-> {Window(5, 6), Window(8, 10)}],
     [action |-> "sleep", windows |-> {}]}

MCThresholds == {4, 2}
MCShifts == {-2, 3}
=============================================================================
