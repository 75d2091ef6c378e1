---------------------------- MODULE MCAttendance ----------------------------
(* Values for model checking Attendance. *)
EXTENDS AttendanceProperties, TLC

\* Rows, corrections and actions are interchangeable.
Symmetry == Permutations(Rows) \cup Permutations(Requests) \cup Permutations(Calls)
=============================================================================
