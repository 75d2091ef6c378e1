-------------------------- MODULE MCShiftExchange --------------------------
(* Values for model checking ShiftExchange. *)
EXTENDS ShiftExchangeProperties, TLC

\* Two shift types of the day that overlap.
MCSpans == {<<1, 3>>, <<2, 4>>}

\* Rows and people are interchangeable.
Symmetry == Permutations(Employees) \cup Permutations(Shifts) \cup Permutations(Requests)
=============================================================================
