-------------------------- MODULE MCInventoryCheck --------------------------
(* Values for checking InventoryCheck with TLC. *)
EXTENDS InventoryCheckProperties, TLC

\* Items, slots and staff are interchangeable.
Symmetry == Permutations(Items) \cup Permutations(Slots) \cup Permutations(Staff)
=============================================================================
