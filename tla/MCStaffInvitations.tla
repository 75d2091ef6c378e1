------------------------ MODULE MCStaffInvitations ------------------------
(* Values for model checking StaffInvitations. *)
EXTENDS StaffInvitationsProperties, TLC

MCSeedMembership == {"absent", "invited"}

\* Rows and users are interchangeable.
Symmetry == Permutations(Employees) \cup Permutations(Users)
            \cup Permutations(Locations) \cup Permutations(Requests)
=============================================================================
