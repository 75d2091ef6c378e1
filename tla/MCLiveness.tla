----------------------------- MODULE MCLiveness -----------------------------
(***************************************************************************)
(* Model checking of what must happen in the end, under fairness: the      *)
(* answer to an invitation and the polled schedule of the staff, which     *)
(* share no row.  A behaviour exercises one of them; the other rests in a  *)
(* state in which none of its fair actions is enabled.                     *)
(***************************************************************************)
EXTENDS StaffInvitationsProperties, StaffScheduleView

VARIABLE part

MCSeedMembership == {"absent", "invited"}

PatientInit ==
    /\ part \in {"invitations", "view"}
    /\ Init /\ ViewInit
    /\ part = "invitations" => ~visible /\ screen.offset = 0
    /\ part = "view" => /\ \A u \in Users : account[u] = "none"
                        /\ \A e \in Employees : emp[e].email = NoUser

PatientNext ==
    /\ UNCHANGED part
    /\ \/ part = "invitations" /\ Next /\ UNCHANGED viewVars
       \/ part = "view" /\ ViewNext /\ UNCHANGED vars

PatientSpec ==
    /\ PatientInit /\ [][PatientNext]_<<part, vars, viewVars>>
    /\ Fairness /\ ViewFairness
=============================================================================
