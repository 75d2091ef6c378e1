--------------------- MODULE StaffInvitationsProperties ---------------------
(* What the staff invitation flow must never do, and what it promises. *)
EXTENDS StaffInvitations

(* An invitation is `accepted` exactly when its target is the user its       *)
(* employee is bound to, and an employee is bound only through an accepted   *)
(* invitation: the resend that swaps the target (0065) and the acceptance    *)
(* that binds the caller (0064) never disagree on whose employee row it is.  *)
BindingIsAcceptance ==
    /\ \A i \in Requests : inv[i].status = "accepted" =>
          /\ inv[i].target # NoUser
          /\ emp[inv[i].employee].user = inv[i].target
    /\ \A e \in Employees : emp[e].user # NoUser =>
          \E i \in Requests : /\ inv[i].status = "accepted"
                              /\ inv[i].employee = e

(* One Auth user never holds two employee rows of the tenant, whatever two   *)
(* acceptances of the same person interleave (index of 0063).                *)
OneEmployeePerUser ==
    \A d, e \in Employees : emp[d].user = emp[e].user /\ emp[d].user # NoUser => d = e

(* Two managers inviting the same employee at once, a resend and a revoke    *)
(* never leave two open invitations (partial unique index of 0064).          *)
OnePendingPerEmployee ==
    \A i, j \in Requests :
       i # j /\ inv[i].status = "pending" /\ inv[j].status = "pending"
          => inv[i].employee # inv[j].employee

(* Acceptance is all or nothing: nobody is bound without a membership row    *)
(* past `invited` and the employee role at some location.                    *)
BoundHasAccess ==
    \A e \in Employees : emp[e].user # NoUser =>
       /\ membership[emp[e].user] \notin {"absent", "invited"}
       /\ \E l \in Locations : <<emp[e].user, l>> \in roles

(* An accepted or revoked row is an audit record: no late resend, revoke or  *)
(* acceptance that waited for its lock changes it.                           *)
FinalStatesStick ==
    [][\A i \in Requests : inv[i].status \in {"accepted", "revoked"} =>
          inv'[i] = inv[i]]_vars

(* While an acceptance is in flight its invitation stays pending and keeps   *)
(* the target whose session locked it.                                       *)
HeldRowIsStable ==
    \A i \in Requests : accept[i].pc # "idle" =>
       inv[i].status = "pending" /\ inv[i].target = accept[i].user

(* The flow implements StaffAccess: offers open, move, close, and bind once. *)
Offers(rows, i, e) == rows[i].status = "pending" /\ rows[i].employee = e

OfferIn(rows, e) == IF \E i \in Requests : Offers(rows, i, e)
                    THEN rows[CHOOSE i \in Requests : Offers(rows, i, e)].target
                    ELSE NoUser

Access == INSTANCE StaffAccess WITH bound <- [e \in Employees |-> emp[e].user],
                                    offer <- [e \in Employees |-> OfferIn(inv, e)]

ImplementsStaffAccess == Access!ASpec

(* Once the invite write has reached its locking SELECT the manager gets an  *)
(* answer, however many acceptances hold the row meanwhile.                  *)
UpsertAnswers == \A r \in Requests : req[r].pc = "check" ~> req[r].pc \in {"done", "failed"}

-----------------------------------------------------------------------------
(* Two claims of the source's comments that the code does not keep. *)

(* A recovery mail "lands the caller on the identical password-setup step"   *)
(* (index.ts): its link is never turned away while an unexpired pending      *)
(* invitation offers that very employee to that very user.                   *)
RecoveryLinkIsLive ==
    [][\A r \in Requests :
          req[r].recover /\ req[r].pc = "done" /\ OpenLinkRejected(r)
             => ~\E i \in Requests : /\ inv[i].status = "pending"
                                     /\ inv[i].employee = req[r].employee
                                     /\ inv[i].target = req[r].target
                                     /\ ~inv[i].expired]_vars

(* "cannot re-invite an already-accepted employee" (0065): no open           *)
(* invitation names a bound employee.                                        *)
NeverReinvited == \A e \in Employees : emp[e].user # NoUser => PendingOf(e) = {}
=============================================================================
