---------------------------- MODULE StaffAccess ----------------------------
(***************************************************************************)
(* What the staff invitation flow promises, without saying how: within one *)
(* tenant an employee is offered to at most one Auth user at a time, only  *)
(* an open offer can bind the employee, the binding consumes the offer,    *)
(* it is never changed afterwards, and no user is bound to two employees.  *)
(***************************************************************************)
CONSTANTS Employees, Users, NoUser

VARIABLES
    bound,      \* bound[e]: the user the employee is bound to, or NoUser
    offer       \* offer[e]: the user an open invitation names, or NoUser

avars == <<bound, offer>>

AInit == /\ bound = [e \in Employees |-> NoUser]
         /\ offer = [e \in Employees |-> NoUser]

\* A manager's invitation opens an offer, or moves the open one to another user.
Offer(e, u) == /\ offer' = [offer EXCEPT ![e] = u]
               /\ UNCHANGED bound

\* The manager revokes the open invitation.
Withdraw(e) == /\ offer' = [offer EXCEPT ![e] = NoUser]
               /\ UNCHANGED bound

\* The invited user accepts.
Bind(e) == /\ offer[e] # NoUser
           /\ bound[e] = NoUser
           /\ \A d \in Employees : bound[d] # offer[e]
           /\ bound' = [bound EXCEPT ![e] = offer[e]]
           /\ offer' = [offer EXCEPT ![e] = NoUser]

ANext == \E e \in Employees : \/ \E u \in Users : Offer(e, u)
                              \/ Withdraw(e)
                              \/ Bind(e)

ASpec == AInit /\ [][ANext]_avars
=============================================================================
