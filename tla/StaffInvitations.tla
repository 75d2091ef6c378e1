-------------------------- MODULE StaffInvitations --------------------------
(***************************************************************************)
(* Staff access provisioning inside one tenant: managers call the          *)
(* invite-employee Edge Function, the database keeps one pending           *)
(* invitation per employee, and the invited person accepts it, which binds *)
(* the employee row to an Auth user.                                       *)
(*                                                                         *)
(* Every statement that touches shared rows is an action of its own: the   *)
(* Edge Function makes several calls, and inside the two plpgsql functions *)
(* PostgreSQL (READ COMMITTED) gives each statement its own snapshot, so   *)
(* other sessions run between them.  A row locked FOR UPDATE is released   *)
(* by the commit or rollback of its transaction.                           *)
(*                                                                         *)
(* A request r carries the fresh uuid the Edge Function generates, so r    *)
(* also names the invitation row that request would insert and the id in   *)
(* the link its email carries.  An e-mail address is identified with the   *)
(* Auth account it resolves to.                                            *)
(***************************************************************************)
EXTENDS Naturals, FiniteSets

CONSTANTS
    Employees,       \* workforce.employees rows of the tenant
    Users,           \* Auth users, existing or to be
    Locations,       \* the tenant's locations
    Requests,        \* calls of invite-employee: the bound on their number
    NoUser, NoEmployee, NoRequest, NoLocation,
    SeedMembership,  \* membership states a user may have before any invitation
    EditLimit        \* bound on the number of staff profile edits

MemberStates == {"absent", "invited", "active", "suspended", "revoked"}

ASSUME AbsentValues == /\ NoUser \notin Users
                       /\ NoEmployee \notin Employees
                       /\ NoRequest \notin Requests
                       /\ NoLocation \notin Locations
ASSUME SeedAssumption == SeedMembership \subseteq MemberStates
ASSUME EditAssumption == EditLimit \in Nat

VARIABLES
    emp,         \* emp[e]: user_id, is_active, contact address, location
    inv,         \* inv[r]: the employee_invitations row with id r
    membership,  \* membership[u]: status of core.tenant_memberships
    roles,       \* role_assignments of role `employee`: <<user, location>>
    account,     \* account[u]: the Auth account and what its owner can do
    req,         \* req[r]: the Edge Function call r
    accept,      \* accept[r]: the accept transaction holding row r
    edits        \* profile edits made so far

vars == <<emp, inv, membership, roles, account, req, accept, edits>>

Statuses == {"absent", "pending", "accepted", "revoked"}

\* "invited": created, address not confirmed; "setup": signed in by a link and
\* on the password screen; "stranded": confirmed, signed out, no password.
AccountStates == {"none", "invited", "setup", "stranded", "ready"}

EmployeeRow == [user : Users \cup {NoUser}, active : BOOLEAN,
                email : Users \cup {NoUser}, location : Locations]

InvitationRow == [status : Statuses, employee : Employees \cup {NoEmployee},
                  target : Users \cup {NoUser}, expired : BOOLEAN]

Request == [pc : {"unused", "resolve", "check", "scan", "lock", "done", "failed"},
            employee : Employees \cup {NoEmployee},
            target : Users \cup {NoUser},
            recover : BOOLEAN,
            seen : Requests \cup {NoRequest},
            mail : {"none", "sent", "page", "error"}]

Acceptance == [pc : {"idle", "locked", "granted"},
               user : Users \cup {NoUser},
               location : Locations \cup {NoLocation}]

Idle == [pc |-> "idle", user |-> NoUser, location |-> NoLocation]

\* The one type invariant of the module.
TypeOK == /\ emp \in [Employees -> EmployeeRow]
          /\ inv \in [Requests -> InvitationRow]
          /\ membership \in [Users -> MemberStates]
          /\ roles \subseteq (Users \X Locations)
          /\ account \in [Users -> AccountStates]
          /\ req \in [Requests -> Request]
          /\ accept \in [Requests -> Acceptance]
          /\ edits \in Nat

Init == /\ emp \in [Employees -> {x \in EmployeeRow : x.user = NoUser /\ x.active}]
        /\ inv = [r \in Requests |-> [status |-> "absent", employee |-> NoEmployee,
                                      target |-> NoUser, expired |-> FALSE]]
        /\ membership \in [Users -> SeedMembership]
        /\ roles = {}
        /\ account \in [Users -> {"none", "ready"}]
        /\ \A u \in Users : account[u] = "none" => membership[u] = "absent"
        /\ req = [r \in Requests |-> [pc |-> "unused", employee |-> NoEmployee,
                                      target |-> NoUser, recover |-> FALSE,
                                      seen |-> NoRequest, mail |-> "none"]]
        /\ accept = [r \in Requests |-> Idle]
        /\ edits = 0

PendingOf(e) == {i \in Requests : inv[i].status = "pending" /\ inv[i].employee = e}

-----------------------------------------------------------------------------
(* The Edge Function, supabase/functions/invite-employee. *)

\* The permission holds, the profile is active and has an address.
BeginRequest(r, e, recover) ==
    /\ req[r].pc = "unused"
    /\ emp[e].active
    /\ emp[e].email # NoUser
    /\ req' = [req EXCEPT ![r] = [@ EXCEPT !.pc = "resolve", !.employee = e,
                                           !.target = emp[e].email,
                                           !.recover = recover]]
    /\ UNCHANGED <<emp, inv, membership, roles, account, accept, edits>>

\* inviteUserByEmail succeeds: the account exists from now on, the mail is out.
InviteByEmail(r) ==
    LET u == req[r].target IN
    /\ req[r].pc = "resolve" /\ ~req[r].recover
    /\ account[u] \in {"none", "invited"}
    /\ account' = [account EXCEPT ![u] = "invited"]
    /\ req' = [req EXCEPT ![r] = [@ EXCEPT !.pc = "check", !.mail = "sent"]]
    /\ UNCHANGED <<emp, inv, membership, roles, accept, edits>>

\* inviteUserByEmail says "already registered": listUsers finds it, no mail.
FindRegistered(r) ==
    /\ req[r].pc = "resolve" /\ ~req[r].recover
    /\ account[req[r].target] # "none"
    /\ req' = [req EXCEPT ![r].pc = "check"]
    /\ UNCHANGED <<emp, inv, membership, roles, account, accept, edits>>

\* action: 'recover' never creates an account and always mails a link.
SendRecovery(r) ==
    /\ req[r].pc = "resolve" /\ req[r].recover
    /\ account[req[r].target] # "none"
    /\ req' = [req EXCEPT ![r] = [@ EXCEPT !.pc = "check", !.mail = "sent"]]
    /\ UNCHANGED <<emp, inv, membership, roles, account, accept, edits>>

\* An error response or a crash; what was mailed stays mailed.
RequestFails(r) ==
    /\ req[r].pc \in {"resolve", "check", "scan", "lock"}
    /\ req' = [req EXCEPT ![r].pc = "failed"]
    /\ UNCHANGED <<emp, inv, membership, roles, account, accept, edits>>

-----------------------------------------------------------------------------
(* workforce.upsert_employee_invitation, called last by the Edge Function. *)

\* First statement: is the employee bound?  The row is not locked.
UpsertCheck(r) ==
    /\ req[r].pc = "check"
    /\ req' = [req EXCEPT ![r].pc =
                  IF emp[req[r].employee].user = NoUser THEN "scan" ELSE "failed"]
    /\ UNCHANGED <<emp, inv, membership, roles, account, accept, edits>>

\* SELECT ... FOR UPDATE takes its snapshot, then waits for the row's lock.
UpsertScan(r) ==
    /\ req[r].pc = "scan"
    /\ \E i \in Requests \cup {NoRequest} :
          /\ IF PendingOf(req[r].employee) = {} THEN i = NoRequest
                                                ELSE i \in PendingOf(req[r].employee)
          /\ req' = [req EXCEPT ![r] = [@ EXCEPT !.pc = "lock", !.seen = i]]
    /\ UNCHANGED <<emp, inv, membership, roles, account, accept, edits>>

NoRowLock(i) == TRUE   \* mutant: SELECT without FOR UPDATE

Unlocked(i) == accept[i].pc = "idle"

NoRecheck(i) == TRUE   \* mutant: status not re-read once the lock is granted

StillPending(i) == inv[i].status = "pending"

\* Lock granted and the row still pending: refreshed in place, its id kept.
UpsertRefresh(r) ==
    LET i == req[r].seen IN
    /\ req[r].pc = "lock"
    /\ i # NoRequest
    /\ Unlocked(i)
    /\ StillPending(i)
    /\ inv' = [inv EXCEPT ![i] = [@ EXCEPT !.target = req[r].target, !.expired = FALSE]]
    /\ req' = [req EXCEPT ![r].pc = "done"]
    /\ UNCHANGED <<emp, membership, roles, account, accept, edits>>

NothingSeen(r) == req[r].seen = NoRequest   \* mutant: a vanished row is not handled

\* The SELECT returned no row: none was seen, or the one seen stopped being
\* pending while the statement waited for it.
NothingPending(r) ==
    \/ req[r].seen = NoRequest
    \/ /\ req[r].seen # NoRequest
       /\ Unlocked(req[r].seen)
       /\ ~StillPending(req[r].seen)

NoIndex(e) == TRUE   \* mutant: without the partial unique index

\* workforce_employee_invitations_one_pending_per_employee
IndexFree(e) == PendingOf(e) = {}

\* INSERT with the fresh id; the partial unique index refuses a second pending row.
UpsertInsert(r) ==
    LET e == req[r].employee IN
    /\ req[r].pc = "lock"
    /\ NothingPending(r)
    /\ IndexFree(e)
    /\ inv' = [inv EXCEPT ![r] = [status |-> "pending", employee |-> e,
                                  target |-> req[r].target, expired |-> FALSE]]
    /\ req' = [req EXCEPT ![r].pc = "done"]
    /\ UNCHANGED <<emp, membership, roles, account, accept, edits>>

\* The index check, too, waits for an acceptance that is closing the other row.
UpsertConflict(r) ==
    /\ req[r].pc = "lock"
    /\ NothingPending(r)
    /\ ~IndexFree(req[r].employee)
    /\ \A i \in PendingOf(req[r].employee) : Unlocked(i)
    /\ req' = [req EXCEPT ![r].pc = "failed"]
    /\ UNCHANGED <<emp, inv, membership, roles, account, accept, edits>>

-----------------------------------------------------------------------------
(* The invited person: the mailed link, the password screen. *)

\* The link's invitation is pending, unexpired and the caller's own.
LinkIsGood(r) == /\ inv[r].status = "pending"
                 /\ inv[r].target = req[r].target
                 /\ ~inv[r].expired

OpenLinkToPage(r) ==
    LET u == req[r].target IN
    /\ req[r].mail = "sent"
    /\ LinkIsGood(r)
    /\ req' = [req EXCEPT ![r].mail = "page"]
    /\ account' = [account EXCEPT ![u] = IF @ = "ready" THEN @ ELSE "setup"]
    /\ UNCHANGED <<emp, inv, membership, roles, accept, edits>>

\* The callback signs the fresh session out again and shows an error.
OpenLinkRejected(r) ==
    LET u == req[r].target IN
    /\ req[r].mail = "sent"
    /\ ~LinkIsGood(r)
    /\ req' = [req EXCEPT ![r].mail = "error"]
    /\ account' = [account EXCEPT ![u] = IF @ = "ready" THEN @ ELSE "stranded"]
    /\ UNCHANGED <<emp, inv, membership, roles, accept, edits>>

\* The password is set before the acceptance is tried, and stays if that fails.
SetPassword(r) ==
    LET u == req[r].target IN
    /\ req[r].mail = "page"
    /\ account[u] = "setup"
    /\ account' = [account EXCEPT ![u] = "ready"]
    /\ UNCHANGED <<emp, inv, membership, roles, req, accept, edits>>

\* The person leaves the password screen without finishing it.
AbandonSetup(u) ==
    /\ account[u] = "setup"
    /\ account' = [account EXCEPT ![u] = "stranded"]
    /\ UNCHANGED <<emp, inv, membership, roles, req, accept, edits>>

-----------------------------------------------------------------------------
(* workforce.accept_employee_invitation, from the password step or the banner. *)

\* SELECT ... FOR UPDATE by id, own target, pending, unexpired.  The caller has a
\* session: with a password, or the link's own from before a password is set.
AcceptLock(i) ==
    /\ Unlocked(i)
    /\ inv[i].status = "pending" /\ ~inv[i].expired
    /\ account[inv[i].target] \in {"setup", "ready"}
    /\ accept' = [accept EXCEPT ![i] = [Idle EXCEPT !.pc = "locked",
                                                    !.user = inv[i].target]]
    /\ UNCHANGED <<emp, inv, membership, roles, account, req, edits>>

\* The employee is not bound yet; its location is read for the role.
AcceptRead(i) ==
    LET row == emp[inv[i].employee] IN
    /\ accept[i].pc = "locked"
    /\ row.user = NoUser
    /\ accept' = [accept EXCEPT ![i] = [@ EXCEPT !.pc = "granted",
                                                 !.location = row.location]]
    /\ UNCHANGED <<emp, inv, membership, roles, account, req, edits>>

\* mutant: the activating update is forgotten
OnlyInsert(status) == IF status = "absent" THEN "active" ELSE status

\* insert ... on conflict do nothing, then activate an `invited` row.
Activated(status) == IF status \in {"absent", "invited"} THEN "active" ELSE status

NoUserIndex(u) == TRUE   \* mutant: without the unique index of 0063

\* wf_employees_one_per_tenant_per_user
FreeUser(u) == \A e \in Employees : emp[e].user # u

\* Membership, role, binding and status become visible together at commit.
AcceptCommit(i) ==
    LET e == inv[i].employee
        u == accept[i].user
    IN  /\ accept[i].pc = "granted"
        /\ emp[e].user = NoUser
        /\ FreeUser(u)
        /\ emp' = [emp EXCEPT ![e].user = u]
        /\ membership' = [membership EXCEPT ![u] = Activated(@)]
        /\ roles' = roles \cup {<<u, accept[i].location>>}
        /\ inv' = [inv EXCEPT ![i].status = "accepted"]
        /\ accept' = [accept EXCEPT ![i] = Idle]
        /\ UNCHANGED <<account, req, edits>>

\* Raised exception, unique violation or lost connection: nothing persists.
AcceptRollback(i) ==
    /\ accept[i].pc # "idle"
    /\ accept' = [accept EXCEPT ![i] = Idle]
    /\ UNCHANGED <<emp, inv, membership, roles, account, req, edits>>

-----------------------------------------------------------------------------
(* The manager's other writes, and time. *)

\* Plain RLS update of a pending row; waits while an acceptance holds it.
Revoke(i) ==
    /\ Unlocked(i)
    /\ inv[i].status = "pending"
    /\ inv' = [inv EXCEPT ![i].status = "revoked"]
    /\ UNCHANGED <<emp, membership, roles, account, req, accept, edits>>

\* The seven-day window passes: derived from expires_at, never stored.
Expire(i) ==
    /\ inv[i].status = "pending" /\ ~inv[i].expired
    /\ inv' = [inv EXCEPT ![i].expired = TRUE]
    /\ UNCHANGED <<emp, membership, roles, account, req, accept, edits>>

\* The staff form rewrites the profile; it never touches user_id.
EditEmployee(e, active, email, location) ==
    /\ edits < EditLimit
    /\ emp' = [emp EXCEPT ![e] = [@ EXCEPT !.active = active, !.email = email,
                                           !.location = location]]
    /\ edits' = edits + 1
    /\ UNCHANGED <<inv, membership, roles, account, req, accept>>

-----------------------------------------------------------------------------
Begin(r) == \E e \in Employees, recover \in BOOLEAN : BeginRequest(r, e, recover)

Edit(e) == \E a \in BOOLEAN, m \in Users \cup {NoUser}, l \in Locations :
              EditEmployee(e, a, m, l)

Next == \/ \E r \in Requests :
              \/ Begin(r) \/ InviteByEmail(r) \/ FindRegistered(r)
              \/ SendRecovery(r) \/ RequestFails(r)
              \/ UpsertCheck(r) \/ UpsertScan(r) \/ UpsertRefresh(r)
              \/ UpsertInsert(r) \/ UpsertConflict(r)
              \/ OpenLinkToPage(r) \/ OpenLinkRejected(r) \/ SetPassword(r)
              \/ AcceptLock(r) \/ AcceptRead(r) \/ AcceptCommit(r)
              \/ AcceptRollback(r) \/ Revoke(r) \/ Expire(r)
        \/ \E u \in Users : AbandonSetup(u)
        \/ \E e \in Employees : Edit(e)

Spec == Init /\ [][Next]_vars

\* A transaction that was started ends, and PostgreSQL serves the waiters of a
\* row lock in order, so a statement waiting for one is not passed over forever.
Fairness == \A r \in Requests :
               /\ WF_vars(AcceptRead(r) \/ AcceptCommit(r) \/ AcceptRollback(r))
               /\ WF_vars(UpsertCheck(r) \/ UpsertScan(r))
               /\ SF_vars(UpsertRefresh(r) \/ UpsertInsert(r) \/ UpsertConflict(r))
=============================================================================
