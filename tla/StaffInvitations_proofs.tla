----------------------- MODULE StaffInvitations_proofs -----------------------
(***************************************************************************)
(* Proofs about StaffInvitations for every set of employees, users,        *)
(* locations and requests.  Types is inductive by itself; Inv adds the     *)
(* safety properties and is inductive relative to it.                      *)
(***************************************************************************)
EXTENDS StaffInvitationsProperties, TLAPS

InFlight == {"resolve", "check", "scan", "lock"}

\* A call under way knows its employee and target and has written no row yet.
RequestShape ==
    \A r \in Requests :
       /\ req[r].pc \in InFlight => /\ req[r].employee \in Employees
                                    /\ req[r].target \in Users
       /\ req[r].pc \in InFlight \cup {"unused"} => inv[r].status = "absent"

\* A stored row names an employee and a user.
RowShape ==
    \A i \in Requests : inv[i].status # "absent" =>
       inv[i].employee \in Employees /\ inv[i].target \in Users

\* An acceptance past its reads carries a location of the tenant.
AcceptShape == \A i \in Requests : accept[i].pc = "granted" => accept[i].location \in Locations

Types == TypeOK /\ RequestShape /\ RowShape /\ AcceptShape /\ HeldRowIsStable

Safe == /\ OnePendingPerEmployee /\ BindingIsAcceptance
        /\ OneEmployeePerUser /\ BoundHasAccess

Inv == Types /\ Safe

(***************************************************************************)
(* The Edge Function's own steps touch no row of the database.             *)
(***************************************************************************)
LEMMA TypesBegin ==
    ASSUME Types, NEW r \in Requests, Begin(r)
    PROVE  Types'
  <1>1. PICK e \in Employees, recover \in BOOLEAN : BeginRequest(r, e, recover)
    BY DEF Begin
  <1>2. emp[e] \in EmployeeRow /\ emp[e].email \in Users
    BY <1>1 DEF Types, TypeOK, BeginRequest, EmployeeRow
  <1>3. req'[r] = [req[r] EXCEPT !.pc = "resolve", !.employee = e, !.target = emp[e].email,
                                 !.recover = recover]
    BY <1>1 DEF Types, TypeOK, BeginRequest
  <1>4. req[r] \in Request /\ req'[r] \in Request
    BY <1>2, <1>3, ZenonT(60) DEF Types, TypeOK, Request
  <1>5. TypeOK'
    BY <1>1, <1>4 DEF Types, TypeOK, BeginRequest
  <1>6. RequestShape'
    BY <1>1, <1>2, <1>3, <1>4 DEF Types, TypeOK, RequestShape, BeginRequest, InFlight, Request
  <1>7. RowShape' /\ AcceptShape' /\ HeldRowIsStable'
    BY <1>1 DEF Types, RowShape, AcceptShape, HeldRowIsStable, BeginRequest
  <1> QED  BY <1>5, <1>6, <1>7 DEF Types

LEMMA TypesCalls ==
    ASSUME Types, NEW r \in Requests,
           \/ InviteByEmail(r) \/ FindRegistered(r) \/ SendRecovery(r) \/ RequestFails(r)
           \/ UpsertCheck(r) \/ UpsertScan(r) \/ UpsertConflict(r)
    PROVE  Types'
  <1>1. req[r] \in Request /\ req[r].pc \in InFlight /\ req \in [Requests -> Request]
    BY DEF Types, TypeOK, InFlight, InviteByEmail, FindRegistered, SendRecovery,
           RequestFails, UpsertCheck, UpsertScan, UpsertConflict
  <1>2. /\ req'[r] \in Request
        /\ req'[r].employee = req[r].employee /\ req'[r].target = req[r].target
        /\ req'[r].pc # "unused"
    <2>1. CASE InviteByEmail(r)   BY <1>1, <2>1 DEF InviteByEmail, Request
    <2>2. CASE FindRegistered(r)  BY <1>1, <2>2 DEF FindRegistered, Request
    <2>3. CASE SendRecovery(r)    BY <1>1, <2>3 DEF SendRecovery, Request
    <2>4. CASE RequestFails(r)    BY <1>1, <2>4 DEF RequestFails, Request
    <2>5. CASE UpsertCheck(r)     BY <1>1, <2>5 DEF UpsertCheck, Request
    <2>6. CASE UpsertScan(r)
      <3>1. PICK i \in Requests \cup {NoRequest} :
               req' = [req EXCEPT ![r] = [@ EXCEPT !.pc = "lock", !.seen = i]]
        BY <2>6 DEF UpsertScan
      <3> QED  BY <1>1, <3>1 DEF Request
    <2>7. CASE UpsertConflict(r)  BY <1>1, <2>7 DEF UpsertConflict, Request
    <2> QED  BY <2>1, <2>2, <2>3, <2>4, <2>5, <2>6, <2>7
  <1>3. /\ \A q \in Requests : q # r => req'[q] = req[q]
        /\ account' \in [Users -> AccountStates]
        /\ UNCHANGED <<emp, inv, membership, roles, accept, edits>>
        /\ req' = [req EXCEPT ![r] = req'[r]]
    BY <1>1 DEF Types, TypeOK, AccountStates, InviteByEmail, FindRegistered, SendRecovery,
           RequestFails, UpsertCheck, UpsertScan, UpsertConflict
  <1>4. TypeOK'
    BY <1>1, <1>2, <1>3 DEF Types, TypeOK
  <1>5. RequestShape'
    BY <1>1, <1>2, <1>3 DEF Types, RequestShape, InFlight
  <1>6. RowShape' /\ AcceptShape' /\ HeldRowIsStable'
    BY <1>3 DEF Types, RowShape, AcceptShape, HeldRowIsStable
  <1> QED  BY <1>4, <1>5, <1>6 DEF Types

(***************************************************************************)
(* The two statements of the upsert that write the invitation table.       *)
(***************************************************************************)
LEMMA TypesRefresh ==
    ASSUME Types, NEW r \in Requests, UpsertRefresh(r)
    PROVE  Types'
  <1>1. /\ req[r].seen \in Requests /\ req[r] \in Request /\ req[r].target \in Users
        /\ req[r].pc \in InFlight
    BY DEF Types, TypeOK, RequestShape, UpsertRefresh, InFlight, Request
  <1> DEFINE i == req[r].seen
  <1>2. /\ inv' = [inv EXCEPT ![i] = [@ EXCEPT !.target = req[r].target, !.expired = FALSE]]
        /\ inv[i] \in InvitationRow /\ inv[i].status = "pending"
        /\ accept[i].pc = "idle"
    BY <1>1 DEF Types, TypeOK, UpsertRefresh, Unlocked, StillPending
  <1>3. /\ inv'[i] \in InvitationRow
        /\ inv'[i].status = "pending" /\ inv'[i].target \in Users
        /\ inv'[i].employee = inv[i].employee
        /\ \A j \in Requests : j # i => inv'[j] = inv[j]
    BY <1>1, <1>2 DEF Types, TypeOK, InvitationRow
  <1>4. /\ req'[r] \in Request /\ req'[r].pc = "done"
        /\ \A q \in Requests : q # r => req'[q] = req[q]
    BY <1>1 DEF Types, TypeOK, UpsertRefresh, StillPending, Request
  <1>5. TypeOK'
    BY <1>1, <1>2, <1>3, <1>4 DEF Types, TypeOK, UpsertRefresh
  <1>6. RequestShape'
    BY <1>2, <1>3, <1>4 DEF Types, RequestShape, InFlight
  <1>7. RowShape'
    BY <1>2, <1>3 DEF Types, RowShape
  <1>8. AcceptShape' /\ HeldRowIsStable'
    BY <1>2, <1>3 DEF Types, AcceptShape, HeldRowIsStable, UpsertRefresh
  <1> QED  BY <1>5, <1>6, <1>7, <1>8 DEF Types

LEMMA TypesInsert ==
    ASSUME Types, NEW r \in Requests, UpsertInsert(r)
    PROVE  Types'
  <1>1. /\ req[r].employee \in Employees /\ req[r] \in Request /\ req[r].target \in Users
        /\ req[r].pc \in InFlight /\ inv[r].status = "absent"
    BY DEF Types, TypeOK, RequestShape, UpsertInsert, InFlight, Request
  <1>2. /\ inv'[r] = [status |-> "pending", employee |-> req[r].employee,
                      target |-> req[r].target, expired |-> FALSE]
        /\ inv'[r] \in InvitationRow
        /\ \A j \in Requests : j # r => inv'[j] = inv[j]
    BY <1>1 DEF Types, TypeOK, UpsertInsert, InvitationRow, Statuses
  <1>3. /\ req'[r] \in Request /\ req'[r].pc = "done"
        /\ \A q \in Requests : q # r => req'[q] = req[q]
    BY <1>1 DEF Types, TypeOK, UpsertInsert, Request
  <1>4. TypeOK'
    BY <1>1, <1>2, <1>3 DEF Types, TypeOK, UpsertInsert
  <1>5. RequestShape'
    BY <1>2, <1>3 DEF Types, RequestShape, InFlight
  <1>6. RowShape'
    BY <1>1, <1>2 DEF Types, RowShape
  <1>7. AcceptShape' /\ HeldRowIsStable'
    BY <1>1, <1>2 DEF Types, AcceptShape, HeldRowIsStable, UpsertInsert
  <1> QED  BY <1>4, <1>5, <1>6, <1>7 DEF Types

(***************************************************************************)
(* The invited person's browser.                                           *)
(***************************************************************************)
LEMMA TypesLinks ==
    ASSUME Types, NEW r \in Requests,
           OpenLinkToPage(r) \/ OpenLinkRejected(r) \/ SetPassword(r)
    PROVE  Types'
  <1>1. req[r] \in Request /\ req \in [Requests -> Request]
    BY DEF Types, TypeOK
  <1>2. /\ req'[r] \in Request
        /\ req'[r].employee = req[r].employee /\ req'[r].target = req[r].target
        /\ req'[r].pc = req[r].pc
        /\ req' = [req EXCEPT ![r] = req'[r]]
        /\ UNCHANGED <<emp, inv, membership, roles, accept, edits>>
    <2>1. CASE OpenLinkToPage(r)   BY <1>1, <2>1 DEF OpenLinkToPage, Request
    <2>2. CASE OpenLinkRejected(r) BY <1>1, <2>2 DEF OpenLinkRejected, Request
    <2>3. CASE SetPassword(r)      BY <1>1, <2>3 DEF SetPassword, Request
    <2> QED  BY <2>1, <2>2, <2>3
  <1>3. account' \in [Users -> AccountStates]
    BY DEF Types, TypeOK, AccountStates, OpenLinkToPage, OpenLinkRejected, SetPassword
  <1>4. TypeOK'
    BY <1>1, <1>2, <1>3 DEF Types, TypeOK
  <1>5. RequestShape'
    BY <1>1, <1>2 DEF Types, RequestShape
  <1>6. RowShape' /\ AcceptShape' /\ HeldRowIsStable'
    BY <1>2 DEF Types, RowShape, AcceptShape, HeldRowIsStable
  <1> QED  BY <1>4, <1>5, <1>6 DEF Types

LEMMA TypesAbandon ==
    ASSUME Types, NEW u \in Users, AbandonSetup(u)
    PROVE  Types'
  BY DEF Types, TypeOK, RequestShape, RowShape, AcceptShape, HeldRowIsStable,
         AbandonSetup, AccountStates

(***************************************************************************)
(* The acceptance transaction.                                             *)
(***************************************************************************)
LEMMA TypesHold ==
    ASSUME Types, NEW i \in Requests, AcceptLock(i) \/ AcceptRead(i) \/ AcceptRollback(i)
    PROVE  Types'
  <1>1. accept[i] \in Acceptance /\ accept \in [Requests -> Acceptance]
    BY DEF Types, TypeOK
  <1>2. /\ accept'[i] \in Acceptance
        /\ accept' = [accept EXCEPT ![i] = accept'[i]]
        /\ UNCHANGED <<emp, inv, membership, roles, account, req, edits>>
        /\ accept'[i].pc = "granted" => accept'[i].location \in Locations
        /\ accept'[i].pc # "idle" =>
              inv[i].status = "pending" /\ inv[i].target = accept'[i].user
    <2>1. CASE AcceptLock(i)
      <3>1. inv[i].status = "pending" /\ inv[i].target \in Users
        BY <2>1 DEF Types, RowShape, AcceptLock
      <3> QED  BY <1>1, <2>1, <3>1 DEF AcceptLock, Acceptance, Idle
    <2>2. CASE AcceptRead(i)
      <3>1. inv[i].status = "pending" /\ inv[i].target = accept[i].user
        BY <2>2 DEF Types, HeldRowIsStable, AcceptRead
      <3>2. emp[inv[i].employee].location \in Locations
        BY <3>1 DEF Types, TypeOK, RowShape, EmployeeRow
      <3> QED  BY <1>1, <2>2, <3>1, <3>2 DEF AcceptRead, Acceptance
    <2>3. CASE AcceptRollback(i)
      BY <1>1, <2>3 DEF AcceptRollback, Acceptance, Idle
    <2> QED  BY <2>1, <2>2, <2>3
  <1>3. TypeOK'
    BY <1>1, <1>2 DEF Types, TypeOK
  <1>4. RequestShape' /\ RowShape'
    BY <1>2 DEF Types, RequestShape, RowShape
  <1>5. AcceptShape' /\ HeldRowIsStable'
    BY <1>1, <1>2 DEF Types, AcceptShape, HeldRowIsStable
  <1> QED  BY <1>3, <1>4, <1>5 DEF Types

\* What the commit writes, for the lemmas that follow.
LEMMA CommitEffect ==
    ASSUME Types, NEW i \in Requests, AcceptCommit(i)
    PROVE  /\ inv[i].status = "pending" /\ inv[i].employee \in Employees
           /\ accept[i].user = inv[i].target /\ accept[i].user \in Users
           /\ accept[i].location \in Locations
           /\ emp'[inv[i].employee].user = accept[i].user
           /\ emp'[inv[i].employee] \in EmployeeRow
           /\ \A d \in Employees : d # inv[i].employee => emp'[d] = emp[d]
           /\ inv'[i] \in InvitationRow /\ inv'[i].status = "accepted"
           /\ inv'[i].employee = inv[i].employee /\ inv'[i].target = inv[i].target
           /\ \A j \in Requests : j # i => inv'[j] = inv[j]
           /\ accept'[i] = Idle /\ \A j \in Requests : j # i => accept'[j] = accept[j]
  <1>1. inv[i].status = "pending" /\ inv[i].target = accept[i].user
        /\ accept[i].location \in Locations
    BY DEF Types, HeldRowIsStable, AcceptShape, AcceptCommit
  <1>2. inv[i].employee \in Employees /\ inv[i].target \in Users /\ inv[i] \in InvitationRow
    BY <1>1 DEF Types, TypeOK, RowShape
  <1>3. emp[inv[i].employee] \in EmployeeRow
    BY <1>2 DEF Types, TypeOK
  <1>4. /\ emp'[inv[i].employee].user = accept[i].user
        /\ emp'[inv[i].employee] \in EmployeeRow
        /\ \A d \in Employees : d # inv[i].employee => emp'[d] = emp[d]
    BY <1>1, <1>2, <1>3 DEF Types, TypeOK, AcceptCommit, EmployeeRow
  <1>5. /\ inv'[i] \in InvitationRow /\ inv'[i].status = "accepted"
        /\ inv'[i].employee = inv[i].employee /\ inv'[i].target = inv[i].target
        /\ \A j \in Requests : j # i => inv'[j] = inv[j]
    BY <1>2 DEF Types, TypeOK, AcceptCommit, InvitationRow, Statuses
  <1>6. accept'[i] = Idle /\ \A j \in Requests : j # i => accept'[j] = accept[j]
    BY DEF Types, TypeOK, AcceptCommit
  <1> QED  BY <1>1, <1>2, <1>4, <1>5, <1>6

LEMMA TypesCommit ==
    ASSUME Types, NEW i \in Requests, AcceptCommit(i)
    PROVE  Types'
  <1>1. Idle \in Acceptance /\ Idle.pc = "idle"
    BY DEF Idle, Acceptance
  <1>2. membership' \in [Users -> MemberStates]
    <2> DEFINE u == accept[i].user
    <2>1. u \in Users /\ membership \in [Users -> MemberStates]
      BY CommitEffect DEF Types, TypeOK
    <2>2. membership' = [membership EXCEPT ![u] = Activated(membership[u])]
      BY DEF AcceptCommit
    <2>3. Activated(membership[u]) \in MemberStates
      BY <2>1 DEF Activated, MemberStates
    <2> HIDE DEF u
    <2> QED  BY <2>1, <2>2, <2>3
  <1>3. roles' \subseteq (Users \X Locations)
    <2>1. accept[i].user \in Users /\ accept[i].location \in Locations
      BY CommitEffect
    <2>2. roles \subseteq (Users \X Locations)
          /\ roles' = roles \cup {<<accept[i].user, accept[i].location>>}
      BY DEF Types, TypeOK, AcceptCommit
    <2> QED  BY <2>1, <2>2
  <1>4. TypeOK'
    <2>1. emp' \in [Employees -> EmployeeRow]
      BY CommitEffect DEF Types, TypeOK, AcceptCommit
    <2>2. inv' \in [Requests -> InvitationRow]
      BY CommitEffect DEF Types, TypeOK, AcceptCommit
    <2>3. accept' \in [Requests -> Acceptance]
      BY <1>1 DEF Types, TypeOK, AcceptCommit
    <2>4. /\ account' \in [Users -> AccountStates]
          /\ req' \in [Requests -> Request]
          /\ edits' \in Nat
      BY DEF Types, TypeOK, AcceptCommit
    <2> QED  BY <1>2, <1>3, <2>1, <2>2, <2>3, <2>4 DEF TypeOK
  <1>5. RequestShape'
    <2>1. req' = req /\ inv[i].status = "pending"
          /\ \A j \in Requests : j # i => inv'[j] = inv[j]
      BY CommitEffect DEF AcceptCommit
    <2> QED  BY <2>1 DEF Types, RequestShape, InFlight
  <1>6. RowShape'
    BY CommitEffect DEF Types, RowShape
  <1>7. AcceptShape' /\ HeldRowIsStable'
    BY CommitEffect, <1>1 DEF Types, AcceptShape, HeldRowIsStable
  <1> QED  BY <1>4, <1>5, <1>6, <1>7 DEF Types

(***************************************************************************)
(* Revocation, expiry and profile edits.                                   *)
(***************************************************************************)
LEMMA TypesRevokeExpire ==
    ASSUME Types, NEW i \in Requests, Revoke(i) \/ Expire(i)
    PROVE  Types'
  <1>1. inv[i] \in InvitationRow /\ inv[i].status = "pending"
    BY DEF Types, TypeOK, Revoke, Expire
  <1>2. /\ inv'[i] \in InvitationRow
        /\ inv'[i].status = IF Revoke(i) THEN "revoked" ELSE "pending"
        /\ inv'[i].employee = inv[i].employee /\ inv'[i].target = inv[i].target
        /\ \A j \in Requests : j # i => inv'[j] = inv[j]
    <2>1. CASE Revoke(i)
      BY <1>1, <2>1 DEF Types, TypeOK, Revoke, InvitationRow, Statuses
    <2>2. CASE ~Revoke(i) /\ Expire(i)
      BY <1>1, <2>2 DEF Types, TypeOK, Expire, InvitationRow
    <2> QED  BY <2>1, <2>2
  <1>3. UNCHANGED <<emp, membership, roles, account, req, accept, edits>>
    BY DEF Revoke, Expire
  <1>4. TypeOK'
    BY <1>2, <1>3 DEF Types, TypeOK, Revoke, Expire
  <1>5. RequestShape' /\ RowShape' /\ AcceptShape'
    BY <1>1, <1>2, <1>3 DEF Types, RequestShape, RowShape, AcceptShape
  <1>6. HeldRowIsStable'
    BY <1>1, <1>2, <1>3 DEF Types, HeldRowIsStable, Revoke, Unlocked
  <1> QED  BY <1>4, <1>5, <1>6 DEF Types

LEMMA EditEffect ==
    ASSUME Types, NEW e \in Employees, Edit(e)
    PROVE  /\ emp'[e] \in EmployeeRow /\ emp'[e].user = emp[e].user
           /\ \A d \in Employees : d # e => emp'[d] = emp[d]
           /\ emp' \in [Employees -> EmployeeRow]
           /\ edits' \in Nat
           /\ UNCHANGED <<inv, membership, roles, account, req, accept>>
  <1>1. PICK a \in BOOLEAN, m \in Users \cup {NoUser}, l \in Locations : EditEmployee(e, a, m, l)
    BY DEF Edit
  <1>2. emp[e] \in EmployeeRow /\ emp \in [Employees -> EmployeeRow] /\ edits \in Nat
    BY DEF Types, TypeOK
  <1>3. /\ emp' = [emp EXCEPT ![e] = [emp[e] EXCEPT !.active = a, !.email = m,
                                                    !.location = l]]
        /\ edits' = edits + 1
        /\ UNCHANGED <<inv, membership, roles, account, req, accept>>
    BY <1>1 DEF EditEmployee
  <1>4. emp'[e] \in EmployeeRow /\ emp'[e].user = emp[e].user
    BY <1>2, <1>3 DEF EmployeeRow
  <1>5. \A d \in Employees : d # e => emp'[d] = emp[d]
    BY <1>2, <1>3
  <1>6. emp' \in [Employees -> EmployeeRow]
    BY <1>2, <1>3, <1>4
  <1>7. edits' \in Nat
    BY <1>2, <1>3
  <1> QED  BY <1>3, <1>4, <1>5, <1>6, <1>7

LEMMA TypesEdit ==
    ASSUME Types, NEW e \in Employees, Edit(e)
    PROVE  Types'
  BY EditEffect DEF Types, TypeOK, RequestShape, RowShape, AcceptShape, HeldRowIsStable

LEMMA TypesNext ==
    ASSUME Types, [Next]_vars
    PROVE  Types'
  <1>1. CASE UNCHANGED vars
    BY <1>1 DEF Types, TypeOK, RequestShape, RowShape, AcceptShape, HeldRowIsStable, vars
  <1>2. CASE \E u \in Users : AbandonSetup(u)
    BY <1>2, TypesAbandon
  <1>3. CASE \E e \in Employees : Edit(e)
    BY <1>3, TypesEdit
  <1>4. ASSUME NEW r \in Requests,
               \/ Begin(r) \/ InviteByEmail(r) \/ FindRegistered(r)
               \/ SendRecovery(r) \/ RequestFails(r)
               \/ UpsertCheck(r) \/ UpsertScan(r) \/ UpsertRefresh(r)
               \/ UpsertInsert(r) \/ UpsertConflict(r)
               \/ OpenLinkToPage(r) \/ OpenLinkRejected(r) \/ SetPassword(r)
               \/ AcceptLock(r) \/ AcceptRead(r) \/ AcceptCommit(r)
               \/ AcceptRollback(r) \/ Revoke(r) \/ Expire(r)
        PROVE  Types'
    BY <1>4, TypesBegin, TypesCalls, TypesRefresh, TypesInsert, TypesLinks, TypesHold,
       TypesCommit, TypesRevokeExpire
  <1> QED  BY <1>1, <1>2, <1>3, <1>4 DEF Next

LEMMA TypesInit == Init => Types
  <1> SUFFICES ASSUME Init PROVE Types
    OBVIOUS
  <1>1. emp \in [Employees -> EmployeeRow]
    BY DEF Init
  <1>2. inv \in [Requests -> InvitationRow]
    BY DEF Init, InvitationRow, Statuses
  <1>3. membership \in [Users -> MemberStates]
    BY SeedAssumption DEF Init
  <1>4. account \in [Users -> AccountStates]
    BY DEF Init, AccountStates
  <1>5. req \in [Requests -> Request]
    BY DEF Init, Request
  <1>6. accept \in [Requests -> Acceptance]
    BY DEF Init, Idle, Acceptance
  <1>7. TypeOK
    BY <1>1, <1>2, <1>3, <1>4, <1>5, <1>6 DEF Init, TypeOK
  <1>8. RequestShape /\ RowShape
    BY DEF Init, RequestShape, RowShape, InFlight
  <1>9. AcceptShape /\ HeldRowIsStable
    BY DEF Init, AcceptShape, HeldRowIsStable, Idle
  <1> QED  BY <1>7, <1>8, <1>9 DEF Types

\* Every variable keeps its type, and a row held by an acceptance stays pending
\* with the target whose session locked it.
THEOREM TypeCorrect == Spec => []TypeOK
  <1>1. Types /\ [Next]_vars => Types'  BY TypesNext
  <1>2. Types => TypeOK  BY DEF Types
  <1> QED  BY TypesInit, <1>1, <1>2, PTL DEF Spec

\* No refresh, revoke or second acceptance disturbs a row an acceptance holds.
THEOREM HeldRowsStable == Spec => []HeldRowIsStable
  <1>1. Types /\ [Next]_vars => Types'  BY TypesNext
  <1>2. Types => HeldRowIsStable  BY DEF Types
  <1> QED  BY TypesInit, <1>1, <1>2, PTL DEF Spec

(***************************************************************************)
(* The safety properties: most steps write none of the rows they mention.  *)
(***************************************************************************)
LEMMA SafeQuiet ==
    ASSUME Inv, UNCHANGED <<emp, inv, membership, roles>>
    PROVE  Safe'
  BY DEF Inv, Safe, OnePendingPerEmployee, BindingIsAcceptance, OneEmployeePerUser,
         BoundHasAccess

LEMMA SafeRefresh ==
    ASSUME Inv, NEW r \in Requests, UpsertRefresh(r)
    PROVE  Safe'
  <1> DEFINE i == req[r].seen
  <1>1. i \in Requests /\ inv[i] \in InvitationRow /\ inv[i].status = "pending"
    BY DEF Inv, Types, TypeOK, UpsertRefresh, StillPending, Request
  <1>2. /\ inv'[i].status = "pending" /\ inv'[i].employee = inv[i].employee
        /\ \A j \in Requests : j # i => inv'[j] = inv[j]
        /\ UNCHANGED <<emp, membership, roles>>
    BY <1>1 DEF Inv, Types, TypeOK, UpsertRefresh, StillPending, InvitationRow
  <1> HIDE DEF i
  <1>3. OnePendingPerEmployee'
    BY <1>1, <1>2 DEF Inv, Safe, OnePendingPerEmployee
  <1>4. BindingIsAcceptance'
    BY <1>1, <1>2 DEF Inv, Safe, BindingIsAcceptance
  <1>5. OneEmployeePerUser' /\ BoundHasAccess'
    BY <1>2 DEF Inv, Safe, OneEmployeePerUser, BoundHasAccess
  <1> QED  BY <1>3, <1>4, <1>5 DEF Safe

LEMMA SafeInsert ==
    ASSUME Inv, NEW r \in Requests, UpsertInsert(r)
    PROVE  Safe'
  <1>1. /\ inv[r].status = "absent" /\ IndexFree(req[r].employee)
        /\ inv'[r].status = "pending" /\ inv'[r].employee = req[r].employee
        /\ \A j \in Requests : j # r => inv'[j] = inv[j]
        /\ UNCHANGED <<emp, membership, roles>>
    BY DEF Inv, Types, TypeOK, RequestShape, InFlight, UpsertInsert
  <1>2. OnePendingPerEmployee'
    BY <1>1 DEF Inv, Safe, OnePendingPerEmployee, IndexFree, PendingOf
  <1>3. BindingIsAcceptance'
    BY <1>1 DEF Inv, Safe, BindingIsAcceptance
  <1>4. OneEmployeePerUser' /\ BoundHasAccess'
    BY <1>1 DEF Inv, Safe, OneEmployeePerUser, BoundHasAccess
  <1> QED  BY <1>2, <1>3, <1>4 DEF Safe

LEMMA SafeRevokeExpire ==
    ASSUME Inv, NEW i \in Requests, Revoke(i) \/ Expire(i)
    PROVE  Safe'
  <1>1. /\ inv[i] \in InvitationRow /\ inv[i].status = "pending"
        /\ UNCHANGED <<emp, membership, roles>>
    BY DEF Inv, Types, TypeOK, Revoke, Expire
  <1>2. /\ inv'[i].status \in {"pending", "revoked"}
        /\ inv'[i].employee = inv[i].employee /\ inv'[i].target = inv[i].target
        /\ \A j \in Requests : j # i => inv'[j] = inv[j]
    BY <1>1 DEF Inv, Types, TypeOK, Revoke, Expire, InvitationRow
  <1>3. OnePendingPerEmployee'
    BY <1>1, <1>2 DEF Inv, Safe, OnePendingPerEmployee
  <1>4. BindingIsAcceptance'
    BY <1>1, <1>2 DEF Inv, Safe, BindingIsAcceptance
  <1>5. OneEmployeePerUser' /\ BoundHasAccess'
    BY <1>1 DEF Inv, Safe, OneEmployeePerUser, BoundHasAccess
  <1> QED  BY <1>3, <1>4, <1>5 DEF Safe

LEMMA SafeEdit ==
    ASSUME Inv, NEW e \in Employees, Edit(e)
    PROVE  Safe'
  <1>1. \A d \in Employees : emp'[d].user = emp[d].user
    BY EditEffect DEF Inv
  <1>2. UNCHANGED <<inv, membership, roles>>
    BY EditEffect DEF Inv
  <1>3. OnePendingPerEmployee' /\ OneEmployeePerUser'
    BY <1>1, <1>2 DEF Inv, Safe, OnePendingPerEmployee, OneEmployeePerUser
  <1>4. BindingIsAcceptance'
    <2>1. \A i \in Requests : inv[i].status = "accepted" => inv[i].employee \in Employees
      BY DEF Inv, Types, RowShape
    <2> QED  BY <1>1, <1>2, <2>1 DEF Inv, Safe, BindingIsAcceptance
  <1>5. BoundHasAccess'
    BY <1>1, <1>2 DEF Inv, Safe, BoundHasAccess
  <1> QED  BY <1>3, <1>4, <1>5 DEF Safe

\* The commit: no other employee holds the user (index of 0063), the employee was
\* unbound, so no earlier accepted row names it.
LEMMA SafeCommit ==
    ASSUME Inv, NEW i \in Requests, AcceptCommit(i)
    PROVE  Safe'
  <1> DEFINE e == inv[i].employee
             u == accept[i].user
  <1>1. Types
    BY DEF Inv
  <1>2. /\ inv[i].status = "pending" /\ e \in Employees
        /\ u = inv[i].target /\ u \in Users /\ accept[i].location \in Locations
        /\ emp'[e].user = u
        /\ \A d \in Employees : d # e => emp'[d] = emp[d]
        /\ inv'[i].status = "accepted"
        /\ inv'[i].employee = e /\ inv'[i].target = u
        /\ \A j \in Requests : j # i => inv'[j] = inv[j]
    BY <1>1, CommitEffect
  <1>3. /\ emp[e].user = NoUser /\ FreeUser(u)
        /\ roles' = roles \cup {<<u, accept[i].location>>}
        /\ membership' = [membership EXCEPT ![u] = Activated(membership[u])]
    BY DEF AcceptCommit
  <1>4. u # NoUser
    BY <1>2, AbsentValues
  <1> HIDE DEF e, u
  <1>5. OnePendingPerEmployee'
    BY <1>2 DEF Inv, Safe, OnePendingPerEmployee
  <1>6. OneEmployeePerUser'
    BY <1>2, <1>3 DEF Inv, Safe, OneEmployeePerUser, FreeUser
  <1>7. BindingIsAcceptance'
    <2>1. ASSUME NEW j \in Requests, inv'[j].status = "accepted"
          PROVE  inv'[j].target # NoUser /\ emp'[inv'[j].employee].user = inv'[j].target
      <3>1. CASE j = i
        BY <1>2, <1>4, <3>1
      <3>2. CASE j # i
        <4>1. /\ inv[j].status = "accepted" /\ inv'[j] = inv[j]
              /\ inv[j].target # NoUser
              /\ emp[inv[j].employee].user = inv[j].target
          BY <1>2, <2>1, <3>2 DEF Inv, Safe, BindingIsAcceptance
        <4>2. inv[j].employee # e /\ inv[j].employee \in Employees
          BY <1>3, <4>1 DEF Inv, Types, RowShape
        <4> QED  BY <1>2, <4>1, <4>2
      <3> QED  BY <3>1, <3>2
    <2>2. ASSUME NEW d \in Employees, emp'[d].user # NoUser
          PROVE  \E j \in Requests : inv'[j].status = "accepted" /\ inv'[j].employee = d
      <3>1. CASE d = e
        BY <1>2, <3>1
      <3>2. CASE d # e
        <4>1. PICK j \in Requests : inv[j].status = "accepted" /\ inv[j].employee = d
          BY <1>2, <2>2, <3>2 DEF Inv, Safe, BindingIsAcceptance
        <4> QED  BY <1>2, <4>1
      <3> QED  BY <3>1, <3>2
    <2> QED  BY <2>1, <2>2 DEF BindingIsAcceptance
  <1>8. BoundHasAccess'
    <2>1. membership \in [Users -> MemberStates]
      BY <1>1 DEF Types, TypeOK
    <2>2. Activated(membership[u]) \notin {"absent", "invited"}
      BY DEF Activated
    <2>3. ASSUME NEW d \in Employees, emp'[d].user # NoUser
          PROVE  /\ membership'[emp'[d].user] \notin {"absent", "invited"}
                 /\ \E l \in Locations : <<emp'[d].user, l>> \in roles'
      <3>1. CASE d = e
        <4>1. membership'[u] = Activated(membership[u])
          BY <1>2, <1>3, <2>1
        <4> QED  BY <1>2, <1>3, <2>2, <3>1, <4>1
      <3>2. CASE d # e
        <4>1. /\ emp'[d] = emp[d] /\ emp[d].user # u /\ emp[d].user # NoUser
              /\ membership[emp[d].user] \notin {"absent", "invited"}
              /\ \E l \in Locations : <<emp[d].user, l>> \in roles
          BY <1>2, <1>3, <2>3, <3>2 DEF Inv, Safe, BoundHasAccess, FreeUser
        <4>2. emp[d].user \in Users
          BY <1>1, <4>1 DEF Types, TypeOK, EmployeeRow
        <4>3. membership'[emp[d].user] = membership[emp[d].user]
          BY <1>3, <2>1, <4>1, <4>2
        <4> QED  BY <1>3, <4>1, <4>3
      <3> QED  BY <3>1, <3>2
    <2> QED  BY <2>3 DEF BoundHasAccess
  <1> QED  BY <1>5, <1>6, <1>7, <1>8 DEF Safe

LEMMA InvNext ==
    ASSUME Inv, [Next]_vars
    PROVE  Inv'
  <1>1. Types'
    BY TypesNext DEF Inv
  <1>2. ASSUME UNCHANGED vars
        PROVE  Safe'
    BY <1>2, SafeQuiet DEF vars
  <1>3. ASSUME NEW u \in Users, AbandonSetup(u)
        PROVE  Safe'
    BY <1>3, SafeQuiet DEF AbandonSetup
  <1>4. ASSUME NEW e \in Employees, Edit(e)
        PROVE  Safe'
    BY <1>4, SafeEdit, SMTT(60)
  <1>5. ASSUME NEW r \in Requests,
               \/ Begin(r) \/ InviteByEmail(r) \/ FindRegistered(r)
               \/ SendRecovery(r) \/ RequestFails(r)
               \/ UpsertCheck(r) \/ UpsertScan(r) \/ UpsertConflict(r)
        PROVE  Safe'
    BY <1>5, SafeQuiet DEF Begin, BeginRequest, InviteByEmail, FindRegistered, SendRecovery,
       RequestFails, UpsertCheck, UpsertScan, UpsertConflict
  <1>6. ASSUME NEW r \in Requests,
               \/ OpenLinkToPage(r) \/ OpenLinkRejected(r) \/ SetPassword(r)
               \/ AcceptLock(r) \/ AcceptRead(r) \/ AcceptRollback(r)
        PROVE  Safe'
    BY <1>6, SafeQuiet DEF OpenLinkToPage, OpenLinkRejected, SetPassword, AcceptLock,
       AcceptRead, AcceptRollback
  <1>7. ASSUME NEW r \in Requests,
               UpsertRefresh(r) \/ UpsertInsert(r) \/ AcceptCommit(r) \/ Revoke(r) \/ Expire(r)
        PROVE  Safe'
    BY <1>7, SafeRefresh, SafeInsert, SafeCommit, SafeRevokeExpire
  <1>8. Safe'
    BY <1>2, <1>3, <1>4, <1>5, <1>6, <1>7 DEF Next
  <1> QED  BY <1>1, <1>8 DEF Inv

LEMMA InvInit == Init => Inv
  <1>1. Init => Types
    BY TypesInit
  <1>2. Init => Safe
    BY DEF Init, Safe, OnePendingPerEmployee, BindingIsAcceptance, OneEmployeePerUser,
           BoundHasAccess
  <1> QED  BY <1>1, <1>2 DEF Inv

LEMMA InvHolds == Spec => []Inv
  <1>1. Inv /\ [Next]_vars => Inv'  BY InvNext
  <1> QED  BY InvInit, <1>1, PTL DEF Spec

\* An invitation is accepted exactly when its target holds the employee row, and
\* nobody is bound otherwise.
THEOREM BindingCorrect == Spec => []BindingIsAcceptance
  <1>1. Inv => BindingIsAcceptance  BY DEF Inv, Safe
  <1> QED  BY InvHolds, <1>1, PTL

\* One Auth user never holds two employee rows of the tenant.
THEOREM UniqueBinding == Spec => []OneEmployeePerUser
  <1>1. Inv => OneEmployeePerUser  BY DEF Inv, Safe
  <1> QED  BY InvHolds, <1>1, PTL

\* Concurrent invites, resends, revokes and acceptances leave one open row.
THEOREM UniquePending == Spec => []OnePendingPerEmployee
  <1>1. Inv => OnePendingPerEmployee  BY DEF Inv, Safe
  <1> QED  BY InvHolds, <1>1, PTL

\* Nobody is bound without a membership and the employee role.
THEOREM AccessComplete == Spec => []BoundHasAccess
  <1>1. Inv => BoundHasAccess  BY SMTT(60) DEF Inv, Safe
  <1> QED  BY InvHolds, <1>1, PTL

(***************************************************************************)
(* Closed invitations are never written again.                             *)
(***************************************************************************)
Closed(i) == inv[i].status \in {"accepted", "revoked"}

LEMMA ClosedStep ==
    ASSUME Inv, [Next]_vars, NEW i \in Requests, Closed(i)
    PROVE  inv'[i] = inv[i]
  <1>1. CASE UNCHANGED inv
    BY <1>1
  <1>2. ASSUME NEW r \in Requests, UpsertRefresh(r)
        PROVE  inv'[i] = inv[i]
    <2>1. req[r].seen # i
      BY <1>2 DEF UpsertRefresh, StillPending, Closed
    <2> QED  BY <1>2, <2>1 DEF UpsertRefresh, Inv, Types, TypeOK
  <1>3. ASSUME NEW r \in Requests, UpsertInsert(r)
        PROVE  inv'[i] = inv[i]
    <2>1. inv[r].status = "absent"
      BY <1>3 DEF UpsertInsert, Inv, Types, RequestShape, InFlight
    <2> QED  BY <1>3, <2>1 DEF UpsertInsert, Closed, Inv, Types, TypeOK
  <1>4. ASSUME NEW r \in Requests, AcceptCommit(r)
        PROVE  inv'[i] = inv[i]
    BY <1>4, CommitEffect DEF Closed, Inv
  <1>5. ASSUME NEW r \in Requests, Revoke(r) \/ Expire(r)
        PROVE  inv'[i] = inv[i]
    BY <1>5 DEF Revoke, Expire, Closed, Inv, Types, TypeOK
  <1>6. ASSUME NEW e \in Employees, Edit(e)
        PROVE  UNCHANGED inv
    BY <1>6, EditEffect DEF Inv
  <1> QED
    BY <1>1, <1>2, <1>3, <1>4, <1>5, <1>6, ZenonT(60)
       DEF Next, vars, Begin, BeginRequest, InviteByEmail, FindRegistered, SendRecovery,
           RequestFails, UpsertCheck, UpsertScan, UpsertConflict, OpenLinkToPage,
           OpenLinkRejected, SetPassword, AcceptLock, AcceptRead, AcceptRollback, AbandonSetup

\* No resend, revoke or acceptance that waited for a lock rewrites a closed row.
THEOREM ClosedRowsStick == Spec => FinalStatesStick
  <1>1. Inv /\ [Next]_vars =>
          [\A i \in Requests : inv[i].status \in {"accepted", "revoked"} =>
              inv'[i] = inv[i]]_vars
    BY ClosedStep DEF Closed
  <1> QED  BY InvHolds, <1>1, PTL DEF Spec, FinalStatesStick

(***************************************************************************)
(* Refinement.  The open offer of an employee is the target of its only    *)
(* pending row, so the mapping is a function of the invitation table.      *)
(***************************************************************************)
LEMMA OfferUnique ==
    ASSUME NEW rows, NEW i \in Requests, NEW e, Offers(rows, i, e),
           \A j \in Requests : j # i => ~Offers(rows, j, e)
    PROVE  OfferIn(rows, e) = rows[i].target
  <1>1. (CHOOSE j \in Requests : Offers(rows, j, e)) = i
    OBVIOUS
  <1> QED  BY <1>1 DEF OfferIn

LEMMA OfferNone ==
    ASSUME NEW rows, NEW e, \A j \in Requests : ~Offers(rows, j, e)
    PROVE  OfferIn(rows, e) = NoUser
  BY DEF OfferIn

\* Steps that keep the open rows of an employee and their targets keep its offer.
LEMMA OfferSame ==
    ASSUME NEW rows, NEW rows2, NEW e,
           \A j \in Requests : Offers(rows2, j, e) <=> Offers(rows, j, e),
           \A j \in Requests : Offers(rows, j, e) => rows2[j].target = rows[j].target,
           \A i, j \in Requests : Offers(rows, i, e) /\ Offers(rows, j, e) => i = j
    PROVE  OfferIn(rows2, e) = OfferIn(rows, e)
  <1>1. CASE \E i \in Requests : Offers(rows, i, e)
    <2>1. PICK i \in Requests : Offers(rows, i, e)
      BY <1>1
    <2>2. OfferIn(rows, e) = rows[i].target
      BY <2>1, OfferUnique
    <2>3. OfferIn(rows2, e) = rows2[i].target
      BY <2>1, OfferUnique
    <2> QED  BY <2>1, <2>2, <2>3
  <1>2. CASE ~\E i \in Requests : Offers(rows, i, e)
    BY <1>2, OfferNone
  <1> QED  BY <1>1, <1>2

LEMMA OneOffer ==
    ASSUME Inv, NEW e, NEW i \in Requests, NEW j \in Requests,
           Offers(inv, i, e), Offers(inv, j, e)
    PROVE  i = j
  BY DEF Inv, Safe, OnePendingPerEmployee, Offers

\* A step that writes only row i moves no offer but that of the row's employee.
LEMMA OtherOffers ==
    ASSUME Inv, NEW i \in Requests, NEW d,
           \A j \in Requests : j # i => inv'[j] = inv[j],
           ~Offers(inv, i, d), ~Offers(inv', i, d)
    PROVE  OfferIn(inv', d) = OfferIn(inv, d)
  <1>1. \A j \in Requests : Offers(inv', j, d) <=> Offers(inv, j, d)
    BY DEF Offers
  <1>2. \A j \in Requests : Offers(inv, j, d) => inv'[j].target = inv[j].target
    OBVIOUS
  <1>3. \A j, k \in Requests : Offers(inv, j, d) /\ Offers(inv, k, d) => j = k
    BY OneOffer
  <1> QED  BY <1>1, <1>2, <1>3, OfferSame

Bound == [e \in Employees |-> emp[e].user]
Open  == [e \in Employees |-> OfferIn(inv, e)]

LEMMA MapQuiet ==
    ASSUME \A e \in Employees : emp'[e].user = emp[e].user,
           \A e \in Employees : OfferIn(inv', e) = OfferIn(inv, e)
    PROVE  UNCHANGED Access!avars
  BY DEF Access!avars

LEMMA MapOffer ==
    ASSUME NEW e \in Employees, NEW u \in Users \cup {NoUser},
           UNCHANGED emp, OfferIn(inv', e) = u,
           \A d \in Employees : d # e => OfferIn(inv', d) = OfferIn(inv, d)
    PROVE  Access!ANext
  <1>1. Bound' = Bound /\ Open' = [Open EXCEPT ![e] = u]
    BY DEF Bound, Open
  <1>2. CASE u = NoUser
    <2>1. Access!Withdraw(e)
      BY <1>1, <1>2 DEF Access!Withdraw, Bound, Open
    <2> QED  BY <2>1 DEF Access!ANext
  <1>3. CASE u \in Users
    <2>1. Access!Offer(e, u)
      BY <1>1 DEF Access!Offer, Bound, Open
    <2> QED  BY <1>3, <2>1 DEF Access!ANext
  <1> QED  BY <1>2, <1>3

LEMMA MapRefresh ==
    ASSUME Inv, Inv', NEW r \in Requests, UpsertRefresh(r)
    PROVE  Access!ANext
  <1> DEFINE i == req[r].seen
             e == inv[i].employee
             u == req[r].target
  <1>1. i \in Requests /\ inv[i].status = "pending" /\ u \in Users /\ UNCHANGED emp
    BY DEF Inv, Types, TypeOK, RequestShape, InFlight, UpsertRefresh, StillPending, Request
  <1>2. e \in Employees
    BY <1>1 DEF Inv, Types, RowShape
  <1>3. /\ inv'[i].status = "pending" /\ inv'[i].employee = e /\ inv'[i].target = u
        /\ \A j \in Requests : j # i => inv'[j] = inv[j]
    BY <1>1 DEF Inv, Types, TypeOK, UpsertRefresh, StillPending, InvitationRow
  <1> HIDE DEF i, u
  <1>4. OfferIn(inv', e) = u
    <2>1. Offers(inv', i, e) /\ Offers(inv, i, e)
      BY <1>1, <1>3 DEF Offers
    <2>2. \A j \in Requests : j # i => ~Offers(inv', j, e)
      BY <1>1, <1>3, <2>1, OneOffer DEF Offers
    <2> QED  BY <1>1, <1>3, <2>1, <2>2, OfferUnique
  <1>5. \A d \in Employees : d # e => OfferIn(inv', d) = OfferIn(inv, d)
    BY <1>1, <1>3, OtherOffers DEF Offers
  <1> HIDE DEF e
  <1> QED  BY <1>1, <1>2, <1>4, <1>5, MapOffer

LEMMA MapInsert ==
    ASSUME Inv, NEW r \in Requests, UpsertInsert(r)
    PROVE  Access!ANext
  <1> DEFINE e == req[r].employee
             u == req[r].target
  <1>1. e \in Employees /\ u \in Users /\ inv[r].status = "absent" /\ UNCHANGED emp
    BY DEF Inv, Types, RequestShape, InFlight, UpsertInsert
  <1>2. /\ inv'[r].status = "pending" /\ inv'[r].employee = e /\ inv'[r].target = u
        /\ \A j \in Requests : j # r => inv'[j] = inv[j]
        /\ IndexFree(e)
    BY DEF Inv, Types, TypeOK, UpsertInsert
  <1> HIDE DEF e, u
  <1>3. OfferIn(inv', e) = u
    <2>1. Offers(inv', r, e)
      BY <1>2 DEF Offers
    <2>2. \A j \in Requests : j # r => ~Offers(inv', j, e)
      BY <1>2 DEF Offers, IndexFree, PendingOf
    <2> QED  BY <1>2, <2>1, <2>2, OfferUnique
  <1>4. \A d \in Employees : d # e => OfferIn(inv', d) = OfferIn(inv, d)
    BY <1>1, <1>2, OtherOffers DEF Offers
  <1> QED  BY <1>1, <1>3, <1>4, MapOffer

LEMMA MapRevokeExpire ==
    ASSUME Inv, NEW i \in Requests, Revoke(i) \/ Expire(i)
    PROVE  Access!ANext \/ UNCHANGED Access!avars
  <1> DEFINE e == inv[i].employee
  <1>1. inv[i].status = "pending" /\ inv[i] \in InvitationRow /\ UNCHANGED emp
    BY DEF Inv, Types, TypeOK, Revoke, Expire
  <1>2. e \in Employees
    BY <1>1 DEF Inv, Types, RowShape
  <1>3. \A j \in Requests : j # i => inv'[j] = inv[j]
    BY DEF Inv, Types, TypeOK, Revoke, Expire
  <1>4. CASE Revoke(i)
    <2>1. inv'[i].status = "revoked"
      BY <1>1, <1>4 DEF Inv, Types, TypeOK, Revoke, InvitationRow
    <2>2. Offers(inv, i, e)
      BY <1>1 DEF Offers
    <2>3. \A j \in Requests : ~Offers(inv', j, e)
      BY <1>3, <2>1, <2>2, OneOffer DEF Offers
    <2>4. OfferIn(inv', e) = NoUser
      BY <2>3, OfferNone
    <2>5. \A d \in Employees : d # e => OfferIn(inv', d) = OfferIn(inv, d)
      BY <1>3, <2>1, OtherOffers DEF Offers
    <2> HIDE DEF e
    <2> QED  BY <1>1, <1>2, <2>4, <2>5, MapOffer
  <1>5. CASE Expire(i)
    <2>1. /\ inv'[i].status = inv[i].status /\ inv'[i].employee = inv[i].employee
          /\ inv'[i].target = inv[i].target
      BY <1>1, <1>5 DEF Inv, Types, TypeOK, Expire, InvitationRow
    <2>2. ASSUME NEW d \in Employees
          PROVE  OfferIn(inv', d) = OfferIn(inv, d)
      <3>1. \A j \in Requests : Offers(inv', j, d) <=> Offers(inv, j, d)
        BY <1>3, <2>1 DEF Offers
      <3>2. \A j \in Requests : Offers(inv, j, d) => inv'[j].target = inv[j].target
        BY <1>3, <2>1
      <3>3. \A j, k \in Requests : Offers(inv, j, d) /\ Offers(inv, k, d) => j = k
        BY OneOffer
      <3> QED  BY <3>1, <3>2, <3>3, OfferSame
    <2> QED  BY <1>1, <2>2, MapQuiet
  <1> QED  BY <1>4, <1>5

LEMMA MapBind ==
    ASSUME NEW e \in Employees, NEW u \in Users,
           u # NoUser, emp[e].user = NoUser, \A d \in Employees : emp[d].user # u,
           emp'[e].user = u, \A d \in Employees : d # e => emp'[d] = emp[d],
           OfferIn(inv, e) = u, OfferIn(inv', e) = NoUser,
           \A d \in Employees : d # e => OfferIn(inv', d) = OfferIn(inv, d)
    PROVE  Access!ANext
  <1>1. /\ Bound' = [Bound EXCEPT ![e] = u]
        /\ Open' = [Open EXCEPT ![e] = NoUser]
    BY DEF Bound, Open
  <1>2. /\ Open[e] = u /\ Bound[e] = NoUser
        /\ \A d \in Employees : Bound[d] # u
    BY DEF Bound, Open
  <1>3. Access!Bind(e)
    BY <1>1, <1>2 DEF Access!Bind, Bound, Open
  <1> QED  BY <1>3 DEF Access!ANext

\* The commit consumes the only offer of the employee and binds its target.
LEMMA MapCommit ==
    ASSUME Inv, NEW i \in Requests, AcceptCommit(i)
    PROVE  Access!ANext
  <1> DEFINE e == inv[i].employee
             u == accept[i].user
  <1>1. Types
    BY DEF Inv
  <1>2. /\ inv[i].status = "pending" /\ e \in Employees
        /\ u = inv[i].target /\ u \in Users
        /\ emp'[e].user = u
        /\ \A d \in Employees : d # e => emp'[d] = emp[d]
        /\ inv'[i].status = "accepted"
        /\ \A j \in Requests : j # i => inv'[j] = inv[j]
    BY <1>1, CommitEffect
  <1>3. emp[e].user = NoUser /\ \A d \in Employees : emp[d].user # u
    BY DEF AcceptCommit, FreeUser
  <1>4. u # NoUser
    BY <1>2, AbsentValues
  <1>5. Offers(inv, i, e)
    BY <1>2 DEF Offers
  <1>6. OfferIn(inv, e) = u
    BY <1>2, <1>5, OneOffer, OfferUnique
  <1>7. OfferIn(inv', e) = NoUser
    <2>1. \A j \in Requests : ~Offers(inv', j, e)
      BY <1>2, <1>5, OneOffer DEF Offers
    <2> QED  BY <2>1, OfferNone
  <1>8. \A d \in Employees : d # e => OfferIn(inv', d) = OfferIn(inv, d)
    BY <1>2, OtherOffers DEF Offers
  <1> HIDE DEF e, u
  <1> QED  BY <1>2, <1>3, <1>4, <1>6, <1>7, <1>8, MapBind

LEMMA MapStep ==
    ASSUME Inv, Inv', [Next]_vars
    PROVE  [Access!ANext]_(Access!avars)
  <1>1. ASSUME UNCHANGED <<emp, inv>>
        PROVE  UNCHANGED Access!avars
    BY <1>1, MapQuiet
  <1>2. ASSUME NEW e \in Employees, Edit(e)
        PROVE  UNCHANGED Access!avars
    <2>1. UNCHANGED inv /\ \A d \in Employees : emp'[d].user = emp[d].user
      BY <1>2, EditEffect DEF Inv
    <2> QED  BY <2>1, MapQuiet
  <1>3. ASSUME NEW r \in Requests,
               UpsertRefresh(r) \/ UpsertInsert(r) \/ AcceptCommit(r) \/ Revoke(r) \/ Expire(r)
        PROVE  Access!ANext \/ UNCHANGED Access!avars
    BY <1>3, MapRefresh, MapInsert, MapCommit, MapRevokeExpire, SMTT(60)
  <1>4. ASSUME NEW r \in Requests,
               \/ Begin(r) \/ InviteByEmail(r) \/ FindRegistered(r)
               \/ SendRecovery(r) \/ RequestFails(r)
               \/ UpsertCheck(r) \/ UpsertScan(r) \/ UpsertConflict(r)
               \/ OpenLinkToPage(r) \/ OpenLinkRejected(r) \/ SetPassword(r)
               \/ AcceptLock(r) \/ AcceptRead(r) \/ AcceptRollback(r)
        PROVE  UNCHANGED <<emp, inv>>
    BY <1>4 DEF Begin, BeginRequest, InviteByEmail, FindRegistered, SendRecovery,
       RequestFails, UpsertCheck, UpsertScan, UpsertConflict, OpenLinkToPage,
       OpenLinkRejected, SetPassword, AcceptLock, AcceptRead, AcceptRollback
  <1>5. ASSUME NEW u \in Users, AbandonSetup(u)
        PROVE  UNCHANGED <<emp, inv>>
    BY <1>5 DEF AbandonSetup
  <1>6. ASSUME UNCHANGED vars
        PROVE  UNCHANGED <<emp, inv>>
    BY <1>6 DEF vars
  <1> QED  BY <1>1, <1>2, <1>3, <1>4, <1>5, <1>6 DEF Next

LEMMA MapInit == Init => Access!AInit
  <1> SUFFICES ASSUME Init PROVE Access!AInit
    OBVIOUS
  <1>1. \A e \in Employees : emp[e].user = NoUser
    BY DEF Init
  <1>2. \A e \in Employees : OfferIn(inv, e) = NoUser
    BY OfferNone DEF Init, Offers
  <1> QED  BY <1>1, <1>2 DEF Access!AInit

\* The invitation flow implements StaffAccess: an employee is bound only by
\* consuming the one open offer, once, to a user no other employee holds.
THEOREM Refinement == Spec => ImplementsStaffAccess
  <1>1. Inv /\ Inv' /\ [Next]_vars => [Access!ANext]_(Access!avars)
    BY MapStep
  <1> QED  BY InvHolds, MapInit, <1>1, PTL DEF Spec, ImplementsStaffAccess, Access!ASpec
=============================================================================
