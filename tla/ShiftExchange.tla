--------------------------- MODULE ShiftExchange ---------------------------
(***************************************************************************)
(* One auditable request flow about published shifts of a location: a      *)
(* staff member asks to hand a shift to a colleague (exchange), to move it *)
(* to another shift type (change) or to be taken off it (cancel); for an   *)
(* exchange a colleague volunteers; a manager decides.  Meanwhile managers *)
(* keep planning: they reassign, retime, publish shifts and deactivate     *)
(* staff.                                                                  *)
(*                                                                         *)
(* The accept and decide functions are transactions of several statements, *)
(* each with its own snapshot (READ COMMITTED); a statement is an action   *)
(* and the writes of a transaction appear at its commit.  tx[r] is the     *)
(* transaction that holds the lock of request row r.  Filing is one INSERT *)
(* whose policy reads the statement's snapshot and whose index entry is    *)
(* made later: a row with status "filing" is not in the table yet.         *)
(*                                                                         *)
(* A shift type is identified with its span <<start, end>> in the local    *)
(* day; a shift keeps the span it was given.                               *)
(***************************************************************************)
EXTENDS Naturals

CONSTANTS
    Employees,      \* the location's staff
    Shifts,         \* workforce.shifts rows
    Requests,       \* workforce.shift_exchanges rows: the bound on their number
    Spans,          \* the location's shift types
    Horizon,        \* bound on the clock
    EditLimit,      \* bound on the managers' planning edits
    NoEmployee, NoShift, NoSpan

ASSUME SpansAssumption == \A t \in Spans : /\ t \in Nat \X Nat
                                           /\ t[1] < t[2]
ASSUME BoundsAssumption == Horizon \in Nat /\ EditLimit \in Nat
ASSUME AbsentRows == /\ NoEmployee \notin Employees
                     /\ NoShift \notin Shifts
                     /\ NoSpan \notin Spans

VARIABLES
    shift,      \* shift[s]: employee_id, published, span
    ex,         \* ex[r]: the request row r
    active,     \* employees with is_active
    offered,    \* shift types with is_active
    tx,         \* tx[r]: the transaction holding request row r
    now,        \* the clock, in the unit of the spans
    edits       \* planning edits made so far

vars == <<shift, ex, active, offered, tx, now, edits>>

Kinds == {"exchange", "change", "cancel"}

ShiftRow == [owner : Employees \cup {NoEmployee}, published : BOOLEAN, span : Spans]

RequestRow == [status : {"absent", "filing", "open", "accepted", "approved", "rejected", "cancelled"},
               kind : Kinds,
               shift : Shifts \cup {NoShift},
               requester : Employees \cup {NoEmployee},
               replacement : Employees \cup {NoEmployee},
               span : Spans \cup {NoSpan}]

\* "accepting", "cleared": accept; "deciding", "holding", "checked": approve, the
\* last two with the shift row locked too.
Transaction == [pc : {"idle", "accepting", "cleared", "deciding", "holding", "checked"},
                by : Employees \cup {NoEmployee}]

NoTx == [pc |-> "idle", by |-> NoEmployee]

\* The one type invariant of the module.
TypeOK == /\ shift \in [Shifts -> ShiftRow]
          /\ ex \in [Requests -> RequestRow]
          /\ active \subseteq Employees
          /\ offered \subseteq Spans
          /\ tx \in [Requests -> Transaction]
          /\ now \in Nat
          /\ edits \in Nat

NoRequest == [status |-> "absent", kind |-> "exchange", shift |-> NoShift,
              requester |-> NoEmployee, replacement |-> NoEmployee, span |-> NoSpan]

Init == /\ shift \in [Shifts -> ShiftRow]
        /\ ex = [r \in Requests |-> NoRequest]
        /\ active = Employees
        /\ offered = Spans
        /\ tx = [r \in Requests |-> NoTx]
        /\ now = 0
        /\ edits = 0

Overlap(a, b) == a[1] < b[2] /\ b[1] < a[2]

\* Some other published shift of e overlaps shift s.
Clashes(e, s) == \E c \in Shifts : /\ c # s
                                   /\ shift[c].owner = e
                                   /\ shift[c].published
                                   /\ Overlap(shift[c].span, shift[s].span)

Active(r) == ex[r].status \in {"open", "accepted"}

Future(s) == shift[s].span[1] > now

-----------------------------------------------------------------------------
NoRequestLock(r) == TRUE   \* mutant: the request row is not locked

RowFree(r) == tx[r].pc = "idle"

NoShiftLock(s) == TRUE     \* mutant: the shift row is not locked

\* Only an approval locks shift rows.
ShiftFree(s) == \A r \in Requests : tx[r].pc \in {"holding", "checked"} => ex[r].shift # s

NoIndex(s) == TRUE         \* mutant: without the partial unique index

\* wf_shift_exchanges_one_active_per_shift
NoneActive(s) == \A r \in Requests : Active(r) => ex[r].shift # s

\* A staff member files a request about a published future shift of their own, as
\* the INSERT's snapshot shows it.
FileCheck(r, s, kind, span) ==
    LET e == shift[s].owner IN
    /\ ex[r].status = "absent"
    /\ e \in active
    /\ shift[s].published
    /\ Future(s)
    /\ IF kind = "change" THEN span \in offered ELSE span = NoSpan
    /\ ex' = [ex EXCEPT ![r] = [status |-> "filing", kind |-> kind, shift |-> s,
                                requester |-> e, replacement |-> NoEmployee,
                                span |-> span]]
    /\ UNCHANGED <<shift, active, offered, tx, now, edits>>

\* The index takes the row once no undecided request is on the shift (it waits for
\* one whose decision is running); the shift is not read again.
FileInsert(r) ==
    /\ ex[r].status = "filing"
    /\ NoneActive(ex[r].shift)
    /\ ex' = [ex EXCEPT ![r].status = "open"]
    /\ UNCHANGED <<shift, active, offered, tx, now, edits>>

\* Refused by the index, or lost on the way.
FileFails(r) ==
    /\ ex[r].status = "filing"
    /\ ex' = [ex EXCEPT ![r] = NoRequest]
    /\ UNCHANGED <<shift, active, offered, tx, now, edits>>

\* The requester takes the request back; the UPDATE waits for the row.
Cancel(r) ==
    /\ RowFree(r)
    /\ Active(r)
    /\ ex[r].requester \in active
    /\ ex' = [ex EXCEPT ![r].status = "cancelled"]
    /\ UNCHANGED <<shift, active, offered, tx, now, edits>>

-----------------------------------------------------------------------------
(* api.accept_workforce_shift_exchange *)

\* The open exchange is locked; the caller is an active colleague.
AcceptLock(r, e) ==
    /\ RowFree(r)
    /\ ex[r].status = "open" /\ ex[r].kind = "exchange"
    /\ e \in active
    /\ e # ex[r].requester
    /\ tx' = [tx EXCEPT ![r] = [pc |-> "accepting", by |-> e]]
    /\ UNCHANGED <<shift, ex, active, offered, now, edits>>

\* Staff see published shifts only; the offered one itself counts as a clash
\* once it is the caller's.
AcceptCheck(r) ==
    LET e == tx[r].by
        s == ex[r].shift
    IN  /\ tx[r].pc = "accepting"
        /\ shift[s].published => shift[s].owner # e /\ ~Clashes(e, s)
        /\ tx' = [tx EXCEPT ![r].pc = "cleared"]
        /\ UNCHANGED <<shift, ex, active, offered, now, edits>>

\* The policy of 0062 looks at is_active again when the row is written.
MayWrite(r) == tx[r].by \in active

AcceptCommit(r) ==
    /\ tx[r].pc = "cleared"
    /\ MayWrite(r)
    /\ ex' = [ex EXCEPT ![r] = [@ EXCEPT !.status = "accepted",
                                         !.replacement = tx[r].by]]
    /\ tx' = [tx EXCEPT ![r] = NoTx]
    /\ UNCHANGED <<shift, active, offered, now, edits>>

-----------------------------------------------------------------------------
(* api.decide_workforce_shift_exchange *)

Reject(r) ==
    /\ RowFree(r)
    /\ Active(r)
    /\ ex' = [ex EXCEPT ![r].status = "rejected"]
    /\ UNCHANGED <<shift, active, offered, tx, now, edits>>

ApproveLock(r) ==
    /\ RowFree(r)
    /\ Active(r)
    /\ tx' = [tx EXCEPT ![r] = [pc |-> "deciding", by |-> NoEmployee]]
    /\ UNCHANGED <<shift, ex, active, offered, now, edits>>

AnyOwner(r) == TRUE   \* mutant: whose shift it is is not looked at again

\* The shift is still published, future and the requester's.
StillTheirs(r) == LET s == ex[r].shift IN
    /\ shift[s].owner = ex[r].requester
    /\ shift[s].published
    /\ Future(s)

ApproveLockShift(r) ==
    /\ tx[r].pc = "deciding"
    /\ ShiftFree(ex[r].shift)
    /\ StillTheirs(r)
    /\ tx' = [tx EXCEPT ![r].pc = "holding"]
    /\ UNCHANGED <<shift, ex, active, offered, now, edits>>

\* The replacement's other shifts are read without a lock.
HasReplacement(r) == /\ ex[r].replacement # NoEmployee
                     /\ ~Clashes(ex[r].replacement, ex[r].shift)

ApproveCheck(r) ==
    /\ tx[r].pc = "holding"
    /\ ex[r].kind = "exchange" => HasReplacement(r)
    /\ ex[r].kind = "change" => ex[r].span \in offered
    /\ tx' = [tx EXCEPT ![r].pc = "checked"]
    /\ UNCHANGED <<shift, ex, active, offered, now, edits>>

\* The shift and the request change together.
Decided(r) ==
    LET row == shift[ex[r].shift] IN
    CASE ex[r].kind = "exchange" -> [row EXCEPT !.owner = ex[r].replacement]
      [] ex[r].kind = "cancel"   -> [row EXCEPT !.owner = NoEmployee]
      [] ex[r].kind = "change"   -> [row EXCEPT !.span = ex[r].span]

ApproveCommit(r) ==
    /\ tx[r].pc = "checked"
    /\ shift' = [shift EXCEPT ![ex[r].shift] = Decided(r)]
    /\ ex' = [ex EXCEPT ![r].status = "approved"]
    /\ tx' = [tx EXCEPT ![r] = NoTx]
    /\ UNCHANGED <<active, offered, now, edits>>

\* A raised exception or a lost connection: nothing persists, the locks go.
Rollback(r) ==
    /\ tx[r].pc # "idle"
    /\ tx' = [tx EXCEPT ![r] = NoTx]
    /\ UNCHANGED <<shift, ex, active, offered, now, edits>>

-----------------------------------------------------------------------------
(* The managers' planning, and time. *)

\* updateShiftAssignment: one UPDATE, it waits for a locked row and checks nothing.
AssignShift(s, e, published, span) ==
    /\ edits < EditLimit
    /\ ShiftFree(s)
    /\ shift' = [shift EXCEPT ![s] = [owner |-> e, published |-> published,
                                      span |-> span]]
    /\ edits' = edits + 1
    /\ UNCHANGED <<ex, active, offered, tx, now>>

\* publishSchedule: every draft at once; a locked shift is published already.
PublishSchedule ==
    /\ edits < EditLimit
    /\ shift' = [s \in Shifts |-> [shift[s] EXCEPT !.published = TRUE]]
    /\ edits' = edits + 1
    /\ UNCHANGED <<ex, active, offered, tx, now>>

SetEmployeeActive(e) ==
    /\ edits < EditLimit
    /\ active' = IF e \in active THEN active \ {e} ELSE active \cup {e}
    /\ edits' = edits + 1
    /\ UNCHANGED <<shift, ex, offered, tx, now>>

SetShiftTypeActive(t) ==
    /\ edits < EditLimit
    /\ offered' = IF t \in offered THEN offered \ {t} ELSE offered \cup {t}
    /\ edits' = edits + 1
    /\ UNCHANGED <<shift, ex, active, tx, now>>

Tick == /\ now < Horizon
        /\ now' = now + 1
        /\ UNCHANGED <<shift, ex, active, offered, tx, edits>>

-----------------------------------------------------------------------------
File(r) == \/ \E s \in Shifts, kind \in Kinds, span \in Spans \cup {NoSpan} :
                 FileCheck(r, s, kind, span)
           \/ FileInsert(r)
           \/ FileFails(r)

Plan(s) == \E e \in Employees \cup {NoEmployee}, p \in BOOLEAN, span \in Spans :
              AssignShift(s, e, p, span)

Next == \/ \E r \in Requests :
              \/ File(r) \/ Cancel(r)
              \/ \E e \in Employees : AcceptLock(r, e)
              \/ AcceptCheck(r) \/ AcceptCommit(r)
              \/ Reject(r)
              \/ ApproveLock(r) \/ ApproveLockShift(r)
              \/ ApproveCheck(r) \/ ApproveCommit(r)
              \/ Rollback(r)
        \/ \E s \in Shifts : Plan(s)
        \/ PublishSchedule
        \/ \E e \in Employees : SetEmployeeActive(e)
        \/ \E t \in Spans : SetShiftTypeActive(t)
        \/ Tick

Spec == Init /\ [][Next]_vars
=============================================================================
