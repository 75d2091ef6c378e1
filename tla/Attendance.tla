----------------------------- MODULE Attendance -----------------------------
(***************************************************************************)
(* Work reports and attendance corrections.  Staff report the hours of a   *)
(* day, or ask for a correction of it; a manager decides the correction,   *)
(* and an approval writes the requested hours to the attendance row.       *)
(*                                                                         *)
(* A server action is a chain of single statements, each a transaction of  *)
(* its own: other actions run between them, the process may die, and the   *)
(* answer of a statement that took effect may be lost.                     *)
(*                                                                         *)
(* A day stands for one (employee, work_date) pair.  Hours are not         *)
(* modelled, only which corrections have reached attendance.               *)
(***************************************************************************)
CONSTANTS
    Days, Rows, Requests,
    Calls,                      \* server actions in flight, each of one user
    NoDay, NoRow, NoRequest, NoCall

ASSUME AbsentValues == /\ NoDay \notin Days /\ NoRow \notin Rows
                       /\ NoRequest \notin Requests /\ NoCall \notin Calls

VARIABLES
    row,        \* row[a]: the day of attendance row a, or NoDay
    corr,       \* corr[q]: the shift_requests row of kind correction
    call,       \* call[c]: the server action c
    applied     \* history: corrections whose hours were written since they were
                \* last approved

vars == <<row, corr, call, applied>>

\* target is attendance_id, by is decided_by, hours: details carry any.
Correction == [status : {"absent", "pending", "approved", "rejected"},
               day : Days \cup {NoDay}, target : Rows \cup {NoRow},
               hours : BOOLEAN, by : Calls \cup {NoCall}]

NoCorrection == [status |-> "absent", day |-> NoDay, target |-> NoRow,
                 hours |-> FALSE, by |-> NoCall]

Call == [pc : {"idle", "reporting", "approved", "applying", "undoing"},
         request : Requests \cup {NoRequest}, day : Days \cup {NoDay},
         found : Rows \cup {NoRow}]

Idle == [pc |-> "idle", request |-> NoRequest, day |-> NoDay, found |-> NoRow]

\* The one type invariant of the module.
TypeOK == /\ row \in [Rows -> Days \cup {NoDay}]
          /\ corr \in [Requests -> Correction]
          /\ call \in [Calls -> Call]
          /\ applied \subseteq Requests

Init == /\ row = [a \in Rows |-> NoDay]
        /\ corr = [q \in Requests |-> NoCorrection]
        /\ call = [c \in Calls |-> Idle]
        /\ applied = {}

-----------------------------------------------------------------------------
(* Find the row of the day, then update it or insert one. *)

RowsOf(d) == {a \in Rows : row[a] = d}

\* maybeSingle: no row, or the one row; several are an error.
Found(d, a) == IF RowsOf(d) = {} THEN a = NoRow ELSE RowsOf(d) = {a}

\* The update names the row that was found; the table has no key on the day.
Write(a, d) == IF a = NoRow
               THEN \E b \in Rows : row[b] = NoDay /\ row' = [row EXCEPT ![b] = d]
               ELSE UNCHANGED row

\* submitWorkReport
ReportFind(c, d) ==
    /\ call[c].pc = "idle"
    /\ \E a \in Rows \cup {NoRow} :
          /\ Found(d, a)
          /\ call' = [call EXCEPT ![c] = [pc |-> "reporting", request |-> NoRequest,
                                       day |-> d, found |-> a]]
    /\ UNCHANGED <<row, corr, applied>>

ReportWrite(c) ==
    /\ call[c].pc = "reporting"
    /\ Write(call[c].found, call[c].day)
    /\ call' = [call EXCEPT ![c] = Idle]
    /\ UNCHANGED <<corr, applied>>

-----------------------------------------------------------------------------
(* Corrections. *)

\* submitCorrectionRequest: about a row of that day, or about a day without one.
SubmitCorrection(q, d) ==
    /\ corr[q].status = "absent"
    /\ \E a \in RowsOf(d) \cup {NoRow}, hours \in BOOLEAN :
          corr' = [corr EXCEPT ![q] = [status |-> "pending", day |-> d, target |-> a,
                                       hours |-> hours, by |-> NoCall]]
    /\ UNCHANGED <<row, call, applied>>

AnyStatus(q) == corr[q].status # "absent"   \* mutant: no filter on status

Undecided(q) == corr[q].status = "pending"

\* decideCorrectionRequest: the guarded update; the trigger stamps decided_by.
Decide(c, q, verdict) ==
    /\ call[c].pc = "idle"
    /\ Undecided(q)
    /\ corr' = [corr EXCEPT ![q] = [@ EXCEPT !.status = verdict, !.by = c]]
    /\ call' = [call EXCEPT ![c] = IF verdict = "approved" /\ corr[q].hours
                                   THEN [Idle EXCEPT !.pc = "approved", !.request = q,
                                                     !.day = corr[q].day]
                                   ELSE Idle]
    /\ applied' = applied \ {q}
    /\ UNCHANGED row

\* The location is known; the row is the request's, or looked up by day.
ApplyFind(c) ==
    LET q == call[c].request IN
    /\ call[c].pc = "approved"
    /\ \E a \in Rows \cup {NoRow} :
          /\ IF corr[q].target # NoRow THEN a = corr[q].target ELSE Found(call[c].day, a)
          /\ call' = [call EXCEPT ![c] = [@ EXCEPT !.pc = "applying", !.found = a]]
    /\ UNCHANGED <<row, corr, applied>>

\* applyApprovedCorrection; a lost answer counts as a failure.
ApplyWrite(c) ==
    /\ call[c].pc = "applying"
    /\ Write(call[c].found, call[c].day)
    /\ applied' = applied \cup {call[c].request}
    /\ call' \in {[call EXCEPT ![c] = Idle], [call EXCEPT ![c] = [@ EXCEPT !.pc = "undoing"]]}
    /\ UNCHANGED corr

\* No location, several rows for the day, no permission, or no such row.
ApplyFails(c) ==
    /\ call[c].pc \in {"approved", "applying"}
    /\ call' = [call EXCEPT ![c] = [@ EXCEPT !.pc = "undoing"]]
    /\ UNCHANGED <<row, corr, applied>>

Undoable(q) == corr[q].status = "approved"

\* revertRequestToPending
Undo(c) ==
    LET q == call[c].request IN
    /\ call[c].pc = "undoing"
    /\ corr' = IF Undoable(q) THEN [corr EXCEPT ![q] = [@ EXCEPT !.status = "pending"]]
               ELSE corr
    /\ call' = [call EXCEPT ![c] = Idle]
    /\ UNCHANGED <<row, applied>>

\* The conversion of the hours throws: the outer catch undoes nothing.
ApplyThrows(c) ==
    /\ call[c].pc = "approved"
    /\ call' = [call EXCEPT ![c] = Idle]
    /\ UNCHANGED <<row, corr, applied>>

\* The process dies, the answer of the decision or of the report is lost, or
\* the undo fails, which nobody looks at.
CallDies(c) ==
    /\ call[c].pc # "idle"
    /\ call' = [call EXCEPT ![c] = Idle]
    /\ UNCHANGED <<row, corr, applied>>

-----------------------------------------------------------------------------
Next == \/ \E c \in Calls :
              \/ \E d \in Days : ReportFind(c, d)
              \/ ReportWrite(c)
              \/ \E q \in Requests, verdict \in {"approved", "rejected"} : Decide(c, q, verdict)
              \/ ApplyFind(c)
              \/ ApplyWrite(c)
              \/ ApplyFails(c)
              \/ ApplyThrows(c)
              \/ Undo(c)
              \/ CallDies(c)
        \/ \E q \in Requests, d \in Days : SubmitCorrection(q, d)

Spec == Init /\ [][Next]_vars
=============================================================================
