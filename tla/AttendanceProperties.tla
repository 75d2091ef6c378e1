------------------------ MODULE AttendanceProperties ------------------------
(* What work reports and corrections must never do. *)
EXTENDS Attendance

(* While an action applies or undoes its approval, the correction is         *)
(* approved, by that action: two managers who decide at once never both act  *)
(* on it, and an undo never takes back somebody else's decision.             *)
DecisionIsExclusive ==
    \A c \in Calls : call[c].pc \in {"approved", "applying", "undoing"} =>
       /\ corr[call[c].request].status = "approved"
       /\ corr[call[c].request].by = c

(* An approval writes its hours at most once: what is about to be written    *)
(* has not been written since it was approved.                               *)
AppliedOncePerApproval ==
    \A c \in Calls : call[c].pc \in {"approved", "applying"} =>
       call[c].request \notin applied

(* Hours reach attendance only under a standing approval, and a rejected     *)
(* correction is never reopened, whatever is still being applied or undone.  *)
RejectedStays ==
    [][\A q \in Requests : corr[q].status = "rejected" =>
          corr'[q] = corr[q] /\ (q \in applied' => q \in applied)]_vars

-----------------------------------------------------------------------------
(* "a correction must never end up "Approved" while its requested hours were *)
(* not actually applied" (comment of decideCorrectionRequest): approved      *)
(* hours are in attendance unless the approving action is still at work.     *)
ApprovedIsApplied ==
    \A q \in Requests : corr[q].status = "approved" /\ corr[q].hours =>
       q \in applied \/ \E c \in Calls : call[c].request = q

(* "this can be a true upsert-by-day" (comment of submitWorkReport): a day   *)
(* has one attendance row at most.                                           *)
OneRowPerDay == \A d \in Days : \A a, b \in RowsOf(d) : a = b
=============================================================================
