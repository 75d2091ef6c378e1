---------------------- MODULE ShiftExchangeProperties ----------------------
(* What the shift request flow must never do. *)
EXTENDS ShiftExchange

(* A shift never carries two undecided requests, whoever files at once       *)
(* (partial unique index of 0044).                                           *)
OneActivePerShift ==
    \A q, r \in Requests : Active(q) /\ Active(r) /\ ex[q].shift = ex[r].shift => q = r

(* A decided or withdrawn request is history: a decision, acceptance or      *)
(* withdrawal that waited for the row does not reopen or overwrite it.       *)
FinalStatesStick ==
    [][\A r \in Requests : ex[r].status \in {"approved", "rejected", "cancelled"}
          => ex'[r] = ex[r]]_vars

(* From the moment an approval has locked the shift until it commits, no     *)
(* manager's edit takes the shift from the requester or hides it, and the    *)
(* request stays undecided: what was checked is what is written.             *)
HeldShiftIsTheirs ==
    \A r \in Requests : tx[r].pc \in {"holding", "checked"} =>
       /\ Active(r)
       /\ shift[ex[r].shift].published
       /\ shift[ex[r].shift].owner = ex[r].requester

(* Decisions cannot deadlock each other: an approval that still has to lock  *)
(* its shift never finds it locked by another decision.                      *)
ApprovalNeverWaits ==
    \A r \in Requests : tx[r].pc = "deciding" => ShiftFree(ex[r].shift)

(* The flow implements ShiftHandover: a request is the shift's owner's at the  *)
(* time of filing, one undecided request per shift, a grant in one step on   *)
(* the requester's own published shift, an exchange to the colleague who      *)
(* volunteered.                                                              *)
Asks(rows, r, s) == rows[r].status \in {"open", "accepted"} /\ rows[r].shift = s

AskOf(row) == [kind |-> row.kind, requester |-> row.requester,
               volunteer |-> row.replacement, span |-> row.span]

NoAsk == [kind |-> "none", requester |-> NoEmployee, volunteer |-> NoEmployee,
          span |-> NoSpan]

AskIn(rows, s) == IF \E r \in Requests : Asks(rows, r, s)
                  THEN AskOf(rows[CHOOSE r \in Requests : Asks(rows, r, s)])
                  ELSE NoAsk

IntentOf(row) == [shift |-> row.shift, kind |-> row.kind,
                  requester |-> row.requester, span |-> row.span]

IntentsIn(rows) == {IntentOf(rows[r]) : r \in {q \in Requests : rows[q].status = "filing"}}

Handover == INSTANCE ShiftHandover WITH roster <- shift,
                                        ask <- [s \in Shifts |-> AskIn(ex, s)],
                                        intents <- IntentsIn(ex)

ImplementsHandover == Handover!HSpec

-----------------------------------------------------------------------------
(* "manager approval rechecks replacement overlap after acceptance" (test    *)
(* 0017): an approved exchange leaves its replacement without an overlapping *)
(* published shift.  The code reads the other shifts unlocked, so two        *)
(* approvals for one volunteer pass it together.                             *)
OverlapRechecked ==
    [][\A r \in Requests :
          ex[r].kind = "exchange" /\ ApproveCommit(r)
             => ~Clashes(ex[r].replacement, ex[r].shift)']_vars
=============================================================================
