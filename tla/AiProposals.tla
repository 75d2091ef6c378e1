----------------------------- MODULE AiProposals -----------------------------
(***************************************************************************)
(* One proposal of an agent and the people who review it.  An approval     *)
(* reads the proposal, marks it approved, applies the change, marks it     *)
(* applied and writes the audit entry, each in a transaction of its own.   *)
(* The errors of the marks are not looked at, so a mark may be lost.       *)
(***************************************************************************)
EXTENDS Naturals, FiniteSets

CONSTANTS
    Reviews,                    \* approvals that may be under way
    MaxApplied                  \* bound: how often the change is made

ASSUME FiniteReviews == IsFiniteSet(Reviews)

VARIABLES
    proposal,   \* the status of the ai.proposals row
    review,     \* review[r]: where approval r is
    made,       \* history: how often the change was made
    audited,    \* audit entries
    excuse      \* history: two approvals overlapped, or a mark was lost

proposalVars == <<proposal, review, made, audited, excuse>>

ReviewSteps == {"new", "read", "approved", "applied", "marked", "failing", "done"}

ProposalTypes ==
    /\ proposal \in {"proposed", "approved", "applied", "failed", "rejected"}
    /\ review \in [Reviews -> ReviewSteps]
    /\ made \in Nat /\ audited \in Nat /\ excuse \in BOOLEAN

ProposalInit ==
    /\ proposal = "proposed"
    /\ review = [r \in Reviews |-> "new"]
    /\ made = 0 /\ audited = 0 /\ excuse = FALSE

Goes(r, from, to) == review[r] = from /\ review' = [review EXCEPT ![r] = to]

AnyProposal(status) == status # "rejected"      \* mutant: a retry is allowed

Proposable(status) == status = "proposed"

ReadProposal(r) ==
    /\ Proposable(proposal)
    /\ Goes(r, "new", "read")
    /\ excuse' = (excuse \/ \E q \in Reviews : review[q] \notin {"new", "done"})
    /\ UNCHANGED <<proposal, made, audited>>

\* The updates name the id only, whatever the status is by now.
Mark(r, from, to, status) ==
    /\ Goes(r, from, to)
    /\ \/ proposal' = status /\ UNCHANGED excuse
       \/ UNCHANGED proposal /\ excuse' = TRUE
    /\ UNCHANGED <<made, audited>>

\* The change that the caller hands in; it may throw, before or after its effect.
ApplyChange(r) ==
    /\ \E to \in {"applied", "failing"}, effect \in {0, 1} :
          /\ to = "applied" => effect = 1
          /\ made + effect <= MaxApplied
          /\ Goes(r, "approved", to)
          /\ made' = made + effect
    /\ UNCHANGED <<proposal, audited, excuse>>

WriteAuditEntry(r) ==
    /\ \/ Goes(r, "marked", "done") /\ audited' = audited + 1
       \/ Goes(r, "marked", "failing") /\ UNCHANGED audited
    /\ UNCHANGED <<proposal, made, excuse>>

ReviewDies(r) ==
    /\ review[r] \notin {"new", "done"}
    /\ Goes(r, review[r], "done")
    /\ UNCHANGED <<proposal, made, audited, excuse>>

\* rejectProposal asks for no status either.
RejectProposal ==
    /\ proposal' = "rejected"
    /\ UNCHANGED <<review, made, audited, excuse>>

ProposalNext ==
    \/ \E r \in Reviews :
          \/ ReadProposal(r)
          \/ Mark(r, "read", "approved", "approved")
          \/ ApplyChange(r)
          \/ Mark(r, "applied", "marked", "applied")
          \/ WriteAuditEntry(r)
          \/ Mark(r, "failing", "done", "failed")
          \/ ReviewDies(r)
    \/ RejectProposal

ProposalSpec == ProposalInit /\ [][ProposalNext]_proposalVars

-----------------------------------------------------------------------------
(* A proposal is applied once, unless two approvals overlapped or a mark was *)
(* lost; it is not called applied, and not audited, without having been; and *)
(* one that is still proposed has not been applied behind anyone's back.     *)
ProposalAppliedOnce ==
    /\ made > 1 => excuse
    /\ proposal = "applied" => made > 0
    /\ audited <= made
    /\ proposal = "proposed" /\ made > 0 => excuse
=============================================================================
