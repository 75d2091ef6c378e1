---------------------------- MODULE Office_proofs ----------------------------
(***************************************************************************)
(* Proofs about five parts of the back office that share no row, one after *)
(* the other, each for any values of its constants: AiProposals,           *)
(* EmployeeRecords, DemoStore, FixtureRehearsal and EventLog.  At the end, *)
(* with the proofs of the other parts: the composition of all of them is   *)
(* a behaviour of each.                                                    *)
(***************************************************************************)
EXTENDS MCBackOffice, Workforce_proofs, RecipeTranslations_proofs, TenantOnboarding_proofs,
        CloudGates_proofs, FiniteSetTheorems, SequenceTheorems, TLAPS

-----------------------------------------------------------------------------
(* AiProposals.  ReviewInv is inductive: approvals that have applied the     *)
(* change and not audited it yet are counted with the audit entries, and     *)
(* unless there is an excuse one approval is under way at most, and a        *)
(* proposal that is open has not been applied.                               *)

InReview(r) == review[r] \notin {"new", "done"}

\* Approvals whose change is made, known to be made, and not audited.
Pending == {r \in Reviews : review[r] \in {"applied", "marked"}}

Lonely ==
    /\ \A q, r \in Reviews : InReview(q) /\ InReview(r) => q = r
    /\ \A r \in Reviews : review[r] \in {"read", "approved"} => made = 0
    /\ proposal = "proposed" =>
          made = 0 /\ \A r \in Reviews : InReview(r) => review[r] = "read"
    /\ made <= 1

ReviewInv ==
    /\ ProposalTypes
    /\ audited + Cardinality(Pending) <= made
    /\ \A r \in Reviews : review[r] \in {"applied", "marked"} => made > 0
    /\ proposal = "applied" => made > 0
    /\ ~excuse => Lonely

LEMMA PendingIsFinite == IsFiniteSet(Pending) /\ Cardinality(Pending) \in Nat
  <1>1. IsFiniteSet(Pending)
    BY FiniteReviews, FS_Subset DEF Pending
  <1> QED  BY <1>1, FS_CardinalityType

LEMMA ReviewInvImplies == ReviewInv => ProposalAppliedOnce
  <1> SUFFICES ASSUME ReviewInv PROVE ProposalAppliedOnce
    OBVIOUS
  <1>1. audited <= made
    BY PendingIsFinite DEF ReviewInv, ProposalTypes
  <1> QED  BY <1>1 DEF ReviewInv, Lonely, ProposalTypes, ProposalAppliedOnce

LEMMA ReviewInvInit == ProposalInit => ReviewInv
  <1> SUFFICES ASSUME ProposalInit PROVE ReviewInv
    OBVIOUS
  <1>1. /\ ProposalTypes
        /\ \A r \in Reviews : review[r] = "new"
        /\ made = 0
    BY DEF ProposalInit, ProposalTypes, ReviewSteps
  <1>2. Pending = {}
    BY DEF ProposalInit, Pending
  <1>3. Cardinality(Pending) = 0
    BY <1>2, FS_EmptySet
  <1>4. Lonely
    BY <1>1 DEF Lonely, InReview
  <1> QED  BY <1>1, <1>3, <1>4 DEF ProposalInit, ReviewInv

\* How a move of one approval changes the approvals that are counted.
LEMMA PendingMoves ==
    ASSUME ReviewInv, NEW r \in Reviews, NEW from, NEW to \in ReviewSteps, Goes(r, from, to)
    PROVE  /\ review' \in [Reviews -> ReviewSteps]
           /\ review[r] = from /\ review'[r] = to
           /\ \A q \in Reviews : q # r => review'[q] = review[q]
           /\ Cardinality(Pending)' \in Nat /\ Cardinality(Pending) \in Nat
           /\ from \in {"applied", "marked"} /\ to \notin {"applied", "marked"} =>
                 Cardinality(Pending)' = Cardinality(Pending) - 1
           /\ from \notin {"applied", "marked"} /\ to \in {"applied", "marked"} =>
                 Cardinality(Pending)' = Cardinality(Pending) + 1
           /\ (from \in {"applied", "marked"} <=> to \in {"applied", "marked"}) =>
                 Cardinality(Pending)' = Cardinality(Pending)
  <1>1. /\ review' \in [Reviews -> ReviewSteps]
        /\ review[r] = from /\ review'[r] = to
        /\ \A q \in Reviews : q # r => review'[q] = review[q]
    BY DEF Goes, ReviewInv, ProposalTypes
  <1>2. IsFiniteSet(Pending) /\ Cardinality(Pending) \in Nat
    BY PendingIsFinite
  <1>3. ASSUME from \in {"applied", "marked"}, to \notin {"applied", "marked"}
        PROVE  Cardinality(Pending)' = Cardinality(Pending) - 1
    <2>1. Pending' = Pending \ {r} /\ r \in Pending
      BY <1>1, <1>3 DEF Pending
    <2> QED  BY <1>2, <2>1, FS_RemoveElement
  <1>4. ASSUME from \notin {"applied", "marked"}, to \in {"applied", "marked"}
        PROVE  Cardinality(Pending)' = Cardinality(Pending) + 1
    <2>1. Pending' = Pending \cup {r} /\ r \notin Pending
      BY <1>1, <1>4 DEF Pending
    <2> QED  BY <1>2, <2>1, FS_AddElement
  <1>5. ASSUME from \in {"applied", "marked"} <=> to \in {"applied", "marked"}
        PROVE  Cardinality(Pending)' = Cardinality(Pending)
    <2>1. Pending' = Pending
      BY <1>1, <1>5 DEF Pending
    <2> QED  BY <2>1
  <1>6. Cardinality(Pending)' \in Nat
    <2>1. IsFiniteSet(Pending')
      BY FiniteReviews, FS_Subset DEF Pending
    <2> QED  BY <2>1, FS_CardinalityType
  <1> QED  BY <1>1, <1>2, <1>3, <1>4, <1>5, <1>6

LEMMA ReviewInvNext ==
    ASSUME ReviewInv, ProposalNext
    PROVE  ReviewInv'
  <1>0. /\ ProposalTypes /\ made \in Nat /\ audited \in Nat
        /\ audited + Cardinality(Pending) <= made
        /\ Cardinality(Pending) \in Nat
    BY PendingIsFinite DEF ReviewInv, ProposalTypes
  <1>1. ASSUME NEW r \in Reviews, ReadProposal(r)
        PROVE  ReviewInv'
    <2>1. /\ Goes(r, "new", "read") /\ proposal = "proposed"
          /\ UNCHANGED <<proposal, made, audited>>
          /\ excuse' = (excuse \/ \E q \in Reviews : review[q] \notin {"new", "done"})
          /\ excuse' \in BOOLEAN
      BY <1>0, <1>1 DEF ReadProposal, Proposable, ProposalTypes
    <2>2. "read" \in ReviewSteps
      BY DEF ReviewSteps
    <2>3. ~excuse' => Lonely'
      BY <2>1, <2>2, PendingMoves DEF ReviewInv, Lonely, InReview
    <2> QED  BY <1>0, <2>1, <2>2, <2>3, PendingMoves DEF ReviewInv, ProposalTypes
  <1>2. ASSUME NEW r \in Reviews, Mark(r, "read", "approved", "approved")
        PROVE  ReviewInv'
    <2>1. /\ Goes(r, "read", "approved") /\ UNCHANGED <<made, audited>>
          /\ \/ proposal' = "approved" /\ UNCHANGED excuse
             \/ UNCHANGED proposal /\ excuse' = TRUE
          /\ "approved" \in ReviewSteps
      BY <1>2 DEF Mark, ReviewSteps
    <2>2. ~excuse' => Lonely'
      BY <1>0, <2>1, PendingMoves DEF ReviewInv, Lonely, InReview
    <2> QED  BY <1>0, <2>1, <2>2, PendingMoves, ZenonT(60) DEF ReviewInv, ProposalTypes
  <1>3. ASSUME NEW r \in Reviews, ApplyChange(r)
        PROVE  ReviewInv'
    <2>1. PICK to \in {"applied", "failing"}, effect \in {0, 1} :
             /\ to = "applied" => effect = 1
             /\ Goes(r, "approved", to)
             /\ made' = made + effect
      BY <1>3 DEF ApplyChange
    <2>2. UNCHANGED <<proposal, audited, excuse>> /\ to \in ReviewSteps
      BY <1>3 DEF ApplyChange, ReviewSteps
    <2>3. ~excuse' => Lonely'
      BY <1>0, <2>1, <2>2, PendingMoves DEF ReviewInv, Lonely, InReview
    <2> QED  BY <1>0, <2>1, <2>2, <2>3, PendingMoves DEF ReviewInv, ProposalTypes
  <1>4. ASSUME NEW r \in Reviews, Mark(r, "applied", "marked", "applied")
        PROVE  ReviewInv'
    <2>1. /\ Goes(r, "applied", "marked") /\ UNCHANGED <<made, audited>>
          /\ \/ proposal' = "applied" /\ UNCHANGED excuse
             \/ UNCHANGED proposal /\ excuse' = TRUE
          /\ "marked" \in ReviewSteps
      BY <1>4 DEF Mark, ReviewSteps
    <2>2. made > 0
      BY <2>1 DEF Goes, ReviewInv
    <2>3. ~excuse' => Lonely'
      BY <1>0, <2>1, PendingMoves DEF ReviewInv, Lonely, InReview
    <2> QED  BY <1>0, <2>1, <2>2, <2>3, PendingMoves DEF ReviewInv, ProposalTypes
  <1>5. ASSUME NEW r \in Reviews, WriteAuditEntry(r)
        PROVE  ReviewInv'
    <2>1. PICK to \in {"done", "failing"} :
             /\ Goes(r, "marked", to) /\ UNCHANGED <<proposal, made, excuse>>
             /\ audited' = audited + (IF to = "done" THEN 1 ELSE 0)
      BY <1>0, <1>5 DEF WriteAuditEntry
    <2>2. to \in ReviewSteps
      BY DEF ReviewSteps
    <2>3. Cardinality(Pending)' = Cardinality(Pending) - 1
      BY <2>1, <2>2, PendingMoves
    <2>4. ~excuse' => Lonely'
      BY <1>0, <2>1, <2>2, PendingMoves DEF ReviewInv, Lonely, InReview
    <2> QED  BY <1>0, <2>1, <2>2, <2>3, <2>4, PendingMoves DEF ReviewInv, ProposalTypes
  <1>6. ASSUME NEW r \in Reviews, Mark(r, "failing", "done", "failed")
        PROVE  ReviewInv'
    <2>1. /\ Goes(r, "failing", "done") /\ UNCHANGED <<made, audited>>
          /\ \/ proposal' = "failed" /\ UNCHANGED excuse
             \/ UNCHANGED proposal /\ excuse' = TRUE
          /\ "done" \in ReviewSteps
      BY <1>6 DEF Mark, ReviewSteps
    <2>2. ~excuse' => Lonely'
      BY <1>0, <2>1, PendingMoves DEF ReviewInv, Lonely, InReview
    <2> QED  BY <1>0, <2>1, <2>2, PendingMoves, ZenonT(60) DEF ReviewInv, ProposalTypes
  <1>7. ASSUME NEW r \in Reviews, ReviewDies(r)
        PROVE  ReviewInv'
    <2>1. /\ Goes(r, review[r], "done") /\ "done" \in ReviewSteps
          /\ UNCHANGED <<proposal, made, audited, excuse>>
      BY <1>7 DEF ReviewDies, ReviewSteps
    <2>2. ~excuse' => Lonely'
      BY <1>0, <2>1, PendingMoves DEF ReviewInv, Lonely, InReview
    <2> QED  BY <1>0, <2>1, <2>2, PendingMoves DEF ReviewInv, ProposalTypes
  <1>8. ASSUME RejectProposal
        PROVE  ReviewInv'
    <2>1. proposal' = "rejected" /\ UNCHANGED <<review, made, audited, excuse>>
      BY <1>8 DEF RejectProposal
    <2>2. Pending' = Pending
      BY <2>1 DEF Pending
    <2>3. ~excuse' => Lonely'
      BY <2>1 DEF ReviewInv, Lonely, InReview
    <2> QED  BY <1>0, <2>1, <2>2, <2>3 DEF ReviewInv, ProposalTypes
  <1> QED  BY <1>1, <1>2, <1>3, <1>4, <1>5, <1>6, <1>7, <1>8 DEF ProposalNext

LEMMA ReviewInvStutters ==
    ASSUME ReviewInv, UNCHANGED proposalVars
    PROVE  ReviewInv'
  <1>1. UNCHANGED <<proposal, review, made, audited, excuse>>
    BY DEF proposalVars
  <1>2. Pending' = Pending
    BY <1>1 DEF Pending
  <1> QED  BY <1>1, <1>2 DEF ReviewInv, ProposalTypes, Lonely, InReview

THEOREM ReviewInvariant == ProposalSpec => []ReviewInv
  <1>1. ReviewInv /\ [ProposalNext]_proposalVars => ReviewInv'
    BY ReviewInvNext, ReviewInvStutters
  <1> QED  BY <1>1, ReviewInvInit, PTL DEF ProposalSpec

(* The states of the proposals module keep their types: the part that        *)
(* PartTypes states for proposals.                                           *)
THEOREM ProposalTypesHold == ProposalSpec => []ProposalTypes
  <1>1. ReviewInv => ProposalTypes
    BY DEF ReviewInv
  <1> QED  BY <1>1, ReviewInvariant, PTL

(* Whatever the number of reviewers: a change is made once unless two        *)
(* approvals overlapped or a mark was lost, and never audited without having *)
(* been made.                                                                *)
THEOREM AppliedOnce == ProposalSpec => []ProposalAppliedOnce
  BY ReviewInvImplies, ReviewInvariant, PTL

-----------------------------------------------------------------------------
(* EmployeeRecords.  RecordsInv is inductive: it says what a session may     *)
(* rely on between two statements, because the row it locked, the key it     *)
(* shares or the binding it switched off is kept from the others.            *)

Named(d) == desk[d].pc \notin {"ready", "writing"} => desk[d].who \in People
Binds(d) == desk[d].pc \in {"seen", "off", "bound"}
HoldsLine(d) == desk[d].pc \in {"off", "bound"} /\ desk[d].old # NoUser
Deletes(d) == desk[d].pc \in {"locked", "deleted"}
Refers(d) == desk[d].pc \in {"writing", "bound"}

\* A deletion and an insert that refers to the row exclude each other.
KeysExclude == \A d, e \in Desks : Deletes(d) /\ Refers(e) => desk[d].who # desk[e].who

\* A deletion has seen no history, and one that got past the row no exchange.
DeletionsChecked == \A d \in Desks :
    /\ desk[d].before = {}
    /\ desk[d].pc = "deleted" => \A h \in traces : h.of = desk[d].who => h.kind # "exchange"

\* The binding a session has switched off stays its own until it commits.
OldHeld == \A d \in Desks : HoldsLine(d) =>
    /\ desk[d].old \in ActiveOf(desk[d].who)
    /\ \A e \in Desks : /\ desk[e].pc = "deleted" => desk[e].who # desk[d].who
                        /\ e # d /\ HoldsLine(e) => desk[e].old # desk[d].old

\* A binding that is to be added meets no other of its LINE id or its employee.
NewFits == \A d \in Desks : desk[d].pc = "bound" =>
    /\ binding[desk[d].user] = Unbound
    /\ ActiveOf(desk[d].who) \subseteq {desk[d].old}
    /\ \A e \in Desks : e # d /\ desk[e].pc = "bound" =>
          desk[e].user # desk[d].user /\ desk[e].who # desk[d].who

OneBinding == \A p \in People : \A u, v \in ActiveOf(p) : u = v

RecordsInv ==
    /\ EmployeeTypes
    /\ \A d \in Desks : Named(d) /\ (Binds(d) => desk[d].user \in LineUsers)
                                 /\ (desk[d].pc = "writing" => desk[d].kind \in TraceKinds)
    /\ KeysExclude /\ DeletionsChecked /\ OldHeld /\ NewFits /\ OneBinding

LEMMA RecordsInvInit == EmployeeInit => RecordsInv
  <1> SUFFICES ASSUME EmployeeInit PROVE RecordsInv
    OBVIOUS
  <1>1. EmployeeTypes
    BY EmployeeAssumption DEF EmployeeInit, EmployeeTypes, Ready, Unbound, DeskJob, LineRow, Traces, TraceKinds
  <1>2. \A d \in Desks : desk[d].pc = "ready" /\ desk[d].before = {}
    BY DEF EmployeeInit, Ready
  <1>3. OneBinding
    BY EmployeeAssumption DEF EmployeeInit, OneBinding, ActiveOf, Bindings, Unbound
  <1> QED  BY <1>1, <1>2, <1>3
     DEF RecordsInv, Named, Binds, HoldsLine, Deletes, Refers, KeysExclude, DeletionsChecked, OldHeld, NewFits

\* What the next job of a session must bring when it touches no row.
JobFits(d, j) ==
    /\ j \in DeskJob /\ j.before = {}
    /\ j.pc \notin {"ready", "writing"} => j.who \in People
    /\ j.pc \in {"seen", "off", "bound"} => j.user \in LineUsers
    /\ j.pc = "writing" => j.kind \in TraceKinds
    /\ j.pc \in {"locked", "deleted"} => \A e \in Desks \ {d} : Refers(e) => desk[e].who # j.who
    /\ j.pc \in {"writing", "bound"} => \A e \in Desks \ {d} : Deletes(e) => desk[e].who # j.who
    /\ j.pc = "deleted" =>
          /\ \A h \in traces : h.of = j.who => h.kind # "exchange"
          /\ \A e \in Desks \ {d} : HoldsLine(e) => desk[e].who # j.who
    /\ j.pc \in {"off", "bound"} /\ j.old # NoUser =>
          /\ j.old \in ActiveOf(j.who)
          /\ \A e \in Desks \ {d} : /\ desk[e].pc = "deleted" => desk[e].who # j.who
                                    /\ HoldsLine(e) => desk[e].old # j.old
    /\ j.pc = "bound" =>
          /\ binding[j.user] = Unbound
          /\ ActiveOf(j.who) \subseteq {j.old}
          /\ \A e \in Desks \ {d} : desk[e].pc = "bound" =>
                desk[e].user # j.user /\ desk[e].who # j.who

LEMMA DeskMoves ==
    ASSUME RecordsInv, NEW d \in Desks, NEW j, JobFits(d, j),
           desk' = [desk EXCEPT ![d] = j], UNCHANGED <<person, traces, binding>>
    PROVE  RecordsInv'
  <1>1. /\ desk' \in [Desks -> DeskJob]
        /\ desk'[d] = j
        /\ \A e \in Desks : e # d => desk'[e] = desk[e]
    BY DEF RecordsInv, EmployeeTypes, JobFits
  <1>2. EmployeeTypes'
    BY <1>1 DEF RecordsInv, EmployeeTypes
  <1>3. \A e \in Desks : desk'[e].who \in People \cup {NoPerson}
    BY <1>1 DEF DeskJob
  <1>4. \A p \in People \cup {NoPerson} : ActiveOf(p)' = ActiveOf(p)
    BY DEF ActiveOf, Bindings
  <1>5. \A e \in Desks : Named(e)' /\ (Binds(e) => desk[e].user \in LineUsers)'
                                   /\ (desk[e].pc = "writing" => desk[e].kind \in TraceKinds)'
    BY <1>1 DEF RecordsInv, JobFits, Named, Binds
  <1>6. KeysExclude'
    BY <1>1 DEF RecordsInv, JobFits, KeysExclude, Deletes, Refers
  <1>7. DeletionsChecked'
    BY <1>1 DEF RecordsInv, JobFits, DeletionsChecked
  <1>8. OldHeld'
    BY <1>1, <1>3, <1>4 DEF RecordsInv, JobFits, OldHeld, HoldsLine
  <1>9. NewFits'
    BY <1>1, <1>3, <1>4 DEF RecordsInv, JobFits, NewFits
  <1>10. OneBinding'
    BY <1>4 DEF RecordsInv, OneBinding
  <1> QED  BY <1>2, <1>5, <1>6, <1>7, <1>8, <1>9, <1>10 DEF RecordsInv

LEMMA JobEnds ==
    ASSUME RecordsInv, NEW d \in Desks, Frees(d), UNCHANGED <<person, traces, binding>>
    PROVE  RecordsInv'
  <1>1. JobFits(d, Ready)
    BY DEF JobFits, Ready, DeskJob
  <1> QED  BY <1>1, DeskMoves DEF Frees

LEMMA WritesTrace ==
    ASSUME RecordsInv, NEW d \in Desks, NEW p \in People, NEW k \in TraceKinds, WriteTrace(d, p, k)
    PROVE  RecordsInv'
  <1> DEFINE j == [Ready EXCEPT !.pc = "writing", !.who = p, !.kind = k]
  <1>1. JobFits(d, j)
    BY DEF WriteTrace, JobFits, Ready, DeskJob, DeletionHolds, Deletes
  <1> QED  BY <1>1, DeskMoves DEF WriteTrace

LEMMA MovesShift ==
    ASSUME RecordsInv, NEW d \in Desks, NEW p \in People, NEW q \in People \cup {NoPerson},
           MoveShiftOf(d, p, q)
    PROVE  RecordsInv'
  <1> DEFINE j == [Ready EXCEPT !.pc = "writing", !.who = q, !.from = p, !.kind = "shift"]
  <1>1. j \in DeskJob /\ j.pc = "writing" /\ j.who = q /\ j.kind = "shift" /\ j.before = {}
    BY DEF Ready, DeskJob, TraceKinds
  <1>2. \A e \in Desks : Deletes(e) => desk[e].who # q
    BY EmployeeAssumption DEF MoveShiftOf, DeletionHolds, Deletes, RecordsInv, Named
  <1>3. JobFits(d, j)
    BY <1>1, <1>2 DEF JobFits, TraceKinds
  <1> QED  BY <1>3, DeskMoves DEF MoveShiftOf

LEMMA ChecksHistory ==
    ASSUME RecordsInv, NEW d \in Desks, NEW p \in People, CheckHistory(d, p)
    PROVE  RecordsInv'
  <1> DEFINE j == [Ready EXCEPT !.pc = "checked", !.who = p, !.before = {h \in traces : h.of = p}]
  <1>1. {h \in traces : h.of = p} = {}
    BY DEF CheckHistory, HasNoHistory
  <1>2. JobFits(d, j)
    BY <1>1 DEF JobFits, Ready, DeskJob
  <1> QED  BY <1>2, DeskMoves DEF CheckHistory

LEMMA LocksForDeletion ==
    ASSUME RecordsInv, NEW d \in Desks, DeleteLock(d)
    PROVE  RecordsInv'
  <1> DEFINE j == [desk[d] EXCEPT !.pc = "locked"]
  <1>1. CASE Frees(d)
    BY <1>1, JobEnds DEF DeleteLock
  <1>2. CASE desk' = [desk EXCEPT ![d].pc = "locked"]
    <2>1. desk[d] \in DeskJob /\ desk[d].before = {} /\ desk[d].who \in People
      BY DEF RecordsInv, EmployeeTypes, DeletionsChecked, Named, DeleteLock
    <2>2. j \in DeskJob /\ j.pc = "locked" /\ j.who = desk[d].who /\ j.before = {}
      BY <2>1 DEF DeskJob
    <2>3. \A e \in Desks \ {d} : Refers(e) => desk[e].who # j.who
      BY <2>2 DEF DeleteLock, KeyShared, Refers
    <2>4. JobFits(d, j)
      BY <2>1, <2>2, <2>3 DEF JobFits
    <2> QED  BY <1>2, <2>4, DeskMoves DEF DeleteLock
  <1> QED  BY <1>1, <1>2 DEF DeleteLock

LEMMA DeletesRow ==
    ASSUME RecordsInv, NEW d \in Desks, DeleteRow(d)
    PROVE  RecordsInv'
  <1> DEFINE j == [desk[d] EXCEPT !.pc = "deleted"]
             x == [of |-> desk[d].who, kind |-> "exchange"]
  <1>1. CASE Frees(d)
    BY <1>1, JobEnds DEF DeleteRow
  <1>2. CASE x \notin traces /\ desk' = [desk EXCEPT ![d].pc = "deleted"]
    <2>1. desk[d] \in DeskJob /\ desk[d].before = {} /\ desk[d].who \in People
      BY DEF RecordsInv, EmployeeTypes, DeletionsChecked, Named, DeleteRow
    <2>2. j \in DeskJob /\ j.pc = "deleted" /\ j.who = desk[d].who /\ j.before = {}
      BY <2>1 DEF DeskJob
    <2>3. \A e \in Desks \ {d} : Refers(e) => desk[e].who # j.who
      BY <2>2 DEF DeleteRow, RecordsInv, KeysExclude, Deletes, Refers
    <2>4. \A h \in traces : h.of = j.who => h.kind # "exchange"
      <3> SUFFICES ASSUME NEW h \in traces, h.of = j.who, h.kind = "exchange" PROVE FALSE
        OBVIOUS
      <3>1. h \in Traces
        BY DEF RecordsInv, EmployeeTypes
      <3>2. h = x
        BY <3>1, <2>2 DEF Traces
      <3> QED  BY <3>2, <1>2
    <2>5. \A e \in Desks \ {d} : HoldsLine(e) => desk[e].who # j.who
      BY <2>2 DEF DeleteRow, RecordsInv, OldHeld, ActiveOf, BindingHeld, HoldsLine
    <2>6. JobFits(d, j)
      BY <2>1, <2>2, <2>3, <2>4, <2>5 DEF JobFits
    <2> QED  BY <1>2, <2>6, DeskMoves DEF DeleteRow
  <1> QED  BY <1>1, <1>2 DEF DeleteRow

LEMMA BeginsToBind ==
    ASSUME RecordsInv, NEW d \in Desks, NEW p \in People, NEW u \in LineUsers, BindBegin(d, p, u)
    PROVE  RecordsInv'
  <1>1. PICK old \in (IF ActiveOf(p) = {} THEN {NoUser} ELSE ActiveOf(p)) :
          desk' = [desk EXCEPT ![d] = [Ready EXCEPT !.pc = "seen", !.who = p, !.user = u, !.old = old]]
    BY DEF BindBegin
  <1> DEFINE j == [Ready EXCEPT !.pc = "seen", !.who = p, !.user = u, !.old = old]
  <1>2. old \in LineUsers \cup {NoUser}
    BY DEF ActiveOf, Bindings
  <1>3. JobFits(d, j)
    BY <1>2 DEF JobFits, Ready, DeskJob
  <1> QED  BY <1>1, <1>3, DeskMoves DEF BindBegin

LEMMA SwitchesOff ==
    ASSUME RecordsInv, NEW d \in Desks, BindSwitchOff(d)
    PROVE  RecordsInv'
  <1> DEFINE u == desk[d].old
             old == IF u \in ActiveOf(desk[d].who) THEN u ELSE NoUser
             j == [desk[d] EXCEPT !.pc = "off", !.old = old]
  <1>1. desk[d] \in DeskJob /\ desk[d].before = {} /\ desk[d].who \in People /\ desk[d].user \in LineUsers
    BY DEF RecordsInv, EmployeeTypes, DeletionsChecked, Named, Binds, BindSwitchOff
  <1>2. /\ j \in DeskJob /\ j.pc = "off" /\ j.who = desk[d].who /\ j.user = desk[d].user
        /\ j.before = {} /\ j.old = old
    BY <1>1 DEF DeskJob
  <1>3. old # NoUser =>
          /\ old \in ActiveOf(desk[d].who)
          /\ \A e \in Desks \ {d} : /\ desk[e].pc = "deleted" => desk[e].who # desk[d].who
                                    /\ HoldsLine(e) => desk[e].old # old
    BY DEF BindSwitchOff, BindingHeld, HoldsLine
  <1>4. JobFits(d, j)
    BY <1>1, <1>2, <1>3 DEF JobFits
  <1>5. desk' = [desk EXCEPT ![d] = j]
    BY DEF BindSwitchOff
  <1> QED  BY <1>4, <1>5, DeskMoves DEF BindSwitchOff

LEMMA InsertsBinding ==
    ASSUME RecordsInv, NEW d \in Desks, BindInsert(d)
    PROVE  RecordsInv'
  <1> DEFINE j == [desk[d] EXCEPT !.pc = "bound"]
  <1>1. CASE Frees(d)
    BY <1>1, JobEnds DEF BindInsert
  <1>2. CASE Bindable(d) /\ desk' = [desk EXCEPT ![d].pc = "bound"]
    <2>1. desk[d] \in DeskJob /\ desk[d].before = {} /\ desk[d].who \in People /\ desk[d].user \in LineUsers
      BY DEF RecordsInv, EmployeeTypes, DeletionsChecked, Named, Binds, BindInsert
    <2>2. /\ j \in DeskJob /\ j.pc = "bound" /\ j.who = desk[d].who /\ j.user = desk[d].user
          /\ j.before = {} /\ j.old = desk[d].old
      BY <2>1 DEF DeskJob
    <2>3. \A e \in Desks \ {d} : Deletes(e) => desk[e].who # j.who
      BY <2>2 DEF BindInsert, DeletionHolds, Deletes
    <2>4. j.old # NoUser =>
            /\ j.old \in ActiveOf(j.who)
            /\ \A e \in Desks \ {d} : /\ desk[e].pc = "deleted" => desk[e].who # j.who
                                      /\ HoldsLine(e) => desk[e].old # j.old
      BY <2>2 DEF BindInsert, RecordsInv, OldHeld, HoldsLine
    <2>5. /\ binding[j.user] = Unbound
          /\ ActiveOf(j.who) \subseteq {j.old}
          /\ \A e \in Desks \ {d} : desk[e].pc = "bound" => desk[e].user # j.user /\ desk[e].who # j.who
      BY <1>2, <2>2 DEF BindInsert, Bindable, KeyAwaited
    <2>6. JobFits(d, j)
      BY <2>1, <2>2, <2>3, <2>4, <2>5 DEF JobFits
    <2> QED  BY <1>2, <2>6, DeskMoves DEF BindInsert
  <1> QED  BY <1>1, <1>2 DEF BindInsert

-----------------------------------------------------------------------------
\* A session that is done: the others keep their jobs.
LEMMA OthersGoOn ==
    ASSUME RecordsInv, NEW d \in Desks, Frees(d)
    PROVE  /\ desk' \in [Desks -> DeskJob]
           /\ desk'[d].pc = "ready" /\ desk'[d].before = {}
           /\ \A e \in Desks : desk'[e].pc # "ready" => e # d /\ desk'[e] = desk[e]
           /\ \A e \in Desks : desk'[e].before = {}
           /\ \A e \in Desks : Named(e)' /\ (Binds(e) => desk[e].user \in LineUsers)'
                                         /\ (desk[e].pc = "writing" => desk[e].kind \in TraceKinds)'
           /\ KeysExclude'
  <1>1. Ready \in DeskJob /\ Ready.pc = "ready" /\ Ready.before = {}
    BY DEF Ready, DeskJob
  <1>2. /\ desk' \in [Desks -> DeskJob]
        /\ desk'[d] = Ready
        /\ \A e \in Desks : e # d => desk'[e] = desk[e]
    BY <1>1 DEF RecordsInv, EmployeeTypes, Frees
  <1>3. \A e \in Desks : desk'[e].pc # "ready" => e # d /\ desk'[e] = desk[e]
    BY <1>1, <1>2
  <1>4. \A e \in Desks : desk'[e].before = {}
    BY <1>1, <1>2 DEF RecordsInv, DeletionsChecked
  <1>5. KeysExclude'
    BY <1>3 DEF RecordsInv, KeysExclude, Deletes, Refers
  <1>6. \A e \in Desks : Named(e)' /\ (Binds(e) => desk[e].user \in LineUsers)'
                                   /\ (desk[e].pc = "writing" => desk[e].kind \in TraceKinds)'
    BY <1>3 DEF RecordsInv, Named, Binds
  <1> QED  BY <1>1, <1>2, <1>3, <1>4, <1>5, <1>6

LEMMA CommitsTrace ==
    ASSUME RecordsInv, NEW d \in Desks, CommitTrace(d)
    PROVE  RecordsInv'
  <1> DEFINE new == {[of |-> p, kind |-> desk[d].kind] : p \in People \cap {desk[d].who}}
  <1>1. traces' \subseteq traces \cup new /\ Frees(d) /\ UNCHANGED <<person, binding>> /\ desk[d].pc = "writing"
    BY DEF CommitTrace
  <1>2. \A h \in new : h \in Traces /\ h.of = desk[d].who
    BY <1>1 DEF RecordsInv, Traces
  <1>3. EmployeeTypes'
    BY <1>1, <1>2, OthersGoOn DEF RecordsInv, EmployeeTypes
  <1>4. \A p : ActiveOf(p)' = ActiveOf(p)
    BY <1>1 DEF ActiveOf, Bindings
  <1>5. \A e \in Desks : desk[e].pc = "deleted" => desk[e].who # desk[d].who
    BY <1>1 DEF RecordsInv, KeysExclude, Deletes, Refers
  <1>6. DeletionsChecked'
    BY <1>1, <1>2, <1>5, OthersGoOn DEF RecordsInv, DeletionsChecked
  <1>7. OldHeld'
    BY <1>1, <1>4, OthersGoOn DEF RecordsInv, OldHeld, HoldsLine
  <1>8. NewFits'
    BY <1>1, <1>4, OthersGoOn DEF RecordsInv, NewFits
  <1>9. OneBinding'
    BY <1>4 DEF RecordsInv, OneBinding
  <1> QED  BY <1>1, <1>3, <1>6, <1>7, <1>8, <1>9, OthersGoOn DEF RecordsInv

LEMMA CommitsDeletion ==
    ASSUME RecordsInv, NEW d \in Desks, DeleteCommit(d)
    PROVE  RecordsInv'
  <1>0. PICK q \in People : q = desk[d].who
    BY DEF DeleteCommit, RecordsInv, Named
  <1>1. /\ desk[d].pc = "deleted" /\ Frees(d)
        /\ person' = [person EXCEPT ![q] = "deleted"]
        /\ traces' = {h \in traces : h.of # q}
        /\ binding' = [u \in LineUsers |-> IF binding[u].of = q THEN Unbound ELSE binding[u]]
    BY <1>0 DEF DeleteCommit
  <1>2. Unbound \in LineRow /\ Unbound.of = NoPerson /\ ~Unbound.active
    BY DEF Unbound, LineRow
  <1>3. EmployeeTypes'
    BY <1>1, <1>2, OthersGoOn DEF RecordsInv, EmployeeTypes
  <1>4. \A p \in People : ActiveOf(p)' = IF p = q THEN {} ELSE ActiveOf(p)
    <2>1. ActiveOf(q)' = {}
      BY <1>1, <1>2, EmployeeAssumption DEF ActiveOf, Bindings
    <2>2. ASSUME NEW p \in People, p # q PROVE ActiveOf(p)' = ActiveOf(p)
      BY <1>1, <1>2, <2>2, EmployeeAssumption DEF ActiveOf, Bindings
    <2> QED  BY <2>1, <2>2
  <1>5. \A u \in LineUsers : binding[u] = Unbound => binding'[u] = Unbound
    BY <1>1
  <1>6. DeletionsChecked'
    BY <1>1, OthersGoOn DEF RecordsInv, DeletionsChecked
  <1>7. OldHeld'
    <2>1. \A e \in Desks : HoldsLine(e) => desk[e].who # q /\ desk[e].who \in People
      BY <1>0, <1>1 DEF RecordsInv, OldHeld, HoldsLine, Named
    <2>2. \A e \in Desks : desk'[e].pc # "ready" => desk'[e] = desk[e]
      BY <1>1, OthersGoOn
    <2> QED  BY <1>4, <2>1, <2>2 DEF RecordsInv, OldHeld, HoldsLine
  <1>8. NewFits'
    <2>1. \A e \in Desks : desk[e].pc = "bound" => desk[e].who \in People /\ desk[e].user \in LineUsers
      BY DEF RecordsInv, Named, Binds
    <2>2. \A e \in Desks : desk'[e].pc # "ready" => desk'[e] = desk[e]
      BY <1>1, OthersGoOn
    <2> QED  BY <1>4, <1>5, <2>1, <2>2 DEF RecordsInv, NewFits
  <1>9. OneBinding'
    BY <1>4 DEF RecordsInv, OneBinding
  <1> QED  BY <1>1, <1>3, <1>6, <1>7, <1>8, <1>9, OthersGoOn DEF RecordsInv

\* What a binding that commits makes of the rows.
LEMMA BindingCommitted ==
    ASSUME RecordsInv, NEW d \in Desks, BindCommit(d)
    PROVE  /\ desk[d].pc = "bound" /\ desk[d].who \in People /\ desk[d].user \in LineUsers
           /\ Frees(d) /\ UNCHANGED <<person, traces>>
           /\ binding' \in [LineUsers -> LineRow]
           /\ \A p \in People : ActiveOf(p)' = IF p = desk[d].who THEN {desk[d].user} ELSE ActiveOf(p)
           /\ \A u \in LineUsers \ {desk[d].user} : binding[u] = Unbound => binding'[u] = Unbound
  <1>0. PICK q \in People, n \in LineUsers : q = desk[d].who /\ n = desk[d].user
    BY DEF BindCommit, RecordsInv, Named, Binds
  <1>01. PICK old : old = desk[d].old
    OBVIOUS
  <1>1. /\ desk[d].pc = "bound" /\ Frees(d) /\ UNCHANGED <<person, traces>>
        /\ binding' = [SwitchedOff(d) EXCEPT ![n] = [of |-> q, active |-> TRUE]]
    BY <1>0 DEF BindCommit
  <1>2. binding \in [LineUsers -> LineRow] /\ binding[n] = Unbound /\ ActiveOf(q) \subseteq {old}
    BY <1>0, <1>01, <1>1 DEF RecordsInv, EmployeeTypes, NewFits
  <1>3. old # NoUser => old \in ActiveOf(q)
    BY <1>0, <1>01, <1>1 DEF RecordsInv, OldHeld, HoldsLine
  <1>4. NoUser \notin LineUsers /\ NoPerson \notin People
    BY EmployeeAssumption
  <1>5. SwitchedOff(d) = IF old = NoUser THEN binding ELSE [binding EXCEPT ![old].active = FALSE]
    BY <1>01 DEF SwitchedOff
  <1>6. /\ SwitchedOff(d) \in [LineUsers -> LineRow]
        /\ \A u \in LineUsers : SwitchedOff(d)[u] =
              IF u = old THEN [of |-> binding[u].of, active |-> FALSE] ELSE binding[u]
    BY <1>2, <1>4, <1>5, ZenonT(60) DEF LineRow
  <1>7. /\ binding' \in [LineUsers -> LineRow]
        /\ \A u \in LineUsers : binding'[u] = IF u = n THEN [of |-> q, active |-> TRUE]
                                                       ELSE SwitchedOff(d)[u]
    BY <1>1, <1>6 DEF LineRow
  <1>8. Unbound.of = NoPerson /\ ~Unbound.active
    BY DEF Unbound
  <1>9. ActiveOf(q)' = {n}
    BY <1>1, <1>2, <1>6, <1>7 DEF ActiveOf, Bindings
  <1>10. ASSUME NEW p \in People, p # q PROVE ActiveOf(p)' = ActiveOf(p)
    <2>1. old \in LineUsers => binding[old].of = q
      BY <1>3, <1>4 DEF ActiveOf, Bindings
    <2>2. \A u \in LineUsers : binding'[u].of = p /\ binding'[u].active
                                <=> binding[u].of = p /\ binding[u].active
      BY <1>2, <1>4, <1>6, <1>7, <1>8, <1>10, <2>1
    <2> QED  BY <2>2 DEF ActiveOf, Bindings
  <1>11. \A u \in LineUsers \ {n} : binding[u] = Unbound => binding'[u] = Unbound
    BY <1>3, <1>4, <1>6, <1>7, <1>8 DEF ActiveOf, Bindings
  <1> QED  BY <1>0, <1>1, <1>7, <1>9, <1>10, <1>11

LEMMA CommitsBinding ==
    ASSUME RecordsInv, NEW d \in Desks, BindCommit(d)
    PROVE  RecordsInv'
  <1>1. EmployeeTypes'
    BY BindingCommitted, OthersGoOn DEF RecordsInv, EmployeeTypes
  <1>2. DeletionsChecked'
    BY BindingCommitted, OthersGoOn DEF RecordsInv, DeletionsChecked
  <1>3. \A e \in Desks : e # d /\ HoldsLine(e) => desk[e].who \in People
    BY DEF RecordsInv, Named, HoldsLine
  <1>4. \A e \in Desks : e # d /\ HoldsLine(e) => desk[e].who # desk[d].who
    <2> SUFFICES ASSUME NEW e \in Desks, e # d, HoldsLine(e), desk[e].who = desk[d].who PROVE FALSE
      OBVIOUS
    <2>1. desk[e].old \in ActiveOf(desk[d].who) /\ desk[e].old # NoUser
      BY DEF RecordsInv, OldHeld, HoldsLine
    <2>2. desk[e].old = desk[d].old
      BY <2>1, BindingCommitted DEF RecordsInv, NewFits
    <2>3. HoldsLine(d)
      BY <2>1, <2>2, BindingCommitted DEF HoldsLine
    <2> QED  BY <2>2, <2>3 DEF RecordsInv, OldHeld
  <1>5. OldHeld'
    BY <1>3, <1>4, BindingCommitted, OthersGoOn DEF RecordsInv, OldHeld, HoldsLine
  <1>6. \A e \in Desks : e # d /\ desk[e].pc = "bound" =>
           /\ desk[e].who \in People /\ desk[e].user \in LineUsers
           /\ desk[e].who # desk[d].who /\ desk[e].user # desk[d].user
    BY BindingCommitted DEF RecordsInv, NewFits, Named, Binds
  <1>7. NewFits'
    <2>1. Frees(d) /\ \A p \in People : p # desk[d].who => ActiveOf(p)' = ActiveOf(p)
      BY BindingCommitted
    <2>2. \A u \in LineUsers \ {desk[d].user} : binding[u] = Unbound => binding'[u] = Unbound
      BY BindingCommitted
    <2>3. \A e \in Desks : desk'[e].pc = "bound" => e # d /\ desk'[e] = desk[e]
      BY <2>1, OthersGoOn
    <2> QED  BY <1>6, <2>1, <2>2, <2>3 DEF RecordsInv, NewFits
  <1>8. OneBinding'
    BY BindingCommitted DEF RecordsInv, OneBinding
  <1> QED  BY <1>1, <1>2, <1>5, <1>7, <1>8, BindingCommitted, OthersGoOn DEF RecordsInv

LEMMA Unbinds ==
    ASSUME RecordsInv, NEW q \in People, Unbind(q)
    PROVE  RecordsInv'
  <1>1. /\ \A u \in ActiveOf(q) : ~BindingHeld(u)
        /\ binding' = [u \in LineUsers |-> IF u \in ActiveOf(q) THEN [binding[u] EXCEPT !.active = FALSE]
                                                                ELSE binding[u]]
        /\ UNCHANGED <<person, traces, desk>>
    BY DEF Unbind
  <1>2. binding \in [LineUsers -> LineRow]
    BY DEF RecordsInv, EmployeeTypes
  <1>3. /\ binding' \in [LineUsers -> LineRow]
        /\ \A u \in LineUsers : binding'[u].of = binding[u].of
        /\ \A u \in LineUsers : binding'[u].active <=> binding[u].active /\ u \notin ActiveOf(q)
        /\ \A u \in LineUsers : u \notin ActiveOf(q) => binding'[u] = binding[u]
    BY <1>1, <1>2 DEF LineRow
  <1>4. EmployeeTypes'
    BY <1>1, <1>3 DEF RecordsInv, EmployeeTypes
  <1>5. \A p \in People : ActiveOf(p)' \subseteq ActiveOf(p) /\ (p # q => ActiveOf(p)' = ActiveOf(p))
    BY <1>3 DEF ActiveOf, Bindings
  <1>6. \A u \in LineUsers : binding[u] = Unbound => binding'[u] = Unbound
    BY <1>3 DEF Unbound, ActiveOf, Bindings
  <1>7. \A e \in Desks : HoldsLine(e) => desk[e].who \in People /\ desk[e].who # q
    BY <1>1 DEF RecordsInv, OldHeld, HoldsLine, Named, BindingHeld
  <1>8. OldHeld'
    BY <1>1, <1>5, <1>7 DEF RecordsInv, OldHeld, HoldsLine
  <1>9. \A e \in Desks : desk[e].pc = "bound" => desk[e].who \in People /\ desk[e].user \in LineUsers
    BY DEF RecordsInv, Named, Binds
  <1>10. NewFits'
    BY <1>1, <1>5, <1>6, <1>9 DEF RecordsInv, NewFits
  <1>11. OneBinding'
    BY <1>5 DEF RecordsInv, OneBinding
  <1>12. KeysExclude' /\ DeletionsChecked'
    BY <1>1 DEF RecordsInv, KeysExclude, DeletionsChecked, Deletes, Refers
  <1> QED  BY <1>1, <1>4, <1>8, <1>10, <1>11, <1>12 DEF RecordsInv, Named, Binds

-----------------------------------------------------------------------------
LEMMA PersonMoves ==
    ASSUME RecordsInv, person' \in [People -> {"absent", "active", "retired", "deleted"}],
           UNCHANGED <<traces, binding, desk>>
    PROVE  RecordsInv'
  BY DEF RecordsInv, EmployeeTypes, Named, Binds, HoldsLine, Deletes, Refers, KeysExclude,
         DeletionsChecked, OldHeld, NewFits, OneBinding, ActiveOf, Bindings

LEMMA RecordsInvNext ==
    ASSUME RecordsInv, [EmployeeNext]_employeeVars
    PROVE  RecordsInv'
  <1>1. CASE UNCHANGED employeeVars
    BY <1>1, PersonMoves DEF RecordsInv, EmployeeTypes, employeeVars
  <1>2. ASSUME NEW p \in People, Hire(p) \/ SetActive(p, "active") \/ SetActive(p, "retired")
        PROVE  RecordsInv'
    <2>1. person' \in [People -> {"absent", "active", "retired", "deleted"}]
      BY <1>2 DEF Hire, SetActive, RecordsInv, EmployeeTypes
    <2> QED  BY <1>2, <2>1, PersonMoves DEF Hire, SetActive
  <1>3. ASSUME NEW d \in Desks, GiveUp(d)
        PROVE  RecordsInv'
    BY <1>3, JobEnds DEF GiveUp
  <1> QED  BY <1>1, <1>2, <1>3, Unbinds, CommitsTrace, CommitsDeletion, CommitsBinding, WritesTrace, MovesShift,
              ChecksHistory, LocksForDeletion, DeletesRow, BeginsToBind, SwitchesOff, InsertsBinding
           DEF EmployeeNext

THEOREM RecordsInvariant == EmployeeSpec => []RecordsInv
  BY RecordsInvInit, RecordsInvNext, PTL DEF EmployeeSpec

\* Which history rows a step may take.
LEMMA TracesAreKept ==
    ASSUME RecordsInv, [EmployeeNext]_employeeVars, NEW h \in traces \ traces'
    PROVE  MovedAway(h) \/ LostUnseen(h)
  <1>1. PICK d \in Desks : DeleteCommit(d) \/ CommitTrace(d)
    BY DEF EmployeeNext, employeeVars, Hire, SetActive, Unbind, MoveShiftOf, DeleteLock, DeleteRow,
           BindSwitchOff, BindInsert, BindCommit, GiveUp, CheckHistory, WriteTrace, BindBegin
  <1>2. CASE CommitTrace(d)
    BY <1>2 DEF CommitTrace, MovedAway
  <1>3. CASE DeleteCommit(d)
    <2>1. desk[d].pc = "deleted" /\ desk[d].who = h.of
      BY <1>3 DEF DeleteCommit
    <2> QED  BY <2>1, SMTT(60) DEF RecordsInv, DeletionsChecked, LostUnseen
  <1> QED  BY <1>1, <1>2, <1>3

LEMMA BindingsAreKept ==
    ASSUME RecordsInv, [EmployeeNext]_employeeVars, NEW p \in People,
           ActiveOf(p) # {}, ActiveOf(p)' = {}
    PROVE  desk' = desk \/ person'[p] = "deleted"
  <1>1. CASE UNCHANGED binding
    BY <1>1 DEF ActiveOf, Bindings
  <1>2. ASSUME NEW d \in Desks, DeleteCommit(d) PROVE person'[p] = "deleted"
    <2>1. desk[d].who = p
      <3> SUFFICES ASSUME desk[d].who # p PROVE ActiveOf(p)' = ActiveOf(p)
        OBVIOUS
      <3>1. PICK q : q = desk[d].who
        OBVIOUS
      <3>2. binding' = [u \in LineUsers |-> IF binding[u].of = q THEN Unbound ELSE binding[u]]
        BY <1>2, <3>1 DEF DeleteCommit
      <3>3. Unbound.of # p
        BY EmployeeAssumption DEF Unbound
      <3> QED  BY <3>1, <3>2, <3>3 DEF ActiveOf, Bindings
    <2> QED  BY <1>2, <2>1 DEF DeleteCommit, RecordsInv, EmployeeTypes
  <1>3. ASSUME NEW d \in Desks, BindCommit(d) PROVE FALSE
    BY <1>3, BindingCommitted
  <1>4. ASSUME NEW q \in People, Unbind(q) PROVE desk' = desk
    BY <1>4 DEF Unbind
  <1>5. \/ UNCHANGED binding
        \/ \E d \in Desks : DeleteCommit(d) \/ BindCommit(d)
        \/ \E q \in People : Unbind(q)
    BY DEF EmployeeNext, employeeVars, Hire, SetActive, CommitTrace, DeleteLock, DeleteRow,
           BindSwitchOff, BindInsert, GiveUp, CheckHistory, WriteTrace, MoveShiftOf, BindBegin
  <1> QED  BY <1>1, <1>2, <1>3, <1>4, <1>5

(* Whatever the number of employees, LINE ids and sessions: the permanent    *)
(* deletion takes only history it could not see when it looked, and no other *)
(* step takes any but a shift that is moved; an employee has one active      *)
(* binding at most, and loses it only to an unbinding or to the deletion,    *)
(* never in between of a rebinding.                                          *)
THEOREM RecordsKept == EmployeeSpec => RecordsAreKept
  <1> DEFINE Unaltered ==
        /\ \A h \in traces \ traces' : MovedAway(h) \/ LostUnseen(h)
        /\ \A p \in People :
             /\ ActiveOf(p) # {} /\ ActiveOf(p)' = {} => desk' = desk \/ person'[p] = "deleted"
             /\ Cardinality(ActiveOf(p)') <= 1
  <1>1. ASSUME RecordsInv', NEW p \in People PROVE Cardinality(ActiveOf(p)') <= 1
    <2>1. CASE ActiveOf(p)' = {}
      BY <2>1, FS_EmptySet
    <2>2. ASSUME NEW u \in ActiveOf(p)' PROVE Cardinality(ActiveOf(p)') <= 1
      <3>1. ActiveOf(p)' = {u}
        BY <1>1, <2>2 DEF RecordsInv, OneBinding
      <3> QED  BY <3>1, FS_Singleton
    <2> QED  BY <2>1, <2>2
  <1>2. RecordsInv /\ RecordsInv' /\ [EmployeeNext]_employeeVars => [Unaltered]_employeeVars
    BY <1>1, TracesAreKept, BindingsAreKept
  <1> QED  BY <1>2, RecordsInvariant, PTL DEF EmployeeSpec, RecordsAreKept

-----------------------------------------------------------------------------
(* DemoStore.  StoreInv is inductive: besides the property it says that a    *)
(* view shows what its tab has loaded, and what a stored state looks like.   *)

\* A tab that shows a view has loaded the state.
ViewsLoaded == \A b \in Browsers : view[b].page # "hub" => cached[b] # NoStore

Views == [page: {"hub", "staff", "manager"}, today: 0..MaxDate, dialog: Dialog]

StoreInv ==
    /\ storage \in Stored \cup {NoStore}
    /\ cached \in [Browsers -> Stored \cup {NoStore}]
    /\ view \in [Browsers -> Views]
    /\ date \in Dates
    /\ ViewsLoaded
    /\ StoreCoherent

LEMMA SeedIsStored == ASSUME NEW d \in Dates PROVE SeedState(d) \in Stored
  BY DEF SeedState, SeedMark, SeedCorrection, SeedReport, Stored, Report, ClockStates

LEMMA StoreInvInit == DemoInit => StoreInv
  BY DemoAssumption DEF DemoInit, StoreInv, ViewsLoaded, StoreCoherent, Hub, Dates, Views, Dialog

\* A tab that writes what it shows: the others hear of it, or were told before.
LEMMA WriteStaysCoherent ==
    ASSUME StoreInv, NEW b \in Browsers, NEW s \in Stored, NEW w, due \ {b} \subseteq w,
           cached' = [cached EXCEPT ![b] = s], WriteToStorage(b, s, w)
    PROVE  /\ storage' \in Stored \cup {NoStore}
           /\ cached' \in [Browsers -> Stored \cup {NoStore}]
           /\ \A x \in Browsers : cached[x] # NoStore => cached'[x] # NoStore
           /\ cached'[b] # NoStore
           /\ StoreCoherent'
  <1>1. /\ cached' \in [Browsers -> Stored \cup {NoStore}]
        /\ cached'[b] = s
        /\ \A x \in Browsers : x # b => cached'[x] = cached[x]
    BY DEF StoreInv
  <1>2. s # NoStore
    BY StoreAssumption
  <1>3. CASE /\ storage' = s
             /\ due' = IF s = storage THEN w ELSE w \cup {x \in Browsers \ {b} : cached[x] # NoStore}
             /\ deaf' = deaf \ {b} /\ unsaved' = unsaved \ {b}
    BY <1>1, <1>2, <1>3 DEF StoreInv, StoreCoherent, Behind
  <1>4. CASE storage' = storage /\ due' = w /\ deaf' = deaf /\ unsaved' = unsaved \cup {b}
    BY <1>1, <1>2, <1>4 DEF StoreInv, StoreCoherent, Behind
  <1> QED  BY <1>3, <1>4 DEF WriteToStorage

LEMMA LoadStaysCoherent ==
    ASSUME StoreInv, NEW b \in Browsers, NEW w, due \ {b} \subseteq w, LoadFromStorageOrSeed(b, w)
    PROVE  /\ storage' \in Stored \cup {NoStore}
           /\ cached' \in [Browsers -> Stored \cup {NoStore}]
           /\ \A x \in Browsers : cached[x] # NoStore => cached'[x] # NoStore
           /\ cached'[b] # NoStore
           /\ StoreCoherent'
  <1>1. CASE StoredToday /\ ReadFromStorage(b, w)
    BY <1>1 DEF StoredToday, ReadFromStorage, StoreInv, StoreCoherent, Behind
  <1>2. CASE /\ cached' = [cached EXCEPT ![b] = SeedState(date)]
             /\ WriteToStorage(b, SeedState(date), w)
    <2>1. SeedState(date) \in Stored
      BY SeedIsStored DEF StoreInv
    <2> QED  BY <1>2, <2>1, WriteStaysCoherent
  <1> QED  BY <1>1, <1>2 DEF LoadFromStorageOrSeed

-----------------------------------------------------------------------------
\* What a person writes differs from what the tab showed in one part.
OnePart(old, new) ==
    /\ DOMAIN new = DOMAIN old
    /\ \A k, l \in DOMAIN old : old[k] # new[k] /\ old[l] # new[l] => k = l

TabWrites(b, s) ==
    /\ s \in Stored /\ WithState(b, s)
    /\ s = SeedState(date) \/ (cached[b] \in Stored /\ OnePart(cached[b], s))

LEMMA DraftPart ==
    ASSUME NEW old \in Stored, NEW m \in Marks \cup {NoMark}
    PROVE  /\ [old EXCEPT !.draft = m] \in Stored /\ OnePart(old, [old EXCEPT !.draft = m])
           /\ [old EXCEPT !.published = m] \in Stored /\ OnePart(old, [old EXCEPT !.published = m])
  BY DEF Stored, OnePart

LEMMA CorrectionPart ==
    ASSUME NEW old \in Stored, NEW c \in {"pending", "approved", "rejected"}
    PROVE  [old EXCEPT !.correction = c] \in Stored /\ OnePart(old, [old EXCEPT !.correction = c])
  BY DEF Stored, OnePart

LEMMA ReportPart ==
    ASSUME NEW old \in Stored, NEW t, NEW m \in BOOLEAN, NEW c \in ClockStates
    PROVE  /\ [old EXCEPT !.reports[t].message = m] \in Stored
           /\ OnePart(old, [old EXCEPT !.reports[t].message = m])
           /\ [old EXCEPT !.reports[t].clock = c] \in Stored
           /\ OnePart(old, [old EXCEPT !.reports[t].clock = c])
  BY ZenonT(60) DEF Stored, OnePart, Report

PersonWrites(b) ==
    \/ \E m \in Marks \cup {NoMark} : UpdateDraftAssignment(b, m)
    \/ AutoScheduleDraft(b) \/ PublishDraft(b)
    \/ ResolveCorrectionRequest(b, "approved") \/ ResolveCorrectionRequest(b, "rejected")
    \/ SubmitCorrectionRequest(b)
    \/ SaveTodayMessage(b, TRUE) \/ SaveTodayMessage(b, FALSE)
    \/ ClockIn(b) \/ ConfirmClockOut(b) \/ ResetDemoStore(b)

LEMMA PeopleWrite ==
    ASSUME StoreInv, NEW b \in Browsers, PersonWrites(b)
    PROVE  /\ \E s : TabWrites(b, s)
           /\ view' \in [Browsers -> Views]
           /\ \A x \in Browsers : view'[x].page = view[x].page
  <1>1. cached[b] \in Stored /\ view[b].page # "hub" /\ date \in Dates
    BY DEF PersonWrites, UpdateDraftAssignment, AutoScheduleDraft, PublishDraft, ResolveCorrectionRequest,
           SubmitCorrectionRequest, SaveTodayMessage, ClockIn, ConfirmClockOut, ResetDemoStore,
           Shows, StoreInv, ViewsLoaded
  <1>2. view' \in [Browsers -> Views] /\ \A x \in Browsers : view'[x].page = view[x].page
    <2>1. view' = view \/ view' = [view EXCEPT ![b].dialog = "spent"]
      BY DEF PersonWrites, UpdateDraftAssignment, AutoScheduleDraft, PublishDraft, ResolveCorrectionRequest,
             SubmitCorrectionRequest, SaveTodayMessage, ClockIn, ConfirmClockOut, ResetDemoStore
    <2> QED  BY <2>1 DEF StoreInv, Views, Dialog
  <1> DEFINE Good == \E s : TabWrites(b, s)
  <1>3. ASSUME NEW s \in Stored, OnePart(cached[b], s), WithState(b, s) PROVE Good
    BY <1>1, <1>3 DEF TabWrites
  <1> HIDE DEF Good
  <1>4. ASSUME NEW m \in Marks \cup {NoMark}, UpdateDraftAssignment(b, m) PROVE Good
    <2>1. [cached[b] EXCEPT !.draft = m] \in Stored /\ OnePart(cached[b], [cached[b] EXCEPT !.draft = m])
      BY <1>1, DraftPart
    <2>2. WithState(b, [cached[b] EXCEPT !.draft = m])
      BY <1>4 DEF UpdateDraftAssignment
    <2> QED  BY <1>3, <2>1, <2>2
  <1>5. ASSUME AutoScheduleDraft(b) PROVE Good
    <2>1. /\ [cached[b] EXCEPT !.draft = AutoMark] \in Stored
          /\ OnePart(cached[b], [cached[b] EXCEPT !.draft = AutoMark])
      BY <1>1, DraftPart, DemoAssumption
    <2>2. WithState(b, [cached[b] EXCEPT !.draft = AutoMark])
      BY <1>5 DEF AutoScheduleDraft, AutoScheduled
    <2> QED  BY <1>3, <2>1, <2>2
  <1>6. ASSUME PublishDraft(b) PROVE Good
    <2>1. cached[b].draft \in Marks \cup {NoMark}
      BY <1>1 DEF Stored
    <2> DEFINE s == [cached[b] EXCEPT !.published = cached[b].draft]
    <2>2. s \in Stored /\ OnePart(cached[b], s)
      BY <1>1, <2>1, DraftPart
    <2>3. WithState(b, s)
      BY <1>6 DEF PublishDraft
    <2> QED  BY <1>3, <2>2, <2>3
  <1>7. ASSUME \/ ResolveCorrectionRequest(b, "approved") \/ ResolveCorrectionRequest(b, "rejected")
               \/ WithState(b, [cached[b] EXCEPT !.correction = "pending"])
        PROVE  Good
    <2>1. PICK c \in {"pending", "approved", "rejected"} :
              WithState(b, [cached[b] EXCEPT !.correction = c])
      BY <1>7 DEF ResolveCorrectionRequest
    <2> DEFINE s == [cached[b] EXCEPT !.correction = c]
    <2>2. s \in Stored /\ OnePart(cached[b], s)
      BY <1>1, CorrectionPart
    <2> QED  BY <1>3, <2>1, <2>2
  <1>8. ASSUME \/ SaveTodayMessage(b, TRUE) \/ SaveTodayMessage(b, FALSE)
               \/ WithState(b, [cached[b] EXCEPT !.reports[view[b].today].message = TRUE])
               \/ ClockIn(b) \/ ConfirmClockOut(b)
        PROVE  Good
    <2>1. PICK t : t = view[b].today
      OBVIOUS
    <2>2. \/ WithState(b, [cached[b] EXCEPT !.reports[t].message = TRUE])
          \/ WithState(b, [cached[b] EXCEPT !.reports[t].message = FALSE])
          \/ WithState(b, [cached[b] EXCEPT !.reports[t].clock = "clocked_in"])
          \/ WithState(b, [cached[b] EXCEPT !.reports[t].clock = "clocked_out"])
      BY <1>8, <2>1 DEF SaveTodayMessage, ClockIn, ConfirmClockOut
    <2>3. \A m \in BOOLEAN :
             /\ [cached[b] EXCEPT !.reports[t].message = m] \in Stored
             /\ OnePart(cached[b], [cached[b] EXCEPT !.reports[t].message = m])
      BY <1>1, ReportPart DEF ClockStates
    <2>4. \A c \in {"clocked_in", "clocked_out"} :
             /\ [cached[b] EXCEPT !.reports[t].clock = c] \in Stored
             /\ OnePart(cached[b], [cached[b] EXCEPT !.reports[t].clock = c])
      BY <1>1, ReportPart DEF ClockStates
    <2> QED  BY <1>3, <2>2, <2>3, <2>4
  <1>9. ASSUME ResetDemoStore(b) PROVE Good
    <2>1. SeedState(date) \in Stored /\ WithState(b, SeedState(date))
      BY <1>1, <1>9, SeedIsStored DEF ResetDemoStore
    <2> QED  BY <2>1 DEF TabWrites, Good
  <1>10. ASSUME SubmitCorrectionRequest(b) PROVE Good
    <2>1. OnePart(cached[b], cached[b])
      BY DEF OnePart
    <2> QED  BY <1>1, <1>3, <1>7, <1>8, <1>10, <2>1 DEF SubmitCorrectionRequest
  <1>11. \E s : TabWrites(b, s)
    BY <1>4, <1>5, <1>6, <1>7, <1>8, <1>9, <1>10 DEF PersonWrites, Good
  <1> QED  BY <1>2, <1>11

LEMMA PersonWritesKeep ==
    ASSUME StoreInv, NEW b \in Browsers, PersonWrites(b)
    PROVE  StoreInv'
  <1>1. PICK s : TabWrites(b, s)
    BY PeopleWrite
  <1>2. /\ s \in Stored /\ date' = date
        /\ cached' = [cached EXCEPT ![b] = s] /\ WriteToStorage(b, s, due)
    BY <1>1 DEF TabWrites, WithState, Persist
  <1> QED  BY <1>2, WriteStaysCoherent, PeopleWrite DEF StoreInv, ViewsLoaded

\* Nothing but a view, the date or a history variable changes.
LEMMA NothingWritten ==
    ASSUME StoreInv, UNCHANGED <<storage, cached>>, date' \in Dates, view' \in [Browsers -> Views],
           \A x \in Browsers : view'[x].page # "hub" => view[x].page # "hub" \/ cached[x] # NoStore,
           Behind \subseteq Behind'
    PROVE  StoreInv'
  BY DEF StoreInv, ViewsLoaded, StoreCoherent

LEMMA TabSteps ==
    ASSUME StoreInv, NEW b \in Browsers,
           \/ OpenView(b, "staff") \/ OpenView(b, "manager") \/ LeaveView(b) \/ Reload(b)
           \/ HandleStorage(b) \/ NobodyListens(b) \/ RequestClockOut(b) \/ CancelClockOut(b)
    PROVE  StoreInv'
  <1>1. CASE OpenView(b, "staff") \/ OpenView(b, "manager")
    <2>1. PICK target \in {"staff", "manager"} : OpenView(b, target)
      BY <1>1
    <2>2. view' \in [Browsers -> Views] /\ \A x \in Browsers : x # b => view'[x] = view[x]
      <3>1. [Hub EXCEPT !.page = target, !.today = date] \in Views
        <4>1. date \in 0..MaxDate
          BY DemoAssumption DEF StoreInv, Dates
        <4>2. PICK h : h = [Hub EXCEPT !.page = target]
          OBVIOUS
        <4>3. h \in Views
          BY <4>2, DemoAssumption DEF Hub, Views, Dialog
        <4>4. [h EXCEPT !.today = date] \in Views
          BY <4>1, <4>3 DEF Views
        <4> QED  BY <4>2, <4>4
      <3> QED  BY <2>1, <3>1 DEF OpenView, StoreInv
    <2>3. CASE cached[b] # NoStore /\ UNCHANGED <<storage, cached, due, deaf, unsaved>>
      BY <2>1, <2>2, <2>3, NothingWritten DEF OpenView, StoreInv, Behind
    <2>4. CASE LoadFromStorageOrSeed(b, due)
      BY <2>1, <2>2, <2>4, LoadStaysCoherent DEF OpenView, StoreInv, ViewsLoaded
    <2> QED  BY <2>1, <2>3, <2>4 DEF OpenView
  <1>2. CASE LeaveView(b)
    <2>1. view' \in [Browsers -> Views] /\ \A x \in Browsers : view'[x].page # "hub" => view'[x] = view[x]
      BY <1>2, DemoAssumption DEF LeaveView, StoreInv, Views, Hub, Dialog, Dates
    <2> QED  BY <1>2, <2>1, NothingWritten DEF LeaveView, StoreInv, Behind
  <1>3. CASE Reload(b)
    <2>1. view' \in [Browsers -> Views] /\ \A x \in Browsers : view'[x].page # "hub" => x # b /\ view'[x] = view[x]
      BY <1>3, DemoAssumption DEF Reload, StoreInv, Views, Hub, Dialog, Dates
    <2>2. /\ cached' \in [Browsers -> Stored \cup {NoStore}]
          /\ cached'[b] = NoStore /\ \A x \in Browsers : x # b => cached'[x] = cached[x]
      BY <1>3 DEF Reload, StoreInv
    <2>3. StoreCoherent'
      BY <1>3, <2>2 DEF Reload, StoreInv, StoreCoherent, Behind
    <2> QED  BY <1>3, <2>1, <2>2, <2>3 DEF Reload, StoreInv, ViewsLoaded
  <1>4. CASE HandleStorage(b)
    BY <1>4, LoadStaysCoherent DEF HandleStorage, StoreInv, ViewsLoaded
  <1>5. CASE NobodyListens(b)
    BY <1>5, NothingWritten DEF NobodyListens, StoreInv, Behind
  <1>6. CASE RequestClockOut(b) \/ CancelClockOut(b)
    <2>1. view' \in [Browsers -> Views] /\ \A x \in Browsers : view'[x].page = view[x].page
      BY <1>6 DEF RequestClockOut, CancelClockOut, StoreInv, Views, Dialog
    <2> QED  BY <1>6, <2>1, NothingWritten DEF RequestClockOut, CancelClockOut, StoreInv, Behind
  <1> QED  BY <1>1, <1>2, <1>3, <1>4, <1>5, <1>6

LEMMA StoreInvNext ==
    ASSUME StoreInv, [DemoNext]_demoVars
    PROVE  StoreInv'
  <1>1. CASE UNCHANGED demoVars
    BY <1>1, NothingWritten DEF demoVars, StoreInv, Behind
  <1>2. CASE Midnight
    <2>1. date' \in Dates
      BY <1>2, DemoAssumption DEF Midnight, StoreInv, Dates
    <2> QED  BY <1>2, <2>1, NothingWritten DEF Midnight, StoreInv, Behind
  <1>3. CASE \E b \in Browsers : PersonWrites(b)
    BY <1>3, PersonWritesKeep
  <1> QED  BY <1>1, <1>2, <1>3, TabSteps DEF DemoNext, PersonWrites

THEOREM StoreInvariant == DemoSpec => []StoreInv
  BY StoreInvInit, StoreInvNext, PTL DEF DemoSpec

(* Whatever the number of tabs: one that is not behind shows what is stored, *)
(* or has loaded nothing.                                                    *)
THEOREM TabsAreCoherent == DemoSpec => []StoreCoherent
  <1>1. StoreInv => StoreCoherent
    BY DEF StoreInv
  <1> QED  BY <1>1, StoreInvariant, PTL

\* The tabs that are told, that are deaf and that could not save, and the writes.
MarksInv ==
    /\ due \subseteq Browsers /\ deaf \subseteq Browsers /\ unsaved \subseteq Browsers
    /\ writes \in 0..MaxWrites

LEMMA StorageMarks ==
    ASSUME MarksInv, NEW b \in Browsers, NEW s, NEW w, w \subseteq Browsers,
           WriteToStorage(b, s, w) \/ ReadFromStorage(b, w) \/ LoadFromStorageOrSeed(b, w)
    PROVE  due' \subseteq Browsers /\ deaf' \subseteq Browsers /\ unsaved' \subseteq Browsers
  BY DEF MarksInv, WriteToStorage, ReadFromStorage, LoadFromStorageOrSeed

LEMMA WithStateMarks ==
    ASSUME MarksInv, NEW b \in Browsers, NEW s, WithState(b, s), writes < MaxWrites
    PROVE  MarksInv'
  <1>1. due' \subseteq Browsers /\ deaf' \subseteq Browsers /\ unsaved' \subseteq Browsers
    BY StorageMarks DEF WithState, Persist, MarksInv
  <1>2. writes' \in 0..MaxWrites
    BY DemoAssumption DEF WithState, MarksInv
  <1> QED  BY <1>1, <1>2 DEF MarksInv

LEMMA MarksInvNext ==
    ASSUME MarksInv, [DemoNext]_demoVars
    PROVE  MarksInv'
  <1>1. CASE UNCHANGED demoVars
    BY <1>1 DEF demoVars, MarksInv
  <1>2. CASE Midnight
    BY <1>2, DemoAssumption DEF Midnight, MarksInv
  <1>3. ASSUME NEW b \in Browsers, PersonWrites(b) PROVE MarksInv'
    <2>1. \E s : WithState(b, s) /\ writes < MaxWrites
      BY <1>3 DEF PersonWrites, UpdateDraftAssignment, AutoScheduleDraft, PublishDraft,
         ResolveCorrectionRequest, SubmitCorrectionRequest, SaveTodayMessage, ClockIn,
         ConfirmClockOut, ResetDemoStore, Shows
    <2> QED  BY <2>1, WithStateMarks
  <1>4. ASSUME NEW b \in Browsers, NEW p, OpenView(b, p) PROVE MarksInv'
    BY <1>4, StorageMarks DEF OpenView, MarksInv
  <1>5. ASSUME NEW b \in Browsers, HandleStorage(b) PROVE MarksInv'
    <2>1. due \ {b} \subseteq Browsers
      BY DEF MarksInv
    <2> QED  BY <1>5, <2>1, StorageMarks DEF HandleStorage, MarksInv
  <1>6. ASSUME NEW b \in Browsers,
               LeaveView(b) \/ Reload(b) \/ NobodyListens(b) \/ RequestClockOut(b) \/ CancelClockOut(b)
        PROVE  MarksInv'
    BY <1>6 DEF LeaveView, Reload, NobodyListens, RequestClockOut, CancelClockOut, MarksInv
  <1> QED  BY <1>1, <1>2, <1>3, <1>4, <1>5, <1>6 DEF DemoNext, PersonWrites

(* The demo's store and its tabs keep their types.                           *)
THEOREM DemoTypesHold == DemoSpec => []DemoTypes
  <1>1. DemoInit => MarksInv
    BY DemoAssumption DEF DemoInit, MarksInv
  <1>2. StoreInv /\ MarksInv => DemoTypes
    BY DEF StoreInv, MarksInv, DemoTypes, Views
  <1> QED  BY <1>1, <1>2, MarksInvNext, StoreInvariant, PTL DEF DemoSpec

LEMMA LoadsSeed ==
    ASSUME NEW b \in Browsers, NEW w, LoadFromStorageOrSeed(b, w), storage' # storage
    PROVE  storage' = SeedState(date)
  BY DEF LoadFromStorageOrSeed, ReadFromStorage, WriteToStorage

LEMMA PersonChangesOnePart ==
    ASSUME StoreInv, StoreInv', NEW b \in Browsers, PersonWrites(b),
           storage # NoStore, storage' # storage
    PROVE  \/ storage' = SeedState(date)
           \/ \E x \in Behind : storage' = cached'[x]
           \/ Cardinality({piece \in DOMAIN storage : storage'[piece] # storage[piece]}) = 1
  <1>1. PICK s : TabWrites(b, s)
    BY PeopleWrite
  <1>2. s \in Stored /\ cached' = [cached EXCEPT ![b] = s] /\ storage' = s
    BY <1>1 DEF TabWrites, WithState, Persist, WriteToStorage
  <1>3. cached'[b] = s
    BY <1>2 DEF StoreInv
  <1>4. CASE b \in Behind
    BY <1>2, <1>3, <1>4
  <1>5. CASE s = SeedState(date)
    BY <1>2, <1>5
  <1>6. CASE b \notin Behind /\ cached[b] \in Stored /\ OnePart(cached[b], s)
    <2>1. cached[b] = storage
      BY <1>6, StoreAssumption DEF StoreInv, StoreCoherent
    <2>2. OnePart(storage, s) /\ s # storage /\ s \in Stored /\ storage \in Stored
      BY <1>2, <1>6, <2>1
    <2>3. PICK k \in DOMAIN storage : s[k] # storage[k]
      BY <2>2 DEF Stored
    <2>4. {piece \in DOMAIN storage : storage'[piece] # storage[piece]} = {k}
      BY <1>2, <2>2, <2>3 DEF OnePart
    <2> QED  BY <2>4, FS_Singleton
  <1> QED  BY <1>1, <1>4, <1>5, <1>6 DEF TabWrites

(* Whatever the number of tabs and days: a change of the stored state is the *)
(* seed of today, comes from a tab that was behind, or is a change of one    *)
(* part that keeps what all other tabs wrote.                                *)
THEOREM WritesKeep == DemoSpec => WritesKeepTheRest
  <1>1. ASSUME StoreInv, StoreInv', [DemoNext]_demoVars, storage # NoStore, storage' # storage
        PROVE  \/ storage' = SeedState(date)
               \/ \E b \in Behind : storage' = cached'[b]
               \/ Cardinality({piece \in DOMAIN storage : storage'[piece] # storage[piece]}) = 1
    <2>1. \E b \in Browsers : \/ PersonWrites(b) \/ HandleStorage(b)
                              \/ OpenView(b, "staff") \/ OpenView(b, "manager")
      BY <1>1 DEF DemoNext, demoVars, PersonWrites, Midnight, LeaveView, Reload, NobodyListens,
                  RequestClockOut, CancelClockOut
    <2>2. ASSUME NEW b \in Browsers, HandleStorage(b) \/ OpenView(b, "staff") \/ OpenView(b, "manager")
          PROVE  storage' = SeedState(date)
      BY <1>1, <2>2, LoadsSeed DEF HandleStorage, OpenView
    <2> QED  BY <1>1, <2>1, <2>2, PersonChangesOnePart
  <1>2. StoreInv /\ StoreInv' /\ [DemoNext]_demoVars =>
           [storage # NoStore /\ storage' # storage =>
               \/ storage' = SeedState(date)
               \/ \E b \in Behind : storage' = cached'[b]
               \/ Cardinality({piece \in DOMAIN storage : storage'[piece] # storage[piece]}) = 1]_demoVars
    BY <1>1
  <1> QED  BY <1>2, StoreInvariant, PTL DEF DemoSpec, WritesKeepTheRest

-----------------------------------------------------------------------------
(* FixtureRehearsal.  What an apply leaves: the whole structure, active      *)
(* members and the rows of one day; with the tenant there, of its own day.   *)
(* Acceptance rows are never there without the employee, which is why a      *)
(* cleanup that is not refused leaves none of them, on whatever day.         *)

FixtureInv ==
    /\ FixtureTypes
    /\ "employee" \notin present => rows = {}
    /\ last \in {"applied", "settled"} =>
          present = Structure /\ \A a \in Accounts : member[a] = "active"
    /\ FixtureRoundTrip

LEMMA FixtureInvInit == FixtureInit => FixtureInv
  BY DEF FixtureInit, FixtureInv, FixtureTypes, FixtureRoundTrip, Structure, Kinds, DataDays,
         Accounts, Additions

LEMMA ApplySettles ==
    ASSUME FixtureInv, ApplyFixture
    PROVE  FixtureInv'
  <1>1. PICK day \in Anchor : rows' = rows \cup (Kinds \X {day})
    BY DEF ApplyFixture
  <1>2. day \in DataDays
    BY <1>1 DEF Anchor, DataDays
  <1>3. /\ present' = Structure /\ member' = [a \in Accounts |-> "active"] /\ added' = added
        /\ last' = IF last \in {"applied", "settled"} THEN "settled" ELSE "applied"
    BY DEF ApplyFixture
  <1>4. FixtureTypes'
    BY <1>1, <1>2, <1>3 DEF FixtureInv, FixtureTypes
  <1>5. last' = "settled" => ~Missing("anchor")'
    <2> SUFFICES ASSUME last' = "settled" PROVE ~Missing("anchor")'
      OBVIOUS
    <2>1. "tenant" \in present
      BY <1>3 DEF FixtureInv, Structure
    <2>2. \A k \in Kinds : <<k, "anchor">> \in rows'
      BY <1>1, <2>1 DEF Anchor
    <2> QED  BY <1>3, <2>2 DEF Missing
  <1> QED  BY <1>3, <1>4, <1>5 DEF FixtureInv, FixtureRoundTrip, Structure

\* What is left of the rows would be a shift, and a shift keeps its template.
LEMMA CleanUpLeavesNoRow ==
    ASSUME FixtureInv, CleanUpFixture
    PROVE  rows' = {}
  <1>1. rows' = Remaining /\ \A x \in Remaining : x[1] # "shift"
    BY DEF CleanUpFixture, ShiftTypeInUse
  <1> QED  BY <1>1 DEF Remaining, Unowned, FixtureInv

LEMMA CleanUpRemoves ==
    ASSUME FixtureInv, CleanUpFixture
    PROVE  FixtureInv'
  <1>1. /\ member' = [a \in Accounts |-> "none"] /\ added' = added \ {"request"} /\ last' = "cleaned"
        /\ present' = present \ ({"grants", "employee", "shift_types", "recipe", "recipe_category"}
                                 \ {c \in {"recipe_category"} : "recipe" \in added})
    BY DEF CleanUpFixture
  <1>2. FixtureTypes'
    BY <1>1, CleanUpLeavesNoRow DEF FixtureInv, FixtureTypes
  <1> QED  BY <1>1, <1>2, CleanUpLeavesNoRow DEF FixtureInv, FixtureRoundTrip

\* Between the commands people take nothing away that a row hangs on.
LEMMA PeopleEdit ==
    ASSUME FixtureInv, FixtureNext, ~ApplyFixture, ~CleanUpFixture
    PROVE  FixtureInv'
  <1>1. last' = "edited" /\ rows' \subseteq rows /\ ("employee" \in present <=> "employee" \in present')
    BY DEF FixtureNext, ChangeMembership, AddRow, RemoveRow, MoveShift, DisableFixtureModule
  <1>2. FixtureTypes'
    BY DEF FixtureNext, ChangeMembership, AddRow, RemoveRow, MoveShift, DisableFixtureModule,
           FixtureInv, FixtureTypes, Additions
  <1> QED  BY <1>1, <1>2 DEF FixtureInv, FixtureRoundTrip

LEMMA FixtureInvNext ==
    ASSUME FixtureInv, [FixtureNext]_fixtureVars
    PROVE  FixtureInv'
  <1>1. CASE UNCHANGED fixtureVars
    BY <1>1 DEF fixtureVars, FixtureInv, FixtureTypes, FixtureRoundTrip, Missing
  <1> QED  BY <1>1, ApplySettles, CleanUpRemoves, PeopleEdit

THEOREM FixtureInvariant == FixtureSpec => []FixtureInv
  BY FixtureInvInit, FixtureInvNext, PTL DEF FixtureSpec

(* The types of FixtureRehearsal: whatever people do between the commands,   *)
(* the tool meets only rows, members and structure of the kinds it knows.    *)
THEOREM FixtureTypesHold == FixtureSpec => []FixtureTypes
  <1>1. FixtureInv => FixtureTypes
    BY DEF FixtureInv
  <1> QED  BY <1>1, FixtureInvariant, PTL

(* However often the commands are repeated and whatever people do between    *)
(* them: two applies in a row leave nothing to do, and a cleanup that        *)
(* commits leaves nothing of the fixture but what it says it keeps.          *)
THEOREM FixtureComesAndGoes == FixtureSpec => []FixtureRoundTrip
  <1>1. FixtureInv => FixtureRoundTrip
    BY DEF FixtureInv
  <1> QED  BY <1>1, FixtureInvariant, PTL

-----------------------------------------------------------------------------
(* EventLog.  The cursor stands on a committed id or on none, and what was   *)
(* delivered lies at or below it; an id that is still under way is committed *)
(* nowhere, so one that is committed at the cursor or below it counts as     *)
(* late.                                                                     *)

EventInv ==
    /\ EventTypes
    /\ inserted \cap committed = {}
    /\ cursor \in committed \cup {0}
    /\ \A i \in DOMAIN delivered : delivered[i] <= cursor
    /\ EventsInOrder

LEMMA EventInvInit == EventInit => EventInv
  BY EventBounds DEF EventInit, EventInv, EventTypes, EventsInOrder

\* Nothing that can be read lies between a page and the cursor before it.
LEMMA PageIsNext ==
    ASSUME EventInv, NEW n \in 1..PageSize, NEW list \in [1..n -> 1..drawn], ListEventsSince(list)
    PROVE  /\ n \in Nat /\ n > 0 /\ list \in Seq(committed) /\ Len(list) = n /\ DOMAIN list = 1..n
           /\ \A i \in 1..n : list[i] \in committed /\ cursor < list[i] /\ list[i] <= list[n]
           /\ \A i, k \in 1..n : i < k => list[i] < list[k]
           /\ \A id \in committed : cursor < id /\ id <= list[n] => \E i \in 1..n : list[i] = id
  <1>1. n \in Nat /\ n > 0 /\ DOMAIN list = 1..n /\ committed \subseteq Nat /\ cursor \in Nat
    BY EventBounds DEF EventInv, EventTypes
  <1>2. \A i \in 1..n : list[i] \in Readable
    BY <1>1 DEF ListEventsSince, FirstOf, Range
  <1>3. \A i \in 1..n : list[i] \in committed /\ cursor < list[i]
    BY <1>1, <1>2 DEF Readable
  <1>4. \A i, k \in 1..n : i < k => list[i] < list[k]
    BY <1>1 DEF ListEventsSince, FirstOf
  <1>5. \A i \in 1..n : list[i] <= list[n]
    <2> SUFFICES ASSUME NEW i \in 1..n PROVE list[i] <= list[n]
      OBVIOUS
    <2>1. list[i] \in Nat /\ list[n] \in Nat
      BY <1>1, <1>3
    <2>2. i = n \/ i < n
      BY <1>1
    <2> QED  BY <1>1, <1>4, <2>1, <2>2
  <1>6. ASSUME NEW id \in committed, cursor < id, id <= list[n]
        PROVE  \E i \in 1..n : list[i] = id
    <2>1. id \in Readable
      BY <1>6, <1>1 DEF Readable
    <2>2. n \in DOMAIN list /\ list[n] \in Nat /\ id \in Nat
      BY <1>1, <1>3, <1>6
    <2>3. ~(list[n] < id)
      BY <1>6, <2>2
    <2>4. id \in Range(list)
      BY <2>1, <2>2, <2>3 DEF ListEventsSince, FirstOf
    <2> QED  BY <2>4, <1>1 DEF Range
  <1>7. list \in Seq(committed) /\ Len(list) = n
    BY <1>1, <1>3
  <1> QED  BY <1>1, <1>3, <1>4, <1>5, <1>6, <1>7

LEMMA PollKeeps ==
    ASSUME EventInv, PollEvents
    PROVE  EventInv'
  <1>1. PICK n \in 1..PageSize :
          \E list \in [1..n -> 1..drawn] :
             /\ ListEventsSince(list) /\ delivered' = delivered \o list /\ cursor' = list[n]
             /\ UNCHANGED <<drawn, inserted, committed, late>>
    BY DEF PollEvents
  <1>2. PICK list \in [1..n -> 1..drawn] :
          /\ ListEventsSince(list) /\ delivered' = delivered \o list /\ cursor' = list[n]
          /\ UNCHANGED <<drawn, inserted, committed, late>>
    BY <1>1
  <1> DEFINE m == Len(delivered)
  <1>3. /\ n \in Nat /\ n > 0 /\ list \in Seq(committed) /\ Len(list) = n
        /\ \A i \in 1..n : list[i] \in committed /\ cursor < list[i] /\ list[i] <= list[n]
        /\ \A i, k \in 1..n : i < k => list[i] < list[k]
        /\ \A id \in committed : cursor < id /\ id <= list[n] => \E i \in 1..n : list[i] = id
    BY <1>2, PageIsNext
  <1>4. /\ delivered \in Seq(committed) /\ m \in Nat /\ DOMAIN delivered = 1..m
        /\ \A i \in 1..m : delivered[i] \in committed
        /\ committed \subseteq Nat /\ cursor \in Nat /\ cursor <= MaxEvents /\ MaxEvents \in Nat
        /\ drawn \in Nat /\ committed \subseteq 1..drawn /\ drawn <= MaxEvents
    BY EventBounds DEF EventInv, EventTypes
  <1>5. /\ delivered' \in Seq(committed) /\ DOMAIN delivered' = 1..(m + n)
        /\ \A i \in 1..m : delivered'[i] = delivered[i]
        /\ \A i \in 1..n : delivered'[m + i] = list[i]
    <2>1. delivered \o list \in Seq(committed) /\ Len(delivered \o list) = m + n
      <3>1. delivered \in Seq(committed) /\ list \in Seq(committed) /\ Len(list) = n
        BY <1>3, <1>4
      <3> QED  BY <3>1, ConcatProperties
    <2> QED  BY <1>2, <1>3, <1>4, <2>1
  <1> HIDE DEF m
  <1>6. \A i \in 1..(m + n) : i \in 1..m \/ \E k \in 1..n : i = m + k
    <2> SUFFICES ASSUME NEW i \in 1..(m + n), i \notin 1..m PROVE i - m \in 1..n /\ i = m + (i - m)
      OBVIOUS
    <2> QED  BY <1>3, <1>4
  <1>7. list[n] \in committed /\ cursor < list[n] /\ list[n] \in Nat
    BY <1>3, <1>4
  <1>8. EventTypes'
    BY <1>2, <1>4, <1>5, <1>7 DEF EventInv, EventTypes
  <1>9. \A i \in 1..(m + n) : delivered'[i] <= cursor'
    <2> SUFFICES ASSUME NEW i \in 1..(m + n) PROVE delivered'[i] <= cursor'
      OBVIOUS
    <2>1. CASE i \in 1..m
      <3>1. delivered[i] <= cursor /\ delivered[i] \in Nat
        BY <1>4, <2>1 DEF EventInv
      <3> QED  BY <1>2, <1>4, <1>5, <1>7, <2>1, <3>1
    <2>2. CASE \E k \in 1..n : i = m + k
      BY <1>2, <1>3, <1>5, <2>2, ZenonT(30)
    <2> QED  BY <1>6, <2>1, <2>2
  <1>10. \A i, k \in 1..(m + n) : i < k => delivered'[i] < delivered'[k]
    <2> SUFFICES ASSUME NEW i \in 1..(m + n), NEW k \in 1..(m + n), i < k
                 PROVE  delivered'[i] < delivered'[k]
      OBVIOUS
    <2>1. CASE k \in 1..m
      <3>1. i \in 1..m
        BY <1>3, <1>4, <2>1
      <3> QED  BY <1>4, <1>5, <2>1, <3>1 DEF EventInv, EventsInOrder
    <2>2. CASE \E b \in 1..n : k = m + b
      <3>1. PICK b \in 1..n : k = m + b
        BY <2>2
      <3>2. CASE i \in 1..m
        <4>1. delivered[i] <= cursor /\ delivered[i] \in Nat
          BY <1>4, <3>2 DEF EventInv
        <4>2. cursor < list[b] /\ list[b] \in Nat
          BY <1>3, <1>4
        <4>3. delivered[i] < list[b]
          BY <4>1, <4>2, <1>4
        <4> QED  BY <1>5, <3>1, <3>2, <4>3
      <3>3. CASE \E a \in 1..n : i = m + a
        <4>1. PICK a \in 1..n : i = m + a
          BY <3>3
        <4>2. a < b
          BY <3>1, <4>1, <1>3, <1>4
        <4> QED  BY <1>3, <1>5, <3>1, <4>1, <4>2
      <3> QED  BY <1>6, <3>2, <3>3
    <2> QED  BY <1>6, <2>1, <2>2
  <1>11. \A id \in committed : id <= list[n] => id \in Range(delivered') \cup late
    <2> SUFFICES ASSUME NEW id \in committed, id <= list[n], id \notin late
                 PROVE  \E i \in 1..(m + n) : delivered'[i] = id
      BY <1>5 DEF Range
    <2>1. CASE id <= cursor
      <3>1. id \in Range(delivered)
        BY <2>1 DEF EventInv, EventsInOrder
      <3>2. PICK i \in 1..m : delivered[i] = id
        BY <1>4, <3>1 DEF Range
      <3>3. i \in 1..(m + n)
        BY <1>3, <1>4
      <3> QED  BY <1>5, <3>2, <3>3
    <2>2. CASE cursor < id
      <3>1. PICK i \in 1..n : list[i] = id
        BY <1>3, <2>2
      <3>2. m + i \in 1..(m + n)
        BY <1>3, <1>4
      <3> QED  BY <1>5, <3>1, <3>2
    <2> QED  BY <1>4, <2>1, <2>2
  <1>12. EventsInOrder'
    BY <1>2, <1>5, <1>10, <1>11 DEF EventsInOrder
  <1> QED  BY <1>2, <1>5, <1>7, <1>8, <1>9, <1>12 DEF EventInv

LEMMA EventInvNext ==
    ASSUME EventInv, [EventNext]_eventVars
    PROVE  EventInv'
  <1>1. CASE UNCHANGED eventVars
    BY <1>1 DEF eventVars, EventInv, EventTypes, EventsInOrder
  <1>2. CASE PublishEvent
    <2>1. EventTypes'
      BY <1>2, EventBounds DEF PublishEvent, EventInv, EventTypes
    <2> QED  BY <1>2, <2>1 DEF PublishEvent, EventInv, EventTypes, EventsInOrder
  <1>3. CASE \E id \in inserted : AbortEvent(id)
    <2>1. EventTypes'
      BY <1>3, EventBounds DEF AbortEvent, EventInv, EventTypes
    <2> QED  BY <1>3, <2>1 DEF AbortEvent, EventInv, EventTypes, EventsInOrder
  <1>4. CASE \E id \in inserted : CommitEvent(id)
    <2>1. PICK id \in inserted : CommitEvent(id)
      BY <1>4
    <2>2. /\ id \in 1..drawn /\ drawn \in Nat /\ cursor \in Nat /\ id # cursor
          /\ committed' = committed \cup {id} /\ inserted' = inserted \ {id}
          /\ late' = (IF id < cursor THEN late \cup {id} ELSE late)
          /\ UNCHANGED <<drawn, cursor, delivered>>
      BY <2>1, EventBounds DEF CommitEvent, EventInv, EventTypes
    <2>3. EventTypes'
      <3>1. delivered \in Seq(committed \cup {id})
        BY DEF EventInv, EventTypes
      <3> QED  BY <2>2, <3>1 DEF EventInv, EventTypes
    <2> QED  BY <2>2, <2>3 DEF EventInv, EventsInOrder
  <1> QED  BY <1>1, <1>2, <1>3, <1>4, PollKeeps DEF EventNext

THEOREM EventInvariant == EventSpec => []EventInv
  BY EventInvInit, EventInvNext, PTL DEF EventSpec

(* The types of EventLog for any number of events: what is delivered is      *)
(* committed, an id that was drawn is in one place at most.                  *)
THEOREM EventTypesHold == EventSpec => []EventTypes
  <1>1. EventInv => EventTypes
    BY DEF EventInv
  <1> QED  BY <1>1, EventInvariant, PTL

(* However many events there are and however large a page is: a consumer     *)
(* processes each once, in the order of the ids, and passes over none but    *)
(* those that were committed when the cursor had passed them.                *)
THEOREM EventsDeliveredInOrder == EventSpec => []EventsInOrder
  <1>1. EventInv => EventsInOrder
    BY DEF EventInv
  <1> QED  BY <1>1, EventInvariant, PTL

-----------------------------------------------------------------------------
(* The composition.  A step of the office is one of the part whose turn it   *)
(* is, and a rest of all others; so what is proved of a part holds there.    *)

LEMMA PartsStart ==
    OfficeInit => /\ Init /\ RecipeInit /\ OnboardInit /\ DistributeInit /\ BoardInit /\ ViewInit
                  /\ ProposalInit /\ EventInit /\ FixtureInit /\ GateInit /\ DemoInit /\ EmployeeInit
  BY DEF OfficeInit

LEMMA PartsStep ==
    [OfficeNext]_officeVars =>
       /\ [Next]_vars /\ [RecipeNext]_recipeVars /\ [OnboardNext]_onboardVars
       /\ [DistributeNext]_distributeVars /\ [BoardNext]_boardVars /\ [ViewNext]_viewVars
       /\ [ProposalNext]_proposalVars /\ [EventNext]_eventVars /\ [FixtureNext]_fixtureVars
       /\ [GateNext]_gateVars /\ [DemoNext]_demoVars /\ [EmployeeNext]_employeeVars
  <1>1. CASE OfficeNext
    BY <1>1, Zenon DEF OfficeNext, Rests
  <1>2. CASE UNCHANGED officeVars
    BY <1>2, Zenon DEF officeVars
  <1> QED  BY <1>1, <1>2

(* Whatever the composition of the back office does is something that each   *)
(* of its parts can do: it implements the specification of every part.       *)
THEOREM OfficeImplementsItsParts ==
    OfficeSpec => /\ Spec /\ RecipeSpec /\ OnboardSpec /\ DistributeSpec /\ BoardSpec /\ ViewSpec
                  /\ ProposalSpec /\ EventSpec /\ FixtureSpec /\ GateSpec /\ DemoSpec /\ EmployeeSpec
  BY PartsStart, PartsStep, PTL
  DEF OfficeSpec, Spec, RecipeSpec, OnboardSpec, DistributeSpec, BoardSpec, ViewSpec,
      ProposalSpec, EventSpec, FixtureSpec, GateSpec, DemoSpec, EmployeeSpec

(* Every part of the composition keeps its types, for any values of the      *)
(* constants.                                                                *)
THEOREM PartsKeepTheirTypes == OfficeSpec => []PartTypes
  <1>1. BoardInv /\ ViewInv /\ RecordsInv => BoardTypes /\ ViewTypes /\ EmployeeTypes
    BY DEF BoardInv, ViewInv, RecordsInv
  <1>2. /\ TypeOK /\ RecipeTypes /\ OnboardTypes /\ DistributeTypes /\ BoardTypes /\ ViewTypes
        /\ ProposalTypes /\ EventTypes /\ FixtureTypes /\ GateTypes /\ DemoTypes /\ EmployeeTypes
        => PartTypes
    BY DEF PartTypes
  <1> QED
    BY <1>1, <1>2, OfficeImplementsItsParts, TypeCorrect, RecipeTypesHold, OnboardTypesHold,
       DistributeTypesHold, BoardInvariant, ViewInvariant, ProposalTypesHold, EventTypesHold,
       FixtureTypesHold, GateTypesHold, DemoTypesHold, RecordsInvariant, PTL
=============================================================================
