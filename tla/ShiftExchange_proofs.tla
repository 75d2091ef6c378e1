------------------------ MODULE ShiftExchange_proofs ------------------------
(***************************************************************************)
(* Proofs about ShiftExchange for every set of employees, shifts, requests *)
(* and shift types.  Inv is inductive: besides the properties it says what *)
(* a transaction knows of the request row it holds.                        *)
(***************************************************************************)
EXTENDS ShiftExchangeProperties, TLAPS

\* An undecided request names a shift and its requester, as one on its way does;
\* until a colleague accepts it names no volunteer.
RowShape ==
    \A r \in Requests :
       /\ Active(r) \/ ex[r].status = "filing"
             => ex[r].shift \in Shifts /\ ex[r].requester \in Employees
       /\ ex[r].status \in {"filing", "open"} => ex[r].replacement = NoEmployee

\* What holds of request r and the transaction t on it.
Holds(r, t) ==
    /\ t.pc \in {"accepting", "cleared"} => /\ ex[r].status = "open"
                                            /\ ex[r].kind = "exchange"
                                            /\ t.by \in Employees
                                            /\ t.by # ex[r].requester
    /\ t.pc \in {"deciding", "holding", "checked"} => Active(r)
    /\ t.pc = "checked" => /\ ex[r].kind = "exchange" => ex[r].replacement \in Employees
                           /\ ex[r].kind = "change" => ex[r].span \in Spans

TxShape == \A r \in Requests : Holds(r, tx[r])

Inv == /\ TypeOK /\ RowShape /\ TxShape
       /\ OneActivePerShift /\ HeldShiftIsTheirs

(***************************************************************************)
(* Steps that touch none of the three tables.                              *)
(***************************************************************************)
LEMMA InvQuiet ==
    ASSUME Inv, UNCHANGED <<shift, ex, tx>>,
           active' \subseteq Employees, offered' \subseteq Spans,
           now' \in Nat, edits' \in Nat
    PROVE  Inv'
  <1>1. TypeOK'
    BY DEF Inv, TypeOK
  <1>2. RowShape' /\ OneActivePerShift'
    BY DEF Inv, RowShape, OneActivePerShift, Active
  <1>3. TxShape' /\ HeldShiftIsTheirs'
    BY DEF Inv, TxShape, Holds, HeldShiftIsTheirs, Active
  <1> QED  BY <1>1, <1>2, <1>3 DEF Inv

(***************************************************************************)
(* Steps that only move a transaction.                                     *)
(***************************************************************************)
TxStep(r) == \/ \E e \in Employees : AcceptLock(r, e)
             \/ AcceptCheck(r) \/ ApproveLock(r) \/ ApproveLockShift(r)
             \/ ApproveCheck(r) \/ Rollback(r)

LEMMA TxStepEffect ==
    ASSUME Inv, NEW r \in Requests, TxStep(r)
    PROVE  /\ tx' = [tx EXCEPT ![r] = tx'[r]]
           /\ tx'[r] \in Transaction
           /\ UNCHANGED <<shift, ex, active, offered, now, edits>>
           /\ Holds(r, tx'[r])
           /\ tx'[r].pc \in {"holding", "checked"} =>
                 /\ shift[ex[r].shift].published
                 /\ shift[ex[r].shift].owner = ex[r].requester
  <1>1. tx \in [Requests -> Transaction] /\ tx[r] \in Transaction /\ ex[r] \in RequestRow
    BY DEF Inv, TypeOK
  <1>2. Holds(r, tx[r])
    BY DEF Inv, TxShape
  <1>3. ASSUME NEW e \in Employees, AcceptLock(r, e)
        PROVE  /\ tx' = [tx EXCEPT ![r] = tx'[r]] /\ tx'[r] \in Transaction
               /\ UNCHANGED <<shift, ex, active, offered, now, edits>>
               /\ Holds(r, tx'[r]) /\ tx'[r].pc = "accepting"
    <2>1. tx'[r] = [pc |-> "accepting", by |-> e] /\ tx' = [tx EXCEPT ![r] = tx'[r]]
      BY <1>1, <1>3 DEF AcceptLock
    <2> QED  BY <1>3, <2>1 DEF AcceptLock, Transaction, Holds
  <1>4. ASSUME AcceptCheck(r)
        PROVE  /\ tx' = [tx EXCEPT ![r] = tx'[r]] /\ tx'[r] \in Transaction
               /\ UNCHANGED <<shift, ex, active, offered, now, edits>>
               /\ Holds(r, tx'[r]) /\ tx'[r].pc = "cleared"
    <2>1. tx'[r] = [tx[r] EXCEPT !.pc = "cleared"] /\ tx' = [tx EXCEPT ![r] = tx'[r]]
      BY <1>1, <1>4 DEF AcceptCheck
    <2> QED  BY <1>1, <1>2, <1>4, <2>1 DEF AcceptCheck, Transaction, Holds
  <1>5. ASSUME ApproveLock(r)
        PROVE  /\ tx' = [tx EXCEPT ![r] = tx'[r]] /\ tx'[r] \in Transaction
               /\ UNCHANGED <<shift, ex, active, offered, now, edits>>
               /\ Holds(r, tx'[r]) /\ tx'[r].pc = "deciding"
    <2>1. tx'[r] = [pc |-> "deciding", by |-> NoEmployee] /\ tx' = [tx EXCEPT ![r] = tx'[r]]
      BY <1>1, <1>5 DEF ApproveLock
    <2> QED  BY <1>5, <2>1 DEF ApproveLock, Transaction, Holds
  <1>6. ASSUME ApproveLockShift(r)
        PROVE  /\ tx' = [tx EXCEPT ![r] = tx'[r]] /\ tx'[r] \in Transaction
               /\ UNCHANGED <<shift, ex, active, offered, now, edits>>
               /\ Holds(r, tx'[r]) /\ StillTheirs(r)
    <2>1. tx'[r] = [tx[r] EXCEPT !.pc = "holding"] /\ tx' = [tx EXCEPT ![r] = tx'[r]]
      BY <1>1, <1>6 DEF ApproveLockShift
    <2> QED  BY <1>1, <1>2, <1>6, <2>1 DEF ApproveLockShift, Transaction, Holds
  <1>7. ASSUME ApproveCheck(r)
        PROVE  /\ tx' = [tx EXCEPT ![r] = tx'[r]] /\ tx'[r] \in Transaction
               /\ UNCHANGED <<shift, ex, active, offered, now, edits>>
               /\ Holds(r, tx'[r]) /\ tx[r].pc = "holding"
    <2>1. tx'[r] = [tx[r] EXCEPT !.pc = "checked"] /\ tx' = [tx EXCEPT ![r] = tx'[r]]
      BY <1>1, <1>7 DEF ApproveCheck
    <2>2. ex[r].kind = "exchange" => ex[r].replacement \in Employees
      BY <1>1, <1>7 DEF ApproveCheck, HasReplacement, RequestRow
    <2>3. ex[r].kind = "change" => ex[r].span \in Spans
      BY <1>7 DEF ApproveCheck, Inv, TypeOK
    <2> QED  BY <1>1, <1>2, <1>7, <2>1, <2>2, <2>3 DEF ApproveCheck, Transaction, Holds
  <1>8. ASSUME Rollback(r)
        PROVE  /\ tx' = [tx EXCEPT ![r] = tx'[r]] /\ tx'[r] \in Transaction
               /\ UNCHANGED <<shift, ex, active, offered, now, edits>>
               /\ Holds(r, tx'[r]) /\ tx'[r].pc = "idle"
    <2>1. tx'[r] = NoTx /\ tx' = [tx EXCEPT ![r] = tx'[r]]
      BY <1>1, <1>8 DEF Rollback
    <2> QED  BY <1>8, <2>1 DEF Rollback, Transaction, Holds, NoTx
  <1>9. tx[r].pc = "holding" => /\ shift[ex[r].shift].published
                                /\ shift[ex[r].shift].owner = ex[r].requester
    BY DEF Inv, HeldShiftIsTheirs
  <1> QED  BY <1>3, <1>4, <1>5, <1>6, <1>7, <1>8, <1>9 DEF TxStep, StillTheirs

LEMMA InvTx ==
    ASSUME Inv, NEW r \in Requests, TxStep(r)
    PROVE  Inv'
  <1>1. tx \in [Requests -> Transaction]
    BY DEF Inv, TypeOK
  <1>2. /\ tx' = [tx EXCEPT ![r] = tx'[r]] /\ tx'[r] \in Transaction
        /\ UNCHANGED <<shift, ex, active, offered, now, edits>>
        /\ Holds(r, tx'[r])
        /\ tx'[r].pc \in {"holding", "checked"} =>
              /\ shift[ex[r].shift].published
              /\ shift[ex[r].shift].owner = ex[r].requester
    BY TxStepEffect
  <1>3. \A q \in Requests : q # r => tx'[q] = tx[q]
    BY <1>1, <1>2
  <1>4. TypeOK'
    BY <1>1, <1>2 DEF Inv, TypeOK
  <1>5. RowShape' /\ OneActivePerShift'
    BY <1>2 DEF Inv, RowShape, OneActivePerShift, Active
  <1>6. TxShape'
    BY <1>2, <1>3 DEF Inv, TxShape, Holds, Active
  <1>7. HeldShiftIsTheirs'
    BY <1>2, <1>3 DEF Inv, HeldShiftIsTheirs, Holds, Active
  <1> QED  BY <1>4, <1>5, <1>6, <1>7 DEF Inv

(***************************************************************************)
(* Steps that write one request row.                                       *)
(***************************************************************************)
LEMMA FileEffect ==
    ASSUME Inv, NEW r \in Requests, File(r)
    PROVE  /\ ex[r].status \in {"absent", "filing"} /\ tx[r].pc = "idle"
           /\ UNCHANGED <<shift, active, offered, tx, now, edits>>
           /\ \A q \in Requests : q # r => ex'[q] = ex[q]
           /\ ex' = [ex EXCEPT ![r] = ex'[r]]
           /\ ex'[r] \in RequestRow
           /\ ex'[r].status \in {"absent", "filing", "open"}
           /\ ex'[r].status # "absent" => /\ ex'[r].shift \in Shifts
                                         /\ ex'[r].requester \in Employees
                                         /\ ex'[r].replacement = NoEmployee
           /\ ex'[r].status = "open" =>
                 \A q \in Requests : Active(q) => ex[q].shift # ex'[r].shift
  <1>1. ex[r] \in RequestRow /\ ex \in [Requests -> RequestRow]
    BY DEF Inv, TypeOK
  <1>2. ASSUME ex[r].status \in {"absent", "filing"}
        PROVE  tx[r].pc = "idle"
    BY <1>2 DEF Inv, TypeOK, TxShape, Holds, Active, Transaction
  <1>3. ASSUME NEW s \in Shifts, NEW kind \in Kinds, NEW span \in Spans \cup {NoSpan},
               FileCheck(r, s, kind, span)
        PROVE  /\ ex[r].status = "absent"
               /\ UNCHANGED <<shift, active, offered, tx, now, edits>>
               /\ ex' = [ex EXCEPT ![r] = ex'[r]]
               /\ ex'[r] \in RequestRow /\ ex'[r].status = "filing"
               /\ ex'[r].shift \in Shifts /\ ex'[r].requester \in Employees
               /\ ex'[r].replacement = NoEmployee
    <2>1. shift[s].owner \in Employees
      BY <1>3 DEF Inv, TypeOK, FileCheck
    <2>2. /\ ex'[r] = [status |-> "filing", kind |-> kind, shift |-> s,
                       requester |-> shift[s].owner, replacement |-> NoEmployee,
                       span |-> span]
          /\ ex' = [ex EXCEPT ![r] = ex'[r]]
      BY <1>1, <1>3 DEF FileCheck
    <2> QED  BY <1>3, <2>1, <2>2 DEF FileCheck, RequestRow
  <1>4. ASSUME FileInsert(r)
        PROVE  /\ ex[r].status = "filing"
               /\ UNCHANGED <<shift, active, offered, tx, now, edits>>
               /\ ex' = [ex EXCEPT ![r] = ex'[r]]
               /\ ex'[r] \in RequestRow /\ ex'[r].status = "open"
               /\ ex'[r].shift = ex[r].shift /\ ex'[r].requester = ex[r].requester
               /\ ex'[r].replacement = ex[r].replacement
               /\ \A q \in Requests : Active(q) => ex[q].shift # ex[r].shift
    <2>1. ex'[r] = [ex[r] EXCEPT !.status = "open"] /\ ex' = [ex EXCEPT ![r] = ex'[r]]
      BY <1>1, <1>4 DEF FileInsert
    <2> QED  BY <1>1, <1>4, <2>1 DEF FileInsert, NoneActive, RequestRow
  <1>5. ASSUME FileFails(r)
        PROVE  /\ ex[r].status = "filing"
               /\ UNCHANGED <<shift, active, offered, tx, now, edits>>
               /\ ex' = [ex EXCEPT ![r] = ex'[r]]
               /\ ex'[r] \in RequestRow /\ ex'[r].status = "absent"
    <2>1. ex'[r] = NoRequest /\ ex' = [ex EXCEPT ![r] = ex'[r]]
      BY <1>1, <1>5 DEF FileFails
    <2> QED  BY <1>5, <2>1 DEF FileFails, NoRequest, RequestRow, Kinds
  <1>6. ex[r].status = "filing" => /\ ex[r].shift \in Shifts
                                   /\ ex[r].requester \in Employees
                                   /\ ex[r].replacement = NoEmployee
    BY DEF Inv, RowShape
  <1>7. ASSUME ex' = [ex EXCEPT ![r] = ex'[r]]
        PROVE  \A q \in Requests : q # r => ex'[q] = ex[q]
    BY <1>1, <1>7
  <1>8. CASE \E s \in Shifts, kind \in Kinds, span \in Spans \cup {NoSpan} :
                FileCheck(r, s, kind, span)
    BY <1>2, <1>3, <1>7, <1>8
  <1>9. CASE FileInsert(r)
    BY <1>2, <1>4, <1>6, <1>7, <1>9
  <1>10. CASE FileFails(r)
    BY <1>2, <1>5, <1>7, <1>10
  <1> QED  BY <1>8, <1>9, <1>10 DEF File

LEMMA InvFile ==
    ASSUME Inv, NEW r \in Requests, File(r)
    PROVE  Inv'
  <1>1. TypeOK'
    BY FileEffect DEF Inv, TypeOK
  <1>2. RowShape'
    BY FileEffect DEF Inv, RowShape, Active
  <1>3. TxShape'
    BY FileEffect DEF Inv, TxShape, Holds, Active
  <1>4. OneActivePerShift'
    BY FileEffect DEF Inv, OneActivePerShift, Active
  <1>5. HeldShiftIsTheirs'
    BY FileEffect DEF Inv, HeldShiftIsTheirs, Active
  <1> QED  BY <1>1, <1>2, <1>3, <1>4, <1>5 DEF Inv

LEMMA InvClose ==
    ASSUME Inv, NEW r \in Requests, Cancel(r) \/ Reject(r)
    PROVE  Inv'
  <1>1. /\ tx[r].pc = "idle"
        /\ UNCHANGED <<shift, active, offered, tx, now, edits>>
    BY DEF Cancel, Reject, RowFree
  <1>2. /\ ex'[r] \in RequestRow /\ ex'[r].status \in {"cancelled", "rejected"}
        /\ \A q \in Requests : q # r => ex'[q] = ex[q]
        /\ ex' = [ex EXCEPT ![r] = ex'[r]]
    BY DEF Inv, TypeOK, Cancel, Reject, RequestRow
  <1>3. TypeOK'
    BY <1>1, <1>2 DEF Inv, TypeOK
  <1>4. RowShape'
    BY <1>1, <1>2 DEF Inv, RowShape, Active
  <1>5. TxShape'
    BY <1>1, <1>2 DEF Inv, TxShape, Holds, Active
  <1>6. OneActivePerShift'
    BY <1>1, <1>2 DEF Inv, OneActivePerShift, Active
  <1>7. HeldShiftIsTheirs'
    BY <1>1, <1>2 DEF Inv, HeldShiftIsTheirs, Active
  <1> QED  BY <1>3, <1>4, <1>5, <1>6, <1>7 DEF Inv

LEMMA AcceptEffect ==
    ASSUME Inv, NEW r \in Requests, AcceptCommit(r)
    PROVE  /\ ex[r].status = "open" /\ ex[r].kind = "exchange"
           /\ ex[r].replacement = NoEmployee
           /\ tx[r].by \in Employees /\ tx[r].by # ex[r].requester
           /\ ex'[r] = [ex[r] EXCEPT !.status = "accepted", !.replacement = tx[r].by]
           /\ ex'[r] \in RequestRow
           /\ \A q \in Requests : q # r => ex'[q] = ex[q]
           /\ ex' = [ex EXCEPT ![r] = ex'[r]]
           /\ tx'[r] = NoTx /\ \A q \in Requests : q # r => tx'[q] = tx[q]
           /\ UNCHANGED <<shift, active, offered, now, edits>>
  <1>1. /\ ex[r].status = "open" /\ ex[r].kind = "exchange"
        /\ tx[r].by \in Employees /\ tx[r].by # ex[r].requester
    BY DEF Inv, TxShape, Holds, AcceptCommit
  <1>2. ex[r].replacement = NoEmployee
    BY <1>1 DEF Inv, RowShape
  <1>3. ex[r] \in RequestRow
    BY DEF Inv, TypeOK
  <1>4. /\ ex'[r] = [ex[r] EXCEPT !.status = "accepted", !.replacement = tx[r].by]
        /\ \A q \in Requests : q # r => ex'[q] = ex[q]
        /\ ex' = [ex EXCEPT ![r] = ex'[r]]
        /\ tx'[r] = NoTx /\ \A q \in Requests : q # r => tx'[q] = tx[q]
        /\ UNCHANGED <<shift, active, offered, now, edits>>
    BY DEF Inv, TypeOK, AcceptCommit
  <1>5. ex'[r] \in RequestRow
    BY <1>1, <1>3, <1>4 DEF RequestRow
  <1> QED  BY <1>1, <1>2, <1>4, <1>5

LEMMA InvAccept ==
    ASSUME Inv, NEW r \in Requests, AcceptCommit(r)
    PROVE  Inv'
  <1>1. NoTx \in Transaction /\ NoTx.pc = "idle"
    BY DEF NoTx, Transaction
  <1>2. /\ ex'[r].status = "accepted" /\ ex'[r].kind = ex[r].kind
        /\ ex'[r].shift = ex[r].shift /\ ex'[r].requester = ex[r].requester
        /\ ex[r].status = "open"
        /\ \A q \in Requests : q # r => ex'[q] = ex[q]
        /\ tx'[r] = NoTx /\ \A q \in Requests : q # r => tx'[q] = tx[q]
        /\ UNCHANGED <<shift, active, offered, now, edits>>
    <2>1. ex[r] \in RequestRow
      BY DEF Inv, TypeOK
    <2>2. /\ ex'[r].status = "accepted" /\ ex'[r].kind = ex[r].kind
          /\ ex'[r].shift = ex[r].shift /\ ex'[r].requester = ex[r].requester
      <3>1. ex'[r] = [ex[r] EXCEPT !.status = "accepted", !.replacement = tx[r].by]
        BY AcceptEffect
      <3> QED  BY <2>1, <3>1 DEF RequestRow
    <2> QED  BY <2>2, AcceptEffect
  <1>3. TypeOK'
    BY AcceptEffect, <1>1 DEF Inv, TypeOK, AcceptCommit
  <1>4. RowShape'
    BY <1>2 DEF Inv, RowShape, Active
  <1>5. TxShape'
    BY <1>1, <1>2 DEF Inv, TxShape, Holds, Active
  <1>6. OneActivePerShift'
    BY <1>2 DEF Inv, OneActivePerShift, Active
  <1>7. HeldShiftIsTheirs'
    BY <1>1, <1>2 DEF Inv, HeldShiftIsTheirs, Active
  <1> QED  BY <1>3, <1>4, <1>5, <1>6, <1>7 DEF Inv

\* What an approval writes, for the lemmas that follow.
LEMMA ApproveEffect ==
    ASSUME Inv, NEW r \in Requests, ApproveCommit(r)
    PROVE  /\ Active(r) /\ ex[r].shift \in Shifts
           /\ shift[ex[r].shift].published
           /\ shift[ex[r].shift].owner = ex[r].requester
           /\ ex[r].kind = "exchange" => ex[r].replacement \in Employees
           /\ Decided(r) \in ShiftRow
           /\ shift' = [shift EXCEPT ![ex[r].shift] = Decided(r)]
           /\ ex'[r] \in RequestRow /\ ex'[r].status = "approved"
           /\ \A q \in Requests : q # r => ex'[q] = ex[q]
           /\ ex' = [ex EXCEPT ![r] = ex'[r]]
           /\ tx'[r] = NoTx /\ \A q \in Requests : q # r => tx'[q] = tx[q]
           /\ UNCHANGED <<active, offered, now, edits>>
  <1>1. /\ Active(r)
        /\ ex[r].kind = "exchange" => ex[r].replacement \in Employees
        /\ ex[r].kind = "change" => ex[r].span \in Spans
    BY DEF Inv, TxShape, Holds, ApproveCommit
  <1>2. ex[r].shift \in Shifts /\ ex[r] \in RequestRow
    BY <1>1 DEF Inv, TypeOK, RowShape
  <1>3. shift[ex[r].shift].published /\ shift[ex[r].shift].owner = ex[r].requester
    BY DEF Inv, HeldShiftIsTheirs, ApproveCommit
  <1>4. Decided(r) \in ShiftRow
    <2>1. shift[ex[r].shift] \in ShiftRow
      BY <1>2 DEF Inv, TypeOK
    <2>2. ex[r].kind \in {"exchange", "cancel", "change"}
      BY <1>2 DEF RequestRow, Kinds
    <2>3. CASE ex[r].kind = "exchange"
      <3>1. Decided(r) = [shift[ex[r].shift] EXCEPT !.owner = ex[r].replacement]
        BY <2>3 DEF Decided
      <3> QED  BY <1>1, <2>1, <2>3, <3>1 DEF ShiftRow
    <2>4. CASE ex[r].kind = "cancel"
      <3>1. Decided(r) = [shift[ex[r].shift] EXCEPT !.owner = NoEmployee]
        BY <2>4 DEF Decided
      <3> QED  BY <2>1, <3>1 DEF ShiftRow
    <2>5. CASE ex[r].kind = "change"
      <3>1. Decided(r) = [shift[ex[r].shift] EXCEPT !.span = ex[r].span]
        BY <2>5 DEF Decided
      <3> QED  BY <1>1, <2>1, <2>5, <3>1 DEF ShiftRow
    <2> QED  BY <2>2, <2>3, <2>4, <2>5
  <1>5. /\ shift' = [shift EXCEPT ![ex[r].shift] = Decided(r)]
        /\ ex'[r] = [ex[r] EXCEPT !.status = "approved"]
        /\ \A q \in Requests : q # r => ex'[q] = ex[q]
        /\ ex' = [ex EXCEPT ![r] = ex'[r]]
        /\ tx'[r] = NoTx /\ \A q \in Requests : q # r => tx'[q] = tx[q]
        /\ UNCHANGED <<active, offered, now, edits>>
    BY DEF Inv, TypeOK, ApproveCommit
  <1>6. ex'[r] \in RequestRow /\ ex'[r].status = "approved"
    BY <1>2, <1>5 DEF RequestRow
  <1> QED  BY <1>1, <1>2, <1>3, <1>4, <1>5, <1>6

LEMMA InvApprove ==
    ASSUME Inv, NEW r \in Requests, ApproveCommit(r)
    PROVE  Inv'
  <1>1. NoTx \in Transaction /\ NoTx.pc = "idle"
    BY DEF NoTx, Transaction
  <1>2. /\ Active(r) /\ ex[r].shift \in Shifts
        /\ ex'[r].status = "approved"
        /\ \A q \in Requests : q # r => ex'[q] = ex[q]
        /\ tx'[r] = NoTx /\ \A q \in Requests : q # r => tx'[q] = tx[q]
    BY ApproveEffect
  <1>3. \A s \in Shifts : s # ex[r].shift => shift'[s] = shift[s]
    BY ApproveEffect DEF Inv, TypeOK
  <1>4. TypeOK'
    <2>1. shift' \in [Shifts -> ShiftRow] /\ ex' \in [Requests -> RequestRow]
      BY ApproveEffect DEF Inv, TypeOK
    <2>2. tx' \in [Requests -> Transaction]
      BY <1>1 DEF Inv, TypeOK, ApproveCommit
    <2> QED  BY <2>1, <2>2, ApproveEffect DEF Inv, TypeOK
  <1>5. RowShape'
    BY <1>2 DEF Inv, RowShape, Active
  <1>6. TxShape'
    BY <1>1, <1>2 DEF Inv, TxShape, Holds, Active
  <1>7. OneActivePerShift'
    BY <1>2 DEF Inv, OneActivePerShift, Active
  <1>8. HeldShiftIsTheirs'
    <2> SUFFICES ASSUME NEW q \in Requests, tx'[q].pc \in {"holding", "checked"}
                 PROVE  /\ Active(q)' /\ shift'[ex'[q].shift].published
                        /\ shift'[ex'[q].shift].owner = ex'[q].requester
      BY DEF HeldShiftIsTheirs
    <2>1. q # r /\ ex'[q] = ex[q] /\ tx'[q] = tx[q]
      BY <1>1, <1>2
    <2>2. /\ Active(q) /\ shift[ex[q].shift].published
          /\ shift[ex[q].shift].owner = ex[q].requester
      BY <2>1 DEF Inv, HeldShiftIsTheirs
    <2>3. ex[q].shift \in Shifts /\ ex[q].shift # ex[r].shift
      BY <1>2, <2>1, <2>2 DEF Inv, OneActivePerShift, RowShape
    <2> QED  BY <1>3, <2>1, <2>2, <2>3 DEF Active
  <1> QED  BY <1>4, <1>5, <1>6, <1>7, <1>8 DEF Inv

(***************************************************************************)
(* The managers' planning.                                                 *)
(***************************************************************************)
LEMMA InvRoster ==
    ASSUME Inv, UNCHANGED <<ex, active, offered, tx, now>>, edits' \in Nat,
           shift' \in [Shifts -> ShiftRow],
           \A r \in Requests : tx[r].pc \in {"holding", "checked"} =>
              /\ shift'[ex[r].shift].published
              /\ shift'[ex[r].shift].owner = ex[r].requester
    PROVE  Inv'
  <1>1. TypeOK'
    BY DEF Inv, TypeOK
  <1>2. RowShape' /\ OneActivePerShift' /\ TxShape'
    BY DEF Inv, RowShape, OneActivePerShift, TxShape, Holds, Active
  <1>3. HeldShiftIsTheirs'
    BY DEF Inv, HeldShiftIsTheirs, Active
  <1> QED  BY <1>1, <1>2, <1>3 DEF Inv

LEMMA InvPlan ==
    ASSUME Inv, NEW s \in Shifts, Plan(s)
    PROVE  Inv'
  <1>1. PICK e \in Employees \cup {NoEmployee}, p \in BOOLEAN, span \in Spans :
           AssignShift(s, e, p, span)
    BY DEF Plan
  <1>2. shift' \in [Shifts -> ShiftRow] /\ \A c \in Shifts : c # s => shift'[c] = shift[c]
    BY <1>1 DEF Inv, TypeOK, AssignShift, ShiftRow
  <1>3. ASSUME NEW r \in Requests, tx[r].pc \in {"holding", "checked"}
        PROVE  /\ shift'[ex[r].shift].published
               /\ shift'[ex[r].shift].owner = ex[r].requester
    <2>1. ex[r].shift \in Shifts /\ ex[r].shift # s
      BY <1>1, <1>3 DEF Inv, RowShape, HeldShiftIsTheirs, AssignShift, ShiftFree
    <2> QED  BY <1>2, <1>3, <2>1 DEF Inv, HeldShiftIsTheirs
  <1>4. edits' \in Nat /\ UNCHANGED <<ex, active, offered, tx, now>>
    BY <1>1 DEF Inv, TypeOK, AssignShift
  <1> QED  BY <1>2, <1>3, <1>4, InvRoster

LEMMA InvPublish ==
    ASSUME Inv, PublishSchedule
    PROVE  Inv'
  <1>1. \A s \in Shifts : /\ shift'[s] \in ShiftRow /\ shift'[s].published
                          /\ shift'[s].owner = shift[s].owner
    BY DEF Inv, TypeOK, PublishSchedule, ShiftRow
  <1>2. shift' \in [Shifts -> ShiftRow]
    BY <1>1 DEF PublishSchedule
  <1>3. ASSUME NEW r \in Requests, tx[r].pc \in {"holding", "checked"}
        PROVE  /\ shift'[ex[r].shift].published
               /\ shift'[ex[r].shift].owner = ex[r].requester
    BY <1>1, <1>3 DEF Inv, RowShape, HeldShiftIsTheirs
  <1>4. edits' \in Nat /\ UNCHANGED <<ex, active, offered, tx, now>>
    BY DEF Inv, TypeOK, PublishSchedule
  <1> QED  BY <1>2, <1>3, <1>4, InvRoster

LEMMA InvNext ==
    ASSUME Inv, [Next]_vars
    PROVE  Inv'
  <1>1. ASSUME UNCHANGED vars
        PROVE  Inv'
    BY <1>1, InvQuiet DEF vars, Inv, TypeOK
  <1>2. ASSUME \/ \E e \in Employees : SetEmployeeActive(e)
               \/ \E t \in Spans : SetShiftTypeActive(t)
               \/ Tick
        PROVE  Inv'
    BY <1>2, InvQuiet DEF SetEmployeeActive, SetShiftTypeActive, Tick, Inv, TypeOK
  <1>3. ASSUME NEW r \in Requests, File(r)
        PROVE  Inv'
    BY <1>3, InvFile
  <1>4. ASSUME NEW r \in Requests,
               \/ Cancel(r) \/ Reject(r) \/ AcceptCommit(r) \/ ApproveCommit(r)
        PROVE  Inv'
    BY <1>4, InvClose, InvAccept, InvApprove
  <1>5. ASSUME NEW r \in Requests, TxStep(r)
        PROVE  Inv'
    BY <1>5, InvTx
  <1>6. ASSUME PublishSchedule \/ \E s \in Shifts : Plan(s)
        PROVE  Inv'
    BY <1>6, InvPublish, InvPlan
  <1> QED  BY <1>1, <1>2, <1>3, <1>4, <1>5, <1>6 DEF Next, TxStep

LEMMA InvInit == Init => Inv
  <1> SUFFICES ASSUME Init PROVE Inv
    OBVIOUS
  <1>1. NoTx \in Transaction /\ NoTx.pc = "idle"
    BY DEF NoTx, Transaction
  <1>2. \A r \in Requests : ex[r].status = "absent" /\ tx[r] = NoTx
    BY DEF Init, NoRequest
  <1>3. ex \in [Requests -> RequestRow]
    BY DEF Init, NoRequest, RequestRow, Kinds
  <1>4. TypeOK
    BY <1>1, <1>3 DEF Init, TypeOK
  <1>5. RowShape /\ OneActivePerShift
    BY <1>2 DEF RowShape, OneActivePerShift, Active
  <1>6. TxShape /\ HeldShiftIsTheirs
    BY <1>1, <1>2 DEF TxShape, Holds, HeldShiftIsTheirs
  <1> QED  BY <1>4, <1>5, <1>6 DEF Inv

LEMMA InvHolds == Spec => []Inv
  <1>1. Inv /\ [Next]_vars => Inv'  BY InvNext
  <1> QED  BY InvInit, <1>1, PTL DEF Spec

\* Every reachable state is well typed.
THEOREM TypeCorrect == Spec => []TypeOK
  <1>1. Inv => TypeOK  BY DEF Inv
  <1> QED  BY InvHolds, <1>1, PTL

\* However many requests are filed at once, a shift carries one undecided request.
THEOREM UniqueActive == Spec => []OneActivePerShift
  <1>1. Inv => OneActivePerShift  BY DEF Inv
  <1> QED  BY InvHolds, <1>1, PTL

\* What an approval has checked about its shift still holds when it commits.
THEOREM HeldShiftsStable == Spec => []HeldShiftIsTheirs
  <1>1. Inv => HeldShiftIsTheirs  BY DEF Inv
  <1> QED  BY InvHolds, <1>1, PTL

\* Two decisions never wait for each other's shift, so they cannot deadlock.
THEOREM DecisionsNeverWait == Spec => []ApprovalNeverWaits
  <1>1. ASSUME Inv
        PROVE  ApprovalNeverWaits
    <2>1. ASSUME NEW r \in Requests, tx[r].pc = "deciding",
                 NEW q \in Requests, tx[q].pc \in {"holding", "checked"},
                 ex[q].shift = ex[r].shift
          PROVE  FALSE
      <3>1. Active(r) /\ Active(q)
        BY <1>1, <2>1 DEF Inv, TxShape, Holds
      <3>2. q = r
        BY <1>1, <2>1, <3>1 DEF Inv, OneActivePerShift
      <3> QED  BY <2>1, <3>2
    <2> QED  BY <2>1 DEF ApprovalNeverWaits, ShiftFree
  <1> QED  BY InvHolds, <1>1, PTL

(***************************************************************************)
(* Decided and withdrawn requests are never written again.                 *)
(***************************************************************************)
LEMMA ClosedStep ==
    ASSUME Inv, [Next]_vars, NEW r \in Requests,
           ex[r].status \in {"approved", "rejected", "cancelled"}
    PROVE  ex'[r] = ex[r]
  <1>1. ~Active(r)
    BY DEF Active
  <1>2. ASSUME NEW q \in Requests, File(q)
        PROVE  ex'[r] = ex[r]
    BY <1>2, FileEffect
  <1>3. ASSUME NEW q \in Requests, Cancel(q) \/ Reject(q)
        PROVE  ex'[r] = ex[r]
    BY <1>1, <1>3 DEF Cancel, Reject, Inv, TypeOK
  <1>4. ASSUME NEW q \in Requests, AcceptCommit(q)
        PROVE  ex'[r] = ex[r]
    BY <1>4, AcceptEffect
  <1>5. ASSUME NEW q \in Requests, ApproveCommit(q)
        PROVE  ex'[r] = ex[r]
    BY <1>1, <1>5, ApproveEffect
  <1>6. ASSUME NEW q \in Requests, TxStep(q)
        PROVE  ex'[r] = ex[r]
    BY <1>6, TxStepEffect
  <1> QED
    BY <1>2, <1>3, <1>4, <1>5, <1>6
       DEF Next, TxStep, vars, Plan, AssignShift, PublishSchedule,
           SetEmployeeActive, SetShiftTypeActive, Tick

\* A late decision, acceptance or withdrawal does not touch a closed request.
THEOREM ClosedRequestsStick == Spec => FinalStatesStick
  <1>1. Inv /\ [Next]_vars =>
          [\A r \in Requests : ex[r].status \in {"approved", "rejected", "cancelled"}
              => ex'[r] = ex[r]]_vars
    BY ClosedStep
  <1> QED  BY InvHolds, <1>1, PTL DEF Spec, FinalStatesStick

(***************************************************************************)
(* The request about a shift, as ShiftHandover sees it.                    *)
(***************************************************************************)
LEMMA AskUnique ==
    ASSUME NEW rows, NEW r \in Requests, NEW s, Asks(rows, r, s),
           \A q \in Requests : q # r => ~Asks(rows, q, s)
    PROVE  AskIn(rows, s) = AskOf(rows[r])
  <1>1. (CHOOSE q \in Requests : Asks(rows, q, s)) = r
    OBVIOUS
  <1> QED  BY <1>1 DEF AskIn

LEMMA AskNone ==
    ASSUME NEW rows, NEW s, \A q \in Requests : ~Asks(rows, q, s)
    PROVE  AskIn(rows, s) = NoAsk
  BY DEF AskIn

LEMMA OneAsk ==
    ASSUME Inv, NEW s, NEW q \in Requests, NEW r \in Requests,
           Asks(ex, q, s), Asks(ex, r, s)
    PROVE  q = r
  BY DEF Inv, OneActivePerShift, Active, Asks

\* A step that writes only row r moves no request but that about the row's shift.
LEMMA OtherAsks ==
    ASSUME Inv, NEW r \in Requests, NEW s,
           \A q \in Requests : q # r => ex'[q] = ex[q],
           ~Asks(ex, r, s), ~Asks(ex', r, s)
    PROVE  AskIn(ex', s) = AskIn(ex, s)
  <1>1. \A q \in Requests : Asks(ex', q, s) <=> Asks(ex, q, s)
    BY DEF Asks
  <1>2. CASE \E q \in Requests : Asks(ex, q, s)
    <2>1. PICK q \in Requests : Asks(ex, q, s)
      BY <1>2
    <2>2. AskIn(ex, s) = AskOf(ex[q])
      BY <2>1, OneAsk, AskUnique
    <2>3. \A p \in Requests : p # q => ~Asks(ex', p, s)
      BY <1>1, <2>1, OneAsk
    <2>4. AskIn(ex', s) = AskOf(ex'[q])
      BY <1>1, <2>1, <2>3, AskUnique
    <2>5. ex'[q] = ex[q]
      BY <2>1
    <2> QED  BY <2>2, <2>4, <2>5
  <1>3. CASE ~\E q \in Requests : Asks(ex, q, s)
    BY <1>1, <1>3, AskNone
  <1> QED  BY <1>2, <1>3

Asked == [s \in Shifts |-> AskIn(ex, s)]

LEMMA AskedEffect ==
    ASSUME NEW s \in Shifts, NEW a, AskIn(ex', s) = a,
           \A c \in Shifts : c # s => AskIn(ex', c) = AskIn(ex, c)
    PROVE  Asked' = [Asked EXCEPT ![s] = a]
  BY DEF Asked

Intents == IntentsIn(ex)

\* A step on a row that is not on its way, before or after, leaves the intents alone.
LEMMA IntentsKept ==
    ASSUME NEW r \in Requests, ex[r].status # "filing", ex'[r].status # "filing",
           \A q \in Requests : q # r => ex'[q] = ex[q]
    PROVE  Intents' = Intents
  <1>1. \A q \in Requests : ex[q].status = "filing" \/ ex'[q].status = "filing"
                             => ex'[q] = ex[q]
    OBVIOUS
  <1> QED  BY <1>1 DEF Intents, IntentsIn

LEMMA MapKept ==
    ASSUME UNCHANGED ex
    PROVE  Handover!HNext
  <1>1. Asked' = Asked /\ Intents' = Intents
    BY DEF Asked, Intents
  <1> QED  BY <1>1 DEF Handover!HNext, Handover!Plan, Asked, Intents

\* A request on its way is no request yet.
LEMMA FilingAsksNothing ==
    ASSUME Inv, NEW r \in Requests, ~Active(r), ex'[r].status \notin {"open", "accepted"},
           \A q \in Requests : q # r => ex'[q] = ex[q]
    PROVE  Asked' = Asked
  <1>1. \A s \in Shifts : AskIn(ex', s) = AskIn(ex, s)
    BY OtherAsks DEF Asks, Active
  <1> QED  BY <1>1 DEF Asked

LEMMA MapIntend ==
    ASSUME Inv, NEW r \in Requests, NEW s \in Shifts, NEW kind \in Kinds,
           NEW span \in Spans \cup {NoSpan}, FileCheck(r, s, kind, span)
    PROVE  Handover!HNext
  <1> DEFINE i == [shift |-> s, kind |-> kind, requester |-> shift[s].owner, span |-> span]
  <1>1. /\ ex'[r] = [status |-> "filing", kind |-> kind, shift |-> s,
                     requester |-> shift[s].owner, replacement |-> NoEmployee,
                     span |-> span]
        /\ \A q \in Requests : q # r => ex'[q] = ex[q]
        /\ ex[r].status = "absent"
        /\ UNCHANGED shift
    BY DEF Inv, TypeOK, FileCheck
  <1>2. UNCHANGED Asked
    BY <1>1, FilingAsksNothing DEF Active
  <1>3. IntentOf(ex'[r]) = i
    BY <1>1 DEF IntentOf
  <1> HIDE DEF i
  <1>4. Intents' = Intents \cup {i}
    <2>1. {q \in Requests : ex'[q].status = "filing"}
             = {q \in Requests : ex[q].status = "filing"} \cup {r}
      BY <1>1
    <2>2. \A q \in Requests : ex[q].status = "filing" => ex'[q] = ex[q]
      BY <1>1
    <2> QED  BY <1>3, <2>1, <2>2 DEF Intents, IntentsIn
  <1>5. shift[s].published /\ shift[s].owner \in Employees
    BY DEF Inv, TypeOK, FileCheck
  <1>6. Handover!Intend(s, kind, span)
    BY <1>1, <1>2, <1>4, <1>5 DEF Handover!Intend, Asked, Intents, i
  <1> QED  BY <1>6 DEF Handover!HNext, Kinds

LEMMA MapForget ==
    ASSUME Inv, NEW r \in Requests, FileFails(r)
    PROVE  Handover!HNext
  <1>1. /\ ex[r].status = "filing" /\ ex'[r].status = "absent"
        /\ \A q \in Requests : q # r => ex'[q] = ex[q]
        /\ UNCHANGED shift
    BY DEF Inv, TypeOK, FileFails, NoRequest
  <1>2. UNCHANGED Asked
    BY <1>1, FilingAsksNothing DEF Active
  <1>3. Intents' \subseteq Intents
    BY <1>1 DEF Intents, IntentsIn
  <1>4. Handover!Forget
    BY <1>1, <1>2, <1>3 DEF Handover!Forget, Asked, Intents
  <1> QED  BY <1>4 DEF Handover!HNext

LEMMA MapAsk ==
    ASSUME Inv, NEW r \in Requests, FileInsert(r)
    PROVE  Handover!HNext
  <1> DEFINE i == IntentOf(ex[r])
             s == ex[r].shift
  <1>1. /\ ex[r].status = "filing" /\ ex[r] \in RequestRow
        /\ ex'[r] = [ex[r] EXCEPT !.status = "open"]
        /\ \A q \in Requests : q # r => ex'[q] = ex[q]
        /\ UNCHANGED shift
    BY DEF Inv, TypeOK, FileInsert
  <1>2. /\ ex'[r].status = "open" /\ ex'[r].shift = s /\ ex'[r].kind = ex[r].kind
        /\ ex'[r].requester = ex[r].requester /\ ex'[r].replacement = NoEmployee
        /\ ex'[r].span = ex[r].span
        /\ s \in Shifts
    BY <1>1 DEF RequestRow, Inv, RowShape
  <1>3. \A q \in Requests : ~Asks(ex, q, s)
    BY DEF FileInsert, NoneActive, Active, Asks
  <1>4. Asked[s] = NoAsk
    BY <1>2, <1>3, AskNone DEF Asked
  <1>5. AskIn(ex', s) = AskOf(ex'[r])
    <2>1. Asks(ex', r, s)
      BY <1>2 DEF Asks
    <2>2. \A q \in Requests : q # r => ~Asks(ex', q, s)
      BY <1>1, <1>3 DEF Asks
    <2> QED  BY <2>1, <2>2, AskUnique
  <1>6. \A c \in Shifts : c # s => AskIn(ex', c) = AskIn(ex, c)
    BY <1>1, <1>2, OtherAsks DEF Asks
  <1>7. AskOf(ex'[r]) = [kind |-> i.kind, requester |-> i.requester,
                         volunteer |-> NoEmployee, span |-> i.span]
    BY <1>2 DEF AskOf, IntentOf
  <1>8. i \in Intents /\ Intents' \subseteq Intents /\ i.shift = s
    <2>1. r \in {q \in Requests : ex[q].status = "filing"}
      BY <1>1
    <2>2. {q \in Requests : ex'[q].status = "filing"}
             \subseteq {q \in Requests : ex[q].status = "filing"}
      BY <1>1, <1>2
    <2>3. \A q \in Requests : ex'[q].status = "filing" => ex'[q] = ex[q]
      BY <1>1, <1>2
    <2>4. i \in Intents
      BY <2>1 DEF Intents, IntentsIn
    <2>5. Intents' \subseteq Intents
      BY <2>2, <2>3 DEF Intents, IntentsIn
    <2>6. i.shift = s
      BY DEF IntentOf
    <2> QED  BY <2>4, <2>5, <2>6
  <1> HIDE DEF i, s
  <1>9. Asked' = [Asked EXCEPT ![s] = [kind |-> i.kind, requester |-> i.requester,
                                       volunteer |-> NoEmployee, span |-> i.span]]
    BY <1>2, <1>5, <1>6, <1>7, AskedEffect
  <1>10. Handover!Ask(i)
    BY <1>1, <1>4, <1>8, <1>9 DEF Handover!Ask, NoAsk, Asked, Intents
  <1> QED  BY <1>8, <1>10 DEF Handover!HNext, Intents

LEMMA MapVolunteer ==
    ASSUME Inv, NEW r \in Requests, AcceptCommit(r)
    PROVE  Handover!HNext
  <1> DEFINE s == ex[r].shift
             e == tx[r].by
  <1>1. /\ ex[r].status = "open" /\ ex[r].kind = "exchange"
        /\ ex[r].replacement = NoEmployee
        /\ e \in Employees /\ e # ex[r].requester
        /\ ex'[r] = [ex[r] EXCEPT !.status = "accepted", !.replacement = e]
        /\ \A q \in Requests : q # r => ex'[q] = ex[q]
        /\ UNCHANGED shift
    BY AcceptEffect
  <1>2. s \in Shifts /\ ex[r] \in RequestRow
    BY <1>1 DEF Inv, TypeOK, RowShape, Active
  <1>3. /\ ex'[r].status = "accepted" /\ ex'[r].shift = s /\ ex'[r].kind = "exchange"
        /\ ex'[r].requester = ex[r].requester /\ ex'[r].replacement = e
        /\ ex'[r].span = ex[r].span
    BY <1>1, <1>2 DEF RequestRow
  <1>4. Asks(ex, r, s) /\ Asks(ex', r, s)
    BY <1>1, <1>3 DEF Asks
  <1>5. Asked[s] = AskOf(ex[r])
    <2>1. \A q \in Requests : q # r => ~Asks(ex, q, s)
      BY <1>4, OneAsk
    <2> QED  BY <1>2, <1>4, <2>1, AskUnique DEF Asked
  <1>6. AskIn(ex', s) = AskOf(ex'[r])
    <2>1. \A q \in Requests : q # r => ~Asks(ex', q, s)
      BY <1>1, <1>4, OneAsk DEF Asks
    <2> QED  BY <1>4, <2>1, AskUnique
  <1>7. \A c \in Shifts : c # s => AskIn(ex', c) = AskIn(ex, c)
    BY <1>1, <1>3, OtherAsks DEF Asks
  <1>8. AskOf(ex'[r]) = [AskOf(ex[r]) EXCEPT !.volunteer = e]
    BY <1>3, <1>1 DEF AskOf
  <1> HIDE DEF s
  <1>9. Asked' = [Asked EXCEPT ![s] = [Asked[s] EXCEPT !.volunteer = e]]
    BY <1>2, <1>5, <1>6, <1>7, <1>8, AskedEffect
  <1>10. /\ Asked[s].kind = "exchange" /\ Asked[s].volunteer = NoEmployee
         /\ e # Asked[s].requester
    BY <1>1, <1>5 DEF AskOf
  <1>11. Intents' = Intents
    BY <1>1, <1>3, IntentsKept
  <1>12. Handover!Volunteer(s, e)
    BY <1>1, <1>2, <1>9, <1>10, <1>11 DEF Handover!Volunteer, Asked, Intents
  <1> HIDE DEF e
  <1> QED  BY <1>1, <1>2, <1>12 DEF Handover!HNext

\* A row that leaves the undecided states takes its shift's request with it.
LEMMA CloseEffect ==
    ASSUME Inv, NEW r \in Requests, Active(r),
           ex'[r].status \notin {"filing", "open", "accepted"},
           \A q \in Requests : q # r => ex'[q] = ex[q]
    PROVE  /\ ex[r].shift \in Shifts
           /\ Asked[ex[r].shift] = AskOf(ex[r])
           /\ Asked[ex[r].shift].kind \in Kinds
           /\ Asked' = [Asked EXCEPT ![ex[r].shift] = NoAsk]
           /\ Intents' = Intents
  <1> DEFINE s == ex[r].shift
  <1>1. s \in Shifts /\ ex[r] \in RequestRow
    BY DEF Inv, TypeOK, RowShape
  <1>2. Asks(ex, r, s)
    BY DEF Asks, Active
  <1>3. Asked[s] = AskOf(ex[r])
    <2>1. \A q \in Requests : q # r => ~Asks(ex, q, s)
      BY <1>2, OneAsk
    <2> QED  BY <1>1, <1>2, <2>1, AskUnique DEF Asked
  <1>4. AskIn(ex', s) = NoAsk
    <2>1. \A q \in Requests : ~Asks(ex', q, s)
      BY <1>2, OneAsk DEF Asks
    <2> QED  BY <2>1, AskNone
  <1>5. \A c \in Shifts : c # s => AskIn(ex', c) = AskIn(ex, c)
    BY OtherAsks DEF Asks
  <1>6. AskOf(ex[r]).kind \in Kinds
    BY <1>1 DEF AskOf, RequestRow
  <1> HIDE DEF s
  <1>7. Asked' = [Asked EXCEPT ![s] = NoAsk]
    BY <1>1, <1>4, <1>5, AskedEffect
  <1>8. Intents' = Intents
    BY IntentsKept DEF Active
  <1> QED  BY <1>1, <1>3, <1>6, <1>7, <1>8 DEF s

LEMMA MapDrop ==
    ASSUME Inv, NEW r \in Requests, Cancel(r) \/ Reject(r)
    PROVE  Handover!HNext
  <1> DEFINE s == ex[r].shift
  <1>1. ex[r] \in RequestRow
    BY DEF Inv, TypeOK
  <1>2. /\ Active(r) /\ UNCHANGED shift
        /\ ex'[r].status \notin {"filing", "open", "accepted"}
        /\ \A q \in Requests : q # r => ex'[q] = ex[q]
    BY <1>1 DEF Inv, TypeOK, Cancel, Reject, RequestRow
  <1>3. /\ s \in Shifts /\ Asked[s].kind \in Kinds
        /\ Asked' = [Asked EXCEPT ![s] = NoAsk] /\ Intents' = Intents
    BY <1>2, CloseEffect
  <1> HIDE DEF s
  <1>4. Handover!Drop(s)
    BY <1>2, <1>3 DEF Handover!Drop, Handover!NoAsk, NoAsk, Kinds, Asked, Intents
  <1> QED  BY <1>3, <1>4 DEF Handover!HNext

LEMMA MapGrant ==
    ASSUME Inv, NEW r \in Requests, ApproveCommit(r)
    PROVE  Handover!HNext
  <1> DEFINE s == ex[r].shift
  <1>1. /\ Active(r)
        /\ shift[s].published /\ shift[s].owner = ex[r].requester
        /\ ex[r].kind = "exchange" => ex[r].replacement \in Employees
        /\ shift' = [shift EXCEPT ![s] = Decided(r)]
        /\ ex'[r].status \notin {"filing", "open", "accepted"}
        /\ \A q \in Requests : q # r => ex'[q] = ex[q]
    BY ApproveEffect
  <1>2. /\ s \in Shifts /\ Asked[s] = AskOf(ex[r]) /\ Asked[s].kind \in Kinds
        /\ Asked' = [Asked EXCEPT ![s] = NoAsk] /\ Intents' = Intents
    BY <1>1, CloseEffect
  <1>3. Decided(r) = Handover!Outcome(Asked[s], shift[s])
    BY <1>2 DEF Decided, Handover!Outcome, AskOf, Kinds
  <1>4. /\ Asked[s].requester = ex[r].requester
        /\ Asked[s].kind = "exchange" => Asked[s].volunteer # NoEmployee
    BY <1>1, <1>2, AbsentRows DEF AskOf
  <1>5. shift' = [shift EXCEPT ![s] = Handover!Outcome(Asked[s], shift[s])]
    BY <1>1, <1>3
  <1> HIDE DEF s
  <1>6. Handover!Grant(s)
    BY <1>1, <1>2, <1>4, <1>5
       DEF Handover!Grant, Handover!NoAsk, NoAsk, Kinds, Asked, Intents
  <1> QED  BY <1>2, <1>6 DEF Handover!HNext

LEMMA MapStep ==
    ASSUME Inv, [Next]_vars
    PROVE  Handover!HNext
  <1>1. ASSUME UNCHANGED ex
        PROVE  Handover!HNext
    BY <1>1, MapKept
  <1>2. ASSUME NEW q \in Requests, File(q)
        PROVE  Handover!HNext
    BY <1>2, MapIntend, MapAsk, MapForget DEF File
  <1>3. ASSUME NEW q \in Requests,
               Cancel(q) \/ Reject(q) \/ AcceptCommit(q) \/ ApproveCommit(q)
        PROVE  Handover!HNext
    BY <1>3, MapDrop, MapVolunteer, MapGrant
  <1>4. ASSUME NEW q \in Requests, TxStep(q)
        PROVE  UNCHANGED ex
    BY <1>4, TxStepEffect
  <1>5. CASE Next
    BY <1>1, <1>2, <1>3, <1>4, <1>5
       DEF Next, TxStep, Plan, AssignShift, PublishSchedule,
           SetEmployeeActive, SetShiftTypeActive, Tick
  <1>6. CASE UNCHANGED vars
    BY <1>1, <1>6 DEF vars
  <1> QED  BY <1>5, <1>6

LEMMA MapInit == Init => Handover!HInit
  <1> SUFFICES ASSUME Init PROVE Handover!HInit
    OBVIOUS
  <1>1. \A s \in Shifts : AskIn(ex, s) = NoAsk
    BY AskNone DEF Init, NoRequest, Asks
  <1>2. IntentsIn(ex) = {}
    BY DEF Init, NoRequest, IntentsIn
  <1> QED  BY <1>1, <1>2 DEF Handover!HInit, Handover!NoAsk, NoAsk

\* The request flow implements ShiftHandover: whatever transactions overlap, a
\* shift changes hands in one step, to the colleague who volunteered.
THEOREM Refinement == Spec => ImplementsHandover
  <1>1. Inv /\ [Next]_vars => [Handover!HNext]_(Handover!hvars)
    BY MapStep
  <1> QED  BY InvHolds, MapInit, <1>1, PTL DEF Spec, ImplementsHandover, Handover!HSpec
=============================================================================
