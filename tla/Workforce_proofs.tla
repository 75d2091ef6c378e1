-------------------------- MODULE Workforce_proofs --------------------------
(***************************************************************************)
(* Proofs about the parts that plan and record the work of the staff, one  *)
(* after the other, each for any values of its constants: Attendance,      *)
(* ScheduleBoard and StaffScheduleView, and AutoDistribute.                *)
(***************************************************************************)
EXTENDS AttendanceProperties, ScheduleBoard, StaffScheduleView, DistributeProperties,
        FiniteSetTheorems, WellFoundedInduction, TLAPS

-----------------------------------------------------------------------------
(* Attendance.  Inv is inductive: an action at work on an approval names a   *)
(* correction, which is approved by it and, before the write, unwritten.     *)

\* What holds of action c when it is in state t.
Holds(c, t) ==
    t.pc \in {"approved", "applying", "undoing"} =>
       /\ t.request \in Requests
       /\ corr[t.request].status = "approved"
       /\ corr[t.request].by = c
       /\ t.pc \in {"approved", "applying"} => t.request \notin applied

Inv == TypeOK /\ \A c \in Calls : Holds(c, call[c])

LEMMA InvImplies == Inv => DecisionIsExclusive /\ AppliedOncePerApproval
  BY DEF Inv, Holds, DecisionIsExclusive, AppliedOncePerApproval

LEMMA InvInit == Init => Inv
  <1> SUFFICES ASSUME Init PROVE Inv
    OBVIOUS
  <1>1. NoCorrection \in Correction /\ Idle \in Call
    BY DEF NoCorrection, Correction, Idle, Call
  <1>2. TypeOK
    BY <1>1 DEF Init, TypeOK
  <1>3. \A c \in Calls : Holds(c, call[c])
    BY DEF Init, Holds, Idle
  <1> QED  BY <1>2, <1>3 DEF Inv

\* A write keeps the table of rows a table of rows.
LEMMA WriteType ==
    ASSUME Inv, NEW c \in Calls, Write(call[c].found, call[c].day)
    PROVE  row' \in [Rows -> Days \cup {NoDay}]
  <1>1. call[c].day \in Days \cup {NoDay} /\ row \in [Rows -> Days \cup {NoDay}]
    BY DEF Inv, TypeOK, Call
  <1> QED  BY <1>1 DEF Write

(***************************************************************************)
(* Steps that move one action only: corrections are as they were.          *)
(***************************************************************************)
CallStep(c) == \/ \E d \in Days : ReportFind(c, d)
               \/ ReportWrite(c) \/ ApplyFind(c) \/ ApplyFails(c)
               \/ ApplyThrows(c) \/ CallDies(c)

LEMMA CallStepEffect ==
    ASSUME Inv, NEW c \in Calls, CallStep(c)
    PROVE  /\ row' \in [Rows -> Days \cup {NoDay}]
           /\ UNCHANGED <<corr, applied>>
           /\ call' = [call EXCEPT ![c] = call'[c]]
           /\ call'[c] \in Call
           /\ Holds(c, call'[c])
  <1>1. /\ call \in [Calls -> Call] /\ call[c] \in Call
        /\ row \in [Rows -> Days \cup {NoDay}]
        /\ corr \in [Requests -> Correction]
        /\ Holds(c, call[c])
    BY DEF Inv, TypeOK
  <1>2. Idle \in Call
    BY DEF Idle, Call
  <1>3. ASSUME NEW d \in Days, ReportFind(c, d)
        PROVE  /\ UNCHANGED <<row, corr, applied>>
               /\ call' = [call EXCEPT ![c] = call'[c]]
               /\ call'[c] \in Call
               /\ call'[c].pc = "reporting"
    <2>1. PICK a \in Rows \cup {NoRow} :
             call' = [call EXCEPT ![c] = [pc |-> "reporting", request |-> NoRequest,
                                          day |-> d, found |-> a]]
      BY <1>3 DEF ReportFind
    <2> QED  BY <1>1, <1>3, <2>1 DEF ReportFind, Call
  <1>4. ASSUME ReportWrite(c)
        PROVE  /\ row' \in [Rows -> Days \cup {NoDay}]
               /\ UNCHANGED <<corr, applied>>
               /\ call' = [call EXCEPT ![c] = Idle]
    BY <1>4, WriteType DEF ReportWrite
  <1>5. ASSUME ApplyFind(c)
        PROVE  /\ UNCHANGED <<row, corr, applied>>
               /\ call' = [call EXCEPT ![c] = call'[c]]
               /\ call'[c] \in Call
               /\ call[c].pc = "approved" /\ call'[c].pc = "applying"
               /\ call'[c].request = call[c].request
    <2>1. PICK a \in Rows \cup {NoRow} :
             call' = [call EXCEPT ![c] = [@ EXCEPT !.pc = "applying", !.found = a]]
      BY <1>5 DEF ApplyFind
    <2> QED  BY <1>1, <1>5, <2>1 DEF ApplyFind, Call
  <1>6. ASSUME ApplyFails(c)
        PROVE  /\ UNCHANGED <<row, corr, applied>>
               /\ call' = [call EXCEPT ![c] = call'[c]]
               /\ call'[c] \in Call
               /\ call[c].pc \in {"approved", "applying"} /\ call'[c].pc = "undoing"
               /\ call'[c].request = call[c].request
    BY <1>1, <1>6 DEF ApplyFails, Call
  <1>7. ASSUME ApplyThrows(c) \/ CallDies(c)
        PROVE  UNCHANGED <<row, corr, applied>> /\ call' = [call EXCEPT ![c] = Idle]
    BY <1>7 DEF ApplyThrows, CallDies
  <1>8. Holds(c, Idle)
    BY DEF Holds, Idle
  <1> QED  BY <1>1, <1>2, <1>3, <1>4, <1>5, <1>6, <1>7, <1>8 DEF CallStep, Holds

LEMMA InvCallStep ==
    ASSUME Inv, NEW c \in Calls, CallStep(c)
    PROVE  Inv'
  <1>1. /\ row' \in [Rows -> Days \cup {NoDay}]
        /\ UNCHANGED <<corr, applied>>
        /\ call' = [call EXCEPT ![c] = call'[c]]
        /\ call'[c] \in Call
        /\ Holds(c, call'[c])
    BY CallStepEffect
  <1>2. TypeOK'
    BY <1>1 DEF Inv, TypeOK
  <1>3. ASSUME NEW d \in Calls
        PROVE  Holds(d, call[d])'
    BY <1>1 DEF Inv, TypeOK, Holds
  <1> QED  BY <1>2, <1>3 DEF Inv

(***************************************************************************)
(* Steps that change a correction or write its hours.                      *)
(***************************************************************************)
LEMMA InvSubmit ==
    ASSUME Inv, NEW q \in Requests, NEW d \in Days, SubmitCorrection(q, d)
    PROVE  Inv'
  <1>1. /\ corr[q].status = "absent"
        /\ UNCHANGED <<row, call, applied>>
        /\ corr' = [corr EXCEPT ![q] = corr'[q]]
        /\ corr'[q] \in Correction
    <2>1. /\ corr[q].status = "absent" /\ corr \in [Requests -> Correction]
          /\ UNCHANGED <<row, call, applied>>
      BY DEF SubmitCorrection, Inv, TypeOK
    <2>2. PICK a \in Rows \cup {NoRow}, times \in BOOLEAN :
             corr' = [corr EXCEPT ![q] = [status |-> "pending", day |-> d, target |-> a,
                                          hours |-> times, by |-> NoCall]]
      BY DEF SubmitCorrection, RowsOf
    <2> QED  BY <2>1, <2>2 DEF Correction
  <1>2. TypeOK'
    BY <1>1 DEF Inv, TypeOK
  <1>3. ASSUME NEW c \in Calls
        PROVE  Holds(c, call[c])'
    BY <1>1 DEF Inv, TypeOK, Holds
  <1> QED  BY <1>2, <1>3 DEF Inv

LEMMA InvDecide ==
    ASSUME Inv, NEW c \in Calls, NEW q \in Requests,
           NEW v \in {"approved", "rejected"}, Decide(c, q, v)
    PROVE  Inv'
  <1>1. /\ corr[q].status = "pending" /\ corr[q] \in Correction
        /\ call \in [Calls -> Call] /\ corr \in [Requests -> Correction]
        /\ applied' = applied \ {q} /\ UNCHANGED row
        /\ corr' = [corr EXCEPT ![q] = [@ EXCEPT !.status = v, !.by = c]]
    BY DEF Decide, Undecided, Inv, TypeOK
  <1>2. /\ corr'[q] \in Correction
        /\ corr'[q].status = v /\ corr'[q].by = c
        /\ \A p \in Requests : p # q => corr'[p] = corr[p]
    BY <1>1 DEF Correction
  <1>3. \/ call' = [call EXCEPT ![c] = Idle]
        \/ /\ v = "approved"
           /\ call' = [call EXCEPT ![c] = call'[c]]
           /\ call'[c] \in Call
           /\ call'[c].pc = "approved" /\ call'[c].request = q
    <2>1. CASE v = "approved" /\ corr[q].hours
      BY <1>1, <2>1 DEF Decide, Idle, Call, Correction
    <2>2. CASE ~(v = "approved" /\ corr[q].hours)
      BY <2>2 DEF Decide
    <2> QED  BY <2>1, <2>2
  <1>4. Idle \in Call /\ Idle.pc = "idle"
    BY DEF Idle, Call
  <1>5. TypeOK'
    BY <1>1, <1>2, <1>3, <1>4 DEF Inv, TypeOK
  <1>6. ASSUME NEW d \in Calls
        PROVE  Holds(d, call[d])'
    <2>1. CASE d = c
      BY <1>1, <1>2, <1>3, <1>4, <2>1 DEF Holds
    <2>2. CASE d # c
      <3>1. call'[d] = call[d] /\ Holds(d, call[d])
        BY <1>1, <1>3, <2>2 DEF Inv
      <3>2. call[d].pc \in {"approved", "applying", "undoing"} => call[d].request # q
        BY <1>1, <3>1 DEF Holds
      <3> QED  BY <1>1, <1>2, <3>1, <3>2 DEF Holds
    <2> QED  BY <2>1, <2>2
  <1> QED  BY <1>5, <1>6 DEF Inv

\* Two actions at work on an approval work on different corrections.
LEMMA OneWorker ==
    ASSUME Inv, NEW c \in Calls, NEW d \in Calls, c # d,
           call[c].pc \in {"approved", "applying", "undoing"},
           call[d].pc \in {"approved", "applying", "undoing"}
    PROVE  call[c].request # call[d].request
  BY DEF Inv, Holds

LEMMA InvApplyWrite ==
    ASSUME Inv, NEW c \in Calls, ApplyWrite(c)
    PROVE  Inv'
  <1>1. /\ call[c].pc = "applying" /\ call[c] \in Call /\ Holds(c, call[c])
        /\ call \in [Calls -> Call]
        /\ applied' = applied \cup {call[c].request} /\ UNCHANGED corr
    BY DEF ApplyWrite, Inv, TypeOK
  <1>2. row' \in [Rows -> Days \cup {NoDay}]
    BY WriteType DEF ApplyWrite
  <1>3. \/ call' = [call EXCEPT ![c] = Idle]
        \/ /\ call' = [call EXCEPT ![c] = call'[c]]
           /\ call'[c] \in Call
           /\ call'[c].pc = "undoing" /\ call'[c].request = call[c].request
    BY <1>1 DEF ApplyWrite, Call
  <1>4. Idle \in Call /\ Idle.pc = "idle"
    BY DEF Idle, Call
  <1>5. TypeOK'
    BY <1>1, <1>2, <1>3, <1>4 DEF Inv, TypeOK, Holds
  <1>6. ASSUME NEW d \in Calls
        PROVE  Holds(d, call[d])'
    <2>1. CASE d = c
      BY <1>1, <1>3, <1>4, <2>1 DEF Holds
    <2>2. CASE d # c
      <3>1. call'[d] = call[d] /\ Holds(d, call[d])
        BY <1>1, <1>3, <2>2 DEF Inv
      <3>2. call[d].pc \in {"approved", "applying", "undoing"}
              => call[d].request # call[c].request
        BY <1>1, <2>2, OneWorker
      <3> QED  BY <1>1, <3>1, <3>2 DEF Holds
    <2> QED  BY <2>1, <2>2
  <1> QED  BY <1>5, <1>6 DEF Inv

LEMMA InvUndo ==
    ASSUME Inv, NEW c \in Calls, Undo(c)
    PROVE  Inv'
  <1> DEFINE q == call[c].request
  <1>1. /\ call[c].pc = "undoing" /\ Holds(c, call[c])
        /\ call \in [Calls -> Call] /\ corr \in [Requests -> Correction]
        /\ call' = [call EXCEPT ![c] = Idle] /\ UNCHANGED <<row, applied>>
    BY DEF Undo, Inv, TypeOK
  <1>2. q \in Requests /\ corr[q] \in Correction
    BY <1>1 DEF Holds
  <1>3. corr' = [corr EXCEPT ![q] = corr'[q]] /\ corr'[q] \in Correction
    BY <1>1, <1>2 DEF Undo, Undoable, Correction
  <1>4. Idle \in Call /\ Idle.pc = "idle"
    BY DEF Idle, Call
  <1>5. TypeOK'
    BY <1>1, <1>2, <1>3, <1>4 DEF Inv, TypeOK
  <1>6. ASSUME NEW d \in Calls
        PROVE  Holds(d, call[d])'
    <2>1. CASE d = c
      BY <1>1, <1>4, <2>1 DEF Holds
    <2>2. CASE d # c
      <3>1. call'[d] = call[d] /\ Holds(d, call[d])
        BY <1>1, <2>2 DEF Inv
      <3>2. call[d].pc \in {"approved", "applying", "undoing"} => call[d].request # q
        BY <1>1, <2>2, OneWorker
      <3> QED  BY <1>1, <1>2, <1>3, <3>1, <3>2 DEF Holds
    <2> QED  BY <2>1, <2>2
  <1> QED  BY <1>5, <1>6 DEF Inv

-----------------------------------------------------------------------------
LEMMA InvNext == Inv /\ [Next]_vars => Inv'
  <1> SUFFICES ASSUME Inv, [Next]_vars PROVE Inv'
    OBVIOUS
  <1>1. ASSUME NEW c \in Calls, CallStep(c) PROVE Inv'
    BY <1>1, InvCallStep
  <1>2. ASSUME NEW c \in Calls, NEW q \in Requests, NEW v \in {"approved", "rejected"},
               Decide(c, q, v)
        PROVE  Inv'
    BY <1>2, InvDecide
  <1>3. ASSUME NEW c \in Calls, ApplyWrite(c) \/ Undo(c) PROVE Inv'
    BY <1>3, InvApplyWrite, InvUndo
  <1>4. ASSUME NEW q \in Requests, NEW d \in Days, SubmitCorrection(q, d) PROVE Inv'
    BY <1>4, InvSubmit
  <1>5. CASE UNCHANGED vars
    BY <1>5 DEF vars, Inv, TypeOK, Holds
  <1> QED  BY <1>1, <1>2, <1>3, <1>4, <1>5 DEF Next, CallStep

LEMMA InvHolds == Spec => []Inv
  BY InvInit, InvNext, PTL DEF Spec

(* The state of rows, corrections and actions keeps its types.               *)
THEOREM TypeCorrect == Spec => []TypeOK
  <1>1. Inv => TypeOK
    BY DEF Inv
  <1> QED  BY <1>1, InvHolds, PTL

(* However many managers decide at once, the one whose update won is the     *)
(* only one that applies or undoes the approval.                             *)
THEOREM ExclusiveDecision == Spec => []DecisionIsExclusive
  BY InvImplies, InvHolds, PTL

(* Whatever is lost, retried or undone, one approval writes its hours once.  *)
THEOREM WrittenOnce == Spec => []AppliedOncePerApproval
  BY InvImplies, InvHolds, PTL

(* No step reopens a rejected correction or writes its hours.                *)
THEOREM RejectionStands == Spec => RejectedStays
  <1>1. ASSUME Inv, [Next]_vars, NEW q \in Requests, corr[q].status = "rejected"
        PROVE  corr'[q] = corr[q] /\ (q \in applied' => q \in applied)
    <2>1. ASSUME NEW c \in Calls, CallStep(c) PROVE UNCHANGED <<corr, applied>>
      BY <1>1, <2>1, CallStepEffect
    <2>2. ASSUME NEW c \in Calls, NEW p \in Requests, NEW v \in {"approved", "rejected"},
                 Decide(c, p, v)
          PROVE  corr'[q] = corr[q] /\ applied' \subseteq applied
      BY <1>1, <2>2 DEF Decide, Undecided, Inv, TypeOK
    <2>3. ASSUME NEW c \in Calls, ApplyWrite(c)
          PROVE  UNCHANGED corr /\ (q \in applied' => q \in applied)
      BY <1>1, <2>3 DEF ApplyWrite, Inv, Holds
    <2>4. ASSUME NEW c \in Calls, Undo(c)
          PROVE  corr'[q] = corr[q] /\ UNCHANGED applied
      BY <1>1, <2>4 DEF Undo, Undoable, Inv, TypeOK
    <2>5. ASSUME NEW p \in Requests, NEW d \in Days, SubmitCorrection(p, d)
          PROVE  corr'[q] = corr[q] /\ UNCHANGED applied
      <3>1. p # q /\ UNCHANGED applied
        BY <1>1, <2>5 DEF SubmitCorrection
      <3>2. PICK new : corr' = [corr EXCEPT ![p] = new]
        BY <2>5 DEF SubmitCorrection
      <3> QED  BY <1>1, <3>1, <3>2 DEF Inv, TypeOK
    <2>6. CASE UNCHANGED vars
      BY <2>6 DEF vars
    <2> QED  BY <1>1, <2>1, <2>2, <2>3, <2>4, <2>5, <2>6 DEF Next, CallStep
  <1>2. Inv /\ [Next]_vars
          => [\A q \in Requests : corr[q].status = "rejected" =>
                corr'[q] = corr[q] /\ (q \in applied' => q \in applied)]_vars
    BY <1>1
  <1> QED  BY <1>2, InvHolds, PTL DEF Spec, RejectedStays

-----------------------------------------------------------------------------
(* ScheduleBoard and StaffScheduleView.  On the board the types and the      *)
(* explained doubles are inductive as they stand: whoever is placed without  *)
(* an excuse is placed by somebody who sees the schedule as it is.  Of the   *)
(* view, Fresh says what an answer that is on its way may assume of the      *)
(* screen.                                                                   *)

Placed == {"draft", "published"}
BoardInv == BoardTypes /\ DoublesExplained

LEMMA BoardValuesTyped == /\ NoShift \in Shift /\ Blank \in [Shifts -> Shift]
                          /\ \A w \in Workers \cup {Nobody} : Draft(w) \in Shift
  BY DEF NoShift, Shift, Blank, Draft

LEMMA DraftOwner == \A w : Draft(w).owner = w
  BY DEF Draft

LEMMA BoardInvInit == BoardInit => BoardInv
  <1> SUFFICES ASSUME BoardInit PROVE BoardInv
    OBVIOUS
  <1>1. BoardTypes
    BY BoardValuesTyped DEF BoardInit, BoardTypes
  <1>2. \A w \in Workers : ShiftsOf(schedule, w, Placed) = {}
    BY BoardValues DEF BoardInit, ShiftsOf, Blank, NoShift, Placed
  <1> QED  BY <1>1, <1>2 DEF BoardInv, DoublesExplained, Placed

\* Doubles come from placing; whoever is not placed keeps or loses shifts.
LEMMA KeepsOrLoses ==
    ASSUME DoublesExplained, excused \subseteq excused',
           NEW w \in Workers, w \notin excused',
           ShiftsOf(schedule', w, Placed) \subseteq ShiftsOf(schedule, w, Placed)
    PROVE  \A a, b \in ShiftsOf(schedule', w, Placed) : a = b
  BY DEF DoublesExplained, Placed

LEMMA WriteShiftEffect ==
    ASSUME BoardTypes, NEW t \in Tabs, NEW s \in Shifts, NEW w \in Workers \cup {Nobody},
           WriteShift(t, s, w)
    PROVE  /\ schedule' \in [Shifts -> Shift]
           /\ schedule'[s] = Draft(w)
           /\ \A x \in Shifts : x # s => schedule'[x] = schedule[x]
           /\ UNCHANGED <<page, seen, running>>
           /\ page[t][s].status = "draft"
           /\ page[t][s].owner # Nobody
  BY BoardValuesTyped DEF BoardTypes, WriteShift, Editable

\* A run changes only rows that are free, one for each worker it places.
LEMMA RunInsertEffect ==
    ASSUME BoardTypes, NEW r \in RunsUnderWay, RunInsert(r)
    PROVE  \E picks \in SUBSET Placeable(seen[r]) : \E place \in [picks -> Shifts] :
              /\ \A w \in picks : schedule[place[w]] = NoShift /\ schedule'[place[w]] = Draft(w)
              /\ \A s \in Shifts : (\A w \in picks : place[w] # s) => schedule'[s] = schedule[s]
              /\ schedule' \in [Shifts -> Shift]
              /\ excused' = excused \cup {w \in picks :
                                ShiftsOf(seen[r], w, {"draft"}) # {} \/ seen[r] # schedule}
  <1> DEFINE Free == {s \in Shifts : schedule[s] = NoShift}
  <1>0. PICK picks \in SUBSET Placeable(seen[r]) : \E place \in Injection(picks, Free) :
          /\ schedule' = [s \in Shifts |-> IF \E w \in picks : place[w] = s
                             THEN Draft(CHOOSE w \in picks : place[w] = s) ELSE schedule[s]]
          /\ excused' = excused \cup {w \in picks :
                ShiftsOf(seen[r], w, {"draft"}) # {} \/ seen[r] # schedule}
    BY DEF RunInsert
  <1>1. PICK place \in Injection(picks, Free) :
          /\ schedule' = [s \in Shifts |-> IF \E w \in picks : place[w] = s
                             THEN Draft(CHOOSE w \in picks : place[w] = s) ELSE schedule[s]]
          /\ excused' = excused \cup {w \in picks :
                ShiftsOf(seen[r], w, {"draft"}) # {} \/ seen[r] # schedule}
    BY <1>0
  <1>2. /\ place \in [picks -> Free]
        /\ \A v, w \in picks : place[v] = place[w] => v = w
    BY <1>1 DEF Injection, IsInjective
  <1>3. picks \subseteq Workers /\ place \in [picks -> Shifts]
    BY <1>2 DEF Placeable
  <1>4. ASSUME NEW w \in picks
        PROVE  schedule[place[w]] = NoShift /\ schedule'[place[w]] = Draft(w)
    <2>1. place[w] \in Free
      BY <1>2
    <2>2. (CHOOSE v \in picks : place[v] = place[w]) = w
      BY <1>2
    <2> QED  BY <1>1, <2>1, <2>2
  <1>5. ASSUME NEW s \in Shifts, \A w \in picks : place[w] # s
        PROVE  schedule'[s] = schedule[s]
    BY <1>1, <1>5
  <1>6. schedule' \in [Shifts -> Shift]
    <2>1. ASSUME NEW s \in Shifts PROVE schedule'[s] \in Shift
      <3>1. CASE \E w \in picks : place[w] = s
        BY <3>1, <1>3, <1>4, BoardValuesTyped
      <3>2. CASE \A w \in picks : place[w] # s
        BY <3>2, <1>5 DEF BoardTypes
      <3> QED  BY <3>1, <3>2
    <2> QED  BY <1>1, <2>1
  <1> QED  BY <1>1, <1>3, <1>4, <1>5, <1>6, ZenonT(60)

LEMMA TypesNext ==
    ASSUME BoardTypes, BoardNext
    PROVE  BoardTypes' /\ excused \subseteq excused'
  <1>1. ASSUME NEW t \in Tabs, LoadPage(t)
        PROVE  BoardTypes' /\ excused \subseteq excused'
    BY <1>1 DEF LoadPage, BoardTypes
  <1>2. ASSUME NEW t \in Tabs, NEW s \in Shifts, Unassign(t, s)
        PROVE  BoardTypes' /\ excused \subseteq excused'
    BY <1>2, WriteShiftEffect DEF Unassign, BoardTypes
  <1>3. ASSUME NEW t \in Tabs, NEW s \in Shifts, NEW w \in Workers, Reassign(t, s, w)
        PROVE  BoardTypes' /\ excused \subseteq excused'
    BY <1>3, WriteShiftEffect DEF Reassign, BoardTypes
  <1>4. ASSUME NEW t \in Tabs, NEW s \in Shifts, NEW w \in Workers, Assign(t, s, w)
        PROVE  BoardTypes' /\ excused \subseteq excused'
    BY <1>4, BoardValuesTyped DEF Assign, BoardTypes
  <1>5. ASSUME PublishSchedule
        PROVE  BoardTypes' /\ excused \subseteq excused'
    <2>1. \A s \in Shifts : schedule[s] \in Shift /\
             [schedule[s] EXCEPT !.status = "published"] \in Shift
      BY DEF BoardTypes, Shift
    <2> QED  BY <1>5, <2>1 DEF PublishSchedule, BoardTypes
  <1>6. ASSUME NEW r \in RunsUnderWay, RunRead(r) \/ RunDies(r)
        PROVE  BoardTypes' /\ excused \subseteq excused'
    BY <1>6, BoardValuesTyped DEF RunRead, RunDies, BoardTypes
  <1>7. ASSUME NEW r \in RunsUnderWay, RunInsert(r)
        PROVE  BoardTypes' /\ excused \subseteq excused'
    <2>1. /\ running' = running \ {r} /\ page' = page
          /\ seen' = [seen EXCEPT ![r] = Blank]
      BY <1>7 DEF RunInsert
    <2>2. /\ schedule' \in [Shifts -> Shift]
          /\ excused \subseteq excused' /\ excused' \subseteq excused \cup Workers
      BY <1>7, RunInsertEffect DEF Placeable
    <2> QED  BY <2>1, <2>2, BoardValuesTyped DEF BoardTypes
  <1> QED  BY <1>1, <1>2, <1>3, <1>4, <1>5, <1>6, <1>7 DEF BoardNext

LEMMA DoublesNext ==
    ASSUME BoardInv, BoardNext
    PROVE  DoublesExplained'
  <1>0. BoardTypes /\ DoublesExplained /\ excused \subseteq excused'
    BY TypesNext DEF BoardInv
  <1> SUFFICES ASSUME NEW w \in Workers, w \notin excused'
               PROVE  \A a, b \in ShiftsOf(schedule', w, Placed) : a = b
    BY DEF DoublesExplained, Placed, ShiftsOf
  <1> DEFINE Less == ShiftsOf(schedule', w, Placed) \subseteq ShiftsOf(schedule, w, Placed)
  <1>1. CASE schedule' = schedule
    BY <1>0, <1>1, KeepsOrLoses
  <1>2. ASSUME NEW t \in Tabs, NEW s \in Shifts, NEW v \in Workers \cup {Nobody},
               WriteShift(t, s, v), v # w
        PROVE  Less
    <2>1. schedule'[s].owner # w /\ \A x \in Shifts : x # s => schedule'[x] = schedule[x]
      BY <1>0, <1>2, WriteShiftEffect, DraftOwner
    <2> QED  BY <2>1 DEF ShiftsOf
  <1>3. ASSUME NEW t \in Tabs, NEW s \in Shifts, Unassign(t, s)
        PROVE  Less
    BY <1>2, <1>3, BoardValues DEF Unassign
  <1>4. ASSUME NEW t \in Tabs, NEW s \in Shifts, NEW v \in Workers, Reassign(t, s, v)
        PROVE  Less
    <2>1. CASE v # w
      BY <1>2, <1>4, <2>1 DEF Reassign
    <2>2. CASE v = w
      <3>1. WriteShift(t, s, w) /\ w = page[t][s].owner /\ page[t] = schedule
        BY <1>0, <1>4, <2>2 DEF Reassign, BoardTypes
      <3>2. schedule[s].owner = w /\ schedule[s].status = "draft"
        BY <1>0, <3>1, WriteShiftEffect
      <3> QED  BY <1>0, <3>1, <3>2, WriteShiftEffect, ZenonT(60) DEF ShiftsOf, Placed, Draft
    <2> QED  BY <2>1, <2>2
  <1>5. ASSUME NEW t \in Tabs, NEW s \in Shifts, NEW v \in Workers, Assign(t, s, v)
        PROVE  \A a, b \in ShiftsOf(schedule', w, Placed) : a = b
    <2>1. schedule'[s] = Draft(v) /\ \A x \in Shifts : x # s => schedule'[x] = schedule[x]
      BY <1>0, <1>5 DEF Assign, BoardTypes
    <2>2. CASE v # w
      BY <1>0, <2>1, <2>2, KeepsOrLoses DEF ShiftsOf, Draft
    <2>3. CASE v = w
      <3>1. ShiftsOf(schedule, w, Placed) = {}
        BY <1>0, <1>5, <2>3 DEF Assign, BoardTypes, Placed
      <3> QED  BY <2>1, <3>1 DEF ShiftsOf
    <2> QED  BY <2>2, <2>3
  <1>6. ASSUME PublishSchedule
        PROVE  Less
    <2>1. ASSUME NEW s \in Shifts
          PROVE  schedule'[s].owner = schedule[s].owner /\
                 (schedule'[s].status \in Placed => schedule[s].status \in Placed)
      BY <1>0, <1>6 DEF PublishSchedule, BoardTypes, Shift, Placed
    <2> QED  BY <2>1 DEF ShiftsOf
  <1>7. ASSUME NEW r \in RunsUnderWay, RunInsert(r)
        PROVE  \A a, b \in ShiftsOf(schedule', w, Placed) : a = b
    <2>0. PICK picks \in SUBSET Placeable(seen[r]) : \E place \in [picks -> Shifts] :
              /\ \A v \in picks : schedule[place[v]] = NoShift /\ schedule'[place[v]] = Draft(v)
              /\ \A s \in Shifts : (\A v \in picks : place[v] # s) => schedule'[s] = schedule[s]
              /\ excused' = excused \cup {v \in picks :
                                ShiftsOf(seen[r], v, {"draft"}) # {} \/ seen[r] # schedule}
      BY <1>0, <1>7, RunInsertEffect, ZenonT(60)
    <2>1. PICK place \in [picks -> Shifts] :
              /\ \A v \in picks : schedule[place[v]] = NoShift /\ schedule'[place[v]] = Draft(v)
              /\ \A s \in Shifts : (\A v \in picks : place[v] # s) => schedule'[s] = schedule[s]
              /\ excused' = excused \cup {v \in picks :
                                ShiftsOf(seen[r], v, {"draft"}) # {} \/ seen[r] # schedule}
      BY <2>0
    <2>2. CASE w \notin picks
      <3>1. ASSUME NEW s \in Shifts, schedule'[s].owner = w
            PROVE  schedule'[s] = schedule[s]
        <4>1. ASSUME NEW v \in picks, place[v] = s PROVE FALSE
          <5>1. schedule'[s] = Draft(v)
            BY <2>1, <4>1
          <5> QED  BY <2>2, <3>1, <5>1, DraftOwner
        <4> QED  BY <2>1, <4>1
      <3> QED  BY <1>0, <3>1, KeepsOrLoses DEF ShiftsOf
    <2>3. CASE w \in picks
      <3>1. /\ ShiftsOf(seen[r], w, {"draft"}) = {} /\ seen[r] = schedule
            /\ ShiftsOf(seen[r], w, {"published"}) = {}
        BY <2>1, <2>3 DEF Placeable
      <3>2. ASSUME NEW s \in Shifts, schedule'[s].owner = w, schedule'[s].status \in Placed
            PROVE  s = place[w]
        <4>1. CASE \E v \in picks : place[v] = s
          <5>1. PICK v \in picks : place[v] = s
            BY <4>1
          <5>2. schedule'[s] = Draft(v)
            BY <2>1, <5>1
          <5> QED  BY <3>2, <5>1, <5>2, DraftOwner
        <4>2. CASE \A v \in picks : place[v] # s
          BY <2>1, <3>1, <3>2, <4>2 DEF ShiftsOf, Placed
        <4> QED  BY <4>1, <4>2
      <3> QED  BY <3>2 DEF ShiftsOf
    <2> QED  BY <2>2, <2>3
  <1>8. ASSUME Less
        PROVE  \A a, b \in ShiftsOf(schedule', w, Placed) : a = b
    BY <1>0, <1>8, KeepsOrLoses
  <1>9. (\E t \in Tabs : LoadPage(t)) \/ (\E r \in RunsUnderWay : RunRead(r) \/ RunDies(r))
           => schedule' = schedule
    BY DEF LoadPage, RunRead, RunDies
  <1> QED  BY <1>1, <1>3, <1>4, <1>5, <1>6, <1>7, <1>8, <1>9 DEF BoardNext

THEOREM BoardInvariant == BoardSpec => []BoardInv
  <1>1. BoardInv /\ [BoardNext]_boardVars => BoardInv'
    <2>1. BoardInv /\ UNCHANGED boardVars => BoardInv'
      BY DEF BoardInv, BoardTypes, DoublesExplained, boardVars, ShiftsOf
    <2>2. BoardInv /\ BoardNext => BoardInv'
      BY TypesNext, DoublesNext DEF BoardInv
    <2> QED  BY <2>1, <2>2
  <1> QED  BY <1>1, BoardInvInit, PTL DEF BoardSpec

(* An employee is placed twice on a day only where a page or a run was       *)
(* overtaken, a draft was ignored, or the editor handed a shift over: with   *)
(* any number of pages and runs.                                             *)
THEOREM DoublesAreExplained == BoardSpec => []DoublesExplained
  <1>1. BoardInv => DoublesExplained
    BY DEF BoardInv
  <1> QED  BY <1>1, BoardInvariant, PTL

\* What a step does to a published shift.
LEMMA PublishedStep ==
    ASSUME BoardTypes, BoardNext, NEW s \in Shifts, schedule[s].status = "published"
    PROVE  \/ schedule'[s] = schedule[s]
           \/ running' = running /\ \E t \in Tabs : page[t][s].status = "draft"
  <1>1. ASSUME NEW t \in Tabs, NEW x \in Shifts, NEW w \in Workers \cup {Nobody},
               WriteShift(t, x, w)
        PROVE  \/ schedule'[s] = schedule[s]
               \/ running' = running /\ \E p \in Tabs : page[p][s].status = "draft"
    BY <1>1, WriteShiftEffect
  <1>2. ASSUME NEW t \in Tabs, NEW x \in Shifts, NEW w \in Workers, Assign(t, x, w)
        PROVE  schedule'[s] = schedule[s]
    BY <1>2 DEF Assign, BoardTypes, NoShift
  <1>3. ASSUME PublishSchedule
        PROVE  schedule'[s] = schedule[s]
    BY <1>3 DEF PublishSchedule
  <1>4. ASSUME NEW r \in RunsUnderWay, RunInsert(r)
        PROVE  schedule'[s] = schedule[s]
    BY <1>4, RunInsertEffect, SMTT(60) DEF NoShift
  <1>5. (\E t \in Tabs : LoadPage(t)) \/ (\E r \in RunsUnderWay : RunRead(r) \/ RunDies(r))
           => schedule' = schedule
    BY DEF LoadPage, RunRead, RunDies
  <1> QED  BY <1>1, <1>2, <1>3, <1>4, <1>5 DEF BoardNext, Reassign, Unassign

(* A published shift is changed only from a page that shows it as a draft,   *)
(* never by a run of the distribution, another assignment or a publish.      *)
THEOREM PublishedShiftsStay == BoardSpec => PublishedStays
  <1>1. BoardInv /\ [BoardNext]_boardVars =>
           [\A s \in Shifts : schedule[s].status = "published" =>
              \/ schedule'[s] = schedule[s]
              \/ running' = running /\ \E t \in Tabs : page[t][s].status = "draft"]_boardVars
    BY PublishedStep DEF BoardInv
  <1> QED  BY <1>1, BoardInvariant, PTL DEF BoardSpec, PublishedStays

-----------------------------------------------------------------------------
\* An answered poll is at least as new as what any week shows.
ViewInv ==
    /\ ViewTypes
    /\ \A w \in Weeks : shown[w] <= version
    /\ poll.pc = "answered" => \A w \in Weeks : shown[w] <= poll.got
    /\ poll.got <= version /\ load.got <= version

LEMMA QuietTrip == Quiet \in Trip /\ Quiet.pc = "idle" /\ Quiet.got = NotShown /\ NotShown \in Versions
  BY ViewBounds DEF Quiet, Trip, Offsets, Versions, NotShown

\* A page shows of every week either nothing or what was read for it.
LEMMA WindowShows ==
    ASSUME NEW m \in 0..LastMonday, NEW v \in Versions
    PROVE  /\ Window(m, v) \in [Weeks -> Versions]
           /\ \A w \in Weeks : Window(m, v)[w] \in {v, NotShown}
  BY QuietTrip DEF Window

LEMMA WeekOfTrip ==
    ASSUME NEW m \in 0..LastMonday, NEW o \in Offsets
    PROVE  m + o \in Weeks
  BY ViewBounds DEF Offsets, Weeks

LEMMA ViewInvInit == ViewInit => ViewInv
  <1> SUFFICES ASSUME ViewInit PROVE ViewInv
    OBVIOUS
  <1>1. /\ version = 0 /\ thisWeek = 0 /\ visible \in BOOLEAN /\ poll = Quiet /\ load = Quiet
        /\ shown = Window(0, 0)
    BY DEF ViewInit
  <1>2. PICK o \in Offsets : screen = [week |-> o, offset |-> o, blank |-> FALSE]
    BY DEF ViewInit
  <1>3. 0 \in 0..MaxVersion /\ 0 \in 0..LastMonday /\ 0 \in Versions /\ o \in Weeks
    BY ViewBounds DEF Versions, NotShown, Offsets, Weeks
  <1>4. shown \in [Weeks -> Versions] /\ \A w \in Weeks : shown[w] \in {0, NotShown}
    BY <1>1, <1>3, WindowShows
  <1> QED  BY <1>1, <1>2, <1>3, <1>4, QuietTrip DEF ViewInv, ViewTypes, NotShown

LEMMA ViewInvNext ==
    ASSUME ViewInv, [ViewNext]_viewVars
    PROVE  ViewInv'
  <1>0. /\ version \in 0..MaxVersion /\ thisWeek \in 0..LastMonday /\ visible \in BOOLEAN
        /\ screen \in [week: Weeks, offset: Offsets, blank: BOOLEAN]
        /\ shown \in [Weeks -> Versions] /\ poll \in Trip /\ load \in Trip
        /\ MaxVersion \in Nat /\ LastMonday \in Nat
        /\ Versions \subseteq Int /\ 0..MaxVersion \subseteq Versions
    BY ViewBounds DEF ViewInv, ViewTypes, Versions, NotShown
  <1>1. CASE PublishedChanges
    <2>1. /\ version' \in 0..MaxVersion /\ version < version'
          /\ UNCHANGED <<thisWeek, visible, screen, shown, poll, load>>
      BY <1>0, <1>1 DEF PublishedChanges
    <2>2. poll.got \in Int /\ load.got \in Int /\ \A w \in Weeks : shown[w] \in Int
      BY <1>0 DEF Trip
    <2>3. /\ poll.got <= version' /\ load.got <= version'
          /\ \A w \in Weeks : shown[w] <= version'
      <3>1. poll.got <= version /\ load.got <= version /\ \A w \in Weeks : shown[w] <= version
        BY DEF ViewInv
      <3>2. version \in Int /\ version' \in Int
        BY <1>0, <2>1
      <3> QED  BY <2>1, <2>2, <3>1, <3>2
    <2> QED  BY <1>0, <2>1, <2>3 DEF ViewInv, ViewTypes
  <1>2. CASE Monday \/ Turns
    <2>1. thisWeek' \in 0..LastMonday /\ UNCHANGED <<version, screen, shown, poll, load>>
      BY <1>0, <1>2 DEF Monday, Turns
    <2>2. visible' \in BOOLEAN
      BY <1>0, <1>2, Zenon DEF Monday, Turns
    <2> QED  BY <1>0, <2>1, <2>2 DEF ViewInv, ViewTypes
  <1>3. CASE PollAsks
    <2>1. /\ poll' = [Quiet EXCEPT !.pc = "asked", !.offset = screen.offset]
          /\ UNCHANGED <<version, thisWeek, visible, screen, shown, load>>
      BY <1>3 DEF PollAsks
    <2>2. poll' \in Trip /\ poll'.pc = "asked" /\ poll'.got = NotShown
      BY <1>0, <2>1, QuietTrip DEF Quiet, Trip
    <2> QED  BY <1>0, <2>1, <2>2 DEF ViewInv, ViewTypes, NotShown
  <1>4. CASE PollReads
    <2>1. /\ poll' = [poll EXCEPT !.pc = "answered", !.at = thisWeek, !.got = version]
          /\ UNCHANGED <<version, thisWeek, visible, screen, shown, load>>
      BY <1>4 DEF PollReads
    <2>2. poll' \in Trip /\ poll'.got = version
      BY <1>0, <2>1 DEF Trip
    <2> QED  BY <1>0, <2>1, <2>2 DEF ViewInv, ViewTypes
  <1>5. CASE PollArrives
    <2>1. /\ shown' = [shown EXCEPT ![poll.at + poll.offset] = poll.got]
          /\ poll' = Quiet /\ poll.pc = "answered"
          /\ UNCHANGED <<version, thisWeek, visible, screen, load>>
      BY <1>5 DEF PollArrives
    <2>2. poll.got <= version /\ poll.got \in Versions /\ poll.at + poll.offset \in Weeks
      BY <1>0, WeekOfTrip DEF ViewInv, Trip
    <2>3. shown' \in [Weeks -> Versions]
      BY <1>0, <2>1, <2>2
    <2>4. \A w \in Weeks : shown'[w] \in {shown[w], poll.got}
      BY <1>0, <2>1, <2>2
    <2>5. \A w \in Weeks : shown'[w] <= version
      BY <2>2, <2>4 DEF ViewInv
    <2> QED  BY <1>0, <2>1, <2>2, <2>3, <2>5, QuietTrip DEF ViewInv, ViewTypes, NotShown
  <1>6. CASE PollFails
    <2>1. poll' = Quiet /\ UNCHANGED <<version, thisWeek, visible, screen, shown, load>>
      BY <1>6 DEF PollFails, AfterFailure
    <2> QED  BY <1>0, <2>1, QuietTrip DEF ViewInv, ViewTypes, NotShown
  <1>7. ASSUME NEW o \in Offsets, LoadAsks(o)
        PROVE  ViewInv'
    <2>1. /\ load' = [Quiet EXCEPT !.pc = "asked", !.offset = o]
          /\ UNCHANGED <<version, thisWeek, visible, screen, shown, poll>>
      BY <1>7 DEF LoadAsks
    <2>2. load' \in Trip /\ load'.got = NotShown
      BY <2>1, QuietTrip DEF Quiet, Trip
    <2> QED  BY <1>0, <2>1, <2>2 DEF ViewInv, ViewTypes, NotShown
  <1>8. CASE LoadReads
    <2>1. PICK v \in {version, NotShown} :
             load' = [load EXCEPT !.pc = "answered", !.at = thisWeek, !.got = v]
      BY <1>8 DEF LoadReads
    <2>2. v \in Versions /\ v <= version
      BY <1>0, <2>1, QuietTrip DEF NotShown
    <2>3. load' \in Trip /\ load'.got = v
      BY <1>0, <2>1, <2>2 DEF Trip
    <2>4. UNCHANGED <<version, thisWeek, visible, screen, shown, poll>>
      BY <1>8 DEF LoadReads
    <2> QED  BY <1>0, <2>2, <2>3, <2>4 DEF ViewInv, ViewTypes
  <1>9. CASE LoadArrives
    <2>1. /\ screen' = [week |-> load.at + load.offset, offset |-> load.offset,
                        blank |-> load.got = NotShown]
          /\ shown' = Window(load.at, load.got)
          /\ poll' = Quiet /\ load' = Quiet
          /\ UNCHANGED <<version, thisWeek, visible>>
      BY <1>9 DEF LoadArrives, Cancelled
    <2>2. /\ load.at \in 0..LastMonday /\ load.offset \in Offsets /\ load.got \in Versions
          /\ load.at + load.offset \in Weeks /\ load.got <= version
      BY <1>0, WeekOfTrip DEF ViewInv, Trip
    <2>3. /\ shown' \in [Weeks -> Versions]
          /\ \A w \in Weeks : shown'[w] \in {load.got, NotShown}
      BY <2>1, <2>2, WindowShows
    <2>4. NotShown <= version
      BY <1>0 DEF NotShown
    <2>5. \A w \in Weeks : shown'[w] <= version
      BY <2>2, <2>3, <2>4
    <2>6. screen' \in [week: Weeks, offset: Offsets, blank: BOOLEAN]
      BY <2>1, <2>2
    <2> QED  BY <1>0, <2>1, <2>3, <2>4, <2>5, <2>6, QuietTrip DEF ViewInv, ViewTypes
  <1>10. CASE UNCHANGED viewVars
    BY <1>10 DEF viewVars, ViewInv, ViewTypes
  <1> QED  BY <1>1, <1>2, <1>3, <1>4, <1>5, <1>6, <1>7, <1>8, <1>9, <1>10 DEF ViewNext

THEOREM ViewInvariant == ViewSpec => []ViewInv
  BY ViewInvInit, ViewInvNext, PTL DEF ViewSpec

LEMMA PollStep ==
    ASSUME ViewInv, ViewNext, NEW w \in Weeks, shown'[w] < shown[w]
    PROVE  load.pc = "answered" /\ load'.pc = "idle"
  <1>0. shown \in [Weeks -> Versions] /\ shown[w] \in Int
    BY ViewBounds DEF ViewInv, ViewTypes, Versions, NotShown
  <1>1. CASE LoadArrives
    BY <1>1 DEF LoadArrives, Quiet
  <1>2. CASE UNCHANGED shown
    BY <1>0, <1>2
  <1>3. CASE PollArrives
    <2>1. poll.got \in Int /\ shown[w] <= poll.got
      BY <1>3, ViewBounds DEF PollArrives, ViewInv, ViewTypes, Trip, Versions, NotShown
    <2>2. shown'[w] \in {shown[w], poll.got}
      BY <1>0, <1>3 DEF PollArrives
    <2> QED  BY <1>0, <2>1, <2>2
  <1> QED  BY <1>1, <1>2, <1>3 DEF ViewNext, PublishedChanges, Monday, Turns, PollAsks,
                                   PollReads, PollFails, LoadAsks, LoadReads

(* Only the arrival of a page takes the screen back to an older schedule,    *)
(* however late an answer comes and however many weeks there are.            *)
THEOREM PollsGoForward == ViewSpec => PollNeverGoesBack
  <1>1. ViewInv /\ [ViewNext]_viewVars =>
           [(\E w \in Weeks : shown'[w] < shown[w]) =>
               load.pc = "answered" /\ load'.pc = "idle"]_viewVars
    BY PollStep
  <1> QED  BY <1>1, ViewInvariant, PTL DEF ViewSpec, PollNeverGoesBack

-----------------------------------------------------------------------------
(* Numbers.  A set of natural numbers that is not empty has a least element, *)
(* from which what the sums of the distribution are follows by looking at    *)
(* the first place where it would fail.                                      *)

LEMMA LeastNatural ==
    ASSUME NEW T, T \subseteq Nat, T # {}
    PROVE  \E n \in T : \A m \in T : n <= m
  <1> DEFINE R == OpToRel(<, Nat)
  <1>1. IsWellFoundedOn(R, Nat)
    BY NatLessThanWellFounded
  <1> HIDE DEF R
  <1>2. \E n \in T : \A m \in T : ~(<<m, n>> \in R)
    BY <1>1, WFMin
  <1>3. \A m, n \in Nat : m < n => <<m, n>> \in R
    BY DEF R, OpToRel
  <1>4. PICK n \in T : \A m \in T : ~(<<m, n>> \in R)
    BY <1>2
  <1>5. ASSUME NEW m \in T PROVE n <= m
    <2>1. ~(<<m, n>> \in R) /\ m \in Nat /\ n \in Nat
      BY <1>4
    <2>2. ~(m < n)
      BY <2>1, <1>3, Zenon
    <2> QED  BY <2>1, <2>2
  <1> QED  BY <1>5

\* f holds the partial sums of h up to n.
PartialSums(f, h, n) == f = [i \in 0..n |-> IF i = 0 THEN 0 ELSE f[i - 1] + h[i]]

LEMMA SumsExist ==
    ASSUME NEW n \in Nat, NEW h \in [1..n -> Nat]
    PROVE  \E f : PartialSums(f, h, n)
  <1> DEFINE Bad == {m \in 0..n : ~\E f : PartialSums(f, h, m)}
  <1>0. Bad \subseteq Nat /\ n \in 0..n
    OBVIOUS
  <1> SUFFICES ASSUME Bad # {} PROVE FALSE
    BY <1>0, Zenon
  <1> HIDE DEF Bad
  <1>1. PICK m \in Bad : \A k \in Bad : m <= k
    BY <1>0, LeastNatural
  <1> USE DEF Bad
  <1>2. CASE m = 0
    <2>1. PartialSums([i \in 0..0 |-> 0], h, 0)
      BY DEF PartialSums
    <2> QED  BY <1>2, <2>1
  <1>3. CASE m # 0
    <2>1. m - 1 \in 0..n /\ m - 1 \notin Bad /\ m \in 1..n
      BY <1>1, <1>3
    <2>2. PICK g : PartialSums(g, h, m - 1)
      BY <2>1
    <2> DEFINE f == [i \in 0..m |-> IF i = m THEN g[i - 1] + h[i] ELSE g[i]]
    <2>3. \A i \in 0..(m - 1) : g[i] = IF i = 0 THEN 0 ELSE g[i - 1] + h[i]
      BY <2>2 DEF PartialSums
    <2>4. \A i \in 0..m : f[i] = IF i = 0 THEN 0 ELSE f[i - 1] + h[i]
      BY <2>1, <2>3, <1>3
    <2>5. PartialSums(f, h, m)
      BY <2>4, Zenon DEF PartialSums
    <2> QED  BY <2>5
  <1> QED  BY <1>2, <1>3

LEMMA SumsAre ==
    ASSUME NEW n \in Nat, NEW h \in [1..n -> Nat]
    PROVE  \E f : PartialSums(f, h, n) /\ SumOver(h, n) = f[n]
  <1> DEFINE f == CHOOSE f : f = [i \in 0..n |-> IF i = 0 THEN 0 ELSE f[i - 1] + h[i]]
  <1>1. PartialSums(f, h, n)
    BY SumsExist DEF PartialSums
  <1>2. SumOver(h, n) = f[n]
    BY DEF SumOver
  <1> QED  BY <1>1, <1>2

LEMMA SumsStep ==
    ASSUME NEW n \in Nat, NEW h \in [1..n -> Nat], NEW f, PartialSums(f, h, n)
    PROVE  /\ f[0] = 0
           /\ \A i \in 1..n : f[i] = f[i - 1] + h[i]
           /\ \A i \in 0..n : f[i] \in Nat
  <1>1. \A i \in 0..n : f[i] = IF i = 0 THEN 0 ELSE f[i - 1] + h[i]
    BY DEF PartialSums
  <1>2. f[0] = 0 /\ \A i \in 1..n : f[i] = f[i - 1] + h[i]
    BY <1>1
  <1> DEFINE Bad == {i \in 0..n : f[i] \notin Nat}
  <1>3. Bad = {}
    <2> SUFFICES ASSUME Bad # {} PROVE FALSE
      OBVIOUS
    <2>0. Bad \subseteq Nat
      OBVIOUS
    <2> HIDE DEF Bad
    <2>1. PICK m \in Bad : \A k \in Bad : m <= k
      BY <2>0, LeastNatural
    <2> USE DEF Bad
    <2>2. m # 0 /\ m \in 1..n
      BY <2>1, <1>2
    <2>3. m - 1 \in 0..n /\ m - 1 \notin Bad
      BY <2>1, <2>2
    <2>4. f[m - 1] \in Nat /\ h[m] \in Nat
      BY <2>2, <2>3
    <2> QED  BY <2>1, <2>2, <2>4, <1>2
  <1> QED  BY <1>2, <1>3

\* A sum of natural numbers is one, and changes as one of them does.
LEMMA SumIsNat ==
    ASSUME NEW n \in Nat, NEW h \in [1..n -> Nat]
    PROVE  SumOver(h, n) \in Nat
  BY SumsAre, SumsStep

LEMMA SumGrows ==
    ASSUME NEW n \in Nat, NEW h \in [1..n -> Nat], NEW k \in [1..n -> Nat],
           NEW d \in 1..n, NEW c \in Nat, k[d] = h[d] + c,
           \A i \in 1..n \ {d} : k[i] = h[i]
    PROVE  SumOver(k, n) = SumOver(h, n) + c
  <1>1. PICK f : PartialSums(f, h, n) /\ SumOver(h, n) = f[n]
    BY SumsAre
  <1>2. PICK g : PartialSums(g, k, n) /\ SumOver(k, n) = g[n]
    BY SumsAre
  <1>3. /\ f[0] = 0 /\ g[0] = 0
        /\ \A i \in 1..n : f[i] = f[i - 1] + h[i] /\ g[i] = g[i - 1] + k[i]
        /\ \A i \in 0..n : f[i] \in Nat /\ g[i] \in Nat
    BY <1>1, <1>2, SumsStep
  <1> DEFINE Bad == {i \in 0..n : g[i] # f[i] + (IF i < d THEN 0 ELSE c)}
  <1>4. Bad = {}
    <2> SUFFICES ASSUME Bad # {} PROVE FALSE
      OBVIOUS
    <2>0. Bad \subseteq Nat
      OBVIOUS
    <2> HIDE DEF Bad
    <2>1. PICK m \in Bad : \A j \in Bad : m <= j
      BY <2>0, LeastNatural
    <2> USE DEF Bad
    <2>a. 0 < d
      OBVIOUS
    <2>b. g[0] = f[0] + (IF 0 < d THEN 0 ELSE c)
      BY <1>3, <2>a
    <2>c. m \in 0..n /\ g[m] # f[m] + (IF m < d THEN 0 ELSE c)
      BY <2>1
    <2>2. m # 0 /\ m \in 1..n
      BY <2>b, <2>c
    <2>3. m - 1 \in 0..n /\ m - 1 \notin Bad
      BY <2>1, <2>2
    <2>4. g[m - 1] = f[m - 1] + (IF m - 1 < d THEN 0 ELSE c)
      BY <2>3
    <2> HIDE DEF Bad
    <2>5. f[m] = f[m - 1] + h[m] /\ g[m] = g[m - 1] + k[m]
          /\ f[m - 1] \in Nat /\ h[m] \in Nat
      BY <2>2, <2>3, <1>3
    <2>6. k[m] = h[m] + (IF m = d THEN c ELSE 0)
      <3>1. CASE m = d
        BY <3>1
      <3>2. CASE m # d
        <4>1. k[m] = h[m]
          BY <3>2, <2>2
        <4> QED  BY <4>1, <3>2, <2>5
      <3> QED  BY <3>1, <3>2
    <2>7. g[m] = f[m] + (IF m < d THEN 0 ELSE c)
      <3>1. m - 1 < d <=> m <= d
        BY <2>2
      <3>2. CASE m < d
        BY <3>1, <3>2, <2>2, <2>4, <2>5, <2>6
      <3>3. CASE m = d
        BY <3>3, <3>1, <2>2, <2>4, <2>5, <2>6
      <3>4. CASE m > d
        BY <3>4, <3>1, <2>2, <2>4, <2>5, <2>6
      <3> QED  BY <3>2, <3>3, <3>4, <2>2
    <2> QED  BY <2>c, <2>7
  <1>5. g[n] = f[n] + c
    <2>1. n \in 0..n /\ ~(n < d)
      OBVIOUS
    <2>2. n \notin Bad
      <3> HIDE DEF Bad
      <3> QED  BY <1>4
    <2>3. g[n] = f[n] + (IF n < d THEN 0 ELSE c)
      BY <2>1, <2>2
    <2> QED  BY <2>1, <2>3
  <1> QED  BY <1>1, <1>2, <1>5

LEMMA SmallSums ==
    ASSUME NEW h
    PROVE  /\ h \in [1..0 -> Nat] => SumOver(h, 0) = 0
           /\ h \in [1..1 -> Nat] => SumOver(h, 1) = h[1]
  <1>1. ASSUME h \in [1..0 -> Nat] PROVE SumOver(h, 0) = 0
    <2>1. PICK f : PartialSums(f, h, 0) /\ SumOver(h, 0) = f[0]
      BY <1>1, SumsAre
    <2> QED  BY <1>1, <2>1, SumsStep
  <1>2. ASSUME h \in [1..1 -> Nat] PROVE SumOver(h, 1) = h[1]
    <2>1. PICK f : PartialSums(f, h, 1) /\ SumOver(h, 1) = f[1]
      BY <1>2, SumsAre
    <2>2. f[0] = 0 /\ \A i \in 1..1 : f[i] = f[i - 1] + h[i]
      BY <1>2, <2>1, SumsStep
    <2>3. h[1] \in Nat
      BY <1>2
    <2> QED  BY <2>1, <2>2, <2>3
  <1> QED  BY <1>1, <1>2

LEMMA NothingSums ==
    ASSUME NEW n \in Nat, NEW h \in [1..n -> Nat], \A i \in 1..n : h[i] = 0
    PROVE  SumOver(h, n) = 0
  <1>1. PICK f : PartialSums(f, h, n) /\ SumOver(h, n) = f[n]
    BY SumsAre
  <1>2. f[0] = 0 /\ \A i \in 1..n : f[i] = f[i - 1] + h[i]
    BY <1>1, SumsStep
  <1> DEFINE Bad == {i \in 0..n : f[i] # 0}
  <1>3. Bad = {}
    <2> SUFFICES ASSUME Bad # {} PROVE FALSE
      OBVIOUS
    <2>1. Bad \subseteq Nat
      OBVIOUS
    <2> HIDE DEF Bad
    <2>2. PICK m \in Bad : \A j \in Bad : m <= j
      BY <2>1, LeastNatural
    <2> USE DEF Bad
    <2>3. m \in 1..n /\ m - 1 \in 0..n /\ m - 1 \notin Bad
      BY <2>2, <1>2
    <2>4. f[m - 1] = 0 /\ h[m] = 0
      BY <2>3
    <2> QED  BY <2>2, <2>3, <2>4, <1>2
  <1> QED  BY <1>1, <1>3

-----------------------------------------------------------------------------
(* The distribution.  Its loops have passed the slots behind them, and the *)
(* wishes of those slots, and of the candidates of the slot they are at    *)
(* that were taken from waiting, have been looked at.                      *)

HasDraft(e, d) == \E a \in drafts : a.employee = e /\ a.day = d

Told(e, d) == \E u \in unplaced : u.employee = e /\ u.day = d

IsBehind(d, s) == d < at.day \/ (d = at.day /\ s < at.slot)

Looked(e, d) ==
    /\ wish[e][d] \in Types
    /\ \/ IsBehind(d, SlotOf(wish[e][d]))
       \/ d = at.day /\ SlotOf(wish[e][d]) = at.slot /\ e \notin waiting

InSlot(d, s) == {a \in drafts : a.day = d /\ SlotOf(a.type) = s}

Heads(d, s) == Cardinality(InSlot(d, s)) + Preserved(d, s)

InputTypes ==
    /\ wish \in [Employees -> [PeriodDays -> Types \cup {NoType, BadType}]]
    /\ need \in [PeriodDays -> [1..Windows -> Nat]]
    /\ existing \in [Employees -> [PeriodDays -> Seq(Types)]]

\* A draft answers a wish that was looked at and a report one that was, or
\* one with an unusable type on a day that has begun; none has two answers.
AnswersInv ==
    /\ waiting \subseteq Employees
    /\ at.day <= LastDay => \A e \in waiting : AsksFor(e, at.day, at.slot)
    /\ \A a \in drafts : /\ Looked(a.employee, a.day) /\ a.type = wish[a.employee][a.day]
                         /\ Kept(a.employee, a.day) = NoType /\ ~Told(a.employee, a.day)
    /\ \A u \in unplaced : \/ Looked(u.employee, u.day)
                           \/ /\ wish[u.employee][u.day] = BadType /\ u.day <= at.day
                              /\ u.reason = "shift_type"
    /\ \A u, v \in unplaced : u.employee = v.employee /\ u.day = v.day => u = v
    /\ \A e \in Employees, d \in PeriodDays :
          /\ Looked(e, d) => HasDraft(e, d) \/ Told(e, d)
          /\ wish[e][d] = BadType /\ d <= at.day => Told(e, d)

\* The heads of the slot are counted, the shortages are those of the slots
\* behind, and whoever was looked at and is missing could not be placed.
SlotsInv ==
    /\ IsFiniteSet(drafts)
    /\ at.day <= LastDay => filled = Heads(at.day, at.slot)
    /\ \A d \in PeriodDays, s \in 1..Windows :
          /\ InSlot(d, s) # {} => Heads(d, s) <= need[d][s]
          /\ (\E x \in shortages : x.day = d /\ x.slot = s)
                <=> IsBehind(d, s) /\ Heads(d, s) < need[d][s]
          /\ Heads(d, s) < need[d][s] => \A e \in Candidates(d, s) :
                Looked(e, d) => Busy(e, d) \/ hours[e] + HoursOf(wish[e][d]) > MaxPeriodHours

HoursInv ==
    /\ \A e \in Employees : hours[e] = HoursKept(e) + DraftHours(e)
    /\ \A a \in drafts : hours[a.employee] <= MaxPeriodHours

DistributeInv == InputTypes /\ DistributeTypes /\ AnswersInv /\ SlotsInv /\ HoursInv

\* Facts of the constants.
LEMMA DistributeConstants ==
    /\ Staff \in Nat /\ LastDay \in Nat /\ LastDay # 0 /\ Windows \in Nat
    /\ MaxPeriodHours \in Nat /\ MaxNeed \in Nat
    /\ NoType \notin Types /\ BadType \notin Types /\ BadType # NoType
    /\ \A t \in Types : SlotOf(t) \in 1..(Windows + 1) /\ HoursOf(t) \in Nat
    /\ \A d \in PeriodDays : MaxKept(d) \in Nat
  BY DistributeAssumption DEF DistributeAssumption, Slots

LEMMA KeptIs ==
    ASSUME InputTypes, NEW e \in Employees, NEW d \in PeriodDays
    PROVE  /\ Kept(e, d) \in Types \cup {NoType}
           /\ Len(existing[e][d]) \in Nat
           /\ \A i \in 1..Len(existing[e][d]) : existing[e][d][i] \in Types
           /\ Kept(e, d) = IF Len(existing[e][d]) = 0 THEN NoType
                           ELSE existing[e][d][Len(existing[e][d])]
  <1>1. existing[e][d] \in Seq(Types)
    BY DEF InputTypes
  <1>2. \A q \in Seq(Types) : /\ Len(q) \in Nat /\ \A i \in 1..Len(q) : q[i] \in Types
                              /\ q = <<>> <=> Len(q) = 0
                              /\ Len(q) # 0 => Len(q) \in 1..Len(q)
    OBVIOUS
  <1> QED  BY <1>1, <1>2 DEF Kept

LEMMA PreservedIsNat == \A d, s : Preserved(d, s) \in Nat
  <1> SUFFICES ASSUME NEW d, NEW s PROVE Preserved(d, s) \in Nat
    OBVIOUS
  <1> DEFINE P == {e \in Employees : Kept(e, d) \in Types /\ SlotOf(Kept(e, d)) = s}
  <1>1. IsFiniteSet(Employees)
    BY DistributeConstants, FS_Interval DEF Employees
  <1>2. P \subseteq Employees
    OBVIOUS
  <1>3. IsFiniteSet(P)
    BY <1>1, <1>2, FS_Subset
  <1>4. Cardinality(P) \in Nat
    BY <1>3, FS_CardinalityType
  <1> QED  BY <1>4 DEF Preserved

\* The hours an employee has on each day before and by the distribution.
KeptOf(e) == [d \in PeriodDays |-> IF Kept(e, d) = NoType THEN 0 ELSE HoursOf(Kept(e, d))]
DraftsOf(e) == [d \in PeriodDays |-> IF HasDraft(e, d) THEN HoursOf(wish[e][d]) ELSE 0]

LEMMA HoursKeptIsNat ==
    ASSUME InputTypes, NEW e \in Employees
    PROVE  HoursKept(e) \in Nat
  <1>1. \A d \in PeriodDays : Kept(e, d) \in Types \cup {NoType}
    BY KeptIs
  <1>2. KeptOf(e) \in [1..LastDay -> Nat]
    BY <1>1, DistributeConstants DEF KeptOf, PeriodDays
  <1> QED  BY <1>2, DistributeConstants, SumIsNat DEF HoursKept, KeptOf

LEMMA DraftHoursAre ==
    ASSUME InputTypes, NEW e \in Employees,
           \A d \in PeriodDays : HasDraft(e, d) => wish[e][d] \in Types
    PROVE  DraftsOf(e) \in [1..LastDay -> Nat] /\ DraftHours(e) = SumOver(DraftsOf(e), LastDay)
           /\ DraftHours(e) \in Nat
  <1>1. DraftsOf(e) \in [1..LastDay -> Nat]
    BY DistributeConstants DEF DraftsOf, PeriodDays
  <1>2. DraftHours(e) = SumOver(DraftsOf(e), LastDay)
    BY Zenon DEF DraftHours, DraftsOf, HasDraft
  <1> QED  BY <1>1, <1>2, DistributeConstants, SumIsNat

LEMMA HoursThereAre ==
    ASSUME InputTypes, NEW e \in Employees, \A d \in PeriodDays : Len(existing[e][d]) <= 1
    PROVE  HoursThere(e) = HoursKept(e)
  <1> DEFINE h(d) == [i \in 1..Len(existing[e][d]) |-> HoursOf(existing[e][d][i])]
             S(d) == SumOver(h(d), Len(existing[e][d]))
  <1>1. ASSUME NEW d \in PeriodDays
        PROVE  S(d) = IF Kept(e, d) = NoType THEN 0 ELSE HoursOf(Kept(e, d))
    <2> DEFINE n == Len(existing[e][d])
    <2>1. /\ n \in Nat /\ n <= 1
          /\ \A i \in 1..n : existing[e][d][i] \in Types
          /\ Kept(e, d) = IF n = 0 THEN NoType ELSE existing[e][d][n]
      BY KeptIs
    <2>2. h(d) = [i \in 1..n |-> HoursOf(existing[e][d][i])] /\ S(d) = SumOver(h(d), n)
      OBVIOUS
    <2> HIDE DEF n, S
    <2>3. h(d) \in [1..n -> Nat]
      BY <2>1, <2>2, DistributeConstants
    <2>4. CASE n = 0
      <3>1. SumOver(h(d), 0) = 0
        BY <2>3, <2>4, SmallSums
      <3> QED  BY <2>1, <2>2, <2>4, <3>1
    <2>5. CASE n = 1
      <3> HIDE DEF h
      <3>1. SumOver(h(d), 1) = h(d)[1]
        BY <2>3, <2>5, SmallSums
      <3>2. h(d)[1] = HoursOf(existing[e][d][1])
        BY <2>2, <2>5
      <3>3. existing[e][d][1] \in Types /\ Kept(e, d) = existing[e][d][1]
        BY <2>1, <2>5
      <3> QED  BY <2>2, <2>5, <3>1, <3>2, <3>3, DistributeConstants
    <2> QED  BY <2>1, <2>4, <2>5
  <1>2. HoursThere(e) = SumOver([d \in PeriodDays |-> S(d)], LastDay)
    BY DEF HoursThere
  <1> HIDE DEF S
  <1>3. [d \in PeriodDays |-> S(d)] = KeptOf(e)
    BY <1>1 DEF KeptOf
  <1> QED  BY <1>2, <1>3, Zenon DEF HoursKept, KeptOf

\* Looked at once the loops have finished: every wish for a shift.
LEMMA FinishedLooksAtAll ==
    ASSUME InputTypes, DistributeTypes, Finished, NEW e \in Employees, NEW d \in PeriodDays
    PROVE  Looked(e, d) <=> wish[e][d] \in Types
  BY DistributeConstants DEF Finished, Looked, IsBehind, DistributeTypes, PeriodDays

LEMMA SingletonCount == ASSUME NEW S, NEW x \in S, \A y \in S : y = x PROVE Cardinality(S) = 1
  <1>1. S = {x}
    OBVIOUS
  <1> QED  BY <1>1, FS_Singleton

LEMMA AnswersFollow == DistributeInv => WishesAnsweredOnce
  <1> SUFFICES ASSUME DistributeInv, Finished, NEW e \in Employees, NEW d \in PeriodDays
               PROVE  LET placed == {a \in drafts : a.employee = e /\ a.day = d}
                          told == {u \in unplaced : u.employee = e /\ u.day = d} IN
                      /\ wish[e][d] = NoType => placed = {} /\ told = {}
                      /\ wish[e][d] # NoType => Cardinality(placed) + Cardinality(told) = 1
                      /\ \A a \in placed : a.type = wish[e][d] /\ Kept(e, d) = NoType
    BY DEF WishesAnsweredOnce
  <1> DEFINE placed == {a \in drafts : a.employee = e /\ a.day = d}
             told == {u \in unplaced : u.employee = e /\ u.day = d}
  <1>1. Looked(e, d) <=> wish[e][d] \in Types
    BY FinishedLooksAtAll DEF DistributeInv
  <1>2. \A a \in placed : /\ Looked(e, d) /\ a.type = wish[e][d] /\ Kept(e, d) = NoType
                          /\ ~Told(e, d)
    BY DEF DistributeInv, AnswersInv
  <1>3. \A u \in told : Looked(e, d) \/ wish[e][d] = BadType
    BY DEF DistributeInv, AnswersInv
  <1>4. /\ Looked(e, d) => HasDraft(e, d) \/ Told(e, d)
        /\ wish[e][d] = BadType => Told(e, d)
    BY DistributeConstants DEF DistributeInv, AnswersInv, DistributeTypes, Finished, PeriodDays
  <1>5. (HasDraft(e, d) <=> placed # {}) /\ (Told(e, d) <=> told # {})
    BY DEF HasDraft, Told
  <1>6. wish[e][d] \in Types \cup {NoType, BadType}
    BY DEF DistributeInv, InputTypes
  <1>7. \A a, b \in placed : a = b
    <2> SUFFICES ASSUME NEW a \in placed, NEW b \in placed PROVE a = b
      OBVIOUS
    <2>1. a.type = b.type /\ a.employee = b.employee /\ a.day = b.day
      BY <1>2
    <2>2. a \in [employee : Employees, day : PeriodDays, type : Types]
          /\ b \in [employee : Employees, day : PeriodDays, type : Types]
      BY DEF DistributeInv, DistributeTypes
    <2> QED  BY <2>1, <2>2
  <1>8. \A u, v \in told : u = v
    BY DEF DistributeInv, AnswersInv
  <1> HIDE DEF placed, told
  <1>9. wish[e][d] = NoType => placed = {} /\ told = {}
    BY <1>1, <1>2, <1>3, DistributeConstants
  <1>10. ASSUME wish[e][d] # NoType PROVE Cardinality(placed) + Cardinality(told) = 1
    <2>1. placed # {} \/ told # {}
      BY <1>10, <1>1, <1>4, <1>5, <1>6
    <2>2. placed = {} \/ told = {}
      BY <1>2, <1>5
    <2>3. Cardinality({}) = 0
      BY FS_EmptySet
    <2>4. placed # {} => Cardinality(placed) = 1
      BY <1>7, SingletonCount
    <2>5. told # {} => Cardinality(told) = 1
      BY <1>8, SingletonCount
    <2> QED  BY <2>1, <2>2, <2>3, <2>4, <2>5
  <1>11. \A a \in placed : a.type = wish[e][d] /\ Kept(e, d) = NoType
    BY <1>2
  <1> QED  BY <1>9, <1>10, <1>11 DEF placed, told

LEMMA ShortagesFollow == DistributeInv => ShortagesAreReal
  <1> SUFFICES ASSUME DistributeInv, Finished, NEW d \in PeriodDays, NEW s \in 1..Windows
               PROVE  LET in == {a \in drafts : a.day = d /\ SlotOf(a.type) = s}
                          heads == Cardinality(in) + Preserved(d, s) IN
                      /\ in # {} => heads <= need[d][s]
                      /\ (\E x \in shortages : x.day = d /\ x.slot = s) <=> heads < need[d][s]
                      /\ heads < need[d][s] => \A e \in Candidates(d, s) :
                            Busy(e, d) \/ hours[e] + HoursOf(wish[e][d]) > MaxPeriodHours
    BY DEF ShortagesAreReal
  <1>1. IsBehind(d, s)
    BY DistributeConstants DEF DistributeInv, DistributeTypes, Finished, IsBehind, PeriodDays
  <1>2. \A e \in Candidates(d, s) : e \in Employees /\ wish[e][d] \in Types
    BY DEF Candidates, AsksFor
  <1>3. \A e \in Candidates(d, s) : Looked(e, d)
    BY <1>2, FinishedLooksAtAll DEF DistributeInv
  <1> HIDE DEF Finished
  <1>4. /\ InSlot(d, s) # {} => Heads(d, s) <= need[d][s]
        /\ (\E x \in shortages : x.day = d /\ x.slot = s) <=> Heads(d, s) < need[d][s]
        /\ Heads(d, s) < need[d][s] => \A e \in Candidates(d, s) :
              Busy(e, d) \/ hours[e] + HoursOf(wish[e][d]) > MaxPeriodHours
    BY <1>1, <1>3 DEF DistributeInv, SlotsInv
  <1> QED  BY <1>4, Zenon DEF Heads, InSlot

LEMMA CapFollows == DistributeInv => CapHolds
  <1> SUFFICES ASSUME DistributeInv, NEW e \in Employees,
                      \E a \in drafts : a.employee = e,
                      \A d \in PeriodDays : Len(existing[e][d]) <= 1
               PROVE  HoursThere(e) + DraftHours(e) <= MaxPeriodHours
    BY DEF CapHolds
  <1>1. HoursThere(e) = HoursKept(e)
    BY HoursThereAre DEF DistributeInv
  <1>2. hours[e] = HoursKept(e) + DraftHours(e) /\ hours[e] <= MaxPeriodHours
    BY DEF DistributeInv, HoursInv
  <1> QED  BY <1>1, <1>2

LEMMA DistributionFollows == DistributeInv => DistributionIsExact
  BY AnswersFollow, ShortagesFollow, CapFollows DEF DistributionIsExact

LEMMA BadWishesAre ==
    ASSUME InputTypes, NEW d \in PeriodDays
    PROVE  /\ BadWishes(d) \subseteq [employee : Employees, day : {d}, reason : {"shift_type"}]
           /\ \A e \in Employees : wish[e][d] = BadType <=> \E u \in BadWishes(d) : u.employee = e
           /\ \A u, v \in BadWishes(d) : u.employee = v.employee => u = v
           /\ \A u \in BadWishes(d) : u.day = d /\ u.reason = "shift_type"
                                      /\ wish[u.employee][d] = BadType
  <1> DEFINE B == {e \in Employees : wish[e][d] = BadType}
             r(e) == [employee |-> e, day |-> d, reason |-> "shift_type"]
  <1>1. BadWishes(d) = {r(e) : e \in B}
    BY DEF BadWishes
  <1>2. \A e \in B : r(e).employee = e /\ r(e).day = d /\ r(e).reason = "shift_type"
                    /\ r(e) \in [employee : Employees, day : {d}, reason : {"shift_type"}]
    OBVIOUS
  <1> HIDE DEF r
  <1>3. \A e \in Employees : e \in B <=> wish[e][d] = BadType
    OBVIOUS
  <1>4. \A u \in BadWishes(d) : \E e \in B : u = r(e)
    BY <1>1
  <1>5. \A u \in BadWishes(d) : u.employee \in B /\ u = r(u.employee)
    BY <1>2, <1>4
  <1>6. \A e \in B : r(e) \in BadWishes(d)
    BY <1>1
  <1> HIDE DEF B
  <1>7. \A u \in BadWishes(d) : u \in [employee : Employees, day : {d}, reason : {"shift_type"}]
    BY <1>2, <1>5
  <1>8. \A u, v \in BadWishes(d) : u.employee = v.employee => u = v
    BY <1>5
  <1>9. \A e \in Employees : wish[e][d] = BadType <=> \E u \in BadWishes(d) : u.employee = e
    BY <1>2, <1>3, <1>5, <1>6
  <1>10. \A u \in BadWishes(d) : u.day = d /\ u.reason = "shift_type" /\ u.employee \in Employees
    BY <1>2, <1>5, <1>7
  <1>11. \A u \in BadWishes(d) : wish[u.employee][d] = BadType
    BY <1>3, <1>5, <1>10
  <1> QED  BY <1>7, <1>8, <1>9, <1>10, <1>11

LEMMA HeadsAre ==
    ASSUME IsFiniteSet(drafts), NEW d, NEW s
    PROVE  IsFiniteSet(InSlot(d, s)) /\ Cardinality(InSlot(d, s)) \in Nat /\ Heads(d, s) \in Nat
  <1>1. InSlot(d, s) \subseteq drafts
    BY DEF InSlot
  <1>2. IsFiniteSet(InSlot(d, s))
    BY <1>1, FS_Subset
  <1>3. Cardinality(InSlot(d, s)) \in Nat
    BY <1>2, FS_CardinalityType
  <1> QED  BY <1>2, <1>3, PreservedIsNat DEF Heads

LEMMA DistributeInvInit == DistributeInit => DistributeInv
  <1> SUFFICES ASSUME DistributeInit PROVE DistributeInv
    OBVIOUS
  <1> USE DistributeConstants
  <1>1. InputTypes
    <2>1. need \in [PeriodDays -> [1..Windows -> 0..MaxNeed]] /\ 0..MaxNeed \subseteq Nat
      BY DEF DistributeInit
    <2>2. \A d \in PeriodDays : need[d] \in [1..Windows -> Nat]
      BY <2>1
    <2>3. need \in [PeriodDays -> [1..Windows -> Nat]]
      BY <2>1, <2>2
    <2>4. \A d \in PeriodDays : Lists(d) \subseteq Seq(Types)
      BY DEF Lists
    <2>5. \A e \in Employees : existing[e] \in [PeriodDays -> Seq(Types)]
      BY <2>4 DEF DistributeInit
    <2>6. existing \in [Employees -> [PeriodDays -> Seq(Types)]]
      BY <2>5 DEF DistributeInit
    <2> QED  BY <2>3, <2>6 DEF InputTypes, DistributeInit
  <1>2. 1 \in PeriodDays /\ 1 \in Slots /\ at = [day |-> 1, slot |-> 1] /\ drafts = {} /\ shortages = {}
        /\ unplaced = BadWishes(1) /\ at.day = 1 /\ at.slot = 1
    BY DEF DistributeInit, PeriodDays, Slots
  <1>3. hours \in [Employees -> Nat] /\ \A e \in Employees : hours[e] = HoursKept(e)
    BY <1>1, HoursKeptIsNat DEF DistributeInit
  <1>4. DistributeTypes
    <2>1. at \in [day : 1..(LastDay + 1), slot : Slots]
      BY <1>2
    <2>2. waiting \subseteq Employees
      BY DEF DistributeInit, Candidates
    <2>3. filled \in Nat
      BY PreservedIsNat DEF DistributeInit
    <2>4. unplaced \subseteq [employee : Employees, day : PeriodDays, reason : {"shift_type",
            "already_assigned", "headcount", "max_period_hours_exceeded"}]
      BY <1>1, <1>2, BadWishesAre
    <2> QED  BY <1>2, <1>3, <2>1, <2>2, <2>3, <2>4 DEF DistributeTypes
  <1>5. \A e \in Employees, d \in PeriodDays : ~Looked(e, d)
    <2> SUFFICES ASSUME NEW e \in Employees, NEW d \in PeriodDays, Looked(e, d) PROVE FALSE
      OBVIOUS
    <2>1. wish[e][d] \in Types /\ SlotOf(wish[e][d]) \in 1..(Windows + 1) /\ d \in Nat /\ d >= 1
      BY DEF Looked, PeriodDays
    <2>2. ~IsBehind(d, SlotOf(wish[e][d]))
      BY <2>1, <1>2 DEF IsBehind
    <2>3. d = 1 /\ SlotOf(wish[e][d]) = 1 /\ e \notin waiting
      BY <2>2, <1>2 DEF Looked
    <2> QED  BY <2>1, <2>3 DEF DistributeInit, Candidates, AsksFor
  <1>6. AnswersInv
    <2>1. \A e \in waiting : AsksFor(e, 1, 1)
      BY DEF DistributeInit, Candidates
    <2>2. \A u \in unplaced : u.day = 1 /\ u.reason = "shift_type" /\ wish[u.employee][1] = BadType
      BY <1>1, <1>2, BadWishesAre
    <2>3. \A u, v \in unplaced : u.employee = v.employee => u = v
      BY <1>1, <1>2, BadWishesAre
    <2>4. ASSUME NEW e \in Employees, NEW d \in PeriodDays, wish[e][d] = BadType, d <= 1
          PROVE  Told(e, d)
      <3>1. d = 1
        BY <2>4 DEF PeriodDays
      <3>2. \E u \in BadWishes(1) : u.employee = e
        BY <3>1, <2>4, <1>1, <1>2, BadWishesAre
      <3> QED  BY <3>1, <3>2, <1>2, <2>2 DEF Told
    <2> QED  BY <1>2, <1>4, <1>5, <2>1, <2>2, <2>3, <2>4 DEF AnswersInv, DistributeTypes
  <1>7. SlotsInv
    <2>1. IsFiniteSet(drafts) /\ Cardinality({}) = 0
      BY <1>2, FS_EmptySet
    <2>2. \A d, s : InSlot(d, s) = {}
      BY <1>2 DEF InSlot
    <2>3. filled = Heads(1, 1)
      <3>1. filled = Preserved(1, 1) /\ Preserved(1, 1) \in Nat
        BY PreservedIsNat DEF DistributeInit
      <3> QED  BY <3>1, <2>1, <2>2 DEF Heads
    <2>4. \A d \in PeriodDays, s \in 1..Windows : ~IsBehind(d, s)
      BY <1>2 DEF IsBehind, PeriodDays
    <2>5. \A d, s : \A e \in Candidates(d, s) : e \in Employees
      BY DEF Candidates
    <2> QED  BY <1>2, <1>5, <2>1, <2>2, <2>3, <2>4, <2>5 DEF SlotsInv
  <1>8. HoursInv
    <2>1. ASSUME NEW e \in Employees PROVE DraftHours(e) = 0
      <3>1. \A d \in PeriodDays : ~HasDraft(e, d)
        BY <1>2 DEF HasDraft
      <3> QED  BY <1>1, <3>1, DraftHoursAre, NothingSums DEF DraftsOf, PeriodDays
    <2>2. \A e \in Employees : HoursKept(e) \in Nat
      BY <1>1, HoursKeptIsNat
    <2> QED  BY <1>2, <1>3, <2>1, <2>2 DEF HoursInv
  <1> QED  BY <1>1, <1>4, <1>6, <1>7, <1>8 DEF DistributeInv

LEMMA InputStays ==
    ASSUME UNCHANGED input
    PROVE  /\ wish' = wish /\ need' = need /\ existing' = existing
           /\ InputTypes <=> InputTypes'
           /\ \A e, d : Kept(e, d)' = Kept(e, d)
           /\ \A d, s : Preserved(d, s)' = Preserved(d, s)
           /\ \A d, s : Candidates(d, s)' = Candidates(d, s)
           /\ \A e : HoursKept(e)' = HoursKept(e)
  <1>1. wish' = wish /\ need' = need /\ existing' = existing
    BY DEF input
  <1>2. \A e, d : Kept(e, d)' = Kept(e, d)
    BY <1>1, Zenon DEF Kept
  <1>3. \A d, s : Preserved(d, s)' = Preserved(d, s)
    BY <1>1, Zenon DEF Preserved, Kept
  <1>4. \A d, s : Candidates(d, s)' = Candidates(d, s)
    BY <1>1, Zenon DEF Candidates, AsksFor
  <1>5. \A e : HoursKept(e)' = HoursKept(e)
    BY <1>1, Zenon DEF HoursKept, Kept
  <1> QED  BY <1>1, <1>2, <1>3, <1>4, <1>5 DEF InputTypes

\* Consider looks at one wish, which nothing answered before.
LEMMA LooksAtOne ==
    ASSUME DistributeInv, NEW e \in Employees, Consider(e)
    PROVE  /\ UNCHANGED input /\ at' = at /\ waiting' = waiting \ {e} /\ shortages' = shortages
           /\ at.day \in PeriodDays /\ at.slot \in Slots
           /\ wish[e][at.day] \in Types /\ SlotOf(wish[e][at.day]) = at.slot
           /\ ~HasDraft(e, at.day) /\ ~Told(e, at.day)
           /\ \A f \in Employees, d \in PeriodDays :
                 Looked(f, d)' <=> Looked(f, d) \/ (f = e /\ d = at.day)
  <1> USE DistributeConstants
  <1>1. UNCHANGED input /\ at' = at /\ waiting' = waiting \ {e} /\ shortages' = shortages
        /\ at.day <= LastDay /\ e \in waiting
    BY DEF Consider
  <1>2. at.day \in PeriodDays /\ at.slot \in Slots
    BY <1>1 DEF DistributeInv, DistributeTypes, PeriodDays
  <1>3. wish[e][at.day] \in Types /\ SlotOf(wish[e][at.day]) = at.slot
    BY <1>1 DEF DistributeInv, AnswersInv, AsksFor
  <1>4. ~IsBehind(at.day, at.slot)
    BY <1>2 DEF IsBehind, PeriodDays, Slots
  <1>5. ~Looked(e, at.day)
    BY <1>1, <1>3, <1>4 DEF Looked
  <1>6. ~HasDraft(e, at.day) /\ ~Told(e, at.day)
    BY <1>3, <1>5 DEF DistributeInv, AnswersInv, HasDraft, Told
  <1>7. wish' = wish
    BY <1>1 DEF input
  <1>8. ASSUME NEW f \in Employees, NEW d \in PeriodDays
        PROVE  Looked(f, d)' <=> Looked(f, d) \/ (f = e /\ d = at.day)
    <2>1. IsBehind(d, SlotOf(wish[f][d]))' <=> IsBehind(d, SlotOf(wish[f][d]))
      BY <1>1, <1>7 DEF IsBehind
    <2>2. f \notin waiting' <=> f \notin waiting \/ f = e
      BY <1>1
    <2> QED  BY <1>1, <1>3, <1>7, <2>1, <2>2 DEF Looked
  <1> QED  BY <1>1, <1>2, <1>3, <1>6, <1>8

LEMMA RefusalIs ==
    ASSUME NEW e
    PROVE  /\ Refusal(e) = "none" =>
                 ~Busy(e, at.day) /\ ~Full(at.day, at.slot)
                 /\ ~Exceeds(hours[e] + HoursOf(wish[e][at.day]))
           /\ Refusal(e) # "none" =>
                 /\ Refusal(e) \in {"already_assigned", "headcount", "max_period_hours_exceeded"}
                 /\ \/ Busy(e, at.day) \/ Full(at.day, at.slot)
                    \/ Exceeds(hours[e] + HoursOf(wish[e][at.day]))
  BY DEF Refusal

\* The draft that Consider makes, and the report.
DraftOf(e) == [employee |-> e, day |-> at.day, type |-> wish[e][at.day]]
ReportOf(e) == [employee |-> e, day |-> at.day, reason |-> Refusal(e)]

LEMMA ConsiderPlaces ==
    ASSUME NEW e \in Employees, Consider(e), Refusal(e) = "none"
    PROVE  /\ drafts' = drafts \cup {DraftOf(e)} /\ unplaced' = unplaced
           /\ hours' = [hours EXCEPT ![e] = @ + HoursOf(wish[e][at.day])]
           /\ filled' = filled + 1
  BY DEF Consider, DraftOf

LEMMA ConsiderReports ==
    ASSUME NEW e \in Employees, Consider(e), Refusal(e) # "none"
    PROVE  /\ unplaced' = unplaced \cup {ReportOf(e)}
           /\ drafts' = drafts /\ hours' = hours /\ filled' = filled
  BY DEF Consider, ReportOf

LEMMA PlacedTypes ==
    ASSUME DistributeInv, NEW e \in Employees, Consider(e), Refusal(e) = "none"
    PROVE  DistributeTypes'
  <1> USE DistributeConstants, LooksAtOne, ConsiderPlaces
  <1>1. HoursOf(wish[e][at.day]) \in Nat
    OBVIOUS
  <1>2. hours' \in [Employees -> Nat]
    BY <1>1 DEF DistributeInv, DistributeTypes
  <1>3. DraftOf(e) \in [employee : Employees, day : PeriodDays, type : Types]
    BY DEF DraftOf
  <1> QED  BY <1>2, <1>3 DEF DistributeInv, DistributeTypes

LEMMA ReportedTypes ==
    ASSUME DistributeInv, NEW e \in Employees, Consider(e), Refusal(e) # "none"
    PROVE  DistributeTypes'
  <1> USE LooksAtOne, ConsiderReports
  <1>1. ReportOf(e) \in [employee : Employees, day : PeriodDays, reason : {"shift_type",
            "already_assigned", "headcount", "max_period_hours_exceeded"}]
    BY RefusalIs DEF ReportOf
  <1> QED  BY <1>1 DEF DistributeInv, DistributeTypes

LEMMA PlacedAnswers ==
    ASSUME DistributeInv, NEW e \in Employees, Consider(e), Refusal(e) = "none"
    PROVE  AnswersInv'
  <1>1. /\ UNCHANGED input /\ at' = at /\ waiting' = waiting \ {e}
        /\ at.day \in PeriodDays
        /\ ~HasDraft(e, at.day) /\ ~Told(e, at.day)
        /\ \A f \in Employees, d \in PeriodDays :
              Looked(f, d)' <=> Looked(f, d) \/ (f = e /\ d = at.day)
    BY LooksAtOne
  <1>2. wish' = wish /\ \A f, d : Kept(f, d)' = Kept(f, d)
    BY <1>1, InputStays
  <1>3. drafts' = drafts \cup {DraftOf(e)} /\ unplaced' = unplaced
    BY ConsiderPlaces
  <1>4. /\ \A a \in drafts : a.employee \in Employees /\ a.day \in PeriodDays
        /\ \A u \in unplaced : u.employee \in Employees /\ u.day \in PeriodDays
    BY DEF DistributeInv, DistributeTypes
  <1>5. DraftOf(e).employee = e /\ DraftOf(e).day = at.day /\ DraftOf(e).type = wish[e][at.day]
    BY DEF DraftOf
  <1>6. \A f, d : Told(f, d)' <=> Told(f, d)
    BY <1>3 DEF Told
  <1>7. \A f, d : HasDraft(f, d)' <=> HasDraft(f, d) \/ (f = e /\ d = at.day)
    BY <1>3, <1>5 DEF HasDraft
  <1>8. Kept(e, at.day) = NoType
    BY RefusalIs DEF Busy
  <1>9. /\ waiting' \subseteq Employees
        /\ at'.day <= LastDay => \A f \in waiting' : AsksFor(f, at.day, at.slot)'
    BY <1>1, <1>2 DEF DistributeInv, AnswersInv, AsksFor
  <1>10. ASSUME NEW a \in drafts'
         PROVE  /\ Looked(a.employee, a.day)' /\ a.type = wish'[a.employee][a.day]
                /\ Kept(a.employee, a.day)' = NoType /\ ~Told(a.employee, a.day)'
    <2>1. CASE a \in drafts
      BY <2>1, <1>1, <1>2, <1>4, <1>6 DEF DistributeInv, AnswersInv
    <2>2. CASE a = DraftOf(e)
      BY <2>2, <1>1, <1>2, <1>5, <1>6, <1>8
    <2> QED  BY <1>3, <2>1, <2>2
  <1>11. ASSUME NEW u \in unplaced'
         PROVE  \/ Looked(u.employee, u.day)'
                \/ wish'[u.employee][u.day] = BadType /\ u.day <= at'.day /\ u.reason = "shift_type"
    BY <1>1, <1>2, <1>3, <1>4 DEF DistributeInv, AnswersInv
  <1>12. \A u, v \in unplaced' : u.employee = v.employee /\ u.day = v.day => u = v
    BY <1>3 DEF DistributeInv, AnswersInv
  <1>13. ASSUME NEW f \in Employees, NEW d \in PeriodDays
         PROVE  /\ Looked(f, d)' => HasDraft(f, d)' \/ Told(f, d)'
                /\ wish'[f][d] = BadType /\ d <= at'.day => Told(f, d)'
    BY <1>1, <1>2, <1>6, <1>7 DEF DistributeInv, AnswersInv
  <1> QED  BY <1>9, <1>10, <1>11, <1>12, <1>13 DEF AnswersInv

LEMMA ReportedAnswers ==
    ASSUME DistributeInv, NEW e \in Employees, Consider(e), Refusal(e) # "none"
    PROVE  AnswersInv'
  <1>1. /\ UNCHANGED input /\ at' = at /\ waiting' = waiting \ {e}
        /\ at.day \in PeriodDays
        /\ ~HasDraft(e, at.day) /\ ~Told(e, at.day)
        /\ \A f \in Employees, d \in PeriodDays :
              Looked(f, d)' <=> Looked(f, d) \/ (f = e /\ d = at.day)
    BY LooksAtOne
  <1>2. wish' = wish /\ \A f, d : Kept(f, d)' = Kept(f, d)
    BY <1>1, InputStays
  <1>3. unplaced' = unplaced \cup {ReportOf(e)} /\ drafts' = drafts
    BY ConsiderReports
  <1>4. /\ \A a \in drafts : a.employee \in Employees /\ a.day \in PeriodDays
        /\ \A u \in unplaced : u.employee \in Employees /\ u.day \in PeriodDays
    BY DEF DistributeInv, DistributeTypes
  <1>5. ReportOf(e).employee = e /\ ReportOf(e).day = at.day
    BY DEF ReportOf
  <1>6. \A f, d : Told(f, d)' <=> Told(f, d) \/ (f = e /\ d = at.day)
    BY <1>3, <1>5 DEF Told
  <1>7. \A f, d : HasDraft(f, d)' <=> HasDraft(f, d)
    BY <1>3 DEF HasDraft
  <1>8. /\ waiting' \subseteq Employees
        /\ at'.day <= LastDay => \A f \in waiting' : AsksFor(f, at.day, at.slot)'
    BY <1>1, <1>2 DEF DistributeInv, AnswersInv, AsksFor
  <1>9. ASSUME NEW a \in drafts'
        PROVE  /\ Looked(a.employee, a.day)' /\ a.type = wish'[a.employee][a.day]
               /\ Kept(a.employee, a.day)' = NoType /\ ~Told(a.employee, a.day)'
    <2>1. ~(a.employee = e /\ a.day = at.day)
      BY <1>1, <1>3 DEF HasDraft
    <2> QED  BY <2>1, <1>1, <1>2, <1>3, <1>4, <1>6 DEF DistributeInv, AnswersInv
  <1>10. ASSUME NEW u \in unplaced'
         PROVE  \/ Looked(u.employee, u.day)'
                \/ wish'[u.employee][u.day] = BadType /\ u.day <= at'.day /\ u.reason = "shift_type"
    <2>1. CASE u \in unplaced
      BY <2>1, <1>1, <1>2, <1>4 DEF DistributeInv, AnswersInv
    <2>2. CASE u = ReportOf(e)
      BY <2>2, <1>1, <1>5
    <2> QED  BY <1>3, <2>1, <2>2
  <1>11. \A u \in unplaced : ~(u.employee = e /\ u.day = at.day)
    BY <1>1 DEF Told
  <1>12. \A u, v \in unplaced' : u.employee = v.employee /\ u.day = v.day => u = v
    <2>1. \A u, v \in unplaced : u.employee = v.employee /\ u.day = v.day => u = v
      BY DEF DistributeInv, AnswersInv
    <2> QED  BY <1>3, <1>5, <1>11, <2>1
  <1>13. ASSUME NEW f \in Employees, NEW d \in PeriodDays
         PROVE  /\ Looked(f, d)' => HasDraft(f, d)' \/ Told(f, d)'
                /\ wish'[f][d] = BadType /\ d <= at'.day => Told(f, d)'
    BY <1>1, <1>2, <1>6, <1>7 DEF DistributeInv, AnswersInv
  <1> QED  BY <1>8, <1>9, <1>10, <1>12, <1>13 DEF AnswersInv

\* A draft adds a head to the slot the loops are at.
LEMMA PlacedHeads ==
    ASSUME DistributeInv, NEW e \in Employees, Consider(e), Refusal(e) = "none",
           NEW d \in PeriodDays, NEW s \in Slots
    PROVE  /\ Heads(d, s) \in Nat
           /\ Heads(d, s)' = IF d = at.day /\ s = at.slot THEN Heads(d, s) + 1 ELSE Heads(d, s)
           /\ ~(d = at.day /\ s = at.slot) => InSlot(d, s)' = InSlot(d, s)
  <1>1. /\ UNCHANGED input /\ SlotOf(wish[e][at.day]) = at.slot /\ ~HasDraft(e, at.day)
    BY LooksAtOne
  <1>2. Preserved(d, s)' = Preserved(d, s) /\ Preserved(d, s) \in Nat
    BY <1>1, InputStays, PreservedIsNat
  <1>3. drafts' = drafts \cup {DraftOf(e)} /\ DraftOf(e) \notin drafts
    BY <1>1, ConsiderPlaces DEF HasDraft, DraftOf
  <1>4. DraftOf(e).day = at.day /\ DraftOf(e).type = wish[e][at.day]
    BY DEF DraftOf
  <1>5. /\ IsFiniteSet(InSlot(d, s)) /\ Cardinality(InSlot(d, s)) \in Nat /\ Heads(d, s) \in Nat
    BY HeadsAre DEF DistributeInv, SlotsInv
  <1>6. CASE d = at.day /\ s = at.slot
    <2>1. InSlot(d, s)' = InSlot(d, s) \cup {DraftOf(e)} /\ DraftOf(e) \notin InSlot(d, s)
      BY <1>1, <1>3, <1>4, <1>6 DEF InSlot
    <2>2. Cardinality(InSlot(d, s)') = Cardinality(InSlot(d, s)) + 1
      BY <1>5, <2>1, FS_AddElement
    <2> QED  BY <1>2, <1>5, <1>6, <2>2 DEF Heads
  <1>7. CASE ~(d = at.day /\ s = at.slot)
    <2>1. InSlot(d, s)' = InSlot(d, s)
      BY <1>1, <1>3, <1>4, <1>7 DEF InSlot
    <2>2. Cardinality(InSlot(d, s))' = Cardinality(InSlot(d, s))
      BY <2>1
    <2> QED  BY <1>2, <1>5, <1>7, <2>1, <2>2 DEF Heads
  <1> QED  BY <1>6, <1>7

LEMMA PlacedSlots ==
    ASSUME DistributeInv, NEW e \in Employees, Consider(e), Refusal(e) = "none"
    PROVE  SlotsInv'
  <1> USE DistributeConstants
  <1>1. /\ UNCHANGED input /\ at' = at /\ waiting' = waiting \ {e} /\ shortages' = shortages
        /\ at.day \in PeriodDays /\ at.slot \in Slots
        /\ wish[e][at.day] \in Types /\ SlotOf(wish[e][at.day]) = at.slot
        /\ \A f \in Employees, d \in PeriodDays :
              Looked(f, d)' <=> Looked(f, d) \/ (f = e /\ d = at.day)
    BY LooksAtOne
  <1>2. /\ wish' = wish /\ need' = need /\ \A f, d : Kept(f, d)' = Kept(f, d)
        /\ \A d, s : Candidates(d, s)' = Candidates(d, s)
    BY <1>1, InputStays
  <1>3. /\ drafts' = drafts \cup {DraftOf(e)} /\ filled' = filled + 1
        /\ hours' = [hours EXCEPT ![e] = @ + HoursOf(wish[e][at.day])]
    BY ConsiderPlaces
  <1>4. DraftOf(e).employee = e /\ DraftOf(e).day = at.day
    BY DEF DraftOf
  <1>5. \A d \in PeriodDays, s \in Slots :
           /\ Heads(d, s) \in Nat
           /\ Heads(d, s)' = IF d = at.day /\ s = at.slot THEN Heads(d, s) + 1 ELSE Heads(d, s)
           /\ ~(d = at.day /\ s = at.slot) => InSlot(d, s)' = InSlot(d, s)
    BY PlacedHeads
  <1>6. IsFiniteSet(drafts')
    BY <1>3, FS_AddElement DEF DistributeInv, SlotsInv
  <1>7. at'.day <= LastDay => filled' = Heads(at.day, at.slot)'
    BY <1>1, <1>3, <1>5 DEF DistributeInv, SlotsInv
  <1>8. \A f \in Employees : hours[f] \in Nat /\ hours'[f] \in Nat /\ hours'[f] >= hours[f]
    BY <1>1, <1>3 DEF DistributeInv, DistributeTypes
  <1>9. \A f, d : Busy(f, d)' <=> Busy(f, d) \/ (f = e /\ d = at.day)
    BY <1>2, <1>3, <1>4 DEF Busy
  <1>10. ASSUME NEW d \in PeriodDays, NEW s \in 1..Windows
         PROVE  /\ InSlot(d, s)' # {} => Heads(d, s)' <= need'[d][s]
                /\ (\E x \in shortages' : x.day = d /\ x.slot = s)
                      <=> IsBehind(d, s)' /\ Heads(d, s)' < need'[d][s]
                /\ Heads(d, s)' < need'[d][s] => \A f \in Candidates(d, s)' :
                      Looked(f, d)' => Busy(f, d)'
                                       \/ hours'[f] + HoursOf(wish'[f][d]) > MaxPeriodHours
    <2>1. s \in Slots /\ Heads(d, s) \in Nat /\ need[d][s] \in Nat
      BY <1>5 DEF Slots, DistributeInv, InputTypes
    <2>2. /\ InSlot(d, s) # {} => Heads(d, s) <= need[d][s]
          /\ (\E x \in shortages : x.day = d /\ x.slot = s)
                <=> IsBehind(d, s) /\ Heads(d, s) < need[d][s]
          /\ Heads(d, s) < need[d][s] => \A f \in Candidates(d, s) :
                Looked(f, d) => Busy(f, d) \/ hours[f] + HoursOf(wish[f][d]) > MaxPeriodHours
      BY DEF DistributeInv, SlotsInv
    <2>3. d = at.day /\ s = at.slot => Heads(d, s) < need[d][s]
      <3> HAVE d = at.day /\ s = at.slot
      <3>1. ~Full(d, s)
        BY RefusalIs
      <3>2. filled = Heads(d, s)
        BY <1>1 DEF DistributeInv, SlotsInv, PeriodDays
      <3> QED  BY <2>1, <3>1, <3>2 DEF Full
    <2>4. InSlot(d, s)' # {} => Heads(d, s)' <= need'[d][s]
      BY <1>2, <1>5, <2>1, <2>2, <2>3
    <2>5. IsBehind(d, s)' <=> IsBehind(d, s)
      BY <1>1 DEF IsBehind
    <2>6. ~IsBehind(at.day, at.slot)
      BY <1>1 DEF IsBehind, PeriodDays, Slots
    <2>7. (\E x \in shortages' : x.day = d /\ x.slot = s)
             <=> IsBehind(d, s)' /\ Heads(d, s)' < need'[d][s]
      BY <1>1, <1>2, <1>5, <2>1, <2>2, <2>5, <2>6
    <2>8. ASSUME Heads(d, s)' < need'[d][s], NEW f \in Candidates(d, s)', Looked(f, d)'
          PROVE  Busy(f, d)' \/ hours'[f] + HoursOf(wish'[f][d]) > MaxPeriodHours
      <3>1. f \in Candidates(d, s) /\ f \in Employees /\ wish[f][d] \in Types
        BY <1>2, <2>8 DEF Candidates, AsksFor
      <3>2. CASE f = e /\ d = at.day
        BY <3>2, <1>9
      <3>3. CASE ~(f = e /\ d = at.day)
        <4>1. Looked(f, d)
          BY <2>8, <3>1, <3>3, <1>1
        <4>2. Heads(d, s) < need[d][s]
          BY <2>8, <2>1, <1>2, <1>5
        <4>3. Busy(f, d) \/ hours[f] + HoursOf(wish[f][d]) > MaxPeriodHours
          BY <2>2, <3>1, <4>1, <4>2
        <4>4. HoursOf(wish[f][d]) \in Nat
          BY <3>1
        <4> QED  BY <4>3, <4>4, <3>1, <1>2, <1>8, <1>9
      <3> QED  BY <3>2, <3>3
    <2> QED  BY <2>4, <2>7, <2>8
  <1> QED  BY <1>1, <1>6, <1>7, <1>10 DEF SlotsInv

LEMMA ReportedSlots ==
    ASSUME DistributeInv, NEW e \in Employees, Consider(e), Refusal(e) # "none"
    PROVE  SlotsInv'
  <1> USE DistributeConstants
  <1>1. /\ UNCHANGED input /\ at' = at /\ waiting' = waiting \ {e} /\ shortages' = shortages
        /\ at.day \in PeriodDays /\ at.slot \in Slots
        /\ wish[e][at.day] \in Types /\ SlotOf(wish[e][at.day]) = at.slot
        /\ \A f \in Employees, d \in PeriodDays :
              Looked(f, d)' <=> Looked(f, d) \/ (f = e /\ d = at.day)
    BY LooksAtOne
  <1>2. /\ wish' = wish /\ need' = need /\ \A f, d : Kept(f, d)' = Kept(f, d)
        /\ \A d, s : Candidates(d, s)' = Candidates(d, s)
        /\ \A d, s : Preserved(d, s)' = Preserved(d, s)
    BY <1>1, InputStays
  <1>3. drafts' = drafts /\ filled' = filled /\ hours' = hours
    BY ConsiderReports
  <1>4. \A d, s : InSlot(d, s)' = InSlot(d, s) /\ (IsBehind(d, s)' <=> IsBehind(d, s))
    BY <1>1, <1>3 DEF InSlot, IsBehind
  <1>5. \A d, s : Heads(d, s)' = Heads(d, s)
    BY <1>2, <1>4 DEF Heads
  <1>6. \A f, d : Busy(f, d)' <=> Busy(f, d)
    BY <1>2, <1>3 DEF Busy
  <1>7. ASSUME at.slot \in 1..Windows, Heads(at.day, at.slot) < need[at.day][at.slot]
        PROVE  Busy(e, at.day) \/ hours[e] + HoursOf(wish[e][at.day]) > MaxPeriodHours
    <2>1. filled = Heads(at.day, at.slot) /\ Heads(at.day, at.slot) \in Nat
      BY <1>1, HeadsAre DEF DistributeInv, SlotsInv, PeriodDays
    <2>2. need[at.day][at.slot] \in Nat
      BY <1>1, <1>7 DEF DistributeInv, InputTypes
    <2>3. ~Full(at.day, at.slot)
      BY <1>7, <2>1, <2>2 DEF Full
    <2> QED  BY <2>3, RefusalIs DEF Exceeds
  <1>8. ASSUME NEW d \in PeriodDays, NEW s \in 1..Windows, Heads(d, s) < need[d][s],
               NEW f \in Candidates(d, s), Looked(f, d)'
        PROVE  Busy(f, d) \/ hours[f] + HoursOf(wish[f][d]) > MaxPeriodHours
    <2>1. f \in Employees /\ SlotOf(wish[f][d]) = s
      BY DEF Candidates, AsksFor
    <2>2. CASE f = e /\ d = at.day
      BY <2>1, <2>2, <1>1, <1>7, <1>8
    <2>3. CASE Looked(f, d)
      BY <2>3, <1>8 DEF DistributeInv, SlotsInv
    <2> QED  BY <2>1, <2>2, <2>3, <1>1, <1>8
  <1>9. \A d \in PeriodDays, s \in 1..Windows :
          /\ InSlot(d, s) # {} => Heads(d, s) <= need[d][s]
          /\ (\E x \in shortages : x.day = d /\ x.slot = s)
                <=> IsBehind(d, s) /\ Heads(d, s) < need[d][s]
    BY DEF DistributeInv, SlotsInv
  <1>10. ASSUME NEW d \in PeriodDays, NEW s \in 1..Windows
         PROVE  /\ InSlot(d, s)' # {} => Heads(d, s)' <= need'[d][s]
                /\ (\E x \in shortages' : x.day = d /\ x.slot = s)
                      <=> IsBehind(d, s)' /\ Heads(d, s)' < need'[d][s]
                /\ Heads(d, s)' < need'[d][s] => \A f \in Candidates(d, s)' :
                      Looked(f, d)' => Busy(f, d)'
                                       \/ hours'[f] + HoursOf(wish'[f][d]) > MaxPeriodHours
    <2>1. /\ InSlot(d, s)' = InSlot(d, s) /\ Heads(d, s)' = Heads(d, s)
          /\ (IsBehind(d, s)' <=> IsBehind(d, s)) /\ Candidates(d, s)' = Candidates(d, s)
      BY <1>2, <1>4, <1>5
    <2>2. \A f : Busy(f, d)' <=> Busy(f, d)
      BY <1>6
    <2> QED  BY <2>1, <2>2, <1>1, <1>2, <1>3, <1>8, <1>9
  <1>11. IsFiniteSet(drafts') /\ (at'.day <= LastDay => filled' = Heads(at.day, at.slot)')
    BY <1>1, <1>3, <1>5 DEF DistributeInv, SlotsInv
  <1> QED  BY <1>1, <1>10, <1>11 DEF SlotsInv

LEMMA WishesOfDrafts ==
    ASSUME DistributeInv
    PROVE  \A e \in Employees, d \in PeriodDays : HasDraft(e, d) => wish[e][d] \in Types
  BY DEF DistributeInv, AnswersInv, HasDraft, Looked

LEMMA PlacedHours ==
    ASSUME DistributeInv, NEW e \in Employees, Consider(e), Refusal(e) = "none"
    PROVE  HoursInv'
  <1> USE DistributeConstants
  <1>1. /\ UNCHANGED input /\ at.day \in PeriodDays /\ wish[e][at.day] \in Types
        /\ ~HasDraft(e, at.day)
    BY LooksAtOne
  <1>2. /\ wish' = wish /\ InputTypes' /\ \A f : HoursKept(f)' = HoursKept(f)
    BY <1>1, InputStays DEF DistributeInv
  <1>3. /\ drafts' = drafts \cup {DraftOf(e)}
        /\ hours' = [hours EXCEPT ![e] = @ + HoursOf(wish[e][at.day])]
    BY ConsiderPlaces
  <1>4. DraftOf(e).employee = e /\ DraftOf(e).day = at.day
    BY DEF DraftOf
  <1>5. \A f, d : HasDraft(f, d)' <=> HasDraft(f, d) \/ (f = e /\ d = at.day)
    BY <1>3, <1>4 DEF HasDraft
  <1>6. \A f \in Employees, d \in PeriodDays :
           (HasDraft(f, d) => wish[f][d] \in Types) /\ (HasDraft(f, d)' => wish'[f][d] \in Types)
    BY <1>1, <1>2, <1>5, WishesOfDrafts
  <1>7. ASSUME NEW f \in Employees
        PROVE  /\ DraftsOf(f) \in [1..LastDay -> Nat] /\ DraftHours(f) = SumOver(DraftsOf(f), LastDay)
               /\ DraftHours(f) \in Nat
               /\ DraftsOf(f)' \in [1..LastDay -> Nat]
               /\ DraftHours(f)' = SumOver(DraftsOf(f)', LastDay)
    <2>1. /\ DraftsOf(f) \in [1..LastDay -> Nat] /\ DraftHours(f) = SumOver(DraftsOf(f), LastDay)
          /\ DraftHours(f) \in Nat
      BY <1>6, DraftHoursAre DEF DistributeInv
    <2>2. DraftsOf(f)' \in [1..LastDay -> Nat]
      BY <1>6 DEF DraftsOf, PeriodDays
    <2>3. DraftHours(f)' = SumOver(DraftsOf(f)', LastDay)
      BY Zenon DEF DraftHours, DraftsOf, HasDraft
    <2> QED  BY <2>1, <2>2, <2>3
  <1>8. \A f \in Employees, d \in PeriodDays :
           DraftsOf(f)'[d] = IF f = e /\ d = at.day THEN HoursOf(wish[e][at.day]) ELSE DraftsOf(f)[d]
    BY <1>2, <1>5 DEF DraftsOf
  <1>9. DraftsOf(e)[at.day] = 0 /\ HoursOf(wish[e][at.day]) \in Nat
    BY <1>1 DEF DraftsOf
  <1>10. \A d \in 1..LastDay \ {at.day} : DraftsOf(e)'[d] = DraftsOf(e)[d]
    BY <1>8 DEF PeriodDays
  <1>11. DraftsOf(e)'[at.day] = DraftsOf(e)[at.day] + HoursOf(wish[e][at.day])
    BY <1>1, <1>8, <1>9
  <1>12. DraftHours(e)' = DraftHours(e) + HoursOf(wish[e][at.day])
    <2> DEFINE h == DraftsOf(e)
               k == DraftsOf(e)'
               c == HoursOf(wish[e][at.day])
               d == at.day
    <2>1. /\ h \in [1..LastDay -> Nat] /\ k \in [1..LastDay -> Nat] /\ c \in Nat
          /\ d \in 1..LastDay /\ k[d] = h[d] + c
          /\ \A i \in 1..LastDay \ {d} : k[i] = h[i]
      BY <1>1, <1>7, <1>9, <1>10, <1>11 DEF PeriodDays
    <2> HIDE DEF h, k, c, d
    <2>2. SumOver(k, LastDay) = SumOver(h, LastDay) + c
      <3>1. LastDay \in Nat
        OBVIOUS
      <3> QED  BY ONLY <3>1, <2>1, SumGrows
    <2> QED  BY <2>2, <1>7 DEF h, k, c
  <1>13. ASSUME NEW f \in Employees, f # e PROVE DraftHours(f)' = DraftHours(f)
    <2>1. DraftsOf(f)' = DraftsOf(f)
      BY <1>8, <1>7, <1>13 DEF PeriodDays
    <2> QED  BY <2>1, <1>7
  <1>14. \A f \in Employees : hours[f] = HoursKept(f) + DraftHours(f) /\ hours[f] \in Nat
                              /\ HoursKept(f) \in Nat
    BY HoursKeptIsNat DEF DistributeInv, HoursInv, DistributeTypes
  <1>15. \A f \in Employees : hours'[f] = IF f = e THEN hours[e] + HoursOf(wish[e][at.day]) ELSE hours[f]
    BY <1>3 DEF DistributeInv, DistributeTypes
  <1>16. \A f \in Employees : hours'[f] = HoursKept(f)' + DraftHours(f)'
    <2> SUFFICES ASSUME NEW f \in Employees PROVE hours'[f] = HoursKept(f)' + DraftHours(f)'
      OBVIOUS
    <2>1. hours[f] = HoursKept(f) + DraftHours(f) /\ HoursKept(f) \in Nat /\ DraftHours(f) \in Nat
          /\ HoursKept(f)' = HoursKept(f)
      BY <1>2, <1>7, <1>14
    <2>2. CASE f = e
      <3>1. DraftHours(f)' = DraftHours(f) + HoursOf(wish[e][at.day])
        BY <2>2, <1>12
      <3>2. hours'[f] = hours[f] + HoursOf(wish[e][at.day])
        BY <2>2, <1>15
      <3> QED  BY <2>1, <3>1, <3>2, <1>9
    <2>3. CASE f # e
      BY <2>1, <2>3, <1>13, <1>15
    <2> QED  BY <2>2, <2>3
  <1>17. hours'[e] <= MaxPeriodHours
    BY <1>9, <1>14, <1>15, RefusalIs DEF Exceeds
  <1>18. \A a \in drafts' : hours'[a.employee] <= MaxPeriodHours
    <2>1. \A a \in drafts : a.employee \in Employees /\ hours[a.employee] <= MaxPeriodHours
      BY DEF DistributeInv, DistributeTypes, HoursInv
    <2> QED  BY <1>3, <1>4, <1>15, <1>17, <2>1
  <1> QED  BY <1>16, <1>18 DEF HoursInv

LEMMA SameHours ==
    ASSUME DistributeInv, UNCHANGED <<input, hours, drafts>>
    PROVE  HoursInv'
  <1>1. wish' = wish /\ hours' = hours /\ drafts' = drafts /\ \A f : HoursKept(f)' = HoursKept(f)
    BY InputStays
  <1>2. \A f : DraftHours(f)' = DraftHours(f)
    BY <1>1, Zenon DEF DraftHours
  <1> QED  BY <1>1, <1>2 DEF DistributeInv, HoursInv

LEMMA ConsiderStep ==
    ASSUME DistributeInv, NEW e \in Employees, Consider(e)
    PROVE  DistributeInv'
  <1>1. UNCHANGED input
    BY LooksAtOne
  <1>2. InputTypes'
    BY <1>1, InputStays DEF DistributeInv
  <1>3. CASE Refusal(e) = "none"
    BY <1>2, <1>3, PlacedTypes, PlacedAnswers, PlacedSlots, PlacedHours DEF DistributeInv
  <1>4. CASE Refusal(e) # "none"
    <2>1. HoursInv'
      BY <1>1, <1>4, ConsiderReports, SameHours
    <2> QED  BY <1>2, <1>4, <2>1, ReportedTypes, ReportedAnswers, ReportedSlots DEF DistributeInv
  <1> QED  BY <1>3, <1>4

\* The slot that Advance goes to.
Following == IF at.slot <= Windows THEN [at EXCEPT !.slot = @ + 1]
             ELSE [day |-> at.day + 1, slot |-> 1]

LEMMA FollowingIs ==
    ASSUME DistributeTypes
    PROVE  /\ at.day \in Nat /\ at.slot \in Nat /\ at.slot >= 1 /\ at.slot <= Windows + 1
           /\ Following.day = IF at.slot <= Windows THEN at.day ELSE at.day + 1
           /\ Following.slot = IF at.slot <= Windows THEN at.slot + 1 ELSE 1
           /\ at.day <= LastDay => Following \in [day : 1..(LastDay + 1), slot : Slots]
  <1>1. /\ at \in [day : 1..(LastDay + 1), slot : 1..(Windows + 1)]
        /\ at.day \in 1..(LastDay + 1) /\ at.slot \in 1..(Windows + 1)
    BY DEF DistributeTypes, Slots
  <1>2. CASE at.slot <= Windows
    <2>1. Following = [day |-> at.day, slot |-> at.slot + 1]
      BY <1>1, <1>2 DEF Following
    <2> QED  BY <1>1, <1>2, <2>1, DistributeConstants DEF Slots
  <1>3. CASE ~(at.slot <= Windows)
    <2>1. Following = [day |-> at.day + 1, slot |-> 1]
      BY <1>3 DEF Following
    <2> QED  BY <1>1, <1>3, <2>1, DistributeConstants DEF Slots
  <1> QED  BY <1>2, <1>3

LEMMA AdvanceIs ==
    ASSUME Advance
    PROVE  /\ UNCHANGED input /\ hours' = hours /\ drafts' = drafts
           /\ at.day <= LastDay /\ waiting = {} /\ at' = Following
           /\ shortages' = IF at.slot <= Windows /\ filled < need[at.day][at.slot]
                           THEN shortages \cup {[day |-> at.day, slot |-> at.slot, assigned |-> filled]}
                           ELSE shortages
           /\ waiting' = IF Following.day > LastDay THEN {} ELSE Candidates(Following.day, Following.slot)
           /\ filled' = IF Following.day > LastDay THEN 0 ELSE Preserved(Following.day, Following.slot)
           /\ unplaced' = IF Following.day \in (at.day + 1)..LastDay
                          THEN unplaced \cup BadWishes(Following.day) ELSE unplaced
  BY DEF Advance, Following

\* Going on to the next slot puts the slot left behind, and looks at no wish.
LEMMA AdvanceBehind ==
    ASSUME DistributeInv, Advance
    PROVE  /\ \A d \in PeriodDays, s \in Slots :
                 IsBehind(d, s)' <=> IsBehind(d, s) \/ (d = at.day /\ s = at.slot)
           /\ \A e \in Employees, d \in PeriodDays : Looked(e, d)' <=> Looked(e, d)
  <1> USE DistributeConstants
  <1>1. /\ at.day \in Nat /\ at.slot \in Nat /\ at.slot >= 1 /\ at.slot <= Windows + 1
        /\ Following.day = IF at.slot <= Windows THEN at.day ELSE at.day + 1
        /\ Following.slot = IF at.slot <= Windows THEN at.slot + 1 ELSE 1
    BY FollowingIs DEF DistributeInv
  <1>2. UNCHANGED input /\ waiting = {} /\ at' = Following
        /\ waiting' = IF Following.day > LastDay THEN {} ELSE Candidates(Following.day, Following.slot)
    BY AdvanceIs
  <1>3. wish' = wish
    BY <1>2 DEF input
  <1>4. ASSUME NEW d \in PeriodDays, NEW s \in Slots
        PROVE  IsBehind(d, s)' <=> IsBehind(d, s) \/ (d = at.day /\ s = at.slot)
    <2>1. d \in Nat /\ s \in Nat /\ s >= 1 /\ s <= Windows + 1
      BY DEF PeriodDays, Slots
    <2>2. IsBehind(d, s)' <=> d < Following.day \/ (d = Following.day /\ s < Following.slot)
      BY <1>2 DEF IsBehind
    <2> QED  BY <1>1, <2>1, <2>2 DEF IsBehind
  <1>5. ASSUME NEW e \in Employees, NEW d \in PeriodDays
        PROVE  Looked(e, d)' <=> Looked(e, d)
    <2>1. CASE wish[e][d] \in Types
      <3>0. PICK s : s = SlotOf(wish[e][d])
        OBVIOUS
      <3>1. s \in Slots
        BY <2>1, <3>0 DEF Slots
      <3>2. Looked(e, d) <=> IsBehind(d, s) \/ (d = at.day /\ s = at.slot)
        BY <2>1, <3>0, <1>2 DEF Looked
      <3>3. ~(d = Following.day /\ s = Following.slot /\ e \notin waiting')
        <4> SUFFICES ASSUME d = Following.day, s = Following.slot PROVE e \in waiting'
          OBVIOUS
        <4>1. ~(Following.day > LastDay)
          BY DEF PeriodDays
        <4> QED  BY <2>1, <3>0, <4>1, <1>2 DEF Candidates, AsksFor
      <3>4. Looked(e, d)' <=> IsBehind(d, s)'
        BY <2>1, <3>0, <1>2, <1>3, <3>3 DEF Looked
      <3> QED  BY <1>4, <3>1, <3>2, <3>4
    <2>2. CASE wish[e][d] \notin Types
      BY <2>2, <1>3 DEF Looked
    <2> QED  BY <2>1, <2>2
  <1> QED  BY <1>4, <1>5

LEMMA AdvanceTypes == ASSUME DistributeInv, Advance PROVE DistributeTypes'
  <1>1. /\ hours' = hours /\ drafts' = drafts /\ at.day <= LastDay /\ at' = Following
        /\ shortages' = IF at.slot <= Windows /\ filled < need[at.day][at.slot]
                        THEN shortages \cup {[day |-> at.day, slot |-> at.slot, assigned |-> filled]}
                        ELSE shortages
        /\ waiting' = IF Following.day > LastDay THEN {} ELSE Candidates(Following.day, Following.slot)
        /\ filled' = IF Following.day > LastDay THEN 0 ELSE Preserved(Following.day, Following.slot)
        /\ unplaced' = IF Following.day \in (at.day + 1)..LastDay
                       THEN unplaced \cup BadWishes(Following.day) ELSE unplaced
    BY AdvanceIs
  <1>2. at' \in [day : 1..(LastDay + 1), slot : Slots]
    BY <1>1, FollowingIs DEF DistributeInv
  <1>3. waiting' \subseteq Employees
    BY <1>1 DEF Candidates
  <1>4. filled' \in Nat
    BY <1>1, PreservedIsNat
  <1>5. at.day \in PeriodDays /\ at.slot \in Slots /\ filled \in Nat
    BY <1>1, DistributeConstants DEF DistributeInv, DistributeTypes, PeriodDays
  <1>6. shortages' \subseteq [day : PeriodDays, slot : Slots, assigned : Nat]
    BY <1>1, <1>5 DEF DistributeInv, DistributeTypes
  <1>7. unplaced' \subseteq [employee : Employees, day : PeriodDays, reason : {"shift_type",
            "already_assigned", "headcount", "max_period_hours_exceeded"}]
    <2>1. CASE Following.day \in (at.day + 1)..LastDay
      <3>1. Following.day \in PeriodDays
        BY <1>5, <2>1 DEF PeriodDays
      <3>2. BadWishes(Following.day)
               \subseteq [employee : Employees, day : {Following.day}, reason : {"shift_type"}]
        BY <3>1, BadWishesAre DEF DistributeInv
      <3>3. BadWishes(Following.day) \subseteq [employee : Employees, day : PeriodDays,
                reason : {"shift_type", "already_assigned", "headcount", "max_period_hours_exceeded"}]
        BY <3>1, <3>2
      <3> QED  BY <1>1, <2>1, <3>3 DEF DistributeInv, DistributeTypes
    <2>2. CASE Following.day \notin (at.day + 1)..LastDay
      BY <1>1, <2>2 DEF DistributeInv, DistributeTypes
    <2> QED  BY <2>1, <2>2
  <1> QED  BY <1>1, <1>2, <1>3, <1>4, <1>6, <1>7 DEF DistributeInv, DistributeTypes

LEMMA AdvanceAnswers == ASSUME DistributeInv, Advance PROVE AnswersInv'
  <1> USE DistributeConstants
  <1>1. /\ UNCHANGED input /\ drafts' = drafts /\ at.day <= LastDay /\ at' = Following
        /\ waiting' = IF Following.day > LastDay THEN {} ELSE Candidates(Following.day, Following.slot)
        /\ unplaced' = IF Following.day \in (at.day + 1)..LastDay
                       THEN unplaced \cup BadWishes(Following.day) ELSE unplaced
    BY AdvanceIs
  <1>2. wish' = wish /\ \A f, d : Kept(f, d)' = Kept(f, d)
    BY <1>1, InputStays
  <1>3. \A e \in Employees, d \in PeriodDays : Looked(e, d)' <=> Looked(e, d)
    BY AdvanceBehind
  <1>4. /\ \A a \in drafts : a.employee \in Employees /\ a.day \in PeriodDays
        /\ \A u \in unplaced : u.employee \in Employees /\ u.day \in PeriodDays
    BY DEF DistributeInv, DistributeTypes
  <1>5. at.day \in Nat /\ at.day >= 1
        /\ Following.day \in Nat /\ Following.day >= at.day /\ Following.day <= at.day + 1
    BY FollowingIs DEF DistributeInv, DistributeTypes
  <1>6. \A u \in unplaced : u.day <= at.day
    BY <1>4, <1>5 DEF DistributeInv, AnswersInv, Looked, IsBehind, PeriodDays
  <1>7. \A f, d : Told(f, d) => Told(f, d)'
    BY <1>1 DEF Told
  \* The reports that are new are those of the day that begins.
  <1>8. \A u \in unplaced' \ unplaced :
           /\ u.day = Following.day /\ u.day > at.day /\ u.reason = "shift_type"
           /\ u.employee \in Employees /\ u.day \in PeriodDays
           /\ wish[u.employee][u.day] = BadType
    <2> SUFFICES ASSUME NEW u \in unplaced' \ unplaced
                 PROVE  /\ u.day = Following.day /\ u.day > at.day /\ u.reason = "shift_type"
                        /\ u.employee \in Employees /\ u.day \in PeriodDays
                        /\ wish[u.employee][u.day] = BadType
      OBVIOUS
    <2>1. Following.day \in (at.day + 1)..LastDay /\ u \in BadWishes(Following.day)
      BY <1>1
    <2>2. Following.day \in PeriodDays /\ Following.day > at.day
      BY <1>5, <2>1 DEF PeriodDays
    <2>3. /\ u.day = Following.day /\ u.reason = "shift_type"
          /\ wish[u.employee][Following.day] = BadType /\ u.employee \in Employees
      BY <2>1, <2>2, BadWishesAre DEF DistributeInv
    <2> QED  BY <2>2, <2>3
  <1>9. unplaced \subseteq unplaced'
    BY <1>1
  <1>10. waiting' \subseteq Employees
    BY <1>1 DEF Candidates
  <1>11. at'.day <= LastDay => \A e \in waiting' : AsksFor(e, at.day, at.slot)'
    <2> SUFFICES ASSUME at'.day <= LastDay, NEW e \in waiting' PROVE AsksFor(e, at.day, at.slot)'
      OBVIOUS
    <2>1. e \in Candidates(Following.day, Following.slot)
      BY <1>1, <1>5
    <2> QED  BY <2>1, <1>1, <1>2 DEF Candidates, AsksFor
  <1>12. ASSUME NEW a \in drafts'
         PROVE  /\ Looked(a.employee, a.day)' /\ a.type = wish'[a.employee][a.day]
                /\ Kept(a.employee, a.day)' = NoType /\ ~Told(a.employee, a.day)'
    <2>1. a \in drafts /\ a.employee \in Employees /\ a.day \in PeriodDays
      BY <1>1, <1>4
    <2>2. /\ Looked(a.employee, a.day) /\ a.type = wish[a.employee][a.day]
          /\ Kept(a.employee, a.day) = NoType /\ ~Told(a.employee, a.day)
      BY <2>1 DEF DistributeInv, AnswersInv
    <2>3. wish[a.employee][a.day] \in Types
      BY <2>2 DEF Looked
    <2>4. ~Told(a.employee, a.day)'
      BY <2>2, <2>3, <1>8 DEF Told
    <2> QED  BY <2>1, <2>2, <2>4, <1>2, <1>3
  <1>13. ASSUME NEW u \in unplaced'
         PROVE  \/ Looked(u.employee, u.day)'
                \/ wish'[u.employee][u.day] = BadType /\ u.day <= at'.day /\ u.reason = "shift_type"
    <2>1. CASE u \in unplaced
      <3>1. \/ Looked(u.employee, u.day)
            \/ wish[u.employee][u.day] = BadType /\ u.day <= at.day /\ u.reason = "shift_type"
        BY <2>1 DEF DistributeInv, AnswersInv
      <3>2. u.employee \in Employees /\ u.day \in PeriodDays
        BY <2>1, <1>4
      <3> QED  BY <3>1, <3>2, <1>1, <1>2, <1>3, <1>5 DEF PeriodDays
    <2>2. CASE u \notin unplaced
      BY <2>2, <1>1, <1>2, <1>5, <1>8 DEF PeriodDays
    <2> QED  BY <2>1, <2>2
  <1>14. ASSUME NEW u \in unplaced', NEW v \in unplaced', u.employee = v.employee, u.day = v.day
         PROVE  u = v
    <2>1. CASE u \in unplaced /\ v \in unplaced
      BY <1>14, <2>1 DEF DistributeInv, AnswersInv
    <2>2. CASE u \notin unplaced /\ v \notin unplaced
      <3>1. Following.day \in (at.day + 1)..LastDay /\ u \in BadWishes(Following.day)
            /\ v \in BadWishes(Following.day)
        BY <1>1, <2>2
      <3>2. Following.day \in PeriodDays
        BY <1>5, <3>1 DEF PeriodDays
      <3> QED  BY <1>14, <3>1, <3>2, BadWishesAre DEF DistributeInv
    <2>3. CASE u \in unplaced /\ v \notin unplaced
      BY <1>14, <2>3, <1>4, <1>5, <1>6, <1>8 DEF PeriodDays
    <2>4. CASE u \notin unplaced /\ v \in unplaced
      BY <1>14, <2>4, <1>4, <1>5, <1>6, <1>8 DEF PeriodDays
    <2> QED  BY <2>1, <2>2, <2>3, <2>4
  <1>15. ASSUME NEW e \in Employees, NEW d \in PeriodDays
         PROVE  /\ Looked(e, d)' => HasDraft(e, d)' \/ Told(e, d)'
                /\ wish'[e][d] = BadType /\ d <= at'.day => Told(e, d)'
    <2>1. HasDraft(e, d)' <=> HasDraft(e, d)
      BY <1>1 DEF HasDraft
    <2>2. Looked(e, d)' => HasDraft(e, d)' \/ Told(e, d)'
      BY <2>1, <1>3, <1>7 DEF DistributeInv, AnswersInv
    <2>3. ASSUME wish'[e][d] = BadType, d <= at'.day PROVE Told(e, d)'
      <3>1. CASE d <= at.day
        BY <2>3, <3>1, <1>2, <1>7 DEF DistributeInv, AnswersInv
      <3>2. CASE ~(d <= at.day)
        <4>1. d = Following.day /\ Following.day \in (at.day + 1)..LastDay
          BY <2>3, <3>2, <1>1, <1>5 DEF PeriodDays
        <4>2. \E u \in BadWishes(d) : u.employee = e
          BY <2>3, <1>2, BadWishesAre DEF DistributeInv
        <4>3. \A u \in BadWishes(d) : u.day = d
          BY BadWishesAre DEF DistributeInv
        <4>4. BadWishes(d) \subseteq unplaced'
          BY <4>1, <1>1
        <4> QED  BY <4>2, <4>3, <4>4 DEF Told
      <3> QED  BY <3>1, <3>2
    <2> QED  BY <2>2, <2>3
  <1> QED  BY <1>10, <1>11, <1>12, <1>13, <1>14, <1>15 DEF AnswersInv

LEMMA AdvanceSlots == ASSUME DistributeInv, Advance PROVE SlotsInv'
  <1> USE DistributeConstants
  <1>1. /\ UNCHANGED input /\ hours' = hours /\ drafts' = drafts
        /\ at.day <= LastDay /\ at' = Following
        /\ shortages' = IF at.slot <= Windows /\ filled < need[at.day][at.slot]
                        THEN shortages \cup {[day |-> at.day, slot |-> at.slot, assigned |-> filled]}
                        ELSE shortages
        /\ filled' = IF Following.day > LastDay THEN 0 ELSE Preserved(Following.day, Following.slot)
    BY AdvanceIs
  <1>2. /\ wish' = wish /\ need' = need /\ \A f, d : Kept(f, d)' = Kept(f, d)
        /\ \A d, s : Candidates(d, s)' = Candidates(d, s)
        /\ \A d, s : Preserved(d, s)' = Preserved(d, s)
    BY <1>1, InputStays
  <1>3. /\ \A d \in PeriodDays, s \in Slots :
              IsBehind(d, s)' <=> IsBehind(d, s) \/ (d = at.day /\ s = at.slot)
        /\ \A e \in Employees, d \in PeriodDays : Looked(e, d)' <=> Looked(e, d)
    BY AdvanceBehind
  <1>4. \A d, s : InSlot(d, s)' = InSlot(d, s)
    BY <1>1 DEF InSlot
  <1>5. \A d, s : Heads(d, s)' = Heads(d, s)
    BY <1>2, <1>4 DEF Heads
  <1>6. \A f, d : Busy(f, d)' <=> Busy(f, d)
    BY <1>1, <1>2 DEF Busy
  <1>7. at.day \in PeriodDays /\ at.slot \in Slots
    BY <1>1 DEF DistributeInv, DistributeTypes, PeriodDays
  <1>8. at'.day <= LastDay => filled' = Heads(at.day, at.slot)'
    <2> HAVE at'.day <= LastDay
    <2>1. /\ at.day \in Nat /\ at.slot \in Nat /\ at.slot >= 1 /\ at.slot <= Windows + 1
          /\ Following.day = IF at.slot <= Windows THEN at.day ELSE at.day + 1
          /\ Following.slot = IF at.slot <= Windows THEN at.slot + 1 ELSE 1
      BY FollowingIs DEF DistributeInv
    <2>2. InSlot(Following.day, Following.slot) = {}
      <3> SUFFICES ASSUME NEW a \in drafts, a.day = Following.day, SlotOf(a.type) = Following.slot
                   PROVE  FALSE
        BY DEF InSlot
      <3>1. Looked(a.employee, a.day) /\ a.type = wish[a.employee][a.day]
        BY DEF DistributeInv, AnswersInv
      <3>2. \/ IsBehind(Following.day, Following.slot)
            \/ Following.day = at.day /\ Following.slot = at.slot
        BY <3>1 DEF Looked
      <3> QED  BY <2>1, <3>2 DEF IsBehind
    <2>3. Cardinality(InSlot(Following.day, Following.slot)) = 0
      BY <2>2, FS_EmptySet
    <2>4. Preserved(Following.day, Following.slot) \in Nat
      BY PreservedIsNat
    <2>5. filled' = Preserved(Following.day, Following.slot)
      BY <1>1, <2>1, DistributeConstants
    <2>6. Heads(Following.day, Following.slot) = 0 + Preserved(Following.day, Following.slot)
      BY <2>3 DEF Heads
    <2>7. Heads(Following.day, Following.slot) = Preserved(Following.day, Following.slot)
      BY <2>4, <2>6
    <2>8. Heads(at.day, at.slot)' = Heads(Following.day, Following.slot)
      BY <1>1, <1>5
    <2> QED  BY <2>5, <2>7, <2>8, <1>1
  <1>9. ASSUME NEW d \in PeriodDays, NEW s \in 1..Windows
        PROVE  (\E x \in shortages' : x.day = d /\ x.slot = s)
                  <=> IsBehind(d, s)' /\ Heads(d, s) < need[d][s]
    <2>1. s \in Slots
      BY DEF Slots
    <2>2. (\E x \in shortages : x.day = d /\ x.slot = s)
             <=> IsBehind(d, s) /\ Heads(d, s) < need[d][s]
      BY DEF DistributeInv, SlotsInv
    <2>3. CASE d = at.day /\ s = at.slot
      <3>1. filled = Heads(d, s) /\ IsBehind(d, s)'
        BY <1>1, <1>3, <2>1, <2>3 DEF DistributeInv, SlotsInv
      <3>2. at.slot <= Windows /\ ~IsBehind(d, s)
        BY <1>7, <2>3 DEF IsBehind, PeriodDays, Slots
      <3>3. ~\E x \in shortages : x.day = d /\ x.slot = s
        BY <2>2, <2>3, <3>2
      <3>4. (\E x \in shortages' : x.day = d /\ x.slot = s) <=> filled < need[d][s]
        <4>1. CASE filled < need[d][s]
          <5> DEFINE x == [day |-> at.day, slot |-> at.slot, assigned |-> filled]
          <5>1. shortages' = shortages \cup {x} /\ x.day = d /\ x.slot = s
            BY <1>1, <2>3, <3>2, <4>1
          <5> QED  BY <4>1, <5>1
        <4>2. CASE ~(filled < need[d][s])
          BY <1>1, <2>3, <3>3, <4>2
        <4> QED  BY <4>1, <4>2
      <3> QED  BY <3>1, <3>4
    <2>4. CASE ~(d = at.day /\ s = at.slot)
      <3>1. IsBehind(d, s)' <=> IsBehind(d, s)
        BY <1>3, <2>1, <2>4
      <3> QED  BY <1>1, <2>2, <2>4, <3>1
    <2> QED  BY <2>3, <2>4
  <1>10. ASSUME NEW d \in PeriodDays, NEW s \in 1..Windows, Heads(d, s) < need[d][s],
                NEW f \in Candidates(d, s), Looked(f, d)'
         PROVE  Busy(f, d) \/ hours[f] + HoursOf(wish[f][d]) > MaxPeriodHours
    <2>1. Looked(f, d)
      BY <1>3, <1>10 DEF Candidates
    <2> QED  BY <1>10, <2>1 DEF DistributeInv, SlotsInv
  <1>11. ASSUME NEW d \in PeriodDays, NEW s \in 1..Windows
         PROVE  /\ InSlot(d, s)' # {} => Heads(d, s)' <= need'[d][s]
                /\ (\E x \in shortages' : x.day = d /\ x.slot = s)
                      <=> IsBehind(d, s)' /\ Heads(d, s)' < need'[d][s]
                /\ Heads(d, s)' < need'[d][s] => \A f \in Candidates(d, s)' :
                      Looked(f, d)' => Busy(f, d)'
                                       \/ hours'[f] + HoursOf(wish'[f][d]) > MaxPeriodHours
    <2>1. /\ InSlot(d, s)' = InSlot(d, s) /\ Heads(d, s)' = Heads(d, s)
          /\ Candidates(d, s)' = Candidates(d, s)
      BY <1>2, <1>4, <1>5
    <2>2. \A f : Busy(f, d)' <=> Busy(f, d)
      BY <1>6
    <2>3. InSlot(d, s) # {} => Heads(d, s) <= need[d][s]
      BY DEF DistributeInv, SlotsInv
    <2> QED  BY <2>1, <2>2, <2>3, <1>1, <1>2, <1>9, <1>10
  <1>12. IsFiniteSet(drafts')
    BY <1>1 DEF DistributeInv, SlotsInv
  <1> QED  BY <1>8, <1>11, <1>12 DEF SlotsInv

LEMMA AdvanceStep == ASSUME DistributeInv, Advance PROVE DistributeInv'
  <1>1. InputTypes' /\ HoursInv'
    BY AdvanceIs, InputStays, SameHours DEF DistributeInv
  <1> QED  BY <1>1, AdvanceTypes, AdvanceAnswers, AdvanceSlots DEF DistributeInv

LEMMA DistributeRests ==
    ASSUME DistributeInv, UNCHANGED distributeVars
    PROVE  DistributeInv'
  <1>1. UNCHANGED input /\ at' = at /\ waiting' = waiting /\ filled' = filled /\ hours' = hours
        /\ drafts' = drafts /\ unplaced' = unplaced /\ shortages' = shortages
    BY DEF distributeVars, input
  <1>2. /\ wish' = wish /\ need' = need /\ existing' = existing /\ InputTypes'
        /\ \A e, d : Kept(e, d)' = Kept(e, d)
        /\ \A d, s : Preserved(d, s)' = Preserved(d, s)
        /\ \A d, s : Candidates(d, s)' = Candidates(d, s)
    BY <1>1, InputStays DEF DistributeInv
  <1>3. HoursInv'
    BY <1>1, SameHours
  <1>4. DistributeTypes'
    BY <1>1 DEF DistributeInv, DistributeTypes
  <1>5. /\ \A e, d : /\ (Looked(e, d)' <=> Looked(e, d)) /\ (Told(e, d)' <=> Told(e, d))
                     /\ (HasDraft(e, d)' <=> HasDraft(e, d)) /\ (Busy(e, d)' <=> Busy(e, d))
        /\ \A d, s : (IsBehind(d, s)' <=> IsBehind(d, s)) /\ InSlot(d, s)' = InSlot(d, s)
    BY <1>1, <1>2 DEF Looked, Told, HasDraft, Busy, IsBehind, InSlot
  <1>6. \A d, s : Heads(d, s)' = Heads(d, s)
    BY <1>2, <1>5 DEF Heads
  <1>7. AnswersInv'
    BY <1>1, <1>2, <1>5 DEF DistributeInv, AnswersInv, AsksFor
  <1>8. SlotsInv'
    BY <1>1, <1>2, <1>5, <1>6 DEF DistributeInv, SlotsInv
  <1> QED  BY <1>2, <1>3, <1>4, <1>7, <1>8 DEF DistributeInv

LEMMA DistributeInvNext == DistributeInv /\ [DistributeNext]_distributeVars => DistributeInv'
  BY AdvanceStep, ConsiderStep, DistributeRests DEF DistributeNext

(* In every reachable state of a distribution the answers, the heads and the *)
(* hours are those of the wishes that the loops have passed.                 *)
THEOREM DistributeInvariant == DistributeSpec => []DistributeInv
  BY DistributeInvInit, DistributeInvNext, PTL DEF DistributeSpec

(* autoDistribute stays within the types of its variables.  *)
THEOREM DistributeTypesHold == DistributeSpec => []DistributeTypes
  <1>1. DistributeInv => DistributeTypes
    BY DEF DistributeInv
  <1> QED  BY <1>1, DistributeInvariant, PTL

(* A finished distribution answers every wish once, its shortages are real,  *)
(* and no draft takes an employee over the cap, for every staff, period,     *)
(* set of windows and shift types, cap, need and kept assignments.           *)
THEOREM DistributionsAreExact == DistributeSpec => []DistributionIsExact
  BY DistributeInvariant, DistributionFollows, PTL
=============================================================================
