------------------------ MODULE InventoryCheck_proofs ------------------------
(***************************************************************************)
(* Proofs about InventoryCheck for every catalog, every set of slots and   *)
(* any number of staff.  Inv is inductive: besides the properties it says  *)
(* what each transaction has locked and seen, and that a count in the      *)
(* history carries the moment of its observation.                          *)
(***************************************************************************)
EXTENDS InventoryCheckProperties, TLAPS

\* What the transaction t knows of the sheet it works on.
Knows(t) ==
    /\ t.pc # "idle" => t.slot \in Slots
    /\ t.pc = "recording" => /\ t.item \in Items
                             /\ t.stamp \in Stamps
                             /\ line[t.slot][t.item] # Absent
    /\ t.pc \in {"completing", "copied"} => session[t.slot] = "in_progress"
    /\ t.pc = "copied" => /\ \E i \in Items : t.copy[i] # Absent
                          /\ \A i \in Items : t.copy[i] = Absent <=> line[t.slot][i] = Absent

CallsKnow == \A c \in Staff : Knows(call[c])

Completing(t) == t.pc \in {"completing", "copied"}

\* The session row is locked by one completion at a time.
OneCompletion ==
    \A b, c \in Staff :
       Completing(call[b]) /\ Completing(call[c]) /\ call[b].slot = call[c].slot => b = c

SeenWhenCounted == \A h \in counts : h.at = h.seen

Inv == /\ TypeOK /\ CallsKnow /\ OneCompletion
       /\ DeletedLeavesNoTrace /\ SeenWhenCounted

LEMMA IdleType == Idle \in Call /\ Idle.pc = "idle"
  BY DEF Idle, Call, NoSheet

LEMMA StampNext ==
    ASSUME clock \in {0} \cup Stamps, clock < MaxStamp
    PROVE  clock + 1 \in Stamps
  BY BoundsAssumption DEF Stamps

(***************************************************************************)
(* A step of one staff member's transaction that only moves the call.      *)
(***************************************************************************)
LEMMA InvCall ==
    ASSUME Inv, NEW c \in Staff, NEW t \in Call,
           call' = [call EXCEPT ![c] = t],
           UNCHANGED <<item, session, line, counts>>,
           clock' \in {0} \cup Stamps, edits' \in Nat,
           Knows(t),
           Completing(t) => \/ SessionFree(t.slot)
                            \/ Completing(call[c]) /\ call[c].slot = t.slot
    PROVE  Inv'
  <1>1. call \in [Staff -> Call] /\ call'[c] = t /\ \A b \in Staff : b # c => call'[b] = call[b]
    BY DEF Inv, TypeOK
  <1>2. TypeOK'
    BY DEF Inv, TypeOK
  <1>3. CallsKnow'
    BY <1>1 DEF Inv, CallsKnow, Knows
  <1>4. OneCompletion'
    <2> SUFFICES ASSUME NEW a \in Staff, NEW b \in Staff,
                        Completing(call'[a]), Completing(call'[b]),
                        call'[a].slot = call'[b].slot
                 PROVE  a = b
      BY DEF OneCompletion, Completing
    <2>1. \A d \in Staff : d # c /\ Completing(t) /\ Completing(call[d])
                            => call[d].slot # t.slot
      BY DEF Inv, OneCompletion, Completing, SessionFree
    <2> QED  BY <1>1, <2>1 DEF Inv, OneCompletion
  <1>5. DeletedLeavesNoTrace' /\ SeenWhenCounted'
    BY DEF Inv, DeletedLeavesNoTrace, SeenWhenCounted
  <1> QED  BY <1>2, <1>3, <1>4, <1>5 DEF Inv

LEMMA InvStartSession ==
    ASSUME Inv, NEW c \in Staff, NEW s \in Slots, StartSession(c, s)
    PROVE  Inv'
  <1> DEFINE t == [Idle EXCEPT !.pc = "starting", !.slot = s]
  <1>1. t \in Call /\ t.pc = "starting" /\ t.slot = s
    BY DEF Idle, Call, NoSheet
  <1>2. /\ call' = [call EXCEPT ![c] = t]
        /\ UNCHANGED <<item, session, line, counts, clock, edits>>
    BY DEF StartSession
  <1>3. Knows(t) /\ ~Completing(t)
    BY <1>1 DEF Knows, Completing
  <1>4. clock' \in {0} \cup Stamps /\ edits' \in Nat
    BY <1>2 DEF Inv, TypeOK
  <1> HIDE DEF t
  <1> QED  BY <1>1, <1>2, <1>3, <1>4, InvCall

LEMMA InvCompleteLock ==
    ASSUME Inv, NEW c \in Staff, NEW s \in Slots, CompleteLock(c, s)
    PROVE  Inv'
  <1> DEFINE t == [Idle EXCEPT !.pc = "completing", !.slot = s]
  <1>1. t \in Call /\ t.pc = "completing" /\ t.slot = s
    BY DEF Idle, Call, NoSheet
  <1>2. /\ call' = [call EXCEPT ![c] = t]
        /\ UNCHANGED <<item, session, line, counts, clock, edits>>
        /\ SessionFree(s) /\ session[s] = "in_progress"
    BY DEF CompleteLock
  <1>3. Knows(t)
    BY <1>1, <1>2 DEF Knows
  <1>4. clock' \in {0} \cup Stamps /\ edits' \in Nat
    BY <1>2 DEF Inv, TypeOK
  <1> HIDE DEF t
  <1> QED  BY <1>1, <1>2, <1>3, <1>4, InvCall

LEMMA InvRecordWrite ==
    ASSUME Inv, NEW c \in Staff, NEW s \in Slots, NEW i \in Items, RecordWrite(c, s, i)
    PROVE  Inv'
  <1> DEFINE n == clock + 1
             t == [Idle EXCEPT !.pc = "recording", !.slot = s, !.item = i, !.stamp = n]
  <1>1. n \in Stamps
    BY StampNext DEF Inv, TypeOK, RecordWrite
  <1> HIDE DEF n
  <1>2. /\ t \in Call /\ t.pc = "recording" /\ t.slot = s /\ t.item = i /\ t.stamp = n
    BY <1>1 DEF Idle, Call, NoSheet
  <1>3. /\ call' = [call EXCEPT ![c] = t] /\ clock' = n
        /\ UNCHANGED <<item, session, line, counts, edits>>
        /\ line[s][i] # Absent
    BY DEF RecordWrite, n
  <1>4. Knows(t) /\ ~Completing(t)
    BY <1>1, <1>2, <1>3 DEF Knows, Completing
  <1>5. edits' \in Nat
    BY <1>3 DEF Inv, TypeOK
  <1> HIDE DEF t
  <1> QED  BY <1>1, <1>2, <1>3, <1>4, <1>5, InvCall

\* What a completion that copies its sheet has seen.
LEMMA InvCompleteCopy ==
    ASSUME Inv, NEW c \in Staff, CompleteCopy(c)
    PROVE  Inv'
  <1> DEFINE s == call[c].slot
             t == [call[c] EXCEPT !.pc = "copied", !.copy = line[s]]
  <1>1. /\ call[c] \in Call /\ call[c].pc = "completing"
        /\ s \in Slots /\ session[s] = "in_progress"
    BY DEF Inv, TypeOK, CallsKnow, Knows, CompleteCopy
  <1>2. line[s] \in Sheet /\ \A i \in Items : line[s][i] # Blank
    BY <1>1 DEF Inv, TypeOK, CompleteCopy, FullyCounted
  <1>3. line[s] \in [Items -> {Absent} \cup Stamps]
    BY <1>2 DEF Sheet
  <1>4. t \in Call /\ t.pc = "copied" /\ t.slot = s /\ t.copy = line[s]
    BY <1>1, <1>3 DEF Call
  <1>5. /\ call' = [call EXCEPT ![c] = t]
        /\ UNCHANGED <<item, session, line, counts, clock, edits>>
        /\ \E i \in Items : line[s][i] # Absent
    BY DEF CompleteCopy, FullyCounted
  <1>6. Knows(t)
    BY <1>1, <1>4, <1>5 DEF Knows
  <1>7. Completing(call[c]) /\ call[c].slot = t.slot
    BY <1>1, <1>4 DEF Completing
  <1>8. clock' \in {0} \cup Stamps /\ edits' \in Nat
    BY <1>5 DEF Inv, TypeOK
  <1> HIDE DEF t, s
  <1> QED  BY <1>4, <1>5, <1>6, <1>7, <1>8, InvCall

LEMMA InvCallFails ==
    ASSUME Inv, NEW c \in Staff, CallFails(c)
    PROVE  Inv'
  <1>1. Knows(Idle) /\ ~Completing(Idle)
    BY IdleType DEF Knows, Completing
  <1>2. clock' \in {0} \cup Stamps /\ edits' \in Nat
    BY DEF Inv, TypeOK, CallFails
  <1> QED  BY <1>1, <1>2, IdleType, InvCall DEF CallFails

(***************************************************************************)
(* Commits.  The transaction that commits holds nothing afterwards.        *)
(***************************************************************************)
LEMMA OneWhenIdle ==
    ASSUME OneCompletion, NEW c \in Staff, call'[c] = Idle,
           \A b \in Staff : b # c => call'[b] = call[b]
    PROVE  OneCompletion'
  <1> SUFFICES ASSUME NEW a \in Staff, NEW b \in Staff,
                      Completing(call'[a]), Completing(call'[b]),
                      call'[a].slot = call'[b].slot
               PROVE  a = b
    BY DEF OneCompletion, Completing
  <1>1. ~Completing(Idle)
    BY IdleType DEF Completing
  <1> QED  BY <1>1 DEF OneCompletion

LEMMA StartEffect ==
    ASSUME Inv, NEW c \in Staff, StartCommit(c)
    PROVE  LET s == call[c].slot IN
           /\ s \in Slots
           /\ session' = [session EXCEPT ![s] = session'[s]]
           /\ session'[s] \in {"absent", "in_progress", "completed"}
           /\ session'[s] = "completed" <=> session[s] = "completed"
           /\ session[s] \in {"in_progress", "completed"} => session'[s] = session[s]
           /\ line' = [line EXCEPT ![s] = line'[s]] /\ line'[s] \in Sheet
           /\ \A i \in Items :
                 \/ line'[s][i] = line[s][i]
                 \/ line[s][i] = Absent /\ line'[s][i] = Blank /\ item[i] = "active"
           /\ line'[s] = line[s] \/ SessionFree(s)
           /\ call' = [call EXCEPT ![c] = Idle]
           /\ UNCHANGED <<item, counts, clock, edits>>
  <1> DEFINE s     == call[c].slot
             fresh == {i \in Items : item[i] = "active" /\ line[s][i] = Absent}
             sheet == [i \in Items |-> IF i \in fresh THEN Blank ELSE line[s][i]]
             state == IF session[s] = "absent" THEN "in_progress" ELSE session[s]
  <1>1. s \in Slots
    BY DEF Inv, CallsKnow, Knows, StartCommit
  <1>2. /\ session \in [Slots -> {"absent", "in_progress", "completed"}]
        /\ line \in [Slots -> Sheet] /\ line[s] \in [Items -> {Absent, Blank} \cup Stamps]
    BY <1>1 DEF Inv, TypeOK, Sheet
  <1>3. /\ session' = [session EXCEPT ![s] = state]
        /\ line' = [line EXCEPT ![s] = sheet]
        /\ fresh # {} => SessionFree(s)
        /\ call' = [call EXCEPT ![c] = Idle]
        /\ UNCHANGED <<item, counts, clock, edits>>
    BY DEF StartCommit
  <1>4. session'[s] = state /\ line'[s] = sheet
    BY <1>1, <1>2, <1>3
  <1>5. sheet \in Sheet
    BY <1>2 DEF Sheet
  <1>6. \A i \in Items :
           \/ sheet[i] = line[s][i]
           \/ line[s][i] = Absent /\ sheet[i] = Blank /\ item[i] = "active"
    <2> TAKE i \in Items
    <2>1. sheet[i] = IF i \in fresh THEN Blank ELSE line[s][i]
      OBVIOUS
    <2>2. i \in fresh => item[i] = "active" /\ line[s][i] = Absent
      OBVIOUS
    <2> HIDE DEF fresh, sheet
    <2> QED  BY <2>1, <2>2
  <1>7. fresh = {} => sheet = line[s]
    BY <1>2
  <1>8. state \in {"absent", "in_progress", "completed"}
        /\ (session[s] \in {"in_progress", "completed"} => state = session[s])
        /\ (state = "completed" <=> session[s] = "completed")
    BY <1>1, <1>2
  <1> HIDE DEF fresh, sheet, state
  <1> QED  BY <1>1, <1>3, <1>4, <1>5, <1>6, <1>7, <1>8

LEMMA InvStartCommit ==
    ASSUME Inv, NEW c \in Staff, StartCommit(c)
    PROVE  Inv'
  <1> DEFINE s == call[c].slot
  <1>1. /\ s \in Slots
        /\ session' = [session EXCEPT ![s] = session'[s]]
        /\ session'[s] \in {"absent", "in_progress", "completed"}
        /\ session[s] \in {"in_progress", "completed"} => session'[s] = session[s]
        /\ line' = [line EXCEPT ![s] = line'[s]] /\ line'[s] \in Sheet
        /\ \A i \in Items :
              \/ line'[s][i] = line[s][i]
              \/ line[s][i] = Absent /\ line'[s][i] = Blank /\ item[i] = "active"
        /\ line'[s] = line[s] \/ SessionFree(s)
        /\ call' = [call EXCEPT ![c] = Idle]
        /\ UNCHANGED <<item, counts, clock, edits>>
    BY StartEffect
  <1>2. /\ call'[c] = Idle /\ \A b \in Staff : b # c => call'[b] = call[b]
        /\ \A r \in Slots : r # s => session'[r] = session[r] /\ line'[r] = line[r]
    BY <1>1 DEF Inv, TypeOK
  <1> HIDE DEF s
  <1>3. TypeOK'
    BY <1>1, IdleType DEF Inv, TypeOK
  <1>4. CallsKnow'
    <2> SUFFICES ASSUME NEW b \in Staff PROVE Knows(call[b])'
      BY DEF CallsKnow
    <2>1. CASE b = c
      BY <1>2, <2>1, IdleType DEF Knows
    <2>2. CASE b # c
      <3>1. call'[b] = call[b] /\ Knows(call[b])
        BY <1>2, <2>2 DEF Inv, CallsKnow
      <3>2. CASE call[b].slot # s
        BY <1>2, <3>1, <3>2 DEF Knows
      <3>3. CASE call[b].slot = s
        <4>1. \A i \in Items : line[s][i] # Absent => line'[s][i] # Absent
          BY <1>1, AbsentValues
        <4>2. call[b].pc = "copied" => line'[s] = line[s]
          BY <1>1, <3>3 DEF SessionFree
        <4>3. call[b].pc \in {"completing", "copied"} => session'[s] = "in_progress"
          BY <1>1, <3>1, <3>3 DEF Knows
        <4> QED  BY <1>1, <3>1, <3>3, <4>1, <4>2, <4>3 DEF Knows
      <3> QED  BY <3>2, <3>3
    <2> QED  BY <2>1, <2>2
  <1>5. OneCompletion'
    BY <1>2, OneWhenIdle DEF Inv
  <1>6. DeletedLeavesNoTrace'
    <2>1. \A r \in Slots, i \in Items : line'[r][i] = line[r][i] \/ item[i] = "active"
      BY <1>1, <1>2
    <2> QED  BY <1>1, <2>1 DEF Inv, DeletedLeavesNoTrace
  <1>7. SeenWhenCounted'
    BY <1>1 DEF Inv, SeenWhenCounted
  <1> QED  BY <1>3, <1>4, <1>5, <1>6, <1>7 DEF Inv

LEMMA RecordEffect ==
    ASSUME Inv, NEW c \in Staff, RecordCommit(c)
    PROVE  LET s == call[c].slot
               i == call[c].item
           IN  /\ s \in Slots /\ i \in Items /\ call[c].stamp \in Stamps
               /\ line[s][i] # Absent
               /\ line' = [line EXCEPT ![s] = line'[s]]
               /\ line'[s] = [line[s] EXCEPT ![i] = call[c].stamp]
               /\ line'[s] \in Sheet
               /\ \A r \in Slots : r # s => line'[r] = line[r]
               /\ \A r \in Slots, j \in Items : line'[r][j] = Absent <=> line[r][j] = Absent
  <1> DEFINE s == call[c].slot
             i == call[c].item
             n == call[c].stamp
  <1>1. s \in Slots /\ i \in Items /\ n \in Stamps /\ line[s][i] # Absent
    BY DEF Inv, CallsKnow, Knows, RecordCommit
  <1>2. line \in [Slots -> Sheet] /\ line[s] \in [Items -> {Absent, Blank} \cup Stamps]
    BY <1>1 DEF Inv, TypeOK, Sheet
  <1>3. line' = [line EXCEPT ![s] = [line[s] EXCEPT ![i] = n]]
    BY DEF RecordCommit
  <1> HIDE DEF s, i, n
  <1>4. /\ line'[s] = [line[s] EXCEPT ![i] = n]
        /\ \A r \in Slots : r # s => line'[r] = line[r]
        /\ line' = [line EXCEPT ![s] = line'[s]]
    BY <1>1, <1>2, <1>3
  <1>5. line'[s] \in Sheet
    BY <1>1, <1>2, <1>4 DEF Sheet
  <1>6. n # Absent
    BY <1>1, AbsentValues, BoundsAssumption DEF Stamps
  <1>7. \A r \in Slots, j \in Items : line'[r][j] = Absent <=> line[r][j] = Absent
    BY <1>1, <1>2, <1>4, <1>6
  <1> QED  BY <1>1, <1>4, <1>5, <1>7 DEF s, i, n

LEMMA InvRecordCommit ==
    ASSUME Inv, NEW c \in Staff, RecordCommit(c)
    PROVE  Inv'
  <1>1. /\ line' \in [Slots -> Sheet]
        /\ \A r \in Slots, j \in Items : line'[r][j] = Absent <=> line[r][j] = Absent
    BY RecordEffect DEF Inv, TypeOK
  <1>2. /\ call' = [call EXCEPT ![c] = Idle]
        /\ UNCHANGED <<item, session, counts, clock, edits>>
    BY DEF RecordCommit
  <1>3. call'[c] = Idle /\ \A b \in Staff : b # c => call'[b] = call[b]
    BY <1>2 DEF Inv, TypeOK
  <1>4. TypeOK'
    BY <1>1, <1>2, IdleType DEF Inv, TypeOK
  <1>5. CallsKnow'
    BY <1>1, <1>2, <1>3, IdleType DEF Inv, CallsKnow, Knows
  <1>6. OneCompletion'
    BY <1>3, OneWhenIdle DEF Inv
  <1>7. DeletedLeavesNoTrace' /\ SeenWhenCounted'
    BY <1>1, <1>2 DEF Inv, DeletedLeavesNoTrace, SeenWhenCounted
  <1> QED  BY <1>4, <1>5, <1>6, <1>7 DEF Inv

\* The rows a completion appends.
Posted(c) == {[source |-> call[c].slot, item |-> i, seen |-> call[c].copy[i],
               at |-> CountedAt(call[c].copy[i])] :
                  i \in {j \in Items : call[c].copy[j] # Absent}}

LEMMA PostEffect ==
    ASSUME Inv, NEW c \in Staff, CompleteCommit(c)
    PROVE  /\ call[c].slot \in Slots
           /\ session[call[c].slot] = "in_progress"
           /\ \E i \in Items : call[c].copy[i] # Absent
           /\ \A i \in Items : call[c].copy[i] = Absent <=> line[call[c].slot][i] = Absent
           /\ call[c].copy \in [Items -> {Absent} \cup Stamps]
           /\ session' = [session EXCEPT ![call[c].slot] = "completed"]
           /\ counts' = counts \cup Posted(c)
           /\ call' = [call EXCEPT ![c] = Idle]
           /\ UNCHANGED <<item, line, clock, edits>>
           /\ \A h \in Posted(c) : /\ h \in Count /\ h.at = h.seen
                                   /\ line[call[c].slot][h.item] # Absent
  <1>1. call[c] \in Call /\ Knows(call[c]) /\ call[c].pc = "copied"
    BY DEF Inv, TypeOK, CallsKnow, CompleteCommit
  <1>2. /\ call[c].slot \in Slots /\ session[call[c].slot] = "in_progress"
        /\ \E i \in Items : call[c].copy[i] # Absent
        /\ \A i \in Items : call[c].copy[i] = Absent <=> line[call[c].slot][i] = Absent
    BY <1>1 DEF Knows
  <1>3. call[c].copy \in [Items -> {Absent} \cup Stamps]
    BY <1>1 DEF Call
  <1>4. \A h \in Posted(c) : /\ h \in Count /\ h.at = h.seen
                             /\ line[call[c].slot][h.item] # Absent
    BY <1>2, <1>3 DEF Posted, Count, CountedAt
  <1>5. /\ session' = [session EXCEPT ![call[c].slot] = "completed"]
        /\ counts' = counts \cup Posted(c)
        /\ call' = [call EXCEPT ![c] = Idle]
        /\ UNCHANGED <<item, line, clock, edits>>
    BY DEF CompleteCommit, Posted
  <1> QED  BY <1>2, <1>3, <1>4, <1>5

LEMMA InvCompleteCommit ==
    ASSUME Inv, NEW c \in Staff, CompleteCommit(c)
    PROVE  Inv'
  <1>1. call[c].pc = "copied"
    BY DEF CompleteCommit
  <1>2. /\ call[c].slot \in Slots
        /\ session' = [session EXCEPT ![call[c].slot] = "completed"]
        /\ counts' = counts \cup Posted(c)
        /\ call' = [call EXCEPT ![c] = Idle]
        /\ UNCHANGED <<item, line, clock, edits>>
        /\ \A h \in Posted(c) : /\ h \in Count /\ h.at = h.seen
                                /\ line[call[c].slot][h.item] # Absent
    BY PostEffect
  <1>3. /\ call'[c] = Idle /\ \A b \in Staff : b # c => call'[b] = call[b]
        /\ \A r \in Slots : r # call[c].slot => session'[r] = session[r]
    BY <1>2 DEF Inv, TypeOK
  <1>4. TypeOK'
    BY <1>2, IdleType DEF Inv, TypeOK
  <1>5. CallsKnow'
    <2> SUFFICES ASSUME NEW b \in Staff PROVE Knows(call[b])'
      BY DEF CallsKnow
    <2>1. CASE b = c
      BY <1>3, <2>1, IdleType DEF Knows
    <2>2. CASE b # c
      <3>1. call'[b] = call[b] /\ Knows(call[b])
        BY <1>3, <2>2 DEF Inv, CallsKnow
      <3>2. Completing(call[b]) => call[b].slot # call[c].slot
        BY <1>1, <2>2 DEF Inv, OneCompletion, Completing
      <3> QED  BY <1>2, <1>3, <3>1, <3>2 DEF Knows, Completing
    <2> QED  BY <2>1, <2>2
  <1>6. OneCompletion'
    BY <1>3, OneWhenIdle DEF Inv
  <1>7. DeletedLeavesNoTrace'
    BY <1>2 DEF Inv, DeletedLeavesNoTrace, Count
  <1>8. SeenWhenCounted'
    BY <1>2 DEF Inv, SeenWhenCounted
  <1> QED  BY <1>4, <1>5, <1>6, <1>7, <1>8 DEF Inv

(***************************************************************************)
(* Single counts and the catalog.                                          *)
(***************************************************************************)
LEMMA InvRecordStockCount ==
    ASSUME Inv, NEW i \in Items, RecordStockCount(i)
    PROVE  Inv'
  <1> DEFINE n == clock + 1
             h == [source |-> NoSlot, item |-> i, seen |-> n, at |-> n]
  <1>1. n \in Stamps
    BY StampNext DEF Inv, TypeOK, RecordStockCount
  <1>2. /\ counts' = counts \cup {h} /\ clock' = n /\ item[i] = "active"
        /\ UNCHANGED <<item, session, line, call, edits>>
    BY DEF RecordStockCount
  <1> HIDE DEF n
  <1>3. h \in Count /\ h.at = h.seen /\ h.item = i
    BY <1>1 DEF Count
  <1> HIDE DEF h
  <1>4. TypeOK'
    BY <1>1, <1>2, <1>3 DEF Inv, TypeOK
  <1>5. CallsKnow' /\ OneCompletion'
    BY <1>2 DEF Inv, CallsKnow, Knows, OneCompletion, Completing
  <1>6. DeletedLeavesNoTrace' /\ SeenWhenCounted'
    BY <1>2, <1>3 DEF Inv, DeletedLeavesNoTrace, SeenWhenCounted
  <1> QED  BY <1>4, <1>5, <1>6 DEF Inv

LEMMA InvCatalog ==
    ASSUME Inv, NEW i \in Items, CreateItem(i) \/ SetItemActive(i) \/ DeleteItem(i)
    PROVE  Inv'
  <1>1. /\ item' \in [Items -> {"absent", "active", "inactive", "deleted"}]
        /\ \A j \in Items : j # i => item'[j] = item[j]
        /\ item'[i] = "deleted" => ~Referenced(i)
        /\ UNCHANGED <<session, line, counts, call, clock>> /\ edits' \in Nat
    BY DEF Inv, TypeOK, CreateItem, SetItemActive, DeleteItem
  <1>2. TypeOK'
    BY <1>1 DEF Inv, TypeOK
  <1>3. CallsKnow' /\ OneCompletion' /\ SeenWhenCounted'
    BY <1>1 DEF Inv, CallsKnow, Knows, OneCompletion, Completing, SeenWhenCounted
  <1>4. DeletedLeavesNoTrace'
    BY <1>1 DEF Inv, DeletedLeavesNoTrace, Referenced
  <1> QED  BY <1>2, <1>3, <1>4 DEF Inv

LEMMA InvNext ==
    ASSUME Inv, [Next]_vars
    PROVE  Inv'
  <1>1. ASSUME UNCHANGED vars
        PROVE  Inv'
    BY <1>1 DEF vars, Inv, TypeOK, CallsKnow, Knows, OneCompletion, Completing,
       DeletedLeavesNoTrace, SeenWhenCounted
  <1>2. ASSUME NEW c \in Staff, NEW s \in Slots,
               \/ StartSession(c, s) \/ CompleteLock(c, s)
               \/ \E i \in Items : RecordWrite(c, s, i)
        PROVE  Inv'
    BY <1>2, InvStartSession, InvCompleteLock, InvRecordWrite
  <1>3. ASSUME NEW c \in Staff,
               \/ StartCommit(c) \/ RecordCommit(c) \/ CompleteCopy(c)
               \/ CompleteCommit(c) \/ CallFails(c)
        PROVE  Inv'
    BY <1>3, InvStartCommit, InvRecordCommit, InvCompleteCopy, InvCompleteCommit,
       InvCallFails
  <1>4. ASSUME NEW i \in Items,
               RecordStockCount(i) \/ CreateItem(i) \/ SetItemActive(i) \/ DeleteItem(i)
        PROVE  Inv'
    BY <1>4, InvRecordStockCount, InvCatalog
  <1> QED  BY <1>1, <1>2, <1>3, <1>4 DEF Next

LEMMA InvInit == Init => Inv
  <1> SUFFICES ASSUME Init PROVE Inv
    OBVIOUS
  <1>1. TypeOK
    BY IdleType, BoundsAssumption DEF Init, TypeOK, NoSheet, Sheet
  <1>2. \A c \in Staff : call[c].pc = "idle"
    BY IdleType DEF Init
  <1>4. CallsKnow /\ OneCompletion
    BY <1>2 DEF CallsKnow, Knows, OneCompletion, Completing
  <1>3. DeletedLeavesNoTrace /\ SeenWhenCounted
    BY DEF Init, DeletedLeavesNoTrace, SeenWhenCounted
  <1> QED  BY <1>1, <1>4, <1>3 DEF Inv

LEMMA InvHolds == Spec => []Inv
  <1>1. Inv /\ [Next]_vars => Inv'  BY InvNext
  <1> QED  BY InvInit, <1>1, PTL DEF Spec

\* Every reachable state is well typed.
THEOREM TypeCorrect == Spec => []TypeOK
  <1>1. Inv => TypeOK  BY DEF Inv
  <1> QED  BY InvHolds, <1>1, PTL

\* A permanently deleted item is named by no count and no line.
THEOREM DeletionClean == Spec => []DeletedLeavesNoTrace
  <1>1. Inv => DeletedLeavesNoTrace  BY DEF Inv
  <1> QED  BY InvHolds, <1>1, PTL

\* No line appears on a sheet between its copy and the commit of the completion.
THEOREM WholeSheetCopied == Spec => []CopyIsWholeSheet
  <1>1. Inv => CopyIsWholeSheet
    BY SMTT(60) DEF Inv, CallsKnow, Knows, CopyIsWholeSheet
  <1> QED  BY InvHolds, <1>1, PTL

(***************************************************************************)
(* The shown count.                                                        *)
(***************************************************************************)
LEMMA HistoryGrows ==
    ASSUME Inv, [Next]_vars
    PROVE  counts \subseteq counts'
  <1>1. ASSUME NEW c \in Staff, CompleteCommit(c)
        PROVE  counts \subseteq counts'
    BY <1>1, PostEffect
  <1>2. ASSUME NEW i \in Items, RecordStockCount(i)
        PROVE  counts \subseteq counts'
    BY <1>2 DEF RecordStockCount
  <1> QED
    BY <1>1, <1>2 DEF Next, vars, StartSession, CompleteLock, RecordWrite,
       StartCommit, RecordCommit, CompleteCopy, CallFails, CreateItem,
       SetItemActive, DeleteItem

\* A late completion never shows an older observation over a newer one.
THEOREM NewestShown == Spec => ShownNeverGoesBack
  <1>1. ASSUME Inv, Inv', [Next]_vars
        PROVE  \A i \in Items : \A h \in LatestOf(counts, i) :
                  \A g \in LatestOf(counts', i) : h.seen <= g.seen
    <2> SUFFICES ASSUME NEW i \in Items, NEW h \in LatestOf(counts, i),
                        NEW g \in LatestOf(counts', i)
                 PROVE  h.seen <= g.seen
      OBVIOUS
    <2>1. h \in counts' /\ g \in counts' /\ h.item = i
      BY <1>1, HistoryGrows DEF LatestOf
    <2>2. h.at <= g.at
      BY <2>1 DEF LatestOf
    <2>3. h.at = h.seen /\ g.at = g.seen
      BY <1>1, <2>1 DEF Inv, SeenWhenCounted
    <2> QED  BY <2>2, <2>3
  <1>2. Inv /\ Inv' /\ [Next]_vars =>
          [\A i \in Items : \A h \in LatestOf(counts, i) :
              \A g \in LatestOf(counts', i) : h.seen <= g.seen]_vars
    BY <1>1
  <1> QED  BY InvHolds, <1>2, PTL DEF Spec, ShownNeverGoesBack

(***************************************************************************)
(* The sheet and the history, as StockLedger sees them.                    *)
(***************************************************************************)
Listed == [s \in Slots |-> {i \in Items : line[s][i] # Absent}]

Closed == {s \in Slots : session[s] = "completed"}

Seen(h) == [source |-> h.source, item |-> h.item, seen |-> h.seen]

History == {Seen(h) : h \in counts}

\* A step that keeps the lines' presence, the sessions and the history stutters.
LEMMA MapKept ==
    ASSUME UNCHANGED <<session, counts>>,
           \A r \in Slots, j \in Items : line'[r][j] = Absent <=> line[r][j] = Absent
    PROVE  UNCHANGED Ledger!lvars
  <1>1. Listed' = Listed
    BY DEF Listed
  <1>2. Closed' = Closed /\ History' = History
    BY DEF Closed, History
  <1> QED  BY <1>1, <1>2 DEF Ledger!lvars, Listed, Closed, History, Seen

LEMMA MapStart ==
    ASSUME Inv, NEW c \in Staff, StartCommit(c),
           NEW s \in Slots, s = call[c].slot
    PROVE  Ledger!LNext
  <1> DEFINE more == {i \in Items : line'[s][i] # Absent}
  <1>1. /\ session' = [session EXCEPT ![s] = session'[s]]
        /\ session'[s] = "completed" <=> session[s] = "completed"
        /\ line' = [line EXCEPT ![s] = line'[s]]
        /\ \A i \in Items : line[s][i] # Absent => line'[s][i] # Absent
        /\ UNCHANGED counts
    BY StartEffect
  <1>2. \A r \in Slots : r # s => line'[r] = line[r] /\ session'[r] = session[r]
    BY <1>1 DEF Inv, TypeOK
  <1>3. Listed' = [Listed EXCEPT ![s] = Listed[s] \cup more]
    <2>1. \A r \in Slots : r # s => Listed'[r] = Listed[r]
      BY <1>2 DEF Listed
    <2>2. Listed'[s] = Listed[s] \cup more
      BY <1>1 DEF Listed
    <2> QED  BY <2>1, <2>2 DEF Listed
  <1>4. Closed' = Closed
    BY <1>1, <1>2 DEF Closed
  <1>5. History' = History
    BY <1>1 DEF History
  <1>6. more \in SUBSET Items
    OBVIOUS
  <1> HIDE DEF more
  <1>7. Ledger!List(s)
    BY <1>3, <1>4, <1>5, <1>6 DEF Ledger!List, Listed, Closed, History, Seen
  <1> QED  BY <1>7 DEF Ledger!LNext

LEMMA MapPost ==
    ASSUME Inv, NEW c \in Staff, CompleteCommit(c),
           NEW s \in Slots, s = call[c].slot
    PROVE  Ledger!LNext
  <1> DEFINE f == [i \in Listed[s] |-> call[c].copy[i]]
             new == {[source |-> s, item |-> i, seen |-> f[i]] : i \in Listed[s]}
  <1>1. /\ session[s] = "in_progress"
        /\ \E i \in Items : call[c].copy[i] # Absent
        /\ \A i \in Items : call[c].copy[i] = Absent <=> line[s][i] = Absent
        /\ call[c].copy \in [Items -> {Absent} \cup Stamps]
        /\ session' = [session EXCEPT ![s] = "completed"]
        /\ counts' = counts \cup Posted(c)
        /\ UNCHANGED line
    BY PostEffect
  <1>2. Listed[s] = {i \in Items : call[c].copy[i] # Absent}
    BY <1>1 DEF Listed
  <1>3. f \in [Listed[s] -> Stamps] /\ \A i \in Listed[s] : f[i] = call[c].copy[i]
    BY <1>1, <1>2
  <1> HIDE DEF f
  <1>4. {Seen(h) : h \in Posted(c)} = new
    <2>1. Posted(c) = {[source |-> s, item |-> i, seen |-> f[i], at |-> CountedAt(f[i])] :
                          i \in Listed[s]}
      BY <1>2, <1>3 DEF Posted
    <2>2. \A h \in Posted(c) : Seen(h) \in new
      BY <2>1 DEF Seen
    <2>3. ASSUME NEW i \in Listed[s]
          PROVE  \E h \in Posted(c) : Seen(h) = [source |-> s, item |-> i, seen |-> f[i]]
      <3> DEFINE h == [source |-> s, item |-> i, seen |-> f[i], at |-> CountedAt(f[i])]
      <3>1. h \in Posted(c)
        BY <2>1
      <3>2. Seen(h) = [source |-> s, item |-> i, seen |-> f[i]]
        BY DEF Seen
      <3> HIDE DEF h
      <3> QED  BY <3>1, <3>2
    <2>4. \A x \in new : \E h \in Posted(c) : x = Seen(h)
      BY <2>3
    <2> HIDE DEF new
    <2> QED  BY <2>2, <2>4
  <1>5. History' = History \cup {Seen(h) : h \in Posted(c)}
    BY <1>1 DEF History
  <1>6. Closed' = Closed \cup {s} /\ s \notin Closed
    BY <1>1 DEF Inv, TypeOK, Closed
  <1>7. Listed' = Listed /\ Listed[s] # {}
    BY <1>1, <1>2 DEF Listed
  <1>8. Ledger!Rows(s, f) = new
    BY DEF Ledger!Rows, Listed
  <1> HIDE DEF new
  <1>9. Ledger!Post(s)
    <2>1. History' = History \cup Ledger!Rows(s, f)
      BY <1>4, <1>5, <1>8
    <2> QED  BY <1>3, <1>6, <1>7, <2>1 DEF Ledger!Post, Listed, Closed, History, Seen
  <1> QED  BY <1>9 DEF Ledger!LNext

LEMMA MapCountOne ==
    ASSUME Inv, NEW i \in Items, RecordStockCount(i)
    PROVE  Ledger!LNext
  <1> DEFINE n == clock + 1
             h == [source |-> NoSlot, item |-> i, seen |-> n, at |-> n]
  <1>1. n \in Stamps
    BY StampNext DEF Inv, TypeOK, RecordStockCount
  <1>2. counts' = counts \cup {h} /\ UNCHANGED <<session, line>>
    BY DEF RecordStockCount
  <1> HIDE DEF n
  <1>3. Seen(h) = [source |-> NoSlot, item |-> i, seen |-> n]
    BY DEF Seen
  <1> HIDE DEF h
  <1>4. History' = History \cup {[source |-> NoSlot, item |-> i, seen |-> n]}
    BY <1>2, <1>3 DEF History
  <1>5. Listed' = Listed /\ Closed' = Closed
    BY <1>2 DEF Listed, Closed
  <1>6. Ledger!CountOne(i)
    BY <1>1, <1>4, <1>5, SMTT(60) DEF Ledger!CountOne, Listed, Closed, History, Seen
  <1> QED  BY <1>6 DEF Ledger!LNext

LEMMA MapStep ==
    ASSUME Inv, [Next]_vars
    PROVE  [Ledger!LNext]_(Ledger!lvars)
  <1>1. ASSUME UNCHANGED <<session, line, counts>>
        PROVE  UNCHANGED Ledger!lvars
    BY <1>1, MapKept
  <1>2. ASSUME NEW c \in Staff, StartCommit(c) \/ CompleteCommit(c)
        PROVE  Ledger!LNext
    <2>1. \E s \in Slots : s = call[c].slot
      BY <1>2, StartEffect, PostEffect
    <2> QED  BY <1>2, <2>1, MapStart, MapPost
  <1>3. ASSUME NEW c \in Staff, RecordCommit(c)
        PROVE  UNCHANGED Ledger!lvars
    <2>1. \A r \in Slots, j \in Items : line'[r][j] = Absent <=> line[r][j] = Absent
      BY <1>3, RecordEffect
    <2>2. UNCHANGED <<session, counts>>
      BY <1>3 DEF RecordCommit
    <2> QED  BY <2>1, <2>2, MapKept
  <1>4. ASSUME NEW i \in Items, RecordStockCount(i)
        PROVE  Ledger!LNext
    BY <1>4, MapCountOne
  <1> QED
    BY <1>1, <1>2, <1>3, <1>4 DEF Next, vars, StartSession, CompleteLock, RecordWrite,
       CompleteCopy, CallFails, CreateItem, SetItemActive, DeleteItem

LEMMA MapInit == Init => Ledger!LInit
  BY DEF Init, Ledger!LInit, NoSheet

\* The stock check implements StockLedger: whatever transactions overlap, a
\* sheet posts once, in one step, one count for every line it has then.
THEOREM Refinement == Spec => ImplementsLedger
  <1>1. Inv /\ [Next]_vars => [Ledger!LNext]_(Ledger!lvars)
    BY MapStep
  <1> QED  BY InvHolds, MapInit, <1>1, PTL DEF Spec, ImplementsLedger, Ledger!LSpec
=============================================================================
