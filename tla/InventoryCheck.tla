--------------------------- MODULE InventoryCheck ---------------------------
(***************************************************************************)
(* The daily stock check of one location: a staff member opens the sheet   *)
(* of a slot (business date, opening or closing), staff count its lines,   *)
(* someone completes it, which appends the counts to the stock history.    *)
(* Items are also counted outside a sheet, and managers edit the catalog.  *)
(*                                                                         *)
(* The three RPCs are transactions of several statements (READ COMMITTED); *)
(* call[c] is the transaction of staff member c, with the locks it holds.  *)
(* Inserting a line locks its session row in share mode (foreign key), so  *)
(* it waits for a completion; updating a line does not touch the session.  *)
(*                                                                         *)
(* A counted quantity is named by the moment it was observed.              *)
(***************************************************************************)
EXTENDS Naturals

CONSTANTS
    Items,          \* inventory.items rows of the location
    Slots,          \* (business_date, check_type) pairs
    Staff,          \* who calls: the bound on concurrent transactions
    NoItem, NoSlot,
    Absent,         \* no such line
    Blank,          \* a line whose actual_quantity is null
    MaxStamp,       \* bound on the number of observations
    EditLimit       \* bound on catalog edits

ASSUME BoundsAssumption == MaxStamp \in Nat /\ EditLimit \in Nat
ASSUME AbsentValues == /\ NoItem \notin Items /\ NoSlot \notin Slots
                       /\ Absent \notin Nat /\ Blank \notin Nat /\ Absent # Blank

VARIABLES
    item,       \* item[i]: the catalog row
    session,    \* session[s]: status of the check_sessions row of slot s
    line,       \* line[s][i]: the check_session_items row
    counts,     \* stock_counts: [source, item, seen, at]
    call,       \* call[c]: the transaction of staff member c
    clock,      \* the last observation's stamp
    edits       \* catalog edits made so far

vars == <<item, session, line, counts, call, clock, edits>>

Stamps == 1..MaxStamp

Count == [source : Slots \cup {NoSlot}, item : Items, seen : Stamps, at : Stamps]

Sheet == [Items -> {Absent, Blank} \cup Stamps]

NoSheet == [i \in Items |-> Absent]

Call == [pc : {"idle", "starting", "recording", "completing", "copied"},
         slot : Slots \cup {NoSlot}, item : Items \cup {NoItem},
         stamp : {0} \cup Stamps,
         copy : [Items -> {Absent} \cup Stamps]]

Idle == [pc |-> "idle", slot |-> NoSlot, item |-> NoItem, stamp |-> 0, copy |-> NoSheet]

\* The one type invariant of the module.
TypeOK == /\ item \in [Items -> {"absent", "active", "inactive", "deleted"}]
          /\ session \in [Slots -> {"absent", "in_progress", "completed"}]
          /\ line \in [Slots -> Sheet]
          /\ counts \subseteq Count
          /\ call \in [Staff -> Call]
          /\ clock \in {0} \cup Stamps
          /\ edits \in Nat

Init == /\ item \in [Items -> {"absent", "active", "inactive"}]
        /\ session = [s \in Slots |-> "absent"]
        /\ line = [s \in Slots |-> NoSheet]
        /\ counts = {}
        /\ call = [c \in Staff |-> Idle]
        /\ clock = 0
        /\ edits = 0

-----------------------------------------------------------------------------
(* api.start_inventory_check_session *)

\* A second INSERT of the slot waits for the first, uncommitted one.
SlotFree(s) == \/ session[s] # "absent"
               \/ \A c \in Staff : call[c].pc = "starting" => call[c].slot # s

NoSessionLock(s) == TRUE   \* mutant: the session row is not locked

\* The session row is locked by a completion.
SessionFree(s) == \A c \in Staff : call[c].pc \in {"completing", "copied"} => call[c].slot # s

\* INSERT ... ON CONFLICT DO NOTHING, or the session of that slot, whatever its
\* status.
StartSession(c, s) ==
    /\ call[c].pc = "idle"
    /\ SlotFree(s)
    /\ call' = [call EXCEPT ![c] = [Idle EXCEPT !.pc = "starting", !.slot = s]]
    /\ UNCHANGED <<item, session, line, counts, clock, edits>>

\* Every active item that has no line yet gets one.
StartCommit(c) ==
    LET s     == call[c].slot
        fresh == {i \in Items : item[i] = "active" /\ line[s][i] = Absent}
    IN  /\ call[c].pc = "starting"
        /\ fresh # {} => SessionFree(s)
        /\ session' = [session EXCEPT ![s] = IF @ = "absent" THEN "in_progress" ELSE @]
        /\ line' = [line EXCEPT ![s] = [i \in Items |-> IF i \in fresh THEN Blank
                                                        ELSE line[s][i]]]
        /\ call' = [call EXCEPT ![c] = Idle]
        /\ UNCHANGED <<item, counts, clock, edits>>

-----------------------------------------------------------------------------
(* api.record_inventory_session_item *)

\* A line is updated by one transaction at a time.
LineFree(s, i) == \A c \in Staff : call[c].pc = "recording" =>
                     ~(call[c].slot = s /\ call[c].item = i)

\* The UPDATE and its trigger see the session in progress; the session row is
\* not locked, the line is.
RecordWrite(c, s, i) ==
    /\ call[c].pc = "idle"
    /\ session[s] = "in_progress"
    /\ line[s][i] # Absent
    /\ LineFree(s, i)
    /\ clock < MaxStamp
    /\ clock' = clock + 1
    /\ call' = [call EXCEPT ![c] = [Idle EXCEPT !.pc = "recording", !.slot = s,
                                                !.item = i, !.stamp = clock + 1]]
    /\ UNCHANGED <<item, session, line, counts, edits>>

RecordCommit(c) ==
    /\ call[c].pc = "recording"
    /\ line' = [line EXCEPT ![call[c].slot][call[c].item] = call[c].stamp]
    /\ call' = [call EXCEPT ![c] = Idle]
    /\ UNCHANGED <<item, session, counts, clock, edits>>

-----------------------------------------------------------------------------
(* api.complete_inventory_check_session *)

CompleteLock(c, s) ==
    /\ call[c].pc = "idle"
    /\ SessionFree(s)
    /\ session[s] = "in_progress"
    /\ call' = [call EXCEPT ![c] = [Idle EXCEPT !.pc = "completing", !.slot = s]]
    /\ UNCHANGED <<item, session, line, counts, clock, edits>>

\* mutant: an empty sheet passes
EmptyIsFull(s) == \A i \in Items : line[s][i] # Blank

\* No line is null, and there is a line.
FullyCounted(s) == /\ \A i \in Items : line[s][i] # Blank
                   /\ \E i \in Items : line[s][i] # Absent

\* The trigger appends the counts; the policy of stock_counts refuses an item
\* that is no longer active, and with it the whole completion.
CompleteCopy(c) ==
    LET s == call[c].slot IN
    /\ call[c].pc = "completing"
    /\ FullyCounted(s)
    /\ \A i \in Items : line[s][i] # Absent => item[i] = "active"
    /\ call' = [call EXCEPT ![c] = [@ EXCEPT !.pc = "copied", !.copy = line[s]]]
    /\ UNCHANGED <<item, session, line, counts, clock, edits>>

StampNow(seen) == clock   \* mutant: counted_at is the time of completion

\* counted_at of the line, not the time of completion.
CountedAt(seen) == seen

CompleteCommit(c) ==
    LET s    == call[c].slot
        copy == call[c].copy
    IN  /\ call[c].pc = "copied"
        /\ session' = [session EXCEPT ![s] = "completed"]
        /\ counts' = counts \cup
             {[source |-> s, item |-> i, seen |-> copy[i], at |-> CountedAt(copy[i])] :
                 i \in {j \in Items : copy[j] # Absent}}
        /\ call' = [call EXCEPT ![c] = Idle]
        /\ UNCHANGED <<item, line, clock, edits>>

\* A raised exception or a lost connection: nothing persists, the locks go.
CallFails(c) ==
    /\ call[c].pc # "idle"
    /\ call' = [call EXCEPT ![c] = Idle]
    /\ UNCHANGED <<item, session, line, counts, clock, edits>>

-----------------------------------------------------------------------------
(* Counts outside a session, and the catalog. *)

\* api.record_inventory_stock_count
RecordStockCount(i) ==
    /\ item[i] = "active"
    /\ clock < MaxStamp
    /\ clock' = clock + 1
    /\ counts' = counts \cup {[source |-> NoSlot, item |-> i, seen |-> clock + 1,
                               at |-> clock + 1]}
    /\ UNCHANGED <<item, session, line, call, edits>>

\* upsertInventoryItem, insert
CreateItem(i) ==
    /\ edits < EditLimit
    /\ item[i] = "absent"
    /\ item' = [item EXCEPT ![i] = "active"]
    /\ edits' = edits + 1
    /\ UNCHANGED <<session, line, counts, call, clock>>

\* setInventoryItemActive: asks nothing of open sheets.
SetItemActive(i) ==
    /\ edits < EditLimit
    /\ item[i] \in {"active", "inactive"}
    /\ item' = [item EXCEPT ![i] = IF @ = "active" THEN "inactive" ELSE "active"]
    /\ edits' = edits + 1
    /\ UNCHANGED <<session, line, counts, call, clock>>

\* mutant: only the history is looked up, no foreign key on the lines
CountedOnly(i) == \E h \in counts : h.item = i

\* History, or a line of some sheet: the one is looked up, the other a foreign key.
Referenced(i) == \/ \E h \in counts : h.item = i
                 \/ \E s \in Slots : line[s][i] # Absent

\* inventory.permanently_delete_item
DeleteItem(i) ==
    /\ item[i] \in {"active", "inactive"}
    /\ ~Referenced(i)
    /\ item' = [item EXCEPT ![i] = "deleted"]
    /\ UNCHANGED <<session, line, counts, call, clock, edits>>

-----------------------------------------------------------------------------
Next == \/ \E c \in Staff :
              \/ \E s \in Slots : \/ StartSession(c, s)
                                  \/ CompleteLock(c, s)
                                  \/ \E i \in Items : RecordWrite(c, s, i)
              \/ StartCommit(c) \/ RecordCommit(c)
              \/ CompleteCopy(c) \/ CompleteCommit(c)
              \/ CallFails(c)
        \/ \E i \in Items : \/ RecordStockCount(i) \/ CreateItem(i)
                            \/ SetItemActive(i) \/ DeleteItem(i)

Spec == Init /\ [][Next]_vars
=============================================================================
