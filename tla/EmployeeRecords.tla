---------------------------- MODULE EmployeeRecords ----------------------------
(***************************************************************************)
(* Employees, what refers to them, and their LINE bindings: hiring,        *)
(* retiring, the permanent deletion that is allowed only without history,  *)
(* and binding or unbinding a LINE user id, each statement by statement.   *)
(* A session runs one transaction at a time.                               *)
(***************************************************************************)
EXTENDS Naturals, FiniteSets

CONSTANTS
    People,         \* employee rows that may come to be
    LineUsers,      \* blind indexes of LINE user ids
    Desks,          \* database sessions
    NoPerson, NoUser,
    MaxTraces       \* bound: history rows at a time

ASSUME EmployeeAssumption ==
    NoPerson \notin People /\ NoUser \notin LineUsers /\ MaxTraces \in Nat

\* What the deletion takes for history, by table.
TraceKinds == {"shift", "attendance", "request", "exchange"}
Traces == [of: People, kind: TraceKinds]
LineRow == [of: People \cup {NoPerson}, active: BOOLEAN]
DeskJob == [pc: {"ready", "writing", "checked", "locked", "deleted", "bound", "seen", "off"},
            who: People \cup {NoPerson}, from: People \cup {NoPerson}, kind: TraceKinds \cup {"none"},
            before: SUBSET Traces, user: LineUsers \cup {NoUser}, old: LineUsers \cup {NoUser}]

VARIABLES
    person,     \* person[p]: the employee row
    traces,     \* committed history rows
    binding,    \* binding[u]: the one row a LINE user id may have in the tenant
    desk        \* desk[d]: the transaction of a session

employeeVars == <<person, traces, binding, desk>>

Unbound == [of |-> NoPerson, active |-> FALSE]
Ready == [pc |-> "ready", who |-> NoPerson, from |-> NoPerson, kind |-> "none", before |-> {},
          user |-> NoUser, old |-> NoUser]

EmployeeTypes ==
    /\ person \in [People -> {"absent", "active", "retired", "deleted"}]
    /\ traces \subseteq Traces
    /\ binding \in [LineUsers -> LineRow]
    /\ desk \in [Desks -> DeskJob]

EmployeeInit ==
    /\ person = [p \in People |-> "absent"]
    /\ traces = {}
    /\ binding = [u \in LineUsers |-> Unbound]
    /\ desk = [d \in Desks |-> Ready]

-----------------------------------------------------------------------------
Employed(p) == person[p] \in {"active", "retired"}
Bindings(p) == {u \in LineUsers : binding[u].of = p}
ActiveOf(p) == {u \in Bindings(p) : binding[u].active}

\* An insert that refers to an employee shares the row's key until it commits.
KeyShared(p) == \E d \in Desks : desk[d].who = p /\ desk[d].pc \in {"writing", "bound"}
DeletionHolds(p) == \E d \in Desks : desk[d].who = p /\ desk[d].pc \in {"locked", "deleted"}
ShiftHeld(p) == \E d \in Desks : desk[d].pc = "writing" /\ desk[d].from = p
BindingHeld(u) == \E d \in Desks : desk[d].pc \in {"off", "bound"} /\ desk[d].old = u

Frees(d) == desk' = [desk EXCEPT ![d] = Ready]

Hire(p) ==
    /\ person[p] = "absent"
    /\ person' = [person EXCEPT ![p] = "active"]
    /\ UNCHANGED <<traces, binding, desk>>

SetActive(p, s) ==
    /\ Employed(p) /\ ~DeletionHolds(p)
    /\ person' = [person EXCEPT ![p] = s]
    /\ UNCHANGED <<traces, binding, desk>>

\* A history row of any table; who left files no request and takes no shift over.
WriteTrace(d, p, k) ==
    /\ desk[d].pc = "ready" /\ Cardinality(traces) < MaxTraces
    /\ Employed(p) /\ ~DeletionHolds(p)
    /\ k \in {"request", "exchange"} => person[p] = "active"
    /\ desk' = [desk EXCEPT ![d] = [Ready EXCEPT !.pc = "writing", !.who = p, !.kind = k]]
    /\ UNCHANGED <<person, traces, binding>>

\* A shift is taken from its employee, for another one or for nobody.
MoveShiftOf(d, p, q) ==
    /\ desk[d].pc = "ready" /\ q # p
    /\ [of |-> p, kind |-> "shift"] \in traces
    /\ ~(\E e \in Desks : desk[e].pc = "deleted" /\ desk[e].who = p)
    /\ q # NoPerson => Employed(q) /\ ~DeletionHolds(q)
    /\ desk' = [desk EXCEPT ![d] = [Ready EXCEPT !.pc = "writing", !.who = q, !.from = p,
                                              !.kind = "shift"]]
    /\ UNCHANGED <<person, traces, binding>>

\* The shifts of an employee are one trace, which stays while another shift is left.
CommitTrace(d) ==
    /\ desk[d].pc = "writing"
    /\ \E lost \in {{}, {h \in traces : h.of = desk[d].from /\ h.kind = "shift"}} :
          traces' = (traces \ lost) \cup {[of |-> p, kind |-> desk[d].kind] : p \in People \cap {desk[d].who}}
    /\ Frees(d)
    /\ UNCHANGED <<person, binding>>

-----------------------------------------------------------------------------
(* The permanent deletion. *)

\* mutant: the check leaves out a table
NoShiftOf(p) == \A h \in traces : h.of = p => h.kind # "shift"
HasNoHistory(p) == \A h \in traces : h.of # p

CheckHistory(d, p) ==
    /\ desk[d].pc = "ready"
    /\ Employed(p) /\ HasNoHistory(p)
    /\ desk' = [desk EXCEPT ![d] = [Ready EXCEPT !.pc = "checked", !.who = p,
                                              !.before = {h \in traces : h.of = p}]]
    /\ UNCHANGED <<person, traces, binding>>

\* Waits for who shares the key and for another deletion; a row that is gone is not deleted again.
DeleteLock(d) ==
    LET p == desk[d].who IN
    /\ desk[d].pc = "checked" /\ ~KeyShared(p) /\ ~DeletionHolds(p)
    /\ \/ Employed(p) /\ desk' = [desk EXCEPT ![d].pc = "locked"]
       \/ ~Employed(p) /\ Frees(d)
    /\ UNCHANGED <<person, traces, binding>>

\* Bindings, attendance and requests cascade, shifts lose their employee; exchanges refuse.
DeleteRow(d) ==
    LET p == desk[d].who IN
    /\ desk[d].pc = "locked" /\ ~ShiftHeld(p) /\ \A u \in Bindings(p) : ~BindingHeld(u)
    /\ IF [of |-> p, kind |-> "exchange"] \in traces THEN Frees(d)
                                                     ELSE desk' = [desk EXCEPT ![d].pc = "deleted"]
    /\ UNCHANGED <<person, traces, binding>>

DeleteCommit(d) ==
    LET p == desk[d].who IN
    /\ desk[d].pc = "deleted"
    /\ person' = [person EXCEPT ![p] = "deleted"]
    /\ traces' = {h \in traces : h.of # p}
    /\ binding' = [u \in LineUsers |-> IF binding[u].of = p THEN Unbound ELSE binding[u]]
    /\ Frees(d)

-----------------------------------------------------------------------------
(* Binding a LINE user id: the active binding is switched off, the new one added. *)

\* The update sees the bindings of its snapshot and may have to wait for one of them.
BindBegin(d, p, u) ==
    /\ desk[d].pc = "ready"
    /\ \E old \in IF ActiveOf(p) = {} THEN {NoUser} ELSE ActiveOf(p) :
          desk' = [desk EXCEPT ![d] = [Ready EXCEPT !.pc = "seen", !.who = p, !.user = u, !.old = old]]
    /\ UNCHANGED <<person, traces, binding>>

BindSwitchOff(d) ==
    LET u == desk[d].old IN
    /\ desk[d].pc = "seen"
    /\ u # NoUser => ~BindingHeld(u) /\ ~(\E e \in Desks : desk[e].pc = "deleted" /\ desk[e].who = desk[d].who)
    /\ desk' = [desk EXCEPT ![d].pc = "off",
                          ![d].old = IF u \in ActiveOf(desk[d].who) THEN u ELSE NoUser]
    /\ UNCHANGED <<person, traces, binding>>

\* Another insert under the same key decides first.
KeyAwaited(d) == \E e \in Desks \ {d} :
    desk[e].pc = "bound" /\ (desk[e].user = desk[d].user \/ desk[e].who = desk[d].who)

\* One row per LINE user id, active or not; one active binding per employee.
Bindable(d) ==
    /\ Employed(desk[d].who)
    /\ binding[desk[d].user] = Unbound
    /\ ActiveOf(desk[d].who) \subseteq {desk[d].old}

\* A refused insert takes the switching off back.
BindInsert(d) ==
    /\ desk[d].pc = "off" /\ ~KeyAwaited(d) /\ ~DeletionHolds(desk[d].who)
    /\ IF Bindable(d) THEN desk' = [desk EXCEPT ![d].pc = "bound"] ELSE Frees(d)
    /\ UNCHANGED <<person, traces, binding>>

SwitchedOff(d) == IF desk[d].old = NoUser THEN binding
                  ELSE [binding EXCEPT ![desk[d].old].active = FALSE]

BindCommit(d) ==
    /\ desk[d].pc = "bound"
    /\ binding' = [SwitchedOff(d) EXCEPT ![desk[d].user] = [of |-> desk[d].who, active |-> TRUE]]
    /\ Frees(d)
    /\ UNCHANGED <<person, traces>>

Unbind(p) ==
    /\ ActiveOf(p) # {} /\ \A u \in ActiveOf(p) : ~BindingHeld(u)
    /\ ~(\E d \in Desks : desk[d].pc = "deleted" /\ desk[d].who = p)
    /\ binding' = [u \in LineUsers |-> IF u \in ActiveOf(p) THEN [binding[u] EXCEPT !.active = FALSE]
                                                            ELSE binding[u]]
    /\ UNCHANGED <<person, traces, desk>>

\* A lost connection, or the victim of a deadlock between a deletion and a binding.
GiveUp(d) ==
    /\ desk[d].pc # "ready"
    /\ Frees(d)
    /\ UNCHANGED <<person, traces, binding>>

EmployeeNext ==
    \/ \E p \in People : \/ Hire(p) \/ Unbind(p)
                         \/ \E s \in {"active", "retired"} : SetActive(p, s)
    \/ \E d \in Desks :
          \/ CommitTrace(d) \/ DeleteLock(d) \/ DeleteRow(d) \/ DeleteCommit(d)
          \/ BindSwitchOff(d) \/ BindInsert(d) \/ BindCommit(d) \/ GiveUp(d)
          \/ \E p \in People : \/ CheckHistory(d, p)
                               \/ \E k \in TraceKinds : WriteTrace(d, p, k)
                               \/ \E u \in LineUsers : BindBegin(d, p, u)
                               \/ \E q \in People \cup {NoPerson} : MoveShiftOf(d, p, q)

EmployeeSpec == EmployeeInit /\ [][EmployeeNext]_employeeVars

-----------------------------------------------------------------------------
MovedAway(h) == h.kind = "shift" /\ \E d \in Desks : desk[d].pc = "writing" /\ desk[d].from = h.of

LostUnseen(h) == h.kind # "exchange" /\ \E d \in Desks :
                    desk[d].pc = "deleted" /\ desk[d].who = h.of /\ h \notin desk[d].before

(* "Any history hit blocks the whole delete" (0056, 46), and rebinding has no *)
(* "window where the employee has zero or two active bindings" (0031, 114):   *)
(* a history row is lost only to a deletion that had looked before it was     *)
(* there, never an exchange, or, a shift, to the session that moved it; a     *)
(* binding only to an unbind or the deletion; and no employee has two.        *)
RecordsAreKept ==
    [][/\ \A h \in traces \ traces' : MovedAway(h) \/ LostUnseen(h)
       /\ \A p \in People :
             /\ ActiveOf(p) # {} /\ ActiveOf(p)' = {} => desk' = desk \/ person'[p] = "deleted"
             /\ Cardinality(ActiveOf(p)') <= 1]_employeeVars
=============================================================================
