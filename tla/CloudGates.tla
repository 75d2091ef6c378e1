------------------------------ MODULE CloudGates ------------------------------
(***************************************************************************)
(* The seven gates that put the acceptance cafe on the shared project.     *)
(* D1, D2 and D4 to D6 are transactions that take the advisory lock of the *)
(* cafe's slug, read what they rely on and what they own, and write what   *)
(* is missing; D3 creates the two Auth accounts, one call at a time; D7    *)
(* only reads.  Operators start them in any order and start them again.    *)
(* Others who work on the project take no such lock.                       *)
(***************************************************************************)
EXTENDS Naturals, SequencesExt

CONSTANTS
    Operators,
    Roster,         \* the accounts of the fixture, in its order
    NoGate,
    MaxEdits        \* bound: writes by others

RosterAccounts == Range(Roster)

GateNames == {"D1", "D2", "D3", "D4", "D5", "D6", "D7"}

ASSUME GateAssumption ==
    /\ MaxEdits \in Nat /\ NoGate \notin GateNames
    /\ Roster \in Seq(RosterAccounts) /\ "staff" \in RosterAccounts

Tenant == <<"tenant", "cafe">>
Location == <<"location", "cafe">>
Module == <<"module", "cafe">>
Binding == <<"employee", "staff">>
Content == <<"content", "cafe">>
Account(a) == <<"account", a>>
Mirror(a) == <<"mirror", a>>
Member(a) == <<"member", a>>
Role(a) == <<"role", a>>

CafeRows == {Tenant, Location, Module, Binding, Content}
            \cup ({"account", "mirror", "member", "role"} \X RosterAccounts)

\* "open": a disabled module, an invited member.  "alike": the location's name up to case and
\* blanks.  "bad": another name, inactive, suspended.  "double": two rows where one is meant.
Values == {"absent", "open", "exact", "alike", "bad", "double"}

VARIABLES
    cafe,       \* cafe[e]: committed state of e
    gate,       \* gate[o]: o's gate, its next step, what it has planned and written; the last success
    edited,     \* history: what others wrote, and what they left there
    phantom     \* history: changes in the audit log that no statement made

gateVars == <<cafe, gate, edited, phantom>>

GateIdle == [name |-> NoGate, pc |-> 0, plan |-> {}, wrote |-> {}, passed |-> NoGate]

GateTypes ==
    /\ cafe \in [CafeRows -> Values]
    /\ \A o \in Operators : gate[o].name \in GateNames \cup {NoGate} /\ gate[o].pc \in Nat
    /\ \A o \in Operators : gate[o].plan \subseteq CafeRows \X Values
    /\ \A o \in Operators : gate[o].wrote \subseteq CafeRows
    /\ edited \subseteq CafeRows \X Values
    /\ phantom \subseteq CafeRows

GateInit ==
    /\ cafe = [e \in CafeRows |-> "absent"]
    /\ gate = [o \in Operators |-> GateIdle]
    /\ edited = {} /\ phantom = {}

-----------------------------------------------------------------------------
(* The statements of each gate.  "need": must be as the fixture has it;    *)
(* "look": decides what to write, or refuses; "put": writes it.            *)

Need(e) == <<"need", e>>
Look(e) == <<"look", e>>
Put(e) == <<"put", e>>
Check(e) == <<"check", e>>

Access(a, step(_)) == <<step(Mirror(a)), step(Member(a)), step(Role(a))>>
ForEach(steps(_)) == FlattenSeq([i \in 1..Len(Roster) |-> steps(Roster[i])])

StepsD1 == <<Look(Tenant), Put(Tenant), Look(Location), Put(Location)>>
StepsD2 == <<Need(Tenant), Look(Module), Put(Module)>>
StepsD3 == ForEach(LAMBDA a : <<Look(Account(a)), Put(Account(a))>>)
StepsD4 == <<Need(Tenant), Need(Module)>>
           \o ForEach(LAMBDA a : Access(a, Look)) \o ForEach(LAMBDA a : Access(a, Put))
StepsD5 == <<Need(Tenant), Need(Location), Need(Module)>> \o Access("staff", Need)
           \o <<Look(Binding), Put(Binding)>>
LoadState == ForEach(LAMBDA a : <<Need(Mirror(a))>>) \o <<Need(Module)>>
             \o ForEach(LAMBDA a : <<Need(Member(a)), Need(Role(a))>>)
StepsD6 == <<Need(Tenant), Need(Location), Need(Binding)>> \o LoadState
           \o <<Look(Content), Put(Content)>>
ContentChecks == <<Check(Content)>>
StepsD7 == <<Check(Tenant), Check(Location), Check(Module)>>
           \o ForEach(LAMBDA a : Access(a, Check))
           \o <<Check(Binding)>> \o ContentChecks

Locks == {"D1", "D2", "D4", "D5", "D6"}

\* The plan of D6 asks whether a role is assigned, not how often; D7 accepts the tenant under
\* any name, any single active location, and a role assigned twice.
Acceptable(g, e) ==
    {"exact"} \cup (IF g \in {"D6", "D7"} /\ e[1] = "role" THEN {"double"} ELSE {})
              \cup (IF g = "D7" /\ e = Tenant THEN {"bad"} ELSE {})
              \cup (IF g = "D7" /\ e = Location THEN {"alike"} ELSE {})

Refused(e) == {"bad", "double"}

-----------------------------------------------------------------------------
(* Starting a gate: the operator names it, the project and the phrase that *)
(* belongs to this gate; the later gates take the ids that D3 printed.     *)
Reviewed(target) == target = "acceptance"
PhraseOf(g, phrase) == g = "D7" \/ phrase = g
KnowsAll(g) == g \in {"D4", "D6", "D7"} => \A a \in RosterAccounts : cafe[Account(a)] = "exact"
KnowsStaff(g) == g = "D5" => cafe[Account("staff")] = "exact"

NoLock(g) == TRUE       \* mutant: gates of two operators overlap
LockFree(g) == g \in Locks => \A p \in Operators : gate[p].name \notin Locks

Start(o, g) ==
    \E target \in {"acceptance", "other"}, phrase \in GateNames :
       /\ gate[o].name = NoGate
       /\ Reviewed(target) /\ PhraseOf(g, phrase)
       /\ KnowsAll(g) /\ KnowsStaff(g) /\ LockFree(g)
       /\ gate' = [gate EXCEPT ![o] = [GateIdle EXCEPT !.name = g, !.pc = 1]]
       /\ UNCHANGED <<cafe, edited, phantom>>

-----------------------------------------------------------------------------
At(o, steps, op) == gate[o].pc <= Len(steps) /\ steps[gate[o].pc][1] = op
Here(o, steps) == steps[gate[o].pc][2]
Seen(o, e) == IF e \in gate[o].wrote THEN "exact" ELSE cafe[e]

Proceed(o, plan, wrote) ==
    gate' = [gate EXCEPT ![o] = [@ EXCEPT !.pc = gate[o].pc + 1, !.plan = plan, !.wrote = wrote]]
Ends(o, answer) == gate' = [gate EXCEPT ![o] = [GateIdle EXCEPT !.passed = answer]]

\* A row that fails the gate's condition ends it; the transaction is rolled back.
Reads(o, steps) ==
    LET e == Here(o, steps)  v == Seen(o, Here(o, steps)) IN
    /\ \/ /\ At(o, steps, "need") \/ At(o, steps, "check")
          /\ v \in Acceptable(gate[o].name, e)
          /\ Proceed(o, gate[o].plan, gate[o].wrote)
       \/ /\ At(o, steps, "look")
          /\ v \notin Refused(e)
          /\ Proceed(o, IF v \in {"absent", "open"} THEN gate[o].plan \cup {<<e, v>>}
                                                    ELSE gate[o].plan, gate[o].wrote)
       \/ /\ At(o, steps, "need") \/ At(o, steps, "check")
          /\ v \notin Acceptable(gate[o].name, e)
          /\ Ends(o, NoGate)
       \/ /\ At(o, steps, "look")
          /\ v \in Refused(e)
          /\ Ends(o, NoGate)
    /\ UNCHANGED <<cafe, edited, phantom>>

Keyed(e) == e # Location /\ e[1] # "role"       \* a unique index; others wait for the writer
Held(e) == Keyed(e) /\ \E p \in Operators : e \in gate[p].wrote

\* What the statement finds: inserts do nothing on a conflict, or when the row is there; a
\* membership is activated while it is invited; a location is inserted as it is.
Takes(e, seen) ==
    IF e = Location THEN TRUE
    ELSE IF e[1] = "member" THEN cafe[e] = seen
    ELSE IF e = Module THEN cafe[e] \in {"absent", "open"}
    ELSE cafe[e] = "absent"

Collides(e) == e = Binding /\ cafe[e] # "absent"        \* a plain insert under a unique index

Writes(o, steps) ==
    LET e == Here(o, steps)
        due == {x \in gate[o].plan : x[1] = e}
    IN
    /\ At(o, steps, "put")
    /\ \/ /\ due = {} /\ Proceed(o, gate[o].plan, gate[o].wrote)
       \/ \E x \in due :
             /\ ~Held(e)
             /\ IF Collides(e) THEN Ends(o, NoGate)
                ELSE Proceed(o, gate[o].plan, IF Takes(e, x[2]) THEN gate[o].wrote \cup {e}
                                                               ELSE gate[o].wrote)
    /\ UNCHANGED <<cafe, edited, phantom>>

\* The transaction ends: what it planned is in the audit log, and an answer that is lost
\* after the commit leaves the operator without knowledge.
Completes(o, g, steps) ==
    LET done == gate[o].wrote
        planned == {x[1] : x \in gate[o].plan}
    IN
    /\ gate[o].pc = Len(steps) + 1
    /\ cafe' = [e \in CafeRows |->
                  IF e \notin done THEN cafe[e]
                  ELSE IF ~Keyed(e) /\ cafe[e] # "absent" THEN "double" ELSE "exact"]
    /\ phantom' = phantom \cup (planned \ done)
    /\ \E answer \in {g} \cup (IF planned = {} THEN {} ELSE {NoGate}) : Ends(o, answer)
    /\ UNCHANGED edited

\* A statement fails or times out, the connection is lost, the operator stops.
Breaks(o) ==
    /\ Ends(o, NoGate)
    /\ UNCHANGED <<cafe, edited, phantom>>

Transacts(o, g, steps) ==
    \/ Start(o, g)
    \/ /\ gate[o].name = g
       /\ Reads(o, steps) \/ Writes(o, steps) \/ Completes(o, g, steps) \/ Breaks(o)

GateD1(o) == Transacts(o, "D1", StepsD1)
GateD2(o) == Transacts(o, "D2", StepsD2)
GateD4(o) == Transacts(o, "D4", StepsD4)
GateD5(o) == Transacts(o, "D5", StepsD5)
GateD6(o) == Transacts(o, "D6", StepsD6)
GateD7(o) == Transacts(o, "D7", StepsD7)

\* One call of the Auth service: a created account stays whatever becomes of the run, an
\* address is taken once, and the run looks again when it is told of an error.
CreateAccount(o) ==
    \E a \in RosterAccounts :
       /\ At(o, StepsD3, "put") /\ Here(o, StepsD3) = Account(a)
       /\ <<Account(a), "absent">> \in gate[o].plan
       /\ cafe' = [cafe EXCEPT ![Account(a)] = "exact"]
       /\ Proceed(o, gate[o].plan, gate[o].wrote)
       /\ UNCHANGED <<edited, phantom>>

SkipAccount(o) ==
    /\ At(o, StepsD3, "put")
    /\ <<Here(o, StepsD3), "absent">> \notin gate[o].plan
    /\ Proceed(o, gate[o].plan, gate[o].wrote)
    /\ UNCHANGED <<cafe, edited, phantom>>

GateD3(o) ==
    \/ Start(o, "D3")
    \/ /\ gate[o].name = "D3"
       /\ \/ Reads(o, StepsD3) \/ CreateAccount(o) \/ SkipAccount(o) \/ Breaks(o)
          \/ /\ gate[o].pc = Len(StepsD3) + 1
             /\ Ends(o, "D3")
             /\ UNCHANGED <<cafe, edited, phantom>>

-----------------------------------------------------------------------------
\* Others on the project: onboarding runs and the people of the cafe, without the lock.
Insertable(e) ==
    IF e = Tenant THEN {"exact", "bad"}
    ELSE IF e = Location THEN {"exact", "alike", "bad"}
    ELSE IF e[1] = "member" THEN {"open", "exact"}
    ELSE IF e[1] \in {"role", "mirror", "employee"} THEN {"exact"}
    ELSE {}

Blocks(e) ==
    IF e = Module THEN {"open"}
    ELSE IF e[1] \in {"location", "member", "employee"} THEN {"bad"} ELSE {}

Others(e, v) ==
    /\ Cardinality(edited) < MaxEdits
    /\ ~Held(e)
    /\ e # Tenant => cafe[Tenant] # "absent"
    /\ \/ cafe[e] = "absent" /\ v \in Insertable(e)
       \/ cafe[e] \in {"open", "exact"} /\ v \in Blocks(e) /\ v # cafe[e]
    /\ cafe' = [cafe EXCEPT ![e] = v]
    /\ edited' = edited \cup {<<e, v>>}
    /\ UNCHANGED <<gate, phantom>>

GateNext ==
    \/ \E o \in Operators :
          GateD1(o) \/ GateD2(o) \/ GateD3(o) \/ GateD4(o) \/ GateD5(o) \/ GateD6(o) \/ GateD7(o)
    \/ \E e \in CafeRows, v \in Values : Others(e, v)

GateSpec == GateInit /\ [][GateNext]_gateVars

-----------------------------------------------------------------------------
\* What stands when a gate has answered with success.
Promised(g) ==
    IF g = NoGate THEN {}
    ELSE IF g = "D1" THEN {Tenant, Location}
    ELSE IF g = "D2" THEN {Tenant, Module}
    ELSE IF g = "D3" THEN {Account(a) : a \in RosterAccounts}
    ELSE IF g = "D4" THEN CafeRows \ {Location, Binding, Content}
    ELSE IF g = "D5" THEN {Tenant, Location, Module, Binding, Mirror("staff"), Member("staff"), Role("staff")}
    ELSE CafeRows

(* However the gates of two operators overlap, fail and are repeated: no row *)
(* is there twice, the audit log tells of no change that was not made, and a *)
(* gate that answered with success stands with all it rests on, unless       *)
(* somebody wrote without the lock.  What others suspended stays suspended.  *)
GatesStand ==
    LET touched == {x[1] : x \in edited} IN
    /\ \A e \in CafeRows \ touched : cafe[e] \in {"absent", "exact"} /\ e \notin phantom
    /\ \A o \in Operators : \A e \in Promised(gate[o].passed) \ touched : cafe[e] = "exact"
    /\ \A x \in edited : x[2] = "bad" => cafe[x[1]] \in {"bad", "double"}
    /\ \A x \in edited : x[2] = "bad" /\ Keyed(x[1]) => cafe[x[1]] = "bad"
=============================================================================
