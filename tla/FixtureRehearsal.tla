--------------------------- MODULE FixtureRehearsal ---------------------------
(***************************************************************************)
(* The rehearsal tool of the demo cafe: "apply" creates what the fixture   *)
(* lacks, "cleanup" removes it again, each in one transaction that commits *)
(* only when it succeeds.  Between the commands people use the tenant.     *)
(* The acceptance rows lie on days counted from the tenant's creation, or, *)
(* while there is no tenant, from the clock of the tool.                   *)
(***************************************************************************)
EXTENDS Naturals

Structure == {"tenant", "mirrors", "location", "modules", "grants", "employee",
              "shift_types", "recipe_category", "recipe"}
Kinds == {"shift", "preference", "report", "correction"}
DataDays == {"anchor", "other"}
Accounts == {"manager", "staff"}
Additions == {"request", "shift", "exchange", "recipe"}

VARIABLES
    present,    \* what exists of the structure
    member,     \* member[a]: status of the membership
    rows,       \* acceptance rows, <<kind, day>>
    added,      \* rows people added that hang on the fixture
    last        \* history: the last commands

fixtureVars == <<present, member, rows, added, last>>

FixtureTypes ==
    /\ present \subseteq Structure /\ rows \subseteq Kinds \X DataDays /\ added \subseteq Additions
    /\ member \in [Accounts -> {"none", "invited", "active", "suspended", "revoked"}]
    /\ last \in {"edited", "applied", "settled", "cleaned"}

FixtureInit ==
    /\ present \in {{}, {"mirrors"}}        \* the accounts may be known from elsewhere
    /\ member = [a \in Accounts |-> "none"]
    /\ rows = {} /\ added = {} /\ last = "edited"

-----------------------------------------------------------------------------
Anchor == IF "tenant" \in present THEN {"anchor"} ELSE DataDays

\* Acceptance rows are looked for by the employee and the day.
Missing(day) ==
    \/ present # Structure
    \/ \E a \in Accounts : member[a] # "active"
    \/ \E k \in Kinds : <<k, day>> \notin rows

Conflict == \E a \in Accounts : member[a] \in {"suspended", "revoked"}

ApplyFixture ==
    \E day \in Anchor :
       /\ ~Conflict
       /\ present' = Structure
       /\ member' = [a \in Accounts |-> "active"]
       /\ rows' = rows \cup (Kinds \X {day})
       /\ last' = IF last \in {"applied", "settled"} THEN "settled" ELSE "applied"
       /\ UNCHANGED added

-----------------------------------------------------------------------------
Unowned == {"shift"}        \* shifts lose their employee and stay

\* What the rows on the tenant's day leave when they and the employee are gone.
Remaining == IF "employee" \in present
             THEN {x \in rows : x[1] \in Unowned /\ x[2] # "anchor"} ELSE rows

OperatorsUse == "shift" \in added           \* mutant: rows of another day forgotten

\* A shift of the template, or an exchange of the employee, is a foreign key.
ShiftTypeInUse == "shift" \in added \/ \E x \in Remaining : x[1] = "shift"
EmployeeInUse == "employee" \in present /\ "exchange" \in added

CleanUpFixture ==
    /\ "tenant" \in present
    /\ ~ShiftTypeInUse /\ ~EmployeeInUse
    /\ present' = present \ ({"grants", "employee", "shift_types", "recipe", "recipe_category"}
                             \ {c \in {"recipe_category"} : "recipe" \in added})
    /\ member' = [a \in Accounts |-> "none"]
    /\ rows' = Remaining
    /\ added' = added \ {"request"}         \* deleted with the employee
    /\ last' = "cleaned"

-----------------------------------------------------------------------------
\* What people do in between.
ChangeMembership(a, status) ==
    /\ "tenant" \in present
    /\ IF member[a] = "none" THEN status = "invited" ELSE status # "none"
    /\ member' = [member EXCEPT ![a] = status]
    /\ last' = "edited"
    /\ UNCHANGED <<present, rows, added>>

HangsOn == [request |-> "employee", shift |-> "shift_types",
            exchange |-> "employee", recipe |-> "recipe_category"]

\* An exchange may be of any published shift of the employee, not only of the fixture's.
AddRow(x) ==
    /\ HangsOn[x] \in present
    /\ added' = added \cup {x}
    /\ last' = "edited"
    /\ UNCHANGED <<present, member, rows>>

RemoveRow(x) ==
    /\ x \in added
    /\ added' = added \ {x}
    /\ last' = "edited"
    /\ UNCHANGED <<present, member, rows>>

\* A manager moves the acceptance shift, or disables a module.
MoveShift(day) ==
    /\ <<"shift", day>> \in rows
    /\ rows' = rows \ {<<"shift", day>>}
    /\ added' = added \cup {"shift"}
    /\ last' = "edited"
    /\ UNCHANGED <<present, member>>

DisableFixtureModule ==
    /\ "modules" \in present
    /\ present' = present \ {"modules"}
    /\ last' = "edited"
    /\ UNCHANGED <<member, rows, added>>

FixtureNext ==
    \/ ApplyFixture \/ CleanUpFixture \/ DisableFixtureModule
    \/ \E a \in Accounts, status \in {"invited", "active", "suspended", "revoked"} :
          ChangeMembership(a, status)
    \/ \E x \in Additions : AddRow(x) \/ RemoveRow(x)
    \/ \E day \in DataDays : MoveShift(day)

FixtureSpec == FixtureInit /\ [][FixtureNext]_fixtureVars

-----------------------------------------------------------------------------
(* Two applies in a row leave nothing for a third to do, whatever the clocks *)
(* say; and a cleanup that commits leaves nothing of the fixture behind but  *)
(* the tenant, its location and modules, the mirrors, and a category in use. *)
FixtureRoundTrip ==
    /\ last = "settled" => ~Missing("anchor")
    /\ last = "cleaned" =>
          /\ rows = {} /\ \A a \in Accounts : member[a] = "none"
          /\ present \cap {"grants", "employee", "shift_types", "recipe"} = {}
          /\ "recipe_category" \in present => "recipe" \in added
=============================================================================
