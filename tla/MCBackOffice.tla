---------------------------- MODULE MCBackOffice ----------------------------
(***************************************************************************)
(* Model checking of the parts of the back office that share no row: work  *)
(* reports and corrections, recipes, onboarding, the distribution, the     *)
(* schedule board and its staff view, proposals, events, the rehearsal     *)
(* fixture, the gates of the shared project, the demo's store, employees'  *)
(* records.  A behaviour exercises one part, which its first state picks;  *)
(* the others stay in an initial state.                                    *)
(***************************************************************************)
EXTENDS AttendanceProperties, RecipeProperties, OnboardingProperties, DistributeProperties,
        ScheduleBoard, StaffScheduleView, AiProposals, EventLog, FixtureRehearsal,
        CloudGates, DemoStore, EmployeeRecords, TLC

CONSTANTS am, custom            \* the shift types of the distribution

VARIABLE part

MCSlot(t) == IF t = am THEN 1 ELSE 2
MCHours(t) == IF t = am THEN 2 ELSE 1
MCKept(d) == IF d = 1 THEN 2 ELSE 0
MCRoster == <<"staff">>

Offices == {"attendance", "recipes", "onboarding", "distribution", "board", "view",
            "proposals", "events", "fixture", "gates", "demo", "employees"}

officeVars == <<part, vars, recipeVars, onboardVars, distributeVars, boardVars, viewVars,
                proposalVars, eventVars, fixtureVars, gateVars, demoVars,
                employeeVars>>

\* A part that may start in several states rests in one of them.
OfficeInit ==
    /\ part \in Offices
    /\ Init /\ RecipeInit /\ BoardInit /\ ProposalInit /\ EventInit /\ GateInit /\ DemoInit
    /\ EmployeeInit
    /\ OnboardInit /\ \A u, v \in Owners : db.user[u] = db.user[v]
    /\ part # "onboarding" => \A u \in Owners : db.user[u] = "absent"
    /\ ViewInit /\ (part # "view" => visible /\ screen.offset = 0)
    /\ FixtureInit /\ (part # "fixture" => present = {})
    /\ \/ part = "distribution"
       \/ /\ part # "distribution"
          /\ wish = [e \in Employees |-> [d \in PeriodDays |-> NoType]]
          /\ need = [d \in PeriodDays |-> [s \in 1..Windows |-> 0]]
          /\ existing = [e \in Employees |-> [d \in PeriodDays |-> <<>>]]
    /\ DistributeInit

Rests(p, stays) == IF part = p THEN TRUE ELSE UNCHANGED stays

OfficeNext ==
    /\ UNCHANGED part
    /\ Rests("attendance", vars) /\ Rests("recipes", recipeVars)
    /\ Rests("onboarding", onboardVars) /\ Rests("distribution", distributeVars)
    /\ Rests("board", boardVars) /\ Rests("view", viewVars)
    /\ Rests("proposals", proposalVars) /\ Rests("events", eventVars)
    /\ Rests("fixture", fixtureVars) /\ Rests("gates", gateVars)
    /\ Rests("demo", demoVars) /\ Rests("employees", employeeVars)
    /\ \/ part = "attendance" /\ Next
       \/ part = "recipes" /\ RecipeNext
       \/ part = "onboarding" /\ OnboardNext
       \/ part = "distribution" /\ DistributeNext
       \/ part = "board" /\ BoardNext
       \/ part = "view" /\ ViewNext
       \/ part = "proposals" /\ ProposalNext
       \/ part = "events" /\ EventNext
       \/ part = "fixture" /\ FixtureNext
       \/ part = "gates" /\ GateNext
       \/ part = "demo" /\ DemoNext
       \/ part = "employees" /\ EmployeeNext

OfficeSpec == OfficeInit /\ [][OfficeNext]_officeVars

-----------------------------------------------------------------------------
(* The part at work keeps to the states its code can be in; the others do not *)
(* move.                                                                       *)
PartTypes ==
    /\ part = "attendance" => TypeOK
    /\ part = "recipes" => RecipeTypes
    /\ part = "onboarding" => OnboardTypes
    /\ part = "distribution" => DistributeTypes
    /\ part = "board" => BoardTypes
    /\ part = "view" => ViewTypes
    /\ part = "proposals" => ProposalTypes
    /\ part = "events" => EventTypes
    /\ part = "fixture" => FixtureTypes
    /\ part = "gates" => GateTypes
    /\ part = "demo" => DemoTypes
    /\ part = "employees" => EmployeeTypes
=============================================================================
