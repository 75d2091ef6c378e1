-------------------------- MODULE TenantOnboarding --------------------------
(***************************************************************************)
(* The onboarding command line: operators who each onboard the owner of a  *)
(* tenant, in a transaction of the local database that reads what is there,*)
(* plans, checks the plan and writes one entity after the other.           *)
(*                                                                         *)
(* The transactions are READ COMMITTED: a statement sees what is committed *)
(* and what its own transaction wrote.  An insert under a unique key waits *)
(* for a transaction that has written the key.  All runs name one slug and *)
(* one location name.                                                      *)
(***************************************************************************)
EXTENDS Naturals, FiniteSets

CONSTANTS
    Names, NoName,              \* names of the tenant
    Owners,                     \* auth user ids
    Runs                        \* bound: runs of the command line

ASSUME NameValues == NoName \notin Names /\ Owners # {}

VARIABLES
    db,         \* the committed rows
    run         \* run[o]: a run of the command line

onboardVars == <<db, run>>

Statuses == {"absent", "invited", "active", "suspended", "revoked"}
Parts == {"tenant", "user", "location", "membership", "role", "module"}

\* The points at which a run is about to read, before it writes anything.
Loading == {"see_tenant", "see_location", "see_membership", "see_role", "see_module"}

\* location and role are numbers of rows: nothing in the schema bounds them.
Database == [tenant : Names \cup {NoName},
             user : [Owners -> {"absent", "bare", "email"}],
             location : Nat,
             membership : [Owners -> Statuses],
             role : [Owners -> Nat],
             module : {"absent", "off", "on"}]

\* seen: what the loader read; wrote: the rows that are written and not yet
\* committed; changed: the operations that are reported and audited as changes.
\* alone (history): no other run, and nobody else, has acted since it began.
Run == [pc : Loading \cup Parts \cup {"new", "see_address", "end", "committed", "aborted"},
        name : Names \cup {NoName}, owner : Owners, email : BOOLEAN,
        confirmed : BOOLEAN, mode : {"dry-run", "commit"},
        seen : [tenant : BOOLEAN, user : BOOLEAN, membership : Statuses, role : BOOLEAN,
                module : BOOLEAN],
        wrote : SUBSET Parts, changed : SUBSET Parts, alone : BOOLEAN]

OnboardTypes == db \in Database /\ run \in [Runs -> Run]

Unseen == [tenant |-> FALSE, user |-> FALSE, membership |-> "absent", role |-> FALSE,
           module |-> FALSE]

NoRun == [pc |-> "new", name |-> NoName, owner |-> CHOOSE u \in Owners : TRUE, email |-> FALSE,
          confirmed |-> FALSE, mode |-> "dry-run", seen |-> Unseen, wrote |-> {},
          changed |-> {}, alone |-> TRUE]

OnboardInit ==
    /\ db \in [tenant : {NoName}, user : [Owners -> {"absent", "bare"}], location : {0},
               membership : {[u \in Owners |-> "absent"]}, role : {[u \in Owners |-> 0]},
               module : {"absent"}]
    /\ run = [o \in Runs |-> NoRun]

InFlight(o) == run[o].pc \notin {"new", "committed", "aborted"}
Disturbed == [o \in Runs |-> IF InFlight(o) THEN [run[o] EXCEPT !.alone = FALSE] ELSE run[o]]

-----------------------------------------------------------------------------
(* The command line: flags, gates, the local database. *)

\* gates: the acknowledgement, the local target and the backup artifact.
Flags == {"--dry-run", "--commit", "--yes", "gates"}

\* resolveOnboardingMode: "" is an error.
Mode(flags) == IF "--commit" \notin flags THEN "dry-run"
               ELSE IF "--dry-run" \in flags \/ "--yes" \notin flags THEN "" ELSE "commit"

\* validateCommitGates, preflight and the check of the artifact.
Gates(flags) == "gates" \in flags

\* Without a local URL nothing is opened.  A refused run is no step.  The mirror
\* of the owner is read first.
Begin(o, n, u, flags) ==
    /\ run[o].pc = "new"
    /\ Mode(flags) # ""
    /\ Mode(flags) = "commit" => Gates(flags)
    /\ \E email \in BOOLEAN :
          run' = [Disturbed EXCEPT ![o] =
                    [@ EXCEPT !.pc = "see_tenant", !.name = n, !.owner = u, !.email = email,
                              !.confirmed = (flags = Flags \ {"--dry-run"}),
                              !.mode = Mode(flags),
                              !.seen = [Unseen EXCEPT !.user = (db.user[u] # "absent")],
                              !.alone = ~\E p \in Runs : InFlight(p)]]
    /\ UNCHANGED db

-----------------------------------------------------------------------------
(* loadExistingOnboardingState, one select per step.  What buildOnboardingPlan *)
(* or validateWritablePlanOrThrow refuses is not passed: such a run can only   *)
(* be rolled back.                                                             *)

Loads(o, pc, next, seen) ==
    /\ run[o].pc = pc
    /\ run' = [run EXCEPT ![o] = [@ EXCEPT !.pc = next, !.seen = seen]]
    /\ UNCHANGED db

AnyName(name) == db.tenant # NoName   \* mutant: the name in the plan is not compared

SameName(name) == db.tenant = name

\* Of a tenant that is not there nothing else is read.
ReadTenant(o) ==
    \/ /\ db.tenant = NoName
       /\ Loads(o, "see_tenant", "tenant", run[o].seen)
    \/ /\ SameName(run[o].name)
       /\ Loads(o, "see_tenant", "see_location", [run[o].seen EXCEPT !.tenant = TRUE])

ReadLocations(o) ==
    db.location <= 1 /\ Loads(o, "see_location", "see_membership", run[o].seen)

ReadMembership(o) ==
    LET status == db.membership[run[o].owner] IN
    /\ status \notin {"suspended", "revoked"}
    /\ Loads(o, "see_membership", "see_role", [run[o].seen EXCEPT !.membership = status])

ReadRole(o) ==
    Loads(o, "see_role", "see_module",
          [run[o].seen EXCEPT !.role = (db.role[run[o].owner] > 0)])

ReadModule(o) ==
    Loads(o, "see_module", "tenant", [run[o].seen EXCEPT !.module = (db.module = "on")])

-----------------------------------------------------------------------------
(* executeOnboardingWritePlan, one statement per step.  A statement waits for *)
(* a row only where it has one to write.                                      *)

\* Nobody else holds the row of part e for owner u.
Unlocked(o, e, u) ==
    \A p \in Runs \ {o} : e \in run[p].wrote /\ InFlight(p) =>
       e \in {"user", "membership"} /\ run[p].owner # u

\* Goes from pc to next; writes the row if it is there to be written, and
\* reports the operation as a change or not.
Statement(o, pc, next, writes, reports) ==
    /\ run[o].pc = pc
    /\ run' = [run EXCEPT ![o] = [@ EXCEPT !.pc = next,
                  !.wrote = run[o].wrote \cup (IF writes THEN {pc} ELSE {}),
                  !.changed = run[o].changed \cup (IF reports THEN {pc} ELSE {})]]
    /\ UNCHANGED db

\* insertTenant on conflict do nothing, then the row of the slug whoever made it.
WriteTenant(o) ==
    /\ ~run[o].seen.tenant => Unlocked(o, "tenant", run[o].owner)
    /\ Statement(o, "tenant", "see_address", ~run[o].seen.tenant /\ db.tenant = NoName,
                 ~run[o].seen.tenant)

\* A mirror that was seen is read again, without a lock, for an address.
ReadAddress(o) ==
    LET bare == run[o].email /\ db.user[run[o].owner] = "bare"
        reuse == run[o].seen.user /\ ~bare IN
    Loads(o, "see_address", IF reuse THEN "location" ELSE "user", run[o].seen)

\* Insert on conflict do nothing, or fill in the address while there is none.
WriteUser(o) ==
    LET u == run[o].owner
        writes == db.user[u] = IF run[o].seen.user THEN "bare" ELSE "absent" IN
    /\ writes => Unlocked(o, "user", u)
    /\ Statement(o, "user", "location", writes, TRUE)

\* Looked up again; several matches are an error.
WriteLocation(o) ==
    /\ db.location <= 1
    /\ Statement(o, "location", "membership", db.location = 0, db.location = 0)

AnyStatusActivatable(status) == status # "absent"   \* mutant: no filter on status

\* The update asks for 'invited'.
Activatable(status) == status = "invited"

WriteMembership(o) ==
    LET u == run[o].owner
        seen == run[o].seen.membership
        writes == \/ seen = "absent" /\ db.membership[u] = "absent"
                  \/ seen = "invited" /\ Activatable(db.membership[u]) IN
    /\ writes => Unlocked(o, "membership", u)
    /\ Statement(o, "membership", "role", writes, seen # "active")

\* where not exists; the report goes by what was seen.
WriteRole(o) ==
    Statement(o, "role", "module", db.role[run[o].owner] = 0, ~run[o].seen.role)

EnablesNew(status) == status = "absent"   \* mutant: on conflict do nothing

\* on conflict do update where is_enabled = false; the report goes by the plan.
Enables(status) == status # "on"

WriteModule(o) ==
    /\ \A p \in Runs \ {o} : run[p].pc # "end"
    /\ Statement(o, "module", "end", Enables(db.module), ~run[o].seen.module)

-----------------------------------------------------------------------------
(* The end of the transaction. *)

Written(r) ==
    LET u == r.owner IN
    [tenant |-> IF "tenant" \in r.wrote THEN r.name ELSE db.tenant,
     user |-> IF "user" \in r.wrote
              THEN [db.user EXCEPT ![u] = IF r.email THEN "email" ELSE "bare"] ELSE db.user,
     location |-> IF "location" \in r.wrote THEN db.location + 1 ELSE db.location,
     membership |-> IF "membership" \in r.wrote
                    THEN [db.membership EXCEPT ![u] = "active"] ELSE db.membership,
     role |-> IF "role" \in r.wrote THEN [db.role EXCEPT ![u] = @ + 1] ELSE db.role,
     module |-> IF "module" \in r.wrote THEN "on" ELSE db.module]

\* A dry run, and one that has changed nothing, are rolled back.
Decides(r) == r.mode = "commit" /\ r.changed # {}

\* The answer may be lost: then the outcome is reported as unknown.
Commit(o) ==
    /\ run[o].pc = "end"
    /\ Decides(run[o])
    /\ db' = Written(run[o])
    /\ run' = [run EXCEPT ![o] = [NoRun EXCEPT !.pc = "committed", !.name = run[o].name,
                    !.wrote = run[o].wrote,
                    !.changed = run[o].changed, !.alone = run[o].alone]]

\* Decided, an error or a timeout of a statement, or the connection is gone.
Rollback(o) ==
    /\ InFlight(o)
    /\ run' = [run EXCEPT ![o] = [NoRun EXCEPT !.pc = "aborted"]]
    /\ UNCHANGED db

-----------------------------------------------------------------------------
(* Others, who manage the members and the modules of the tenant. *)

ManageMember(u, status) ==
    /\ db.tenant # NoName
    /\ <<db.membership[u], status>> \in
          {<<"absent", "invited">>, <<"invited", "revoked">>, <<"active", "suspended">>,
           <<"suspended", "active">>, <<"suspended", "revoked">>, <<"active", "revoked">>}
    /\ \A o \in Runs : ~(InFlight(o) /\ run[o].owner = u /\ "membership" \in run[o].wrote)
    /\ db' = [db EXCEPT !.membership[u] = status]
    /\ run' = Disturbed

DisableModule ==
    /\ db.module = "on"
    /\ \A o \in Runs : run[o].pc # "end"
    /\ db' = [db EXCEPT !.module = "off"]
    /\ run' = Disturbed

OnboardNext ==
    \/ \E o \in Runs :
          \/ \E n \in Names, u \in Owners, flags \in SUBSET Flags : Begin(o, n, u, flags)
          \/ ReadTenant(o) \/ ReadLocations(o) \/ ReadMembership(o) \/ ReadRole(o)
          \/ ReadModule(o) \/ ReadAddress(o)
          \/ WriteTenant(o) \/ WriteUser(o) \/ WriteLocation(o) \/ WriteMembership(o)
          \/ WriteRole(o) \/ WriteModule(o) \/ Commit(o) \/ Rollback(o)
    \/ \E u \in Owners, status \in Statuses : ManageMember(u, status)
    \/ DisableModule

OnboardSpec == OnboardInit /\ [][OnboardNext]_onboardVars
=============================================================================
