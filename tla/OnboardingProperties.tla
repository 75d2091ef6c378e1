------------------------ MODULE OnboardingProperties ------------------------
(* What onboarding a tenant must and must never do. *)
EXTENDS TenantOnboarding

Commits(o) == run[o].pc = "end" /\ run'[o].pc = "committed"

(* A run that commits was confirmed in every way the command line asks for,  *)
(* and leaves a complete owner: mirror, location, owner role and enabled     *)
(* module, whoever wrote them; and an active membership, unless somebody     *)
(* managed the members meanwhile.                                            *)
CommittedIsComplete ==
    [][\A o \in Runs : Commits(o) =>
          LET u == run[o].owner IN
          /\ run[o].confirmed
          /\ db'.tenant # NoName /\ db'.user[u] # "absent" /\ db'.location > 0
          /\ db'.role[u] > 0 /\ db'.module = "on"
          /\ run[o].alone => db'.membership[u] = "active"]_onboardVars

(* Onboarding never takes back a suspension or a revocation, also when it    *)
(* was decided after the run had read an invited membership.                 *)
SuspensionStands ==
    [][\A o \in Runs, u \in Owners :
          Commits(o) /\ db.membership[u] \in {"suspended", "revoked"} =>
             db'.membership[u] = db.membership[u]]_onboardVars

(* A run nobody disturbed reports and audits as changes what it has changed, *)
(* onboards into the tenant it names, and there are several locations of the *)
(* name, or owner roles of a user, only after runs that were at work at the  *)
(* same time.                                                                *)
SerialRunsAreExact ==
    /\ \A o \in Runs : run[o].pc = "committed" /\ run[o].alone =>
          run[o].changed = run[o].wrote /\ run[o].name = db.tenant
    /\ (db.location > 1 \/ \E u \in Owners : db.role[u] > 1) =>
          \E o \in Runs : run[o].pc = "committed" /\ ~run[o].alone
=============================================================================
