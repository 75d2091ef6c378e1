----------------------- MODULE TenantOnboarding_proofs -----------------------
(***************************************************************************)
(* Proofs about TenantOnboarding for every number of runs, owners and      *)
(* names.  OnboardInv is inductive.  It says, for every point of a run,    *)
(* which rows are there or written by the run itself (Complete, Enabled),  *)
(* what the run may still assume of the membership (MemberKnown), and that *)
(* a membership is written by one run at a time and only where it was      *)
(* absent or invited, which stays so because the row is locked.  SerialInv *)
(* adds what a run knows that started after the others had ended.          *)
(***************************************************************************)
EXTENDS OnboardingProperties, TLAPS

After(pc) ==
    CASE pc = "tenant" -> {"see_address", "user", "location", "membership", "role", "module",
                           "end"}
      [] pc = "user" -> {"location", "membership", "role", "module", "end"}
      [] pc = "location" -> {"membership", "role", "module", "end"}
      [] pc = "membership" -> {"role", "module", "end"}
      [] pc = "role" -> {"module", "end"}
      [] pc = "module" -> {"end"}

LEMMA AfterDef ==
    /\ After("tenant") = {"see_address", "user", "location", "membership", "role", "module",
                          "end"}
    /\ After("user") = {"location", "membership", "role", "module", "end"}
    /\ After("location") = {"membership", "role", "module", "end"}
    /\ After("membership") = {"role", "module", "end"}
    /\ After("role") = {"module", "end"}
    /\ After("module") = {"end"}
  BY DEF After

\* The points at which a run has not read the membership yet.
Unlisted == {"see_tenant", "see_location", "see_membership"}

Active(r) == r.pc \notin {"new", "committed", "aborted"}

\* What a run that is under way has found or written.
Complete(d, r) ==
    /\ r.name \in Names
    /\ r.mode = "commit" => r.confirmed
    /\ r.seen.tenant => d.tenant # NoName
    /\ r.seen.user => d.user[r.owner] # "absent"
    /\ r.pc \in After("tenant") => "tenant" \in r.wrote \/ d.tenant # NoName
    /\ r.pc \in After("user") => "user" \in r.wrote \/ d.user[r.owner] # "absent"
    /\ r.pc \in After("location") => "location" \in r.wrote \/ d.location > 0
    /\ r.pc \in After("role") => "role" \in r.wrote \/ d.role[r.owner] > 0

Enabled(d, r) == r.pc = "end" => "module" \in r.wrote \/ d.module = "on"

\* What a run that is under way may assume of the membership of its owner.
MemberKnown(d, r) ==
    LET status == d.membership[r.owner] IN
    /\ "membership" \in r.wrote => status \in {"absent", "invited"} /\ r.pc \in After("membership")
    /\ r.pc \in Unlisted => r.seen.membership = "absent"
    /\ r.alone /\ r.pc \notin After("membership") \cup Unlisted =>
          r.seen.membership = status /\ status \in {"absent", "invited", "active"}
    /\ r.alone /\ r.pc \in After("membership") => "membership" \in r.wrote \/ status = "active"

OnboardInv ==
    /\ OnboardTypes
    /\ db.tenant = NoName => \A u \in Owners : db.membership[u] = "absent"
    /\ \A o \in Runs : run[o].pc = "new" => run[o].wrote = {}
    /\ \A o \in Runs : InFlight(o) =>
          Complete(db, run[o]) /\ Enabled(db, run[o]) /\ MemberKnown(db, run[o])
    /\ \A o, p \in Runs : InFlight(o) /\ InFlight(p) /\ o # p =>
          /\ ~run[o].alone
          /\ ~(/\ "membership" \in run[o].wrote /\ "membership" \in run[p].wrote
               /\ run[o].owner = run[p].owner)

-----------------------------------------------------------------------------
LEMMA NoRunTyped ==
    NoRun \in Run /\ ~Active(NoRun) /\ NoRun.wrote = {} /\ NoRun.pc = "new"
  <1>1. (CHOOSE u \in Owners : TRUE) \in Owners
    BY NameValues
  <1> QED  BY <1>1 DEF NoRun, Run, Unseen, Active, Statuses

LEMMA OnboardInvInit == OnboardInit => OnboardInv
  <1> SUFFICES ASSUME OnboardInit PROVE OnboardInv
    OBVIOUS
  <1>1. db \in Database /\ \A u \in Owners : db.membership[u] = "absent"
    BY DEF OnboardInit, Database, Statuses
  <1>2. run \in [Runs -> Run] /\ \A o \in Runs : ~InFlight(o) /\ run[o].wrote = {}
    BY NoRunTyped DEF OnboardInit, InFlight, Active
  <1> QED  BY <1>1, <1>2 DEF OnboardInv, OnboardTypes

LEMMA Typed ==
    ASSUME OnboardInv
    PROVE  /\ db \in Database /\ run \in [Runs -> Run]
           /\ db.tenant \in Names \cup {NoName}
           /\ db.user \in [Owners -> {"absent", "bare", "email"}]
           /\ db.location \in Nat
           /\ db.membership \in [Owners -> Statuses]
           /\ db.role \in [Owners -> Nat]
           /\ db.module \in {"absent", "off", "on"}
           /\ \A o \in Runs : run[o] \in Run /\ run[o].owner \in Owners
  <1>1. db \in Database /\ run \in [Runs -> Run]
    BY DEF OnboardInv, OnboardTypes
  <1>2. \A o \in Runs : run[o] \in Run
    BY <1>1
  <1> QED  BY <1>1, <1>2 DEF Database, Run

-----------------------------------------------------------------------------
(* What a run reads. *)

HasSeen == [tenant : BOOLEAN, user : BOOLEAN, membership : Statuses, role : BOOLEAN,
         module : BOOLEAN]

\* What passed between two records of what is seen, beside the field that was read.
Tells(s, t, field) ==
    /\ field # "tenant" => t.tenant = s.tenant
    /\ t.user = s.user
    /\ field # "membership" => t.membership = s.membership
    /\ field # "role" => t.role = s.role
    /\ field # "module" => t.module = s.module

\* One step of reading, from run record r to q over the rows d.
ReadStep(d, r, q) ==
    \/ /\ r.pc = "see_tenant" /\ q.pc = "tenant"
       /\ d.tenant = NoName /\ Tells(r.seen, q.seen, "")
    \/ /\ r.pc = "see_tenant" /\ q.pc = "see_location"
       /\ d.tenant = r.name /\ q.seen.tenant /\ Tells(r.seen, q.seen, "tenant")
    \/ /\ r.pc = "see_location" /\ q.pc = "see_membership" /\ Tells(r.seen, q.seen, "")
    \/ /\ r.pc = "see_membership" /\ q.pc = "see_role"
       /\ q.seen.membership = d.membership[r.owner]
       /\ d.membership[r.owner] \notin {"suspended", "revoked"}
       /\ Tells(r.seen, q.seen, "membership")
    \/ /\ r.pc = "see_role" /\ q.pc = "see_module"
       /\ q.seen.role <=> d.role[r.owner] > 0
       /\ Tells(r.seen, q.seen, "role")
    \/ /\ r.pc = "see_module" /\ q.pc = "tenant"
       /\ q.seen.module <=> d.module = "on"
       /\ Tells(r.seen, q.seen, "module")
    \/ /\ r.pc = "see_address" /\ q.pc \in {"user", "location"}
       /\ q.pc = "location" => r.seen.user
       /\ q.pc = "user" /\ r.seen.user => d.user[r.owner] = "bare"
       /\ Tells(r.seen, q.seen, "")

\* A step of run o that changes at most where it is and what it has seen.
OnlySees(o) ==
    /\ run' \in [Runs -> Run] /\ db' = db
    /\ \A p \in Runs : p # o => run'[p] = run[p]
    /\ run'[o].wrote = run[o].wrote /\ run'[o].changed = run[o].changed
    /\ run'[o].name = run[o].name /\ run'[o].owner = run[o].owner
    /\ run'[o].confirmed = run[o].confirmed /\ run'[o].mode = run[o].mode
    /\ run'[o].alone = run[o].alone

LEMMA LoadsEffect ==
    ASSUME OnboardInv, NEW o \in Runs, NEW pc, NEW next \in Loading \cup Parts,
           NEW seen \in HasSeen, Loads(o, pc, next, seen)
    PROVE  /\ OnlySees(o)
           /\ run[o].pc = pc /\ run'[o].pc = next /\ run'[o].seen = seen
  <1> DEFINE r == run[o]
             q == [r EXCEPT !.pc = next, !.seen = seen]
  <1>1. /\ run \in [Runs -> Run] /\ r \in Run /\ db' = db /\ r.pc = pc
        /\ run' = [run EXCEPT ![o] = q]
    BY Typed DEF Loads
  <1>2. /\ q.pc = next /\ q.seen = seen /\ q.wrote = r.wrote /\ q.changed = r.changed
        /\ q.name = r.name /\ q.owner = r.owner /\ q.confirmed = r.confirmed
        /\ q.mode = r.mode /\ q.alone = r.alone
        /\ q \in Run
    BY <1>1 DEF Run, HasSeen
  <1> HIDE DEF q
  <1>3. run'[o] = q /\ (\A p \in Runs : p # o => run'[p] = run[p]) /\ run' \in [Runs -> Run]
    BY <1>1, <1>2
  <1> QED  BY <1>1, <1>2, <1>3 DEF OnlySees

Reading(o) == \/ ReadTenant(o) \/ ReadLocations(o) \/ ReadMembership(o) \/ ReadRole(o)
             \/ ReadModule(o) \/ ReadAddress(o)

LEMMA ReadEffect ==
    ASSUME OnboardInv, NEW o \in Runs, Reading(o)
    PROVE  OnlySees(o) /\ ReadStep(db, run[o], run'[o])
  <1> DEFINE r == run[o]
             u == r.owner
             s == r.seen
  <1>0. /\ s \in HasSeen /\ u \in Owners /\ db.membership[u] \in Statuses
        /\ db.role[u] \in Nat /\ "tenant" \in Parts /\ "user" \in Parts /\ "location" \in Parts
        /\ {"see_location", "see_membership", "see_role", "see_module"} \subseteq Loading
    BY Typed DEF Run, HasSeen, Parts, Loading
  <1>1. CASE ReadTenant(o)
    <2>1. CASE db.tenant = NoName /\ Loads(o, "see_tenant", "tenant", s)
      BY <1>0, <2>1, LoadsEffect DEF ReadStep, Tells
    <2>2. CASE SameName(r.name) /\ Loads(o, "see_tenant", "see_location", [s EXCEPT !.tenant = TRUE])
      <3> DEFINE t == [s EXCEPT !.tenant = TRUE]
      <3>1. t \in HasSeen /\ t.tenant /\ Tells(s, t, "tenant")
        BY <1>0 DEF HasSeen, Tells
      <3> HIDE DEF t
      <3>2. Loads(o, "see_tenant", "see_location", t)
        BY <2>2 DEF t
      <3>3. /\ OnlySees(o)
            /\ r.pc = "see_tenant" /\ run'[o].pc = "see_location" /\ run'[o].seen = t
        BY <1>0, <3>1, <3>2, LoadsEffect
      <3> QED  BY <2>2, <3>1, <3>3 DEF ReadStep, SameName
    <2> QED  BY <1>1, <2>1, <2>2 DEF ReadTenant
  <1>2. CASE ReadLocations(o)
    <2>1. Loads(o, "see_location", "see_membership", s)
      BY <1>2 DEF ReadLocations
    <2> QED  BY <1>0, <2>1, LoadsEffect DEF ReadStep, Tells
  <1>3. CASE ReadMembership(o)
    <2> DEFINE t == [s EXCEPT !.membership = db.membership[u]]
    <2>1. t \in HasSeen /\ t.membership = db.membership[u] /\ Tells(s, t, "membership")
      BY <1>0 DEF HasSeen, Tells
    <2> HIDE DEF t
    <2>2. /\ Loads(o, "see_membership", "see_role", t)
          /\ db.membership[u] \notin {"suspended", "revoked"}
      BY <1>3 DEF ReadMembership, t
    <2>3. /\ OnlySees(o)
          /\ r.pc = "see_membership" /\ run'[o].pc = "see_role" /\ run'[o].seen = t
      BY <1>0, <2>1, <2>2, LoadsEffect
    <2> QED  BY <2>1, <2>2, <2>3 DEF ReadStep
  <1>4. CASE ReadRole(o)
    <2> DEFINE b == db.role[u] > 0
               t == [s EXCEPT !.role = b]
    <2>1. Loads(o, "see_role", "see_module", t) /\ b \in BOOLEAN
      BY <1>4 DEF ReadRole
    <2> HIDE DEF b
    <2>2. t \in HasSeen /\ t.role = b /\ Tells(s, t, "role")
      BY <1>0, <2>1 DEF HasSeen, Tells
    <2> HIDE DEF t
    <2>3. t.role <=> db.role[u] > 0
      BY <2>2 DEF b
    <2>4. /\ OnlySees(o)
          /\ r.pc = "see_role" /\ run'[o].pc = "see_module" /\ run'[o].seen = t
      BY <1>0, <2>1, <2>2, LoadsEffect
    <2> QED  BY <2>2, <2>3, <2>4 DEF ReadStep
  <1>5. CASE ReadModule(o)
    <2> DEFINE b == db.module = "on"
               t == [s EXCEPT !.module = b]
    <2>1. Loads(o, "see_module", "tenant", t) /\ b \in BOOLEAN
      BY <1>5 DEF ReadModule
    <2> HIDE DEF b
    <2>2. t \in HasSeen /\ t.module = b /\ Tells(s, t, "module")
      BY <1>0, <2>1 DEF HasSeen, Tells
    <2> HIDE DEF t
    <2>3. t.module <=> db.module = "on"
      BY <2>2 DEF b
    <2>4. /\ OnlySees(o)
          /\ r.pc = "see_module" /\ run'[o].pc = "tenant" /\ run'[o].seen = t
      BY <1>0, <2>1, <2>2, LoadsEffect
    <2> QED  BY <2>2, <2>3, <2>4 DEF ReadStep
  <1>6. CASE ReadAddress(o)
    <2> DEFINE next == IF s.user /\ ~(r.email /\ db.user[u] = "bare") THEN "location" ELSE "user"
    <2>1. Loads(o, "see_address", next, s)
      BY <1>6 DEF ReadAddress
    <2>2. /\ next \in {"user", "location"} /\ (next = "location" => s.user)
          /\ next = "user" /\ s.user => db.user[u] = "bare"
      BY <1>0 DEF HasSeen
    <2> HIDE DEF next
    <2>3. OnlySees(o) /\ r.pc = "see_address" /\ run'[o].pc = next /\ run'[o].seen = s
      BY <1>0, <2>1, <2>2, LoadsEffect
    <2> QED  BY <2>2, <2>3 DEF ReadStep, Tells
  <1> QED  BY <1>1, <1>2, <1>3, <1>4, <1>5, <1>6 DEF Reading

LEMMA ReadInv ==
    ASSUME OnboardInv, NEW o \in Runs, Reading(o)
    PROVE  OnboardInv'
  <1> DEFINE r == run[o]
             q == run'[o]
  <1>0. /\ run' \in [Runs -> Run] /\ db' = db
        /\ \A p \in Runs : p # o => run'[p] = run[p]
        /\ ReadStep(db, r, q)
        /\ q.wrote = r.wrote /\ q.name = r.name /\ q.owner = r.owner
        /\ q.confirmed = r.confirmed /\ q.mode = r.mode /\ q.alone = r.alone
    BY ReadEffect DEF OnlySees
  <1>1. /\ r.pc \notin {"new", "committed", "aborted"}
        /\ q.pc \notin {"new", "committed", "aborted", "end"}
    BY <1>0 DEF ReadStep
  <1>2. InFlight(o) /\ \A p \in Runs : InFlight(p)' => InFlight(p)
    BY <1>0, <1>1 DEF InFlight
  <1>3. /\ Complete(db, r) /\ MemberKnown(db, r) /\ r.owner \in Owners
        /\ r.name # NoName /\ r.seen.tenant \in BOOLEAN
        /\ db.membership[r.owner] \in Statuses
        /\ db.tenant = NoName => db.membership[r.owner] = "absent"
    <2>1. Complete(db, r) /\ MemberKnown(db, r) /\ r \in Run /\ r.owner \in Owners
      BY <1>2, Typed DEF OnboardInv
    <2>2. r.name # NoName
      BY <2>1, NameValues DEF Complete
    <2> QED  BY <2>1, <2>2, Typed DEF OnboardInv, Run
  <1>4. Complete(db, q) /\ Enabled(db, q)
    BY <1>0, <1>1, <1>3, AfterDef DEF ReadStep, Tells, Complete, Enabled
  <1>5. MemberKnown(db, q)
    BY <1>0, <1>3, AfterDef DEF ReadStep, Tells, MemberKnown, Unlisted, Statuses
  <1>6. ASSUME NEW p \in Runs, InFlight(p)'
        PROVE  (Complete(db, run[p]) /\ Enabled(db, run[p]) /\ MemberKnown(db, run[p]))'
    <2>1. CASE p = o
      BY <1>0, <1>4, <1>5, <2>1
    <2>2. CASE p # o
      <3>1. Complete(db, run[p]) /\ Enabled(db, run[p]) /\ MemberKnown(db, run[p])
        BY <1>2, <1>6 DEF OnboardInv
      <3>2. run'[p] = run[p] /\ db' = db
        BY <1>0, <2>2
      <3> QED  BY <3>1, <3>2
    <2> QED  BY <2>1, <2>2
  <1>7. \A p \in Runs : /\ run'[p].wrote = run[p].wrote /\ run'[p].owner = run[p].owner
                        /\ run'[p].alone = run[p].alone
                        /\ run'[p].pc = "new" => run[p].pc = "new"
    BY <1>0, <1>1
  <1>8. ASSUME NEW p \in Runs, NEW x \in Runs, InFlight(p)', InFlight(x)', p # x
        PROVE  /\ ~run'[p].alone
               /\ ~(/\ "membership" \in run'[p].wrote /\ "membership" \in run'[x].wrote
                    /\ run'[p].owner = run'[x].owner)
    BY <1>2, <1>7, <1>8 DEF OnboardInv
  <1>9. /\ OnboardTypes'
        /\ (db.tenant = NoName => \A u \in Owners : db.membership[u] = "absent")'
        /\ \A p \in Runs : run'[p].pc = "new" => run'[p].wrote = {}
    BY <1>0, <1>7, Typed DEF OnboardTypes, OnboardInv
  <1> QED  BY <1>6, <1>8, <1>9 DEF OnboardInv

-----------------------------------------------------------------------------
(* One entity of a run. *)

LEMMA StatementEffect ==
    ASSUME OnboardInv, NEW o \in Runs, NEW pc \in Parts,
           NEW next \in Parts \cup {"see_address", "end"}, NEW writes \in BOOLEAN, NEW reports \in BOOLEAN,
           Statement(o, pc, next, writes, reports)
    PROVE  /\ run' \in [Runs -> Run] /\ db' = db
           /\ \A p \in Runs : p # o => run'[p] = run[p]
           /\ run[o].pc = pc /\ run'[o].pc = next
           /\ run'[o].wrote = run[o].wrote \cup (IF writes THEN {pc} ELSE {})
           /\ run'[o].name = run[o].name /\ run'[o].owner = run[o].owner
           /\ run'[o].confirmed = run[o].confirmed /\ run'[o].mode = run[o].mode
           /\ run'[o].seen = run[o].seen /\ run'[o].alone = run[o].alone
  <1> DEFINE r == run[o]
             w == r.wrote \cup (IF writes THEN {pc} ELSE {})
             c == r.changed \cup (IF reports THEN {pc} ELSE {})
             q == [r EXCEPT !.pc = next, !.wrote = w, !.changed = c]
  <1>1. /\ run \in [Runs -> Run] /\ r \in Run /\ db' = db /\ r.pc = pc
        /\ run' = [run EXCEPT ![o] = q]
    BY Typed DEF Statement
  <1>2. r.wrote \in SUBSET Parts /\ r.changed \in SUBSET Parts
    BY <1>1 DEF Run
  <1>3. w \in SUBSET Parts /\ c \in SUBSET Parts
    BY <1>2
  <1>4. /\ q.pc = next /\ q.wrote = w /\ q.name = r.name /\ q.owner = r.owner
        /\ q.confirmed = r.confirmed /\ q.mode = r.mode /\ q.seen = r.seen /\ q.alone = r.alone
        /\ q \in Run
    <2> HIDE DEF w, c, r
    <2> QED  BY <1>1, <1>3 DEF Run, Parts
  <1> HIDE DEF q
  <1>5. run'[o] = q /\ (\A p \in Runs : p # o => run'[p] = run[p]) /\ run' \in [Runs -> Run]
    BY <1>1, <1>4
  <1> QED  BY <1>1, <1>4, <1>5

\* What is left to show of a statement.
LEMMA StatementInv ==
    ASSUME OnboardInv, NEW o \in Runs, NEW pc \in Parts,
           NEW next \in Parts \cup {"see_address", "end"}, NEW writes \in BOOLEAN, NEW reports \in BOOLEAN,
           Statement(o, pc, next, writes, reports),
           Complete(db, run'[o]), Enabled(db, run'[o]), MemberKnown(db, run'[o]),
           writes /\ pc = "membership" => Unlocked(o, "membership", run[o].owner)
    PROVE  OnboardInv'
  <1>0. /\ run' \in [Runs -> Run] /\ db' = db
        /\ \A p \in Runs : p # o => run'[p] = run[p]
        /\ run[o].pc = pc /\ run'[o].pc = next
        /\ run'[o].wrote = run[o].wrote \cup (IF writes THEN {pc} ELSE {})
        /\ run'[o].owner = run[o].owner /\ run'[o].alone = run[o].alone
    BY StatementEffect
  <1>1. OnboardTypes'
    BY <1>0, Typed DEF OnboardTypes
  <1>2. /\ (db.tenant = NoName => \A u \in Owners : db.membership[u] = "absent")'
        /\ \A p \in Runs : run'[p].pc = "new" => run'[p].wrote = {}
    BY <1>0 DEF OnboardInv, Parts
  <1>3. InFlight(o) /\ \A p \in Runs : InFlight(p)' => InFlight(p)
    BY <1>0 DEF InFlight, Parts
  <1>4. ASSUME NEW p \in Runs, InFlight(p)'
        PROVE  (Complete(db, run[p]) /\ Enabled(db, run[p]) /\ MemberKnown(db, run[p]))'
    <2>1. CASE p = o
      BY <1>0, <2>1
    <2>2. CASE p # o
      <3>1. Complete(db, run[p]) /\ Enabled(db, run[p]) /\ MemberKnown(db, run[p])
        BY <1>3, <1>4 DEF OnboardInv
      <3>2. run'[p] = run[p] /\ db' = db
        BY <1>0, <2>2
      <3> QED  BY <3>1, <3>2
    <2> QED  BY <2>1, <2>2
  <1>5. ASSUME NEW p \in Runs, NEW q \in Runs, InFlight(p)', InFlight(q)', p # q
        PROVE  /\ ~run'[p].alone
               /\ ~(/\ "membership" \in run'[p].wrote /\ "membership" \in run'[q].wrote
                    /\ run'[p].owner = run'[q].owner)
    <2>1. InFlight(p) /\ InFlight(q)
      BY <1>3, <1>5
    <2>2. ~run'[p].alone
      BY <1>0, <1>5, <2>1 DEF OnboardInv
    <2>3. ASSUME NEW x \in Runs, x # o, InFlight(x), "membership" \in run'[o].wrote,
                 "membership" \in run[x].wrote, run[x].owner = run[o].owner
          PROVE  FALSE
      <3>1. CASE "membership" \in run[o].wrote
        BY <1>0, <1>3, <2>3, <3>1 DEF OnboardInv
      <3>2. CASE writes /\ pc = "membership"
        BY <1>0, <2>3, <3>2 DEF Unlocked
      <3> QED  BY <1>0, <2>3, <3>1, <3>2 DEF Parts
    <2>4. ~(/\ "membership" \in run'[p].wrote /\ "membership" \in run'[q].wrote
            /\ run'[p].owner = run'[q].owner)
      <3>1. CASE p = o
        BY <1>0, <1>5, <2>1, <2>3, <3>1
      <3>2. CASE q = o
        BY <1>0, <1>5, <2>1, <2>3, <3>2
      <3>3. CASE p # o /\ q # o
        BY <1>0, <1>5, <2>1, <3>3 DEF OnboardInv
      <3> QED  BY <3>1, <3>2, <3>3
    <2> QED  BY <2>2, <2>4
  <1> QED  BY <1>1, <1>2, <1>4, <1>5 DEF OnboardInv

LEMMA WritesInv ==
    ASSUME OnboardInv, NEW o \in Runs,
           \/ WriteTenant(o) \/ WriteUser(o) \/ WriteLocation(o)
           \/ WriteMembership(o) \/ WriteRole(o) \/ WriteModule(o)
    PROVE  OnboardInv'
  <1> DEFINE r == run[o]
             u == r.owner
  <1>0. /\ u \in Owners /\ db.location \in Nat /\ db.role[u] \in Nat
        /\ db.module \in {"absent", "off", "on"}
        /\ {"tenant", "user", "location", "membership", "role", "module"} \subseteq Parts
        /\ r.seen.user \in BOOLEAN /\ r.seen.tenant \in BOOLEAN /\ r.seen.role \in BOOLEAN
        /\ r.seen.module \in BOOLEAN /\ r.email \in BOOLEAN
    BY Typed DEF Parts, Run
  <1>1. ASSUME r.pc \in Parts
        PROVE  Complete(db, r) /\ Enabled(db, r) /\ MemberKnown(db, r)
    BY <1>1 DEF OnboardInv, InFlight, Parts
  <1>2. ASSUME WriteTenant(o)
        PROVE  OnboardInv'
    <2> DEFINE w == ~r.seen.tenant /\ db.tenant = NoName
               c == ~r.seen.tenant
    <2>1. Statement(o, "tenant", "see_address", w, c)
      BY <1>2 DEF WriteTenant
    <2>2. w \in BOOLEAN /\ c \in BOOLEAN
      BY DEF Activatable, Enables
    <2> HIDE DEF w, c
    <2>0. "tenant" \in Parts /\ "see_address" \in Parts \cup {"see_address", "end"}
      BY DEF Parts
    <2>3. /\ r.pc = "tenant" /\ run'[o].pc = "see_address"
          /\ run'[o].wrote = r.wrote \cup (IF w THEN {"tenant"} ELSE {})
          /\ run'[o].name = r.name /\ run'[o].owner = u
          /\ run'[o].confirmed = r.confirmed /\ run'[o].mode = r.mode
          /\ run'[o].seen = r.seen /\ run'[o].alone = r.alone
      BY <2>0, <2>1, <2>2, StatementEffect
    <2>4. Complete(db, run'[o])
      BY <1>0, <1>1, <2>3, AfterDef DEF Complete, w
    <2>5. Enabled(db, run'[o]) /\ MemberKnown(db, run'[o])
      BY <1>0, <1>1, <2>3, AfterDef DEF Enabled, Unlisted, MemberKnown, w
    <2> QED  BY <1>0, <2>1, <2>4, <2>5, <2>2, StatementInv
  <1>3. ASSUME WriteUser(o)
        PROVE  OnboardInv'
    <2> DEFINE w == db.user[u] = IF r.seen.user THEN "bare" ELSE "absent"
               c == TRUE
    <2>1. Statement(o, "user", "location", w, c)
      BY <1>3 DEF WriteUser
    <2>2. w \in BOOLEAN /\ c \in BOOLEAN /\ (~w => db.user[u] # "absent" \/ r.seen.user)
      OBVIOUS
    <2> HIDE DEF w, c
    <2>0. "user" \in Parts /\ "location" \in Parts \cup {"see_address", "end"}
      BY DEF Parts
    <2>3. /\ r.pc = "user" /\ run'[o].pc = "location"
          /\ run'[o].wrote = r.wrote \cup (IF w THEN {"user"} ELSE {})
          /\ run'[o].name = r.name /\ run'[o].owner = u
          /\ run'[o].confirmed = r.confirmed /\ run'[o].mode = r.mode
          /\ run'[o].seen = r.seen /\ run'[o].alone = r.alone
      BY <2>0, <2>1, <2>2, StatementEffect
    <2>4. Complete(db, run'[o])
      BY <1>0, <1>1, <2>2, <2>3, AfterDef DEF Complete
    <2>5. Enabled(db, run'[o]) /\ MemberKnown(db, run'[o])
      BY <1>0, <1>1, <2>3, AfterDef DEF Enabled, Unlisted, MemberKnown
    <2> QED  BY <1>0, <2>1, <2>4, <2>5, <2>2, StatementInv
  <1>4. ASSUME WriteLocation(o)
        PROVE  OnboardInv'
    <2> DEFINE w == db.location = 0
               c == db.location = 0
    <2>1. Statement(o, "location", "membership", w, c)
      BY <1>4 DEF WriteLocation
    <2>2. w \in BOOLEAN /\ c \in BOOLEAN
      BY DEF Activatable, Enables
    <2> HIDE DEF w, c
    <2>3. /\ r.pc = "location" /\ run'[o].pc = "membership"
          /\ run'[o].wrote = r.wrote \cup (IF w THEN {"location"} ELSE {})
          /\ run'[o].name = r.name /\ run'[o].owner = u
          /\ run'[o].confirmed = r.confirmed /\ run'[o].mode = r.mode
          /\ run'[o].seen = r.seen /\ run'[o].alone = r.alone
      BY <1>0, <2>1, <2>2, StatementEffect
    <2>4. Complete(db, run'[o])
      BY <1>0, <1>1, <2>3, AfterDef DEF Complete, w
    <2>5. Enabled(db, run'[o]) /\ MemberKnown(db, run'[o])
      BY <1>0, <1>1, <2>3, AfterDef DEF Enabled, Unlisted, MemberKnown, w
    <2> QED  BY <1>0, <2>1, <2>4, <2>5, <2>2, StatementInv
  <1>5. ASSUME WriteMembership(o)
        PROVE  OnboardInv'
    <2> DEFINE seen == r.seen.membership
               w == \/ seen = "absent" /\ db.membership[u] = "absent"
                    \/ seen = "invited" /\ Activatable(db.membership[u])
               c == seen # "active"
    <2>1. Statement(o, "membership", "role", w, c) /\ (w => Unlocked(o, "membership", u))
      BY <1>5 DEF WriteMembership
    <2>2. w \in BOOLEAN /\ c \in BOOLEAN
      BY DEF Activatable, Enables
    <2> HIDE DEF w, c
    <2>3. /\ r.pc = "membership" /\ run'[o].pc = "role"
          /\ run'[o].wrote = r.wrote \cup (IF w THEN {"membership"} ELSE {})
          /\ run'[o].name = r.name /\ run'[o].owner = u
          /\ run'[o].confirmed = r.confirmed /\ run'[o].mode = r.mode
          /\ run'[o].seen = r.seen /\ run'[o].alone = r.alone
      BY <1>0, <2>1, <2>2, StatementEffect
    <2>4. Complete(db, run'[o]) /\ Enabled(db, run'[o])
      BY <1>0, <1>1, <2>3, AfterDef DEF Complete, Enabled, w
    <2>5. MemberKnown(db, run'[o])
      BY <1>0, <1>1, <2>3, AfterDef DEF MemberKnown, Unlisted, Activatable, w
    <2> QED  BY <1>0, <2>1, <2>4, <2>5, <2>2, StatementInv
  <1>6. ASSUME WriteRole(o)
        PROVE  OnboardInv'
    <2> DEFINE w == db.role[u] = 0
               c == ~r.seen.role
    <2>1. Statement(o, "role", "module", w, c)
      BY <1>6 DEF WriteRole
    <2>2. w \in BOOLEAN /\ c \in BOOLEAN
      BY DEF Activatable, Enables
    <2> HIDE DEF w, c
    <2>3. /\ r.pc = "role" /\ run'[o].pc = "module"
          /\ run'[o].wrote = r.wrote \cup (IF w THEN {"role"} ELSE {})
          /\ run'[o].name = r.name /\ run'[o].owner = u
          /\ run'[o].confirmed = r.confirmed /\ run'[o].mode = r.mode
          /\ run'[o].seen = r.seen /\ run'[o].alone = r.alone
      BY <1>0, <2>1, <2>2, StatementEffect
    <2>4. Complete(db, run'[o])
      BY <1>0, <1>1, <2>3, AfterDef DEF Complete, w
    <2>5. Enabled(db, run'[o]) /\ MemberKnown(db, run'[o])
      BY <1>0, <1>1, <2>3, AfterDef DEF Enabled, Unlisted, MemberKnown, Enables, w
    <2> QED  BY <1>0, <2>1, <2>4, <2>5, <2>2, StatementInv
  <1>7. ASSUME WriteModule(o)
        PROVE  OnboardInv'
    <2> DEFINE w == Enables(db.module)
               c == ~r.seen.module
    <2>1. Statement(o, "module", "end", w, c)
      BY <1>7 DEF WriteModule
    <2>2. w \in BOOLEAN /\ c \in BOOLEAN
      BY DEF Activatable, Enables
    <2> HIDE DEF w, c
    <2>0. "module" \in Parts /\ "end" \in Parts \cup {"see_address", "end"}
      BY DEF Parts
    <2>3. /\ r.pc = "module" /\ run'[o].pc = "end"
          /\ run'[o].wrote = r.wrote \cup (IF w THEN {"module"} ELSE {})
          /\ run'[o].name = r.name /\ run'[o].owner = u
          /\ run'[o].confirmed = r.confirmed /\ run'[o].mode = r.mode
          /\ run'[o].seen = r.seen /\ run'[o].alone = r.alone
      BY <2>0, <2>1, <2>2, StatementEffect
    <2>4. Complete(db, run'[o])
      BY <1>0, <1>1, <2>3, AfterDef DEF Complete, w
    <2>5. Enabled(db, run'[o]) /\ MemberKnown(db, run'[o])
      BY <1>0, <1>1, <2>3, AfterDef DEF Enabled, Unlisted, MemberKnown, Enables, w
    <2> QED  BY <1>0, <2>1, <2>4, <2>5, <2>2, StatementInv
  <1> QED  BY <1>2, <1>3, <1>4, <1>5, <1>6, <1>7

-----------------------------------------------------------------------------
(* Other steps: what a run under way keeps. *)

LEMMA Carries ==
    ASSUME NEW d, NEW e, NEW r, NEW q,
           Complete(d, r), Enabled(d, r), MemberKnown(d, r),
           q.pc = r.pc, q.name = r.name, q.mode = r.mode, q.confirmed = r.confirmed,
           q.seen = r.seen, q.owner = r.owner, q.wrote = r.wrote,
           q.alone => r.alone /\ e.membership = d.membership,
           d.tenant # NoName => e.tenant # NoName,
           d.user[r.owner] # "absent" => e.user[r.owner] # "absent",
           d.location > 0 => e.location > 0,
           d.role[r.owner] > 0 => e.role[r.owner] > 0,
           r.pc = "end" /\ d.module = "on" => e.module = "on",
           "membership" \in r.wrote => e.membership[r.owner] \in {"absent", "invited"}
    PROVE  Complete(e, q) /\ Enabled(e, q) /\ MemberKnown(e, q)
  <1>1. Complete(e, q) /\ Enabled(e, q)
    BY DEF Complete, Enabled
  <1>2. MemberKnown(e, q)
    BY DEF MemberKnown
  <1> QED  BY <1>1, <1>2

LEMMA NotAlone == \A r \in Run : [r EXCEPT !.alone = FALSE] \in Run
  BY DEF Run

\* A step of others than run o only takes away that a run was alone.
LEMMA DisturbedKeeps ==
    ASSUME OnboardInv, NEW p \in Runs
    PROVE  /\ Disturbed \in [Runs -> Run]
           /\ Disturbed[p].pc = run[p].pc /\ Disturbed[p].name = run[p].name
           /\ Disturbed[p].mode = run[p].mode /\ Disturbed[p].confirmed = run[p].confirmed
           /\ Disturbed[p].seen = run[p].seen /\ Disturbed[p].owner = run[p].owner
           /\ Disturbed[p].wrote = run[p].wrote
           /\ InFlight(p) => ~Disturbed[p].alone
           /\ ~InFlight(p) => Disturbed[p] = run[p]
  <1>1. ASSUME NEW x \in Runs
        PROVE  run[x] \in Run /\ [run[x] EXCEPT !.alone = FALSE] \in Run
    <2>1. run[x] \in Run
      BY Typed
    <2> QED  BY <2>1, NotAlone
  <1>2. Disturbed \in [Runs -> Run]
    BY <1>1 DEF Disturbed
  <1>3. Disturbed[p] = IF InFlight(p) THEN [run[p] EXCEPT !.alone = FALSE] ELSE run[p]
    BY DEF Disturbed
  <1> QED  BY <1>1, <1>2, <1>3 DEF Run

\* What a run has seen that has read the mirror of owner u.
Mirrored(u) == [Unseen EXCEPT !.user = (db.user[u] # "absent")]

LEMMA MirroredTyped ==
    ASSUME NEW u
    PROVE  /\ Mirrored(u) \in HasSeen
           /\ Mirrored(u).user <=> db.user[u] # "absent"
           /\ ~Mirrored(u).tenant /\ ~Mirrored(u).role /\ ~Mirrored(u).module
           /\ Mirrored(u).membership = "absent"
  <1> DEFINE b == db.user[u] # "absent"
  <1>1. b \in BOOLEAN /\ Mirrored(u) = [Unseen EXCEPT !.user = b]
    BY DEF Mirrored
  <1> HIDE DEF b
  <1>2. /\ Mirrored(u) \in HasSeen /\ Mirrored(u).user = b
        /\ ~Mirrored(u).tenant /\ ~Mirrored(u).role /\ ~Mirrored(u).module
        /\ Mirrored(u).membership = "absent"
    BY <1>1 DEF Unseen, HasSeen, Statuses
  <1> QED  BY <1>2 DEF b

LEMMA BeginInv ==
    ASSUME OnboardInv, NEW o \in Runs, NEW n \in Names, NEW u \in Owners,
           NEW flags \in SUBSET Flags, Begin(o, n, u, flags)
    PROVE  OnboardInv'
  <1>1. PICK email \in BOOLEAN :
          run' = [Disturbed EXCEPT ![o] =
                    [@ EXCEPT !.pc = "see_tenant", !.name = n, !.owner = u, !.email = email,
                              !.confirmed = (flags = Flags \ {"--dry-run"}),
                              !.mode = Mode(flags), !.seen = Mirrored(u),
                              !.alone = ~\E p \in Runs : InFlight(p)]]
    BY DEF Begin, Mirrored
  <1> DEFINE lonely == ~\E p \in Runs : InFlight(p)
             sure == flags = Flags \ {"--dry-run"}
  <1>2. /\ run[o].pc = "new" /\ ~InFlight(o) /\ db' = db
        /\ Mode(flags) \in {"dry-run", "commit"}
        /\ Mode(flags) = "commit" => sure
    <2>1. flags \subseteq {"--dry-run", "--commit", "--yes", "gates"}
      BY DEF Flags
    <2> QED  BY <2>1 DEF Begin, InFlight, Mode, Gates, Flags
  <1>3. Disturbed[o] = run[o] /\ run[o] \in Run /\ run[o].wrote \subseteq Parts
    BY <1>2, DisturbedKeeps, Typed DEF Run
  <1>5. /\ run' \in [Runs -> Run]
        /\ \A p \in Runs : p # o => run'[p] = Disturbed[p]
        /\ run'[o].pc = "see_tenant" /\ run'[o].name = n /\ run'[o].owner = u
        /\ run'[o].confirmed = sure /\ run'[o].mode = Mode(flags)
        /\ run'[o].seen = Mirrored(u) /\ run'[o].alone = lonely
        /\ run'[o].wrote = run[o].wrote
    <2> DEFINE l == Mirrored(u)
               m == Mode(flags)
    <2>0. /\ l \in HasSeen
          /\ m \in {"dry-run", "commit"} /\ lonely \in BOOLEAN /\ sure \in BOOLEAN
      BY <1>2, MirroredTyped
    <2> HIDE DEF l, m, lonely, sure
    <2> DEFINE q == [run[o] EXCEPT !.pc = "see_tenant", !.name = n, !.owner = u,
                        !.email = email, !.confirmed = sure, !.mode = m, !.seen = l,
                        !.alone = lonely]
    <2>1. /\ q \in Run /\ q.pc = "see_tenant" /\ q.name = n /\ q.owner = u
          /\ q.confirmed = sure /\ q.mode = m /\ q.seen = l /\ q.alone = lonely
          /\ q.wrote = run[o].wrote
      BY <1>3, <2>0, ZenonT(60) DEF Run, HasSeen, Loading
    <2>2. run' = [Disturbed EXCEPT ![o] = q]
      BY <1>1, <1>3 DEF l, m, lonely, sure
    <2>3. Disturbed \in [Runs -> Run]
      BY DisturbedKeeps
    <2> HIDE DEF q
    <2>4. /\ run' \in [Runs -> Run] /\ run'[o] = q
          /\ \A p \in Runs : p # o => run'[p] = Disturbed[p]
      BY <2>1, <2>2, <2>3
    <2> QED  BY <2>1, <2>4 DEF l, m
  <1> HIDE DEF lonely, sure
  <1>6. run[o].wrote = {}
    BY <1>2 DEF OnboardInv
  <1>7. ASSUME NEW p \in Runs
        PROVE  /\ InFlight(p)' <=> p = o \/ InFlight(p)
               /\ p # o /\ InFlight(p) => ~run'[p].alone
               /\ p # o => run'[p].wrote = run[p].wrote /\ run'[p].pc = run[p].pc
    BY <1>5, DisturbedKeeps DEF InFlight
  <1>8. ASSUME NEW p \in Runs, InFlight(p)'
        PROVE  (Complete(db, run[p]) /\ Enabled(db, run[p]) /\ MemberKnown(db, run[p]))'
    <2>1. CASE p = o
      <3>1. Complete(db, run'[o]) /\ Enabled(db, run'[o])
        BY <1>2, <1>5, AfterDef, MirroredTyped DEF Complete, Enabled
      <3>2. MemberKnown(db, run'[o])
        BY <1>5, <1>6, AfterDef, MirroredTyped DEF MemberKnown, Unlisted
      <3> QED  BY <1>2, <2>1, <3>1, <3>2
    <2>2. CASE p # o
      <3>1. InFlight(p) /\ run'[p] = Disturbed[p]
        BY <1>5, <1>7, <1>8, <2>2
      <3>2. Complete(db, run[p]) /\ Enabled(db, run[p]) /\ MemberKnown(db, run[p])
        BY <3>1 DEF OnboardInv
      <3>3. "membership" \in run[p].wrote => db.membership[run[p].owner] \in {"absent", "invited"}
        BY <3>2 DEF MemberKnown
      <3>4. /\ run'[p].pc = run[p].pc /\ run'[p].name = run[p].name
            /\ run'[p].mode = run[p].mode /\ run'[p].confirmed = run[p].confirmed
            /\ run'[p].seen = run[p].seen /\ run'[p].owner = run[p].owner
            /\ run'[p].wrote = run[p].wrote /\ ~run'[p].alone
        BY <3>1, DisturbedKeeps
      <3>5. Complete(db, run'[p]) /\ Enabled(db, run'[p]) /\ MemberKnown(db, run'[p])
        BY <3>2, <3>3, <3>4, Carries
      <3> QED  BY <1>2, <3>5
    <2> QED  BY <2>1, <2>2
  <1>9. ASSUME NEW p \in Runs, NEW q \in Runs, InFlight(p)', InFlight(q)', p # q
        PROVE  /\ ~run'[p].alone
               /\ ~(/\ "membership" \in run'[p].wrote /\ "membership" \in run'[q].wrote
                    /\ run'[p].owner = run'[q].owner)
    <2>1. CASE p = o
      BY <1>5, <1>6, <1>7, <1>9, <2>1 DEF lonely
    <2>2. CASE q = o
      BY <1>5, <1>6, <1>7, <1>9, <2>2
    <2>3. CASE p # o /\ q # o
      BY <1>5, <1>7, <1>9, <2>3, DisturbedKeeps DEF OnboardInv
    <2> QED  BY <2>1, <2>2, <2>3
  <1>10. \A p \in Runs : run'[p].pc = "new" => run'[p].wrote = {}
    BY <1>5, <1>7 DEF OnboardInv
  <1>11. OnboardTypes'
    BY <1>2, <1>5, Typed DEF OnboardTypes
  <1>12. (db.tenant = NoName => \A x \in Owners : db.membership[x] = "absent")'
    BY <1>2 DEF OnboardInv
  <1> QED  BY <1>8, <1>9, <1>10, <1>11, <1>12 DEF OnboardInv

(***************************************************************************)
(* The end of a run, and the others who manage members and modules.        *)
(***************************************************************************)
LEMMA CommitEffect ==
    ASSUME OnboardInv, NEW o \in Runs, Commit(o)
    PROVE  LET r == run[o] IN
           /\ db' \in Database /\ run' \in [Runs -> Run]
           /\ run'[o].pc = "committed" /\ r.pc = "end" /\ InFlight(o) /\ ~InFlight(o)'
           /\ \A p \in Runs : p # o => run'[p] = run[p]
           /\ r.confirmed
           /\ db'.tenant # NoName
           /\ \A u \in Owners : db.user[u] # "absent" => db'.user[u] # "absent"
           /\ db'.user[r.owner] # "absent"
           /\ db'.location > 0
           /\ \A u \in Owners : db.role[u] > 0 => db'.role[u] > 0
           /\ db'.role[r.owner] > 0
           /\ db'.module = "on"
           /\ db'.membership = IF "membership" \in r.wrote
                               THEN [db.membership EXCEPT ![r.owner] = "active"]
                               ELSE db.membership
  <1> DEFINE r == run[o]
             u == r.owner
  <1>0. /\ r \in Run /\ u \in Owners /\ r.pc = "end" /\ r.mode = "commit"
        /\ InFlight(o) /\ db' = Written(r) /\ r.email \in BOOLEAN
    BY Typed DEF Commit, Decides, InFlight, Run
  <1>1. Complete(db, r) /\ Enabled(db, r)
    BY <1>0 DEF OnboardInv
  <1> DEFINE t == IF "tenant" \in r.wrote THEN r.name ELSE db.tenant
             x == IF "user" \in r.wrote
                  THEN [db.user EXCEPT ![u] = IF r.email THEN "email" ELSE "bare"] ELSE db.user
             l == IF "location" \in r.wrote THEN db.location + 1 ELSE db.location
             m == IF "membership" \in r.wrote
                  THEN [db.membership EXCEPT ![u] = "active"] ELSE db.membership
             a == IF "role" \in r.wrote THEN [db.role EXCEPT ![u] = @ + 1] ELSE db.role
             e == IF "module" \in r.wrote THEN "on" ELSE db.module
  <1>2. Written(r) = [tenant |-> t, user |-> x, location |-> l, membership |-> m,
                      role |-> a, module |-> e]
    BY DEF Written
  <1>3. t \in Names \cup {NoName} /\ t # NoName
    BY <1>0, <1>1, AfterDef, Typed, NameValues DEF Complete
  <1>4. /\ x \in [Owners -> {"absent", "bare", "email"}] /\ x[u] # "absent"
        /\ \A v \in Owners : db.user[v] # "absent" => x[v] # "absent"
    BY <1>0, <1>1, AfterDef, Typed DEF Complete
  <1>5. l \in Nat /\ l > 0
    BY <1>0, <1>1, AfterDef, Typed DEF Complete
  <1>6. m \in [Owners -> Statuses]
    BY <1>0, Typed DEF Statuses
  <1>7. /\ a \in [Owners -> Nat] /\ a[u] > 0
        /\ \A v \in Owners : db.role[v] > 0 => a[v] > 0
    BY <1>0, <1>1, AfterDef, Typed DEF Complete
  <1>8. e = "on"
    BY <1>0, <1>1 DEF Enabled
  <1>9. r.confirmed
    BY <1>0, <1>1 DEF Complete
  <1> HIDE DEF t, x, l, m, a, e
  <1>10. /\ db' \in Database /\ db'.tenant = t /\ db'.user = x /\ db'.location = l
         /\ db'.membership = m /\ db'.role = a /\ db'.module = e
    BY <1>0, <1>2, <1>3, <1>4, <1>5, <1>6, <1>7, <1>8 DEF Database
  <1>11. /\ run' \in [Runs -> Run] /\ run'[o].pc = "committed"
         /\ \A p \in Runs : p # o => run'[p] = run[p]
    <2> DEFINE q == [NoRun EXCEPT !.pc = "committed", !.name = run[o].name,
                        !.wrote = run[o].wrote,
                        !.changed = run[o].changed, !.alone = run[o].alone]
    <2>1. q \in Run /\ q.pc = "committed"
      BY <1>0, NoRunTyped DEF Run
    <2>2. run' = [run EXCEPT ![o] = q]
      BY DEF Commit
    <2> HIDE DEF q
    <2> QED  BY <2>1, <2>2, Typed
  <1>12. ~InFlight(o)'
    BY <1>11 DEF InFlight
  <1> QED  BY <1>0, <1>3, <1>4, <1>5, <1>7, <1>8, <1>9, <1>10, <1>11, <1>12 DEF m

LEMMA CommitInv ==
    ASSUME OnboardInv, NEW o \in Runs, Commit(o)
    PROVE  OnboardInv'
  <1>1. /\ db' \in Database /\ run' \in [Runs -> Run]
        /\ run'[o].pc = "committed" /\ InFlight(o) /\ ~InFlight(o)'
        /\ \A p \in Runs : p # o => run'[p] = run[p]
        /\ db'.tenant # NoName /\ db'.location > 0 /\ db'.module = "on"
        /\ \A u \in Owners : db.user[u] # "absent" => db'.user[u] # "absent"
        /\ \A u \in Owners : db.role[u] > 0 => db'.role[u] > 0
        /\ db'.membership = IF "membership" \in run[o].wrote
                            THEN [db.membership EXCEPT ![run[o].owner] = "active"]
                            ELSE db.membership
    BY CommitEffect
  <1>2. ASSUME NEW p \in Runs, InFlight(p)'
        PROVE  /\ p # o /\ run'[p] = run[p] /\ InFlight(p)
               /\ Complete(db, run[p]) /\ Enabled(db, run[p]) /\ MemberKnown(db, run[p])
               /\ ~run[p].alone /\ run[p].owner \in Owners
               /\ "membership" \in run[p].wrote =>
                     db'.membership[run[p].owner] \in {"absent", "invited"}
    <2>1. p # o /\ run'[p] = run[p] /\ InFlight(p)
      BY <1>1, <1>2 DEF InFlight
    <2>2. /\ Complete(db, run[p]) /\ Enabled(db, run[p]) /\ MemberKnown(db, run[p])
          /\ ~run[p].alone
          /\ ~(/\ "membership" \in run[o].wrote /\ "membership" \in run[p].wrote
               /\ run[o].owner = run[p].owner)
      BY <1>1, <2>1 DEF OnboardInv
    <2>3. run[p].owner \in Owners /\ db.membership \in [Owners -> Statuses]
      BY Typed
    <2>4. ASSUME "membership" \in run[p].wrote
          PROVE  db'.membership[run[p].owner] \in {"absent", "invited"}
      <3>1. db'.membership[run[p].owner] = db.membership[run[p].owner]
        BY <1>1, <2>2, <2>3, <2>4
      <3> QED  BY <2>2, <2>4, <3>1 DEF MemberKnown
    <2> QED  BY <2>1, <2>2, <2>3, <2>4
  <1>3. ASSUME NEW p \in Runs, InFlight(p)'
        PROVE  (Complete(db, run[p]) /\ Enabled(db, run[p]) /\ MemberKnown(db, run[p]))'
    <2>1. Complete(db', run[p]) /\ Enabled(db', run[p]) /\ MemberKnown(db', run[p])
      BY <1>1, <1>2, <1>3, Carries, ZenonT(60)
    <2> QED  BY <1>2, <1>3, <2>1
  <1>4. ASSUME NEW p \in Runs
        PROVE  run'[p].pc = "new" => run'[p].wrote = {}
    BY <1>1 DEF OnboardInv
  <1>5. ASSUME NEW p \in Runs, NEW q \in Runs, InFlight(p)', InFlight(q)', p # q
        PROVE  /\ ~run'[p].alone
               /\ ~(/\ "membership" \in run'[p].wrote /\ "membership" \in run'[q].wrote
                    /\ run'[p].owner = run'[q].owner)
    BY <1>2, <1>5 DEF OnboardInv
  <1> QED  BY <1>1, <1>3, <1>4, <1>5 DEF OnboardInv, OnboardTypes

LEMMA RollbackInv ==
    ASSUME OnboardInv, NEW o \in Runs, Rollback(o)
    PROVE  OnboardInv'
  <1>1. /\ run' \in [Runs -> Run] /\ db' = db /\ run'[o].pc = "aborted"
        /\ \A p \in Runs : p # o => run'[p] = run[p]
    <2> DEFINE q == [NoRun EXCEPT !.pc = "aborted"]
    <2>1. q \in Run /\ q.pc = "aborted"
      BY NoRunTyped DEF Run
    <2>2. run' = [run EXCEPT ![o] = q] /\ db' = db
      BY DEF Rollback
    <2> HIDE DEF q
    <2> QED  BY <2>1, <2>2, Typed
  <1>2. ASSUME NEW p \in Runs, InFlight(p)'
        PROVE  p # o /\ InFlight(p) /\ run'[p] = run[p]
    BY <1>1, <1>2 DEF InFlight
  <1>3. ASSUME NEW p \in Runs, InFlight(p)'
        PROVE  (Complete(db, run[p]) /\ Enabled(db, run[p]) /\ MemberKnown(db, run[p]))'
    <2>1. Complete(db, run[p]) /\ Enabled(db, run[p]) /\ MemberKnown(db, run[p])
      BY <1>2, <1>3 DEF OnboardInv
    <2> QED  BY <1>1, <1>2, <1>3, <2>1
  <1>4. ASSUME NEW p \in Runs, NEW q \in Runs, InFlight(p)', InFlight(q)', p # q
        PROVE  /\ ~run'[p].alone
               /\ ~(/\ "membership" \in run'[p].wrote /\ "membership" \in run'[q].wrote
                    /\ run'[p].owner = run'[q].owner)
    BY <1>2, <1>4 DEF OnboardInv
  <1>5. \A p \in Runs : run'[p].pc = "new" => run'[p].wrote = {}
    BY <1>1 DEF OnboardInv
  <1>6. OnboardTypes' /\ (db.tenant = NoName => \A u \in Owners : db.membership[u] = "absent")'
    BY <1>1, Typed DEF OnboardInv, OnboardTypes
  <1> QED  BY <1>3, <1>4, <1>5, <1>6 DEF OnboardInv

\* Others change one row, which no run under way holds.
LEMMA OthersInv ==
    ASSUME OnboardInv, run' = Disturbed, db' \in Database,
           db.tenant = NoName => db'.membership = db.membership,
           db'.tenant = db.tenant, db'.user = db.user, db'.location = db.location,
           db'.role = db.role,
           \A o \in Runs : run[o].pc = "end" /\ db.module = "on" => db'.module = "on",
           \A o \in Runs : InFlight(o) /\ "membership" \in run[o].wrote =>
                             db'.membership[run[o].owner] = db.membership[run[o].owner]
    PROVE  OnboardInv'
  <1>1. ASSUME NEW p \in Runs
        PROVE  /\ InFlight(p)' <=> InFlight(p)
               /\ run'[p].pc = run[p].pc /\ run'[p].owner = run[p].owner
               /\ run'[p].wrote = run[p].wrote
               /\ InFlight(p) => ~run'[p].alone
    BY DisturbedKeeps DEF InFlight
  <1>2. ASSUME NEW p \in Runs, InFlight(p)'
        PROVE  (Complete(db, run[p]) /\ Enabled(db, run[p]) /\ MemberKnown(db, run[p]))'
    <2>1. InFlight(p) /\ run'[p] = Disturbed[p] /\ ~run'[p].alone
      BY <1>1, <1>2
    <2>2. Complete(db, run[p]) /\ Enabled(db, run[p]) /\ MemberKnown(db, run[p])
      BY <2>1 DEF OnboardInv
    <2>3. "membership" \in run[p].wrote => db'.membership[run[p].owner] \in {"absent", "invited"}
      BY <2>1, <2>2 DEF MemberKnown
    <2>4. /\ run'[p].pc = run[p].pc /\ run'[p].name = run[p].name
          /\ run'[p].mode = run[p].mode /\ run'[p].confirmed = run[p].confirmed
          /\ run'[p].seen = run[p].seen /\ run'[p].owner = run[p].owner
          /\ run'[p].wrote = run[p].wrote
      BY <2>1, DisturbedKeeps
    <2>5. run[p].pc = "end" /\ db.module = "on" => db'.module = "on"
      OBVIOUS
    <2>6. Complete(db', run'[p]) /\ Enabled(db', run'[p]) /\ MemberKnown(db', run'[p])
      BY <2>1, <2>2, <2>3, <2>4, <2>5, Carries
    <2> QED  BY <2>6
  <1>3. ASSUME NEW p \in Runs, NEW q \in Runs, InFlight(p)', InFlight(q)', p # q
        PROVE  /\ ~run'[p].alone
               /\ ~(/\ "membership" \in run'[p].wrote /\ "membership" \in run'[q].wrote
                    /\ run'[p].owner = run'[q].owner)
    BY <1>1, <1>3 DEF OnboardInv
  <1>4. \A p \in Runs : run'[p].pc = "new" => run'[p].wrote = {}
    BY <1>1 DEF OnboardInv
  <1>5. OnboardTypes'
    <2>1. Disturbed \in [Runs -> Run]
      BY NotAlone, Typed DEF Disturbed
    <2> QED  BY <2>1 DEF OnboardTypes
  <1> QED  BY <1>2, <1>3, <1>4, <1>5 DEF OnboardInv

LEMMA ManageMemberInv ==
    ASSUME OnboardInv, NEW u \in Owners, NEW status \in Statuses, ManageMember(u, status)
    PROVE  OnboardInv'
  <1>1. /\ db.tenant # NoName /\ run' = Disturbed
        /\ db' = [db EXCEPT !.membership[u] = status]
        /\ \A o \in Runs : ~(InFlight(o) /\ run[o].owner = u /\ "membership" \in run[o].wrote)
    BY DEF ManageMember
  <1>2. db' = [db EXCEPT !.membership = [db.membership EXCEPT ![u] = status]]
    BY <1>1, Typed
  <1>3. [db.membership EXCEPT ![u] = status] \in [Owners -> Statuses]
    BY Typed
  <1>4. /\ db' \in Database /\ db'.membership = [db.membership EXCEPT ![u] = status]
        /\ db'.tenant = db.tenant /\ db'.user = db.user /\ db'.location = db.location
        /\ db'.role = db.role /\ db'.module = db.module
    BY <1>2, <1>3, Typed DEF Database
  <1>5. \A o \in Runs : InFlight(o) /\ "membership" \in run[o].wrote =>
                          db'.membership[run[o].owner] = db.membership[run[o].owner]
    BY <1>1, <1>4, Typed
  <1> QED  BY <1>1, <1>4, <1>5, OthersInv

LEMMA DisableModuleInv ==
    ASSUME OnboardInv, DisableModule
    PROVE  OnboardInv' /\ db'.membership = db.membership
  <1>1. /\ db.module = "on" /\ run' = Disturbed /\ db' = [db EXCEPT !.module = "off"]
        /\ \A o \in Runs : run[o].pc # "end"
    BY DEF DisableModule
  <1>2. /\ db' \in Database /\ db'.membership = db.membership /\ db'.tenant = db.tenant
        /\ db'.user = db.user /\ db'.location = db.location /\ db'.role = db.role
    BY <1>1, Typed DEF Database
  <1> QED  BY <1>1, <1>2, OthersInv

LEMMA OnboardInvNext ==
    ASSUME OnboardInv, [OnboardNext]_onboardVars
    PROVE  OnboardInv'
  <1>1. CASE UNCHANGED onboardVars
    BY <1>1 DEF onboardVars, OnboardInv, OnboardTypes, InFlight
  <1>2. CASE OnboardNext
    BY <1>2, BeginInv, ReadInv, WritesInv, CommitInv, RollbackInv, ManageMemberInv, DisableModuleInv
       DEF OnboardNext, Reading
  <1> QED  BY <1>1, <1>2

THEOREM OnboardInvariant == OnboardSpec => []OnboardInv
  BY OnboardInvInit, OnboardInvNext, PTL DEF OnboardSpec

(* The rows and the runs keep their types: the part that PartTypes states    *)
(* for onboarding.                                                           *)
THEOREM OnboardTypesHold == OnboardSpec => []OnboardTypes
  <1>1. OnboardInv => OnboardTypes
    BY DEF OnboardInv
  <1> QED  BY <1>1, OnboardInvariant, PTL

\* Only its own commit ends a run as committed.
LEMMA CommitsCommit ==
    ASSUME OnboardInv, OnboardNext, NEW o \in Runs, Commits(o)
    PROVE  Commit(o)
  <1>0. run[o].pc = "end" /\ run'[o].pc = "committed"
    BY DEF Commits
  <1>1. ASSUME NEW p \in Runs, NEW n \in Names, NEW u \in Owners, NEW flags \in SUBSET Flags,
               Begin(p, n, u, flags)
        PROVE  FALSE
    <2>1. CASE p = o
      BY <1>0, <1>1, <2>1 DEF Begin
    <2>2. CASE p # o
      <3>1. run'[o] = Disturbed[o]
        BY <1>1, <2>2, DisturbedKeeps DEF Begin
      <3> QED  BY <1>0, <3>1, DisturbedKeeps
    <2> QED  BY <2>1, <2>2
  <1>2. ASSUME NEW p \in Runs, WriteTenant(p) \/ WriteUser(p) \/ WriteLocation(p) \/
               WriteMembership(p) \/ WriteRole(p) \/ WriteModule(p)
        PROVE  FALSE
    <2>1. /\ run[p].pc \in Parts
          /\ run' = [run EXCEPT ![p] = run'[p]]
      BY <1>2, Typed DEF WriteTenant, WriteUser, WriteLocation, WriteMembership, WriteRole,
                         WriteModule, Statement, Parts
    <2> QED  BY <1>0, <2>1, Typed DEF Parts
  <1>6. ASSUME NEW p \in Runs, Reading(p)
        PROVE  FALSE
    <2>1. ReadStep(db, run[p], run'[p]) /\ \A x \in Runs : x # p => run'[x] = run[x]
      BY <1>6, ReadEffect DEF OnlySees
    <2> QED  BY <1>0, <2>1 DEF ReadStep
  <1>3. ASSUME NEW p \in Runs, Commit(p)
        PROVE  p = o
    BY <1>0, <1>3, CommitEffect
  <1>4. ASSUME NEW p \in Runs, Rollback(p)
        PROVE  FALSE
    BY <1>0, <1>4, Typed DEF Rollback
  <1>5. ASSUME run' = Disturbed
        PROVE  FALSE
    BY <1>0, <1>5, DisturbedKeeps
  <1> QED  BY <1>1, <1>2, <1>3, <1>4, <1>5, <1>6
              DEF OnboardNext, ManageMember, DisableModule, Reading

(* Whatever runs and managers overlap: a run that commits was confirmed in   *)
(* every way and leaves a complete owner, with an active membership if the   *)
(* run was alone.                                                            *)
THEOREM CommitsAreComplete == OnboardSpec => CommittedIsComplete
  <1>1. ASSUME OnboardInv, OnboardNext, NEW o \in Runs, Commits(o)
        PROVE  LET u == run[o].owner IN
               /\ run[o].confirmed
               /\ db'.tenant # NoName /\ db'.user[u] # "absent" /\ db'.location > 0
               /\ db'.role[u] > 0 /\ db'.module = "on"
               /\ run[o].alone => db'.membership[u] = "active"
    <2>1. Commit(o)
      BY <1>1, CommitsCommit
    <2>2. /\ run[o].pc = "end" /\ InFlight(o)
          /\ run[o].confirmed /\ db'.tenant # NoName /\ db'.user[run[o].owner] # "absent"
          /\ db'.location > 0 /\ db'.role[run[o].owner] > 0 /\ db'.module = "on"
          /\ db'.membership = IF "membership" \in run[o].wrote
                              THEN [db.membership EXCEPT ![run[o].owner] = "active"]
                              ELSE db.membership
      BY <1>1, <2>1, CommitEffect
    <2>3. MemberKnown(db, run[o])
      BY <1>1, <2>2 DEF OnboardInv
    <2>4. run[o].alone => db'.membership[run[o].owner] = "active"
      BY <1>1, <2>2, <2>3, AfterDef, Typed DEF MemberKnown
    <2> QED  BY <2>2, <2>4
  <1>2. OnboardInv /\ [OnboardNext]_onboardVars =>
           [\A o \in Runs : Commits(o) =>
              LET u == run[o].owner IN
              /\ run[o].confirmed
              /\ db'.tenant # NoName /\ db'.user[u] # "absent" /\ db'.location > 0
              /\ db'.role[u] > 0 /\ db'.module = "on"
              /\ run[o].alone => db'.membership[u] = "active"]_onboardVars
    BY <1>1
  <1> QED  BY <1>2, OnboardInvariant, PTL DEF OnboardSpec, CommittedIsComplete

(* No commit takes a suspension or a revocation back, however late it was    *)
(* decided.                                                                  *)
THEOREM SuspensionsStand == OnboardSpec => SuspensionStands
  <1>1. ASSUME OnboardInv, OnboardNext, NEW o \in Runs, NEW u \in Owners,
               Commits(o), db.membership[u] \in {"suspended", "revoked"}
        PROVE  db'.membership[u] = db.membership[u]
    <2>1. Commit(o)
      BY <1>1, CommitsCommit
    <2>2. /\ InFlight(o)
          /\ db'.membership = IF "membership" \in run[o].wrote
                              THEN [db.membership EXCEPT ![run[o].owner] = "active"]
                              ELSE db.membership
      BY <1>1, <2>1, CommitEffect
    <2>3. "membership" \in run[o].wrote => db.membership[run[o].owner] \in {"absent", "invited"}
      BY <1>1, <2>2 DEF OnboardInv, MemberKnown
    <2> QED  BY <1>1, <2>2, <2>3, Typed
  <1>2. OnboardInv /\ [OnboardNext]_onboardVars =>
           [\A o \in Runs, u \in Owners :
              Commits(o) /\ db.membership[u] \in {"suspended", "revoked"} =>
                 db'.membership[u] = db.membership[u]]_onboardVars
    BY <1>1
  <1> QED  BY <1>2, OnboardInvariant, PTL DEF OnboardSpec, SuspensionStands
-----------------------------------------------------------------------------
(* Runs nobody disturbed.  SerialInv adds to OnboardInv what such a run has  *)
(* seen is so still and what it reports is what it wrote (Tidy), that one    *)
(* run at a time holds the slug, before there is a tenant, and the property. *)

Tidy(d, r) == r.alone =>
    /\ IF r.pc = "see_tenant" THEN ~r.seen.tenant
       ELSE (r.seen.tenant <=> d.tenant # NoName) /\ d.tenant \in {NoName, r.name}
    /\ r.seen.user <=> d.user[r.owner] # "absent"
    /\ r.pc = "user" /\ r.seen.user => d.user[r.owner] = "bare"
    /\ r.seen.role <=> r.pc \notin Unlisted \cup {"see_role"} /\ d.role[r.owner] > 0
    /\ r.seen.module <=> r.pc \notin Loading /\ d.module = "on"
    /\ r.changed = r.wrote
    /\ "location" \in r.wrote => d.location = 0
    /\ "role" \in r.wrote => d.role[r.owner] = 0

HoldsSlug(o) == InFlight(o) /\ "tenant" \in run[o].wrote

SerialInv ==
    /\ OnboardInv
    /\ db.tenant = NoName => db.module = "absent" /\ \A u \in Owners : db.role[u] = 0
    /\ \A o \in Runs : run[o].pc = "new" => run[o].changed = {}
    /\ \A o \in Runs : run[o].pc = "committed" => db.tenant # NoName
    /\ \A o \in Runs : InFlight(o) => Tidy(db, run[o])
    /\ \A o \in Runs : HoldsSlug(o) => db.tenant = NoName
    /\ \A o, p \in Runs : HoldsSlug(o) /\ HoldsSlug(p) => o = p
    /\ SerialRunsAreExact

LEMMA SerialInit == OnboardInit => SerialInv
  <1> SUFFICES ASSUME OnboardInit PROVE SerialInv
    OBVIOUS
  <1>1. OnboardInv
    BY OnboardInvInit
  <1>2. /\ db.module = "absent" /\ db.location = 0 /\ \A u \in Owners : db.role[u] = 0
    BY DEF OnboardInit
  <1>3. \A o \in Runs : run[o].pc = "new" /\ run[o].changed = {} /\ ~InFlight(o)
    BY DEF OnboardInit, NoRun, InFlight
  <1> QED  BY <1>1, <1>2, <1>3 DEF SerialInv, HoldsSlug, SerialRunsAreExact

\* What a statement adds to what is reported.
LEMMA StatementReports ==
    ASSUME OnboardInv, NEW o \in Runs, NEW pc \in Parts,
           NEW next \in Parts \cup {"see_address", "end"}, NEW writes \in BOOLEAN, NEW reports \in BOOLEAN,
           Statement(o, pc, next, writes, reports)
    PROVE  run'[o].changed = run[o].changed \cup (IF reports THEN {pc} ELSE {})
  <1> DEFINE w == run[o].wrote \cup (IF writes THEN {pc} ELSE {})
             c == run[o].changed \cup (IF reports THEN {pc} ELSE {})
  <1>1. run' = [run EXCEPT ![o] = [run[o] EXCEPT !.pc = next, !.wrote = w, !.changed = c]]
    BY Typed DEF Statement
  <1>2. run[o] \in Run /\ run \in [Runs -> Run]
    BY Typed
  <1> HIDE DEF w, c
  <1>3. [run[o] EXCEPT !.pc = next, !.wrote = w, !.changed = c].changed = c
    BY <1>2 DEF Run
  <1>4. run'[o].changed = c
    BY <1>1, <1>2, <1>3
  <1> QED  BY <1>4 DEF c

LEMMA SerialRead ==
    ASSUME SerialInv, OnboardInv', NEW o \in Runs, Reading(o)
    PROVE  SerialInv'
  <1> DEFINE r == run[o]
             q == run'[o]
  <1>0. /\ db' = db /\ \A p \in Runs : p # o => run'[p] = run[p]
        /\ ReadStep(db, r, q)
        /\ q.wrote = r.wrote /\ q.changed = r.changed /\ q.name = r.name
        /\ q.owner = r.owner /\ q.alone = r.alone
    BY ReadEffect DEF OnlySees, SerialInv
  <1>1. /\ r.pc \notin {"new", "committed", "aborted"}
        /\ q.pc \notin {"new", "committed", "aborted"}
    BY <1>0 DEF ReadStep
  <1>2. InFlight(o) /\ \A p \in Runs : InFlight(p)' <=> InFlight(p)
    BY <1>0, <1>1 DEF InFlight
  <1>3. Tidy(db, q)
    <2>1. /\ Tidy(db, r) /\ r.owner \in Owners /\ r \in Run
          /\ db.role[r.owner] \in Nat
          /\ r.name # NoName
          /\ db.tenant = NoName => db.module = "absent" /\ db.role[r.owner] = 0
      BY <1>2, Typed, NameValues DEF SerialInv, OnboardInv, Complete
    <2>2. /\ r.seen.tenant \in BOOLEAN /\ r.seen.user \in BOOLEAN /\ r.seen.role \in BOOLEAN
          /\ r.seen.module \in BOOLEAN
      BY <2>1 DEF Run
    <2> QED  BY <1>0, <2>1, <2>2 DEF ReadStep, Tells, Tidy, Unlisted, Loading
  <1>4. ASSUME NEW p \in Runs, InFlight(p)'
        PROVE  Tidy(db, run[p])'
    <2>1. CASE p = o
      BY <1>0, <1>3, <2>1
    <2>2. CASE p # o
      <3>1. Tidy(db, run[p]) /\ run'[p] = run[p]
        BY <1>0, <1>2, <1>4, <2>2 DEF SerialInv
      <3> QED  BY <1>0, <3>1
    <2> QED  BY <2>1, <2>2
  <1>5. \A p \in Runs : HoldsSlug(p)' <=> HoldsSlug(p)
    BY <1>0, <1>2 DEF HoldsSlug
  <1>6. \A p \in Runs : /\ run'[p].pc \in {"new", "committed"} => run'[p] = run[p]
                        /\ run[p].pc = "committed" => run'[p] = run[p]
    BY <1>0, <1>1
  <1>7. SerialRunsAreExact'
    BY <1>0, <1>6 DEF SerialInv, SerialRunsAreExact
  <1> QED  BY <1>0, <1>4, <1>5, <1>6, <1>7 DEF SerialInv

LEMMA SerialStatement ==
    ASSUME SerialInv, OnboardInv', NEW o \in Runs, NEW pc \in Parts,
           NEW next \in Parts \cup {"see_address", "end"}, NEW writes \in BOOLEAN, NEW reports \in BOOLEAN,
           Statement(o, pc, next, writes, reports),
           run[o].alone => (writes <=> reports),
           writes /\ pc = "tenant" =>
              db.tenant = NoName /\ \A p \in Runs \ {o} : ~HoldsSlug(p),
           writes /\ pc = "location" => db.location = 0,
           writes /\ pc = "role" => db.role[run[o].owner] = 0
    PROVE  SerialInv'
  <1>0. /\ db' = db /\ \A p \in Runs : p # o => run'[p] = run[p]
        /\ run[o].pc = pc /\ run'[o].pc = next
        /\ run'[o].wrote = run[o].wrote \cup (IF writes THEN {pc} ELSE {})
        /\ run'[o].changed = run[o].changed \cup (IF reports THEN {pc} ELSE {})
        /\ run'[o].name = run[o].name /\ run'[o].owner = run[o].owner
        /\ run'[o].seen = run[o].seen /\ run'[o].alone = run[o].alone
    BY StatementEffect, StatementReports DEF SerialInv
  <1>1. /\ InFlight(o) /\ InFlight(o)'
        /\ \A p \in Runs : p # o => (InFlight(p)' <=> InFlight(p))
    BY <1>0 DEF InFlight, Parts
  <1>2. ASSUME NEW p \in Runs, InFlight(p)'
        PROVE  Tidy(db, run[p])'
    <2>1. CASE p # o
      <3>1. Tidy(db, run[p]) /\ run'[p] = run[p]
        BY <1>0, <1>1, <1>2, <2>1 DEF SerialInv
      <3> QED  BY <1>0, <3>1
    <2>2. CASE p = o
      <3>1. Tidy(db, run[o])
        BY <1>1 DEF SerialInv
      <3>2. Tidy(db, run'[o])
        BY <1>0, <3>1 DEF Tidy, Parts, Loading, Unlisted
      <3> QED  BY <1>0, <2>2, <3>2
    <2> QED  BY <2>1, <2>2
  <1>3. \A p \in Runs : HoldsSlug(p)' => HoldsSlug(p) \/ (p = o /\ writes /\ pc = "tenant")
    BY <1>0, <1>1 DEF HoldsSlug
  <1>4. \A p \in Runs : HoldsSlug(p)' => db'.tenant = NoName
    BY <1>0, <1>3 DEF SerialInv
  <1>5. \A p, q \in Runs : HoldsSlug(p)' /\ HoldsSlug(q)' => p = q
    BY <1>3 DEF SerialInv
  <1>6. \A p \in Runs : /\ run'[p].pc \in {"new", "committed"} => run'[p] = run[p]
                        /\ run[p].pc = "committed" => run'[p] = run[p]
    BY <1>0 DEF Parts
  <1>7. SerialRunsAreExact'
    BY <1>0, <1>6 DEF SerialInv, SerialRunsAreExact
  <1> QED  BY <1>0, <1>2, <1>4, <1>5, <1>6, <1>7 DEF SerialInv

LEMMA SerialWrites ==
    ASSUME SerialInv, OnboardInv', NEW o \in Runs,
           \/ WriteTenant(o) \/ WriteUser(o) \/ WriteLocation(o)
           \/ WriteMembership(o) \/ WriteRole(o) \/ WriteModule(o)
    PROVE  SerialInv'
  <1> DEFINE r == run[o]
             u == r.owner
  <1>0. /\ u \in Owners /\ db.location \in Nat /\ db.role[u] \in Nat
        /\ {"tenant", "user", "location", "membership", "role", "module"} \subseteq Parts
        /\ r.seen.user \in BOOLEAN /\ r.seen.tenant \in BOOLEAN /\ r.seen.role \in BOOLEAN
        /\ r.seen.module \in BOOLEAN /\ r.email \in BOOLEAN
    BY Typed DEF Parts, Run, SerialInv
  <1>1. ASSUME r.pc \in Parts, r.alone
        PROVE  Tidy(db, r) /\ MemberKnown(db, r)
    BY <1>1 DEF SerialInv, OnboardInv, InFlight, Parts
  <1>2. ASSUME WriteTenant(o)
        PROVE  SerialInv'
    <2> DEFINE w == ~r.seen.tenant /\ db.tenant = NoName
               c == ~r.seen.tenant
    <2>1. Statement(o, "tenant", "see_address", w, c) /\ (w => Unlocked(o, "tenant", u))
      BY <1>2 DEF WriteTenant
    <2>2. w \in BOOLEAN /\ c \in BOOLEAN /\ r.pc = "tenant"
      BY <2>1 DEF Statement
    <2>3. r.alone => (w <=> c)
      BY <1>0, <1>1, <2>2 DEF Tidy, Unlisted, Loading
    <2>4. w => db.tenant = NoName /\ \A p \in Runs \ {o} : ~HoldsSlug(p)
      BY <2>1 DEF Unlocked, HoldsSlug
    <2> HIDE DEF w, c
    <2> QED  BY <1>0, <2>1, <2>2, <2>3, <2>4, SerialStatement
  <1>3. ASSUME WriteUser(o)
        PROVE  SerialInv'
    <2> DEFINE w == db.user[u] = IF r.seen.user THEN "bare" ELSE "absent"
    <2>1. Statement(o, "user", "location", w, TRUE)
      BY <1>3 DEF WriteUser
    <2>2. w \in BOOLEAN /\ r.pc = "user"
      BY <2>1 DEF Statement
    <2>3. r.alone => (w <=> TRUE)
      BY <1>0, <1>1, <2>2 DEF Tidy, Unlisted, Loading
    <2> HIDE DEF w
    <2> QED  BY <1>0, <2>1, <2>2, <2>3, SerialStatement
  <1>4. ASSUME WriteLocation(o)
        PROVE  SerialInv'
    <2> DEFINE w == db.location = 0
    <2>1. Statement(o, "location", "membership", w, w)
      BY <1>4 DEF WriteLocation
    <2>2. w \in BOOLEAN /\ (w => db.location = 0)
      OBVIOUS
    <2> HIDE DEF w
    <2> QED  BY <1>0, <2>1, <2>2, SerialStatement
  <1>5. ASSUME WriteMembership(o)
        PROVE  SerialInv'
    <2> DEFINE seen == r.seen.membership
               w == \/ seen = "absent" /\ db.membership[u] = "absent"
                    \/ seen = "invited" /\ Activatable(db.membership[u])
               c == seen # "active"
    <2>1. Statement(o, "membership", "role", w, c)
      BY <1>5 DEF WriteMembership
    <2>2. w \in BOOLEAN /\ c \in BOOLEAN /\ r.pc = "membership"
      BY <2>1 DEF Activatable, Statement
    <2>3. r.alone => (w <=> c)
      <3>1. r.alone => seen = db.membership[u] /\ seen \in {"absent", "invited", "active"}
        BY <1>0, <1>1, <2>2, AfterDef DEF MemberKnown, Unlisted
      <3> QED  BY <3>1 DEF Activatable
    <2> HIDE DEF w, c
    <2> QED  BY <1>0, <2>1, <2>2, <2>3, SerialStatement
  <1>6. ASSUME WriteRole(o)
        PROVE  SerialInv'
    <2> DEFINE w == db.role[u] = 0
               c == ~r.seen.role
    <2>1. Statement(o, "role", "module", w, c)
      BY <1>6 DEF WriteRole
    <2>2. w \in BOOLEAN /\ c \in BOOLEAN /\ r.pc = "role"
      BY <2>1 DEF Statement
    <2>3. (r.alone => (w <=> c)) /\ (w => db.role[u] = 0)
      BY <1>0, <1>1, <2>2 DEF Tidy, Unlisted, Loading
    <2> HIDE DEF w, c
    <2> QED  BY <1>0, <2>1, <2>2, <2>3, SerialStatement
  <1>7. ASSUME WriteModule(o)
        PROVE  SerialInv'
    <2> DEFINE w == Enables(db.module)
               c == ~r.seen.module
    <2>1. Statement(o, "module", "end", w, c)
      BY <1>7 DEF WriteModule
    <2>2. w \in BOOLEAN /\ c \in BOOLEAN /\ r.pc = "module"
      BY <2>1 DEF Enables, Statement
    <2>3. r.alone => (w <=> c)
      BY <1>0, <1>1, <2>2 DEF Tidy, Unlisted, Loading, Enables
    <2> HIDE DEF w, c
    <2> QED  BY <1>0, <2>1, <2>2, <2>3, SerialStatement
  <1> QED  BY <1>2, <1>3, <1>4, <1>5, <1>6, <1>7

\* Whoever is under way while others act has been disturbed.
LEMMA DisturbedTidy ==
    ASSUME OnboardInv, NEW p \in Runs
    PROVE  /\ Disturbed[p].changed = run[p].changed
           /\ InFlight(p) => \A d : Tidy(d, Disturbed[p])
  <1>1. run[p] \in Run
    BY Typed
  <1>2. Disturbed[p] = IF InFlight(p) THEN [run[p] EXCEPT !.alone = FALSE] ELSE run[p]
    BY DEF Disturbed
  <1> QED  BY <1>1, <1>2, DisturbedKeeps DEF Run, Tidy

LEMMA BeginEffect ==
    ASSUME OnboardInv, NEW o \in Runs, NEW n \in Names, NEW u \in Owners,
           NEW flags \in SUBSET Flags, Begin(o, n, u, flags)
    PROVE  /\ run[o].pc = "new" /\ db' = db /\ run'[o].pc = "see_tenant"
           /\ \A p \in Runs : p # o => run'[p] = Disturbed[p]
           /\ run'[o].name = n /\ run'[o].owner = u /\ run'[o].seen = Mirrored(u)
           /\ run'[o].wrote = run[o].wrote /\ run'[o].changed = run[o].changed
  <1>1. PICK email \in BOOLEAN :
          run' = [Disturbed EXCEPT ![o] =
                    [@ EXCEPT !.pc = "see_tenant", !.name = n, !.owner = u, !.email = email,
                              !.confirmed = (flags = Flags \ {"--dry-run"}),
                              !.mode = Mode(flags), !.seen = Mirrored(u),
                              !.alone = ~\E p \in Runs : InFlight(p)]]
    BY DEF Begin, Mirrored
  <1> DEFINE sure == flags = Flags \ {"--dry-run"}
             m == Mode(flags)
             l == Mirrored(u)
             lonely == ~\E p \in Runs : InFlight(p)
             q == [run[o] EXCEPT !.pc = "see_tenant", !.name = n, !.owner = u, !.email = email,
                     !.confirmed = sure, !.mode = m, !.seen = l, !.alone = lonely]
  <1>2. run[o].pc = "new" /\ db' = db
    BY DEF Begin
  <1>3. Disturbed[o] = run[o] /\ run[o] \in Run /\ Disturbed \in [Runs -> Run]
    BY <1>2, DisturbedKeeps, Typed DEF InFlight
  <1>4. run' = [Disturbed EXCEPT ![o] = q]
    BY <1>1, <1>3
  <1> HIDE DEF sure, m, l, lonely
  <1>5. /\ q.pc = "see_tenant" /\ q.name = n /\ q.owner = u /\ q.seen = l
        /\ q.wrote = run[o].wrote /\ q.changed = run[o].changed
    BY <1>3 DEF Run
  <1> HIDE DEF q
  <1>6. run'[o] = q /\ \A p \in Runs : p # o => run'[p] = Disturbed[p]
    BY <1>3, <1>4
  <1> QED  BY <1>2, <1>5, <1>6 DEF l

LEMMA SerialBegin ==
    ASSUME SerialInv, OnboardInv', NEW o \in Runs, NEW n \in Names, NEW u \in Owners,
           NEW flags \in SUBSET Flags, Begin(o, n, u, flags)
    PROVE  SerialInv'
  <1>0. OnboardInv
    BY DEF SerialInv
  <1>1. /\ run[o].pc = "new" /\ db' = db /\ run'[o].pc = "see_tenant"
        /\ \A p \in Runs : p # o => run'[p] = Disturbed[p]
        /\ run'[o].name = n /\ run'[o].owner = u /\ run'[o].seen = Mirrored(u)
        /\ run'[o].wrote = run[o].wrote /\ run'[o].changed = run[o].changed
    BY <1>0, BeginEffect
  <1>2. run'[o].wrote = {} /\ run'[o].changed = {}
    BY <1>1 DEF SerialInv, OnboardInv
  <1>3. ASSUME NEW p \in Runs, p # o
        PROVE  /\ run'[p].pc = run[p].pc /\ run'[p].wrote = run[p].wrote
               /\ run'[p].changed = run[p].changed
               /\ ~InFlight(p) => run'[p] = run[p]
               /\ InFlight(p) => Tidy(db, run'[p])
               /\ InFlight(p)' <=> InFlight(p)
    BY <1>0, <1>1, <1>3, DisturbedKeeps, DisturbedTidy DEF InFlight
  <1>4. ASSUME NEW p \in Runs, InFlight(p)'
        PROVE  Tidy(db, run[p])'
    <2>1. CASE p = o
      <3>1. Tidy(db, run'[o])
        BY <1>1, <1>2, MirroredTyped DEF Tidy, Unlisted, Loading
      <3> QED  BY <1>1, <2>1, <3>1
    <2>2. CASE p # o
      BY <1>1, <1>3, <1>4, <2>2
    <2> QED  BY <2>1, <2>2
  <1>5. \A p \in Runs : HoldsSlug(p)' => HoldsSlug(p)
    BY <1>2, <1>3 DEF HoldsSlug
  <1>6. \A p \in Runs : /\ run[p].pc = "committed" => run'[p] = run[p]
                        /\ run'[p].pc = "committed" => run'[p] = run[p]
    BY <1>1, <1>3 DEF InFlight
  <1>7. SerialRunsAreExact'
    BY <1>1, <1>6 DEF SerialInv, SerialRunsAreExact
  <1>8. \A p \in Runs : run'[p].pc = "new" => run'[p].changed = {}
    BY <1>1, <1>3 DEF SerialInv
  <1> QED  BY <1>1, <1>4, <1>5, <1>6, <1>7, <1>8 DEF SerialInv

\* What the rows and the run are after a commit.
LEMMA CommitWrites ==
    ASSUME OnboardInv, NEW o \in Runs, Commit(o)
    PROVE  LET r == run[o] IN
           /\ db'.tenant = IF "tenant" \in r.wrote THEN r.name ELSE db.tenant
           /\ db'.location = IF "location" \in r.wrote THEN db.location + 1 ELSE db.location
           /\ \A u \in Owners : db'.role[u] = IF "role" \in r.wrote /\ u = r.owner
                                              THEN db.role[u] + 1 ELSE db.role[u]
           /\ run'[o].name = r.name /\ run'[o].wrote = r.wrote
           /\ run'[o].changed = r.changed /\ run'[o].alone = r.alone
  <1> DEFINE r == run[o]
             q == [NoRun EXCEPT !.pc = "committed", !.name = r.name, !.wrote = r.wrote,
                                !.changed = r.changed, !.alone = r.alone]
  <1>1. db' = Written(r) /\ run' = [run EXCEPT ![o] = q] /\ r.owner \in Owners
    BY Typed DEF Commit
  <1>2. q.name = r.name /\ q.wrote = r.wrote /\ q.changed = r.changed /\ q.alone = r.alone
    BY NoRunTyped DEF Run
  <1>3. run'[o] = q
    BY <1>1, Typed
  <1>4. /\ db'.tenant = IF "tenant" \in r.wrote THEN r.name ELSE db.tenant
        /\ db'.location = IF "location" \in r.wrote THEN db.location + 1 ELSE db.location
        /\ db'.role = IF "role" \in r.wrote
                      THEN [db.role EXCEPT ![r.owner] = @ + 1] ELSE db.role
    BY <1>1 DEF Written
  <1>5. \A u \in Owners : db'.role[u] = IF "role" \in r.wrote /\ u = r.owner
                                        THEN db.role[u] + 1 ELSE db.role[u]
    BY <1>1, <1>4, Typed
  <1> HIDE DEF q
  <1> QED  BY <1>2, <1>3, <1>4, <1>5

LEMMA SerialCommit ==
    ASSUME SerialInv, OnboardInv', NEW o \in Runs, Commit(o)
    PROVE  SerialInv'
  <1> DEFINE r == run[o]
  <1>0. OnboardInv
    BY DEF SerialInv
  <1>1. /\ r.pc = "end" /\ run'[o].pc = "committed" /\ InFlight(o) /\ ~InFlight(o)'
        /\ \A p \in Runs : p # o => run'[p] = run[p]
        /\ db'.tenant # NoName /\ r.owner \in Owners
        /\ db.location \in Nat /\ \A u \in Owners : db.role[u] \in Nat
    BY <1>0, CommitEffect, Typed
  <1>2. /\ db'.tenant = IF "tenant" \in r.wrote THEN r.name ELSE db.tenant
        /\ db'.location = IF "location" \in r.wrote THEN db.location + 1 ELSE db.location
        /\ \A u \in Owners : db'.role[u] = IF "role" \in r.wrote /\ u = r.owner
                                           THEN db.role[u] + 1 ELSE db.role[u]
        /\ run'[o].name = r.name /\ run'[o].wrote = r.wrote
        /\ run'[o].changed = r.changed /\ run'[o].alone = r.alone
    BY <1>0, CommitWrites
  <1>3. \A p \in Runs : InFlight(p)' => p # o /\ InFlight(p) /\ run'[p] = run[p] /\ ~run[p].alone
    <2>1. \A p \in Runs : p # o /\ InFlight(p) => ~run[p].alone
      BY <1>0, <1>1 DEF OnboardInv
    <2> QED  BY <1>1, <2>1 DEF InFlight
  <1>4. \A p \in Runs : InFlight(p)' => Tidy(db, run[p])'
    BY <1>3 DEF Tidy
  <1>5. \A p \in Runs : ~HoldsSlug(p)'
    <2>1. ASSUME NEW p \in Runs, HoldsSlug(p)'
          PROVE  FALSE
      <3>1. HoldsSlug(p) /\ p # o
        BY <1>3, <2>1 DEF HoldsSlug
      <3>2. "tenant" \notin r.wrote /\ db.tenant = NoName
        BY <1>1, <3>1 DEF SerialInv, HoldsSlug
      <3> QED  BY <1>1, <1>2, <3>2
    <2> QED  BY <2>1
  <1>6. r.alone => /\ r.changed = r.wrote /\ r.name = db'.tenant
                   /\ "location" \in r.wrote => db.location = 0
                   /\ "role" \in r.wrote => db.role[r.owner] = 0
    BY <1>1, <1>2 DEF SerialInv, Tidy
  <1>7. \A p \in Runs : run[p].pc = "committed" => p # o /\ db'.tenant = db.tenant
    <2>1. ASSUME NEW p \in Runs, run[p].pc = "committed"
          PROVE  db'.tenant = db.tenant
      <3>1. ~HoldsSlug(o)
        BY <2>1 DEF SerialInv
      <3> QED  BY <1>1, <1>2, <3>1 DEF HoldsSlug
    <2> QED  BY <1>1, <2>1
  <1>8. SerialRunsAreExact'
    <2>1. ASSUME NEW p \in Runs, run'[p].pc = "committed", run'[p].alone
          PROVE  run'[p].changed = run'[p].wrote /\ run'[p].name = db'.tenant
      <3>1. CASE p = o
        BY <1>2, <1>6, <2>1, <3>1
      <3>2. CASE p # o
        BY <1>1, <1>7, <2>1, <3>2 DEF SerialInv, SerialRunsAreExact
      <3> QED  BY <3>1, <3>2
    <2>2. ASSUME db'.location > 1 \/ \E u \in Owners : db'.role[u] > 1
          PROVE  \E p \in Runs : run'[p].pc = "committed" /\ ~run'[p].alone
      <3>1. CASE ~r.alone
        BY <1>1, <1>2, <3>1
      <3>2. CASE r.alone
        <4>1. db.location > 1 \/ \E u \in Owners : db.role[u] > 1
          BY <1>1, <1>2, <1>6, <2>2, <3>2
        <4>2. PICK p \in Runs : run[p].pc = "committed" /\ ~run[p].alone
          BY <4>1 DEF SerialInv, SerialRunsAreExact
        <4>3. p # o
          BY <1>1, <4>2
        <4> QED  BY <1>1, <4>2, <4>3
      <3> QED  BY <3>1, <3>2
    <2> QED  BY <2>1, <2>2 DEF SerialRunsAreExact
  <1>9. \A p \in Runs : run'[p].pc = "new" => run'[p].changed = {}
    BY <1>1 DEF SerialInv
  <1> QED  BY <1>1, <1>4, <1>5, <1>8, <1>9 DEF SerialInv

LEMMA SerialRollback ==
    ASSUME SerialInv, OnboardInv', NEW o \in Runs, Rollback(o)
    PROVE  SerialInv'
  <1>1. /\ db' = db /\ run'[o].pc = "aborted" /\ InFlight(o)
        /\ \A p \in Runs : p # o => run'[p] = run[p]
    <2> DEFINE q == [NoRun EXCEPT !.pc = "aborted"]
    <2>1. q.pc = "aborted"
      BY NoRunTyped DEF Run
    <2>2. run' = [run EXCEPT ![o] = q] /\ db' = db /\ InFlight(o)
      BY DEF Rollback
    <2>3. run \in [Runs -> Run]
      BY Typed DEF SerialInv
    <2> HIDE DEF q
    <2> QED  BY <2>1, <2>2, <2>3
  <1>2. \A p \in Runs : InFlight(p)' => p # o /\ InFlight(p) /\ run'[p] = run[p]
    BY <1>1 DEF InFlight
  <1>3. \A p \in Runs : InFlight(p)' => Tidy(db, run[p])'
    <2>1. ASSUME NEW p \in Runs, InFlight(p)'
          PROVE  Tidy(db', run'[p])
      BY <1>1, <1>2, <2>1 DEF SerialInv
    <2> QED  BY <2>1
  <1>4. \A p \in Runs : HoldsSlug(p)' => HoldsSlug(p)
    BY <1>2 DEF HoldsSlug
  <1>5. \A p \in Runs : /\ run'[p].pc \in {"new", "committed"} => run'[p] = run[p]
                        /\ run[p].pc = "committed" => run'[p] = run[p]
    BY <1>1 DEF InFlight
  <1>6. SerialRunsAreExact'
    BY <1>1, <1>5 DEF SerialInv, SerialRunsAreExact
  <1> QED  BY <1>1, <1>3, <1>4, <1>5, <1>6 DEF SerialInv

\* Others change the status of a member, or a module that is enabled.
LEMMA SerialOthers ==
    ASSUME SerialInv, OnboardInv', run' = Disturbed,
           db'.tenant = db.tenant, db'.location = db.location, db'.role = db.role,
           db.tenant = NoName => db'.module = db.module
    PROVE  SerialInv'
  <1>0. OnboardInv
    BY DEF SerialInv
  <1>1. ASSUME NEW p \in Runs
        PROVE  /\ run'[p].pc = run[p].pc /\ run'[p].wrote = run[p].wrote
               /\ run'[p].changed = run[p].changed
               /\ ~InFlight(p) => run'[p] = run[p]
               /\ InFlight(p) => Tidy(db', run'[p])
               /\ InFlight(p)' <=> InFlight(p)
    BY <1>0, DisturbedKeeps, DisturbedTidy DEF InFlight
  <1>2. \A p \in Runs : HoldsSlug(p)' => HoldsSlug(p)
    BY <1>1 DEF HoldsSlug
  <1>3. \A p \in Runs : /\ run[p].pc = "committed" => run'[p] = run[p]
                        /\ run'[p].pc = "committed" => run'[p] = run[p]
    BY <1>1 DEF InFlight
  <1>4. SerialRunsAreExact'
    BY <1>3 DEF SerialInv, SerialRunsAreExact
  <1>5. \A p \in Runs : InFlight(p)' => Tidy(db, run[p])'
    BY <1>1
  <1>6. \A p \in Runs : run'[p].pc = "new" => run'[p].changed = {}
    BY <1>1 DEF SerialInv
  <1> QED  BY <1>1, <1>2, <1>3, <1>4, <1>5, <1>6 DEF SerialInv

LEMMA SerialNext ==
    ASSUME SerialInv, [OnboardNext]_onboardVars
    PROVE  SerialInv'
  <1>0. OnboardInv /\ OnboardInv'
    BY OnboardInvNext DEF SerialInv
  <1>1. CASE UNCHANGED onboardVars
    BY <1>0, <1>1 DEF onboardVars, SerialInv, HoldsSlug, InFlight, SerialRunsAreExact
  <1>2. ASSUME NEW u \in Owners, NEW status \in Statuses, ManageMember(u, status)
        PROVE  SerialInv'
    <2>1. db' = [db EXCEPT !.membership[u] = status] /\ run' = Disturbed
      BY <1>2 DEF ManageMember
    <2>2. /\ db'.tenant = db.tenant /\ db'.location = db.location /\ db'.role = db.role
          /\ db'.module = db.module
      BY <1>0, <2>1, Typed DEF Database
    <2> QED  BY <1>0, <2>1, <2>2, SerialOthers
  <1>3. ASSUME DisableModule
        PROVE  SerialInv'
    <2>1. db.module = "on" /\ db' = [db EXCEPT !.module = "off"] /\ run' = Disturbed
      BY <1>3 DEF DisableModule
    <2>2. /\ db'.tenant = db.tenant /\ db'.location = db.location /\ db'.role = db.role
          /\ db.tenant # NoName
      BY <1>0, <2>1, Typed DEF Database, SerialInv
    <2> QED  BY <1>0, <2>1, <2>2, SerialOthers
  <1> QED  BY <1>0, <1>1, <1>2, <1>3, SerialBegin, SerialRead, SerialWrites,
              SerialCommit, SerialRollback DEF OnboardNext, Reading

(* Whatever runs overlap, fail or are rolled back: a run nobody disturbed    *)
(* reports exactly what it has changed, in the tenant it names, and a second *)
(* location of the name or a second owner role of a user takes a run that    *)
(* was disturbed.                                                            *)
THEOREM SerialRunsExact == OnboardSpec => []SerialRunsAreExact
  <1>1. SerialInv => SerialRunsAreExact
    BY DEF SerialInv
  <1> QED  BY <1>1, SerialInit, SerialNext, PTL DEF OnboardSpec
=============================================================================
