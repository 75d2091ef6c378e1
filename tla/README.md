# A TLA+ model of LINE Business OS

LINE Business OS is a multi-tenant business system (staff, shifts, inventory, recipes) on
Next.js and Supabase. Its rules live in two places: SQL functions, triggers, constraints and
row policies under `supabase/migrations`, and TypeScript that calls them one statement at a
time. The hard behaviour is the same in both: many sessions act on the same rows, a
transaction is a *sequence* of statements under READ COMMITTED, and a server action is a
*chain* of transactions that can stop anywhere.

These modules model the flows where that matters, check them with TLC on small instances,
and prove the main results with TLAPS for instances of any size.

## 1. The system

| Part | State | Operations | Who meets whom |
|---|---|---|---|
| Staff invitations (`functions/invite-employee`, 0063-0065, `auth/accept-invite`) | invitation rows, employee binding, membership, role, Auth account | invite, resend, recover, revoke, open link, set password, accept | an Edge Function that mails first and writes last; acceptances holding row locks; managers' revokes and profile edits |
| Shift requests (0044, 0050, `shift-exchanges.ts`) | request rows, shifts | file, volunteer, withdraw, reject, approve | two-lock approvals, managers who keep planning |
| Stock check (0035, 0045, 0046, 0055) | session, sheet lines, append-only counts, items | start, record a line, complete, count one item, edit or delete an item | staff counting one sheet together; late completions |
| Attendance and corrections (0027, 0028, 0031, `attendance.ts`, `shift-requests.ts`) | attendance rows, correction requests | report, ask, decide, apply, undo | server actions without a transaction around their statements |
| Recipes and translations (0039, 0057, 0058, 0060, `recipes.ts`, `lib/content`, `generate-recipe-translations.ts`) | recipe, its rows, their translations and hashes | save, archive, delete, machine and manual translation, display | a generator that reads, waits for a translation service, and writes; saves and deletions that read before they lock |
| Schedule planning (`shift-assignments.ts`, `schedule-actions.ts`, `manager-dashboard-client.tsx`, `shift-cell-editor.tsx`) | shift rows, pages in browsers | assign, reassign, unassign, publish, distribute | pages loaded earlier, runs between their read and their insert |
| Automatic distribution (`auto-distribute.ts`) | the loops of one run | an allocation over a period | - |
| Staff's view of the schedule (`staff-dashboard-client.tsx`) | weeks shown, a poll and a page load on their way | poll, load, change week | answers that arrive late |
| Employees and LINE links (0029, 0031, 0056, `employees.ts`, `employee-line-links.ts`) | employee rows, what refers to them, LINE bindings | hire, retire, delete for good, bind, unbind | a deletion that looks first and deletes later; two rebindings |
| AI proposals (`packages/ai`) | proposal status, audit entries | approve and apply, reject | two approvers, marks whose errors nobody looks at |
| Event bus (`packages/core/events.ts`, 0073) | append-only rows, a consumer's cursor | publish, poll | rows that commit out of the order of their ids |
| Onboarding (`onboard-*.ts`) | tenant, owner mirror, location, membership, role, module | read, plan, verify, write, commit | two operators on one slug; people who manage members |
| Rehearsal fixture (`mame-to-cha-*.ts`) | the demo cafe's rows | apply, clean up | people who use the tenant between two commands |
| Cloud gates (`mame-to-cha-cloud-d1` to `d7`) | the same rows on the shared project, the Auth accounts | seven gates, each repeatable | two operators, lost answers, people who take no lock |
| Public demo (`lib/demo/cafe`, `StaffView`, `ManagerView`) | `localStorage`, the cache of every tab | edit, publish, decide, report, reset | tabs that write the whole state they last saw |
| Inventory catalog, tenants and memberships | items, membership rows | plain row edits | modelled where they race one of the flows above |
| Notifications outbox, entitlements, settings, permissions, audit, booking, LINE webhook, API, worker, backup, encryption, pages | rows, files, browser state | single statements, contracts, rendering | not modelled, section 5 |

Interactions: the web app, the scripts and the Edge Function talk to PostgreSQL only; parts
meet in shared rows (an employee row is read by invitations, requests, attendance and the
permanent deletion; an item row by sheets and counts; a shift by the grid, the distribution
and the requests). Nothing calls back; every wait is a row lock, an advisory lock or an index
check. The tabs of the demo meet in one `localStorage` entry and its events.

What makes each modelled part correct, in one sentence:

- **Invitations**: an employee is bound to exactly the person its accepted invitation names,
  once, with access, whatever resends, revokes and acceptances overlap.
- **Shift requests**: a shift carries one undecided request; granting happens in one step,
  on a shift that is still the requester's; closed requests are history.
- **Stock check**: a sheet posts once, whole, in one step; what is shown never goes back to
  an older observation; a deleted item is gone everywhere.
- **Corrections**: the one action that won a decision applies or undoes it, once.
- **Recipes**: what is shown as a translation translates the text as it stands; a reviewed
  translation and the language are replaced only by someone who asked for it; a deletion
  sweeps what belongs to the recipe.
- **Schedule**: a published shift is changed only from a page that shows it as a draft; a
  second shift on a day has a named cause; a poll never brings an older schedule.
- **Distribution**: every wish is answered once, shortages are real, the cap holds.
- **Employees**: history is never lost to a deletion that could have seen it, and a
  rebinding leaves no moment with two LINE bindings or none.
- **Proposals**: applied once, never reported as applied before it is.
- **Events**: processed once, in order, none passed over but the ones that came late.
- **Onboarding**: what commits is complete, exact, and takes no suspension back.
- **Fixture and gates**: a command that answered with success can be relied on, can be
  repeated, and leaves alone what others did.
- **Demo**: a tab shows what is stored and changes only the part it means to.

## 2. The modules

Four parts have a specification, a `...Properties` module, an `MC...` module with values for
TLC, and a `..._proofs` module; three of them also have an abstract specification that says
what the part promises without its statements and locks, and the detailed module is shown to
implement it under a refinement mapping. The other parts state their properties at the end
of the specification or in a `...Properties` module, and one module, `MCBackOffice`, composes
them for TLC (section 3). Its parts have their proofs in the modules the table names, and the
composition has its own in `Office_proofs`.

| Specification | Abstract | Code it follows | Proofs |
|---|---|---|---|
| `StaffInvitations` | `StaffAccess` | `functions/invite-employee/index.ts`, 0063, 0064, 0065, `accept-invite/route.ts` | `StaffInvitations_proofs` |
| `ShiftExchange` | `ShiftHandover` | 0044, 0050, 0062, `shift-exchanges.ts` | `ShiftExchange_proofs` |
| `InventoryCheck` | `StockLedger` | 0035, 0036, 0038, 0045, 0046, 0055, `items.ts` | `InventoryCheck_proofs` |
| `Attendance` | - | `attendance.ts`, `shift-requests.ts`, 0009, 0028, 0031 | `Workforce_proofs` |
| `RecipeTranslations` | - | `recipes.ts`, `translations.ts`, `translation-orchestrator.ts`, `generate-recipe-translations.ts`, `recipe-display.ts`, 0039, 0041, 0057, 0058, 0060 | `RecipeTranslations_proofs` |
| `ScheduleBoard` | - | `shift-assignments.ts`, `schedule-actions.ts`, the grid and its cell editor | `Workforce_proofs` |
| `StaffScheduleView` | - | `staff-dashboard-client.tsx` | `Workforce_proofs` |
| `AutoDistribute` | its reference is `DistributionIsExact` | `auto-distribute.ts` | `Workforce_proofs` |
| `TenantOnboarding` | - | `onboard-tenant.ts`, `onboard-write.ts`, `onboard-commit.ts`, `onboard-db.ts` | `TenantOnboarding_proofs` |
| `FixtureRehearsal` | - | `mame-to-cha-plan.ts`, `-write.ts`, `-state.ts`, `-dates.ts`, `-cleanup.ts`, `-fixture.ts` | `Office_proofs` |
| `CloudGates` | - | `mame-to-cha-cloud-d1.ts` to `-d7.ts`, `mame-to-cha-cloud-gates.ts`, the command lines | `CloudGates_proofs` |
| `AiProposals` | - | `packages/ai/src/proposals.ts` | `Office_proofs` |
| `EventLog` | - | `packages/core/src/events.ts`, 0073 | `Office_proofs` |
| `EmployeeRecords` | - | `employees.ts`, `employee-line-links.ts`, 0029, 0031, 0044, 0056, 0062 | `Office_proofs` |
| `DemoStore` | - | `lib/demo/cafe/store.ts`, `data.ts`, the two views | `Office_proofs` |

How code becomes actions:

- **A statement is an action.** Inside a plpgsql function each statement reads its own
  snapshot, so `upsert_employee_invitation` is `UpsertCheck` (is the employee bound?),
  `UpsertScan` (`select ... for update` takes its snapshot) and then `UpsertRefresh`,
  `UpsertInsert` or `UpsertConflict` once the lock is granted and the row has been read
  again. An INSERT whose policy reads other rows is two steps, the policy's snapshot
  (`FileCheck`) and the entry into the unique index (`FileInsert`), because another session
  may commit between them. Statements that no other session can tell apart are one action:
  the null check and the copy of `complete_inventory_check_session` (a recorded line never
  becomes blank again).
- **Writes of a transaction appear at its commit**, and a failed transaction leaves nothing:
  `AcceptCommit` writes membership, role, binding and status together, `AcceptRollback`
  releases the lock only.
- **A row lock is a transaction record.** `accept[i]`, `tx[r]`, `call[c]`, `desk[d]`,
  `run[o]` and `gate[o]` say which transaction holds what; a statement that needs a row is
  enabled when the holder is idle. Foreign keys take share locks: inserting a line of a
  sheet waits for a completion of it, updating a line does not; a history row that refers to
  an employee makes the deletion of the employee wait.
- **TypeScript chains are not transactions.** `decideCorrectionRequest` is `Decide`,
  `ApplyFind`, `ApplyWrite` or `ApplyFails`, `Undo`; `CallDies` may end it anywhere, and
  `ApplyWrite` may take effect and still be answered with a failure.
- **A page is a copy.** `page[t]`, `seen[r]`, `shown[w]` and `cached[b]` hold what was read;
  actions decide from the copy and write to the rows.
- **Data is what the properties tell apart.** An address is the account it resolves to; a
  shift type is its time span; a counted quantity is the moment it was observed; hours are a
  flag; a hash is the text that was hashed; a location name is exact, alike or another one.

State and code:

- `StaffInvitations`: `inv` is `workforce.employee_invitations` (a request carries the fresh
  uuid its row and its link use, so one constant names all three), `emp` is
  `workforce.employees`, `account` the Auth account and what its owner can do, `req` the
  Edge Function call with the invitation it saw, `accept` the acceptance that holds a row.
  `Expire` is the derived expiry, never stored.
- `ShiftExchange`: `shift`, `ex`, `active`, `offered` are tables; a row of `ex` with status
  `"filing"` is an INSERT that has passed its policy and is not in the table yet, and in
  `ShiftHandover` an intent; `tx[r]` walks through `AcceptLock`, `AcceptCheck`,
  `AcceptCommit`, or `ApproveLock`, `ApproveLockShift`, `ApproveCheck`, `ApproveCommit`; the
  managers' planning and the clock run between.
- `InventoryCheck`: `session`, `line`, `counts`, `item` are tables; `call[c]` is one of the
  three RPCs (`start`, `record`, `complete`) between its lock or snapshot and its commit.
- `Attendance`: `row` and `corr` are tables; `call[c]` is a server action between two
  statements; `applied` is a history variable.
- `RecipeTranslations`: `recipe`, `fields` and `text` are the recipe with its rows in both
  languages, `trans[e][l]` the `content.translations` row with the text it was made of
  (`of`), the hash stored with it and its status; `job[j]` is a save, an archive, a deletion
  or a translation between two statements.
- `ScheduleBoard`: `schedule` is `workforce.shifts` for one day, `page[t]` the grid as tab
  `t` loaded it, `seen[r]` the schedule a run of `runAutoDistribution` has read.
- `StaffScheduleView`: `shown[w]` is the version of a week on the page, `screen` the week it
  displays and the offset it asks for; a poll and a page load are asked, answered and arrive
  in separate steps, weeks begin (`Monday`), and a page is put aside and looked at again.
- `AutoDistribute`: `at` is the place of the nested loops, `waiting` the candidates of the
  slot in the order of the code's sort; one step looks at one candidate.
- `TenantOnboarding`: `db` holds the committed rows; `run[o]` goes through the selects of the
  loader one by one (`ReadTenant` to `ReadModule`, each refused where the plan is), then one
  write per entity (`tenant` to `module`), with the second look at the owner's address
  (`ReadAddress`) before the mirror is written, and the commit. A statement waits for another
  run only where it has a row to write.
- `FixtureRehearsal`: one action per command (each is one transaction), people's
  changes in between; `last` remembers what the last commands were.
- `CloudGates`: `cafe[e]` is a row as the gates tell it apart; `gate[o]` has read, planned,
  written, and commits or loses its answer; `Others` write without the lock. The content of D6 is one entity: its seven kinds are written by consecutive statements of
  one transaction that holds the tenant's lock, so all of it commits or none, and no property
  tells the kinds apart.
- `AiProposals`: `review[r]` is an approval between its five transactions; `excuse` records
  the two situations in which the code may apply a change twice.
- `EventLog`: an id is drawn at the insert and visible at the commit; `cursor` is the
  consumer's. The consumer is the one the comment of `listEventsSince` describes.
- `EmployeeRecords`: `person`, `traces` (rows of the four tables the deletion asks about)
  and `binding` are tables; `desk[d]` is a transaction that writes a trace, moves a shift to
  someone else or to nobody (`MoveShiftOf`), deletes a person or rebinds a LINE id.
- `DemoStore`: `storage` is the `localStorage` entry, `cached[b]` the module cache of a tab,
  `due` the `storage` events on their way; `view[b]` is the page and its clock-out dialog.
  A correction request may also carry a message into the report of the day; the actual
  times and the break it carries there are data like every time of day.

## 3. The runs

| Run | Configuration | Bounds | Question | Answer |
|---|---|---|---|---|
| `invitations` | `MCStaffInvitations.cfg` | 2 employees, 2 users, 1 location, 2 calls, 1 edit | all safety properties, `StaffAccess` | hold, 1.1 M states |
| `liveness` | `MCLiveness.cfg` | 1 employee, 2 users, 2 calls; 3 weeks on the page, 1 Monday, 2 changes | is every invite answered, does a watched schedule catch up? | hold, 119 k states |
| `recovery_link` | `MCRecoveryLink.cfg` | 1 employee, 2 users, 2 calls | does a recovery link work while an invitation is open? | **violated** |
| `reinvite` | `MCReinvite.cfg` | as above | is a bound employee never invited again? | **violated** |
| `exchange` | `MCShiftExchange.cfg` | 3 staff, 2 shifts, 2 requests, 2 overlapping shift types, 1 edit, 1 tick | all safety properties, `ShiftHandover` | hold, 667 k states |
| `double_booking` | `MCDoubleBooking.cfg` | as above, no edit | is overlap rechecked at approval? | **violated** |
| `stock_check` | `MCInventoryCheck.cfg` | 2 items, 2 slots, 2 staff, 3 observations, 2 catalog edits | all safety properties, `StockLedger` | hold, 141 k states |
| `frozen_sheet` | `MCFrozenSheet.cfg` | 1 item, 1 slot, 2 staff | is a completed sheet immutable? | **violated** |
| `approved_unapplied` | `MCApprovedUnapplied.cfg` | 1 day, 1 correction, 2 actions | does an approved correction have its hours? | **violated** |
| `day_rows` | `MCDayRows.cfg` | 1 day, 2 rows, 2 actions | does a day have one attendance row? | **violated** |
| `reader_language` | `MCReaderLanguage.cfg` | title and 1 line, 2 texts, 2 operations | is what is marked as a translation in the reader's language? | **violated** |
| `back_office` | `MCBackOffice.cfg` | see below | the properties of the twelve other parts | hold, 1.1 M states |

*The run `back_office`.* Twelve parts share no row with each other, so a state of them
together is a tuple of independent states and their product shows nothing more than the
parts. `MCBackOffice` therefore lets the first state of a behaviour pick a `part`; that part
takes all steps, the others rest in an initial state. Every part has its own specification
(`RecipeSpec`, `OnboardSpec`, ...), and a behaviour of it is exactly a behaviour of
`OfficeSpec` with that `part`. Nothing is symmetric here; every value counts.

| `part` | Bounds | States | Properties |
|---|---|---|---|
| `attendance` | 1 day, 2 rows, 2 corrections, 2 actions | 41 k | `DecisionIsExclusive`, `AppliedOncePerApproval`, `RejectedStays` |
| `recipes` | title and 1 line, 2 texts, 2 operations at a time | 76 k | `ShownIsCurrent`, `NothingElseLeftBehind`, `LanguageChangeIsConfirmed`, `ReviewedIsReplacedOnRequest` |
| `onboarding` | 2 names, 2 owners whose mirrors are alike at first, 2 runs | 354 k | `CommittedIsComplete`, `SuspensionStands`, `SerialRunsAreExact` |
| `distribution` | 2 employees, 2 days, 1 window and custom shifts, needs up to 1, cap of 3 hours, every input | 351 k | `DistributionIsExact` |
| `board` | 2 shifts, 2 workers, 1 tab, 1 run | 29 k | `DoublesExplained`, `PublishedStays` |
| `view` | 3 weeks on the page, 1 Monday, 2 changes | 17 k | `PollNeverGoesBack` |
| `proposals` | 3 approvals, at most 3 applications | 3.7 k | `ProposalAppliedOnce` |
| `events` | 5 ids, pages of 2 | 1.4 k | `EventsInOrder` |
| `fixture` | the whole fixture, 2 accounts, 2 days | 4.3 k | `FixtureRoundTrip` |
| `gates` | 2 operators, 1 account, 1 write by others | 107 k | `GatesStand` |
| `demo` | 2 tabs, 1 shift type, 2 days, 2 changes | 58 k | `StoreCoherent`, `WritesKeepTheRest` |
| `employees` | 1 employee, 2 LINE ids, 2 sessions, 2 history rows | 41 k | `RecordsAreKept` |

`PartTypes` is the type invariant of the part at work. That the composition is a behaviour of every
part is proved (`OfficeImplementsItsParts`), so a theorem about `RecipeSpec` is one about
`OfficeSpec` too. Type correctness of invitations, requests
and the stock check is a theorem (section 4), so their runs do not repeat it.

*Why the bounds are enough.* Every property is about one row and the sessions that meet on
it, or about two rows of one owner. Two calls give every pair of operations on one row, and
two rows with two owners give every crossing (one person invited twice, one volunteer on two
shifts, one item on two sheets, one manager on two corrections, one worker with two shifts,
one employee with two LINE ids). The third employee of `exchange` is the colleague who is
neither requester nor volunteer. Three observations order a sheet's count before and after a
single count; two changes of a schedule and one Monday order a page before and after a poll, in the same
week and in the next; five ids with
pages of two give a page that is full, one that is not, and an id that commits behind the
cursor. Two days and two slots (a window, the custom shifts) are what the distribution needs for "busy today", "over
the cap since yesterday" and a type outside of every window. Two owners and two names
let onboarding runs agree on a slug and disagree on everything else. The accounts of the
gates share no row with each other, one of them stands for all. Two changes of the demo are
"one tab writes, another overwrites"; the dialog that is opened a second time after a
clock-out (it has to be closed once, because it keeps its "confirming" mark) needs a third
one and is modelled, but not reached. The theorems of section 4 remove the bounds for every
safety property of these runs. The named bounds are `Requests`, `Rows`, `Calls`, `Jobs`, `Runs`,
`Reviews`, `MaxFields` (how many ever exist), `EditLimit`, `Horizon`, `MaxStamp`,
`MaxVersion`, `MaxOffset`, `LastMonday`, `MaxApplied`, `MaxEvents`, `MaxEdits`, `MaxDate`, `MaxWrites`, `MaxTraces`,
`MaxPeriodHours`, `MaxNeed` and `MaxKept`; they stand in guards, not in state constraints. Symmetry is
used in safety runs only, over interchangeable rows and people.

*Why deadlock is not reported.* A bounded instance comes to rest: all calls are used up,
everything is decided. In `Attendance` a day with two rows refuses every later report, so it
rests for good, as the code does. Where transactions can wait for each other, a property
says what must hold (`ApprovalNeverWaits`), or PostgreSQL's victim is an action (`GiveUp`:
a binding holds the employee's old binding and needs the employee, a deletion the other way
round).

*Fairness.* Only the run `liveness` needs it (`PatientSpec`, the invitations and the polled
view side by side, as in `back_office`). For `UpsertAnswers`: weak fairness on the steps of a
started transaction, since PostgreSQL runs a started statement and commits or rolls back, and
a lost connection rolls back; strong fairness on the statements that wait for a row lock,
since the lock queue is ordered and a waiter that could be granted the lock again and again
is granted it in the end. Nothing is assumed of people: nobody must open a link, accept, or
revoke, and an Edge Function may fail at any moment. For `ViewCatchesUp` (`ViewFairness`): the
timer of a page that is looked at fires, and not every poll fails; nobody has to look at the
page, reload it or publish. The property is about a page that is looked at from some time on
and displays the week its polls ask for: the code's offset is relative to the server's week, so
over midnight of a Monday a page that is not reloaded stands still (`Watched`).

*Properties with an "unless".* Some parts are not safe against every interleaving, and the
code does not say they are. Their properties name the interleavings that are excused, as a
history variable or a condition, and so say that there is no other cause: `ShownIsCurrent`
(a save overtook the translation), `LanguageChangeIsConfirmed`, `ReviewedIsReplacedOnRequest`,
`SerialRunsAreExact` (two runs at once), `DoublesExplained`, `ProposalAppliedOnce` (two
approvals, a lost mark), `EventsInOrder` (an id that commits late is passed over),
`GatesStand`, `StoreCoherent`, and `RecordsAreKept`: "any history hit blocks the whole
delete", but the first shift, report or request of an employee that is committed between the
check and the row lock is cascaded. Only an exchange still refuses, by its foreign key. No
page calls that deletion yet. A related fact of the schema, which is reachable there: a LINE
id that was unbound can never be bound again, because its unique key covers inactive rows.

*What the violated runs show* (quotes and lines are in `PROJECT.json`, "findings"):

- `recovery_link`: the mail carries a new id while the open row keeps its old one; the
  callback finds no such invitation and signs the person out.
- `reinvite`: the bound check reads the employee row unlocked; the acceptance commits, the
  locking `select` then finds no pending row, and a new invitation is inserted for the bound
  employee. It can never be accepted (`BindingIsAcceptance` still holds).
- `double_booking`: two approvals read each other's shift before either commits.
- `frozen_sheet`: `record_inventory_session_item` reads the session's status unlocked, so a
  count that was under way lands on the completed sheet. A second start of the slot adds
  lines to it as well.
- `approved_unapplied`: what is thrown after the decision is caught outside of the undo.
- `day_rows`: find, then insert, without a unique key on the day; `maybeSingle` then fails
  every report and correction of that day.
- `reader_language`: the generator passes no direction, so an English recipe is sent to the
  translation service as Japanese and its result is stored for the readers of Japanese.

## 4. The proofs

Every invariant and every action property that a passing run checks, and the three
refinements, are theorems about the specification of the component (`Spec`, `RecipeSpec`,
`OnboardSpec`, `DistributeSpec`, `BoardSpec`, `ViewSpec`, `ProposalSpec`, `EventSpec`,
`FixtureSpec`, `GateSpec`, `DemoSpec`, `EmployeeSpec`) or of the composition (`OfficeSpec`),
with arbitrary constants. They rest on the named assumptions of the modules: absent values
(`NoUser`, `NoShift`, `NoStore`, ...) are not members of the sets they extend, bounds are
natural numbers and a page holds at least one event, a shift type is a span with start before
end or has a slot and a length in hours, the approvals of a proposal are finitely many, the
roster of the fixture is a list of accounts with the staff account among them. TLC evaluates
every assumption in a run.

| Module | Theorems | Inductive invariant |
|---|---|---|
| `StaffInvitations_proofs` | types, the five safety invariants, `FinalStatesStick`, refinement of `StaffAccess` | `Types /\ Safe`: besides the properties, a call under way knows its employee and target and has written no row yet, a stored row names an employee and a user, and an acceptance past its reads carries a location |
| `ShiftExchange_proofs` | types, one undecided request per shift, held shifts, no waiting between decisions, closed requests stick, refinement of `ShiftHandover` | what a transaction may assume of the request row it holds (`Holds`), and the shape of undecided rows and of those on their way |
| `InventoryCheck_proofs` | types, deletion, whole sheet, shown count, refinement of `StockLedger` | what a transaction has locked and seen of its sheet, one completion per session, and that every count in the history carries the moment of its observation |
| `Workforce_proofs`, attendance | types, exclusive decision, written once, rejections stand | an action at work names a correction that is approved by it and, before the write, unwritten |
| `Workforce_proofs`, schedule | `DoublesExplained`, `PublishedStays`, `PollNeverGoesBack` | `DoublesExplained` is inductive once the rows are typed (the excuse is taken in the step that may double); `ViewInv`: an answer on its way is not older than the weeks on the screen, and nothing is newer than the schedule |
| `Workforce_proofs`, distribution | types, `DistributionIsExact` | `DistributeInv`: the wishes of the slots behind and the candidates already looked at are answered, once (`AnswersInv`); `filled` counts the heads of the slot and the shortages are those of the slots behind (`SlotsInv`); an employee's hours are the sum of what was kept and drafted (`HoursInv`) |
| `RecipeTranslations_proofs` | types, `ShownIsCurrent`, `NothingElseLeftBehind`, `LanguageChangeIsConfirmed`, `ReviewedIsReplacedOnRequest` | `RecipeInv`: what a job has read is still so unless the history says another one overtook it (`Knows`), a stored translation is faithful to its text (`Faithful`), a deletion under way has doomed what it met (`Swept`); `RequestInv` adds what a save or a writer was asked to do when it is about to do it (`Justified`) |
| `TenantOnboarding_proofs` | types, `CommittedIsComplete`, `SuspensionStands`, `SerialRunsAreExact` | `OnboardInv`: for each statement of a run, which entities are there and which of them it wrote and holds under their unique keys; `SerialInv` adds that a run nobody disturbed still sees what it read, reports what it wrote, and that one run at a time holds the slug |
| `CloudGates_proofs` | types, `GatesStand` | `GateInv`: a row that nobody edited by hand is as the statements the gate has passed left it, plans are about absent or open rows the gate has looked at, gates that take the lock run one at a time |
| `Office_proofs`, other parts | types, `ProposalAppliedOnce`, `RecordsAreKept`, `StoreCoherent`, `WritesKeepTheRest`, `FixtureRoundTrip`, `EventsInOrder` | `ReviewInv` counts the approvals that have applied and not yet audited; `RecordsInv` says whom a deletion, an insert and a rebinding exclude; `StoreInv` says that a view shows what its tab has loaded; `FixtureInv` that acceptance rows need the employee; `EventInv` that the cursor stands on a committed id and what is delivered lies at or below it |
| `Office_proofs`, composition | `OfficeImplementsItsParts`, `PartTypes` | none: the first state of every part is one of its `Init`, a step of one part leaves the others as they are |

The properties alone are not inductive: a commit acts on what an earlier statement of its
transaction saw, so each invariant says, for every point of a transaction, which of that is
still true because the row is locked or because nothing undoes it. The proofs have a lemma
per action or group of actions, a lemma that collects them into "every step keeps the
invariant", and the theorems by temporal reasoning. A refinement is proved from the invariant
by mapping each step to a step of the abstract specification or to a stutter; the mapping
picks *the* open row of an employee or shift, which is well defined by the uniqueness
invariant, and lemmas say how one row's change moves it.

Two proofs need what a recursive definition computes: the hours of the distribution are sums
over days, and the statements of a gate are the joined lists of its accounts. The provers
cannot use an induction theorem, which takes the property as a parameter. They can use that
`<` on the natural numbers is well founded, so both modules first prove that a set of
natural numbers that is not empty has a least element (`LeastNatural`, `FirstNatural`) and
then show that there is no least length at which the sum, or the joined list, is wrong. The
lemma is stated in each of the two modules, which share nothing else, and the model writes
both as functions over an interval (`SumOver`, `FlattenSeq`) and not as recursive operators.

Only model-checked, not proved: `UpsertAnswers` and `ViewCatchesUp`, which are liveness under
fairness and outside the prover; and the seven violated claims, which are counterexamples.

## 5. Not modelled, and what comes next

Left out, and why:

- **Pages, components, texts, themes, help, translations of the interface.** About half of
  the TypeScript renders or words something. Where a page keeps state that decides a write,
  that state is modelled (the grid, its cell editor, the polled staff view, the demo's
  views, the clock-out dialog); the rest has no state a property could be about. For this
  reason the modelled lines stay well below a third of the implementation.
- **Checklists and command-line routing**: `onboard-preflight*.ts`, `onboard-backup-gate.ts`,
  `mame-to-cha-rehearsal.ts`, the environment guards. They are pure functions of a form or of
  arguments, each with its unit tests, and change nothing.
- **`mame-to-cha-auth.ts`** provisions two local accounts before the fixture exists; gate D3,
  which does the same on the shared project, is modelled.
- **Notifications outbox** (0072, `notifications.ts`): rows can be enqueued and marked, but
  nothing calls either yet (the reminder job says so in a comment), and there is no
  dispatcher whose steps a model could follow.
- **Entitlements, module registry, settings**: single reads and writes. 0069 offers a
  check of a plan's limit against a count the caller passes in; nothing calls it yet, so there
  is no write it could be too late for.
- **Permissions**: an action's actor holds the permission its policy asks for. **Audit**:
  inserts nobody reads back, but where a flow reports what it did (onboarding, gates,
  proposals) the report is part of the model.
- **Booking, LINE webhook, API, worker**: contracts and skeletons. **`backup.ts`**: dumps and
  encrypts. **Encryption, configuration**: conversions of values.
- **Within modelled parts**: shift preferences (one insert under a unique index), an item's
  name, unit and thresholds, recipe categories and pictures, more than one recipe, profile
  fields, other tenants (every key of the modelled tables starts with the tenant).
  `attendance-actions.ts` passes only a message with a correction at present; the hours come
  from `details`, which `decideCorrectionRequest` reads and its tests supply.

Next, in this order:

1. An abstract `PublishedText` for recipes (a reader sees the text, a marked translation of
   it, or nothing) with `RecipeTranslations` refining it under the excuse it names.
2. The hypothesis under which each violated claim would hold (with the row locked, with the
   key added), as a theorem about the variant.
3. The employee row as one composition: `EmployeeRecords` with the binding of
   `StaffInvitations` and the roster of `ShiftExchange`.
4. Liveness of the stock check under the fairness its locks justify.
