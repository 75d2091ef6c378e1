------------------------------- MODULE DemoStore -------------------------------
(***************************************************************************)
(* The shared state of the public demo.  Every browser tab keeps a copy of *)
(* it in its module cache, writes the whole copy to localStorage, and      *)
(* reads it again only when a storage event of another tab arrives while a *)
(* view of the demo is shown.  Followed here: one shift of a future day,   *)
(* the correction the seed comes with, and today's report of the staff     *)
(* member.                                                                 *)
(***************************************************************************)
EXTENDS Naturals, FiniteSets

CONSTANTS
    Browsers,       \* tabs of one browser
    Marks,          \* shift types a manager may choose
    AutoMark,       \* what the automatic schedule chooses for the shift
    NoMark,         \* not planned
    NoStore,
    MaxDate,        \* bound: how often midnight passes
    MaxWrites       \* bound: changes by the people at the demo, and midnights

ASSUME DemoAssumption ==
    /\ MaxDate \in Nat \ {0} /\ MaxWrites \in Nat
    /\ AutoMark \in Marks /\ NoMark \notin Marks

Dates == 1..MaxDate
ClockStates == {"idle", "clocked_in", "clocked_out"}
Report == [clock: ClockStates, message: BOOLEAN]
Stored == [seed: Dates, draft: Marks \cup {NoMark}, published: Marks \cup {NoMark},
           correction: {"pending", "approved", "rejected"}, reports: [Dates -> Report]]

ASSUME StoreAssumption == NoStore \notin Stored

VARIABLES
    storage,    \* the localStorage entry of the demo
    cached,     \* cached[b]: module cache of a tab
    view,       \* view[b]: what the tab shows, since which day; the clock-out dialog
    due,        \* tabs with a storage event on its way
    deaf,       \* history: tabs an event passed while nobody listened
    unsaved,    \* history: tabs whose last write did not fit
    date,       \* today
    writes      \* bound: changes made so far

demoVars == <<storage, cached, view, due, deaf, unsaved, date, writes>>

Dialog == {"closed", "open", "spent", "stuck"}
Hub == [page |-> "hub", today |-> 0, dialog |-> "closed"]

DemoTypes ==
    /\ storage \in Stored \cup {NoStore} /\ cached \in [Browsers -> Stored \cup {NoStore}]
    /\ \A b \in Browsers : view[b].page \in {"hub", "staff", "manager"} /\ view[b].today \in 0..MaxDate
                         /\ view[b].dialog \in Dialog
    /\ due \subseteq Browsers /\ deaf \subseteq Browsers /\ unsaved \subseteq Browsers
    /\ date \in Dates /\ writes \in 0..MaxWrites

DemoInit ==
    /\ storage = NoStore
    /\ cached = [b \in Browsers |-> NoStore]
    /\ view = [b \in Browsers |-> Hub]
    /\ due = {} /\ deaf = {} /\ unsaved = {}
    /\ date = 1 /\ writes = 0

-----------------------------------------------------------------------------
SeedReport == [clock |-> "idle", message |-> FALSE]

\* Future days are not planned, one correction waits, today's report does not exist yet.
SeedMark == NoMark
SeedCorrection == "pending"
SeedState(d) ==
    [seed |-> d, draft |-> SeedMark, published |-> SeedMark, correction |-> SeedCorrection,
     reports |-> [x \in Dates |-> SeedReport]]

\* Every other open tab is told of a changed entry; a write that does not fit is ignored.
WriteToStorage(b, state, waiting) ==
    \/ /\ storage' = state
       /\ due' = IF state = storage THEN waiting
                 ELSE waiting \cup {x \in Browsers \ {b} : cached[x] # NoStore}
       /\ deaf' = deaf \ {b} /\ unsaved' = unsaved \ {b}
    \/ /\ storage' = storage /\ due' = waiting
       /\ deaf' = deaf /\ unsaved' = unsaved \cup {b}

Persist(b, state) ==
    /\ cached' = [cached EXCEPT ![b] = state]
    /\ WriteToStorage(b, state, due)

StoredToday == storage # NoStore /\ storage.seed = date

ReadFromStorage(b, waiting) ==
    /\ cached' = [cached EXCEPT ![b] = storage]
    /\ due' = waiting /\ deaf' = deaf \ {b} /\ unsaved' = unsaved \ {b}
    /\ UNCHANGED storage

\* mutant: the new seed stays in the tab
SeedsCacheOnly(b, waiting) ==
    \/ StoredToday /\ ReadFromStorage(b, waiting)
    \/ /\ ~StoredToday
       /\ cached' = [cached EXCEPT ![b] = SeedState(date)]
       /\ due' = waiting
       /\ UNCHANGED <<storage, deaf, unsaved>>

LoadFromStorageOrSeed(b, waiting) ==
    \/ StoredToday /\ ReadFromStorage(b, waiting)
    \/ /\ ~StoredToday
       /\ cached' = [cached EXCEPT ![b] = SeedState(date)]
       /\ WriteToStorage(b, SeedState(date), waiting)

-----------------------------------------------------------------------------
(* Tabs: a view loads the state once and listens while it is shown. *)

OpenView(b, page) ==
    /\ view[b].page = "hub"
    /\ view' = [view EXCEPT ![b] = [Hub EXCEPT !.page = page, !.today = date]]
    /\ \/ cached[b] # NoStore /\ UNCHANGED <<storage, cached, due, deaf, unsaved>>
       \/ cached[b] = NoStore /\ LoadFromStorageOrSeed(b, due)
    /\ UNCHANGED <<date, writes>>

LeaveView(b) ==
    /\ view[b].page # "hub"
    /\ view' = [view EXCEPT ![b] = Hub]
    /\ UNCHANGED <<storage, cached, due, deaf, unsaved, date, writes>>

\* A reload or a new tab starts with an empty cache.
Reload(b) ==
    /\ cached[b] # NoStore
    /\ cached' = [cached EXCEPT ![b] = NoStore]
    /\ view' = [view EXCEPT ![b] = Hub]
    /\ due' = due \ {b} /\ deaf' = deaf \ {b} /\ unsaved' = unsaved \ {b}
    /\ UNCHANGED <<storage, date, writes>>

\* mutant: the views are told, the cache is not refreshed
TellsViewsOnly(b) ==
    /\ b \in due /\ view[b].page # "hub"
    /\ due' = due \ {b}
    /\ UNCHANGED <<storage, cached, view, deaf, unsaved, date, writes>>

HandleStorage(b) ==
    /\ b \in due /\ view[b].page # "hub"
    /\ LoadFromStorageOrSeed(b, due \ {b})
    /\ UNCHANGED <<view, date, writes>>

NobodyListens(b) ==
    /\ b \in due /\ view[b].page = "hub"
    /\ due' = due \ {b} /\ deaf' = deaf \cup {b}
    /\ UNCHANGED <<storage, cached, view, unsaved, date, writes>>

Midnight ==
    /\ date < MaxDate /\ writes < MaxWrites
    /\ date' = date + 1 /\ writes' = writes + 1
    /\ UNCHANGED <<storage, cached, view, due, deaf, unsaved>>

-----------------------------------------------------------------------------
(* What people do: from what the tab shows, the whole state is written. *)

Shows(b, page) == view[b].page = page /\ writes < MaxWrites

WithState(b, state) ==
    /\ Persist(b, state)
    /\ writes' = writes + 1
    /\ UNCHANGED date

UpdateDraftAssignment(b, m) ==
    /\ Shows(b, "manager")
    /\ WithState(b, [cached[b] EXCEPT !.draft = m])
    /\ UNCHANGED view

\* Every future day of the draft is chosen anew, planned or not.
AutoScheduled(state) == [state EXCEPT !.draft = AutoMark]

AutoScheduleDraft(b) ==
    /\ Shows(b, "manager")
    /\ WithState(b, AutoScheduled(cached[b]))
    /\ UNCHANGED view

HasUnpublishedChanges(b) == cached[b].draft # cached[b].published

PublishDraft(b) ==
    /\ Shows(b, "manager") /\ HasUnpublishedChanges(b)
    /\ WithState(b, [cached[b] EXCEPT !.published = cached[b].draft])
    /\ UNCHANGED view

NeedsManagerAttention(b) == cached[b].correction = "pending"

ResolveCorrectionRequest(b, status) ==
    /\ Shows(b, "manager") /\ NeedsManagerAttention(b)
    /\ WithState(b, [cached[b] EXCEPT !.correction = status])
    /\ UNCHANGED view

\* For the day of the seed's request, or for today, the day the form opens on: a message that
\* is given becomes that of the report, and the request itself is not followed.
SubmitCorrectionRequest(b) ==
    /\ Shows(b, "staff")
    /\ \/ WithState(b, [cached[b] EXCEPT !.correction = "pending"])
       \/ WithState(b, [cached[b] EXCEPT !.reports[view[b].today].message = TRUE])
       \/ WithState(b, cached[b])
    /\ UNCHANGED view

TodayReport(b) == cached[b].reports[view[b].today]
IsWorking(b) == TodayReport(b).clock = "clocked_in"
ClockedOut(b) == TodayReport(b).clock = "clocked_out"

SaveTodayMessage(b, filled) ==
    /\ Shows(b, "staff")
    /\ WithState(b, [cached[b] EXCEPT !.reports[view[b].today].message = filled])
    /\ UNCHANGED view

ClockIn(b) ==
    /\ Shows(b, "staff") /\ ~IsWorking(b) /\ ~ClockedOut(b)
    /\ WithState(b, [cached[b] EXCEPT !.reports[view[b].today].clock = "clocked_in"])
    /\ UNCHANGED view

RequestClockOut(b) ==
    /\ Shows(b, "staff") /\ IsWorking(b) /\ view[b].dialog \in {"closed", "spent"}
    /\ view' = [view EXCEPT ![b].dialog = IF @ = "spent" THEN "stuck" ELSE "open"]
    /\ UNCHANGED <<storage, cached, due, deaf, unsaved, date, writes>>

CancelClockOut(b) ==
    /\ view[b].dialog \in {"open", "stuck"}
    /\ view' = [view EXCEPT ![b].dialog = "closed"]
    /\ UNCHANGED <<storage, cached, due, deaf, unsaved, date, writes>>

\* The dialog keeps its "confirming" mark: opened again, it has to be closed once.
ConfirmClockOut(b) ==
    /\ Shows(b, "staff") /\ view[b].dialog = "open"
    /\ WithState(b, [cached[b] EXCEPT !.reports[view[b].today].clock = "clocked_out"])
    /\ view' = [view EXCEPT ![b].dialog = "spent"]

ResetDemoStore(b) ==
    /\ \E page \in {"staff", "manager"} : Shows(b, page)
    /\ WithState(b, SeedState(date))
    /\ UNCHANGED view

DemoNext ==
    \/ Midnight
    \/ \E b \in Browsers :
          \/ OpenView(b, "staff") \/ OpenView(b, "manager") \/ LeaveView(b) \/ Reload(b)
          \/ HandleStorage(b) \/ NobodyListens(b)
          \/ \E m \in Marks \cup {NoMark} : UpdateDraftAssignment(b, m)
          \/ AutoScheduleDraft(b) \/ PublishDraft(b)
          \/ ResolveCorrectionRequest(b, "approved") \/ ResolveCorrectionRequest(b, "rejected")
          \/ SubmitCorrectionRequest(b)
          \/ SaveTodayMessage(b, TRUE) \/ SaveTodayMessage(b, FALSE)
          \/ ClockIn(b) \/ RequestClockOut(b) \/ CancelClockOut(b) \/ ConfirmClockOut(b)
          \/ ResetDemoStore(b)

DemoSpec == DemoInit /\ [][DemoNext]_demoVars

-----------------------------------------------------------------------------
\* What keeps a tab from the shared state.
Behind == due \cup deaf \cup unsaved

(* "Single source of truth" (store.ts, 11): a tab that has loaded shows what *)
(* is stored, whatever the other tabs write, reset or seed anew - unless an  *)
(* event is on its way, passed while no view listened, or a write did not fit. *)
StoreCoherent == \A b \in Browsers \ Behind : cached[b] \in {NoStore, storage}

(* A tab that is not behind changes one part of the stored state and keeps   *)
(* the rest: a shift, a decision or a clock time of another tab is lost only *)
(* to a reset, the seed of a new day, or a tab that was behind.              *)
WritesKeepTheRest ==
    [][storage # NoStore /\ storage' # storage =>
          \/ storage' = SeedState(date)
          \/ \E b \in Behind : storage' = cached'[b]
          \/ Cardinality({piece \in DOMAIN storage : storage'[piece] # storage[piece]}) = 1]_demoVars
=============================================================================
