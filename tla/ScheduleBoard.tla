---------------------------- MODULE ScheduleBoard ----------------------------
(***************************************************************************)
(* The manager's grid for one day: the shift rows, the pages that managers *)
(* have open, and runs of the automatic distribution, which read the       *)
(* schedule in one statement and insert their drafts in another.  Pages    *)
(* are edited as they were when they were loaded.                          *)
(***************************************************************************)
EXTENDS Naturals, FiniteSets, Functions

CONSTANTS
    Shifts,                     \* rows of workforce.shifts
    Workers,                    \* employees of the location
    Nobody,                     \* a shift without an employee
    Tabs,                       \* open pages
    RunsUnderWay                \* calls of runAutoDistribution

ASSUME BoardValues == Nobody \notin Workers

VARIABLES
    schedule,   \* schedule[s]: the shift row
    page,       \* page[t]: the schedule as page t shows it
    seen,       \* seen[r]: the schedule as run r has read it
    running,    \* runs between their read and their insert
    excused     \* history: workers given a shift in a way that may double one

boardVars == <<schedule, page, seen, running, excused>>

Shift == [status: {"none", "draft", "published"}, owner: Workers \cup {Nobody}]
NoShift == [status |-> "none", owner |-> Nobody]
Draft(w) == [status |-> "draft", owner |-> w]
Blank == [s \in Shifts |-> NoShift]

BoardTypes ==
    /\ schedule \in [Shifts -> Shift]
    /\ page \in [Tabs -> [Shifts -> Shift]]
    /\ seen \in [RunsUnderWay -> [Shifts -> Shift]]
    /\ running \subseteq RunsUnderWay
    /\ excused \subseteq Workers

BoardInit == /\ schedule = Blank
             /\ page = [t \in Tabs |-> Blank]
             /\ seen = [r \in RunsUnderWay |-> Blank]
             /\ running = {} /\ excused = {}

ShiftsOf(board, w, statuses) ==
    {s \in Shifts : board[s].owner = w /\ board[s].status \in statuses}

-----------------------------------------------------------------------------
LoadPage(t) ==
    /\ page' = [page EXCEPT ![t] = schedule]
    /\ UNCHANGED <<schedule, seen, running, excused>>

AnyCell(t, s) == page[t][s].owner # Nobody      \* mutant: published shifts too

\* The grid finds shifts by their employee; published ones are read-only.
Editable(t, s) == page[t][s].owner # Nobody /\ page[t][s].status = "draft"

\* The whole row is written, with the published flag of the page.
WriteShift(t, s, w) ==
    /\ Editable(t, s)
    /\ schedule' = [schedule EXCEPT ![s] = Draft(w)]
    /\ UNCHANGED <<page, seen, running>>

Reassign(t, s, w) ==
    /\ WriteShift(t, s, w)
    /\ excused' = IF w = page[t][s].owner /\ page[t] = schedule
                  THEN excused ELSE excused \cup {w}

Unassign(t, s) == WriteShift(t, s, Nobody) /\ UNCHANGED excused

\* The insert of a draft into a cell that the page shows empty.
Assign(t, s, w) ==
    /\ ShiftsOf(page[t], w, {"draft", "published"}) = {}
    /\ schedule[s] = NoShift
    /\ schedule' = [schedule EXCEPT ![s] = Draft(w)]
    /\ excused' = IF page[t] = schedule THEN excused ELSE excused \cup {w}
    /\ UNCHANGED <<page, seen, running>>

PublishSchedule ==
    /\ schedule' = [s \in Shifts |-> IF schedule[s].status = "draft"
                       THEN [schedule[s] EXCEPT !.status = "published"] ELSE schedule[s]]
    /\ UNCHANGED <<page, seen, running, excused>>

-----------------------------------------------------------------------------
RunRead(r) ==
    /\ r \notin running
    /\ running' = running \cup {r}
    /\ seen' = [seen EXCEPT ![r] = schedule]
    /\ UNCHANGED <<schedule, page, excused>>

Everyone(board) == Workers      \* mutant: published shifts are not preserved

\* Published shifts are preserved; drafts are neither counted nor removed.
Placeable(board) == {w \in Workers : ShiftsOf(board, w, {"published"}) = {}}

\* One draft for each employee the run places.
RunInsert(r) ==
    /\ r \in running
    /\ \E picks \in SUBSET Placeable(seen[r]) :
       \E row \in Injection(picks, {s \in Shifts : schedule[s] = NoShift}) :
          /\ schedule' = [s \in Shifts |-> IF \E w \in picks : row[w] = s
                             THEN Draft(CHOOSE w \in picks : row[w] = s) ELSE schedule[s]]
          /\ excused' = excused \cup {w \in picks :
                ShiftsOf(seen[r], w, {"draft"}) # {} \/ seen[r] # schedule}
    /\ running' = running \ {r}
    /\ seen' = [seen EXCEPT ![r] = Blank]
    /\ UNCHANGED page

RunDies(r) ==
    /\ r \in running
    /\ running' = running \ {r}
    /\ seen' = [seen EXCEPT ![r] = Blank]
    /\ UNCHANGED <<schedule, page, excused>>

BoardNext ==
    \/ \E t \in Tabs : \/ LoadPage(t)
                       \/ \E s \in Shifts : \/ Unassign(t, s)
                                            \/ \E w \in Workers : Reassign(t, s, w) \/ Assign(t, s, w)
    \/ PublishSchedule
    \/ \E r \in RunsUnderWay : RunRead(r) \/ RunInsert(r) \/ RunDies(r)

BoardSpec == BoardInit /\ [][BoardNext]_boardVars

-----------------------------------------------------------------------------
(* "published assignments are read-only" (comment of ShiftCellEditor): a     *)
(* published shift is changed, or taken back to a draft, only from a page    *)
(* that was loaded when it was still a draft, never by a run or a publish.   *)
PublishedStays ==
    [][\A s \in Shifts : schedule[s].status = "published" =>
          \/ schedule'[s] = schedule[s]
          \/ running' = running /\ \E t \in Tabs : page[t][s].status = "draft"]_boardVars

(* An employee has one shift a day, unless a run placed somebody who had a   *)
(* draft, a shift was handed over in the editor, or the page or the run was  *)
(* overtaken by another change of the schedule.                              *)
DoublesExplained ==
    \A w \in Workers \ excused : \A a, b \in ShiftsOf(schedule, w, {"draft", "published"}) : a = b
=============================================================================
