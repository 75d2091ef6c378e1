-------------------------- MODULE StaffScheduleView --------------------------
(***************************************************************************)
(* The schedule as one member of staff sees it.  A page brings a window of *)
(* weeks around the current one and displays one of them; while the page   *)
(* is looked at, a timer polls the displayed week.  Answers may arrive     *)
(* long after they were read, or never; a page that arrives cancels the    *)
(* poll.  What is read is the version of the published schedule.           *)
(***************************************************************************)
EXTENDS Integers

CONSTANTS
    MaxOffset,                  \* weeks one may go back and forth
    LastMonday,                 \* bound: weeks that begin
    MaxVersion                  \* bound: changes of the published schedule

ASSUME ViewBounds == MaxOffset \in Nat /\ LastMonday \in Nat /\ MaxVersion \in Nat

VARIABLES
    version,    \* of the published schedule
    thisWeek,   \* the current week, by the server's clock
    visible,    \* the page is looked at
    screen,     \* the page: the week it displays, its offset, whether it came without shifts
    shown,      \* shown[w]: the version of week w on the page
    poll,       \* the poll under way
    load        \* the page on its way

viewVars == <<version, thisWeek, visible, screen, shown, poll, load>>

Offsets == -MaxOffset..MaxOffset
Weeks == -MaxOffset..(LastMonday + MaxOffset)
NotShown == -1
Versions == NotShown..MaxVersion

\* The offset that was asked for, the current week the server answered in, what it read.
Trip == [pc: {"idle", "asked", "answered"}, offset: Offsets, at: 0..LastMonday, got: Versions]

Quiet == [pc |-> "idle", offset |-> 0, at |-> 0, got |-> NotShown]

ViewTypes ==
    /\ version \in 0..MaxVersion /\ thisWeek \in 0..LastMonday /\ visible \in BOOLEAN
    /\ screen \in [week: Weeks, offset: Offsets, blank: BOOLEAN]
    /\ shown \in [Weeks -> Versions]
    /\ poll \in Trip /\ load \in Trip

\* The window of a page made in week m.
Window(m, v) == [w \in Weeks |-> IF m - MaxOffset <= w /\ w <= m + MaxOffset THEN v ELSE NotShown]

ViewInit ==
    /\ version = 0 /\ thisWeek = 0 /\ visible \in BOOLEAN
    /\ \E o \in Offsets : screen = [week |-> o, offset |-> o, blank |-> FALSE]
    /\ shown = Window(0, 0)
    /\ poll = Quiet /\ load = Quiet

PublishedChanges ==
    /\ version < MaxVersion
    /\ version' = version + 1
    /\ UNCHANGED <<thisWeek, visible, screen, shown, poll, load>>

Monday ==
    /\ thisWeek < LastMonday
    /\ thisWeek' = thisWeek + 1
    /\ UNCHANGED <<version, visible, screen, shown, poll, load>>

\* The tab is put aside or looked at again.
Turns ==
    /\ visible' = ~visible
    /\ UNCHANGED <<version, thisWeek, screen, shown, poll, load>>

-----------------------------------------------------------------------------
(* The poll. *)

\* The timer fires; nothing is asked while a poll is in flight, nobody looks, or the page
\* came without shifts.
PollAsks ==
    /\ visible /\ ~screen.blank
    /\ poll.pc = "idle"
    /\ poll' = [Quiet EXCEPT !.pc = "asked", !.offset = screen.offset]
    /\ UNCHANGED <<version, thisWeek, visible, screen, shown, load>>

\* The server counts the offset from its own current week.
PollReads ==
    /\ poll.pc = "asked"
    /\ poll' = [poll EXCEPT !.pc = "answered", !.at = thisWeek, !.got = version]
    /\ UNCHANGED <<version, thisWeek, visible, screen, shown, load>>

\* The week that was read is spliced in.
PollArrives ==
    /\ poll.pc = "answered"
    /\ shown' = [shown EXCEPT ![poll.at + poll.offset] = poll.got]
    /\ poll' = Quiet
    /\ UNCHANGED <<version, thisWeek, visible, screen, load>>

\* mutant: only an answer takes the mark off
StillInFlight == [poll EXCEPT !.pc = "failed"]

\* In either case the mark of a poll in flight is taken off.
AfterFailure == Quiet

\* The action answers with an error, or not at all.
PollFails ==
    /\ poll.pc \in {"asked", "answered"}
    /\ poll' = AfterFailure
    /\ UNCHANGED <<version, thisWeek, visible, screen, shown, load>>

-----------------------------------------------------------------------------
(* The page. *)

\* A refresh, or a step to another week.
LoadAsks(o) ==
    /\ load.pc = "idle"
    /\ load' = [Quiet EXCEPT !.pc = "asked", !.offset = o]
    /\ UNCHANGED <<version, thisWeek, visible, screen, shown, poll>>

\* The page is made, also when the shifts cannot be read.
LoadReads ==
    /\ load.pc = "asked"
    /\ \E v \in {version, NotShown} :
          load' = [load EXCEPT !.pc = "answered", !.at = thisWeek, !.got = v]
    /\ UNCHANGED <<version, thisWeek, visible, screen, shown, poll>>

KeepsPolling == poll    \* mutant: the poll in flight is not cancelled

Cancelled == Quiet

\* The new assignments replace the window and end the effect of the old poll.
LoadArrives ==
    /\ load.pc = "answered"
    /\ screen' = [week |-> load.at + load.offset, offset |-> load.offset,
                  blank |-> load.got = NotShown]
    /\ shown' = Window(load.at, load.got)
    /\ poll' = Cancelled
    /\ load' = Quiet
    /\ UNCHANGED <<version, thisWeek, visible>>

ViewNext == \/ PublishedChanges \/ Monday \/ Turns
            \/ PollAsks \/ PollReads \/ PollArrives \/ PollFails
            \/ (\E o \in Offsets : LoadAsks(o)) \/ LoadReads \/ LoadArrives

ViewSpec == ViewInit /\ [][ViewNext]_viewVars

\* The timer of a page that is looked at fires; a request ends one way or the other, and
\* not every poll fails.  Nobody has to look, to reload or to publish.
ViewFairness ==
    /\ WF_viewVars(PollAsks)
    /\ SF_viewVars(PollReads) /\ SF_viewVars(PollArrives)

-----------------------------------------------------------------------------
(* A poll never takes the screen back to an older schedule, however long its *)
(* answer was on the way: only the arrival of a page may do that.            *)
PollNeverGoesBack ==
    [][(\E w \in Weeks : shown'[w] < shown[w]) => load.pc = "answered" /\ load'.pc = "idle"]_viewVars

\* The page is looked at, came with its shifts, and displays the week its polls ask for:
\* on Monday an offset means another week, and the page stands still until it is loaded.
Watched == visible /\ ~screen.blank /\ screen.week = thisWeek + screen.offset

(* "so a Manager's publish becomes visible here without a manual reload"     *)
(* (staff-dashboard-client.tsx, 163): the week on a page that is watched     *)
(* comes to show what is published, and shows it while the schedule rests,   *)
(* whatever polls failed, pages arrived late or weeks were looked at before. *)
ViewCatchesUp == <>[]Watched => <>[](shown[screen.week] = version)
=============================================================================
