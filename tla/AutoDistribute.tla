--------------------------- MODULE AutoDistribute ---------------------------
(***************************************************************************)
(* autoDistribute: turns the shift wishes of a period into draft           *)
(* assignments.  For each day, window by window in a fixed order and then  *)
(* the custom shifts, the candidates are taken in the order of their hours *)
(* so far; each becomes a draft or is reported as unplaced, and a window   *)
(* that is not filled is reported as a shortage.                           *)
(*                                                                         *)
(* Employees are the active ones, numbered by display order and id.  The   *)
(* existing assignments are the ones that are preserved: locked, or        *)
(* published and not to be overwritten.                                    *)
(***************************************************************************)
EXTENDS Naturals, Sequences, FiniteSets

CONSTANTS
    Staff,                      \* number of active employees
    LastDay,                    \* number of days of the period
    Windows,                    \* number of windows; slot Windows + 1 is custom
    Types,                      \* active shift types
    NoType,                     \* no wish, an unavailable day
    BadType,                    \* an unknown or inactive shift type
    SlotOf(_), HoursOf(_),      \* the slot of a type, and its hours
    MaxPeriodHours,             \* bound of the hours of an employee
    MaxNeed,                    \* bound of the headcounts that are asked for
    MaxKept(_)                  \* bound of the assignments an employee has on a day already

Employees == 1..Staff
PeriodDays == 1..LastDay
Slots == 1..(Windows + 1)

ASSUME DistributeAssumption ==
    /\ {Staff, Windows, MaxPeriodHours, MaxNeed} \subseteq Nat /\ LastDay \in Nat \ {0}
    /\ NoType \notin Types /\ BadType \notin Types \cup {NoType}
    /\ \A t \in Types : SlotOf(t) \in Slots /\ HoursOf(t) \in Nat
    /\ \A d \in PeriodDays : MaxKept(d) \in Nat

VARIABLES
    wish, need, existing,       \* the input; it does not change
    at,                         \* [day, slot] the loops are at
    waiting,                    \* candidates of the slot not yet looked at
    filled,                     \* heads of the slot
    hours,                      \* hours[e]: counted so far
    drafts, unplaced, shortages

input == <<wish, need, existing>>
output == <<drafts, unplaced, shortages>>
distributeVars == <<wish, need, existing, at, waiting, filled, hours, drafts, unplaced, shortages>>

\* preservedByKey: of several assignments of a day the last one.
Kept(e, d) == IF existing[e][d] = <<>> THEN NoType ELSE existing[e][d][Len(existing[e][d])]

AsksFor(e, d, s) == wish[e][d] \in Types /\ SlotOf(wish[e][d]) = s
Candidates(d, s) == {e \in Employees : AsksFor(e, d, s)}
Preserved(d, s) == Cardinality({e \in Employees : Kept(e, d) \in Types /\ SlotOf(Kept(e, d)) = s})

\* A day begins with the wishes that name no usable shift type.
BadWishes(d) == {[employee |-> e, day |-> d, reason |-> "shift_type"] :
                    e \in {e \in Employees : wish[e][d] = BadType}}

DistributeTypes ==
    /\ at \in [day : 1..(LastDay + 1), slot : Slots]
    /\ waiting \subseteq Employees /\ filled \in Nat
    /\ hours \in [Employees -> Nat]
    /\ drafts \subseteq [employee : Employees, day : PeriodDays, type : Types]
    /\ unplaced \subseteq [employee : Employees, day : PeriodDays, reason : {"shift_type",
          "already_assigned", "headcount", "max_period_hours_exceeded"}]
    /\ shortages \subseteq [day : PeriodDays, slot : Slots, assigned : Nat]

SumOver(h, n) ==
    LET sum[i \in 0..n] == IF i = 0 THEN 0 ELSE sum[i - 1] + h[i] IN sum[n]

\* HoursKept: the hours of the preserved assignments of an employee.
HoursKept(e) ==
    SumOver([d \in PeriodDays |-> IF Kept(e, d) = NoType THEN 0 ELSE HoursOf(Kept(e, d))], LastDay)

\* The assignments an employee may have on a day before the distribution.
Lists(d) == UNION {[1..n -> Types] : n \in 0..MaxKept(d)}
LongestLists == Lists(CHOOSE d \in PeriodDays : \A c \in PeriodDays : MaxKept(c) <= MaxKept(d))

DistributeInit ==
    /\ wish \in [Employees -> [PeriodDays -> Types \cup {NoType, BadType}]]
    /\ need \in [PeriodDays -> [1..Windows -> 0..MaxNeed]]
    /\ existing \in [Employees -> {f \in [PeriodDays -> LongestLists] :
                                     \A d \in PeriodDays : f[d] \in Lists(d)}]
    /\ at = [day |-> 1, slot |-> 1]
    /\ waiting = Candidates(1, 1)
    /\ filled = Preserved(1, 1)
    /\ hours = [e \in Employees |-> HoursKept(e)]
    /\ drafts = {} /\ shortages = {}
    /\ unplaced = BadWishes(1)

\* compareCandidates: fewer hours first, then display order and id.
Before(e, f) == hours[e] < hours[f] \/ (hours[e] = hours[f] /\ e <= f)

Busy(e, d) == Kept(e, d) # NoType \/ \E a \in drafts : a.employee = e /\ a.day = d

\* A custom slot has no headcount.
Full(d, s) == s <= Windows /\ filled >= need[d][s]

NeverExceeds(h) == FALSE        \* mutant: the period has no cap

Exceeds(h) == h > MaxPeriodHours

\* Why candidate e is not placed, if it is not.
Refusal(e) ==
    LET d == at.day IN
    IF Busy(e, d) THEN "already_assigned"
    ELSE IF Full(d, at.slot) THEN "headcount"
    ELSE IF Exceeds(hours[e] + HoursOf(wish[e][d])) THEN "max_period_hours_exceeded"
    ELSE "none"

Consider(e) ==
    LET d == at.day
        t == wish[e][d] IN
    /\ d <= LastDay
    /\ e \in waiting
    /\ \A f \in waiting : Before(e, f)
    /\ waiting' = waiting \ {e}
    /\ IF Refusal(e) = "none"
       THEN /\ drafts' = drafts \cup {[employee |-> e, day |-> d, type |-> t]}
            /\ hours' = [hours EXCEPT ![e] = @ + HoursOf(t)]
            /\ filled' = filled + 1
            /\ UNCHANGED unplaced
       ELSE /\ unplaced' = unplaced \cup {[employee |-> e, day |-> d, reason |-> Refusal(e)]}
            /\ UNCHANGED <<drafts, hours, filled>>
    /\ UNCHANGED <<input, at, shortages>>

\* The next slot; after the custom one the next day.
Advance ==
    LET next == IF at.slot <= Windows THEN [at EXCEPT !.slot = @ + 1]
                ELSE [day |-> at.day + 1, slot |-> 1] IN
    /\ at.day <= LastDay
    /\ waiting = {}
    /\ shortages' = IF at.slot <= Windows /\ filled < need[at.day][at.slot]
                    THEN shortages \cup {[day |-> at.day, slot |-> at.slot, assigned |-> filled]}
                    ELSE shortages
    /\ at' = next
    /\ waiting' = IF next.day > LastDay THEN {} ELSE Candidates(next.day, next.slot)
    /\ filled' = IF next.day > LastDay THEN 0 ELSE Preserved(next.day, next.slot)
    /\ unplaced' = IF next.day \in (at.day + 1)..LastDay THEN unplaced \cup BadWishes(next.day)
                   ELSE unplaced
    /\ UNCHANGED <<input, hours, drafts>>

DistributeNext == Advance \/ \E e \in Employees : Consider(e)

DistributeSpec == DistributeInit /\ [][DistributeNext]_distributeVars
=============================================================================
