------------------------ MODULE DistributeProperties ------------------------
(* What a finished distribution promises to the manager who reads it. *)
EXTENDS AutoDistribute

Finished == at.day > LastDay

\* Hours of e in drafts.
DraftHours(e) ==
    SumOver([d \in PeriodDays |-> IF \E a \in drafts : a.employee = e /\ a.day = d
                                  THEN HoursOf(wish[e][d]) ELSE 0], LastDay)

\* Hours of the assignments of e that are there, whether counted or not.
HoursThere(e) ==
    SumOver([d \in PeriodDays |->
                SumOver([i \in 1..Len(existing[e][d]) |-> HoursOf(existing[e][d][i])],
                        Len(existing[e][d]))], LastDay)

(* Every wish for a shift is answered once: by a draft of that shift or by   *)
(* one report, never by both; a day without a wish, and one that is taken by *)
(* a preserved assignment, gets no draft.                                    *)
WishesAnsweredOnce ==
    Finished => \A e \in Employees, d \in PeriodDays :
       LET placed == {a \in drafts : a.employee = e /\ a.day = d}
           told == {u \in unplaced : u.employee = e /\ u.day = d} IN
       /\ wish[e][d] = NoType => placed = {} /\ told = {}
       /\ wish[e][d] # NoType => Cardinality(placed) + Cardinality(told) = 1
       /\ \A a \in placed : a.type = wish[e][d] /\ Kept(e, d) = NoType

(* A shortage is real: whoever asked for the window and is not in it works   *)
(* that day anyway or would exceed the cap; and a window is only filled      *)
(* beyond its need by preserved assignments.                                 *)
ShortagesAreReal ==
    Finished => \A d \in PeriodDays, s \in 1..Windows :
       LET in == {a \in drafts : a.day = d /\ SlotOf(a.type) = s}
           heads == Cardinality(in) + Preserved(d, s) IN
       /\ in # {} => heads <= need[d][s]
       /\ (\E x \in shortages : x.day = d /\ x.slot = s) <=> heads < need[d][s]
       /\ heads < need[d][s] => \A e \in Candidates(d, s) :
             Busy(e, d) \/ hours[e] + HoursOf(wish[e][d]) > MaxPeriodHours

(* An employee who gets a draft stays within the cap, drafts and preserved   *)
(* assignments together, unless a day has several of these: then only the    *)
(* last of them is counted.                                                  *)
CapHolds ==
    \A e \in Employees :
       (\E a \in drafts : a.employee = e) /\ (\A d \in PeriodDays : Len(existing[e][d]) <= 1)
       => HoursThere(e) + DraftHours(e) <= MaxPeriodHours
(* A finished distribution is exact: answers, shortages and hours agree with *)
(* the wishes, the needs and the cap.                                        *)
DistributionIsExact == WishesAnsweredOnce /\ ShortagesAreReal /\ CapHolds
=============================================================================
