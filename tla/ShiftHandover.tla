--------------------------- MODULE ShiftHandover ---------------------------
(***************************************************************************)
(* What the shift request flow promises, without its transactions: only    *)
(* the owner of a published shift comes to ask about it; a shift carries   *)
(* at most one request; granting it happens in one step, only while the    *)
(* shift is still published and still the requester's, and an exchange     *)
(* goes to the colleague who volunteered, never to anyone else.            *)
(***************************************************************************)
CONSTANTS Employees, Shifts, Spans, NoEmployee, NoSpan

VARIABLES
    roster,     \* roster[s]: owner, published, span of shift s
    ask,        \* ask[s]: the open request about shift s, or NoAsk
    intents     \* the requests on their way

hvars == <<roster, ask, intents>>

NoAsk == [kind |-> "none", requester |-> NoEmployee, volunteer |-> NoEmployee,
          span |-> NoSpan]

HInit == /\ ask = [s \in Shifts |-> NoAsk]
         /\ intents = {}

Intend(s, kind, span) ==
    /\ roster[s].published
    /\ roster[s].owner \in Employees
    /\ intents' = intents \cup {[shift |-> s, kind |-> kind,
                                 requester |-> roster[s].owner, span |-> span]}
    /\ UNCHANGED <<roster, ask>>

Forget == /\ intents' \subseteq intents
          /\ UNCHANGED <<roster, ask>>

Ask(i) ==
    /\ i \in intents
    /\ ask[i.shift].kind = "none"
    /\ ask' = [ask EXCEPT ![i.shift] = [kind |-> i.kind, requester |-> i.requester,
                                        volunteer |-> NoEmployee, span |-> i.span]]
    /\ intents' \subseteq intents
    /\ UNCHANGED roster

Volunteer(s, e) ==
    /\ ask[s].kind = "exchange"
    /\ ask[s].volunteer = NoEmployee
    /\ e # ask[s].requester
    /\ ask' = [ask EXCEPT ![s] = [@ EXCEPT !.volunteer = e]]
    /\ UNCHANGED <<roster, intents>>

\* The requester takes it back or the manager says no.
Drop(s) == /\ ask[s].kind # "none"
           /\ ask' = [ask EXCEPT ![s] = NoAsk]
           /\ UNCHANGED <<roster, intents>>

\* What a granted request a makes of the roster row.
Outcome(a, row) ==
    CASE a.kind = "exchange" -> [row EXCEPT !.owner = a.volunteer]
      [] a.kind = "cancel"   -> [row EXCEPT !.owner = NoEmployee]
      [] a.kind = "change"   -> [row EXCEPT !.span = a.span]

Grant(s) ==
    /\ ask[s].kind # "none"
    /\ roster[s].published
    /\ roster[s].owner = ask[s].requester
    /\ ask[s].kind = "exchange" => ask[s].volunteer # NoEmployee
    /\ roster' = [roster EXCEPT ![s] = Outcome(ask[s], @)]
    /\ ask' = [ask EXCEPT ![s] = NoAsk]
    /\ UNCHANGED intents

\* The managers' own planning never touches a request.
Plan == UNCHANGED <<ask, intents>>

HNext == \/ Plan
         \/ Forget
         \/ \E i \in intents : Ask(i)
         \/ \E s \in Shifts :
               \/ \E kind \in {"exchange", "cancel", "change"},
                     span \in Spans \cup {NoSpan} : Intend(s, kind, span)
               \/ \E e \in Employees : Volunteer(s, e)
               \/ Drop(s)
               \/ Grant(s)

HSpec == HInit /\ [][HNext]_hvars
=============================================================================
