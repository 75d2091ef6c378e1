---------------------------- MODULE StockLedger ----------------------------
(***************************************************************************)
(* What the daily stock check promises, without its transactions: a        *)
(* session posts its counts to the append-only history once, all of them   *)
(* in one step, one per listed item, and never an empty sheet; a count     *)
(* outside a session posts alone.                                          *)
(***************************************************************************)
CONSTANTS Items, Slots, NoSlot, Observations

VARIABLES
    listed,     \* listed[s]: the items on the sheet of session s
    posted,     \* the sessions that have posted
    ledger      \* the history: [source, item, seen]

lvars == <<listed, posted, ledger>>

LInit == /\ listed = [s \in Slots |-> {}]
         /\ posted = {}
         /\ ledger = {}

\* Opening, or opening again, puts items on the sheet.
List(s) == /\ \E more \in SUBSET Items : listed' = [listed EXCEPT ![s] = @ \cup more]
           /\ UNCHANGED <<posted, ledger>>

Rows(s, f) == {[source |-> s, item |-> i, seen |-> f[i]] : i \in listed[s]}

Post(s) == /\ s \notin posted
           /\ listed[s] # {}
           /\ \E f \in [listed[s] -> Observations] : ledger' = ledger \cup Rows(s, f)
           /\ posted' = posted \cup {s}
           /\ UNCHANGED listed

CountOne(i) == /\ \E n \in Observations :
                     ledger' = ledger \cup {[source |-> NoSlot, item |-> i, seen |-> n]}
               /\ UNCHANGED <<listed, posted>>

LNext == \/ \E s \in Slots : List(s) \/ Post(s)
         \/ \E i \in Items : CountOne(i)

LSpec == LInit /\ [][LNext]_lvars
=============================================================================
