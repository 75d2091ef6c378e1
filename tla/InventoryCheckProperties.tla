---------------------- MODULE InventoryCheckProperties ----------------------
(* What the daily stock check must never do. *)
EXTENDS InventoryCheck

(* The stock check implements StockLedger: a sheet posts once, in one step,  *)
(* one count for every line it has then, never nothing; two completions of   *)
(* a sheet, or a completion and a second start, do not split or double it.   *)
Ledger == INSTANCE StockLedger
            WITH Observations <- Stamps,
                 listed <- [s \in Slots |-> {i \in Items : line[s][i] # Absent}],
                 posted <- {s \in Slots : session[s] = "completed"},
                 ledger <- {[source |-> h.source, item |-> h.item, seen |-> h.seen] :
                               h \in counts}

ImplementsLedger == Ledger!LSpec

(* "Never hard-deleted once counted" (0035): a deleted item is named by no   *)
(* count and by no line of an open sheet, which could never complete.        *)
DeletedLeavesNoTrace ==
    \A i \in Items : item[i] = "deleted" =>
       /\ \A h \in counts : h.item # i
       /\ \A s \in Slots : line[s][i] = Absent

(* The status view shows the count with the latest counted_at.  A sheet      *)
(* completed late never brings back an older observation over a newer one.   *)
LatestOf(rows, i) ==
    {h \in rows : h.item = i /\ \A g \in rows : g.item = i => g.at <= h.at}

ShownNeverGoesBack ==
    [][\A i \in Items : \A h \in LatestOf(counts, i) : \A g \in LatestOf(counts', i) :
          h.seen <= g.seen]_vars

(* Between the copy of the lines and the commit no line is added: what is    *)
(* posted is the whole sheet.                                                *)
CopyIsWholeSheet ==
    \A c \in Staff : call[c].pc = "copied" =>
       \A i \in Items : call[c].copy[i] = Absent <=> line[call[c].slot][i] = Absent

-----------------------------------------------------------------------------
(* "completed session is immutable in its completed state" (test 0017):      *)
(* no line of a completed sheet changes.  A second start of the slot adds    *)
(* blank lines to it, and a count that was being recorded while the sheet    *)
(* was completed replaces the one that was posted.                           *)
CompletedIsFrozen ==
    [][\A s \in Slots : session[s] = "completed" => line'[s] = line[s]]_vars
=============================================================================
