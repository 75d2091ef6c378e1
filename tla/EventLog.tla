------------------------------ MODULE EventLog ------------------------------
(***************************************************************************)
(* The event bus: producers insert rows under an identity column, and a    *)
(* consumer polls for the rows after the last id it has processed.  An id  *)
(* is drawn when the row is inserted and seen when its transaction commits,*)
(* so a lower id may show up after a higher one; an id may also be lost.   *)
(***************************************************************************)
EXTENDS Naturals, Sequences, Functions

CONSTANTS
    MaxEvents,                  \* bound: ids drawn
    PageSize                    \* limit of a poll

ASSUME EventBounds == MaxEvents \in Nat /\ PageSize \in Nat \ {0}

VARIABLES
    drawn,      \* last id drawn
    inserted,   \* ids of transactions under way
    committed,  \* ids anyone can read
    cursor,     \* last id processed
    delivered,  \* ids in the order they were processed
    late        \* history: ids committed when the cursor had passed them

eventVars == <<drawn, inserted, committed, cursor, delivered, late>>

EventTypes ==
    /\ drawn \in 0..MaxEvents /\ cursor \in 0..MaxEvents
    /\ inserted \subseteq 1..drawn /\ committed \subseteq 1..drawn /\ late \subseteq committed
    /\ delivered \in Seq(committed)

EventInit == /\ drawn = 0 /\ cursor = 0
             /\ inserted = {} /\ committed = {} /\ late = {}
             /\ delivered = <<>>

PublishEvent ==
    /\ drawn < MaxEvents
    /\ drawn' = drawn + 1
    /\ inserted' = inserted \cup {drawn + 1}
    /\ UNCHANGED <<committed, cursor, delivered, late>>

CommitEvent(id) ==
    /\ id \in inserted
    /\ inserted' = inserted \ {id}
    /\ committed' = committed \cup {id}
    /\ late' = IF id < cursor THEN late \cup {id} ELSE late
    /\ UNCHANGED <<drawn, cursor, delivered>>

AbortEvent(id) ==
    /\ id \in inserted
    /\ inserted' = inserted \ {id}
    /\ UNCHANGED <<drawn, committed, cursor, delivered, late>>

Readable == {id \in committed : id > cursor}

\* Whatever is left out of a page of the ids in S comes after a page that is full.
FirstOf(S, page) ==
    /\ Range(page) \subseteq S
    /\ \A i, k \in DOMAIN page : i < k => page[i] < page[k]
    /\ \A id \in S \ Range(page) :
          Len(page) = PageSize /\ \A i \in DOMAIN page : page[i] < id

AnyPage(page) ==            \* mutant: a limit without an order
    IsInjective(page) /\ Range(page) \subseteq Readable

DirtyRead(page) ==          \* mutant: rows that are not committed are listed
    FirstOf({id \in committed \cup inserted : id > cursor}, page)

\* A page, oldest first.
ListEventsSince(page) == FirstOf(Readable, page)

\* The consumer moves its cursor to the end of the page.
PollEvents ==
    \E n \in 1..PageSize : \E page \in [1..n -> 1..drawn] :
       /\ ListEventsSince(page)
       /\ delivered' = delivered \o page
       /\ cursor' = page[n]
       /\ UNCHANGED <<drawn, inserted, committed, late>>

EventNext == \/ PublishEvent \/ PollEvents
             \/ \E id \in inserted : CommitEvent(id) \/ AbortEvent(id)

EventSpec == EventInit /\ [][EventNext]_eventVars

-----------------------------------------------------------------------------
(* The consumer processes every event once and in the order of the ids, and  *)
(* has passed over none, but those that were committed after a higher id had *)
(* been processed.                                                           *)
EventsInOrder ==
    /\ \A i, k \in DOMAIN delivered : i < k => delivered[i] < delivered[k]
    /\ \A id \in committed : id <= cursor => id \in Range(delivered) \cup late
=============================================================================
