--------------------------- MODULE StateChangeFeed ---------------------------
(***************************************************************************)
(* The state change feed: consumers page through changes() of a ledger     *)
(* while writers commit (the loop of docs/how-to/store-and-watch-state.md: *)
(* read a page, consume each record, persist the cursor, go on), crash,    *)
(* and resume from the cursor they persisted.                              *)
(*                                                                         *)
(* Consumers have ledger handles of their own, which stay open.            *)
(***************************************************************************)
EXTENDS StateStore, FiniteSets

CONSTANTS Consumers,
          Filters,          \* the subjects of a namespace a consumer may ask for
          PageLimit,        \* filter.limit
          Origins,          \* cursors a consumer may start from; beyond the log: foreign
          MaxCrashes        \* bound: crashes per consumer

ASSUME FeedAssumption ==
    /\ Filters \subseteq SUBSET Subjects
    /\ PageLimit \in Nat \ {0}
    /\ Origins \subseteq Nat
    /\ MaxCrashes \in Nat

VARIABLES consumers,    \* consumers[k]: volatile state of the consumer's loop
          stored,       \* stored[k]: the cursor the consumer persisted
          consumed,     \* consumed[k]: the revisions its processing has taken in
          origin,       \* origin[k]: the cursor it started from
          filter,       \* filter[k]: what consumer k asks for
          crashes       \* crashes[k]: how often it crashed

feedVars == <<consumers, stored, consumed, origin, filter, crashes>>
vars == <<revisions, changes, operations, lifecycle, writes,
          consumers, stored, consumed, origin, filter, crashes>>

-----------------------------------------------------------------------------
(***************************************************************************)
(* changes()                                                               *)
(***************************************************************************)
HighWater == Len(changes)

\* The positions after the cursor that pass the filter, in commit order.
Pending(k, after) == {i \in (after + 1)..HighWater : changes[i][1] \in filter[k]}
RankIn(set, i) == Cardinality({j \in set : j <= i})
Nth(set, n) == CHOOSE i \in set : RankIn(set, i) = n

\* The query fetches one row more than the page holds, to know of a next page.
PageSize(k, after) ==
    IF Cardinality(Pending(k, after)) > PageLimit THEN PageLimit
    ELSE Cardinality(Pending(k, after))

Page(k, after) ==
    [n \in 1..PageSize(k, after) |-> changes[Nth(Pending(k, after), n)]]

CursorAtHighWater(k, after) == HighWater    \* mutant: takes every page for the last one

\* The cursor of an empty page is the one it was asked with.
PageCursor(k, after) ==
    IF PageSize(k, after) = 0 THEN after ELSE Nth(Pending(k, after), PageSize(k, after))

HasMoreThanOne(k, after) ==                 \* mutant: the extra row is counted twice
    Cardinality(Pending(k, after)) > PageLimit + 1

HasMore(k, after) == Cardinality(Pending(k, after)) > PageLimit

IsCaughtUpOrFuture(after) == after >= HighWater     \* mutant: refuses a caught-up cursor

\* Checked against the whole log, not against the namespace that is asked for.
IsFuture(after) == after > HighWater

-----------------------------------------------------------------------------
(***************************************************************************)
(* The consumer's loop.  pc: polling, consuming the rest of a page, or     *)
(* rejected by INVALID_CURSOR.                                             *)
(***************************************************************************)
InConsumer(k, pc) == consumers[k].pc = pc

ReadChanges(k) ==
    /\ InConsumer(k, "polling")
    /\ LET after == consumers[k].cursor IN
       consumers' = [consumers EXCEPT ![k] =
          IF IsFuture(after)
          THEN [pc |-> "rejected", cursor |-> after, page |-> <<>>]
          ELSE [pc |-> "consuming", cursor |-> PageCursor(k, after), page |-> Page(k, after)]]
    /\ UNCHANGED <<stored, consumed, origin, filter, crashes>>

ConsumeRecord(k) ==
    /\ InConsumer(k, "consuming")
    /\ consumers[k].page # <<>>
    /\ consumed' = [consumed EXCEPT ![k] = @ \cup {Head(consumers[k].page)}]
    /\ consumers' = [consumers EXCEPT ![k].page = Tail(@)]
    /\ UNCHANGED <<stored, origin, filter, crashes>>

PersistCursor(k) ==
    /\ InConsumer(k, "consuming")
    /\ consumers[k].page = <<>>
    /\ stored' = [stored EXCEPT ![k] = consumers[k].cursor]
    /\ consumers' = [consumers EXCEPT ![k].pc = "polling"]
    /\ UNCHANGED <<consumed, origin, filter, crashes>>

\* What was consumed stays consumed; what was read and not persisted is read again.
CrashConsumer(k) ==
    /\ crashes[k] < MaxCrashes
    /\ crashes' = [crashes EXCEPT ![k] = @ + 1]
    /\ consumers' = [consumers EXCEPT ![k] =
          [pc |-> "polling", cursor |-> stored[k], page |-> <<>>]]
    /\ UNCHANGED <<stored, consumed, origin, filter>>

ConsumerStep(k) == ReadChanges(k) \/ ConsumeRecord(k) \/ PersistCursor(k)

Init ==
    /\ StoreInit
    /\ origin \in [Consumers -> Origins]
    /\ filter \in [Consumers -> Filters]
    /\ stored = origin
    /\ consumers = [k \in Consumers |-> [pc |-> "polling", cursor |-> origin[k], page |-> <<>>]]
    /\ consumed = [k \in Consumers |-> {}]
    /\ crashes = [k \in Consumers |-> 0]

Next ==
    \/ StoreStep /\ UNCHANGED feedVars
    \/ \E k \in Consumers : (ConsumerStep(k) \/ CrashConsumer(k)) /\ UNCHANGED storeVars
    \/ AllWritten /\ UNCHANGED feedVars

Spec == Init /\ [][Next]_vars

\* A consumer keeps polling and finishes with what it has read; writers need
\* not go on.
FairSpec == Spec /\ \A k \in Consumers : WF_vars(ConsumerStep(k) /\ UNCHANGED storeVars)

-----------------------------------------------------------------------------
(***************************************************************************)
(* Properties.                                                             *)
(***************************************************************************)
\* A cursor never passes a change that was not consumed: what lies behind the
\* persisted cursor was taken in for good, what lies behind the volatile one
\* is taken in or in the page at hand.  Holds from the starting position of a
\* cursor this ledger has issued.
CursorSkipsNothing ==
    \A k \in Consumers :
        LET Behind(cursor) == {changes[i] : i \in Pending(k, origin[k]) \cap 1..cursor}
            AtHand == {consumers[k].page[n] : n \in DOMAIN consumers[k].page} IN
        /\ Behind(stored[k]) \subseteq consumed[k]
        /\ Behind(consumers[k].cursor) \subseteq consumed[k] \cup AtHand

\* "hasMore: false" is honest: when that page was read, everything committed
\* that passes the filter was consumed or in the page.
NoMoreMeansCaughtUp ==
    [][\A k \in Consumers :
        InConsumer(k, "polling") /\ InConsumer(k, "consuming")'
        /\ ~ HasMore(k, consumers[k].cursor) =>
            \A i \in Pending(k, origin[k]) :
                changes[i] \in consumed[k]
                    \cup {consumers'[k].page[n] : n \in DOMAIN consumers'[k].page}]_vars

\* Every committed change reaches every consumer that asks for it and began at
\* the beginning: no cursor this ledger has issued is ever refused, a caught-up
\* one included, and what was read before a crash is read again.
ChangesArrive ==
    \A k \in Consumers : \A s \in Subjects : \A r \in 1..MaxRevision :
        origin[k] = 0 /\ s \in filter[k] /\ r <= CurrentRevision(s) ~> <<s, r>> \in consumed[k]
=============================================================================
