------------------------- MODULE MCOperationRuntime -------------------------
(* Small instances of OperationRuntime: a few concurrent calls from two     *)
(* runtimes.  An operation is named for its profile; all calls of a         *)
(* workload are on one operation.                                           *)
EXTENDS OperationRuntime, TLC

CONSTANTS guarded, keyed, queryable, readOnly, r1, r2, p1, c1, c2, c3

ProfileOf ==
    guarded :> [kind |-> "guarded", window |-> NoWindow, reconcile |-> FALSE] @@
    keyed :> [kind |-> "idempotent", window |-> 1, reconcile |-> FALSE] @@
    queryable :> [kind |-> "reconcilable", window |-> NoWindow, reconcile |-> TRUE] @@
    readOnly :> [kind |-> "read-only", window |-> NoWindow, reconcile |-> FALSE]

Profiles == [op \in Ops |-> ProfileOf[op]]

Call(op, r, mode, evidence, p, abortable) ==
    [runtime |-> r, op |-> op, mode |-> mode, evidence |-> evidence, principal |-> p,
     abortable |-> abortable]

Workers(op) == {Call(op, r, "normal", "allow", Nobody, FALSE) : r \in Runtimes}
Operators(op) == {Call(op, r, "reconcile-only", "none", Nobody, FALSE) : r \in Runtimes}

\* Every kind of caller: with and without evidence, or principal; one that
\* brings a deny, one that brings an allow and may abort.
Callers(op) ==
    {Call(op, r, "normal", "allow", p, FALSE) :
        r \in Runtimes, p \in Principals \cup {Nobody}} \cup
    {Call(op, r, "normal", "none", Nobody, FALSE) : r \in Runtimes} \cup
    {Call(op, r, "normal", "deny", Nobody, FALSE) : r \in Runtimes} \cup
    {Call(op, r, "normal", "allow", Nobody, TRUE) : r \in Runtimes}

\* A read-only Action is admitted implicitly.
Readers(op) == {Call(op, r, "normal", "none", Nobody, TRUE) : r \in Runtimes}

ManyWorkers ==
    [Calls -> Workers(guarded) \cup Operators(guarded)] \cup [Calls -> Workers(queryable)]

TwoWorkers == [Calls -> Workers(queryable)]

TwoReaders == [Calls -> Readers(readOnly)]

AllCallers == [Calls -> Callers(queryable) \cup Operators(queryable)]

MixedCallers ==
    AllCallers \cup
    [Calls -> Workers(keyed) \cup Operators(keyed)] \cup
    [Calls -> Readers(readOnly) \cup Operators(readOnly)]

MCSymmetry == Permutations(Calls) \cup Permutations(Runtimes)
=============================================================================
