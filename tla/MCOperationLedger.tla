------------------------- MODULE MCOperationLedger -------------------------
(* Two operations with profiles that matter to the ledger, a bound on the  *)
(* revisions each may reach, and no reader, one of the history of the      *)
(* first, or of a list of both or of those that are dispatched.            *)
EXTENDS OperationHistory, TLC

CONSTANTS MaxRevision, op1, op2, r1, r2, p1

MCProfile ==
    (op1 :> [kind |-> "reconcilable", window |-> 1, reconcile |-> TRUE]) @@
    (op2 :> [kind |-> "read-only", window |-> NoWindow, reconcile |-> FALSE])

MCRank == op1 :> 1 @@ op2 :> 2

Ask(kind, state, limit, memory) ==
    [kind |-> kind, op |-> op1, state |-> state, limit |-> limit, memory |-> memory]

MCRequests ==
    {Ask("none", "any", 1, FALSE), Ask("history", "any", 2, FALSE),
     Ask("list", "any", 1, FALSE), Ask("list", "dispatched", 1, TRUE)}

MCSymmetry == Permutations(Runtimes)

\* A reader needs records that move, not their whole lives.
Bound ==
    CASE request.kind = "none" -> op1 :> MaxRevision @@ op2 :> MaxRevision - 2
      [] request.kind = "history" -> op1 :> 4 @@ op2 :> 0
      [] request.kind = "list" -> op1 :> 3 @@ op2 :> 2

MCNext == HistoryNext /\ \A op \in Ops : records'[op].rev <= Bound[op]

MCSpec == HistoryInit /\ [][MCNext]_historyVars
=============================================================================
