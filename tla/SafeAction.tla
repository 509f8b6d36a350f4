----------------------------- MODULE SafeAction -----------------------------
(***************************************************************************)
(* What Ordarium promises, without records, leases, tokens or retries: an  *)
(* operation takes its external effect at most once, ends at most once, in *)
(* an outcome that agrees with the effect, and every call that is told how *)
(* its operation ended is told that outcome.                               *)
(*                                                                         *)
(* OperationRuntime implements this specification.                         *)
(***************************************************************************)
EXTENDS Naturals

CONSTANTS Ops,          \* operation ids
          Calls,        \* calls of run() and reconcileOnly()
          Effectful     \* the operations that have an external effect

VARIABLES target,       \* target[c]: the operation call c is about
          outcome,      \* outcome[op]: how op ended, "open" until then
          effects,      \* effects[op]: how often op has had its effect
          told          \* told[c]: what call c was told, "waiting" until then

vars == <<target, outcome, effects, told>>

Endings == {"succeeded", "failed", "cancelled", "denied"}

Init ==
    /\ target \in [Calls -> Ops]
    /\ outcome = [op \in Ops |-> "open"]
    /\ effects = [op \in Ops |-> 0]
    /\ told = [c \in Calls |-> "waiting"]

\* The effect happens only while the operation is open, and once.
TakeEffect(op) ==
    /\ op \in Effectful
    /\ outcome[op] = "open"
    /\ effects[op] = 0
    /\ effects' = [effects EXCEPT ![op] = 1]
    /\ UNCHANGED <<target, outcome, told>>

AgreesWithEffect(op, ending) ==
    op \in Effectful => effects[op] = (IF ending = "succeeded" THEN 1 ELSE 0)

\* The operation ends; the call that ended it, if one did, is told at once.
End(op, ending) ==
    /\ outcome[op] = "open"
    /\ AgreesWithEffect(op, ending)
    /\ outcome' = [outcome EXCEPT ![op] = ending]
    /\ \/ UNCHANGED told
       \/ \E c \in Calls : /\ target[c] = op /\ told[c] = "waiting"
                           /\ told' = [told EXCEPT ![c] = ending]
    /\ UNCHANGED <<target, effects>>

\* A call is told the ending, or that it has to be asked for again.
Tell(c) ==
    /\ told[c] = "waiting"
    /\ \E answer \in {"unsettled", outcome[target[c]]} \ {"open"} :
        told' = [told EXCEPT ![c] = answer]
    /\ UNCHANGED <<target, outcome, effects>>

Next ==
    \/ \E op \in Ops : TakeEffect(op) \/ \E ending \in Endings : End(op, ending)
    \/ \E c \in Calls : Tell(c)

Spec == Init /\ [][Next]_vars
=============================================================================
