--------------------------- MODULE RecoveryPolicy ---------------------------
(***************************************************************************)
(* The pure recovery evaluator (core/src/recovery.ts): which path a        *)
(* claimed operation takes when an earlier attempt may have run.           *)
(***************************************************************************)
EXTENDS OperationRecords

RecoveryMode == {"normal", "reconcile-only"}

RecoveryDecision ==
    {"query", "redispatch-same-key", "no-safe-recovery-path", "reconcile-only",
     "idempotency-expired", "reconcile-absent"}

evaluateSameKeyRedispatch(rec, operationKeyUsable, mode, t) ==
    CASE ~ operationKeyUsable                 -> "no-safe-recovery-path"
      [] operationKeyUsable /\ mode = "reconcile-only" -> "reconcile-only"
      [] operationKeyUsable /\ mode = "normal" ->
            IF idempotencyDeadlinePassed(rec, t) THEN "idempotency-expired"
                                                 ELSE "redispatch-same-key"

\* Path selection before any Provider call.
evaluateRecovery(op, rec, mode, t) ==
    IF Profile[op].reconcile
    THEN "query"
    ELSE evaluateSameKeyRedispatch(rec, usesOperationKey(op), mode, t)

TrustAnyAbsence(rec, retrySafe, mode, t) ==     \* mutant: ignores safeToRetry
    evaluateSameKeyRedispatch(rec, TRUE, mode, t)

\* After a query answered "absent": the caller of the evaluator does not ask
\* whether the operation has a usable key.
evaluateAuthoritativeAbsence(rec, retrySafe, mode, t) ==
    IF retrySafe THEN evaluateSameKeyRedispatch(rec, TRUE, mode, t) ELSE "reconcile-absent"
=============================================================================
