-------------------------- MODULE OperationRecords --------------------------
(***************************************************************************)
(* The durable OperationRecord: its shape (core/src/types.ts), the effect  *)
(* profile it is created under (core/src/effects.ts, core/src/action.ts),  *)
(* the patch each call site of the runtime applies to it, and the          *)
(* cross-state invariants the codec enforces whenever a record is written  *)
(* or read (core/src/codec.ts).                                            *)
(*                                                                         *)
(* Payloads are reduced to what the control flow tests: a result, a safe   *)
(* error and an uncertainty record are present or absent; an authorization *)
(* is its decision; a principal digest is a value of Principals.  The      *)
(* input digest, logical key and contract fingerprint are the same in      *)
(* every call that reaches one operation id, so they do not appear.        *)
(***************************************************************************)
EXTENDS Integers

CONSTANTS Ops,          \* operation ids
          Runtimes,     \* runtime owner ids
          Principals,   \* Provider principal digests
          Profile       \* Profile[op]: the effect profile of op's Action

Nobody == "nobody"

EffectKinds == {"read-only", "guarded", "idempotent", "reconcilable", "unmanaged"}
NoWindow == -2          \* a reconcilable profile without idempotencyWindow
DurableWindow == -1     \* { kind: "durable" }; n > 0 is a finite window of n ticks

EffectProfile ==
    [kind : EffectKinds, window : Nat \cup {NoWindow, DurableWindow}, reconcile : BOOLEAN]

\* defineAction: every reconcilable Action implements reconcile(), an
\* idempotent profile always has a window, a finite window is positive.
IsDefinable(profile) ==
    /\ profile.kind = "reconcilable" => profile.reconcile
    /\ profile.kind = "idempotent" => profile.window # NoWindow
    /\ profile.window # 0
    /\ profile.kind \notin {"idempotent", "reconcilable"} => profile.window = NoWindow

ASSUME RecordsAssumption ==
    /\ Nobody \notin Runtimes /\ Nobody \notin Principals
    /\ Profile \in [Ops -> EffectProfile]
    /\ \A op \in Ops : IsDefinable(Profile[op])

requiresAuthorization(op) == Profile[op].kind \notin {"read-only", "unmanaged"}
hasExternalSideEffect(op) == Profile[op].kind # "read-only"
usesOperationKey(op) ==
    \/ Profile[op].kind = "idempotent"
    \/ Profile[op].kind = "reconcilable" /\ Profile[op].window # NoWindow

NoDeadline == -1

\* The deadline is computed from the creation clock and frozen in the record.
idempotencyDeadlineOf(op, t) ==
    IF Profile[op].window \in {NoWindow, DurableWindow}
    THEN NoDeadline
    ELSE t + Profile[op].window

-----------------------------------------------------------------------------
TerminalStates == {"succeeded", "failed", "cancelled", "denied", "reconciled"}
Claimable == {"authorized", "dispatched", "uncertain"}
OperationStates == TerminalStates \cup Claimable \cup {"proposed", "claimed"}

NoClaim == [owner |-> Nobody, token |-> 0, resumeFrom |-> "none"]

OperationClaim ==
    [owner : Runtimes \cup {Nobody}, token : Nat, resumeFrom : Claimable \cup {"none"}]

\* "absent" is the state of an operation id the ledger holds no record for.
OperationRecord ==
    [state : OperationStates \cup {"absent"},
     rev : Nat,
     attempts : Nat,
     token : Nat,
     claim : OperationClaim,
     authorization : {"none", "allow", "deny"},
     principal : Principals \cup {Nobody},
     uncertainty : BOOLEAN,
     result : BOOLEAN,
     error : BOOLEAN,
     reconciliation : {"none", "succeeded", "failed"},
     expiresAt : Nat \cup {NoDeadline}]

Absent ==
    [state |-> "absent", rev |-> 0, attempts |-> 0, token |-> 0, claim |-> NoClaim,
     authorization |-> "none", principal |-> Nobody, uncertainty |-> FALSE,
     result |-> FALSE, error |-> FALSE, reconciliation |-> "none",
     expiresAt |-> NoDeadline]

Exists(rec) == rec.state # "absent"
Terminal(rec) == rec.state \in TerminalStates
HasClaim(rec) == rec.claim # NoClaim
IsSuccess(rec) ==
    rec.state = "succeeded" \/ (rec.state = "reconciled" /\ rec.reconciliation = "succeeded")

idempotencyDeadlinePassed(rec, t) == rec.expiresAt # NoDeadline /\ rec.expiresAt <= t

-----------------------------------------------------------------------------
(***************************************************************************)
(* The record each call site writes: a patch over the next revision of the *)
(* record it was derived from.                                             *)
(***************************************************************************)
Revised(rec) == [rec EXCEPT !.rev = @ + 1]
Attempted(rec) == [Revised(rec) EXCEPT !.attempts = @ + 1]

ProposedRecord(op, p, t) ==
    [Absent EXCEPT !.state = "proposed",
                   !.principal = p,
                   !.expiresAt = idempotencyDeadlineOf(op, t)]

BoundRecord(rec, p) == [Revised(rec) EXCEPT !.principal = p]

AuthorizedRecord(rec, decision) ==
    [Revised(rec) EXCEPT
        !.state = IF decision = "allow" THEN "authorized" ELSE "denied",
        !.authorization = decision]

CancelledRecord(rec) ==
    [Revised(rec) EXCEPT
        !.state = "cancelled", !.claim = NoClaim, !.uncertainty = FALSE]

ClaimedRecord(rec, owner, token, resumeFrom) ==
    [Revised(rec) EXCEPT
        !.state = "claimed", !.token = token,
        !.claim = [owner |-> owner, token |-> token, resumeFrom |-> resumeFrom]]

DispatchedRecord(rec) ==
    [Attempted(rec) EXCEPT
        !.state = "dispatched", !.claim.resumeFrom = "none", !.uncertainty = FALSE]

SucceededRecord(rec) ==
    [Revised(rec) EXCEPT
        !.state = "succeeded", !.claim = NoClaim,
        !.result = TRUE, !.error = FALSE, !.uncertainty = FALSE]

FailedRecord(rec) ==
    [Revised(rec) EXCEPT
        !.state = "failed", !.claim = NoClaim, !.error = TRUE]

UncertainRecordKeepingClaim(rec) ==     \* mutant: the claim is not released
    [Revised(rec) EXCEPT
        !.state = "uncertain", !.uncertainty = TRUE]

UncertainRecord(rec) ==
    [Revised(rec) EXCEPT
        !.state = "uncertain", !.claim = NoClaim, !.uncertainty = TRUE]

ReconciledRecord(rec, outcome) ==
    [Revised(rec) EXCEPT
        !.state = "reconciled", !.claim = NoClaim,
        !.reconciliation = outcome, !.uncertainty = FALSE,
        !.result = @ \/ outcome = "succeeded",
        !.error = (outcome = "failed")]

-----------------------------------------------------------------------------
\* assertCrossStateInvariants: a record that violates one of these is refused
\* on write and treated as corruption on read.
WellFormed(rec) ==
    /\ rec.rev = 0 => rec.state = "proposed"
    /\ rec.state = "proposed" => rec.authorization = "none"
    /\ rec.state = "authorized" => rec.authorization = "allow"
    /\ rec.state = "denied" => rec.authorization = "deny"
    /\ HasClaim(rec) => rec.state \in {"claimed", "dispatched"}
    /\ HasClaim(rec) => rec.claim.token = rec.token
    /\ rec.claim.resumeFrom # "none" => rec.state = "claimed"
    /\ rec.uncertainty => \/ rec.state = "uncertain"
                          \/ rec.state = "claimed" /\ rec.claim.resumeFrom = "uncertain"
    /\ rec.state = "succeeded" => rec.result
    /\ rec.state = "failed" => rec.error
    /\ rec.state = "reconciled" =>
        /\ rec.reconciliation # "none"
        /\ rec.reconciliation = "succeeded" => rec.result
        /\ rec.reconciliation = "failed" => rec.error
=============================================================================
