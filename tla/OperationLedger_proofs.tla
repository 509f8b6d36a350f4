----------------------- MODULE OperationLedger_proofs -----------------------
(***************************************************************************)
(* What the ledger keeps for every set of operations, runtimes and         *)
(* principals, every profile and every lease length.  A step of the ledger *)
(* touches one operation, so each property is proved of one operation and  *)
(* one kind of step; lemma OperationStep names the kinds.                  *)
(***************************************************************************)
EXTENDS OperationLedger, TLAPS

-----------------------------------------------------------------------------
(***************************************************************************)
(* Types of the records the call sites write.                              *)
(***************************************************************************)

\* The clock and a profile's window give a deadline, or none.
LEMMA DeadlineType ==
    ASSUME NEW op \in Ops, NEW t \in Nat
    PROVE  idempotencyDeadlineOf(op, t) \in Nat \cup {NoDeadline}
<1>1. Profile[op].window \in Nat \cup {NoWindow, DurableWindow}
    BY RecordsAssumption DEF EffectProfile
<1>2. CASE Profile[op].window \in {NoWindow, DurableWindow}
    BY <1>2 DEF idempotencyDeadlineOf
<1>3. CASE Profile[op].window \in Nat /\ Profile[op].window \notin {NoWindow, DurableWindow}
    BY <1>3 DEF idempotencyDeadlineOf
<1> QED BY <1>1, <1>2, <1>3

\* No claim is a claim value, and no record is a record value.
LEMMA NoClaimType == NoClaim \in OperationClaim
    BY DEF NoClaim, OperationClaim

LEMMA AbsentType == Absent \in OperationRecord
    BY DEF Absent, OperationRecord, OperationClaim, NoClaim, NoDeadline

\* The record create() is given, and the revised records that patches extend.
LEMMA ProposedType ==
    ASSUME NEW op \in Ops, NEW p \in Principals \cup {Nobody}, NEW t \in Nat
    PROVE  ProposedRecord(op, p, t) \in OperationRecord
    BY DeadlineType, AbsentType DEF ProposedRecord, OperationRecord, OperationStates

LEMMA RevisedType ==
    ASSUME NEW rec \in OperationRecord
    PROVE  Revised(rec) \in OperationRecord
    BY DEF Revised, OperationRecord

LEMMA AttemptedType ==
    ASSUME NEW rec \in OperationRecord
    PROVE  Attempted(rec) \in OperationRecord
    BY RevisedType DEF Attempted, OperationRecord

\* The patches with a computed field.
LEMMA AuthorizedType ==
    ASSUME NEW rec \in OperationRecord, NEW decision \in {"allow", "deny"}
    PROVE  AuthorizedRecord(rec, decision) \in OperationRecord
<1> DEFINE state == IF decision = "allow" THEN "authorized" ELSE "denied"
<1>1. state \in OperationStates
    BY DEF OperationStates, TerminalStates, Claimable
<1>2. AuthorizedRecord(rec, decision) =
        [Revised(rec) EXCEPT !.state = state, !.authorization = decision]
    BY DEF AuthorizedRecord
<1> HIDE DEF state
<1> QED BY ZenonT(30), RevisedType, <1>1, <1>2 DEF OperationRecord

LEMMA DispatchedType ==
    ASSUME NEW rec \in OperationRecord
    PROVE  DispatchedRecord(rec) \in OperationRecord
<1> DEFINE claim == [Attempted(rec).claim EXCEPT !.resumeFrom = "none"]
<1>1. Attempted(rec).claim \in OperationClaim
    BY AttemptedType DEF OperationRecord
<1>2. claim \in OperationClaim
    BY <1>1 DEF OperationClaim
<1>3. "dispatched" \in OperationStates
    BY DEF OperationStates, Claimable
<1> QED BY ZenonT(30), AttemptedType, <1>2, <1>3 DEF DispatchedRecord, OperationRecord

LEMMA ReconciledType ==
    ASSUME NEW rec \in OperationRecord, NEW outcome \in {"succeeded", "failed"}
    PROVE  ReconciledRecord(rec, outcome) \in OperationRecord
<1> DEFINE result == Revised(rec).result \/ outcome = "succeeded"
           error == (outcome = "failed")
<1>1. result \in BOOLEAN /\ error \in BOOLEAN
    OBVIOUS
<1>2. "reconciled" \in OperationStates
    BY DEF OperationStates, TerminalStates
<1>3. ReconciledRecord(rec, outcome) =
        [Revised(rec) EXCEPT
            !.state = "reconciled", !.claim = NoClaim,
            !.reconciliation = outcome, !.uncertainty = FALSE,
            !.result = result, !.error = error]
    BY DEF ReconciledRecord
<1> HIDE DEF result, error
<1> QED BY ZenonT(30), RevisedType, NoClaimType, <1>1, <1>2, <1>3 DEF OperationRecord

LEMMA ClaimedType ==
    ASSUME NEW rec \in OperationRecord, NEW owner \in Runtimes, NEW token \in Nat,
           NEW resumeFrom \in Claimable
    PROVE  ClaimedRecord(rec, owner, token, resumeFrom) \in OperationRecord
<1> DEFINE claim == [owner |-> owner, token |-> token, resumeFrom |-> resumeFrom]
<1>1. claim \in OperationClaim
    BY DEF OperationClaim
<1>2. "claimed" \in OperationStates
    BY DEF OperationStates
<1> QED BY ZenonT(30), RevisedType, <1>1, <1>2 DEF ClaimedRecord, OperationRecord

\* Every record a client may write over a record is a record.
LEMMA SuccessorsType ==
    ASSUME NEW op \in Ops, NEW rec \in OperationRecord, NEW next \in Successors(op, rec)
    PROVE  next \in OperationRecord
<1>1. {"cancelled", "succeeded", "failed", "uncertain"} \subseteq OperationStates
    BY DEF OperationStates, TerminalStates, Claimable
<1>2. CASE next \in AuthorizationSuccessors(rec)
    BY <1>2, AuthorizedType DEF AuthorizationSuccessors
<1>3. CASE next \in CancelSuccessors(rec)
    BY ZenonT(30), <1>1, <1>3, RevisedType, NoClaimType
    DEF CancelSuccessors, CancelledRecord, OperationRecord
<1>4. CASE next \in DispatchSuccessors(rec)
    BY <1>4, DispatchedType DEF DispatchSuccessors
<1>5. CASE next \in ReconcileSuccessors(op, rec)
    BY <1>5, ReconciledType DEF ReconcileSuccessors
<1>6. CASE next \in ExecutionSuccessors(op, rec)
  <2>1. SucceededRecord(rec) \in OperationRecord
    BY <1>1, RevisedType, NoClaimType DEF SucceededRecord, OperationRecord
  <2>2. FailedRecord(rec) \in OperationRecord
    BY ZenonT(30), <1>1, RevisedType, NoClaimType DEF FailedRecord, OperationRecord
  <2>3. CancelledRecord(rec) \in OperationRecord
    BY ZenonT(30), <1>1, RevisedType, NoClaimType DEF CancelledRecord, OperationRecord
  <2> QED BY <1>6, <2>1, <2>2, <2>3 DEF ExecutionSuccessors
<1>7. CASE next \in UncertainSuccessors(rec)
    BY ZenonT(30), <1>1, <1>7, RevisedType, NoClaimType
    DEF UncertainSuccessors, UncertainRecord, OperationRecord
<1>8. CASE next \in BindingSuccessors(rec)
    BY <1>8, RevisedType DEF BindingSuccessors, BoundRecord, OperationRecord
<1> QED BY <1>2, <1>3, <1>4, <1>5, <1>6, <1>7, <1>8 DEF Successors

-----------------------------------------------------------------------------
(***************************************************************************)
(* The kinds of step, seen from one operation.                             *)
(***************************************************************************)
Untouched(op) == UNCHANGED <<records[op], leases[op]>>

Created(op) ==
    /\ ~ Exists(records[op])
    /\ \E p \in Principals \cup {Nobody} : records'[op] = ProposedRecord(op, p, now)
    /\ leases'[op] = leases[op]

Advanced(op) ==
    /\ Exists(records[op])
    /\ records'[op] \in Successors(op, records[op])
    /\ leases'[op] = IF HasClaim(records'[op]) THEN leases[op] ELSE NoLease

TakenBy(op, owner) ==
    /\ records[op].state \in Claimable
    /\ ~ HeldAgainst(leases[op], owner, now)
    /\ records'[op] =
        ClaimedRecord(records[op], owner, records[op].token + 1, records[op].state)
    /\ leases'[op] =
        [owner |-> owner, token |-> records[op].token + 1, expiresAt |-> now + LeaseMs]

Renewed(op) ==
    /\ Held(leases[op])
    /\ records'[op] = records[op]
    /\ leases'[op] = [leases[op] EXCEPT !.expiresAt = now + LeaseMs]

OperationMoved(op) ==
    \/ Untouched(op) \/ Created(op) \/ Advanced(op) \/ Renewed(op)
    \/ \E owner \in Runtimes : TakenBy(op, owner)

\* Every step of the ledger is one of these for every operation.
LEMMA OperationStep ==
    ASSUME LedgerTypeOK, [LedgerNext]_ledgerVars, NEW op \in Ops
    PROVE  OperationMoved(op)
<1> USE DEF LedgerTypeOK
<1>1. ASSUME NEW o \in Ops, Submit(o)
      PROVE  OperationMoved(op)
    BY <1>1 DEF Submit, Create, Created, Untouched, OperationMoved
<1>2. ASSUME NEW o \in Ops, Advance(o)
      PROVE  OperationMoved(op)
    BY <1>2 DEF Advance, CasAccepts, CompareAndSet, Advanced, Untouched, OperationMoved
<1>3. ASSUME NEW o \in Ops, NEW owner \in Runtimes, TakeOwnership(o, owner)
      PROVE  OperationMoved(op)
  <2>1. CASE o = op
    BY <1>3, <2>1 DEF TakeOwnership, ClaimAccepts, Claim, TakenBy, OperationMoved
  <2>2. CASE o # op
    BY <1>3, <2>2 DEF TakeOwnership, Claim, Untouched, OperationMoved
  <2> QED BY <2>1, <2>2
<1>4. ASSUME NEW o \in Ops, Heartbeat(o)
      PROVE  OperationMoved(op)
  <2>1. CASE o = op
    BY <1>4, <2>1 DEF Heartbeat, RenewAccepts, RenewLease, Renewed, OperationMoved
  <2>2. CASE o # op
    BY <1>4, <2>2 DEF Heartbeat, RenewLease, Untouched, OperationMoved
  <2> QED BY <2>1, <2>2
<1>5. CASE Tick
    BY <1>5 DEF Tick, Untouched, OperationMoved
<1>6. CASE UNCHANGED ledgerVars
    BY <1>6 DEF ledgerVars, Untouched, OperationMoved
<1> QED BY <1>1, <1>2, <1>3, <1>4, <1>5, <1>6 DEF LedgerNext

-----------------------------------------------------------------------------
(***************************************************************************)
(* Type correctness.                                                       *)
(***************************************************************************)
LEMMA NoLeaseType == NoLease \in LiveLease
    BY DEF NoLease, LiveLease

\* One operation's record and lease stay values of their types.
LEMMA OperationTypeStep ==
    ASSUME NEW op \in Ops, LedgerTypeOK, OperationMoved(op)
    PROVE  records'[op] \in OperationRecord /\ leases'[op] \in LiveLease
<1>1. records[op] \in OperationRecord /\ leases[op] \in LiveLease /\ now \in Nat
    BY ClockAssumption DEF LedgerTypeOK
<1>2. now + LeaseMs \in Nat /\ records[op].token + 1 \in Nat
    BY <1>1, ClockAssumption DEF OperationRecord
<1>3. CASE Untouched(op)
    BY <1>1, <1>3 DEF Untouched
<1>4. CASE Created(op)
    BY <1>1, <1>4, ProposedType DEF Created
<1>5. CASE Advanced(op)
    BY <1>1, <1>5, SuccessorsType, NoLeaseType DEF Advanced
<1>6. CASE Renewed(op)
    BY <1>1, <1>2, <1>6 DEF Renewed, LiveLease
<1>7. ASSUME NEW owner \in Runtimes, TakenBy(op, owner)
      PROVE  records'[op] \in OperationRecord /\ leases'[op] \in LiveLease
  <2>1. records'[op] \in OperationRecord
    BY <1>1, <1>2, <1>7, ClaimedType DEF TakenBy
  <2>2. leases'[op] \in LiveLease
    BY <1>2, <1>7 DEF TakenBy, LiveLease
  <2> QED BY <2>1, <2>2
<1> QED BY <1>3, <1>4, <1>5, <1>6, <1>7 DEF OperationMoved

\* The ledger's tables stay functions on the operations, the clock in range.
LEMMA TablesStep ==
    ASSUME LedgerTypeOK, [LedgerNext]_ledgerVars
    PROVE  /\ records' = [op \in Ops |-> records'[op]]
           /\ leases' = [op \in Ops |-> leases'[op]]
           /\ now' \in 0..MaxClock
<1> USE DEF LedgerTypeOK
<1>1. ASSUME NEW o \in Ops, Submit(o) \/ Advance(o) \/ Heartbeat(o)
      PROVE  /\ records' = [op \in Ops |-> records'[op]]
             /\ leases' = [op \in Ops |-> leases'[op]]
             /\ now' \in 0..MaxClock
    BY <1>1 DEF Submit, Create, Advance, CompareAndSet, Heartbeat, RenewLease
<1>2. ASSUME NEW o \in Ops, NEW owner \in Runtimes, TakeOwnership(o, owner)
      PROVE  /\ records' = [op \in Ops |-> records'[op]]
             /\ leases' = [op \in Ops |-> leases'[op]]
             /\ now' \in 0..MaxClock
    BY <1>2 DEF TakeOwnership, Claim
<1>3. CASE Tick
    BY <1>3, ClockAssumption DEF Tick
<1>4. CASE UNCHANGED ledgerVars
    BY <1>4 DEF ledgerVars
<1> QED BY <1>1, <1>2, <1>3, <1>4 DEF LedgerNext

LEMMA TypeInit == LedgerInit => LedgerTypeOK
    BY AbsentType, NoLeaseType, ClockAssumption DEF LedgerInit, LedgerTypeOK

LEMMA TypeStep == LedgerTypeOK /\ [LedgerNext]_ledgerVars => LedgerTypeOK'
<1> SUFFICES ASSUME LedgerTypeOK, [LedgerNext]_ledgerVars
             PROVE  LedgerTypeOK'
    OBVIOUS
<1>1. \A op \in Ops : records'[op] \in OperationRecord /\ leases'[op] \in LiveLease
    BY OperationStep, OperationTypeStep
<1> QED BY <1>1, TablesStep DEF LedgerTypeOK

\* Whatever its clients do, the ledger holds records and leases.
THEOREM LedgerTypeCorrect == LedgerSpec => []LedgerTypeOK
    BY TypeInit, TypeStep, PTL DEF LedgerSpec

-----------------------------------------------------------------------------
(***************************************************************************)
(* Leases and claims.                                                      *)
(***************************************************************************)

\* What a patch makes of the claim: it keeps it, clears resumeFrom, or drops it.
LEMMA SuccessorsClaim ==
    ASSUME NEW op \in Ops, NEW rec \in OperationRecord, NEW next \in Successors(op, rec)
    PROVE  \/ next.claim = NoClaim /\ next.state \notin {"claimed", "dispatched"}
           \/ next.claim = rec.claim /\ next.state = rec.state
           \/ /\ rec.state = "proposed" /\ next.state \in {"authorized", "denied"}
              /\ next.claim = rec.claim
           \/ /\ rec.state = "claimed" /\ next.state = "dispatched"
              /\ next.claim = [rec.claim EXCEPT !.resumeFrom = "none"]
<1> USE DEF OperationRecord, Revised
<1>1. CASE next \in AuthorizationSuccessors(rec)
    BY <1>1 DEF AuthorizationSuccessors, AuthorizedRecord
<1>2. CASE next \in CancelSuccessors(rec)
    BY <1>2 DEF CancelSuccessors, CancelledRecord
<1>3. CASE next \in DispatchSuccessors(rec)
    BY <1>3 DEF DispatchSuccessors, DispatchedRecord, Attempted
<1>4. CASE next \in ReconcileSuccessors(op, rec)
    BY ZenonT(30), <1>4 DEF ReconcileSuccessors, ReconciledRecord
<1>5. CASE next \in ExecutionSuccessors(op, rec)
    BY <1>5 DEF ExecutionSuccessors, SucceededRecord, FailedRecord, CancelledRecord
<1>6. CASE next \in UncertainSuccessors(rec)
    BY <1>6 DEF UncertainSuccessors, UncertainRecord
<1>7. CASE next \in BindingSuccessors(rec)
    BY <1>7 DEF BindingSuccessors, BoundRecord
<1> QED BY <1>1, <1>2, <1>3, <1>4, <1>5, <1>6, <1>7 DEF Successors

\* Only a claim issues a token, only a dispatch counts an attempt.
LEMMA SuccessorsCounters ==
    ASSUME NEW op \in Ops, NEW rec \in OperationRecord, NEW next \in Successors(op, rec)
    PROVE  /\ next.token = rec.token
           /\ next.rev = rec.rev + 1
           /\ \/ next.attempts = rec.attempts /\ (next.state = "claimed" => rec.state = "claimed")
              \/ /\ rec.state = "claimed" /\ next.state = "dispatched"
                 /\ next.attempts = rec.attempts + 1
<1> USE DEF OperationRecord, Revised
<1>1. CASE next \in AuthorizationSuccessors(rec)
    BY <1>1 DEF AuthorizationSuccessors, AuthorizedRecord
<1>2. CASE next \in CancelSuccessors(rec)
    BY <1>2 DEF CancelSuccessors, CancelledRecord
<1>3. CASE next \in DispatchSuccessors(rec)
    BY <1>3 DEF DispatchSuccessors, DispatchedRecord, Attempted
<1>4. CASE next \in ReconcileSuccessors(op, rec)
    BY ZenonT(30), <1>4 DEF ReconcileSuccessors, ReconciledRecord
<1>5. CASE next \in ExecutionSuccessors(op, rec)
    BY <1>5 DEF ExecutionSuccessors, SucceededRecord, FailedRecord, CancelledRecord
<1>6. CASE next \in UncertainSuccessors(rec)
    BY <1>6 DEF UncertainSuccessors, UncertainRecord
<1>7. CASE next \in BindingSuccessors(rec)
    BY <1>7 DEF BindingSuccessors, BoundRecord
<1> QED BY <1>1, <1>2, <1>3, <1>4, <1>5, <1>6, <1>7 DEF Successors

\* No patch removes a record.
LEMMA SuccessorsState ==
    ASSUME NEW op \in Ops, NEW rec \in OperationRecord, rec.state # "absent",
           NEW next \in Successors(op, rec)
    PROVE  next.state # "absent"
<1> USE DEF OperationRecord, Revised
<1>1. CASE next \in AuthorizationSuccessors(rec)
    BY <1>1 DEF AuthorizationSuccessors, AuthorizedRecord
<1>2. CASE next \in CancelSuccessors(rec)
    BY <1>2 DEF CancelSuccessors, CancelledRecord
<1>3. CASE next \in DispatchSuccessors(rec)
    BY <1>3 DEF DispatchSuccessors, DispatchedRecord, Attempted
<1>4. CASE next \in ReconcileSuccessors(op, rec)
    BY <1>4 DEF ReconcileSuccessors, ReconciledRecord
<1>5. CASE next \in ExecutionSuccessors(op, rec)
    BY <1>5 DEF ExecutionSuccessors, SucceededRecord, FailedRecord, CancelledRecord
<1>6. CASE next \in UncertainSuccessors(rec)
    BY <1>6 DEF UncertainSuccessors, UncertainRecord
<1>7. CASE next \in BindingSuccessors(rec)
    BY <1>7 DEF BindingSuccessors, BoundRecord
<1> QED BY <1>1, <1>2, <1>3, <1>4, <1>5, <1>6, <1>7 DEF Successors

\* One operation's lease keeps backing its claim.
LEMMA OperationLeaseStep ==
    ASSUME NEW op \in Ops, LedgerTypeOK, ClaimIsLeased(records[op], leases[op]),
           OperationMoved(op)
    PROVE  ClaimIsLeased(records'[op], leases'[op])
<1> DEFINE rec == records[op]
           lease == leases[op]
<1>1. rec \in OperationRecord /\ lease \in LiveLease /\ now \in Nat
    BY ClockAssumption DEF LedgerTypeOK
<1>2. CASE Untouched(op)
    BY <1>2 DEF Untouched
<1>3. CASE Created(op)
  <2>1. ~ HasClaim(rec) /\ ~ Held(lease)
    BY <1>3 DEF Created, Exists, ClaimIsLeased
  <2>2. records'[op].claim = NoClaim /\ records'[op].state = "proposed"
    BY <1>3 DEF Created, ProposedRecord, Absent
  <2> QED BY <1>3, <2>1, <2>2 DEF Created, ClaimIsLeased, HasClaim
<1>4. CASE Advanced(op)
  <2> DEFINE next == records'[op]
  <2>1. next \in Successors(op, rec)
    BY <1>4 DEF Advanced
  <2>2. next.token = rec.token
    BY <1>1, <2>1, SuccessorsCounters
  <2>3. CASE next.claim = NoClaim /\ next.state \notin {"claimed", "dispatched"}
    BY <1>4, <2>3 DEF Advanced, ClaimIsLeased, HasClaim, Held
  <2>4. CASE next.claim = rec.claim /\ next.state = rec.state
    BY <1>4, <2>2, <2>4 DEF Advanced, ClaimIsLeased, HasClaim, Held
  <2>5. CASE /\ next.claim = rec.claim /\ rec.state = "proposed"
             /\ next.state \in {"authorized", "denied"}
    BY <1>4, <2>2, <2>5 DEF Advanced, ClaimIsLeased, HasClaim, Held
  <2>6. CASE /\ rec.state = "claimed" /\ next.state = "dispatched"
             /\ next.claim = [rec.claim EXCEPT !.resumeFrom = "none"]
    <3>1. rec.claim \in OperationClaim /\ rec.claim.owner \in Runtimes /\ Held(lease)
      BY <1>1, <2>6 DEF OperationRecord, ClaimIsLeased
    <3>2. next.claim.owner = rec.claim.owner /\ next.claim.token = rec.claim.token
      BY <2>6, <3>1 DEF OperationClaim
    <3>3. HasClaim(next)
      BY <3>1, <3>2, RecordsAssumption DEF HasClaim, NoClaim
    <3> QED BY <1>4, <2>2, <2>6, <3>1, <3>2, <3>3 DEF Advanced, ClaimIsLeased
  <2> QED BY <1>1, <2>1, <2>3, <2>4, <2>5, <2>6, SuccessorsClaim
<1>5. CASE Renewed(op)
  <2>1. /\ leases'[op].owner = lease.owner /\ leases'[op].token = lease.token
        /\ Held(lease) /\ records'[op] = rec
    BY <1>1, <1>5 DEF Renewed, LiveLease
  <2>2. lease.owner \in Runtimes
    BY <2>1 DEF ClaimIsLeased
  <2>3. Held(leases'[op])
    BY <2>1, <2>2, RecordsAssumption DEF Held, NoLease
  <2> QED BY <2>1, <2>3 DEF ClaimIsLeased
<1>6. ASSUME NEW owner \in Runtimes, TakenBy(op, owner)
      PROVE  ClaimIsLeased(records'[op], leases'[op])
  <2> DEFINE next == records'[op]
  <2>1. /\ next.state = "claimed" /\ next.token = rec.token + 1
        /\ next.claim.owner = owner /\ next.claim.token = rec.token + 1
    BY <1>1, <1>6, RevisedType DEF TakenBy, ClaimedRecord, OperationRecord
  <2>2. leases'[op].owner = owner /\ leases'[op].token = rec.token + 1
    BY <1>6 DEF TakenBy
  <2>3. HasClaim(next) /\ Held(leases'[op])
    BY <2>1, <2>2, RecordsAssumption DEF HasClaim, NoClaim, Held, NoLease
  <2> QED BY <2>1, <2>2, <2>3 DEF ClaimIsLeased
<1> QED BY <1>2, <1>3, <1>4, <1>5, <1>6 DEF OperationMoved

LEMMA LeaseInit == LedgerInit => LeaseBacksClaim
<1>1. Absent.claim = NoClaim /\ Absent.state = "absent"
    BY DEF Absent
<1>2. ClaimIsLeased(Absent, NoLease)
    BY <1>1 DEF ClaimIsLeased, HasClaim, Held
<1> QED BY <1>2 DEF LedgerInit, LeaseBacksClaim

LEMMA LeaseStep ==
    LedgerTypeOK /\ LeaseBacksClaim /\ [LedgerNext]_ledgerVars => LeaseBacksClaim'
    BY OperationStep, OperationLeaseStep DEF LeaseBacksClaim

\* Two tables, one truth: a lease exists exactly while its operation is owned,
\* for its owner and under its last fencing token.
THEOREM LeaseBacksClaimAlways == LedgerSpec => []LeaseBacksClaim
    BY LeaseInit, LeaseStep, LedgerTypeCorrect, PTL DEF LedgerSpec

-----------------------------------------------------------------------------
(***************************************************************************)
(* Attempts and fencing tokens.                                            *)
(***************************************************************************)
LEMMA CountersInit == LedgerInit => AttemptsNeverOvertakeTokens
<1>1. Absent.attempts = 0 /\ Absent.token = 0 /\ Absent.state = "absent"
    BY DEF Absent
<1>2. LedgerInit => \A op \in Ops : records[op] = Absent
    BY DEF LedgerInit
<1>3. Absent.attempts <= Absent.token /\ Absent.state # "claimed"
    BY <1>1
<1> HIDE DEF Absent
<1> QED BY <1>2, <1>3 DEF AttemptsNeverOvertakeTokens

LEMMA CountersStep ==
    LedgerTypeOK /\ AttemptsNeverOvertakeTokens /\ [LedgerNext]_ledgerVars
        => AttemptsNeverOvertakeTokens'
<1> SUFFICES ASSUME LedgerTypeOK, AttemptsNeverOvertakeTokens, [LedgerNext]_ledgerVars,
                    NEW op \in Ops
             PROVE  /\ records'[op].attempts <= records'[op].token
                    /\ records'[op].state = "claimed"
                          => records'[op].attempts < records'[op].token
    BY DEF AttemptsNeverOvertakeTokens
<1> DEFINE rec == records[op]
           next == records'[op]
<1>1. /\ rec.attempts \in Nat /\ rec.token \in Nat /\ rec \in OperationRecord
      /\ rec.attempts <= rec.token
      /\ rec.state = "claimed" => rec.attempts < rec.token
    BY DEF LedgerTypeOK, AttemptsNeverOvertakeTokens, OperationRecord
<1>2. CASE Untouched(op) \/ Renewed(op)
    BY <1>1, <1>2 DEF Untouched, Renewed
<1>3. CASE Created(op)
  <2>1. next.attempts = 0 /\ next.token = 0 /\ next.state = "proposed"
    BY <1>3 DEF Created, ProposedRecord, Absent
  <2> QED BY <2>1
<1>4. CASE Advanced(op)
  <2>1. next \in Successors(op, rec)
    BY <1>4 DEF Advanced
  <2>2. /\ next.token = rec.token
        /\ \/ next.attempts = rec.attempts /\ (next.state = "claimed" => rec.state = "claimed")
           \/ /\ rec.state = "claimed" /\ next.state = "dispatched"
              /\ next.attempts = rec.attempts + 1
    BY <1>1, <2>1, SuccessorsCounters
  <2> QED BY <1>1, <2>2
<1>5. ASSUME NEW owner \in Runtimes, TakenBy(op, owner)
      PROVE  next.token = rec.token + 1 /\ next.attempts = rec.attempts
    BY <1>1, <1>5, RevisedType DEF TakenBy, ClaimedRecord, Revised, OperationRecord
<1> QED BY <1>1, <1>2, <1>3, <1>4, <1>5, OperationStep DEF OperationMoved

\* Every execution attempt has a fencing token of its own.
THEOREM AttemptsCovered == LedgerSpec => []AttemptsNeverOvertakeTokens
    BY CountersInit, CountersStep, LedgerTypeCorrect, PTL DEF LedgerSpec

\* Where there is no row there is nothing: the strengthening that makes the
\* first revision start from token 0.
AbsentIsEmpty == \A op \in Ops : ~ Exists(records[op]) => records[op] = Absent

LEMMA AbsentInit == LedgerInit => AbsentIsEmpty
    BY DEF LedgerInit, AbsentIsEmpty

LEMMA AbsentStep ==
    LedgerTypeOK /\ AbsentIsEmpty /\ [LedgerNext]_ledgerVars => AbsentIsEmpty'
<1> SUFFICES ASSUME LedgerTypeOK, AbsentIsEmpty, [LedgerNext]_ledgerVars, NEW op \in Ops
             PROVE  ~ Exists(records'[op]) => records'[op] = Absent
    BY DEF AbsentIsEmpty
<1> DEFINE rec == records[op]
           next == records'[op]
<1>1. rec \in OperationRecord
    BY DEF LedgerTypeOK
<1>2. CASE Untouched(op) \/ Renewed(op)
    BY <1>2 DEF Untouched, Renewed, AbsentIsEmpty
<1>3. CASE Created(op)
  <2>1. next.state = "proposed"
    BY <1>3 DEF Created, ProposedRecord, Absent
  <2> QED BY <2>1 DEF Exists
<1>4. CASE Advanced(op)
  <2>1. rec.state # "absent" /\ next \in Successors(op, rec)
    BY <1>4 DEF Advanced, Exists
  <2>2. next.state # "absent"
    BY <1>1, <2>1, SuccessorsState
  <2> QED BY <2>2 DEF Exists
<1>5. ASSUME NEW owner \in Runtimes, TakenBy(op, owner)
      PROVE  next.state = "claimed"
    BY <1>1, <1>5, RevisedType DEF TakenBy, ClaimedRecord, OperationRecord
<1> QED BY <1>2, <1>3, <1>4, <1>5, OperationStep DEF OperationMoved, Exists

\* Tokens only grow, and ownership changes hands under a new one.
LEMMA FencingStep ==
    ASSUME LedgerTypeOK, LeaseBacksClaim, AbsentIsEmpty, [LedgerNext]_ledgerVars,
           NEW op \in Ops
    PROVE  /\ records'[op].token >= records[op].token
           /\ Held(leases'[op]) /\ leases'[op].token # leases[op].token
                 => leases'[op].token > records[op].token
           /\ Held(leases[op]) /\ Held(leases'[op]) /\ leases'[op].owner # leases[op].owner
                 => leases'[op].token > leases[op].token
<1> DEFINE rec == records[op]
           lease == leases[op]
<1>1. /\ rec \in OperationRecord /\ rec.token \in Nat /\ lease \in LiveLease
      /\ lease.token \in Nat
      /\ Held(lease) => lease.token = rec.token
    BY DEF LedgerTypeOK, OperationRecord, LiveLease, LeaseBacksClaim, ClaimIsLeased
<1>2. CASE Untouched(op)
    BY <1>1, <1>2 DEF Untouched
<1>3. CASE Renewed(op)
  <2>1. /\ records'[op] = rec
        /\ leases'[op].owner = lease.owner /\ leases'[op].token = lease.token
    BY <1>1, <1>3 DEF Renewed, LiveLease
  <2> QED BY <1>1, <2>1
<1>4. CASE Created(op)
  <2>1. rec = Absent
    BY <1>4 DEF Created, AbsentIsEmpty
  <2>2. rec.token = 0 /\ records'[op].token = 0
    BY <1>4, <2>1 DEF Created, ProposedRecord, Absent
  <2>3. leases'[op] = lease
    BY <1>4 DEF Created
  <2> QED BY <2>2, <2>3
<1>5. CASE Advanced(op)
  <2>1. records'[op].token = rec.token
    BY <1>1, <1>5, SuccessorsCounters DEF Advanced
  <2>2. leases'[op] = lease \/ ~ Held(leases'[op])
    BY <1>5 DEF Advanced, Held
  <2> QED BY <1>1, <2>1, <2>2
<1>6. ASSUME NEW owner \in Runtimes, TakenBy(op, owner)
      PROVE  records'[op].token = rec.token + 1 /\ leases'[op].token = rec.token + 1
  <2>1. records'[op].token = rec.token + 1
    BY <1>1, <1>6, RevisedType DEF TakenBy, ClaimedRecord, OperationRecord
  <2>2. leases'[op].token = rec.token + 1
    BY <1>6 DEF TakenBy
  <2> QED BY <2>1, <2>2
<1>7. CASE \E owner \in Runtimes : TakenBy(op, owner)
  <2>1. records'[op].token = rec.token + 1 /\ leases'[op].token = rec.token + 1
    BY <1>6, <1>7
  <2> QED BY <1>1, <2>1
<1> QED BY <1>2, <1>3, <1>4, <1>5, <1>7, OperationStep DEF OperationMoved

\* A takeover is always visible in the token: no two owners ever share one,
\* and no write lowers it.
THEOREM FencingTokensFence == LedgerSpec => FencingMonotone
<1>1. LedgerTypeOK /\ LeaseBacksClaim /\ AbsentIsEmpty /\ [LedgerNext]_ledgerVars
        => [\A op \in Ops :
                /\ records'[op].token >= records[op].token
                /\ Held(leases'[op]) /\ leases'[op].token # leases[op].token
                      => leases'[op].token > records[op].token
                /\ Held(leases[op]) /\ Held(leases'[op])
                        /\ leases'[op].owner # leases[op].owner
                      => leases'[op].token > leases[op].token]_ledgerVars
    BY FencingStep
<1> QED BY <1>1, LedgerTypeCorrect, LeaseBacksClaimAlways, AbsentInit, AbsentStep, PTL
        DEF LedgerSpec, FencingMonotone

-----------------------------------------------------------------------------
(***************************************************************************)
(* Settled operations.                                                     *)
(***************************************************************************)

\* The binding patch is the only one a terminal record has.
LEMMA TerminalSuccessors ==
    ASSUME NEW op \in Ops, NEW rec \in OperationRecord, Terminal(rec),
           NEW next \in Successors(op, rec)
    PROVE  \E p \in Principals : next = BoundRecord(rec, p)
<1>1. rec.state \notin {"proposed", "authorized", "claimed", "dispatched"}
    BY DEF Terminal, TerminalStates
<1> QED BY <1>1 DEF Successors, AuthorizationSuccessors, CancelSuccessors,
            DispatchSuccessors, ReconcileSuccessors, ExecutionSuccessors,
            UncertainSuccessors, BindingSuccessors

LEMMA BindingChangesNothingElse ==
    ASSUME NEW rec \in OperationRecord, NEW p \in Principals
    PROVE  [BoundRecord(rec, p) EXCEPT !.rev = 0, !.principal = Nobody]
            = [rec EXCEPT !.rev = 0, !.principal = Nobody]
<1> DEFINE rev == rec.rev + 1
           first == 0
<1>1. ASSUME NEW r, NEW f
      PROVE  [[[rec EXCEPT !.rev = r] EXCEPT !.principal = p]
                    EXCEPT !.rev = f, !.principal = Nobody]
              = [rec EXCEPT !.rev = f, !.principal = Nobody]
    BY DEF OperationRecord
<1>2. BoundRecord(rec, p) = [[rec EXCEPT !.rev = rev] EXCEPT !.principal = p]
    BY DEF BoundRecord, Revised
<1> HIDE DEF rev, first
<1>3. [BoundRecord(rec, p) EXCEPT !.rev = first, !.principal = Nobody]
        = [rec EXCEPT !.rev = first, !.principal = Nobody]
    BY <1>1, <1>2
<1> QED BY <1>3 DEF first

LEMMA TerminalStep ==
    ASSUME LedgerTypeOK, [LedgerNext]_ledgerVars, NEW op \in Ops, Terminal(records[op])
    PROVE  [records'[op] EXCEPT !.rev = 0, !.principal = Nobody]
            = [records[op] EXCEPT !.rev = 0, !.principal = Nobody]
<1>1. records[op] \in OperationRecord
    BY DEF LedgerTypeOK
<1>2. Exists(records[op]) /\ records[op].state \notin Claimable
    BY DEF Terminal, TerminalStates, Exists, Claimable
<1>3. CASE Untouched(op) \/ Renewed(op)
    BY <1>3 DEF Untouched, Renewed
<1>4. CASE Advanced(op)
  <2>1. PICK p \in Principals : records'[op] = BoundRecord(records[op], p)
    BY <1>1, <1>4, TerminalSuccessors DEF Advanced
  <2>2. [BoundRecord(records[op], p) EXCEPT !.rev = 0, !.principal = Nobody]
          = [records[op] EXCEPT !.rev = 0, !.principal = Nobody]
    BY <1>1, BindingChangesNothingElse
  <2> QED BY <2>1, <2>2
<1> QED BY <1>2, <1>3, <1>4, OperationStep DEF OperationMoved, Created, TakenBy

\* A settled outcome is never rewritten, by whatever client.
THEOREM TerminalStaysFinal == LedgerSpec => TerminalIsFinal
<1>1. LedgerTypeOK /\ [LedgerNext]_ledgerVars
        => [\A op \in Ops : Terminal(records[op]) =>
                [records'[op] EXCEPT !.rev = 0, !.principal = Nobody]
                    = [records[op] EXCEPT !.rev = 0, !.principal = Nobody]]_ledgerVars
    BY TerminalStep
<1> QED BY <1>1, LedgerTypeCorrect, PTL DEF LedgerSpec, TerminalIsFinal

-----------------------------------------------------------------------------
(***************************************************************************)
(* The codec accepts every record a client derives.                        *)
(***************************************************************************)
LEMMA WellFormedAuthorized ==
    ASSUME NEW rec \in OperationRecord, WellFormed(rec), rec.state = "proposed",
           NEW decision \in {"allow", "deny"}
    PROVE  WellFormed(AuthorizedRecord(rec, decision))
    BY DEF WellFormed, HasClaim, AuthorizedRecord, Revised, OperationRecord

LEMMA WellFormedUnclaimed ==
    ASSUME NEW rec \in OperationRecord, WellFormed(rec)
    PROVE  /\ WellFormed(CancelledRecord(rec))
           /\ WellFormed(SucceededRecord(rec))
           /\ rec.state = "dispatched" => WellFormed(FailedRecord(rec))
           /\ WellFormed(UncertainRecord(rec))
<1>1. NoClaim.resumeFrom = "none"
    BY DEF NoClaim
<1>2. WellFormed(CancelledRecord(rec))
    BY <1>1 DEF WellFormed, HasClaim, CancelledRecord, Revised, OperationRecord
<1>3. WellFormed(SucceededRecord(rec))
    BY <1>1 DEF WellFormed, HasClaim, SucceededRecord, Revised, OperationRecord
<1>4. rec.state = "dispatched" => WellFormed(FailedRecord(rec))
    BY <1>1 DEF WellFormed, HasClaim, FailedRecord, Revised, OperationRecord
<1>5. WellFormed(UncertainRecord(rec))
    BY <1>1 DEF WellFormed, HasClaim, UncertainRecord, Revised, OperationRecord
<1> QED BY <1>2, <1>3, <1>4, <1>5

LEMMA WellFormedReconciled ==
    ASSUME NEW rec \in OperationRecord, WellFormed(rec), NEW outcome \in {"succeeded", "failed"}
    PROVE  WellFormed(ReconciledRecord(rec, outcome))
<1>1. NoClaim.resumeFrom = "none"
    BY DEF NoClaim
<1> DEFINE next == ReconciledRecord(rec, outcome)
<1>2. /\ next.state = "reconciled" /\ next.rev = rec.rev + 1 /\ next.claim = NoClaim
      /\ next.reconciliation = outcome /\ next.uncertainty = FALSE
    BY DEF ReconciledRecord, Revised, OperationRecord
<1>3. (outcome = "succeeded" => next.result) /\ (outcome = "failed" => next.error)
    BY DEF ReconciledRecord, Revised, OperationRecord
<1>4. rec.rev \in Nat
    BY DEF OperationRecord
<1> HIDE DEF next
<1>5. WellFormed(next)
    BY <1>1, <1>2, <1>3, <1>4 DEF WellFormed, HasClaim
<1> QED BY <1>5 DEF next

LEMMA WellFormedDispatched ==
    ASSUME NEW rec \in OperationRecord, WellFormed(rec), rec.state = "claimed"
    PROVE  WellFormed(DispatchedRecord(rec))
<1> DEFINE next == DispatchedRecord(rec)
<1>1. /\ next.state = "dispatched" /\ next.rev = rec.rev + 1 /\ next.token = rec.token
      /\ next.claim = [rec.claim EXCEPT !.resumeFrom = "none"] /\ next.uncertainty = FALSE
    BY DEF DispatchedRecord, Attempted, Revised, OperationRecord
<1>2. rec.rev \in Nat /\ rec.claim \in OperationClaim
    BY DEF OperationRecord
<1>3. next.claim.resumeFrom = "none" /\ next.claim.token = rec.claim.token
    BY <1>1, <1>2 DEF OperationClaim
<1>4. CASE HasClaim(rec)
  <2>1. next.claim.token = next.token
    BY <1>1, <1>3, <1>4 DEF WellFormed
  <2> HIDE DEF next
  <2>2. WellFormed(next)
    BY <1>1, <1>2, <1>3, <2>1 DEF WellFormed, HasClaim
  <2> QED BY <2>2 DEF next
<1>5. CASE ~ HasClaim(rec)
  <2>1. next.claim = NoClaim
    BY <1>1, <1>5 DEF HasClaim, NoClaim
  <2> HIDE DEF next
  <2>2. WellFormed(next)
    BY <1>1, <1>2, <1>3, <2>1 DEF WellFormed, HasClaim
  <2> QED BY <2>2 DEF next
<1> QED BY <1>4, <1>5

LEMMA WellFormedBound ==
    ASSUME NEW rec \in OperationRecord, WellFormed(rec), NEW p \in Principals
    PROVE  WellFormed(BoundRecord(rec, p))
    BY DEF WellFormed, HasClaim, BoundRecord, Revised, OperationRecord

LEMMA WellFormedClaimed ==
    ASSUME NEW rec \in OperationRecord, WellFormed(rec), rec.state \in Claimable,
           NEW owner \in Runtimes, NEW token \in Nat
    PROVE  WellFormed(ClaimedRecord(rec, owner, token, rec.state))
    BY DEF WellFormed, HasClaim, ClaimedRecord, Revised, OperationRecord, Claimable

LEMMA WellFormedSuccessors ==
    ASSUME NEW op \in Ops, NEW rec \in OperationRecord, WellFormed(rec),
           NEW next \in Successors(op, rec)
    PROVE  WellFormed(next)
<1>1. CASE next \in AuthorizationSuccessors(rec)
    BY <1>1, WellFormedAuthorized DEF AuthorizationSuccessors
<1>2. CASE next \in CancelSuccessors(rec)
    BY <1>2, WellFormedUnclaimed DEF CancelSuccessors
<1>3. CASE next \in DispatchSuccessors(rec)
    BY <1>3, WellFormedDispatched DEF DispatchSuccessors
<1>4. CASE next \in ReconcileSuccessors(op, rec)
    BY <1>4, WellFormedReconciled DEF ReconcileSuccessors
<1>5. CASE next \in ExecutionSuccessors(op, rec)
    BY <1>5, WellFormedUnclaimed DEF ExecutionSuccessors
<1>6. CASE next \in UncertainSuccessors(rec)
    BY <1>6, WellFormedUnclaimed DEF UncertainSuccessors
<1>7. CASE next \in BindingSuccessors(rec)
    BY <1>7, WellFormedBound DEF BindingSuccessors
<1> QED BY <1>1, <1>2, <1>3, <1>4, <1>5, <1>6, <1>7 DEF Successors

LEMMA WellFormedProposed ==
    ASSUME NEW op \in Ops, NEW p \in Principals \cup {Nobody}, NEW t \in Nat
    PROVE  WellFormed(ProposedRecord(op, p, t))
<1> DEFINE next == ProposedRecord(op, p, t)
<1>1. /\ next.state = "proposed" /\ next.authorization = "none" /\ next.claim = NoClaim
      /\ next.uncertainty = FALSE
    BY DEF ProposedRecord, Absent
<1>2. NoClaim.resumeFrom = "none"
    BY DEF NoClaim
<1> HIDE DEF next
<1>3. WellFormed(next)
    BY <1>1, <1>2 DEF WellFormed, HasClaim
<1> QED BY <1>3 DEF next

LEMMA RecordsStep ==
    LedgerTypeOK /\ RecordsWellFormed /\ [LedgerNext]_ledgerVars => RecordsWellFormed'
<1> SUFFICES ASSUME LedgerTypeOK, RecordsWellFormed, [LedgerNext]_ledgerVars,
                    NEW op \in Ops, Exists(records'[op])
             PROVE  WellFormed(records'[op])
    BY DEF RecordsWellFormed
<1> DEFINE rec == records[op]
<1>1. rec \in OperationRecord /\ rec.token + 1 \in Nat /\ now \in Nat
    BY ClockAssumption DEF LedgerTypeOK, OperationRecord
<1>2. Exists(rec) => WellFormed(rec)
    BY DEF RecordsWellFormed
<1>3. CASE Untouched(op) \/ Renewed(op)
    BY <1>2, <1>3 DEF Untouched, Renewed
<1>4. CASE Created(op)
    BY <1>1, <1>4, WellFormedProposed DEF Created
<1>5. CASE Advanced(op)
    BY <1>1, <1>2, <1>5, WellFormedSuccessors DEF Advanced
<1>6. ASSUME NEW owner \in Runtimes, TakenBy(op, owner)
      PROVE  WellFormed(records'[op])
  <2>1. Exists(rec) /\ rec.state \in Claimable
    BY <1>6 DEF TakenBy, Exists, Claimable
  <2> QED BY <1>1, <1>2, <1>6, <2>1, WellFormedClaimed DEF TakenBy
<1> QED BY <1>3, <1>4, <1>5, <1>6, OperationStep DEF OperationMoved

\* No write derived by the rules of the port is refused as corrupt, however
\* long the history of the operation.
THEOREM RecordsStayWellFormed == LedgerSpec => []RecordsWellFormed
<1>1. LedgerInit => RecordsWellFormed
  <2>1. ~ Exists(Absent)
    BY DEF Exists, Absent
  <2> QED BY <2>1 DEF LedgerInit, RecordsWellFormed
<1> QED BY <1>1, RecordsStep, LedgerTypeCorrect, PTL DEF LedgerSpec
=============================================================================
