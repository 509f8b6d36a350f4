-------------------------- MODULE OperationLedger --------------------------
(***************************************************************************)
(* The OperationLedger port (core/src/types.ts) as its two adapters        *)
(* implement it: SqliteLedger (one IMMEDIATE transaction per method) and   *)
(* MemoryLedger (one synchronous method body).  The operators CasAccepts,  *)
(* CompareAndSet, ClaimAccepts, Claim and so on are the methods; the       *)
(* runtime module calls them with its own, possibly stale, arguments.      *)
(*                                                                         *)
(* Spec below is the ledger under any client that keeps the port's         *)
(* discipline: it derives every write from the record it replaces, by one  *)
(* of the patches of OperationRecords, and claims with the next token.     *)
(* A rejected call changes nothing, so it is a stuttering step.            *)
(***************************************************************************)
EXTENDS OperationRecords

CONSTANTS LeaseMs,      \* lease duration, in ticks
          MaxClock      \* bound on the clock

ASSUME ClockAssumption == LeaseMs \in Nat \ {0} /\ MaxClock \in Nat

VARIABLES records,      \* records[op]: the row of ordarium_operations
          leases,       \* leases[op]: the row of ordarium_operation_leases
          now           \* the clock runtimes and ledger read

ledgerVars == <<records, leases, now>>

NoLease == [owner |-> Nobody, token |-> 0, expiresAt |-> 0]
LiveLease == [owner : Runtimes \cup {Nobody}, token : Nat, expiresAt : Nat]
Held(lease) == lease # NoLease

\* A lease of somebody else that has not expired.
HeldAgainst(lease, owner, t) ==
    Held(lease) /\ lease.owner # owner /\ lease.expiresAt > t

-----------------------------------------------------------------------------
(***************************************************************************)
(* The port's methods.                                                     *)
(***************************************************************************)
Create(op, rec) ==
    /\ records' = [records EXCEPT ![op] = IF Exists(@) THEN @ ELSE rec]
    /\ UNCHANGED leases

CasAcceptsAnyRevision(op, expected, next) ==    \* mutant: no revision check
    /\ Exists(records[op])
    /\ next.rev = expected + 1
    /\ Held(leases[op]) => leases[op].token = next.token

CasAccepts(op, expected, next) ==
    /\ Exists(records[op])
    /\ records[op].rev = expected
    /\ next.rev = expected + 1
    /\ Held(leases[op]) => leases[op].token = next.token

CompareAndSetKeepingLease(op, next) ==  \* mutant: the lease row is not deleted
    records' = [records EXCEPT ![op] = next] /\ UNCHANGED leases

\* A record without a claim releases the lease in the same transaction.
CompareAndSet(op, next) ==
    /\ records' = [records EXCEPT ![op] = next]
    /\ leases' = [leases EXCEPT ![op] = IF HasClaim(next) THEN @ ELSE NoLease]

ClaimAccepts(op, expected, owner) ==
    /\ Exists(records[op])
    /\ records[op].rev = expected
    /\ ~ HeldAgainst(leases[op], owner, now)

ClaimReusingToken(op, owner, token, resumeFrom) ==  \* mutant: the last token again
    /\ records' = [records EXCEPT ![op] = ClaimedRecord(@, owner, token - 1, resumeFrom)]
    /\ leases' = [leases EXCEPT ![op] =
                    [owner |-> owner, token |-> token - 1, expiresAt |-> now + LeaseMs]]

\* The claimed record and its lease are written in one transaction.
Claim(op, owner, token, resumeFrom) ==
    /\ records' = [records EXCEPT ![op] = ClaimedRecord(@, owner, token, resumeFrom)]
    /\ leases' = [leases EXCEPT ![op] =
                    [owner |-> owner, token |-> token, expiresAt |-> now + LeaseMs]]

RenewAccepts(op, owner, token) ==
    /\ Held(leases[op])
    /\ leases[op].owner = owner
    /\ leases[op].token = token

RenewLease(op) ==
    /\ leases' = [leases EXCEPT ![op].expiresAt = now + LeaseMs]
    /\ UNCHANGED records

Tick ==
    /\ now < MaxClock
    /\ now' = now + 1
    /\ UNCHANGED <<records, leases>>

-----------------------------------------------------------------------------
(***************************************************************************)
(* The lifecycle of one operation: the records the runtime's call sites    *)
(* may write over rec with compareAndSet.                                  *)
(***************************************************************************)
AuthorizationSuccessors(rec) ==
    {next \in {AuthorizedRecord(rec, "allow"), AuthorizedRecord(rec, "deny")} :
        rec.state = "proposed"}

CancelAnySuccessors(rec) ==             \* mutant: no look at the state
    {next \in {CancelledRecord(rec)} : rec.state # "absent"}

\* Nothing was dispatched yet: a caller's abort, or disposal, cancels.
CancelSuccessors(rec) ==
    {next \in {CancelledRecord(rec)} :
        \/ rec.state \in {"proposed", "authorized"}
        \/ rec.state = "claimed" /\ rec.claim.resumeFrom = "authorized"}

DispatchAgainSuccessors(rec) ==         \* mutant: a second dispatch under one claim
    {next \in {DispatchedRecord(rec)} : rec.state \in {"claimed", "dispatched"}}

DispatchSuccessors(rec) ==
    {next \in {DispatchedRecord(rec)} : rec.state = "claimed"}

ReconcileSuccessors(op, rec) ==
    {next \in {ReconciledRecord(rec, "succeeded"), ReconciledRecord(rec, "failed")} :
        rec.state = "claimed" /\ Profile[op].reconcile}

ExecutionSuccessors(op, rec) ==
    {next \in {SucceededRecord(rec)} : rec.state = "dispatched"} \cup
    {next \in {FailedRecord(rec), CancelledRecord(rec)} :
        rec.state = "dispatched" /\ ~ hasExternalSideEffect(op)}

UncertainSuccessors(rec) ==
    {next \in {UncertainRecord(rec)} : rec.state \in {"claimed", "dispatched"}}

\* A first Provider principal binds in whatever state the record is.
BindingSuccessors(rec) ==
    {next \in {BoundRecord(rec, p) : p \in Principals} : rec.principal = Nobody}

Successors(op, rec) ==
    AuthorizationSuccessors(rec) \cup CancelSuccessors(rec) \cup
    DispatchSuccessors(rec) \cup ReconcileSuccessors(op, rec) \cup
    ExecutionSuccessors(op, rec) \cup UncertainSuccessors(rec) \cup
    BindingSuccessors(rec)

Submit(op) ==
    /\ ~ Exists(records[op])
    /\ \E p \in Principals \cup {Nobody} : Create(op, ProposedRecord(op, p, now))
    /\ UNCHANGED now

Advance(op) ==
    /\ \E next \in Successors(op, records[op]) :
        CasAccepts(op, records[op].rev, next) /\ CompareAndSet(op, next)
    /\ UNCHANGED now

TakeOwnershipOfAny(op, owner) ==        \* mutant: claims in any state
    /\ ClaimAccepts(op, records[op].rev, owner)
    /\ Claim(op, owner, records[op].token + 1, records[op].state)
    /\ UNCHANGED now

TakeOwnership(op, owner) ==
    /\ records[op].state \in Claimable
    /\ ClaimAccepts(op, records[op].rev, owner)
    /\ Claim(op, owner, records[op].token + 1, records[op].state)
    /\ UNCHANGED now

Heartbeat(op) ==
    /\ RenewAccepts(op, leases[op].owner, leases[op].token)
    /\ RenewLease(op)
    /\ UNCHANGED now

LedgerInit ==
    /\ records = [op \in Ops |-> Absent]
    /\ leases = [op \in Ops |-> NoLease]
    /\ now = 0

LedgerNext ==
    \/ \E op \in Ops : Submit(op) \/ Advance(op) \/ Heartbeat(op)
    \/ \E op \in Ops, owner \in Runtimes : TakeOwnership(op, owner)
    \/ Tick

LedgerSpec == LedgerInit /\ [][LedgerNext]_ledgerVars

-----------------------------------------------------------------------------
LedgerTypeOK ==
    /\ records \in [Ops -> OperationRecord]
    /\ leases \in [Ops -> LiveLease]
    /\ now \in 0..MaxClock

ClaimIsLeased(rec, lease) ==
    /\ HasClaim(rec) <=> rec.state \in {"claimed", "dispatched"}
    /\ HasClaim(rec) => rec.claim.owner \in Runtimes
    /\ Held(lease) <=> HasClaim(rec)
    /\ Held(lease) => /\ lease.owner = rec.claim.owner
                      /\ lease.token = rec.claim.token
                      /\ lease.token = rec.token

\* A lease row exists exactly while the record is claimed or dispatched under
\* a claim, the two name the same owner, and both carry the record's last
\* fencing token.  The two tables are written by different statements of
\* claim(), compareAndSet() and renewLease(): a leaked lease would make every
\* later write of the operation fail, a missing one would let a stale owner in.
LeaseBacksClaim == \A op \in Ops : ClaimIsLeased(records[op], leases[op])

\* No write the runtime derives is refused by the codec: decodeOperationRecord
\* would otherwise throw on it, or report the stored record as corrupt.
RecordsWellFormed ==
    \A op \in Ops : Exists(records[op]) => WellFormed(records[op])

\* Every dispatch spends a claim of its own: attempts never overtake tokens,
\* so a fencing token identifies one execution attempt.
AttemptsNeverOvertakeTokens ==
    \A op \in Ops :
        /\ records[op].attempts <= records[op].token
        /\ records[op].state = "claimed" => records[op].attempts < records[op].token

\* Fencing tokens only grow, and a lease that changes hands, or is taken again
\* by its owner, carries a token no earlier owner ever held.
FencingMonotone ==
    [][\A op \in Ops :
        /\ records'[op].token >= records[op].token
        /\ Held(leases'[op]) /\ leases'[op].token # leases[op].token
              => leases'[op].token > records[op].token
        /\ Held(leases[op]) /\ Held(leases'[op]) /\ leases'[op].owner # leases[op].owner
              => leases'[op].token > leases[op].token]_ledgerVars

\* Once an operation is settled only its principal binding may still change
\* (and the contract fingerprint of a record that has none yet, which is not a
\* field here): no late owner, recovery or replay rewrites a terminal outcome.
TerminalIsFinal ==
    [][\A op \in Ops : Terminal(records[op]) =>
        [records'[op] EXCEPT !.rev = 0, !.principal = Nobody]
            = [records[op] EXCEPT !.rev = 0, !.principal = Nobody]]_ledgerVars
=============================================================================
