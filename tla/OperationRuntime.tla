-------------------------- MODULE OperationRuntime --------------------------
(***************************************************************************)
(* OrdariumRuntime (core/src/runtime.ts) over a shared ledger: the run()   *)
(* and reconcileOnly() calls of several runtimes (processes), the ledger   *)
(* they share, the Provider their Actions reach, crashes and the clock.    *)
(*                                                                         *)
(* One action is one segment of a call between two awaits: it reads the    *)
(* call's own snapshot of the record, makes at most one ledger call, and   *)
(* returns or moves on.  Between two segments any other call may run.      *)
(*                                                                         *)
(* pc of a call:                                                           *)
(*   idle         not started                                              *)
(*   bind, rebind applyPrincipalBinding: about to write / to reload        *)
(*   decide       at the head of the loop, with snapshot snap              *)
(*   claim        read the lease, about to call ledger.claim               *)
(*   reload       about to read the record again                           *)
(*   dispatched   committed "dispatched", about to check the deadline      *)
(*   executing    inside action.execute under the heartbeat                *)
(*   reconciling  inside action.reconcile under the heartbeat, unanswered  *)
(*   answered     the Provider has answered, the answer is on its way back *)
(*   done         returned or thrown, with an outcome                      *)
(***************************************************************************)
EXTENDS OperationLedger, RecoveryPolicy, FiniteSets

CONSTANTS Calls,                \* one element per run() / reconcileOnly() call
          Workloads,            \* the arguments the calls may be made with, together
          AuthorizerDecisions,  \* what the configured Authorizer may decide; {}: none
          ClaimRetryLimit       \* the loop gives up after so many lost claims (10)

Evidence == {"allow", "deny", "none"}

Invocation ==
    [runtime : Runtimes, op : Ops, mode : RecoveryMode, evidence : Evidence,
     principal : Principals \cup {Nobody}, abortable : BOOLEAN]

ASSUME RuntimeAssumption ==
    /\ Workloads \subseteq [Calls -> Invocation]
    /\ AuthorizerDecisions \subseteq {"allow", "deny"}
    /\ ClaimRetryLimit \in Nat

VARIABLES invocation,   \* invocation[c]: arguments of call c, never changes
          calls,        \* calls[c]: the call's local state
          sent,         \* sent[op]: fencing tokens of the requests that left an executor
          landed,       \* landed[op]: those whose effect the Provider has applied
          fence         \* fence[op]: the Provider refuses requests below this token

providerVars == <<sent, landed, fence>>
vars == <<records, leases, now, invocation, calls, sent, landed, fence>>

ProgramCounters ==
    {"idle", "bind", "rebind", "decide", "claim", "reload", "dispatched",
     "executing", "reconciling", "answered", "done"}

ProviderAnswers == {"succeeded", "failed", "absent", "absent-unsafe", "inconclusive"}

Outcomes ==
    {"succeeded", "failed", "denied", "cancelled", "uncertain", "busy", "refused",
     "idempotency-expired", "authorization-required", "authorization-conflict",
     "principal-conflict", "conflict", "not-accepting", "interrupted"}

CallState ==
    [pc : ProgramCounters, snap : OperationRecord, retries : Nat, aborted : BOOLEAN,
     leaseLost : BOOLEAN, answer : ProviderAnswers \cup {"none"},
     outcome : Outcomes \cup {"none"}]

IdleCall ==
    [pc |-> "idle", snap |-> Absent, retries |-> 0, aborted |-> FALSE,
     leaseLost |-> FALSE, answer |-> "none", outcome |-> "none"]

OpOf(c) == invocation[c].op
RuntimeOf(c) == invocation[c].runtime
Snap(c) == calls[c].snap
At(c, pc) == calls[c].pc = pc
Active(c) == calls[c].pc \notin {"idle", "done"}

-----------------------------------------------------------------------------
(***************************************************************************)
(* How a segment ends.                                                     *)
(***************************************************************************)
Goto(c, pc) == calls' = [calls EXCEPT ![c].pc = pc]
Continue(c, pc, rec) ==
    calls' = [calls EXCEPT ![c].pc = pc, ![c].snap = rec, ![c].answer = "none"]

\* About to read the record again: the old snapshot is dead.
LookAgain(c, pc, retries) ==
    calls' = [calls EXCEPT ![c].pc = pc, ![c].snap = Absent, ![c].retries = retries]

Return(c, outcome) ==
    calls' = [calls EXCEPT ![c] = [IdleCall EXCEPT !.pc = "done", !.outcome = outcome]]

KeepLedger == UNCHANGED <<records, leases>>

\* #update: next was derived from the snapshot, so it is written only over
\* the snapshot's revision.
SavesBlindly(c, next) == CompareAndSet(OpOf(c), next)      \* mutant: put, not compareAndSet

Saves(c, next) ==
    /\ CasAccepts(OpOf(c), Snap(c).rev, next)
    /\ CompareAndSet(OpOf(c), next)
IsRefused(c, next) ==
    /\ ~ CasAccepts(OpOf(c), Snap(c).rev, next)
    /\ KeepLedger

ReturnRegardless(c, next, outcome) ==   \* mutant: the result of #update is ignored
    (Saves(c, next) \/ IsRefused(c, next)) /\ Return(c, outcome)

\* An update by the owner of the work: a refused write means it lost the operation.
SaveAndReturn(c, next, outcome) ==
    \/ Saves(c, next) /\ Return(c, outcome)
    \/ IsRefused(c, next) /\ Return(c, "busy")

\* An update at the head of the loop: a refused write makes it look again.
SaveOrReload(c, next, onSaved) ==
    \/ Saves(c, next) /\ onSaved
    \/ IsRefused(c, next) /\ LookAgain(c, "reload", calls[c].retries)

-----------------------------------------------------------------------------
(***************************************************************************)
(* Entering an operation.                                                  *)
(***************************************************************************)

\* run() joins a call of the same runtime already in flight for the operation
\* (both get its promise); reconcileOnly() is not registered there.
InFlight(c) ==
    \E d \in Calls : /\ Active(d) /\ RuntimeOf(d) = RuntimeOf(c) /\ OpOf(d) = OpOf(c)
                     /\ invocation[d].mode = "normal"

contradictsAuthorization(c, rec) ==
    /\ invocation[c].evidence # "none"
    /\ rec.authorization # "none"
    /\ rec.authorization # invocation[c].evidence

RebindAnyPrincipal(c, rec) ==           \* mutant: binds over a bound principal
    \/ rec.principal = invocation[c].principal /\ Continue(c, "decide", rec)
    \/ rec.principal # invocation[c].principal /\ Continue(c, "bind", rec)

\* #applyPrincipalBinding on the record it was handed.
ApplyPrincipalBinding(c, rec) ==
    LET mine == invocation[c].principal IN
    \/ rec.principal = mine /\ Continue(c, "decide", rec)
    \/ rec.principal = Nobody /\ mine # Nobody /\ Continue(c, "bind", rec)
    \/ rec.principal \notin {mine, Nobody} /\ Return(c, "principal-conflict")

Start(c) ==
    /\ At(c, "idle")
    /\ invocation[c].mode = "normal" => ~ InFlight(c)
    /\ Create(OpOf(c), ProposedRecord(OpOf(c), invocation[c].principal, now))
    /\ LET rec == records'[OpOf(c)] IN
       IF contradictsAuthorization(c, rec)
       THEN Return(c, "authorization-conflict")
       ELSE ApplyPrincipalBinding(c, rec)
    /\ UNCHANGED <<now, invocation, providerVars>>

\* Operations.reconcileOnly, unlike the runtime's own, refuses material that
\* reproduces no durable operation before it touches the runtime.
RefuseMaterial(c) ==
    /\ At(c, "idle")
    /\ invocation[c].mode = "reconcile-only"
    /\ ~ Exists(records[OpOf(c)])
    /\ Return(c, "conflict")
    /\ KeepLedger /\ UNCHANGED <<now, invocation, providerVars>>

BindPrincipal(c) ==
    /\ At(c, "bind")
    /\ LET next == BoundRecord(Snap(c), invocation[c].principal) IN
       \/ Saves(c, next) /\ Continue(c, "decide", next)
       \/ IsRefused(c, next) /\ LookAgain(c, "rebind", 0)
    /\ UNCHANGED <<now, invocation, providerVars>>

ReloadForBinding(c) ==
    /\ At(c, "rebind")
    /\ ApplyPrincipalBinding(c, records[OpOf(c)])
    /\ KeepLedger /\ UNCHANGED <<now, invocation, providerVars>>

-----------------------------------------------------------------------------
(***************************************************************************)
(* The loop of #runInternal, by the state of the snapshot.                 *)
(***************************************************************************)
Deciding(c, states) == At(c, "decide") /\ Snap(c).state \in states

ReadTerminal(c) ==
    /\ Deciding(c, TerminalStates)
    /\ Return(c, IF IsSuccess(Snap(c)) THEN "succeeded"
                 ELSE IF Snap(c).state = "reconciled" THEN "failed" ELSE Snap(c).state)
    /\ KeepLedger /\ UNCHANGED <<now, invocation, providerVars>>

RefuseReconcileOnly(c) ==
    /\ Deciding(c, {"proposed", "authorized"})
    /\ invocation[c].mode = "reconcile-only"
    /\ Return(c, "refused")
    /\ KeepLedger /\ UNCHANGED <<now, invocation, providerVars>>

\* Evidence passed with the call, else implicit admission, else the Authorizer.
Decisions(c) ==
    IF invocation[c].evidence # "none" THEN {invocation[c].evidence}
    ELSE IF ~ requiresAuthorization(OpOf(c)) THEN {"allow"}
    ELSE AuthorizerDecisions

Authorize(c) ==
    /\ Deciding(c, {"proposed"})
    /\ invocation[c].mode = "normal"
    /\ \/ /\ Decisions(c) = {}
          /\ Return(c, "authorization-required")
          /\ KeepLedger
       \/ \E decision \in Decisions(c) :
            LET next == AuthorizedRecord(Snap(c), decision) IN
            SaveOrReload(c, next, IF decision = "deny" THEN Return(c, "denied")
                                                       ELSE Continue(c, "decide", next))
    /\ UNCHANGED <<now, invocation, providerVars>>

CancelBeforeClaim(c) ==
    /\ Deciding(c, {"authorized"})
    /\ invocation[c].mode = "normal"
    /\ calls[c].aborted
    /\ SaveOrReload(c, CancelledRecord(Snap(c)), Return(c, "cancelled"))
    /\ UNCHANGED <<now, invocation, providerVars>>

ReadLease(c) ==
    /\ Deciding(c, Claimable)
    /\ Snap(c).state = "authorized" => invocation[c].mode = "normal" /\ ~ calls[c].aborted
    /\ IF HeldAgainst(leases[OpOf(c)], RuntimeOf(c), now)
       THEN Return(c, "busy")
       ELSE Goto(c, "claim")
    /\ KeepLedger /\ UNCHANGED <<now, invocation, providerVars>>

ClaimFromStaleSnapshot(c) ==            \* mutant: a lost claim is tried again as it was
    /\ At(c, "claim")
    /\ \/ /\ ClaimAccepts(OpOf(c), Snap(c).rev, RuntimeOf(c))
          /\ Claim(OpOf(c), RuntimeOf(c), Snap(c).token + 1, Snap(c).state)
          /\ LookAgain(c, "reload", calls[c].retries)
       \/ /\ ~ ClaimAccepts(OpOf(c), Snap(c).rev, RuntimeOf(c))
          /\ KeepLedger /\ UNCHANGED calls
    /\ UNCHANGED <<now, invocation, providerVars>>

ClaimOperation(c) ==
    /\ At(c, "claim")
    /\ \/ /\ ClaimAccepts(OpOf(c), Snap(c).rev, RuntimeOf(c))
          /\ Claim(OpOf(c), RuntimeOf(c), Snap(c).token + 1, Snap(c).state)
          /\ LookAgain(c, "reload", calls[c].retries)
       \/ /\ ~ ClaimAccepts(OpOf(c), Snap(c).rev, RuntimeOf(c))
          /\ KeepLedger
          /\ IF calls[c].retries = ClaimRetryLimit
             THEN Return(c, "busy")
             ELSE LookAgain(c, "reload", calls[c].retries + 1)
    /\ UNCHANGED <<now, invocation, providerVars>>

Reload(c) ==
    /\ At(c, "reload")
    /\ Continue(c, "decide", records[OpOf(c)])
    /\ KeepLedger /\ UNCHANGED <<now, invocation, providerVars>>

-----------------------------------------------------------------------------
(***************************************************************************)
(* Dispatch and execution.                                                 *)
(***************************************************************************)

WillExecuteWhenClaimed(c) == invocation[c].mode = "normal"  \* mutant: ignores resumeFrom
WillExecuteInAnyMode(c) ==              \* mutant: dispatches what an operator only asked about
    Snap(c).claim.resumeFrom = "authorized"

\* The claim's resumeFrom decides between a first dispatch and recovery.
WillExecute(c) ==
    invocation[c].mode = "normal" /\ Snap(c).claim.resumeFrom = "authorized"

DispatchRegardless(c) ==                \* mutant: executes although the write was refused
    LET next == DispatchedRecord(Snap(c)) IN
    (Saves(c, next) \/ IsRefused(c, next)) /\ Continue(c, "dispatched", next)

\* #dispatchAndExecute up to the durable dispatch, entered for a first
\* dispatch and for both kinds of redispatch.
DispatchAndExecute(c) ==
    LET next == DispatchedRecord(Snap(c)) IN
    IF ~ calls[c].aborted
    THEN \/ Saves(c, next) /\ Continue(c, "dispatched", next)
         \/ IsRefused(c, next) /\ Return(c, "busy")
    ELSE IF Snap(c).claim.resumeFrom = "authorized"
         THEN SaveAndReturn(c, CancelledRecord(Snap(c)), "cancelled")
         ELSE SaveAndReturn(c, UncertainRecord(Snap(c)), "uncertain")

FirstDispatch(c) ==
    /\ Deciding(c, {"claimed"})
    /\ WillExecute(c)
    /\ DispatchAndExecute(c)
    /\ UNCHANGED <<now, invocation, providerVars>>

\* The frozen deadline gates every attempt, the first included, but only once
\* the dispatch is durable.
ExpireAfterDispatch(c) ==
    /\ At(c, "dispatched")
    /\ idempotencyDeadlinePassed(Snap(c), now)
    /\ SaveAndReturn(c, UncertainRecord(Snap(c)), "idempotency-expired")
    /\ UNCHANGED <<now, invocation, providerVars>>

BeginExecuteLate(c) ==                  \* mutant: no deadline check before execute
    /\ At(c, "dispatched")
    /\ Goto(c, "executing")
    /\ KeepLedger /\ UNCHANGED <<now, invocation, providerVars>>

BeginExecute(c) ==
    /\ At(c, "dispatched")
    /\ ~ idempotencyDeadlinePassed(Snap(c), now)
    /\ Goto(c, "executing")
    /\ KeepLedger /\ UNCHANGED <<now, invocation, providerVars>>

\* #context: what execute() and reconcile() may fence the Provider with.
ContextToken(c) ==
    IF HasClaim(Snap(c)) THEN Snap(c).claim.token ELSE Snap(c).token

\* action.execute reaches the Provider with context.fencingToken, which is
\* the token of the claim the attempt was dispatched under.
SendRequest(c) ==
    /\ At(c, "executing")
    /\ hasExternalSideEffect(OpOf(c))
    /\ ContextToken(c) \notin sent[OpOf(c)]
    /\ sent' = [sent EXCEPT ![OpOf(c)] = @ \cup {ContextToken(c)}]
    /\ KeepLedger /\ UNCHANGED <<now, invocation, calls, landed, fence>>

\* #runWithLease: the timer renews with the owner and token of the snapshot's
\* claim; a refused or failing renewal marks the lease as lost.
RenewOnTimer(c) ==
    /\ calls[c].pc \in {"executing", "reconciling", "answered"}
    /\ ~ calls[c].leaseLost
    /\ \/ /\ RenewAccepts(OpOf(c), Snap(c).claim.owner, Snap(c).claim.token)
          /\ RenewLease(OpOf(c))
          /\ UNCHANGED calls
       \/ /\ calls' = [calls EXCEPT ![c].leaseLost = TRUE]
          /\ KeepLedger
    /\ UNCHANGED <<now, invocation, providerVars>>

\* action.execute may return only if its request had its effect, or, with an
\* operation key, if any request under that key had.
ExecuteReturns(c) ==
    \/ ~ hasExternalSideEffect(OpOf(c))
    \/ ContextToken(c) \in landed[OpOf(c)]
    \/ /\ usesOperationKey(OpOf(c))
       /\ ContextToken(c) \in sent[OpOf(c)]
       /\ landed[OpOf(c)] # {}

FinishExecutionLate(c) ==               \* mutant: saves the result although the lease is lost
    /\ At(c, "executing")
    /\ ExecuteReturns(c)
    /\ SaveAndReturn(c, SucceededRecord(Snap(c)), "succeeded")
    /\ UNCHANGED <<now, invocation, providerVars>>

FinishExecution(c) ==
    /\ At(c, "executing")
    /\ ~ calls[c].leaseLost
    /\ ExecuteReturns(c)
    /\ SaveAndReturn(c, SucceededRecord(Snap(c)), "succeeded")
    /\ UNCHANGED <<now, invocation, providerVars>>

FailExecutionOutright(c) ==             \* mutant: a throw always means "failed"
    /\ At(c, "executing")
    /\ ~ calls[c].leaseLost
    /\ SaveAndReturn(c, FailedRecord(Snap(c)), "failed")
    /\ UNCHANGED <<now, invocation, providerVars>>

\* action.execute threw: only a read-only Action may conclude anything.
FailExecution(c) ==
    /\ At(c, "executing")
    /\ ~ calls[c].leaseLost
    /\ IF hasExternalSideEffect(OpOf(c))
       THEN SaveAndReturn(c, UncertainRecord(Snap(c)), "uncertain")
       ELSE IF calls[c].aborted
            THEN SaveAndReturn(c, CancelledRecord(Snap(c)), "cancelled")
            ELSE SaveAndReturn(c, FailedRecord(Snap(c)), "failed")
    /\ UNCHANGED <<now, invocation, providerVars>>

\* However the work ended, a call that knows its lease is lost writes nothing.
\* It gets here when execute() ("executing") or reconcile() ("answered") has settled.
YieldLostLease(c, pc) ==
    /\ At(c, pc)
    /\ calls[c].leaseLost
    /\ Return(c, "busy")
    /\ KeepLedger /\ UNCHANGED <<now, invocation, providerVars>>

-----------------------------------------------------------------------------
(***************************************************************************)
(* Recovery.                                                               *)
(***************************************************************************)
StopWithReason(c, reason) ==            \* mutant: surfaces the internal reason
    SaveAndReturn(c, UncertainRecord(Snap(c)), reason)

StopAsUncertain(c, reason) ==
    SaveAndReturn(c, UncertainRecord(Snap(c)),
                  IF reason = "idempotency-expired" THEN reason ELSE "uncertain")

Recovering(c) == Deciding(c, {"claimed"}) /\ ~ WillExecute(c)

CancelRecovery(c) ==
    /\ Recovering(c)
    /\ calls[c].aborted
    /\ SaveAndReturn(c, UncertainRecord(Snap(c)), "uncertain")
    /\ UNCHANGED <<now, invocation, providerVars>>

BeginReconcile(c) ==
    /\ Recovering(c)
    /\ ~ calls[c].aborted
    /\ evaluateRecovery(OpOf(c), Snap(c), invocation[c].mode, now) = "query"
    /\ Goto(c, "reconciling")
    /\ KeepLedger /\ UNCHANGED <<now, invocation, providerVars>>

RecoverWithoutQuery(c) ==
    /\ Recovering(c)
    /\ ~ calls[c].aborted
    /\ LET decision == evaluateRecovery(OpOf(c), Snap(c), invocation[c].mode, now) IN
       /\ decision # "query"
       /\ IF decision = "redispatch-same-key"
          THEN DispatchAndExecute(c)
          ELSE StopAsUncertain(c, decision)
    /\ UNCHANGED <<now, invocation, providerVars>>

\* reconcile() returned: the runtime acts on the answer as it was given.
ResolveReconcile(c) ==
    /\ At(c, "answered")
    /\ ~ calls[c].leaseLost
    /\ LET answer == calls[c].answer
           absence == evaluateAuthoritativeAbsence(Snap(c), answer = "absent",
                                                   invocation[c].mode, now) IN
       \/ /\ answer \in {"succeeded", "failed"}
          /\ SaveAndReturn(c, ReconciledRecord(Snap(c), answer), answer)
       \/ /\ answer \in {"absent", "absent-unsafe"}
          /\ IF absence = "redispatch-same-key"
             THEN DispatchAndExecute(c)
             ELSE StopAsUncertain(c, absence)
       \/ /\ answer = "inconclusive"
          /\ SaveAndReturn(c, UncertainRecord(Snap(c)), "uncertain")
    /\ UNCHANGED <<now, invocation, providerVars>>

-----------------------------------------------------------------------------
(***************************************************************************)
(* The Provider (external; as testing/src/provider.ts and the Action       *)
(* contract describe it).  A request may be lost, or land at any later     *)
(* time.  An operation key makes it land once.  A query never reports an   *)
(* effect that is not there or misses one that is; "failed" and            *)
(* "absent, retry safe" promise that no request dispatched under an older  *)
(* fencing token than the query's will land any more.  "inconclusive"      *)
(* stands for pending, unknown, a throwing and an ill-formed reconcile().  *)
(***************************************************************************)
LandRequest(op, token) ==
    /\ token \in sent[op] \ landed[op]
    /\ token >= fence[op]
    /\ usesOperationKey(op) => landed[op] = {}
    /\ landed' = [landed EXCEPT ![op] = @ \cup {token}]
    /\ UNCHANGED <<records, leases, now, invocation, calls, sent, fence>>

AnswerQuery(c) ==
    /\ At(c, "reconciling")
    /\ \E answer \in IF landed[OpOf(c)] = {} THEN ProviderAnswers \ {"succeeded"}
                                             ELSE {"succeeded", "inconclusive"} :
        /\ calls' = [calls EXCEPT ![c].pc = "answered", ![c].answer = answer]
        /\ fence' = IF answer \in {"absent", "failed"} /\ fence[OpOf(c)] < ContextToken(c)
                    THEN [fence EXCEPT ![OpOf(c)] = ContextToken(c)]
                    ELSE fence
    /\ KeepLedger /\ UNCHANGED <<now, invocation, sent, landed>>

-----------------------------------------------------------------------------
(***************************************************************************)
(* The environment of a call.                                              *)
(***************************************************************************)
Abort(c) ==
    /\ Active(c) /\ invocation[c].abortable /\ ~ calls[c].aborted
    /\ calls' = [calls EXCEPT ![c].aborted = TRUE]
    /\ KeepLedger /\ UNCHANGED <<now, invocation, providerVars>>

\* The process died, or the ledger (or a hook) threw: the call ends where it
\* is and the durable state stays as it was.
Interrupt(c) ==
    /\ Active(c)
    /\ Return(c, "interrupted")
    /\ KeepLedger /\ UNCHANGED <<now, invocation, providerVars>>

AdvanceClock == Tick /\ UNCHANGED <<invocation, calls, providerVars>>

\* Every call has returned; only late requests and the clock may still move.
Finished == (\A c \in Calls : At(c, "done")) /\ UNCHANGED vars

\* Segments of a call that call the ledger,
LedgerStep(c) ==
    \/ BindPrincipal(c) \/ ReloadForBinding(c) \/ Authorize(c) \/ CancelBeforeClaim(c)
    \/ ReadLease(c) \/ ClaimOperation(c) \/ Reload(c)
    \/ FirstDispatch(c) \/ ExpireAfterDispatch(c)
    \/ CancelRecovery(c) \/ RecoverWithoutQuery(c) \/ ResolveReconcile(c)

\* segments that do not,
LedgerFreeStep(c) ==
    \/ ReadTerminal(c) \/ RefuseReconcileOnly(c)
    \/ BeginExecute(c) \/ YieldLostLease(c, "answered") \/ BeginReconcile(c)

\* and those that follow when the Action's execute() or reconcile() settles.
ActionStep(c) ==
    \/ FinishExecution(c) \/ FailExecution(c) \/ YieldLostLease(c, "executing")
    \/ AnswerQuery(c)

CallStep(c) == Start(c) \/ RefuseMaterial(c) \/ LedgerStep(c) \/ LedgerFreeStep(c) \/ ActionStep(c)

Init ==
    /\ LedgerInit
    /\ invocation \in Workloads
    /\ calls = [c \in Calls |-> IdleCall]
    /\ sent = [op \in Ops |-> {}]
    /\ landed = [op \in Ops |-> {}]
    /\ fence = [op \in Ops |-> 0]

Next ==
    \/ \E c \in Calls : CallStep(c) \/ SendRequest(c) \/ RenewOnTimer(c) \/ Abort(c) \/ Interrupt(c)
    \/ \E op \in Ops : \E token \in sent[op] : LandRequest(op, token)
    \/ AdvanceClock
    \/ Finished

Spec == Init /\ [][Next]_vars

-----------------------------------------------------------------------------
(***************************************************************************)
(* Properties.                                                             *)
(***************************************************************************)
TypeOK ==
    /\ LedgerTypeOK
    /\ invocation \in Workloads
    /\ calls \in [Calls -> CallState]
    /\ sent \in [Ops -> SUBSET Nat]
    /\ landed \in [Ops -> SUBSET Nat]
    /\ fence \in [Ops -> Nat]

\* The runtime only ever talks to the ledger the way the port expects: every
\* compareAndSet and claim that gets through, from however stale a snapshot,
\* is a step of the lifecycle applied to the record it replaces.
RespectsLedgerPort == LedgerSpec

\* The semantic revision identifies the content: a snapshot whose revision is
\* still current is the current record.  #update spreads the whole snapshot
\* under its patch, so a write would otherwise resurrect stale fields.
SnapshotIsRevision ==
    \A c \in Calls : Exists(Snap(c)) =>
        /\ Snap(c).rev <= records[OpOf(c)].rev
        /\ Snap(c).rev = records[OpOf(c)].rev => Snap(c) = records[OpOf(c)]

\* Write-ahead dispatch: whatever has reached, or can still reach, the Provider
\* was first made durable.  Every request carries a token the record has
\* issued, and the attempts counter covers all of them.
DispatchIsDurableFirst ==
    \A op \in Ops :
        /\ \A token \in sent[op] : token <= records[op].token
        /\ Cardinality(sent[op]) <= records[op].attempts

\* An effect with neither an operation key nor a query is never retried: at
\* most one request ever leaves, over all crashes, takeovers and replays.
GuardedRequestedOnce ==
    \A op \in Ops :
        hasExternalSideEffect(op) /\ ~ usesOperationKey(op) /\ ~ Profile[op].reconcile
            => Cardinality(sent[op]) <= 1

\* Given a Provider that keeps its promises, the business effect happens at
\* most once, however many attempts, owners and late requests there are.
EffectAtMostOnce ==
    \A op \in Ops : hasExternalSideEffect(op) => Cardinality(landed[op]) <= 1

\* The stored outcome is what happened outside: a success has its effect; a
\* denied, cancelled or failed operation never sent anything, and neither did
\* one not yet dispatched; a reconciled failure has, and will get, no effect.
RecordTellsTheTruth ==
    \A op \in Ops : hasExternalSideEffect(op) =>
        /\ IsSuccess(records[op]) => landed[op] # {}
        /\ records[op].state \in
              {"absent", "proposed", "authorized", "denied", "cancelled", "failed"}
              => sent[op] = {}
        /\ records[op].state = "reconciled" /\ records[op].reconciliation = "failed"
              => landed[op] = {}

\* What a call told its caller is, and stays, what the record says.
CallerWasToldTheTruth ==
    \A c \in Calls :
        LET rec == records[OpOf(c)] IN
        /\ calls[c].outcome = "succeeded" => IsSuccess(rec)
        /\ calls[c].outcome = "denied" => rec.state = "denied"
        /\ calls[c].outcome = "cancelled" => rec.state = "cancelled"
        /\ calls[c].outcome = "failed" => Terminal(rec) /\ rec.error /\ ~ rec.result

\* The runtime implements the promise of SafeAction: the durable record is the
\* outcome, the requests that landed are the effects, and what a call returned
\* is what it was told.
Ending(rec) ==
    CASE ~ Terminal(rec) -> "open"
      [] rec.state = "reconciled" -> rec.reconciliation
      [] OTHER -> rec.state

Answer(call) ==
    CASE call.outcome = "none" -> "waiting"
      [] call.outcome \in {"succeeded", "failed", "cancelled", "denied"} -> call.outcome
      [] OTHER -> "unsettled"

Promised == INSTANCE SafeAction WITH
    Effectful <- {op \in Ops : hasExternalSideEffect(op)},
    target <- [c \in Calls |-> OpOf(c)],
    outcome <- [op \in Ops |-> Ending(records[op])],
    effects <- [op \in Ops |-> Cardinality(landed[op])],
    told <- [c \in Calls |-> Answer(calls[c])]

ImplementsSafeAction == Promised!Spec

\* A call whose fencing token has been overtaken never writes again.
Working(c) == calls[c].pc \in {"dispatched", "executing", "reconciling", "answered"}
Overtaken(c) == Snap(c).token < records[OpOf(c)].token

StaleOwnerNeverWrites ==
    [][\A c \in Calls : Working(c) /\ Overtaken(c) /\ calls'[c] # calls[c] =>
        UNCHANGED <<records[OpOf(c)], leases[OpOf(c)]>>]_vars

\* A call whose heartbeat has lost the lease is over, however long its work
\* still takes and whatever that brings back: it writes nothing, dispatches
\* nothing, and tells its caller no more than to ask again.
LostLeaseEndsTheCall ==
    [][\A c \in Calls : calls[c].leaseLost /\ calls'[c] # calls[c] =>
        /\ UNCHANGED <<records[OpOf(c)], leases[OpOf(c)]>>
        /\ calls'[c].leaseLost \/ calls'[c].outcome \in {"busy", "interrupted"}]_vars

\* Every execution, the first included, is a normal call's and begins within
\* the frozen deadline.  A further one of an operation with an external effect
\* needs evidence: an operation key or, where there is a query, that the
\* Provider has ruled out every request already sent.
ExecutesOnlyOnEvidence ==
    [][\A c \in Calls : At(c, "dispatched") /\ calls'[c].pc = "executing" =>
        /\ invocation[c].mode = "normal"
        /\ ~ idempotencyDeadlinePassed(Snap(c), now)
        /\ Snap(c).attempts > 1 /\ hasExternalSideEffect(OpOf(c)) =>
            IF Profile[OpOf(c)].reconcile
            THEN \A token \in sent[OpOf(c)] : token < Snap(c).token =>
                    token < fence[OpOf(c)] /\ token \notin landed[OpOf(c)]
            ELSE usesOperationKey(OpOf(c))]_vars

-----------------------------------------------------------------------------
(***************************************************************************)
(* Claims of the documentation that the code does not keep; each has a run *)
(* that violates it.                                                       *)
(***************************************************************************)

\* docs/how-to/run-multiple-workers.md: a worker that meets a live foreign
\* lease does not have the right to execute at the same time.  A call that
\* reads another runtime's "claimed" record goes on under that claim without
\* looking at the lease.
LiveForeignLeaseExcludes ==
    \A c \in Calls : At(c, "executing") =>
        ~ /\ HeldAgainst(leases[OpOf(c)], RuntimeOf(c), now)
          /\ leases[OpOf(c)].token = Snap(c).token

\* docs/dev/02-core-concepts.md: contradictory evidence for an operation fails
\* closed.  The check runs once, on the record create() returned, and not
\* again on the record reloaded after a lost authorization write.
DenyEvidenceNeverExecutes ==
    \A c \in Calls : At(c, "executing") => invocation[c].evidence # "deny"

\* docs/13-ordarium-action-contract.md, rule 5: an operation is not continued
\* under another Provider principal.  The check is likewise not repeated on
\* a reloaded record.
PrincipalContinuity ==
    \A c \in Calls : At(c, "executing") => Snap(c).principal = invocation[c].principal

\* docs/dev/03-effect-profiles.md and docs/start/choose-a-profile.md: after a
\* crash, a replay of a read-only Action may execute again.  A replay that
\* recovers one finds no path to it: it is turned away as uncertain although
\* nobody aborted it and another execution could do no harm.
ReadOnlyReplayMayExecute ==
    [][\A c \in Calls :
        /\ Recovering(c) /\ invocation[c].mode = "normal" /\ ~ calls[c].aborted
        /\ ~ hasExternalSideEffect(OpOf(c))
        => calls'[c].outcome # "uncertain"]_vars
=============================================================================
