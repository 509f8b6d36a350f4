----------------------- MODULE OperationRuntime_proofs -----------------------
(***************************************************************************)
(* What the runtime keeps for every number of calls, runtimes and          *)
(* operations, every profile, workload and Authorizer.  The argument is in *)
(* the snapshots: between two awaits a call holds a copy of the record,    *)
(* and everything it writes is derived from that copy.  Lemma RuntimeStep  *)
(* reduces the actions to the kinds of step the invariants tell apart; the *)
(* rest of the proofs reason about the kinds.  The second part adds the    *)
(* requests, the Provider and the callers, and ends in the refinement of   *)
(* SafeAction.                                                             *)
(***************************************************************************)
EXTENDS OperationRuntime, OperationLedger_proofs, FiniteSetTheorems

-----------------------------------------------------------------------------
(***************************************************************************)
(* How a segment ends, seen from its call.                                 *)
(***************************************************************************)
OnlyCall(c) ==
    /\ calls' \in [Calls -> CallState]
    /\ \A d \in Calls : d # c => calls'[d] = calls[d]

LEMMA GotoEffect ==
    ASSUME calls \in [Calls -> CallState], NEW c \in Calls, NEW pc \in ProgramCounters,
           Goto(c, pc)
    PROVE  /\ OnlyCall(c)
           /\ calls'[c] = [calls[c] EXCEPT !.pc = pc]
           /\ calls'[c].pc = pc /\ calls'[c].snap = calls[c].snap
           /\ calls'[c].answer = calls[c].answer /\ calls'[c].outcome = calls[c].outcome
    BY DEF Goto, OnlyCall, CallState

LEMMA ContinueEffect ==
    ASSUME calls \in [Calls -> CallState], NEW c \in Calls, NEW pc \in ProgramCounters,
           NEW rec \in OperationRecord, Continue(c, pc, rec)
    PROVE  /\ OnlyCall(c)
           /\ calls'[c].pc = pc /\ calls'[c].snap = rec
           /\ calls'[c].answer = "none" /\ calls'[c].outcome = calls[c].outcome
    BY ZenonT(30) DEF Continue, OnlyCall, CallState

LEMMA LookAgainEffect ==
    ASSUME calls \in [Calls -> CallState], NEW c \in Calls, NEW pc \in ProgramCounters,
           NEW retries \in Nat, LookAgain(c, pc, retries)
    PROVE  /\ OnlyCall(c)
           /\ calls'[c].pc = pc /\ calls'[c].snap = Absent
           /\ calls'[c].answer = calls[c].answer /\ calls'[c].outcome = calls[c].outcome
<1> DEFINE call == [calls[c] EXCEPT !.pc = pc, !.snap = Absent, !.retries = retries]
<1>1. calls' = [calls EXCEPT ![c] = call]
    BY DEF LookAgain
<1>2. call \in CallState
    BY AbsentType DEF CallState
<1>3. /\ call.pc = pc /\ call.snap = Absent
      /\ call.answer = calls[c].answer /\ call.outcome = calls[c].outcome
    BY DEF CallState
<1> HIDE DEF call
<1> QED BY <1>1, <1>2, <1>3 DEF OnlyCall

LEMMA ReturnEffect ==
    ASSUME calls \in [Calls -> CallState], NEW c \in Calls, NEW outcome \in Outcomes,
           Return(c, outcome)
    PROVE  /\ OnlyCall(c)
           /\ calls'[c].pc = "done" /\ calls'[c].snap = Absent
           /\ calls'[c].answer = "none" /\ calls'[c].outcome = outcome
<1>1. "done" \in ProgramCounters
    BY DEF ProgramCounters
<1>2. [IdleCall EXCEPT !.pc = "done", !.outcome = outcome] \in CallState
    BY <1>1, AbsentType DEF IdleCall, CallState
<1>3. calls'[c] = [IdleCall EXCEPT !.pc = "done", !.outcome = outcome]
    BY DEF Return
<1>4. OnlyCall(c)
    BY <1>2 DEF Return, OnlyCall
<1> QED BY <1>3, <1>4 DEF IdleCall

-----------------------------------------------------------------------------
(***************************************************************************)
(* The invariant that carries everything else: the types, snapshots that   *)
(* are the record whenever their revision is current, and a snapshot that  *)
(* fits the call's place in the code.                                      *)
(***************************************************************************)
WithoutSnapshot == {"idle", "rebind", "reload", "done"}

CallFits(c) ==
    /\ Exists(Snap(c)) <=> calls[c].pc \notin WithoutSnapshot
    /\ At(c, "bind") => Snap(c).principal = Nobody /\ invocation[c].principal # Nobody
    /\ At(c, "claim") => Snap(c).state \in Claimable
    /\ calls[c].pc \in {"dispatched", "executing"} =>
            Snap(c).state = "dispatched" /\ invocation[c].mode = "normal"
    /\ calls[c].pc \in {"reconciling", "answered"} =>
            Snap(c).state = "claimed" /\ Profile[OpOf(c)].reconcile
    /\ At(c, "answered") <=> calls[c].answer # "none"
    /\ At(c, "done") <=> calls[c].outcome # "none"

CallsFit == \A c \in Calls : CallFits(c)

\* A call that has started finds a record: none is ever deleted.
ActiveHasRecord == \A c \in Calls : Active(c) => Exists(records[OpOf(c)])

\* A snapshot was a record, so the codec has accepted it.
SnapshotsWellFormed == \A c \in Calls : Exists(Snap(c)) => WellFormed(Snap(c))

\* What OperationLedger_proofs shows of the ledger under any disciplined client.
LedgerInv ==
    LeaseBacksClaim /\ RecordsWellFormed /\ AttemptsNeverOvertakeTokens /\ AbsentIsEmpty

RuntimeInv ==
    /\ TypeOK /\ LedgerInv
    /\ SnapshotIsRevision /\ SnapshotsWellFormed /\ CallsFit /\ ActiveHasRecord

\* What the invariant says of one call, for the provers.
LEMMA OneCall ==
    ASSUME TypeOK, NEW c \in Calls
    PROVE  /\ OpOf(c) \in Ops /\ RuntimeOf(c) \in Runtimes
           /\ invocation[c].principal \in Principals \cup {Nobody}
           /\ invocation[c].mode \in RecoveryMode /\ invocation[c].evidence \in Evidence
           /\ calls \in [Calls -> CallState] /\ Snap(c) \in OperationRecord
           /\ calls[c].retries \in Nat /\ calls[c].pc \in ProgramCounters
           /\ calls[c].answer \in ProviderAnswers \cup {"none"}
           /\ records[OpOf(c)] \in OperationRecord
           /\ leases[OpOf(c)] \in LiveLease /\ now \in Nat
<1>1. invocation[c] \in Invocation
    BY RuntimeAssumption DEF TypeOK
<1>2. OpOf(c) \in Ops
    BY <1>1 DEF Invocation, OpOf
<1>3. calls[c] \in CallState
    BY DEF TypeOK
<1>4. records[OpOf(c)] \in OperationRecord /\ leases[OpOf(c)] \in LiveLease /\ now \in Nat
    BY <1>2, ClockAssumption DEF TypeOK, LedgerTypeOK
<1>5. /\ RuntimeOf(c) \in Runtimes /\ invocation[c].principal \in Principals \cup {Nobody}
      /\ invocation[c].mode \in RecoveryMode /\ invocation[c].evidence \in Evidence
    BY <1>1 DEF Invocation, RuntimeOf
<1>6. /\ Snap(c) \in OperationRecord /\ calls[c].retries \in Nat
      /\ calls[c].pc \in ProgramCounters /\ calls[c].answer \in ProviderAnswers \cup {"none"}
    BY <1>3 DEF CallState, Snap
<1> QED BY <1>2, <1>4, <1>5, <1>6 DEF TypeOK

-----------------------------------------------------------------------------
(***************************************************************************)
(* The kinds of step of a call.                                            *)
(***************************************************************************)
Settled == {"succeeded", "failed", "cancelled", "denied"}
InDispatch == {"dispatched", "executing"}

\* Nothing of the call's attempt or of the Provider's answer is made up.
KeepsItsPlace(c) ==
    /\ calls'[c].pc \in InDispatch =>
            calls[c].pc \in InDispatch /\ calls'[c].snap = Snap(c)
    /\ calls'[c].pc = "answered" =>
            /\ At(c, "answered") /\ calls'[c].snap = Snap(c)
            /\ calls'[c].answer = calls[c].answer

Entering(c) ==          \* Start
    /\ At(c, "idle")
    /\ Create(OpOf(c), ProposedRecord(OpOf(c), invocation[c].principal, now))
    /\ \/ /\ calls'[c].pc \in {"decide", "bind"} /\ calls'[c].outcome = "none"
          /\ calls'[c].snap = records'[OpOf(c)]
       \/ /\ calls'[c].pc = "done" /\ calls'[c].snap = Absent
          /\ calls'[c].outcome \notin Settled \cup {"none"}

Looking(c) ==           \* moves that write nothing
    /\ Active(c)
    /\ KeepLedger
    /\ calls'[c].snap \in {Snap(c), Absent, records[OpOf(c)]}
    /\ calls'[c].pc \notin {"idle", "done"} /\ calls'[c].outcome = "none"
    /\ KeepsItsPlace(c)

Quitting(c) ==          \* returns that write nothing
    /\ ~ At(c, "done")
    /\ KeepLedger
    /\ calls'[c].pc = "done" /\ calls'[c].snap = Absent /\ calls'[c].outcome # "none"
    /\ calls'[c].outcome \in Settled =>
            At(c, "decide") /\ Ending(Snap(c)) = calls'[c].outcome

Claiming(c) ==
    /\ At(c, "claim")
    /\ ClaimAccepts(OpOf(c), Snap(c).rev, RuntimeOf(c))
    /\ Claim(OpOf(c), RuntimeOf(c), Snap(c).token + 1, Snap(c).state)
    /\ calls'[c].pc = "reload" /\ calls'[c].snap = Absent /\ calls'[c].outcome = "none"

Revising(c) ==          \* a principal or an allow, and on
    \E next \in BindingSuccessors(Snap(c)) \cup AuthorizationSuccessors(Snap(c)) :
        /\ Exists(Snap(c))
        /\ Saves(c, next)
        /\ Ending(next) = Ending(Snap(c))
        /\ calls'[c].pc = "decide" /\ calls'[c].snap = next /\ calls'[c].outcome = "none"

\* What entitles a call to dispatch: nothing was dispatched before, or the
\* operation key, or an authoritative absence.
MayDispatch(c) ==
    /\ invocation[c].mode = "normal"
    /\ \/ Snap(c).claim.resumeFrom = "authorized"
       \/ ~ Profile[OpOf(c)].reconcile /\ usesOperationKey(OpOf(c))
       \/ At(c, "answered") /\ calls[c].answer = "absent"

Dispatching(c) ==
    /\ Snap(c).state = "claimed" /\ MayDispatch(c)
    /\ Saves(c, DispatchedRecord(Snap(c)))
    /\ calls'[c].pc = "dispatched" /\ calls'[c].snap = DispatchedRecord(Snap(c))
    /\ calls'[c].outcome = "none"

\* A success was observed, and a reconciliation is the Provider's own answer.
Witnessed(c, next) ==
    /\ next.state = "succeeded" => ExecuteReturns(c)
    /\ next.state = "reconciled" =>
            At(c, "answered") /\ calls[c].answer = next.reconciliation

Settling(c) ==          \* writes that the call returns with
    \E next \in Successors(OpOf(c), Snap(c)) :
        /\ Exists(Snap(c))
        /\ Saves(c, next)
        /\ next.state \in TerminalStates \cup {"uncertain"}
        /\ Witnessed(c, next)
        /\ calls'[c].pc = "done" /\ calls'[c].snap = Absent /\ calls'[c].outcome # "none"
        /\ IF Terminal(next) THEN Ending(next) = calls'[c].outcome
                             ELSE calls'[c].outcome \notin Settled

KindOfStep(c) ==
    \/ Entering(c) \/ Looking(c) \/ Quitting(c) \/ Claiming(c)
    \/ Revising(c) \/ Dispatching(c) \/ Settling(c)

\* The only kind that touches the Provider's fence.
Answering(c) ==
    /\ At(c, "reconciling")
    /\ KeepLedger
    /\ calls'[c].pc = "answered" /\ calls'[c].snap = Snap(c) /\ calls'[c].outcome = "none"
    /\ calls'[c].answer = "succeeded" => landed[OpOf(c)] # {}
    /\ calls'[c].answer \in {"absent", "failed"} =>
            landed[OpOf(c)] = {} /\ fence'[OpOf(c)] >= ContextToken(c)
    /\ fence' \in [Ops -> Nat]
    /\ \A op \in Ops : fence'[op] >= fence[op]
    /\ UNCHANGED <<now, invocation, sent, landed>>

CallMoved(c) ==
    /\ OnlyCall(c)
    /\ CallFits(c)'
    /\ \/ Answering(c)
       \/ KindOfStep(c) /\ UNCHANGED <<now, invocation, providerVars>>

-----------------------------------------------------------------------------
(***************************************************************************)
(* Every segment of a call is of one of the kinds.                         *)
(***************************************************************************)

\* The fields of the patched records that the kinds speak of.
LEMMA PatchStates ==
    ASSUME NEW rec \in OperationRecord
    PROVE  /\ CancelledRecord(rec).state = "cancelled"
           /\ DispatchedRecord(rec).state = "dispatched"
           /\ SucceededRecord(rec).state = "succeeded"
           /\ FailedRecord(rec).state = "failed"
           /\ UncertainRecord(rec).state = "uncertain"
           /\ AuthorizedRecord(rec, "allow").state = "authorized"
           /\ AuthorizedRecord(rec, "deny").state = "denied"
    BY DEF CancelledRecord, DispatchedRecord, SucceededRecord, FailedRecord,
           UncertainRecord, AuthorizedRecord, Attempted, Revised, OperationRecord

LEMMA ReconciledFields ==
    ASSUME NEW rec \in OperationRecord, NEW outcome \in {"succeeded", "failed"}
    PROVE  /\ ReconciledRecord(rec, outcome).state = "reconciled"
           /\ ReconciledRecord(rec, outcome).reconciliation = outcome
    BY DEF ReconciledRecord, Revised, OperationRecord

LEMMA BoundFields ==
    ASSUME NEW rec \in OperationRecord, NEW p \in Principals
    PROVE  /\ BoundRecord(rec, p) \in OperationRecord
           /\ BoundRecord(rec, p).state = rec.state
           /\ BoundRecord(rec, p).reconciliation = rec.reconciliation
           /\ Ending(BoundRecord(rec, p)) = Ending(rec)
<1>1. /\ BoundRecord(rec, p) \in OperationRecord
      /\ BoundRecord(rec, p).state = rec.state
      /\ BoundRecord(rec, p).reconciliation = rec.reconciliation
    BY RevisedType DEF BoundRecord, Revised, OperationRecord
<1>2. Ending(BoundRecord(rec, p)) = Ending(rec)
    BY <1>1 DEF Ending, Terminal
<1> QED BY <1>1, <1>2

LEMMA ReturnFits ==
    ASSUME TypeOK, NEW c \in Calls, NEW outcome \in Outcomes, Return(c, outcome)
    PROVE  /\ OnlyCall(c) /\ CallFits(c)'
           /\ calls'[c].pc = "done" /\ calls'[c].snap = Absent
           /\ calls'[c].outcome = outcome /\ calls'[c].outcome # "none"
<1>1. calls \in [Calls -> CallState] /\ outcome # "none"
    BY DEF TypeOK, Outcomes
<1>2. /\ OnlyCall(c)
      /\ calls'[c].pc = "done" /\ calls'[c].snap = Absent
      /\ calls'[c].answer = "none" /\ calls'[c].outcome = outcome
    BY <1>1, ReturnEffect
<1>3. Absent.state = "absent"
    BY DEF Absent
<1>4. CallFits(c)'
    BY <1>1, <1>2, <1>3 DEF CallFits, Exists, Snap, At, WithoutSnapshot
<1> QED BY <1>1, <1>2, <1>4

\* A call that gives up without a write.
LEMMA QuitMoves ==
    ASSUME TypeOK, NEW c \in Calls, NEW outcome \in Outcomes, ~ At(c, "done"),
           outcome \in Settled => At(c, "decide") /\ Ending(Snap(c)) = outcome,
           Return(c, outcome), KeepLedger
    PROVE  OnlyCall(c) /\ CallFits(c)' /\ KindOfStep(c)
    BY ReturnFits DEF Quitting, KindOfStep

\* A call that returns with what it wrote, or because the write was refused.
LEMMA SettleMoves ==
    ASSUME TypeOK, NEW c \in Calls, Active(c), Exists(Snap(c)),
           NEW next \in Successors(OpOf(c), Snap(c)),
           next.state \in TerminalStates \cup {"uncertain"},
           Witnessed(c, next), NEW outcome \in Outcomes,
           IF Terminal(next) THEN Ending(next) = outcome ELSE outcome \notin Settled,
           SaveAndReturn(c, next, outcome)
    PROVE  OnlyCall(c) /\ CallFits(c)' /\ KindOfStep(c)
<1>1. CASE Saves(c, next) /\ Return(c, outcome)
  <2>1. Settling(c)
    BY <1>1, ReturnFits DEF Settling
  <2> QED BY <1>1, <2>1, ReturnFits DEF KindOfStep
<1>2. CASE IsRefused(c, next) /\ Return(c, "busy")
  <2>1. "busy" \in Outcomes /\ "busy" \notin Settled
    BY DEF Outcomes, Settled
  <2>2. ~ At(c, "done")
    BY DEF Active, At
  <2> QED BY <1>2, <2>1, <2>2, QuitMoves DEF IsRefused
<1> QED BY <1>1, <1>2 DEF SaveAndReturn

\* A call that drops its snapshot to read the record again.
LEMMA LookAgainMoves ==
    ASSUME TypeOK, CallsFit, NEW c \in Calls, Active(c), ~ At(c, "answered"),
           NEW pc \in {"reload", "rebind"}, NEW retries \in Nat,
           LookAgain(c, pc, retries), KeepLedger
    PROVE  OnlyCall(c) /\ CallFits(c)' /\ KindOfStep(c)
<1>1. calls \in [Calls -> CallState] /\ pc \in ProgramCounters
    BY DEF TypeOK, ProgramCounters
<1>2. /\ OnlyCall(c)
      /\ calls'[c].pc = pc /\ calls'[c].snap = Absent
      /\ calls'[c].answer = calls[c].answer /\ calls'[c].outcome = calls[c].outcome
    BY <1>1, LookAgainEffect
<1>3. calls[c].answer = "none" /\ calls[c].outcome = "none"
    BY DEF CallsFit, CallFits, At, Active
<1>4. Absent.state = "absent"
    BY DEF Absent
<1>5. CallFits(c)'
    BY <1>2, <1>3, <1>4 DEF CallFits, Exists, Snap, At, WithoutSnapshot
<1>6. Looking(c)
    BY <1>2, <1>3 DEF Looking, KeepsItsPlace, InDispatch
<1> QED BY <1>2, <1>5, <1>6 DEF KindOfStep

\* A call that goes on at the head of the loop with the record it just read
\* or wrote.
LEMMA DecideFits ==
    ASSUME TypeOK, CallsFit, NEW c \in Calls, Active(c), NEW rec \in OperationRecord,
           Exists(rec), Continue(c, "decide", rec)
    PROVE  /\ OnlyCall(c) /\ CallFits(c)'
           /\ calls'[c].pc = "decide" /\ calls'[c].snap = rec /\ calls'[c].outcome = "none"
<1>1. calls \in [Calls -> CallState] /\ "decide" \in ProgramCounters
    BY DEF TypeOK, ProgramCounters
<1>2. /\ OnlyCall(c)
      /\ calls'[c].pc = "decide" /\ calls'[c].snap = rec
      /\ calls'[c].answer = "none" /\ calls'[c].outcome = calls[c].outcome
    BY <1>1, ContinueEffect
<1>3. calls[c].outcome = "none"
    BY DEF CallsFit, CallFits, At, Active
<1>4. CallFits(c)'
    BY <1>2, <1>3 DEF CallFits, Exists, Snap, At, WithoutSnapshot
<1> QED BY <1>2, <1>3, <1>4

\* applyPrincipalBinding on a record that is or was in the ledger.
LEMMA BindingMoves ==
    ASSUME TypeOK, NEW c \in Calls, calls[c].outcome = "none",
           NEW rec \in OperationRecord, Exists(rec),
           UNCHANGED invocation, ApplyPrincipalBinding(c, rec)
    PROVE  /\ OnlyCall(c) /\ CallFits(c)'
           /\ \/ /\ calls'[c].pc \in {"decide", "bind"} /\ calls'[c].snap = rec
                 /\ calls'[c].outcome = "none"
              \/ /\ Return(c, "principal-conflict")
                 /\ calls'[c].pc = "done" /\ calls'[c].snap = Absent
                 /\ calls'[c].outcome = "principal-conflict"
<1>1. calls \in [Calls -> CallState] /\ {"decide", "bind"} \subseteq ProgramCounters
    BY DEF TypeOK, ProgramCounters
<1>2. CASE rec.principal = invocation[c].principal /\ Continue(c, "decide", rec)
  <2>1. /\ OnlyCall(c)
        /\ calls'[c].pc = "decide" /\ calls'[c].snap = rec
        /\ calls'[c].answer = "none" /\ calls'[c].outcome = calls[c].outcome
    BY <1>1, <1>2, ContinueEffect
  <2>2. CallFits(c)'
    BY <2>1 DEF CallFits, Exists, Snap, At, WithoutSnapshot
  <2> QED BY <2>1, <2>2
<1>3. CASE /\ rec.principal = Nobody /\ invocation[c].principal # Nobody
           /\ Continue(c, "bind", rec)
  <2>1. /\ OnlyCall(c)
        /\ calls'[c].pc = "bind" /\ calls'[c].snap = rec
        /\ calls'[c].answer = "none" /\ calls'[c].outcome = calls[c].outcome
    BY <1>1, <1>3, ContinueEffect
  <2>2. CallFits(c)'
    BY <1>3, <2>1 DEF CallFits, Exists, Snap, At, WithoutSnapshot
  <2> QED BY <2>1, <2>2
<1>4. CASE Return(c, "principal-conflict")
    BY <1>4, ReturnFits DEF Outcomes
<1> QED BY <1>2, <1>3, <1>4 DEF ApplyPrincipalBinding

LEMMA StartMoves ==
    ASSUME RuntimeInv, NEW c \in Calls, Start(c)
    PROVE  CallMoved(c)
<1> DEFINE op == OpOf(c)
           rec == ProposedRecord(op, invocation[c].principal, now)
<1>1. /\ TypeOK /\ op \in Ops /\ records[op] \in OperationRecord
      /\ At(c, "idle") /\ calls[c].outcome = "none"
    BY OneCall DEF RuntimeInv, Start, CallsFit, CallFits, At
<1>2. rec \in OperationRecord /\ Exists(rec)
  <2>1. rec.state = "proposed"
    BY DEF ProposedRecord, Absent
  <2> QED BY <1>1, <2>1, OneCall, ProposedType DEF Exists
<1>3. Create(op, rec) /\ UNCHANGED <<now, invocation, providerVars>>
    BY DEF Start
<1>4. records'[op] = IF Exists(records[op]) THEN records[op] ELSE rec
    BY <1>1, <1>3 DEF Create, TypeOK, LedgerTypeOK
<1>5. records'[op] \in OperationRecord /\ Exists(records'[op])
    BY <1>1, <1>2, <1>4
<1>6. CASE Return(c, "authorization-conflict")
  <2>1. /\ "authorization-conflict" \in Outcomes
        /\ "authorization-conflict" \notin Settled \cup {"none"}
    BY DEF Outcomes, Settled
  <2>2. Entering(c)
    BY <1>1, <1>3, <1>6, <2>1, ReturnFits DEF Entering
  <2> QED BY <1>1, <1>3, <1>6, <2>1, <2>2, ReturnFits DEF CallMoved, KindOfStep
<1>7. CASE ApplyPrincipalBinding(c, records'[op])
  <2>1. "principal-conflict" \notin Settled \cup {"none"}
    BY DEF Settled
  <2>2. /\ OnlyCall(c) /\ CallFits(c)'
        /\ \/ /\ calls'[c].pc \in {"decide", "bind"} /\ calls'[c].snap = records'[op]
              /\ calls'[c].outcome = "none"
           \/ /\ calls'[c].pc = "done" /\ calls'[c].snap = Absent
              /\ calls'[c].outcome = "principal-conflict"
    BY <1>1, <1>3, <1>5, <1>7, BindingMoves
  <2>3. Entering(c)
    BY <1>1, <1>3, <2>1, <2>2 DEF Entering
  <2> QED BY <1>3, <2>2, <2>3 DEF CallMoved, KindOfStep
<1> QED BY <1>6, <1>7 DEF Start

LEMMA ReloadForBindingMoves ==
    ASSUME RuntimeInv, NEW c \in Calls, ReloadForBinding(c)
    PROVE  CallMoved(c)
<1> DEFINE rec == records[OpOf(c)]
<1>1. /\ TypeOK /\ rec \in OperationRecord /\ Exists(rec) /\ Active(c)
      /\ calls[c].outcome = "none" /\ ~ At(c, "done")
    BY OneCall DEF RuntimeInv, ReloadForBinding, CallsFit, CallFits, At, Active, ActiveHasRecord
<1>2. /\ ApplyPrincipalBinding(c, rec) /\ KeepLedger
      /\ UNCHANGED <<now, invocation, providerVars>>
    BY DEF ReloadForBinding
<1>3. /\ OnlyCall(c) /\ CallFits(c)'
      /\ \/ /\ calls'[c].pc \in {"decide", "bind"} /\ calls'[c].snap = rec
            /\ calls'[c].outcome = "none"
         \/ /\ calls'[c].pc = "done" /\ calls'[c].snap = Absent
            /\ calls'[c].outcome = "principal-conflict"
    BY <1>1, <1>2, BindingMoves
<1>4. CASE calls'[c].pc \in {"decide", "bind"} /\ calls'[c].snap = rec
                /\ calls'[c].outcome = "none"
  <2>1. Looking(c)
    BY <1>1, <1>2, <1>4 DEF Looking, KeepsItsPlace, InDispatch
  <2> QED BY <1>2, <1>3, <2>1 DEF CallMoved, KindOfStep
<1>5. CASE calls'[c].pc = "done" /\ calls'[c].snap = Absent
                /\ calls'[c].outcome = "principal-conflict"
  <2>1. Quitting(c)
    BY <1>1, <1>2, <1>5 DEF Quitting, Settled
  <2> QED BY <1>2, <1>3, <2>1 DEF CallMoved, KindOfStep
<1> QED BY <1>3, <1>4, <1>5

LEMMA RefuseMaterialMoves ==
    ASSUME RuntimeInv, NEW c \in Calls, RefuseMaterial(c)
    PROVE  CallMoved(c)
<1>1. TypeOK /\ ~ At(c, "done") /\ "conflict" \in Outcomes \ Settled
    BY DEF RuntimeInv, RefuseMaterial, At, Outcomes, Settled
<1>2. Return(c, "conflict") /\ KeepLedger /\ UNCHANGED <<now, invocation, providerVars>>
    BY DEF RefuseMaterial
<1> QED BY <1>1, <1>2, QuitMoves DEF CallMoved

LEMMA BindPrincipalMoves ==
    ASSUME RuntimeInv, NEW c \in Calls, BindPrincipal(c)
    PROVE  CallMoved(c)
<1> DEFINE p == invocation[c].principal
           next == BoundRecord(Snap(c), p)
<1>1. /\ TypeOK /\ CallsFit /\ Active(c) /\ ~ At(c, "answered")
      /\ Snap(c) \in OperationRecord /\ Exists(Snap(c))
      /\ Snap(c).principal = Nobody /\ p \in Principals
    BY OneCall DEF RuntimeInv, BindPrincipal, CallsFit, CallFits, At, Active, WithoutSnapshot
<1>2. /\ next \in BindingSuccessors(Snap(c)) /\ next \in OperationRecord
      /\ Exists(next) /\ Ending(next) = Ending(Snap(c))
    BY <1>1, BoundFields DEF BindingSuccessors, Exists
<1>3. UNCHANGED <<now, invocation, providerVars>>
    BY DEF BindPrincipal
<1> HIDE DEF next
<1>4. CASE Saves(c, next) /\ Continue(c, "decide", next)
  <2>1. /\ OnlyCall(c) /\ CallFits(c)'
        /\ calls'[c].pc = "decide" /\ calls'[c].snap = next /\ calls'[c].outcome = "none"
    BY <1>1, <1>2, <1>4, DecideFits
  <2>2. Revising(c)
    BY <1>1, <1>2, <1>4, <2>1 DEF Revising
  <2> QED BY <1>3, <2>1, <2>2 DEF CallMoved, KindOfStep
<1>5. CASE IsRefused(c, next) /\ LookAgain(c, "rebind", 0)
    BY <1>1, <1>3, <1>5, LookAgainMoves DEF IsRefused, CallMoved
<1> QED BY <1>4, <1>5 DEF BindPrincipal, next

LEMMA AuthorizeMoves ==
    ASSUME RuntimeInv, NEW c \in Calls, Authorize(c)
    PROVE  CallMoved(c)
<1>1. /\ TypeOK /\ CallsFit /\ Active(c) /\ ~ At(c, "answered") /\ ~ At(c, "done")
      /\ Snap(c) \in OperationRecord /\ Snap(c).state = "proposed" /\ Exists(Snap(c))
      /\ OpOf(c) \in Ops /\ calls[c].retries \in Nat
    BY OneCall DEF RuntimeInv, Authorize, Deciding, At, Active, Exists
<1>2. UNCHANGED <<now, invocation, providerVars>>
    BY DEF Authorize
<1>3. CASE Return(c, "authorization-required") /\ KeepLedger
  <2>1. "authorization-required" \in Outcomes \ Settled
    BY DEF Outcomes, Settled
  <2> QED BY <1>1, <1>2, <1>3, <2>1, QuitMoves DEF CallMoved
<1>4. ASSUME NEW decision \in Decisions(c),
             SaveOrReload(c, AuthorizedRecord(Snap(c), decision),
                IF decision = "deny" THEN Return(c, "denied")
                ELSE Continue(c, "decide", AuthorizedRecord(Snap(c), decision)))
      PROVE  CallMoved(c)
  <2> DEFINE next == AuthorizedRecord(Snap(c), decision)
  <2>1. decision \in {"allow", "deny"}
    BY <1>1, OneCall, RuntimeAssumption DEF Decisions, Evidence
  <2>2. /\ next \in AuthorizationSuccessors(Snap(c)) /\ next \in Successors(OpOf(c), Snap(c))
        /\ next \in OperationRecord
    BY <1>1, <2>1, AuthorizedType DEF AuthorizationSuccessors, Successors
  <2>3. next.state = IF decision = "allow" THEN "authorized" ELSE "denied"
    BY <1>1, <2>1, PatchStates
  <2> HIDE DEF next
  <2>4. CASE Saves(c, next) /\ decision = "deny" /\ Return(c, "denied")
    <3>1. Terminal(next) /\ Ending(next) = "denied" /\ next.state = "denied"
      BY <2>3, <2>4 DEF Terminal, TerminalStates, Ending
    <3>2. "denied" \in Outcomes /\ next.state \in TerminalStates /\ Witnessed(c, next)
      BY <3>1 DEF Outcomes, TerminalStates, Witnessed
    <3>3. SaveAndReturn(c, next, "denied")
      BY <2>4 DEF SaveAndReturn
    <3> QED BY <1>1, <1>2, <2>2, <3>1, <3>2, <3>3, SettleMoves DEF CallMoved
  <2>5. CASE Saves(c, next) /\ decision # "deny" /\ Continue(c, "decide", next)
    <3>1. next.state = "authorized"
      BY <2>1, <2>3, <2>5
    <3>2. Exists(next) /\ Ending(next) = "open" /\ Ending(Snap(c)) = "open"
      BY <1>1, <3>1 DEF Exists, Ending, Terminal, TerminalStates
    <3>3. /\ OnlyCall(c) /\ CallFits(c)'
          /\ calls'[c].pc = "decide" /\ calls'[c].snap = next /\ calls'[c].outcome = "none"
      BY <1>1, <2>2, <2>5, <3>2, DecideFits
    <3>4. Revising(c)
      BY <1>1, <2>2, <2>5, <3>2, <3>3 DEF Revising
    <3> QED BY <1>2, <3>3, <3>4 DEF CallMoved, KindOfStep
  <2>6. CASE IsRefused(c, next) /\ LookAgain(c, "reload", calls[c].retries)
    BY <1>1, <1>2, <2>6, LookAgainMoves DEF IsRefused, CallMoved
  <2> QED BY <1>4, <2>4, <2>5, <2>6 DEF SaveOrReload, next
<1> QED BY <1>3, <1>4 DEF Authorize

LEMMA CancelBeforeClaimMoves ==
    ASSUME RuntimeInv, NEW c \in Calls, CancelBeforeClaim(c)
    PROVE  CallMoved(c)
<1> DEFINE next == CancelledRecord(Snap(c))
<1>1. /\ TypeOK /\ CallsFit /\ Active(c) /\ ~ At(c, "answered")
      /\ Snap(c) \in OperationRecord /\ Snap(c).state = "authorized" /\ Exists(Snap(c))
      /\ OpOf(c) \in Ops /\ calls[c].retries \in Nat
    BY OneCall DEF RuntimeInv, CancelBeforeClaim, Deciding, At, Active, Exists
<1>2. next.state = "cancelled" /\ next \in Successors(OpOf(c), Snap(c))
    BY <1>1, PatchStates DEF CancelSuccessors, Successors
<1>3. UNCHANGED <<now, invocation, providerVars>>
    BY DEF CancelBeforeClaim
<1> HIDE DEF next
<1>4. CASE Saves(c, next) /\ Return(c, "cancelled")
  <2>1. /\ Terminal(next) /\ Ending(next) = "cancelled" /\ Witnessed(c, next)
        /\ next.state \in TerminalStates /\ "cancelled" \in Outcomes
    BY <1>2 DEF Terminal, TerminalStates, Ending, Witnessed, Outcomes
  <2>2. SaveAndReturn(c, next, "cancelled")
    BY <1>4 DEF SaveAndReturn
  <2> QED BY <1>1, <1>2, <1>3, <2>1, <2>2, SettleMoves DEF CallMoved
<1>5. CASE IsRefused(c, next) /\ LookAgain(c, "reload", calls[c].retries)
    BY <1>1, <1>3, <1>5, LookAgainMoves DEF IsRefused, CallMoved
<1> QED BY <1>4, <1>5 DEF CancelBeforeClaim, SaveOrReload, next

\* A move to another place in the code with the same snapshot.
LEMMA GotoMoves ==
    ASSUME TypeOK, CallsFit, NEW c \in Calls, Active(c),
           NEW pc \in {"claim", "executing", "reconciling"}, ~ At(c, "answered"),
           pc = "claim" => Snap(c).state \in Claimable,
           pc = "executing" => At(c, "dispatched"),
           pc = "reconciling" => Snap(c).state = "claimed" /\ Profile[OpOf(c)].reconcile,
           Exists(Snap(c)), Goto(c, pc), KeepLedger, UNCHANGED <<now, invocation, providerVars>>
    PROVE  CallMoved(c)
<1>1. calls \in [Calls -> CallState] /\ pc \in ProgramCounters
    BY DEF TypeOK, ProgramCounters
<1>2. /\ OnlyCall(c)
      /\ calls'[c].pc = pc /\ calls'[c].snap = Snap(c)
      /\ calls'[c].answer = calls[c].answer /\ calls'[c].outcome = calls[c].outcome
    BY <1>1, GotoEffect DEF Snap
<1>3. /\ calls[c].answer = "none" /\ calls[c].outcome = "none"
      /\ At(c, "dispatched") => Snap(c).state = "dispatched" /\ invocation[c].mode = "normal"
    BY DEF CallsFit, CallFits, At, Active
<1>4. CallFits(c)'
    BY <1>2, <1>3 DEF CallFits, Exists, Snap, At, WithoutSnapshot, OpOf
<1>5. Looking(c)
    BY <1>2, <1>3 DEF Looking, KeepsItsPlace, InDispatch, At
<1> QED BY <1>2, <1>4, <1>5 DEF CallMoved, KindOfStep

LEMMA ReadLeaseMoves ==
    ASSUME RuntimeInv, NEW c \in Calls, ReadLease(c)
    PROVE  CallMoved(c)
<1>1. /\ TypeOK /\ CallsFit /\ Active(c) /\ ~ At(c, "answered") /\ ~ At(c, "done")
      /\ Snap(c).state \in Claimable /\ Exists(Snap(c))
    BY DEF RuntimeInv, ReadLease, Deciding, At, Active, Exists, Claimable
<1>2. KeepLedger /\ UNCHANGED <<now, invocation, providerVars>>
    BY DEF ReadLease
<1>3. CASE Return(c, "busy")
    BY <1>1, <1>2, <1>3, QuitMoves DEF CallMoved, Outcomes, Settled
<1>4. CASE Goto(c, "claim")
    BY <1>1, <1>2, <1>4, GotoMoves
<1> QED BY <1>3, <1>4 DEF ReadLease

LEMMA ClaimOperationMoves ==
    ASSUME RuntimeInv, NEW c \in Calls, ClaimOperation(c)
    PROVE  CallMoved(c)
<1>1. /\ TypeOK /\ CallsFit /\ Active(c) /\ ~ At(c, "answered") /\ ~ At(c, "done")
      /\ At(c, "claim") /\ calls[c].retries \in Nat /\ calls[c].retries + 1 \in Nat
      /\ calls[c].outcome = "none" /\ calls[c].answer = "none"
    BY OneCall DEF RuntimeInv, ClaimOperation, CallsFit, CallFits, At, Active
<1>2. UNCHANGED <<now, invocation, providerVars>>
    BY DEF ClaimOperation
<1>3. CASE /\ ClaimAccepts(OpOf(c), Snap(c).rev, RuntimeOf(c))
           /\ Claim(OpOf(c), RuntimeOf(c), Snap(c).token + 1, Snap(c).state)
           /\ LookAgain(c, "reload", calls[c].retries)
  <2>1. calls \in [Calls -> CallState] /\ "reload" \in ProgramCounters
    BY <1>1 DEF TypeOK, ProgramCounters
  <2>2. /\ OnlyCall(c)
        /\ calls'[c].pc = "reload" /\ calls'[c].snap = Absent
        /\ calls'[c].answer = "none" /\ calls'[c].outcome = "none"
    BY <1>1, <1>3, <2>1, LookAgainEffect
  <2>3. Absent.state = "absent"
    BY DEF Absent
  <2>4. CallFits(c)'
    BY <2>2, <2>3 DEF CallFits, Exists, Snap, At, WithoutSnapshot
  <2>5. Claiming(c)
    BY <1>1, <1>3, <2>2 DEF Claiming
  <2> QED BY <1>2, <2>2, <2>4, <2>5 DEF CallMoved, KindOfStep
<1>4. CASE Return(c, "busy") /\ KeepLedger
    BY <1>1, <1>2, <1>4, QuitMoves DEF CallMoved, Outcomes, Settled
<1>5. CASE LookAgain(c, "reload", calls[c].retries + 1) /\ KeepLedger
    BY <1>1, <1>2, <1>5, LookAgainMoves DEF CallMoved
<1> QED BY <1>3, <1>4, <1>5 DEF ClaimOperation

LEMMA ReloadMoves ==
    ASSUME RuntimeInv, NEW c \in Calls, Reload(c)
    PROVE  CallMoved(c)
<1> DEFINE rec == records[OpOf(c)]
<1>1. /\ TypeOK /\ CallsFit /\ Active(c) /\ rec \in OperationRecord /\ Exists(rec)
    BY OneCall DEF RuntimeInv, Reload, At, Active, ActiveHasRecord
<1>2. /\ Continue(c, "decide", rec) /\ KeepLedger
      /\ UNCHANGED <<now, invocation, providerVars>>
    BY DEF Reload
<1>3. /\ OnlyCall(c) /\ CallFits(c)'
      /\ calls'[c].pc = "decide" /\ calls'[c].snap = rec /\ calls'[c].outcome = "none"
    BY <1>1, <1>2, DecideFits
<1>4. Looking(c)
    BY <1>1, <1>2, <1>3 DEF Looking, KeepsItsPlace, InDispatch
<1> QED BY <1>2, <1>3, <1>4 DEF CallMoved, KindOfStep

-----------------------------------------------------------------------------
(***************************************************************************)
(* Dispatch, execution and recovery.                                       *)
(***************************************************************************)
LEMMA CancelledSettles ==
    ASSUME RuntimeInv, NEW c \in Calls, Active(c), Exists(Snap(c)),
           CancelledRecord(Snap(c)) \in Successors(OpOf(c), Snap(c)),
           SaveAndReturn(c, CancelledRecord(Snap(c)), "cancelled")
    PROVE  OnlyCall(c) /\ CallFits(c)' /\ KindOfStep(c)
<1> DEFINE next == CancelledRecord(Snap(c))
<1>1. TypeOK /\ next.state = "cancelled"
    BY OneCall, PatchStates DEF RuntimeInv
<1> HIDE DEF next
<1>2. /\ Terminal(next) /\ Ending(next) = "cancelled" /\ Witnessed(c, next)
      /\ next.state \in TerminalStates /\ "cancelled" \in Outcomes
    BY <1>1 DEF Terminal, TerminalStates, Ending, Witnessed, Outcomes
<1> QED BY <1>1, <1>2, SettleMoves DEF next

LEMMA UncertainSettles ==
    ASSUME RuntimeInv, NEW c \in Calls, Active(c), Snap(c).state \in {"claimed", "dispatched"},
           NEW outcome \in Outcomes \ Settled,
           SaveAndReturn(c, UncertainRecord(Snap(c)), outcome)
    PROVE  OnlyCall(c) /\ CallFits(c)' /\ KindOfStep(c)
<1> DEFINE next == UncertainRecord(Snap(c))
<1>1. /\ TypeOK /\ next.state = "uncertain" /\ next \in Successors(OpOf(c), Snap(c))
      /\ Exists(Snap(c))
    BY OneCall, PatchStates DEF RuntimeInv, UncertainSuccessors, Successors, Exists
<1> HIDE DEF next
<1>2. ~ Terminal(next) /\ Witnessed(c, next)
    BY <1>1 DEF Terminal, TerminalStates, Witnessed
<1> QED BY <1>1, <1>2, SettleMoves DEF next

LEMMA DispatchMoves ==
    ASSUME RuntimeInv, NEW c \in Calls, Active(c), Snap(c).state = "claimed",
           MayDispatch(c), DispatchAndExecute(c), UNCHANGED <<now, invocation, providerVars>>
    PROVE  CallMoved(c)
<1> DEFINE next == DispatchedRecord(Snap(c))
<1>1. /\ TypeOK /\ CallsFit /\ Snap(c) \in OperationRecord /\ OpOf(c) \in Ops
      /\ ~ At(c, "done") /\ calls[c].outcome = "none" /\ calls \in [Calls -> CallState]
      /\ Exists(Snap(c))
    BY OneCall DEF RuntimeInv, CallsFit, CallFits, At, Active, Exists
<1>2. next \in OperationRecord /\ next.state = "dispatched"
    BY <1>1, DispatchedType, PatchStates
<1> HIDE DEF next
<1>3. CASE Saves(c, next) /\ Continue(c, "dispatched", next)
  <2>1. "dispatched" \in ProgramCounters
    BY DEF ProgramCounters
  <2>2. /\ OnlyCall(c)
        /\ calls'[c].pc = "dispatched" /\ calls'[c].snap = next
        /\ calls'[c].answer = "none" /\ calls'[c].outcome = "none"
    BY <1>1, <1>2, <1>3, <2>1, ContinueEffect
  <2>3. invocation'[c].mode = "normal"
    BY DEF MayDispatch
  <2>4. CallFits(c)'
    BY <1>2, <2>2, <2>3 DEF CallFits, Exists, Snap, At, WithoutSnapshot
  <2>5. Dispatching(c)
    BY <1>3, <2>2 DEF Dispatching, next
  <2> QED BY <2>2, <2>4, <2>5 DEF CallMoved, KindOfStep
<1>4. CASE IsRefused(c, next) /\ Return(c, "busy")
    BY <1>1, <1>4, QuitMoves DEF CallMoved, Outcomes, Settled, IsRefused
<1>5. CASE /\ Snap(c).claim.resumeFrom = "authorized"
           /\ SaveAndReturn(c, CancelledRecord(Snap(c)), "cancelled")
  <2>1. CancelledRecord(Snap(c)) \in Successors(OpOf(c), Snap(c))
    BY <1>5 DEF CancelSuccessors, Successors
  <2> QED BY <1>1, <1>5, <2>1, CancelledSettles DEF CallMoved
<1>6. CASE SaveAndReturn(c, UncertainRecord(Snap(c)), "uncertain")
    BY <1>6, UncertainSettles DEF CallMoved, Outcomes, Settled
<1> QED BY <1>3, <1>4, <1>5, <1>6 DEF DispatchAndExecute, next

LEMMA FirstDispatchMoves ==
    ASSUME RuntimeInv, NEW c \in Calls, FirstDispatch(c)
    PROVE  CallMoved(c)
<1>1. Active(c) /\ Snap(c).state = "claimed" /\ MayDispatch(c)
    BY DEF FirstDispatch, Deciding, WillExecute, MayDispatch, At, Active
<1> QED BY <1>1, DispatchMoves DEF FirstDispatch

LEMMA ExpireAfterDispatchMoves ==
    ASSUME RuntimeInv, NEW c \in Calls, ExpireAfterDispatch(c)
    PROVE  CallMoved(c)
<1>1. Active(c) /\ Snap(c).state = "dispatched"
    BY DEF RuntimeInv, CallsFit, CallFits, ExpireAfterDispatch, At, Active
<1>2. "idempotency-expired" \in Outcomes \ Settled
    BY DEF Outcomes, Settled
<1> QED BY <1>1, <1>2, UncertainSettles DEF ExpireAfterDispatch, CallMoved

LEMMA CancelRecoveryMoves ==
    ASSUME RuntimeInv, NEW c \in Calls, CancelRecovery(c)
    PROVE  CallMoved(c)
<1>1. Active(c) /\ Snap(c).state = "claimed"
    BY DEF CancelRecovery, Recovering, Deciding, At, Active
<1>2. "uncertain" \in Outcomes \ Settled
    BY DEF Outcomes, Settled
<1> QED BY <1>1, <1>2, UncertainSettles DEF CancelRecovery, CallMoved

LEMMA RecoveryEvidence ==
    ASSUME TypeOK, NEW c \in Calls
    PROVE  /\ evaluateRecovery(OpOf(c), Snap(c), invocation[c].mode, now)
                  = "redispatch-same-key" =>
                /\ ~ Profile[OpOf(c)].reconcile /\ usesOperationKey(OpOf(c))
                /\ invocation[c].mode = "normal"
           /\ \A safe \in BOOLEAN :
                evaluateAuthoritativeAbsence(Snap(c), safe, invocation[c].mode, now)
                  = "redispatch-same-key" => safe /\ invocation[c].mode = "normal"
           /\ evaluateRecovery(OpOf(c), Snap(c), invocation[c].mode, now) = "query"
                => Profile[OpOf(c)].reconcile
<1>1. invocation[c].mode \in {"normal", "reconcile-only"}
    BY OneCall DEF RecoveryMode
<1>2. \A usable \in BOOLEAN :
        /\ evaluateSameKeyRedispatch(Snap(c), usable, invocation[c].mode, now)
              = "redispatch-same-key" => usable /\ invocation[c].mode = "normal"
        /\ evaluateSameKeyRedispatch(Snap(c), usable, invocation[c].mode, now) # "query"
    BY <1>1 DEF evaluateSameKeyRedispatch
<1>3. usesOperationKey(OpOf(c)) \in BOOLEAN
    BY DEF usesOperationKey
<1> QED BY <1>2, <1>3 DEF evaluateRecovery, evaluateAuthoritativeAbsence

\* StopAsUncertain surfaces either the expiry or nothing more than "uncertain".
LEMMA StopMoves ==
    ASSUME RuntimeInv, NEW c \in Calls, Active(c), Snap(c).state = "claimed",
           NEW reason, StopAsUncertain(c, reason), UNCHANGED <<now, invocation, providerVars>>
    PROVE  CallMoved(c)
<1>1. {"uncertain", "idempotency-expired"} \subseteq Outcomes \ Settled
    BY DEF Outcomes, Settled
<1>2. PICK outcome \in {"uncertain", "idempotency-expired"} :
            SaveAndReturn(c, UncertainRecord(Snap(c)), outcome)
    BY DEF StopAsUncertain
<1> QED BY <1>1, <1>2, UncertainSettles DEF CallMoved

LEMMA RecoverWithoutQueryMoves ==
    ASSUME RuntimeInv, NEW c \in Calls, RecoverWithoutQuery(c)
    PROVE  CallMoved(c)
<1> DEFINE decision == evaluateRecovery(OpOf(c), Snap(c), invocation[c].mode, now)
<1>1. /\ TypeOK /\ Active(c) /\ Snap(c).state = "claimed"
      /\ UNCHANGED <<now, invocation, providerVars>>
    BY DEF RuntimeInv, RecoverWithoutQuery, Recovering, Deciding, At, Active
<1>2. CASE decision = "redispatch-same-key" /\ DispatchAndExecute(c)
  <2>1. MayDispatch(c)
    BY <1>1, <1>2, RecoveryEvidence DEF MayDispatch
  <2> QED BY <1>1, <1>2, <2>1, DispatchMoves
<1>3. CASE StopAsUncertain(c, decision)
    BY <1>1, <1>3, StopMoves
<1> QED BY <1>2, <1>3 DEF RecoverWithoutQuery

LEMMA BeginReconcileMoves ==
    ASSUME RuntimeInv, NEW c \in Calls, BeginReconcile(c)
    PROVE  CallMoved(c)
<1>1. /\ TypeOK /\ CallsFit /\ Active(c) /\ ~ At(c, "answered")
      /\ Snap(c).state = "claimed" /\ Exists(Snap(c))
    BY DEF RuntimeInv, BeginReconcile, Recovering, Deciding, At, Active, Exists
<1>2. Profile[OpOf(c)].reconcile
    BY <1>1, RecoveryEvidence DEF BeginReconcile
<1> QED BY <1>1, <1>2, GotoMoves DEF BeginReconcile

LEMMA ResolveReconcileMoves ==
    ASSUME RuntimeInv, NEW c \in Calls, ResolveReconcile(c)
    PROVE  CallMoved(c)
<1> DEFINE answer == calls[c].answer
           absence == evaluateAuthoritativeAbsence(Snap(c), answer = "absent",
                                                   invocation[c].mode, now)
<1>1. /\ TypeOK /\ Active(c) /\ At(c, "answered") /\ Snap(c).state = "claimed"
      /\ Profile[OpOf(c)].reconcile /\ Snap(c) \in OperationRecord /\ Exists(Snap(c))
      /\ UNCHANGED <<now, invocation, providerVars>>
    BY OneCall DEF RuntimeInv, CallsFit, CallFits, ResolveReconcile, At, Active, Exists
<1>2. CASE /\ answer \in {"succeeded", "failed"}
           /\ SaveAndReturn(c, ReconciledRecord(Snap(c), answer), answer)
  <2> DEFINE next == ReconciledRecord(Snap(c), answer)
  <2>1. next.state = "reconciled" /\ next.reconciliation = answer
    BY <1>1, <1>2, ReconciledFields
  <2>2. next \in Successors(OpOf(c), Snap(c))
    BY <1>1, <1>2 DEF ReconcileSuccessors, Successors
  <2> HIDE DEF next
  <2>3. /\ Terminal(next) /\ Ending(next) = answer /\ Witnessed(c, next)
        /\ next.state \in TerminalStates /\ answer \in Outcomes
    BY <1>1, <1>2, <2>1 DEF Terminal, TerminalStates, Ending, Witnessed, Outcomes
  <2> QED BY <1>1, <1>2, <2>2, <2>3, SettleMoves DEF CallMoved, next
<1>3. CASE absence = "redispatch-same-key" /\ DispatchAndExecute(c)
  <2>1. answer = "absent" /\ invocation[c].mode = "normal"
    BY <1>1, <1>3, RecoveryEvidence
  <2>2. MayDispatch(c)
    BY <1>1, <2>1 DEF MayDispatch
  <2> QED BY <1>1, <1>3, <2>2, DispatchMoves
<1>4. CASE StopAsUncertain(c, absence)
    BY <1>1, <1>4, StopMoves
<1>5. CASE SaveAndReturn(c, UncertainRecord(Snap(c)), "uncertain")
    BY <1>1, <1>5, UncertainSettles DEF CallMoved, Outcomes, Settled
<1> QED BY <1>2, <1>3, <1>4, <1>5 DEF ResolveReconcile

LEMMA ReadTerminalMoves ==
    ASSUME RuntimeInv, NEW c \in Calls, ReadTerminal(c)
    PROVE  CallMoved(c)
<1> DEFINE rec == Snap(c)
           outcome == IF IsSuccess(rec) THEN "succeeded"
                      ELSE IF rec.state = "reconciled" THEN "failed" ELSE rec.state
<1>1. /\ TypeOK /\ At(c, "decide") /\ ~ At(c, "done") /\ Terminal(rec)
      /\ rec \in OperationRecord
      /\ KeepLedger /\ Return(c, outcome) /\ UNCHANGED <<now, invocation, providerVars>>
    BY OneCall DEF RuntimeInv, ReadTerminal, Deciding, At, Terminal
<1>2. rec.state = "reconciled" => rec.reconciliation \in {"succeeded", "failed"}
    BY <1>1 DEF RuntimeInv, SnapshotsWellFormed, WellFormed, Exists, OperationRecord
<1>3. outcome = Ending(rec) /\ outcome \in Outcomes
    BY <1>1, <1>2 DEF Terminal, TerminalStates, Ending, IsSuccess, Outcomes
<1> QED BY <1>1, <1>3, QuitMoves DEF CallMoved

LEMMA LedgerFreeMoves ==
    ASSUME RuntimeInv, NEW c \in Calls,
           \/ RefuseReconcileOnly(c) \/ BeginExecute(c) \/ Interrupt(c)
           \/ YieldLostLease(c, "executing") \/ YieldLostLease(c, "answered")
    PROVE  CallMoved(c)
<1>1. TypeOK /\ CallsFit /\ {"refused", "busy", "interrupted"} \subseteq Outcomes \ Settled
    BY DEF RuntimeInv, Outcomes, Settled
<1>2. CASE RefuseReconcileOnly(c)
    BY <1>1, <1>2, QuitMoves DEF RefuseReconcileOnly, Deciding, At, CallMoved
<1>3. CASE YieldLostLease(c, "executing") \/ YieldLostLease(c, "answered")
    BY <1>1, <1>3, QuitMoves DEF YieldLostLease, At, CallMoved
<1>4. CASE Interrupt(c)
    BY <1>1, <1>4, QuitMoves DEF Interrupt, Active, At, CallMoved
<1>5. CASE BeginExecute(c)
  <2>1. /\ Active(c) /\ At(c, "dispatched") /\ ~ At(c, "answered")
        /\ Exists(Snap(c))
    BY <1>1, <1>5 DEF BeginExecute, CallsFit, CallFits, Active, At, WithoutSnapshot
  <2> QED BY <1>1, <1>5, <2>1, GotoMoves DEF BeginExecute
<1> QED BY <1>2, <1>3, <1>4, <1>5

LEMMA FinishExecutionMoves ==
    ASSUME RuntimeInv, NEW c \in Calls, FinishExecution(c)
    PROVE  CallMoved(c)
<1> DEFINE next == SucceededRecord(Snap(c))
<1>1. /\ TypeOK /\ Active(c) /\ Snap(c) \in OperationRecord /\ Snap(c).state = "dispatched"
      /\ Exists(Snap(c)) /\ ExecuteReturns(c) /\ SaveAndReturn(c, next, "succeeded")
      /\ UNCHANGED <<now, invocation, providerVars>>
    BY OneCall DEF RuntimeInv, CallsFit, CallFits, FinishExecution, Active, At, Exists
<1>2. next.state = "succeeded" /\ next \in Successors(OpOf(c), Snap(c))
    BY <1>1, PatchStates DEF ExecutionSuccessors, Successors
<1> HIDE DEF next
<1>3. /\ Terminal(next) /\ Ending(next) = "succeeded" /\ Witnessed(c, next)
      /\ next.state \in TerminalStates /\ "succeeded" \in Outcomes
    BY <1>1, <1>2 DEF Terminal, TerminalStates, Ending, Witnessed, Outcomes
<1> QED BY <1>1, <1>2, <1>3, SettleMoves DEF CallMoved, next

LEMMA FailExecutionMoves ==
    ASSUME RuntimeInv, NEW c \in Calls, FailExecution(c)
    PROVE  CallMoved(c)
<1>1. /\ TypeOK /\ Active(c) /\ Snap(c) \in OperationRecord /\ Snap(c).state = "dispatched"
      /\ Exists(Snap(c)) /\ UNCHANGED <<now, invocation, providerVars>>
    BY OneCall DEF RuntimeInv, CallsFit, CallFits, FailExecution, Active, At, Exists
<1>2. CASE SaveAndReturn(c, UncertainRecord(Snap(c)), "uncertain")
    BY <1>1, <1>2, UncertainSettles DEF CallMoved, Outcomes, Settled
<1>3. CASE /\ ~ hasExternalSideEffect(OpOf(c))
           /\ SaveAndReturn(c, CancelledRecord(Snap(c)), "cancelled")
  <2>1. CancelledRecord(Snap(c)) \in Successors(OpOf(c), Snap(c))
    BY <1>1, <1>3 DEF ExecutionSuccessors, Successors
  <2> QED BY <1>1, <1>3, <2>1, CancelledSettles DEF CallMoved
<1>4. CASE /\ ~ hasExternalSideEffect(OpOf(c))
           /\ SaveAndReturn(c, FailedRecord(Snap(c)), "failed")
  <2> DEFINE next == FailedRecord(Snap(c))
  <2>1. next.state = "failed" /\ next \in Successors(OpOf(c), Snap(c))
    BY <1>1, <1>4, PatchStates DEF ExecutionSuccessors, Successors
  <2> HIDE DEF next
  <2>2. /\ Terminal(next) /\ Ending(next) = "failed" /\ Witnessed(c, next)
        /\ next.state \in TerminalStates /\ "failed" \in Outcomes
    BY <2>1 DEF Terminal, TerminalStates, Ending, Witnessed, Outcomes
  <2> QED BY <1>1, <1>4, <2>1, <2>2, SettleMoves DEF CallMoved, next
<1> QED BY <1>2, <1>3, <1>4 DEF FailExecution

LEMMA AnswerQueryMoves ==
    ASSUME RuntimeInv, NEW c \in Calls, AnswerQuery(c)
    PROVE  CallMoved(c)
<1> DEFINE token == ContextToken(c)
<1>1. /\ TypeOK /\ OpOf(c) \in Ops /\ calls \in [Calls -> CallState]
      /\ At(c, "reconciling") /\ Snap(c).state = "claimed" /\ Profile[OpOf(c)].reconcile
      /\ Exists(Snap(c)) /\ calls[c].outcome = "none"
      /\ KeepLedger /\ UNCHANGED <<now, invocation, sent, landed>>
    BY OneCall DEF RuntimeInv, CallsFit, CallFits, AnswerQuery, At, Exists
<1>2. token \in Nat
  <2>1. Snap(c).claim.token \in Nat /\ Snap(c).token \in Nat
    BY <1>1, OneCall DEF OperationRecord, OperationClaim
  <2> QED BY <2>1 DEF ContextToken
<1>3. PICK answer \in ProviderAnswers :
        /\ answer \in IF landed[OpOf(c)] = {} THEN ProviderAnswers \ {"succeeded"}
                                              ELSE {"succeeded", "inconclusive"}
        /\ calls' = [calls EXCEPT ![c].pc = "answered", ![c].answer = answer]
        /\ fence' = IF answer \in {"absent", "failed"} /\ fence[OpOf(c)] < token
                    THEN [fence EXCEPT ![OpOf(c)] = token]
                    ELSE fence
    BY DEF AnswerQuery, ProviderAnswers
<1>4. /\ OnlyCall(c)
      /\ calls'[c].pc = "answered" /\ calls'[c].snap = Snap(c)
      /\ calls'[c].answer = answer /\ calls'[c].outcome = "none"
  <2> DEFINE call == [calls[c] EXCEPT !.pc = "answered", !.answer = answer]
  <2>1. calls[c] \in CallState /\ "answered" \in ProgramCounters
    BY <1>1 DEF ProgramCounters
  <2>2. /\ call \in CallState
        /\ call.pc = "answered" /\ call.snap = Snap(c)
        /\ call.answer = answer /\ call.outcome = "none"
    BY <1>1, <2>1 DEF CallState, Snap
  <2>3. calls' = [calls EXCEPT ![c] = call]
    BY <1>1, <1>3, <2>1 DEF CallState
  <2> HIDE DEF call
  <2> QED BY <1>1, <2>2, <2>3 DEF OnlyCall
<1>5. CallFits(c)'
    BY <1>1, <1>4 DEF CallFits, Exists, Snap, At, WithoutSnapshot, ProviderAnswers, OpOf
<1>6. fence \in [Ops -> Nat]
    BY <1>1 DEF TypeOK
<1>7. /\ fence' \in [Ops -> Nat]
      /\ \A op \in Ops : fence'[op] >= fence[op]
      /\ answer \in {"absent", "failed"} => fence'[OpOf(c)] >= token
  <2> HIDE DEF token
  <2> QED BY <1>1, <1>2, <1>3, <1>6
<1>8. /\ answer = "succeeded" => landed[OpOf(c)] # {}
      /\ answer \in {"absent", "failed"} => landed[OpOf(c)] = {}
    BY <1>3
<1>9. Answering(c)
    BY <1>1, <1>4, <1>7, <1>8 DEF Answering
<1> QED BY <1>4, <1>5, <1>9 DEF CallMoved

\* Abort, and a timer that found its lease lost, mark the call and no more.
LEMMA MarkMoves ==
    ASSUME RuntimeInv, NEW c \in Calls, Active(c), KeepLedger,
           UNCHANGED <<now, invocation, providerVars>>,
           \/ calls' = [calls EXCEPT ![c].aborted = TRUE]
           \/ calls' = [calls EXCEPT ![c].leaseLost = TRUE]
    PROVE  CallMoved(c)
<1>1. calls \in [Calls -> CallState] /\ CallFits(c) /\ calls[c].outcome = "none"
    BY DEF RuntimeInv, TypeOK, CallsFit, CallFits, Active, At
<1>2. /\ OnlyCall(c)
      /\ calls'[c].pc = calls[c].pc /\ calls'[c].snap = Snap(c)
      /\ calls'[c].answer = calls[c].answer /\ calls'[c].outcome = "none"
  <2>1. CASE calls' = [calls EXCEPT ![c].aborted = TRUE]
    <3> DEFINE call == [calls[c] EXCEPT !.aborted = TRUE]
    <3>0. calls[c] \in CallState
      BY <1>1
    <3>1. /\ call \in CallState
          /\ call.pc = calls[c].pc /\ call.snap = Snap(c)
          /\ call.answer = calls[c].answer /\ call.outcome = "none"
      BY <3>0, <1>1 DEF CallState, Snap
    <3>2. calls' = [calls EXCEPT ![c] = call]
      BY <1>1, <2>1 DEF CallState
    <3> HIDE DEF call
    <3> QED BY <1>1, <3>1, <3>2 DEF OnlyCall
  <2>2. CASE calls' = [calls EXCEPT ![c].leaseLost = TRUE]
    BY <1>1, <2>2 DEF OnlyCall, CallState, Snap
  <2> QED BY <2>1, <2>2
<1>3. CallFits(c)'
    BY <1>1, <1>2 DEF CallFits, Exists, Snap, At, WithoutSnapshot, OpOf
<1>4. Looking(c)
    BY <1>2 DEF Looking, KeepsItsPlace, InDispatch, Active, At
<1> QED BY <1>2, <1>3, <1>4 DEF CallMoved, KindOfStep

LEMMA CallStepMoves ==
    ASSUME RuntimeInv, NEW c \in Calls, CallStep(c) \/ Abort(c) \/ Interrupt(c)
    PROVE  CallMoved(c)
<1>1. CASE Start(c) \/ RefuseMaterial(c)
    BY <1>1, StartMoves, RefuseMaterialMoves
<1>2. CASE LedgerStep(c)
    BY <1>2, BindPrincipalMoves, ReloadForBindingMoves, AuthorizeMoves,
       CancelBeforeClaimMoves, ReadLeaseMoves, ClaimOperationMoves, ReloadMoves,
       FirstDispatchMoves, ExpireAfterDispatchMoves, CancelRecoveryMoves,
       RecoverWithoutQueryMoves, ResolveReconcileMoves DEF LedgerStep
<1>3. CASE LedgerFreeStep(c) \/ Interrupt(c)
    BY <1>3, ReadTerminalMoves, LedgerFreeMoves, BeginReconcileMoves DEF LedgerFreeStep
<1>4. CASE ActionStep(c)
    BY <1>4, FinishExecutionMoves, FailExecutionMoves, AnswerQueryMoves, LedgerFreeMoves
    DEF ActionStep
<1>5. CASE Abort(c)
    BY <1>5, MarkMoves DEF Abort
<1> QED BY <1>1, <1>2, <1>3, <1>4, <1>5 DEF CallStep

-----------------------------------------------------------------------------
(***************************************************************************)
(* The kinds of step of the system.                                        *)
(***************************************************************************)
Renewing(c) ==
    /\ Active(c)
    /\ RenewAccepts(OpOf(c), Snap(c).claim.owner, Snap(c).claim.token)
    /\ RenewLease(OpOf(c))
    /\ UNCHANGED <<now, invocation, calls, providerVars>>

\* The clock, and the stutter.
Passing ==
    /\ Tick \/ UNCHANGED ledgerVars
    /\ UNCHANGED <<invocation, calls, providerVars>>

\* A call goes on as it was, but for its flags.
KeepsWork(c) ==
    /\ calls'[c].pc = calls[c].pc /\ calls'[c].snap = Snap(c)
    /\ calls'[c].answer = calls[c].answer /\ calls'[c].outcome = calls[c].outcome

\* dispose() has two kinds of step of its own, which RuntimeLifecycle_proofs
\* adds to those of Next: it aborts the calls in flight,
Aborting ==
    /\ calls' \in [Calls -> CallState]
    /\ \A c \in Calls : KeepsWork(c)
    /\ KeepLedger /\ UNCHANGED <<now, invocation, providerVars>>

\* and hands an operation off on nobody's behalf.
HandingOff(op) ==
    /\ \E next \in CancelSuccessors(records[op]) \cup UncertainSuccessors(records[op]) :
            CasAccepts(op, records[op].rev, next) /\ CompareAndSet(op, next)
    /\ UNCHANGED <<now, invocation, calls, providerVars>>

RuntimeMoved ==
    \/ \E c \in Calls : CallMoved(c)
    \/ \E c \in Calls : Renewing(c) \/ SendRequest(c)
    \/ \E op \in Ops : \E token \in sent[op] : LandRequest(op, token)
    \/ \E op \in Ops : HandingOff(op)
    \/ Aborting \/ Passing

LEMMA RuntimeStep ==
    ASSUME RuntimeInv, [Next]_vars
    PROVE  RuntimeMoved
<1>1. ASSUME NEW c \in Calls, RenewOnTimer(c)
      PROVE  CallMoved(c) \/ Renewing(c)
  <2>1. Active(c) /\ UNCHANGED <<now, invocation, providerVars>>
    BY <1>1 DEF RenewOnTimer, Active
  <2>2. CASE calls' = [calls EXCEPT ![c].leaseLost = TRUE] /\ KeepLedger
    BY <2>1, <2>2, MarkMoves
  <2>3. CASE /\ RenewAccepts(OpOf(c), Snap(c).claim.owner, Snap(c).claim.token)
             /\ RenewLease(OpOf(c)) /\ UNCHANGED calls
    BY <2>1, <2>3 DEF Renewing
  <2> QED BY <1>1, <2>2, <2>3 DEF RenewOnTimer
<1>2. CASE AdvanceClock
    BY <1>2 DEF AdvanceClock, Passing, RuntimeMoved
<1>3. CASE UNCHANGED vars
    BY <1>3 DEF vars, providerVars, ledgerVars, Passing, RuntimeMoved
<1> QED BY <1>1, <1>2, <1>3, CallStepMoves DEF Next, Finished, RuntimeMoved

-----------------------------------------------------------------------------
(***************************************************************************)
(* The runtime keeps the discipline of the ledger's port.                  *)
(***************************************************************************)

\* A write gets through only over the record the call has a copy of.
LEMMA SavedIsCurrent ==
    ASSUME RuntimeInv, NEW c \in Calls, Exists(Snap(c)),
           \/ ClaimAccepts(OpOf(c), Snap(c).rev, RuntimeOf(c))
           \/ \E next : Saves(c, next)
    PROVE  records[OpOf(c)] = Snap(c)
    BY DEF RuntimeInv, SnapshotIsRevision, Saves, CasAccepts, ClaimAccepts

\* compareAndSet by a call is Advance of the ledger.
LEMMA SaveAdvances ==
    ASSUME RuntimeInv, NEW c \in Calls, Exists(Snap(c)),
           NEW next \in Successors(OpOf(c), Snap(c)), Saves(c, next), UNCHANGED now
    PROVE  Advance(OpOf(c))
<1>1. records[OpOf(c)] = Snap(c)
    BY SavedIsCurrent
<1> QED BY <1>1 DEF Saves, Advance

\* What each kind of step of a call is to the ledger.
LEMMA CallLedgerStep ==
    ASSUME RuntimeInv, NEW c \in Calls, CallMoved(c)
    PROVE  [LedgerNext]_ledgerVars
<1>1. /\ TypeOK /\ CallsFit /\ OpOf(c) \in Ops /\ RuntimeOf(c) \in Runtimes
      /\ Snap(c) \in OperationRecord /\ UNCHANGED now
    BY OneCall DEF RuntimeInv, CallMoved, Answering
<1>2. CASE Looking(c) \/ Quitting(c) \/ Answering(c)
    BY <1>1, <1>2 DEF Looking, Quitting, Answering, KeepLedger, ledgerVars
<1>3. CASE Entering(c)
  <2> DEFINE rec == ProposedRecord(OpOf(c), invocation[c].principal, now)
  <2>1. Create(OpOf(c), rec) /\ invocation[c].principal \in Principals \cup {Nobody}
    BY <1>1, <1>3, OneCall DEF Entering
  <2>2. CASE Exists(records[OpOf(c)])
    <3>1. records' = records /\ UNCHANGED leases
      BY <1>1, <2>1, <2>2 DEF Create, TypeOK, LedgerTypeOK
    <3> QED BY <1>1, <3>1 DEF ledgerVars
  <2>3. CASE ~ Exists(records[OpOf(c)])
    <3>1. Submit(OpOf(c))
      BY <1>1, <2>1, <2>3 DEF Submit
    <3> QED BY <1>1, <3>1 DEF LedgerNext
  <2> QED BY <2>2, <2>3
<1>4. CASE Claiming(c)
  <2>1. Snap(c).state \in Claimable /\ Exists(Snap(c))
    BY <1>1, <1>4 DEF Claiming, CallsFit, CallFits, Exists, Claimable
  <2>2. records[OpOf(c)] = Snap(c)
    BY <1>4, <2>1, SavedIsCurrent DEF Claiming
  <2>3. TakeOwnership(OpOf(c), RuntimeOf(c))
    BY <1>1, <1>4, <2>1, <2>2 DEF Claiming, TakeOwnership
  <2> QED BY <1>1, <2>3 DEF LedgerNext
<1>5. CASE Revising(c) \/ Dispatching(c) \/ Settling(c)
  <2>1. PICK next \in Successors(OpOf(c), Snap(c)) : Exists(Snap(c)) /\ Saves(c, next)
    BY <1>5 DEF Revising, Dispatching, Settling, Successors, DispatchSuccessors, Exists
  <2>2. Advance(OpOf(c))
    BY <1>1, <2>1, SaveAdvances
  <2> QED BY <1>1, <2>2 DEF LedgerNext
<1> QED BY <1>2, <1>3, <1>4, <1>5 DEF CallMoved, KindOfStep

LEMMA RuntimeLedgerStep ==
    ASSUME RuntimeInv, RuntimeMoved
    PROVE  [LedgerNext]_ledgerVars
<1>1. ASSUME NEW c \in Calls, Renewing(c)
      PROVE  [LedgerNext]_ledgerVars
  <2>1. OpOf(c) \in Ops
    BY OneCall DEF RuntimeInv
  <2>2. Heartbeat(OpOf(c))
    BY <1>1 DEF Renewing, RenewAccepts, Heartbeat
  <2> QED BY <2>1, <2>2 DEF LedgerNext
<1>2. ASSUME NEW c \in Calls, SendRequest(c)
      PROVE  [LedgerNext]_ledgerVars
    BY <1>2 DEF SendRequest, KeepLedger, ledgerVars
<1>3. ASSUME NEW op \in Ops, NEW token \in sent[op], LandRequest(op, token)
      PROVE  [LedgerNext]_ledgerVars
    BY <1>3 DEF LandRequest, ledgerVars
<1>4. CASE Passing
    BY <1>4 DEF Passing, LedgerNext
<1>5. CASE Aborting
    BY <1>5 DEF Aborting, KeepLedger, ledgerVars
<1>6. ASSUME NEW op \in Ops, HandingOff(op)
      PROVE  [LedgerNext]_ledgerVars
  <2>1. Advance(op)
    BY <1>6 DEF HandingOff, Advance, Successors
  <2> QED BY <2>1 DEF LedgerNext
<1> QED BY <1>1, <1>2, <1>3, <1>4, <1>5, <1>6, CallLedgerStep DEF RuntimeMoved

-----------------------------------------------------------------------------
(***************************************************************************)
(* The invariant is inductive.                                             *)
(***************************************************************************)
LEMMA RuntimeInvInit == Init => RuntimeInv
<1> SUFFICES ASSUME Init PROVE RuntimeInv
    OBVIOUS
<1>1. /\ LedgerInit /\ invocation \in Workloads /\ calls = [c \in Calls |-> IdleCall]
      /\ sent = [op \in Ops |-> {}] /\ landed = [op \in Ops |-> {}]
      /\ fence = [op \in Ops |-> 0]
    BY DEF Init
<1>2. LedgerTypeOK /\ LedgerInv
  <2>1. RecordsWellFormed
    BY <1>1 DEF LedgerInit, RecordsWellFormed, Exists, Absent
  <2> QED BY <1>1, <2>1, TypeInit, LeaseInit, CountersInit, AbsentInit DEF LedgerInv
<1>3. IdleCall \in CallState
    BY AbsentType DEF IdleCall, CallState, ProgramCounters
<1>4. TypeOK
    BY <1>1, <1>2, <1>3 DEF TypeOK
<1>5. ASSUME NEW c \in Calls
      PROVE  /\ calls[c].pc = "idle" /\ calls[c].snap = Absent
             /\ calls[c].answer = "none" /\ calls[c].outcome = "none"
    BY <1>1 DEF IdleCall
<1>6. ~ Exists(Absent)
    BY DEF Exists, Absent
<1>7. CallsFit
    BY <1>5, <1>6 DEF CallsFit, CallFits, Snap, At, WithoutSnapshot
<1>8. SnapshotIsRevision /\ SnapshotsWellFormed
    BY <1>5, <1>6 DEF SnapshotIsRevision, SnapshotsWellFormed, Snap
<1>9. ActiveHasRecord
    BY <1>5 DEF ActiveHasRecord, Active
<1> QED BY <1>2, <1>4, <1>7, <1>8, <1>9 DEF RuntimeInv

LEMMA LedgerInvStep ==
    ASSUME RuntimeInv, RuntimeMoved
    PROVE  LedgerTypeOK' /\ LedgerInv'
<1>1. LedgerTypeOK /\ LedgerInv /\ [LedgerNext]_ledgerVars
    BY RuntimeLedgerStep DEF RuntimeInv, TypeOK
<1> QED BY <1>1, TypeStep, LeaseStep, RecordsStep, CountersStep, AbsentStep DEF LedgerInv

LEMMA RuntimeTypeStep ==
    ASSUME RuntimeInv, RuntimeMoved
    PROVE  TypeOK'
<1> USE DEF RuntimeInv, TypeOK
<1>1. LedgerTypeOK'
    BY LedgerInvStep
<1>2. /\ invocation \in Workloads /\ calls \in [Calls -> CallState]
      /\ sent \in [Ops -> SUBSET Nat] /\ landed \in [Ops -> SUBSET Nat]
      /\ fence \in [Ops -> Nat]
    OBVIOUS
<1>3. ASSUME NEW c \in Calls, CallMoved(c)
      PROVE  TypeOK'
    BY <1>1, <1>2, <1>3 DEF CallMoved, OnlyCall, Answering, providerVars
<1>4. ASSUME NEW c \in Calls, Renewing(c)
      PROVE  TypeOK'
    BY <1>1, <1>2, <1>4 DEF Renewing, providerVars
<1>5. ASSUME NEW c \in Calls, SendRequest(c)
      PROVE  TypeOK'
  <2>1. ContextToken(c) \in Nat /\ OpOf(c) \in Ops
    BY OneCall DEF ContextToken, OperationRecord, OperationClaim
  <2>2. sent' \in [Ops -> SUBSET Nat]
    BY <1>2, <1>5, <2>1 DEF SendRequest
  <2> QED BY <1>1, <1>2, <1>5, <2>2 DEF SendRequest
<1>6. ASSUME NEW op \in Ops, NEW token \in sent[op], LandRequest(op, token)
      PROVE  TypeOK'
  <2>1. landed' \in [Ops -> SUBSET Nat]
    BY <1>2, <1>6 DEF LandRequest
  <2> QED BY <1>1, <1>2, <1>6, <2>1 DEF LandRequest
<1>7. CASE Passing
    BY <1>1, <1>2, <1>7 DEF Passing, providerVars
<1>8. CASE Aborting \/ \E op \in Ops : HandingOff(op)
    BY <1>1, <1>2, <1>8 DEF Aborting, HandingOff, providerVars
<1> QED BY <1>3, <1>4, <1>5, <1>6, <1>7, <1>8 DEF RuntimeMoved

\* Of every call: what happened to its snapshot, if anything did.
LEMMA SnapshotOrigin ==
    ASSUME RuntimeInv, RuntimeMoved, NEW c \in Calls
    PROVE  /\ OpOf(c)' = OpOf(c) /\ CallFits(c)'
           /\ Snap(c)' \in {Snap(c), Absent, records'[OpOf(c)]}
<1>1. TypeOK /\ OpOf(c) \in Ops /\ Snap(c) \in OperationRecord /\ CallFits(c)
    BY OneCall DEF RuntimeInv, CallsFit
<1>2. ASSUME UNCHANGED <<invocation, calls>>
      PROVE  OpOf(c)' = OpOf(c) /\ CallFits(c)' /\ Snap(c)' = Snap(c)
    BY <1>1, <1>2 DEF CallFits, OpOf, Snap, At
<1>3. ASSUME NEW d \in Calls, CallMoved(d)
      PROVE  /\ OpOf(c)' = OpOf(c) /\ CallFits(c)'
             /\ Snap(c)' \in {Snap(c), Absent, records'[OpOf(c)]}
  <2>1. invocation' = invocation
    BY <1>3 DEF CallMoved, Answering
  <2>2. CASE d # c
    <3>1. calls'[c] = calls[c]
      BY <1>3, <2>2 DEF CallMoved, OnlyCall
    <3> QED BY <1>1, <2>1, <3>1 DEF CallFits, OpOf, Snap, At
  <2>3. CASE d = c
    <3>1. CallFits(c)' /\ OpOf(c)' = OpOf(c) /\ Snap(c)' = calls'[c].snap
      BY <1>3, <2>1, <2>3 DEF CallMoved, OpOf, Snap
    <3>2. CASE Entering(c)
      BY <3>1, <3>2 DEF Entering
    <3>3. CASE Looking(c)
      BY <3>1, <3>3 DEF Looking, KeepLedger
    <3>4. CASE Answering(c) \/ Quitting(c) \/ Claiming(c) \/ Settling(c)
      BY <3>1, <3>4 DEF Answering, Quitting, Claiming, Settling
    <3>5. CASE Revising(c) \/ Dispatching(c)
      <4>1. PICK next : Saves(c, next) /\ calls'[c].snap = next
        BY <3>5 DEF Revising, Dispatching
      <4>2. records'[OpOf(c)] = next
        BY <1>1, <4>1 DEF Saves, CompareAndSet, TypeOK, LedgerTypeOK
      <4> QED BY <3>1, <4>1, <4>2
    <3> QED BY <1>3, <2>3, <3>2, <3>3, <3>4, <3>5 DEF CallMoved, KindOfStep
  <2> QED BY <2>2, <2>3
<1>4. ASSUME NEW d \in Calls, Renewing(d) \/ SendRequest(d)
      PROVE  UNCHANGED <<invocation, calls>>
    BY <1>4 DEF Renewing, SendRequest
<1>5. ASSUME NEW op \in Ops, NEW token \in sent[op], LandRequest(op, token)
      PROVE  UNCHANGED <<invocation, calls>>
    BY <1>5 DEF LandRequest
<1>6. CASE Passing \/ \E op \in Ops : HandingOff(op)
    BY <1>2, <1>6 DEF Passing, HandingOff
<1>7. CASE Aborting
  <2>1. KeepsWork(c) /\ invocation' = invocation
    BY <1>7 DEF Aborting
  <2> QED BY <1>1, <2>1 DEF KeepsWork, CallFits, OpOf, Snap, At
<1> QED BY <1>2, <1>3, <1>4, <1>5, <1>6, <1>7 DEF RuntimeMoved

\* Of every record: a new revision, or the same record.
LEMMA RevisionStep ==
    ASSUME RuntimeInv, RuntimeMoved, NEW op \in Ops, Exists(records[op])
    PROVE  /\ Exists(records'[op])
           /\ records'[op] = records[op] \/ records'[op].rev = records[op].rev + 1
<1>1. /\ LedgerTypeOK /\ [LedgerNext]_ledgerVars /\ records[op] \in OperationRecord
      /\ records[op].token + 1 \in Nat
    BY RuntimeLedgerStep DEF RuntimeInv, TypeOK, LedgerTypeOK, OperationRecord
<1>2. CASE Untouched(op) \/ Renewed(op)
    BY <1>2 DEF Untouched, Renewed
<1>3. CASE Advanced(op)
    BY <1>1, <1>3, SuccessorsCounters, SuccessorsState DEF Advanced, Exists
<1>4. ASSUME NEW owner \in Runtimes, TakenBy(op, owner)
      PROVE  Exists(records'[op]) /\ records'[op].rev = records[op].rev + 1
    BY <1>1, <1>4 DEF TakenBy, ClaimedRecord, Revised, OperationRecord, Exists
<1> QED BY <1>1, <1>2, <1>3, <1>4, OperationStep DEF OperationMoved, Created

LEMMA SnapshotsStep ==
    ASSUME RuntimeInv, RuntimeMoved
    PROVE  SnapshotIsRevision' /\ SnapshotsWellFormed'
<1> SUFFICES ASSUME NEW c \in Calls, Exists(Snap(c)')
             PROVE  /\ Snap(c)'.rev <= records'[OpOf(c)].rev
                    /\ Snap(c)'.rev = records'[OpOf(c)].rev => Snap(c)' = records'[OpOf(c)]
                    /\ WellFormed(Snap(c)')
  <2>1. \A c \in Calls : OpOf(c)' = OpOf(c)
    BY SnapshotOrigin
  <2> QED BY <2>1 DEF SnapshotIsRevision, SnapshotsWellFormed, Exists
<1>1. /\ TypeOK /\ OpOf(c) \in Ops /\ Snap(c) \in OperationRecord
      /\ records[OpOf(c)] \in OperationRecord
    BY OneCall DEF RuntimeInv
<1>2. LedgerTypeOK' /\ RecordsWellFormed'
    BY LedgerInvStep DEF LedgerInv
<1>3. records'[OpOf(c)].rev \in Nat
    BY <1>1, <1>2 DEF LedgerTypeOK, OperationRecord
<1>4. CASE Snap(c)' = records'[OpOf(c)]
    BY <1>1, <1>2, <1>3, <1>4 DEF RecordsWellFormed
<1>5. CASE Snap(c)' = Snap(c)
  <2>1. Exists(Snap(c)) /\ Active(c)
    BY <1>5 DEF RuntimeInv, CallsFit, CallFits, Active, WithoutSnapshot
  <2>2. /\ Exists(records[OpOf(c)]) /\ WellFormed(Snap(c))
        /\ Snap(c).rev <= records[OpOf(c)].rev
        /\ Snap(c).rev = records[OpOf(c)].rev => Snap(c) = records[OpOf(c)]
    BY <2>1 DEF RuntimeInv, ActiveHasRecord, SnapshotIsRevision, SnapshotsWellFormed
  <2>3. \/ records'[OpOf(c)] = records[OpOf(c)]
        \/ records'[OpOf(c)].rev = records[OpOf(c)].rev + 1
    BY <1>1, <2>2, RevisionStep
  <2>4. Snap(c).rev \in Nat /\ records[OpOf(c)].rev \in Nat
    BY <1>1 DEF OperationRecord
  <2> QED BY <1>5, <2>2, <2>3, <2>4
<1>6. Snap(c)' # Absent
    BY DEF Exists, Absent
<1> QED BY <1>4, <1>5, <1>6, SnapshotOrigin

LEMMA ActiveStep ==
    ASSUME RuntimeInv, RuntimeMoved
    PROVE  ActiveHasRecord'
<1> SUFFICES ASSUME NEW c \in Calls, Active(c)'
             PROVE  Exists(records'[OpOf(c)])
    BY SnapshotOrigin DEF ActiveHasRecord, Exists
<1>1. TypeOK /\ OpOf(c) \in Ops
    BY OneCall DEF RuntimeInv
<1>2. CASE Active(c)
    BY <1>1, <1>2, RevisionStep DEF RuntimeInv, ActiveHasRecord
<1>3. CASE ~ Active(c)
  <2>1. calls'[c] # calls[c] /\ ~ Aborting
    BY <1>3 DEF Active, Aborting, KeepsWork
  <2>2. CallMoved(c)
    <3>1. ASSUME NEW d \in Calls, CallMoved(d)
          PROVE  d = c
      BY <2>1, <3>1 DEF CallMoved, OnlyCall
    <3>2. ASSUME NEW d \in Calls, Renewing(d) \/ SendRequest(d)
          PROVE  FALSE
      BY <2>1, <3>2 DEF Renewing, SendRequest
    <3>3. ASSUME NEW op \in Ops, NEW token \in sent[op], LandRequest(op, token)
          PROVE  FALSE
      BY <2>1, <3>3 DEF LandRequest
    <3>4. ~ Passing /\ \A op \in Ops : ~ HandingOff(op)
      BY <2>1 DEF Passing, HandingOff
    <3> QED BY <2>1, <3>1, <3>2, <3>3, <3>4 DEF RuntimeMoved
  <2>3. calls'[c].pc # "done" /\ calls[c].pc \notin ProgramCounters \ {"idle", "done"}
    BY <1>3 DEF Active
  <2>4. Entering(c)
    BY <1>1, <1>3, <2>2, <2>3, OneCall
    DEF CallMoved, KindOfStep, Answering, Looking, Quitting, Claiming, Revising,
        Dispatching, Settling, Active, At, Exists, RuntimeInv, CallsFit, CallFits,
        WithoutSnapshot
  <2>5. ProposedRecord(OpOf(c), invocation[c].principal, now).state = "proposed"
    BY DEF ProposedRecord, Absent
  <2> QED BY <1>1, <2>4, <2>5 DEF Entering, Create, TypeOK, LedgerTypeOK, Exists
<1> QED BY <1>2, <1>3

LEMMA RuntimeInvStep == RuntimeInv /\ RuntimeMoved => RuntimeInv'
<1> SUFFICES ASSUME RuntimeInv, RuntimeMoved PROVE RuntimeInv'
    OBVIOUS
<1>1. CallsFit'
    BY SnapshotOrigin DEF CallsFit
<1> QED BY <1>1, RuntimeTypeStep, LedgerInvStep, SnapshotsStep, ActiveStep DEF RuntimeInv

\* The inductive invariant: whatever the calls interleave, a call's snapshot
\* is a record of its operation that fits the call's place in the code.
THEOREM RuntimeInvariant == Spec => []RuntimeInv
<1>1. RuntimeInv /\ [Next]_vars => RuntimeInv'
    BY RuntimeStep, RuntimeInvStep
<1> QED BY <1>1, RuntimeInvInit, PTL DEF Spec

-----------------------------------------------------------------------------
(***************************************************************************)
(* What follows.                                                           *)
(***************************************************************************)

\* Every variable of the runtime keeps its type, for every workload.
THEOREM RuntimeTypeCorrect == Spec => []TypeOK
<1>1. RuntimeInv => TypeOK
    BY DEF RuntimeInv
<1> QED BY <1>1, RuntimeInvariant, PTL

\* A snapshot of the current revision is the current record, so no write of
\* #update, which spreads the whole snapshot, resurrects a stale field.
THEOREM SnapshotsAreRevisions == Spec => []SnapshotIsRevision
<1>1. RuntimeInv => SnapshotIsRevision
    BY DEF RuntimeInv
<1> QED BY <1>1, RuntimeInvariant, PTL

\* The runtime implements the ledger's specification: whatever the calls
\* interleave, every write that gets through is a lifecycle step of the port.
THEOREM RuntimeRespectsPort == Spec => RespectsLedgerPort
<1>1. Init => LedgerInit
    BY DEF Init
<1>2. RuntimeInv /\ [Next]_vars => [LedgerNext]_ledgerVars
    BY RuntimeStep, RuntimeLedgerStep
<1> QED BY <1>1, <1>2, RuntimeInvariant, PTL DEF Spec, RespectsLedgerPort, LedgerSpec

\* So what OperationLedger_proofs shows of disciplined clients holds of the
\* runtime: leases back claims, fencing tokens fence, outcomes are final.
THEOREM RuntimeKeepsLedger ==
    Spec => /\ []LeaseBacksClaim /\ []RecordsWellFormed /\ []AttemptsNeverOvertakeTokens
            /\ FencingMonotone /\ TerminalIsFinal
    BY RuntimeRespectsPort, LeaseBacksClaimAlways, RecordsStayWellFormed, AttemptsCovered,
       FencingTokensFence, TerminalStaysFinal, PTL DEF RespectsLedgerPort

LEMMA StaleOwnerStep ==
    ASSUME RuntimeInv, RuntimeMoved, NEW c \in Calls, Working(c), Overtaken(c),
           calls'[c] # calls[c]
    PROVE  UNCHANGED <<records[OpOf(c)], leases[OpOf(c)]>>
<1>1. /\ TypeOK /\ Exists(Snap(c)) /\ Snap(c) \in OperationRecord
      /\ records[OpOf(c)] # Snap(c) /\ calls[c].pc \notin {"idle", "claim"}
  <2>1. TypeOK /\ Exists(Snap(c)) /\ calls[c].pc \notin {"idle", "claim"}
    BY DEF RuntimeInv, CallsFit, CallFits, Working, WithoutSnapshot
  <2>2. Snap(c) \in OperationRecord
    BY <2>1, OneCall
  <2>3. Snap(c).token < Snap(c).token => FALSE
    BY <2>2 DEF OperationRecord
  <2> QED BY <2>1, <2>2, <2>3 DEF Overtaken
<1>2. ~ ClaimAccepts(OpOf(c), Snap(c).rev, RuntimeOf(c)) /\ \A next : ~ Saves(c, next)
    BY <1>1, SavedIsCurrent
<1>3. ASSUME NEW d \in Calls, CallMoved(d)
      PROVE  d = c
    BY <1>3 DEF CallMoved, OnlyCall
<1>4. CASE CallMoved(c)
  <2>1. CASE Looking(c) \/ Quitting(c) \/ Answering(c)
    BY <2>1, SnapshotOrigin DEF Looking, Quitting, Answering, KeepLedger
  <2>2. ~ Entering(c) /\ ~ Claiming(c)
    BY <1>1 DEF Entering, Claiming, At
  <2>3. ~ Revising(c) /\ ~ Dispatching(c) /\ ~ Settling(c)
    BY <1>2 DEF Revising, Dispatching, Settling
  <2> QED BY <1>4, <2>1, <2>2, <2>3 DEF CallMoved, KindOfStep
<1>5. ASSUME NEW d \in Calls, Renewing(d) \/ SendRequest(d)
      PROVE  FALSE
    BY <1>5 DEF Renewing, SendRequest
<1>6. ASSUME NEW op \in Ops, NEW token \in sent[op], LandRequest(op, token)
      PROVE  FALSE
    BY <1>6 DEF LandRequest
<1>7. ~ Passing /\ \A op \in Ops : ~ HandingOff(op)
    BY DEF Passing, HandingOff
<1>8. CASE Aborting
    BY <1>8, SnapshotOrigin DEF Aborting, KeepLedger
<1> QED BY <1>3, <1>4, <1>5, <1>6, <1>7, <1>8 DEF RuntimeMoved

\* A call whose fencing token has been overtaken ends or waits, and never
\* touches the record or the lease, wherever its last await left it.
THEOREM OvertakenNeverWrites == Spec => StaleOwnerNeverWrites
<1>1. RuntimeInv /\ [Next]_vars
        => [\A c \in Calls : Working(c) /\ Overtaken(c) /\ calls'[c] # calls[c] =>
                UNCHANGED <<records[OpOf(c)], leases[OpOf(c)]>>]_vars
    BY RuntimeStep, StaleOwnerStep
<1> QED BY <1>1, RuntimeInvariant, PTL DEF Spec, StaleOwnerNeverWrites

-----------------------------------------------------------------------------
(***************************************************************************)
(* A lost lease ends the call.  The flag is only ever raised in mid-work,  *)
(* and no way out of there both writes and carries it.                     *)
(***************************************************************************)
MidWork == {"executing", "reconciling", "answered"}
LossInMidWork == \A c \in Calls : calls[c].leaseLost => calls[c].pc \in MidWork

RaisesNoFlag(c) == calls'[c].leaseLost => calls[c].leaseLost

LEMMA SegmentsRaiseNoFlag ==
    ASSUME TypeOK, NEW c \in Calls
    PROVE  /\ \A outcome : Return(c, outcome) => RaisesNoFlag(c)
           /\ \A pc, retries : LookAgain(c, pc, retries) => RaisesNoFlag(c)
           /\ \A pc : Goto(c, pc) => RaisesNoFlag(c)
           /\ \A pc, rec : Continue(c, pc, rec) => RaisesNoFlag(c)
<1>1. calls \in [Calls -> CallState]
    BY DEF TypeOK
<1>2. ASSUME NEW outcome, Return(c, outcome)
      PROVE  RaisesNoFlag(c)
    BY <1>1, <1>2 DEF Return, IdleCall, RaisesNoFlag
<1>3. ASSUME NEW pc, NEW retries, LookAgain(c, pc, retries)
      PROVE  RaisesNoFlag(c)
    BY <1>1, <1>3 DEF LookAgain, CallState, RaisesNoFlag
<1>4. ASSUME NEW pc, Goto(c, pc)
      PROVE  RaisesNoFlag(c)
    BY <1>1, <1>4 DEF Goto, CallState, RaisesNoFlag
<1>5. ASSUME NEW pc, NEW rec, Continue(c, pc, rec)
      PROVE  RaisesNoFlag(c)
    BY <1>1, <1>5 DEF Continue, CallState, RaisesNoFlag
<1> QED BY <1>2, <1>3, <1>4, <1>5

LEMMA LedgerStepRaisesNoFlag ==
    ASSUME TypeOK, NEW c \in Calls, LedgerStep(c)
    PROVE  RaisesNoFlag(c)
<1>1. DispatchAndExecute(c) => RaisesNoFlag(c)
    BY SegmentsRaiseNoFlag DEF DispatchAndExecute, SaveAndReturn
<1>2. CASE BindPrincipal(c) \/ ReloadForBinding(c)
    BY <1>2, SegmentsRaiseNoFlag DEF BindPrincipal, ReloadForBinding, ApplyPrincipalBinding
<1>3. CASE Authorize(c) \/ CancelBeforeClaim(c)
    BY <1>3, SegmentsRaiseNoFlag DEF Authorize, CancelBeforeClaim, SaveOrReload
<1>4. CASE ReadLease(c) \/ ClaimOperation(c) \/ Reload(c)
    BY <1>4, SegmentsRaiseNoFlag DEF ReadLease, ClaimOperation, Reload
<1>5. CASE FirstDispatch(c)
    BY <1>1, <1>5 DEF FirstDispatch
<1>6. CASE ExpireAfterDispatch(c) \/ CancelRecovery(c)
    BY <1>6, SegmentsRaiseNoFlag DEF ExpireAfterDispatch, CancelRecovery, SaveAndReturn
<1>7. CASE RecoverWithoutQuery(c)
    BY <1>1, <1>7, SegmentsRaiseNoFlag
    DEF RecoverWithoutQuery, StopAsUncertain, SaveAndReturn
<1>8. CASE ResolveReconcile(c)
    BY <1>1, <1>8, SegmentsRaiseNoFlag
    DEF ResolveReconcile, StopAsUncertain, SaveAndReturn
<1> QED BY <1>2, <1>3, <1>4, <1>5, <1>6, <1>7, <1>8 DEF LedgerStep

LEMMA CallStepRaisesNoFlag ==
    ASSUME TypeOK, NEW c \in Calls, CallStep(c) \/ Abort(c) \/ Interrupt(c)
    PROVE  RaisesNoFlag(c)
<1>1. CASE Start(c) \/ RefuseMaterial(c) \/ Interrupt(c)
    BY <1>1, SegmentsRaiseNoFlag DEF Start, RefuseMaterial, Interrupt, ApplyPrincipalBinding
<1>2. CASE LedgerFreeStep(c)
    BY <1>2, SegmentsRaiseNoFlag
    DEF LedgerFreeStep, ReadTerminal, RefuseReconcileOnly, BeginExecute, YieldLostLease,
        BeginReconcile
<1>3. CASE FinishExecution(c) \/ FailExecution(c) \/ YieldLostLease(c, "executing")
    BY <1>3, SegmentsRaiseNoFlag
    DEF FinishExecution, FailExecution, YieldLostLease, SaveAndReturn
<1>4. CASE AnswerQuery(c) \/ Abort(c)
  <2>1. calls \in [Calls -> CallState]
    BY DEF TypeOK
  <2> QED BY <1>4, <2>1 DEF AnswerQuery, Abort, CallState, RaisesNoFlag
<1> QED BY <1>1, <1>2, <1>3, <1>4, LedgerStepRaisesNoFlag DEF CallStep, ActionStep

\* What is left to do for a call that knows of its loss.
LEMMA LostCallStep ==
    ASSUME RuntimeInv, LossInMidWork, NEW c \in Calls, calls[c].leaseLost,
           CallStep(c) \/ Abort(c) \/ Interrupt(c)
    PROVE  /\ KeepLedger
           /\ \/ calls'[c].leaseLost /\ calls'[c].pc \in MidWork
              \/ ~ calls'[c].leaseLost /\ calls'[c].outcome \in {"busy", "interrupted"}
<1>1. calls \in [Calls -> CallState] /\ calls[c].pc \in MidWork
    BY DEF RuntimeInv, TypeOK, LossInMidWork
<1>2. ~ (Start(c) \/ RefuseMaterial(c) \/ LedgerStep(c))
    BY <1>1 DEF MidWork, Start, RefuseMaterial, LedgerStep, At, Deciding, Recovering,
                BindPrincipal, ReloadForBinding, Authorize, CancelBeforeClaim, ReadLease,
                ClaimOperation, Reload, FirstDispatch, ExpireAfterDispatch, CancelRecovery,
                RecoverWithoutQuery, ResolveReconcile
<1>3. LedgerFreeStep(c) => YieldLostLease(c, "answered")
    BY <1>1 DEF MidWork, LedgerFreeStep, At, Deciding, Recovering, ReadTerminal,
                RefuseReconcileOnly, BeginExecute, BeginReconcile
<1>4. ActionStep(c) => YieldLostLease(c, "executing") \/ AnswerQuery(c)
    BY DEF ActionStep, FinishExecution, FailExecution
<1>5. ASSUME NEW outcome \in {"busy", "interrupted"}, Return(c, outcome)
      PROVE  ~ calls'[c].leaseLost /\ calls'[c].outcome = outcome
    BY <1>1, <1>5 DEF Return, IdleCall
<1>6. CASE \E pc \in MidWork : YieldLostLease(c, pc)
    BY <1>5, <1>6 DEF YieldLostLease
<1>7. CASE Interrupt(c)
    BY <1>5, <1>7 DEF Interrupt
<1>8. CASE AnswerQuery(c) \/ Abort(c)
    BY <1>1, <1>8 DEF AnswerQuery, Abort, CallState, MidWork
<1> QED BY <1>2, <1>3, <1>4, <1>6, <1>7, <1>8 DEF CallStep, MidWork

LEMMA LostLeaseStep ==
    ASSUME RuntimeInv, LossInMidWork, [Next]_vars, NEW c \in Calls
    PROVE  /\ calls'[c].leaseLost => calls'[c].pc \in MidWork
           /\ calls[c].leaseLost /\ calls'[c] # calls[c] =>
                /\ UNCHANGED <<records[OpOf(c)], leases[OpOf(c)]>>
                /\ calls'[c].leaseLost \/ calls'[c].outcome \in {"busy", "interrupted"}
<1> DEFINE Ends(d) ==
        /\ calls'[d].leaseLost => calls'[d].pc \in MidWork
        /\ calls[d].leaseLost /\ calls'[d] # calls[d] =>
             /\ UNCHANGED <<records[OpOf(d)], leases[OpOf(d)]>>
             /\ calls'[d].leaseLost \/ calls'[d].outcome \in {"busy", "interrupted"}
<1>1. TypeOK /\ calls \in [Calls -> CallState]
    BY DEF RuntimeInv, TypeOK
<1>2. calls'[c] = calls[c] => Ends(c)
    BY DEF LossInMidWork
<1>3. ASSUME NEW d \in Calls, CallStep(d) \/ Abort(d) \/ Interrupt(d)
      PROVE  Ends(c)
  <2>1. CallMoved(d)
    BY <1>3, CallStepMoves
  <2>2. CASE d # c
    BY <1>2, <2>1, <2>2 DEF CallMoved, OnlyCall
  <2>3. CASE d = c /\ ~ calls[c].leaseLost
    BY <1>1, <1>3, <2>3, CallStepRaisesNoFlag DEF RaisesNoFlag
  <2>4. CASE d = c /\ calls[c].leaseLost
    <3>1. invocation' = invocation
      BY <2>1 DEF CallMoved, Answering
    <3> QED BY <1>3, <2>4, <3>1, LostCallStep DEF KeepLedger, OpOf
  <2> QED BY <2>2, <2>3, <2>4
<1>4. ASSUME NEW d \in Calls, RenewOnTimer(d)
      PROVE  Ends(c)
    BY <1>1, <1>2, <1>4 DEF RenewOnTimer, CallState, MidWork
<1>5. ASSUME NEW d \in Calls, SendRequest(d)
      PROVE  calls' = calls
    BY <1>5 DEF SendRequest
<1>6. ASSUME NEW op \in Ops, NEW token \in sent[op], LandRequest(op, token)
      PROVE  calls' = calls
    BY <1>6 DEF LandRequest
<1>7. AdvanceClock \/ Finished \/ UNCHANGED vars => calls' = calls
    BY DEF AdvanceClock, Finished, vars
<1>8. calls' = calls => Ends(c)
    BY <1>2
<1> HIDE DEF Ends
<1>9. Ends(c)
    BY <1>3, <1>4, <1>5, <1>6, <1>7, <1>8 DEF Next
<1> QED BY <1>9 DEF Ends

\* Once the heartbeat has lost the lease, whatever the Action or the Provider
\* still brings back, the call writes nothing and can only ask to come again.
THEOREM LostLeasesEndCalls == Spec => LostLeaseEndsTheCall
<1>1. Init => LossInMidWork
    BY DEF Init, IdleCall, LossInMidWork
<1>2. RuntimeInv /\ LossInMidWork /\ [Next]_vars => LossInMidWork'
    BY LostLeaseStep DEF LossInMidWork
<1>3. RuntimeInv /\ LossInMidWork /\ [Next]_vars
        => [\A c \in Calls : calls[c].leaseLost /\ calls'[c] # calls[c] =>
                /\ UNCHANGED <<records[OpOf(c)], leases[OpOf(c)]>>
                /\ calls'[c].leaseLost \/ calls'[c].outcome \in {"busy", "interrupted"}]_vars
    BY LostLeaseStep
<1> QED BY <1>1, <1>2, <1>3, RuntimeInvariant, PTL DEF Spec, LostLeaseEndsTheCall

-----------------------------------------------------------------------------
(***************************************************************************)
(* What reaches the Provider, and what the callers are told.  On top of    *)
(* RuntimeInv, which ties every call to the ledger, the invariant here     *)
(* ties the ledger to the requests: a token that has been, or can still    *)
(* be, sent was paid for with an attempt, and a second attempt was         *)
(* preceded by an operation key or by the Provider's word on the first.    *)
(***************************************************************************)

\* The tokens of the requests that left an executor or are about to.
Issued(op) ==
    sent[op] \cup
    {Snap(c).token : c \in {d \in Calls : OpOf(d) = op /\ calls[d].pc \in InDispatch}}

\* Every issued token was made durable first: it is one of the record's, and
\* each has an attempt of its own.  The token of a claim that has not been
\* dispatched is not among them.
IssuedCovered ==
    \A op \in Ops :
        /\ IsFiniteSet(Issued(op))
        /\ Cardinality(Issued(op)) <= records[op].attempts
        /\ \A token \in Issued(op) :
            /\ token \in Nat /\ token <= records[op].token
            /\ records[op].state = "claimed" => token < records[op].token

NeverDispatched(rec) ==
    \/ rec.state \in {"absent", "proposed", "authorized", "denied"}
    \/ rec.state = "claimed" /\ rec.claim.resumeFrom = "authorized"

\* What the attempts counter says of the state, and what a result says.
HistoryFits(op, rec) ==
    /\ NeverDispatched(rec) => rec.attempts = 0
    /\ hasExternalSideEffect(op) /\ rec.state \in {"cancelled", "failed"}
            => rec.attempts = 0
    /\ rec.result => IsSuccess(rec)

AttemptsFit ==
    \A op \in Ops :
        /\ HistoryFits(op, records[op])
        /\ ~ Profile[op].reconcile /\ ~ usesOperationKey(op) => records[op].attempts <= 1

\* No request under an older token than the call's has landed, or ever will.
RuledOut(c) ==
    /\ fence[OpOf(c)] >= Snap(c).token
    /\ \A token \in landed[OpOf(c)] : token >= Snap(c).token

\* The Provider's answer still holds when the call acts on it.
AnswersHold ==
    \A c \in Calls : At(c, "answered") =>
        /\ calls[c].answer = "succeeded" => landed[OpOf(c)] # {}
        /\ calls[c].answer \in {"absent", "failed"} => RuledOut(c)

RetryJustified ==
    \A c \in Calls : calls[c].pc \in InDispatch /\ Snap(c).attempts > 1 =>
        IF Profile[OpOf(c)].reconcile THEN RuledOut(c) ELSE usesOperationKey(OpOf(c))

\* Where there is a query, a later token was issued only after the earlier
\* ones were ruled out.
OlderRuledOut ==
    \A op \in Ops : Profile[op].reconcile =>
        \A older, newer \in Issued(op) : older < newer =>
            fence[op] >= newer /\ older \notin landed[op]

LandedOnce ==
    \A op \in Ops :
        /\ landed[op] \subseteq sent[op]
        /\ sent[op] # {} => hasExternalSideEffect(op)
        /\ \A token, other \in landed[op] : token = other

OutcomesHold ==
    \A op \in Ops : hasExternalSideEffect(op) =>
        /\ IsSuccess(records[op]) => landed[op] # {}
        /\ records[op].state = "reconciled" /\ records[op].reconciliation = "failed" =>
                landed[op] = {} /\ \A token \in Issued(op) : token < fence[op]

\* What a caller was told, or is about to read from its snapshot, is the ending.
ToldHolds ==
    \A c \in Calls :
        /\ calls[c].outcome \in Settled => Ending(records[OpOf(c)]) = calls[c].outcome
        /\ Terminal(Snap(c)) => Ending(records[OpOf(c)]) = Ending(Snap(c))

EffectInv ==
    /\ IssuedCovered /\ AttemptsFit
    /\ AnswersHold /\ RetryJustified /\ OlderRuledOut
    /\ LandedOnce /\ OutcomesHold /\ ToldHolds

-----------------------------------------------------------------------------
(***************************************************************************)
(* A step, seen from one operation.                                        *)
(***************************************************************************)
LEMMA ContextIsToken ==
    ASSUME RuntimeInv, NEW c \in Calls, Exists(Snap(c))
    PROVE  ContextToken(c) = Snap(c).token
    BY DEF RuntimeInv, SnapshotsWellFormed, WellFormed, ContextToken

\* Nothing but calls'[c] changed in calls when c moved, and no other record.
LEMMA OthersKept ==
    ASSUME RuntimeInv, NEW c \in Calls, CallMoved(c)
    PROVE  /\ \A d \in Calls : OpOf(d)' = OpOf(d)
           /\ \A d \in Calls \ {c} : calls'[d] = calls[d]
           /\ \A op \in Ops \ {OpOf(c)} : records'[op] = records[op]
           /\ UNCHANGED <<sent, landed>>
           /\ ~ Answering(c) => UNCHANGED fence
<1>1. /\ TypeOK /\ invocation' = invocation /\ UNCHANGED <<sent, landed>>
      /\ ~ Answering(c) => UNCHANGED fence
      /\ \A d \in Calls \ {c} : calls'[d] = calls[d]
    BY DEF RuntimeInv, CallMoved, Answering, OnlyCall, providerVars
<1>2. records \in [Ops -> OperationRecord]
    BY <1>1 DEF TypeOK, LedgerTypeOK
<1>3. ASSUME NEW op \in Ops \ {OpOf(c)}
      PROVE  records'[op] = records[op]
  <2>1. CASE Entering(c)
    BY <1>2, <2>1 DEF Entering, Create
  <2>2. CASE Looking(c) \/ Quitting(c) \/ Answering(c)
    BY <2>2 DEF Looking, Quitting, Answering, KeepLedger
  <2>3. CASE Claiming(c)
    BY <1>2, <2>3 DEF Claiming, Claim
  <2>4. CASE \E next : Saves(c, next)
    BY <1>2, <2>4 DEF Saves, CompareAndSet
  <2> QED BY <2>1, <2>2, <2>3, <2>4
          DEF CallMoved, KindOfStep, Revising, Dispatching, Settling
<1> QED BY <1>1, <1>3 DEF OpOf

LEMMA SavesWrites ==
    ASSUME TypeOK, NEW c \in Calls, NEW next, Saves(c, next)
    PROVE  records'[OpOf(c)] = next
    BY OneCall DEF Saves, CompareAndSet, TypeOK, LedgerTypeOK

\* A dispatch of op by c; it is the only step that counts an attempt.
Dispatches(c, op) ==
    /\ OpOf(c) = op
    /\ CallMoved(c) /\ Dispatching(c) /\ UNCHANGED providerVars
    /\ records[op] = Snap(c)
    /\ records'[op] = DispatchedRecord(Snap(c))

LEMMA DispatchingDispatches ==
    ASSUME RuntimeInv, NEW c \in Calls, CallMoved(c), Dispatching(c)
    PROVE  Dispatches(c, OpOf(c))
<1>1. TypeOK /\ Exists(Snap(c))
    BY DEF RuntimeInv, Dispatching, Exists
<1>2. records[OpOf(c)] = Snap(c)
    BY <1>1, SavedIsCurrent DEF Dispatching
<1>3. records'[OpOf(c)] = DispatchedRecord(Snap(c))
    BY <1>1, SavesWrites DEF Dispatching
<1>4. ~ Answering(c)
    BY DEF Answering, Dispatching
<1> QED BY <1>2, <1>3, <1>4, OthersKept DEF Dispatches, providerVars

\* Whatever else happens, an operation that exists spends no attempt.
LEMMA AttemptsKept ==
    ASSUME RuntimeInv, NEW c \in Calls, CallMoved(c), ~ Dispatching(c)
    PROVE  records'[OpOf(c)].attempts = records[OpOf(c)].attempts
<1> DEFINE op == OpOf(c)
<1>1. /\ TypeOK /\ op \in Ops /\ Snap(c) \in OperationRecord
      /\ records[op] \in OperationRecord /\ AbsentIsEmpty
      /\ records \in [Ops -> OperationRecord]
    BY OneCall DEF RuntimeInv, LedgerInv, TypeOK, LedgerTypeOK
<1>2. CASE Looking(c) \/ Quitting(c) \/ Answering(c)
    BY <1>2 DEF Looking, Quitting, Answering, KeepLedger
<1>3. CASE Entering(c)
  <2> DEFINE rec == ProposedRecord(op, invocation[c].principal, now)
  <2>1. records'[op] = IF Exists(records[op]) THEN records[op] ELSE rec
    BY <1>1, <1>3 DEF Entering, Create
  <2>2. rec.attempts = 0 /\ Absent.attempts = 0
    BY DEF ProposedRecord, Absent
  <2> HIDE DEF rec
  <2> QED BY <1>1, <2>1, <2>2 DEF AbsentIsEmpty
<1>4. CASE Claiming(c)
  <2>1. records'[op] = ClaimedRecord(records[op], RuntimeOf(c), Snap(c).token + 1, Snap(c).state)
    BY <1>1, <1>4 DEF Claiming, Claim
  <2> QED BY <1>1, <2>1 DEF ClaimedRecord, Revised, OperationRecord
<1>5. CASE Revising(c) \/ Settling(c)
  <2>1. PICK next \in Successors(op, Snap(c)) :
            /\ Exists(Snap(c)) /\ Saves(c, next)
            /\ \/ next \in BindingSuccessors(Snap(c)) \cup AuthorizationSuccessors(Snap(c))
               \/ next.state \in TerminalStates \cup {"uncertain"}
    BY <1>5 DEF Revising, Settling, Successors
  <2>2. records[op] = Snap(c) /\ records'[op] = next
    BY <1>1, <2>1, SavedIsCurrent, SavesWrites
  <2>3. ~ (Snap(c).state = "claimed" /\ next.state = "dispatched")
    BY <1>1, <2>1, BoundFields
    DEF BindingSuccessors, AuthorizationSuccessors, TerminalStates
  <2> QED BY <1>1, <2>1, <2>2, <2>3, SuccessorsCounters
<1> QED BY <1>2, <1>3, <1>4, <1>5 DEF CallMoved, KindOfStep

\* A step that dispatches nothing of op issues nothing of it.
Quiet(op) ==
    /\ Issued(op)' \subseteq Issued(op)
    /\ records'[op].attempts = records[op].attempts

LEMMA IssuedByCall ==
    ASSUME RuntimeInv, NEW c \in Calls, CallMoved(c), NEW op \in Ops
    PROVE  IF Dispatching(c) /\ OpOf(c) = op
           THEN Issued(op)' \subseteq Issued(op) \cup {Snap(c).token}
           ELSE Issued(op)' \subseteq Issued(op)
<1>1. /\ \A d \in Calls : OpOf(d)' = OpOf(d)
      /\ \A d \in Calls \ {c} : calls'[d] = calls[d]
      /\ sent'[op] = sent[op]
    BY OthersKept
<1>2. ASSUME NEW d \in Calls, OpOf(d) = op, calls'[d].pc \in InDispatch
      PROVE  \/ calls[d].pc \in InDispatch /\ calls'[d].snap = Snap(d)
             \/ d = c /\ Dispatching(c) /\ calls'[d].snap.token = Snap(c).token
  <2>1. CASE d # c
    BY <1>1, <1>2, <2>1 DEF Snap
  <2>2. CASE d = c
    <3>1. TypeOK /\ Snap(c) \in OperationRecord
      BY OneCall DEF RuntimeInv
    <3>2. DispatchedRecord(Snap(c)).token = Snap(c).token
      BY <3>1 DEF DispatchedRecord, Attempted, Revised, OperationRecord
    <3>3. CASE Looking(c)
      BY <1>2, <2>2, <3>3 DEF Looking, KeepsItsPlace
    <3>4. CASE Dispatching(c)
      BY <2>2, <3>2, <3>4 DEF Dispatching
    <3> QED BY <1>2, <2>2, <3>3, <3>4
            DEF CallMoved, KindOfStep, Entering, Quitting, Answering, Claiming, Revising,
                Settling, InDispatch
  <2> QED BY <2>1, <2>2
<1>3. ASSUME NEW token \in Issued(op)'
      PROVE  \/ token \in Issued(op)
             \/ Dispatching(c) /\ OpOf(c) = op /\ token = Snap(c).token
  <2>1. CASE token \in sent'[op]
    BY <1>1, <2>1 DEF Issued
  <2>2. ASSUME NEW d \in Calls, OpOf(d)' = op, calls'[d].pc \in InDispatch,
               token = calls'[d].snap.token
        PROVE  \/ token \in Issued(op)
               \/ Dispatching(c) /\ OpOf(c) = op /\ token = Snap(c).token
    BY <1>1, <1>2, <2>2 DEF Issued
  <2> QED BY <1>3, <2>1, <2>2 DEF Issued, Snap
<1> QED BY <1>3

\* A handoff leaves every other record alone, spends nothing, and ends an
\* operation only as cancelled.
LEMMA HandoffRecord ==
    ASSUME RuntimeInv, NEW op \in Ops, HandingOff(op), NEW other \in Ops
    PROVE  /\ records'[other].attempts = records[other].attempts
           /\ \/ records'[other] = records[other]
              \/ other = op /\ ~ Terminal(records[op])
                 /\ records'[op].state \in {"cancelled", "uncertain"}
<1>1. records \in [Ops -> OperationRecord]
    BY DEF RuntimeInv, TypeOK, LedgerTypeOK
<1>2. PICK next \in CancelSuccessors(records[op]) \cup UncertainSuccessors(records[op]) :
            records' = [records EXCEPT ![op] = next]
    BY DEF HandingOff, CompareAndSet
<1>3. /\ next.state \in {"cancelled", "uncertain"} /\ ~ Terminal(records[op])
      /\ next \in Successors(op, records[op])
    BY <1>1, <1>2, PatchStates
    DEF CancelSuccessors, UncertainSuccessors, Successors, Terminal, TerminalStates
<1>4. next.attempts = records[op].attempts
    BY <1>1, <1>3, SuccessorsCounters
<1> QED BY <1>1, <1>2, <1>3, <1>4

LEMMA DispatchStep ==
    ASSUME RuntimeInv, RuntimeMoved, NEW op \in Ops
    PROVE  Quiet(op) \/ \E c \in Calls : Dispatches(c, op)
<1>1. ASSUME NEW c \in Calls, CallMoved(c)
      PROVE  Quiet(op) \/ Dispatches(c, op)
  <2>1. CASE Dispatching(c) /\ OpOf(c) = op
    BY <1>1, <2>1, DispatchingDispatches
  <2>2. CASE ~ (Dispatching(c) /\ OpOf(c) = op)
    <3>1. Issued(op)' \subseteq Issued(op)
      BY <1>1, <2>2, IssuedByCall
    <3>2. records'[op].attempts = records[op].attempts
      BY <1>1, <2>2, AttemptsKept, OthersKept
    <3> QED BY <3>1, <3>2 DEF Quiet
  <2> QED BY <2>1, <2>2
<1>2. ASSUME UNCHANGED <<invocation, calls, sent>>,
             records'[op].attempts = records[op].attempts
      PROVE  Quiet(op)
    BY <1>2 DEF Quiet, Issued, OpOf, Snap
<1>3. ASSUME NEW c \in Calls, Renewing(c)
      PROVE  Quiet(op)
    BY <1>2, <1>3 DEF Renewing, RenewLease, providerVars
<1>4. ASSUME NEW c \in Calls, SendRequest(c)
      PROVE  Quiet(op)
  <2>1. /\ At(c, "executing") /\ sent' = [sent EXCEPT ![OpOf(c)] = @ \cup {ContextToken(c)}]
        /\ UNCHANGED <<records, invocation, calls>>
    BY <1>4 DEF SendRequest, KeepLedger
  <2>2. ContextToken(c) = Snap(c).token
    BY <2>1, ContextIsToken DEF RuntimeInv, CallsFit, CallFits, At, WithoutSnapshot
  <2>3. OpOf(c) = op => Snap(c).token \in Issued(op)
    BY <2>1 DEF Issued, InDispatch, At
  <2>4. sent'[op] \subseteq sent[op] \cup (IF OpOf(c) = op THEN {Snap(c).token} ELSE {})
    BY <2>1, <2>2 DEF RuntimeInv, TypeOK
  <2>5. \A d \in Calls : OpOf(d)' = OpOf(d) /\ calls'[d] = calls[d]
    BY <2>1 DEF OpOf
  <2>6. Issued(op)' \subseteq Issued(op)
    BY <2>3, <2>4, <2>5 DEF Issued, Snap
  <2> QED BY <2>1, <2>6 DEF Quiet
<1>5. ASSUME NEW o \in Ops, NEW token \in sent[o], LandRequest(o, token)
      PROVE  Quiet(op)
    BY <1>2, <1>5 DEF LandRequest
<1>6. CASE Passing
    BY <1>2, <1>6 DEF Passing, Tick, ledgerVars, providerVars
<1>7. CASE Aborting
  <2>1. \A c \in Calls : OpOf(c)' = OpOf(c) /\ calls'[c].pc = calls[c].pc /\ Snap(c)' = Snap(c)
    BY <1>7 DEF Aborting, KeepsWork, OpOf, Snap
  <2> QED BY <1>7, <2>1 DEF Aborting, KeepLedger, providerVars, Quiet, Issued
<1>8. ASSUME NEW o \in Ops, HandingOff(o)
      PROVE  Quiet(op)
    BY <1>2, <1>8, HandoffRecord DEF HandingOff, providerVars
<1> QED BY <1>1, <1>3, <1>4, <1>5, <1>6, <1>7, <1>8 DEF RuntimeMoved

\* A claim always comes with a token of its own.
LEMMA TokenStep ==
    ASSUME RuntimeInv, RuntimeMoved, NEW op \in Ops
    PROVE  /\ records[op] \in OperationRecord /\ records'[op] \in OperationRecord
           /\ records'[op].token >= records[op].token
           /\ records'[op].state = "claimed" =>
                \/ records'[op].token > records[op].token
                \/ records[op].state = "claimed"
<1> DEFINE rec == records[op]
           next == records'[op]
<1>1. /\ LedgerTypeOK /\ AbsentIsEmpty /\ [LedgerNext]_ledgerVars /\ LedgerTypeOK'
    BY RuntimeLedgerStep, LedgerInvStep DEF RuntimeInv, TypeOK, LedgerInv
<1>2. rec \in OperationRecord /\ next \in OperationRecord /\ rec.token \in Nat
    BY <1>1 DEF LedgerTypeOK, OperationRecord
<1>3. CASE Untouched(op) \/ Renewed(op)
    BY <1>2, <1>3 DEF Untouched, Renewed
<1>4. CASE Created(op)
  <2>1. rec = Absent /\ Absent.token = 0
    BY <1>1, <1>4 DEF Created, AbsentIsEmpty, Absent
  <2>2. next.token = 0 /\ next.state = "proposed"
    BY <1>4 DEF Created, ProposedRecord, Absent
  <2> QED BY <1>2, <2>1, <2>2
<1>5. CASE Advanced(op)
  <2>1. next.token = rec.token /\ (next.state = "claimed" => rec.state = "claimed")
    BY <1>2, <1>5, SuccessorsCounters DEF Advanced
  <2> QED BY <1>2, <2>1
<1>6. ASSUME NEW owner \in Runtimes, TakenBy(op, owner)
      PROVE  next.token = rec.token + 1
    BY <1>2, <1>6 DEF TakenBy, ClaimedRecord, Revised, OperationRecord
<1> QED BY <1>1, <1>2, <1>3, <1>4, <1>5, <1>6, OperationStep DEF OperationMoved

LEMMA DispatchedFields ==
    ASSUME NEW rec \in OperationRecord
    PROVE  /\ DispatchedRecord(rec).state = "dispatched"
           /\ DispatchedRecord(rec).token = rec.token
           /\ DispatchedRecord(rec).attempts = rec.attempts + 1
           /\ DispatchedRecord(rec).result = rec.result
    BY DEF DispatchedRecord, Attempted, Revised, OperationRecord

LEMMA OneMore ==
    ASSUME NEW set, IsFiniteSet(set), Cardinality(set) \in Nat, NEW elem
    PROVE  /\ IsFiniteSet(set \cup {elem})
           /\ Cardinality(set \cup {elem}) <= Cardinality(set) + 1
<1>1. CASE elem \in set
  <2>1. set \cup {elem} = set
    BY <1>1
  <2>2. Cardinality(set) <= Cardinality(set) + 1
    OBVIOUS
  <2> QED BY <2>1, <2>2, Zenon
<1>2. CASE elem \notin set
  <2>1. Cardinality(set \cup {elem}) = Cardinality(set) + 1
    BY <1>2, FS_AddElement
  <2> QED BY <2>1, FS_AddElement
<1> QED BY <1>1, <1>2

LEMMA IssuedStep ==
    ASSUME RuntimeInv, EffectInv, RuntimeMoved
    PROVE  IssuedCovered'
<1> SUFFICES ASSUME NEW op \in Ops
             PROVE  /\ IsFiniteSet(Issued(op)')
                    /\ Cardinality(Issued(op)') <= records'[op].attempts
                    /\ \A token \in Issued(op)' :
                        /\ token \in Nat /\ token <= records'[op].token
                        /\ records'[op].state = "claimed" => token < records'[op].token
    BY DEF IssuedCovered
<1>1. /\ IsFiniteSet(Issued(op)) /\ Cardinality(Issued(op)) <= records[op].attempts
      /\ \A token \in Issued(op) :
            /\ token \in Nat /\ token <= records[op].token
            /\ records[op].state = "claimed" => token < records[op].token
    BY DEF EffectInv, IssuedCovered
<1>2. /\ records[op] \in OperationRecord /\ records'[op] \in OperationRecord
      /\ records'[op].token >= records[op].token
      /\ records'[op].state = "claimed" =>
            records'[op].token > records[op].token \/ records[op].state = "claimed"
    BY TokenStep
<1>3. /\ records[op].token \in Nat /\ records'[op].token \in Nat
      /\ records[op].attempts \in Nat /\ Cardinality(Issued(op)) \in Nat
    BY <1>1, <1>2, FS_CardinalityType DEF OperationRecord
<1>4. CASE Quiet(op)
  <2>1. /\ IsFiniteSet(Issued(op)') /\ Cardinality(Issued(op)') <= Cardinality(Issued(op))
        /\ Cardinality(Issued(op)') \in Nat
    BY <1>1, <1>4, FS_Subset, FS_CardinalityType DEF Quiet
  <2>2. Cardinality(Issued(op)') <= records'[op].attempts
    BY <1>1, <1>3, <1>4, <2>1 DEF Quiet
  <2>3. ASSUME NEW token \in Issued(op)'
        PROVE  /\ token \in Nat /\ token <= records'[op].token
               /\ records'[op].state = "claimed" => token < records'[op].token
    <3>1. /\ token \in Nat /\ token <= records[op].token
          /\ records[op].state = "claimed" => token < records[op].token
      BY <1>1, <1>4 DEF Quiet
    <3> QED BY <1>2, <1>3, <3>1
  <2> QED BY <2>1, <2>2, <2>3
<1>5. ASSUME NEW c \in Calls, Dispatches(c, op)
      PROVE  /\ IsFiniteSet(Issued(op)')
             /\ Cardinality(Issued(op)') <= records'[op].attempts
             /\ \A token \in Issued(op)' :
                    /\ token \in Nat /\ token <= records'[op].token
                    /\ records'[op].state = "claimed" => token < records'[op].token
  <2> DEFINE more == Issued(op) \cup {Snap(c).token}
  <2>1. Issued(op)' \subseteq more
    BY <1>5, IssuedByCall DEF Dispatches
  <2>2. IsFiniteSet(more) /\ Cardinality(more) <= Cardinality(Issued(op)) + 1
    BY <1>1, <1>3, OneMore
  <2>3. /\ IsFiniteSet(Issued(op)') /\ Cardinality(Issued(op)') <= Cardinality(more)
        /\ Cardinality(Issued(op)') \in Nat /\ Cardinality(more) \in Nat
    BY <2>1, <2>2, FS_Subset, FS_CardinalityType
  <2>4. /\ records'[op].attempts = records[op].attempts + 1
        /\ records'[op].token = records[op].token /\ records'[op].state = "dispatched"
        /\ Snap(c).token = records[op].token
    BY <1>2, <1>5, DispatchedFields DEF Dispatches
  <2>5. Cardinality(Issued(op)') <= records'[op].attempts
    BY <1>1, <1>3, <2>2, <2>3, <2>4
  <2>6. \A token \in Issued(op)' : token \in Nat /\ token <= records'[op].token
    BY <1>1, <1>3, <2>1, <2>4
  <2> QED BY <2>3, <2>4, <2>5, <2>6
<1> QED BY <1>4, <1>5, DispatchStep

-----------------------------------------------------------------------------
(***************************************************************************)
(* What the attempts counter says.                                         *)
(***************************************************************************)

\* Every patch fits the history it extends.
LEMMA SuccessorsHistory ==
    ASSUME NEW op \in Ops, NEW rec \in OperationRecord, HistoryFits(op, rec),
           NEW next \in Successors(op, rec)
    PROVE  HistoryFits(op, next)
<1> USE DEF HistoryFits, NeverDispatched, IsSuccess, OperationRecord, Revised
<1>1. CASE next \in AuthorizationSuccessors(rec)
    BY <1>1 DEF AuthorizationSuccessors, AuthorizedRecord
<1>2. CASE next \in CancelSuccessors(rec)
    BY <1>2 DEF CancelSuccessors, CancelledRecord
<1>3. CASE next \in DispatchSuccessors(rec)
    BY <1>3 DEF DispatchSuccessors, DispatchedRecord, Attempted
<1>4. CASE next \in ReconcileSuccessors(op, rec)
  <2>1. PICK outcome \in {"succeeded", "failed"} : next = ReconciledRecord(rec, outcome)
    BY <1>4 DEF ReconcileSuccessors
  <2>2. /\ next.state = "reconciled" /\ next.reconciliation = outcome
        /\ next.result = (rec.result \/ outcome = "succeeded")
    BY <2>1 DEF ReconciledRecord
  <2>3. rec.state = "claimed" /\ ~ rec.result
    BY <1>4 DEF ReconcileSuccessors
  <2> QED BY <2>2, <2>3
<1>5. CASE next \in ExecutionSuccessors(op, rec)
    BY ZenonT(30), <1>5
    DEF ExecutionSuccessors, SucceededRecord, FailedRecord, CancelledRecord
<1>6. CASE next \in UncertainSuccessors(rec)
    BY <1>6 DEF UncertainSuccessors, UncertainRecord
<1>7. CASE next \in BindingSuccessors(rec)
    BY <1>7 DEF BindingSuccessors, BoundRecord
<1> QED BY <1>1, <1>2, <1>3, <1>4, <1>5, <1>6, <1>7 DEF Successors

LEMMA ClaimedHistory ==
    ASSUME NEW op \in Ops, NEW rec \in OperationRecord, HistoryFits(op, rec),
           rec.state \in Claimable, NEW owner \in Runtimes, NEW token \in Nat
    PROVE  HistoryFits(op, ClaimedRecord(rec, owner, token, rec.state))
    BY DEF HistoryFits, NeverDispatched, IsSuccess, OperationRecord, Revised, ClaimedRecord,
           Claimable

LEMMA ProposedHistory ==
    ASSUME NEW op \in Ops, NEW p, NEW t
    PROVE  HistoryFits(op, ProposedRecord(op, p, t))
<1> DEFINE next == ProposedRecord(op, p, t)
<1>1. next.state = "proposed" /\ next.attempts = 0 /\ next.result = FALSE
    BY DEF ProposedRecord, Absent
<1> HIDE DEF next
<1>2. HistoryFits(op, next)
    BY <1>1 DEF HistoryFits
<1> QED BY <1>2 DEF next

LEMMA HistoryStep ==
    ASSUME RuntimeInv, EffectInv, RuntimeMoved, NEW op \in Ops
    PROVE  HistoryFits(op, records'[op])
<1>1. /\ LedgerTypeOK /\ [LedgerNext]_ledgerVars /\ records[op] \in OperationRecord
      /\ records[op].token + 1 \in Nat /\ HistoryFits(op, records[op])
    BY RuntimeLedgerStep
    DEF RuntimeInv, TypeOK, LedgerTypeOK, OperationRecord, EffectInv, AttemptsFit
<1>2. CASE Untouched(op) \/ Renewed(op)
    BY <1>1, <1>2 DEF Untouched, Renewed
<1>3. CASE Created(op)
    BY <1>3, ProposedHistory DEF Created
<1>4. CASE Advanced(op)
    BY <1>1, <1>4, SuccessorsHistory DEF Advanced
<1>5. ASSUME NEW owner \in Runtimes, TakenBy(op, owner)
      PROVE  HistoryFits(op, records'[op])
    BY <1>1, <1>5, ClaimedHistory DEF TakenBy
<1> QED BY <1>1, <1>2, <1>3, <1>4, <1>5, OperationStep DEF OperationMoved

\* An operation with neither a key nor a query is dispatched from its first
\* claim only.
LEMMA AttemptsStep ==
    ASSUME RuntimeInv, EffectInv, RuntimeMoved
    PROVE  AttemptsFit'
<1> SUFFICES ASSUME NEW op \in Ops, ~ Profile[op].reconcile, ~ usesOperationKey(op)
             PROVE  records'[op].attempts <= 1
    BY HistoryStep DEF AttemptsFit
<1>1. records[op].attempts <= 1 /\ HistoryFits(op, records[op])
    BY DEF EffectInv, AttemptsFit
<1>2. CASE Quiet(op)
    BY <1>1, <1>2 DEF Quiet
<1>3. ASSUME NEW c \in Calls, Dispatches(c, op)
      PROVE  records'[op].attempts <= 1
  <2>1. /\ TypeOK /\ Snap(c) \in OperationRecord /\ Snap(c) = records[op] /\ OpOf(c) = op
        /\ Snap(c).state = "claimed" /\ MayDispatch(c)
    BY <1>3, OneCall DEF RuntimeInv, Dispatches, Dispatching
  <2>2. ~ At(c, "answered")
    BY <2>1 DEF RuntimeInv, CallsFit, CallFits, At
  <2>3. Snap(c).claim.resumeFrom = "authorized"
    BY <2>1, <2>2 DEF MayDispatch
  <2>4. records[op].attempts = 0
    BY <1>1, <2>1, <2>3 DEF HistoryFits, NeverDispatched
  <2>5. records'[op].attempts = 0 + 1
    BY <1>3, <2>1, <2>4, DispatchedFields DEF Dispatches
  <2> QED BY <2>5
<1> QED BY <1>2, <1>3, DispatchStep

-----------------------------------------------------------------------------
(***************************************************************************)
(* What the Provider does, and what it has ruled out.                      *)
(***************************************************************************)

\* Requests and effects are never taken back, and an effect is a request that
\* landed in a step of its own.
LEMMA ProviderStep ==
    ASSUME RuntimeInv, RuntimeMoved, NEW op \in Ops
    PROVE  /\ fence[op] \in Nat /\ fence'[op] \in Nat /\ fence'[op] >= fence[op]
           /\ sent[op] \subseteq sent'[op] /\ landed[op] \subseteq landed'[op]
           /\ sent'[op] = sent[op] \/ hasExternalSideEffect(op)
           /\ \A token \in landed'[op] \ landed[op] :
                /\ token \in sent[op] /\ token >= fence[op]
                /\ landed'[op] = landed[op] \cup {token}
                /\ usesOperationKey(op) => landed[op] = {}
                /\ UNCHANGED <<records, calls, sent, fence>>
<1>1. /\ sent \in [Ops -> SUBSET Nat] /\ landed \in [Ops -> SUBSET Nat]
      /\ fence \in [Ops -> Nat]
    BY DEF RuntimeInv, TypeOK
<1>2. ASSUME UNCHANGED <<sent, landed, fence>>
      PROVE  /\ fence'[op] \in Nat /\ fence'[op] >= fence[op]
             /\ sent'[op] = sent[op] /\ landed'[op] = landed[op]
    BY <1>1, <1>2
<1>3. ASSUME NEW c \in Calls, CallMoved(c)
      PROVE  /\ fence'[op] \in Nat /\ fence'[op] >= fence[op]
             /\ sent'[op] = sent[op] /\ landed'[op] = landed[op]
  <2>1. CASE Answering(c)
    BY <1>1, <2>1 DEF Answering
  <2> QED BY <1>2, <1>3, <2>1 DEF CallMoved, providerVars
<1>4. ASSUME NEW c \in Calls, SendRequest(c)
      PROVE  /\ fence' = fence /\ landed' = landed /\ sent[op] \subseteq sent'[op]
             /\ sent'[op] = sent[op] \/ hasExternalSideEffect(op)
    BY <1>1, <1>4 DEF SendRequest
<1>5. ASSUME NEW o \in Ops, NEW t \in sent[o], LandRequest(o, t)
      PROVE  /\ UNCHANGED <<records, calls, sent, fence>> /\ landed[op] \subseteq landed'[op]
             /\ \A token \in landed'[op] \ landed[op] :
                    /\ token \in sent[op] /\ token >= fence[op]
                    /\ landed'[op] = landed[op] \cup {token}
                    /\ usesOperationKey(op) => landed[op] = {}
    BY <1>1, <1>5 DEF LandRequest
<1>6. ASSUME NEW c \in Calls, Renewing(c)
      PROVE  UNCHANGED <<sent, landed, fence>>
    BY <1>6 DEF Renewing, providerVars
<1>7. CASE Passing \/ Aborting \/ \E o \in Ops : HandingOff(o)
    BY <1>1, <1>2, <1>7 DEF Passing, Aborting, HandingOff, providerVars
<1> QED BY <1>1, <1>2, <1>3, <1>4, <1>5, <1>6, <1>7 DEF RuntimeMoved

\* A call moves, or goes on as it was.
LEMMA CallCases ==
    ASSUME RuntimeInv, RuntimeMoved, NEW c \in Calls
    PROVE  OpOf(c)' = OpOf(c) /\ (KeepsWork(c) \/ CallMoved(c))
<1>1. OpOf(c)' = OpOf(c)
    BY SnapshotOrigin
<1>2. calls'[c] = calls[c] => KeepsWork(c)
    BY DEF KeepsWork, Snap
<1>3. ASSUME NEW d \in Calls, CallMoved(d)
      PROVE  calls'[c] = calls[c] \/ CallMoved(c)
    BY <1>3 DEF CallMoved, OnlyCall
<1>4. ASSUME NEW d \in Calls, Renewing(d) \/ SendRequest(d)
      PROVE  calls' = calls
    BY <1>4 DEF Renewing, SendRequest
<1>5. ASSUME NEW op \in Ops, NEW token \in sent[op], LandRequest(op, token)
      PROVE  calls' = calls
    BY <1>5 DEF LandRequest
<1>6. ASSUME NEW op \in Ops, HandingOff(op)
      PROVE  calls' = calls
    BY <1>6 DEF HandingOff
<1>7. CASE Aborting
    BY <1>1, <1>7 DEF Aborting
<1> QED BY <1>1, <1>2, <1>3, <1>4, <1>5, <1>6, <1>7 DEF RuntimeMoved, Passing

\* What has been ruled out for a call stays ruled out.
LEMMA RuledOutStays ==
    ASSUME RuntimeInv, RuntimeMoved, NEW c \in Calls, RuledOut(c),
           calls'[c].snap.token = Snap(c).token
    PROVE  RuledOut(c)'
<1>1. /\ OpOf(c) \in Ops /\ Snap(c).token \in Nat /\ landed[OpOf(c)] \subseteq Nat
      /\ sent[OpOf(c)] \subseteq Nat
    BY OneCall DEF RuntimeInv, TypeOK, OperationRecord
<1>2. OpOf(c)' = OpOf(c) /\ Snap(c)'.token = Snap(c).token
    BY CallCases DEF Snap
<1>3. fence'[OpOf(c)] >= Snap(c).token
    BY <1>1, ProviderStep DEF RuledOut
<1>4. \A token \in landed'[OpOf(c)] : token >= Snap(c).token
  <2> TAKE token \in landed'[OpOf(c)]
  <2>1. CASE token \in landed[OpOf(c)]
    BY <2>1 DEF RuledOut
  <2>2. CASE token \notin landed[OpOf(c)]
    <3>1. token \in Nat /\ token >= fence[OpOf(c)] /\ fence[OpOf(c)] \in Nat
      BY <1>1, <2>2, ProviderStep
    <3> QED BY <1>1, <3>1 DEF RuledOut
  <2> QED BY <2>1, <2>2
<1> QED BY <1>2, <1>3, <1>4 DEF RuledOut

LEMMA AnswersStep ==
    ASSUME RuntimeInv, EffectInv, RuntimeMoved
    PROVE  AnswersHold'
<1> SUFFICES ASSUME NEW c \in Calls, calls'[c].pc = "answered"
             PROVE  /\ calls'[c].answer = "succeeded" => landed'[OpOf(c)] # {}
                    /\ calls'[c].answer \in {"absent", "failed"} => RuledOut(c)'
    BY CallCases DEF AnswersHold, At
<1>1. OpOf(c) \in Ops /\ fence \in [Ops -> Nat] /\ Snap(c).token \in Nat
    BY OneCall DEF RuntimeInv, TypeOK, OperationRecord
<1>2. CASE At(c, "answered") /\ calls'[c].snap = Snap(c) /\ calls'[c].answer = calls[c].answer
  <2>1. /\ calls[c].answer = "succeeded" => landed[OpOf(c)] # {}
        /\ calls[c].answer \in {"absent", "failed"} => RuledOut(c)
    BY <1>2 DEF EffectInv, AnswersHold
  <2> QED BY <1>1, <1>2, <2>1, ProviderStep, RuledOutStays
<1>3. CASE KeepsWork(c)
    BY <1>2, <1>3 DEF At, KeepsWork
<1>4. CASE CallMoved(c)
  <2>1. CASE Answering(c)
    <3>1. OpOf(c)' = OpOf(c) /\ Snap(c)' = Snap(c) /\ landed' = landed
      BY <2>1, CallCases DEF Answering, Snap
    <3>2. Exists(Snap(c))
      BY <2>1 DEF Answering, RuntimeInv, CallsFit, CallFits, At, WithoutSnapshot
    <3>3. calls'[c].answer \in {"absent", "failed"} =>
            landed'[OpOf(c)] = {} /\ fence'[OpOf(c)] >= Snap(c).token
      BY <2>1, <3>1, <3>2, ContextIsToken DEF Answering
    <3> QED BY <2>1, <3>1, <3>3 DEF Answering, RuledOut
  <2>2. CASE Looking(c)
    BY <1>2, <2>2 DEF Looking, KeepsItsPlace
  <2> QED BY <1>4, <2>1, <2>2
          DEF CallMoved, KindOfStep, Entering, Quitting, Claiming, Revising, Dispatching, Settling
<1> QED BY <1>3, <1>4, CallCases

\* What a dispatch that is not the first may count on.
LEMMA DispatchEvidence ==
    ASSUME RuntimeInv, EffectInv, NEW c \in Calls, NEW op \in Ops, Dispatches(c, op)
    PROVE  \/ records[op].attempts = 0
           \/ ~ Profile[op].reconcile /\ usesOperationKey(op)
           \/ Profile[op].reconcile /\ RuledOut(c)
<1>1. /\ Snap(c) = records[op] /\ OpOf(c) = op /\ Snap(c).state = "claimed" /\ MayDispatch(c)
    BY DEF Dispatches, Dispatching
<1>2. CASE Snap(c).claim.resumeFrom = "authorized"
    BY <1>1, <1>2 DEF EffectInv, AttemptsFit, HistoryFits, NeverDispatched
<1>3. CASE At(c, "answered") /\ calls[c].answer = "absent"
    BY <1>1, <1>3 DEF EffectInv, AnswersHold, RuntimeInv, CallsFit, CallFits, At
<1> QED BY <1>1, <1>2, <1>3 DEF MayDispatch

LEMMA RetryStep ==
    ASSUME RuntimeInv, EffectInv, RuntimeMoved
    PROVE  RetryJustified'
<1> SUFFICES ASSUME NEW c \in Calls, calls'[c].pc \in InDispatch, calls'[c].snap.attempts > 1
             PROVE  IF Profile[OpOf(c)].reconcile THEN RuledOut(c)' ELSE usesOperationKey(OpOf(c))
    BY CallCases DEF RetryJustified, Snap
<1>1. OpOf(c) \in Ops /\ Snap(c) \in OperationRecord
    BY OneCall DEF RuntimeInv
<1>2. CASE calls[c].pc \in InDispatch /\ calls'[c].snap = Snap(c)
    BY <1>1, <1>2, RuledOutStays DEF EffectInv, RetryJustified
<1>3. CASE CallMoved(c) /\ Dispatching(c)
  <2>1. Dispatches(c, OpOf(c))
    BY <1>3, DispatchingDispatches
  <2>2. /\ records[OpOf(c)].attempts # 0
        /\ calls'[c].snap.token = Snap(c).token
    BY <1>1, <1>3, <2>1, DispatchedFields DEF Dispatches, Dispatching
  <2> QED BY <1>1, <2>1, <2>2, DispatchEvidence, RuledOutStays
<1>4. CASE CallMoved(c) /\ Looking(c)
    BY <1>2, <1>4 DEF Looking, KeepsItsPlace
<1>5. CASE KeepsWork(c)
    BY <1>2, <1>5 DEF KeepsWork
<1> QED BY <1>3, <1>4, <1>5, CallCases
        DEF CallMoved, KindOfStep, Answering, Entering, Quitting, Claiming, Revising, Settling,
            InDispatch

LEMMA OlderStep ==
    ASSUME RuntimeInv, EffectInv, RuntimeMoved
    PROVE  OlderRuledOut'
<1> SUFFICES ASSUME NEW op \in Ops, Profile[op].reconcile,
                    NEW older \in Issued(op)', NEW newer \in Issued(op)', older < newer
             PROVE  fence'[op] >= newer /\ older \notin landed'[op]
    BY DEF OlderRuledOut
<1>1. /\ \A token \in Issued(op)' : token \in Nat
      /\ \A token \in Issued(op) : token \in Nat
      /\ fence[op] \in Nat /\ fence'[op] \in Nat /\ fence'[op] >= fence[op]
    BY IssuedStep, ProviderStep DEF IssuedCovered, EffectInv
<1>2. ASSUME fence[op] >= newer, older \notin landed[op]
      PROVE  fence'[op] >= newer /\ older \notin landed'[op]
    BY <1>1, <1>2, ProviderStep
<1>3. CASE Quiet(op)
  <2>1. fence[op] >= newer /\ older \notin landed[op]
    BY <1>3 DEF Quiet, EffectInv, OlderRuledOut
  <2> QED BY <1>2, <2>1
<1>4. ASSUME NEW c \in Calls, Dispatches(c, op)
      PROVE  fence[op] >= newer /\ older \notin landed[op]
  <2>1. /\ Issued(op)' \subseteq Issued(op) \cup {Snap(c).token}
        /\ Snap(c) = records[op] /\ OpOf(c) = op /\ Snap(c).state = "claimed"
    BY <1>4, IssuedByCall DEF Dispatches, Dispatching
  <2>2. \A token \in Issued(op) : token < Snap(c).token
    BY <2>1 DEF EffectInv, IssuedCovered
  <2>3. CASE newer \in Issued(op)
    <3>1. older \in Issued(op) /\ Snap(c).token \in Nat
      BY <1>1, <2>1, <2>2, <2>3, OneCall DEF RuntimeInv, OperationRecord
    <3> QED BY <2>3, <3>1 DEF EffectInv, OlderRuledOut
  <2>4. CASE newer \notin Issued(op)
    <3>1. newer = Snap(c).token /\ older \in Issued(op)
      BY <1>1, <2>1, <2>4
    <3>2. records[op].attempts # 0
      <4>1. IsFiniteSet(Issued(op)) /\ Cardinality(Issued(op)) <= records[op].attempts
        BY DEF EffectInv, IssuedCovered
      <4>2. Cardinality(Issued(op)) \in Nat /\ Cardinality(Issued(op)) # 0
        BY <3>1, <4>1, FS_CardinalityType, FS_EmptySet
      <4> QED BY <4>1, <4>2
    <3>3. RuledOut(c)
      BY <1>4, <3>2, DispatchEvidence
    <3> QED BY <1>1, <2>1, <3>1, <3>3 DEF RuledOut
  <2> QED BY <2>3, <2>4
<1> QED BY <1>2, <1>3, <1>4, DispatchStep

-----------------------------------------------------------------------------
(***************************************************************************)
(* One effect.                                                             *)
(***************************************************************************)
LEMMA AtMostOne ==
    ASSUME NEW set, IsFiniteSet(set), Cardinality(set) <= 1, NEW a \in set, NEW b \in set
    PROVE  a = b
<1> SUFFICES ASSUME a # b PROVE FALSE
    OBVIOUS
<1>1. IsFiniteSet({a}) /\ Cardinality({a}) = 1
    BY FS_Singleton
<1>2. b \notin {a}
    OBVIOUS
<1>3. Cardinality({a} \cup {b}) = Cardinality({a}) + 1
    BY <1>1, <1>2, FS_AddElement
<1>4. Cardinality({a} \cup {b}) <= Cardinality(set) /\ Cardinality(set) \in Nat
    BY FS_Subset, FS_CardinalityType
<1> QED BY <1>1, <1>3, <1>4

LEMMA LandedStep ==
    ASSUME RuntimeInv, EffectInv, RuntimeMoved
    PROVE  LandedOnce'
<1> SUFFICES ASSUME NEW op \in Ops
             PROVE  /\ landed'[op] \subseteq sent'[op]
                    /\ sent'[op] # {} => hasExternalSideEffect(op)
                    /\ \A token, other \in landed'[op] : token = other
    BY DEF LandedOnce
<1>1. /\ landed[op] \subseteq sent[op] /\ (sent[op] # {} => hasExternalSideEffect(op))
      /\ \A token, other \in landed[op] : token = other
    BY DEF EffectInv, LandedOnce
<1>2. landed'[op] \subseteq sent'[op] /\ (sent'[op] # {} => hasExternalSideEffect(op))
    BY <1>1, ProviderStep
<1>3. ASSUME NEW token \in landed'[op] \ landed[op]
      PROVE  landed[op] = {}
  <2> SUFFICES ASSUME NEW other \in landed[op] PROVE FALSE
    OBVIOUS
  <2>1. /\ token \in sent[op] /\ token >= fence[op]
        /\ usesOperationKey(op) => landed[op] = {}
    BY ProviderStep
  <2>2. token \in Issued(op) /\ other \in Issued(op) /\ token # other
    BY <1>1, <2>1 DEF Issued
  <2>3. /\ token \in Nat /\ other \in Nat /\ fence[op] \in Nat
        /\ IsFiniteSet(Issued(op)) /\ Cardinality(Issued(op)) <= records[op].attempts
    BY <2>2, ProviderStep DEF EffectInv, IssuedCovered
  <2>4. CASE Profile[op].reconcile
    <3>1. \A older, newer \in Issued(op) : older < newer =>
                fence[op] >= newer /\ older \notin landed[op]
      BY <2>4 DEF EffectInv, OlderRuledOut
    <3>2. CASE other < token
      BY <2>2, <3>1, <3>2
    <3>3. CASE token < other
      BY <2>1, <2>2, <2>3, <3>1, <3>3
    <3> QED BY <2>2, <2>3, <3>2, <3>3
  <2>5. CASE ~ Profile[op].reconcile /\ ~ usesOperationKey(op)
    <3>1. records[op].attempts <= 1 /\ records[op].attempts \in Nat
      BY <2>5 DEF EffectInv, AttemptsFit, RuntimeInv, TypeOK, LedgerTypeOK, OperationRecord
    <3>2. Cardinality(Issued(op)) <= 1
      BY <2>3, <3>1, FS_CardinalityType
    <3> QED BY <2>2, <2>3, <3>2, AtMostOne
  <2> QED BY <2>1, <2>4, <2>5
<1>4. \A token, other \in landed'[op] : token = other
  <2>1. CASE landed'[op] = landed[op]
    BY <1>1, <2>1
  <2>2. CASE landed'[op] # landed[op]
    <3>1. PICK token \in landed'[op] : token \notin landed[op]
      BY <2>2, ProviderStep
    <3>2. landed'[op] = {} \cup {token}
      BY <1>3, <3>1, ProviderStep
    <3> QED BY <3>2
  <2> QED BY <2>1, <2>2
<1> QED BY <1>2, <1>4

-----------------------------------------------------------------------------
(***************************************************************************)
(* How operations end, and what is said of it.                             *)
(***************************************************************************)
LEMMA EndingFields ==
    ASSUME NEW rec \in OperationRecord
    PROVE  /\ Ending(rec) = "open" <=> ~ Terminal(rec)
           /\ Ending(rec) \in Settled => Terminal(rec)
           /\ IsSuccess(rec) <=> Ending(rec) = "succeeded"
           /\ rec.state = "reconciled" => Ending(rec) = rec.reconciliation
    BY DEF Ending, Terminal, TerminalStates, IsSuccess, Settled, OperationRecord

LEMMA EndingStays ==
    ASSUME RuntimeInv, RuntimeMoved, NEW op \in Ops, Terminal(records[op])
    PROVE  /\ Terminal(records'[op]) /\ Ending(records'[op]) = Ending(records[op])
           /\ records'[op].state = records[op].state
           /\ records'[op].reconciliation = records[op].reconciliation
<1>1. /\ LedgerTypeOK /\ [LedgerNext]_ledgerVars
      /\ records[op] \in OperationRecord /\ records'[op] \in OperationRecord
    BY RuntimeLedgerStep, LedgerInvStep DEF RuntimeInv, TypeOK, LedgerTypeOK
<1>2. [records'[op] EXCEPT !.rev = 0, !.principal = Nobody]
        = [records[op] EXCEPT !.rev = 0, !.principal = Nobody]
    BY <1>1, TerminalStep
<1>3. /\ records'[op].state = records[op].state
      /\ records'[op].reconciliation = records[op].reconciliation
    BY <1>1, <1>2 DEF OperationRecord
<1> QED BY <1>3 DEF Terminal, Ending

\* The write with which c ends op.
Ends(c, op) ==
    /\ OpOf(c) = op /\ CallMoved(c) /\ UNCHANGED providerVars
    /\ records[op] = Snap(c) /\ Exists(Snap(c))
    /\ Terminal(records'[op]) /\ Witnessed(c, records'[op])
    /\ calls'[c].pc = "done" /\ calls'[c].outcome = Ending(records'[op])

LEMMA CallEndingStep ==
    ASSUME RuntimeInv, NEW c \in Calls, CallMoved(c), NEW op \in Ops
    PROVE  Ending(records'[op]) = Ending(records[op]) \/ Ends(c, op)
<1>1. CASE OpOf(c) # op
    BY <1>1, OthersKept
<1>2. CASE OpOf(c) = op
  <2>1. /\ TypeOK /\ Snap(c) \in OperationRecord /\ records \in [Ops -> OperationRecord]
    BY OneCall DEF RuntimeInv, TypeOK, LedgerTypeOK
  <2>2. CASE Entering(c)
    <3>1. \/ records'[op] = records[op]
          \/ ~ Exists(records[op])
             /\ records'[op] = ProposedRecord(op, invocation[c].principal, now)
      BY <1>2, <2>1, <2>2 DEF Entering, Create
    <3>2. ProposedRecord(op, invocation[c].principal, now).state = "proposed"
      BY DEF ProposedRecord, Absent
    <3> QED BY <3>1, <3>2 DEF Ending, Terminal, TerminalStates, Exists
  <2>3. CASE Looking(c) \/ Quitting(c) \/ Answering(c)
    BY <2>3 DEF Looking, Quitting, Answering, KeepLedger
  <2>4. CASE Claiming(c)
    <3>1. records'[op] = ClaimedRecord(records[op], RuntimeOf(c), Snap(c).token + 1, Snap(c).state)
      BY <1>2, <2>1, <2>4 DEF Claiming, Claim
    <3>2. records'[op].state = "claimed"
      BY <2>1, <3>1 DEF ClaimedRecord, Revised, OperationRecord
    <3>3. Snap(c).state \in Claimable /\ records[op] = Snap(c)
      BY <1>2, <2>4, SavedIsCurrent
      DEF Claiming, RuntimeInv, CallsFit, CallFits, At, Exists, WithoutSnapshot
    <3> QED BY <3>2, <3>3 DEF Ending, Terminal, TerminalStates, Claimable
  <2>5. ASSUME NEW next, Saves(c, next), Exists(Snap(c))
        PROVE  records[op] = Snap(c) /\ records'[op] = next
    BY <1>2, <2>1, <2>5, SavedIsCurrent, SavesWrites
  <2>6. CASE Revising(c)
    BY <2>5, <2>6 DEF Revising
  <2>7. CASE Dispatching(c)
    BY <2>1, <2>5, <2>7, DispatchedFields
    DEF Dispatching, Ending, Terminal, TerminalStates, Exists
  <2>8. CASE Settling(c) /\ ~ Answering(c)
    <3>1. PICK next :
            /\ Exists(Snap(c)) /\ Saves(c, next) /\ Witnessed(c, next)
            /\ next.state \in TerminalStates \cup {"uncertain"}
            /\ calls'[c].pc = "done"
            /\ Terminal(next) => Ending(next) = calls'[c].outcome
            /\ ~ Terminal(next) => Snap(c).state \notin TerminalStates
      BY <2>1, <2>8, TerminalSuccessors, BoundFields, OneCall
      DEF Settling, Terminal
    <3>2. records[op] = Snap(c) /\ records'[op] = next
      BY <2>5, <3>1
    <3>3. CASE Terminal(next)
      BY <1>2, <2>8, <3>1, <3>2, <3>3, OthersKept DEF Ends, CallMoved
    <3>4. CASE ~ Terminal(next)
      <4>1. ~ Terminal(records[op]) /\ ~ Terminal(records'[op])
        BY <3>1, <3>2, <3>4 DEF Terminal
      <4> QED BY <4>1 DEF Ending, Terminal, TerminalStates
    <3> QED BY <3>3, <3>4
  <2> QED BY <2>2, <2>3, <2>4, <2>6, <2>7, <2>8 DEF CallMoved, KindOfStep
<1> QED BY <1>1, <1>2

\* The write with which a handoff ends op.
HandsOff(op) ==
    /\ HandingOff(op)
    /\ ~ Terminal(records[op]) /\ records'[op].state = "cancelled"

LEMMA EndingStep ==
    ASSUME RuntimeInv, RuntimeMoved, NEW op \in Ops
    PROVE  \/ Ending(records'[op]) = Ending(records[op])
           \/ \E c \in Calls : Ends(c, op)
           \/ HandsOff(op)
<1>1. ASSUME NEW c \in Calls, Renewing(c) \/ SendRequest(c)
      PROVE  records' = records
    BY <1>1 DEF Renewing, RenewLease, SendRequest, KeepLedger
<1>2. ASSUME NEW o \in Ops, NEW token \in sent[o], LandRequest(o, token)
      PROVE  records' = records
    BY <1>2 DEF LandRequest
<1>3. CASE Passing \/ Aborting
    BY <1>3 DEF Passing, Aborting, KeepLedger, Tick, ledgerVars
<1>4. ASSUME NEW o \in Ops, HandingOff(o)
      PROVE  Ending(records'[op]) = Ending(records[op]) \/ HandsOff(op)
  <2>1. CASE records'[op] = records[op]
    BY <2>1
  <2>2. CASE o = op /\ ~ Terminal(records[op]) /\ records'[op].state = "cancelled"
    BY <1>4, <2>2 DEF HandsOff
  <2>3. CASE o = op /\ ~ Terminal(records[op]) /\ records'[op].state = "uncertain"
    BY <2>3 DEF Ending, Terminal, TerminalStates
  <2> QED BY <1>4, <2>1, <2>2, <2>3, HandoffRecord
<1> QED BY <1>1, <1>2, <1>3, <1>4, CallEndingStep DEF RuntimeMoved

\* What a call writes when it ends an operation is what the Provider did.
LEMMA EndsTruly ==
    ASSUME RuntimeInv, EffectInv, NEW op \in Ops, hasExternalSideEffect(op),
           NEW c \in Calls, Ends(c, op)
    PROVE  /\ IsSuccess(records'[op]) => landed[op] # {}
           /\ records'[op].state = "reconciled" /\ records'[op].reconciliation = "failed" =>
                landed[op] = {} /\ \A token \in Issued(op) : token < fence[op]
<1>1. /\ OpOf(c) = op /\ records[op] = Snap(c) /\ Witnessed(c, records'[op])
      /\ records[op].token \in Nat /\ fence[op] \in Nat
    BY DEF Ends, RuntimeInv, TypeOK, LedgerTypeOK, OperationRecord
<1>2. CASE records'[op].state = "succeeded"
    BY <1>1, <1>2 DEF Witnessed, ExecuteReturns, IsSuccess
<1>3. CASE records'[op].state = "reconciled" /\ records'[op].reconciliation = "succeeded"
    BY <1>1, <1>3 DEF Witnessed, EffectInv, AnswersHold
<1>4. CASE records'[op].state = "reconciled" /\ records'[op].reconciliation = "failed"
  <2>1. RuledOut(c) /\ records[op].state = "claimed"
    BY <1>1, <1>4 DEF Witnessed, EffectInv, AnswersHold, RuntimeInv, CallsFit, CallFits, At
  <2>2. \A token \in Issued(op) : token \in Nat /\ token < records[op].token
    BY <2>1 DEF EffectInv, IssuedCovered
  <2>3. \A token \in landed[op] : token \in Issued(op) /\ token >= records[op].token
    BY <1>1, <2>1 DEF EffectInv, LandedOnce, Issued, RuledOut
  <2>4. landed[op] = {}
    BY <1>1, <2>2, <2>3
  <2>5. \A token \in Issued(op) : token < fence[op]
    BY <1>1, <2>1, <2>2 DEF RuledOut
  <2> QED BY <1>4, <2>4, <2>5 DEF IsSuccess
<1> QED BY <1>2, <1>3, <1>4 DEF IsSuccess

LEMMA OutcomesStep ==
    ASSUME RuntimeInv, EffectInv, RuntimeMoved
    PROVE  OutcomesHold'
<1> SUFFICES ASSUME NEW op \in Ops, hasExternalSideEffect(op)
             PROVE  /\ IsSuccess(records'[op]) => landed'[op] # {}
                    /\ records'[op].state = "reconciled" /\ records'[op].reconciliation = "failed"
                        => landed'[op] = {} /\ \A token \in Issued(op)' : token < fence'[op]
    BY DEF OutcomesHold
<1>1. /\ records[op] \in OperationRecord /\ records'[op] \in OperationRecord
      /\ landed[op] \subseteq landed'[op]
      /\ fence[op] \in Nat /\ fence'[op] \in Nat /\ fence'[op] >= fence[op]
      /\ \A token \in Issued(op) : token \in Nat
    BY TokenStep, ProviderStep DEF EffectInv, IssuedCovered
<1>2. Terminal(records'[op]) => Quiet(op)
    BY DispatchStep, DispatchedFields, OneCall
    DEF Terminal, TerminalStates, Dispatches, RuntimeInv
<1>3. CASE Ending(records'[op]) = Ending(records[op])
  <2>1. IsSuccess(records'[op]) => landed'[op] # {}
    BY <1>1, <1>3, EndingFields DEF EffectInv, OutcomesHold
  <2>2. ASSUME records'[op].state = "reconciled", records'[op].reconciliation = "failed"
        PROVE  landed'[op] = {} /\ \A token \in Issued(op)' : token < fence'[op]
    <3>1. Terminal(records'[op]) /\ Terminal(records[op])
      BY <1>1, <1>3, <2>2, EndingFields DEF Terminal, TerminalStates
    <3>2. records[op].state = "reconciled" /\ records[op].reconciliation = "failed"
      BY <2>2, <3>1, EndingStays
    <3>3. landed[op] = {} /\ \A token \in Issued(op) : token < fence[op]
      BY <3>2 DEF EffectInv, OutcomesHold
    <3>4. \A token \in Issued(op)' : token < fence'[op]
      BY <1>1, <1>2, <3>1, <3>3 DEF Quiet
    <3>5. landed'[op] = {}
      BY <1>1, <3>3, ProviderStep DEF Issued
    <3> QED BY <3>4, <3>5
  <2> QED BY <2>1, <2>2
<1>4. ASSUME NEW c \in Calls, Ends(c, op)
      PROVE  /\ IsSuccess(records'[op]) => landed'[op] # {}
             /\ records'[op].state = "reconciled" /\ records'[op].reconciliation = "failed"
                 => landed'[op] = {} /\ \A token \in Issued(op)' : token < fence'[op]
    BY <1>2, <1>4, EndsTruly DEF Ends, providerVars, Quiet
<1>5. HandsOff(op) => records'[op].state = "cancelled"
    BY DEF HandsOff
<1> QED BY <1>3, <1>4, <1>5, EndingStep DEF IsSuccess

LEMMA ToldStep ==
    ASSUME RuntimeInv, EffectInv, RuntimeMoved
    PROVE  ToldHolds'
<1> SUFFICES ASSUME NEW c \in Calls
             PROVE  /\ calls'[c].outcome \in Settled =>
                            Ending(records'[OpOf(c)]) = calls'[c].outcome
                    /\ Terminal(Snap(c)') => Ending(records'[OpOf(c)]) = Ending(Snap(c)')
    BY CallCases DEF ToldHolds
<1>1. /\ TypeOK /\ OpOf(c) \in Ops /\ Snap(c) \in OperationRecord
      /\ records[OpOf(c)] \in OperationRecord
    BY OneCall DEF RuntimeInv
<1>2. /\ calls[c].outcome \in Settled => Ending(records[OpOf(c)]) = calls[c].outcome
      /\ Terminal(Snap(c)) => Ending(records[OpOf(c)]) = Ending(Snap(c))
    BY DEF EffectInv, ToldHolds
<1>3. Ending(records[OpOf(c)]) # "open" =>
            Ending(records'[OpOf(c)]) = Ending(records[OpOf(c)])
    BY <1>1, EndingFields, EndingStays
<1>4. Terminal(Snap(c)') => Ending(records'[OpOf(c)]) = Ending(Snap(c)')
  <2>1. CASE Snap(c)' = Snap(c)
    BY <1>1, <1>2, <1>3, <2>1, EndingFields
  <2>2. CASE Snap(c)' = Absent
    BY <2>2 DEF Absent, Terminal, TerminalStates
  <2>3. CASE Snap(c)' = records'[OpOf(c)]
    BY <2>3
  <2> QED BY <2>1, <2>2, <2>3, SnapshotOrigin
<1>5. calls'[c].outcome \in Settled => Ending(records'[OpOf(c)]) = calls'[c].outcome
  <2> SUFFICES ASSUME calls'[c].outcome \in Settled
               PROVE  Ending(records'[OpOf(c)]) = calls'[c].outcome
    OBVIOUS
  <2>1. CASE KeepsWork(c)
    BY <1>2, <1>3, <2>1 DEF Settled, KeepsWork
  <2>2. CASE CallMoved(c) /\ Quitting(c)
    <3>1. Ending(Snap(c)) = calls'[c].outcome /\ records' = records
      BY <2>2 DEF Quitting, KeepLedger
    <3> QED BY <1>1, <1>2, <3>1, EndingFields
  <2>3. CASE CallMoved(c) /\ Settling(c)
    <3>1. PICK next : Saves(c, next) /\ Terminal(next) /\ Ending(next) = calls'[c].outcome
      BY <2>3 DEF Settling
    <3> QED BY <1>1, <3>1, SavesWrites
  <2> QED BY <2>1, <2>2, <2>3, CallCases
          DEF CallMoved, KindOfStep, Answering, Entering, Looking, Claiming, Revising,
              Dispatching, Settled
<1> QED BY <1>4, <1>5

-----------------------------------------------------------------------------
(***************************************************************************)
(* The invariant holds.                                                    *)
(***************************************************************************)
LEMMA EffectInvInit == Init => EffectInv
<1> SUFFICES ASSUME Init PROVE EffectInv
    OBVIOUS
<1>1. /\ records = [op \in Ops |-> Absent] /\ calls = [c \in Calls |-> IdleCall]
      /\ sent = [op \in Ops |-> {}] /\ landed = [op \in Ops |-> {}]
    BY DEF Init, LedgerInit
<1>2. /\ Absent.state = "absent" /\ Absent.attempts = 0 /\ Absent.result = FALSE
    BY DEF Absent
<1>3. /\ IdleCall.pc = "idle" /\ IdleCall.snap = Absent /\ IdleCall.outcome = "none"
    BY DEF IdleCall
<1>4. \A c \in Calls : OpOf(c) \in Ops
    BY OneCall, RuntimeInvInit DEF RuntimeInv
<1>5. \A op \in Ops : Issued(op) = {}
    BY <1>1, <1>3 DEF Issued, InDispatch
<1>6. IssuedCovered
  <2>1. IsFiniteSet({}) /\ Cardinality({}) = 0
    BY FS_EmptySet
  <2>2. ASSUME NEW op \in Ops
        PROVE  IsFiniteSet(Issued(op)) /\ Cardinality(Issued(op)) <= records[op].attempts
    <3>1. Cardinality(Issued(op)) = 0 /\ records[op].attempts = 0
      BY <1>1, <1>2, <1>5, <2>1
    <3> QED BY <1>5, <2>1, <3>1
  <2> QED BY <1>5, <2>2 DEF IssuedCovered
<1>7. AttemptsFit
  <2> SUFFICES ASSUME NEW op \in Ops
               PROVE  HistoryFits(op, records[op]) /\ records[op].attempts <= 1
    BY DEF AttemptsFit
  <2>1. records[op].attempts = 0 /\ records[op].result = FALSE
    BY <1>1, <1>2
  <2> QED BY <2>1 DEF HistoryFits
<1>8. AnswersHold /\ RetryJustified
    BY <1>1, <1>3 DEF AnswersHold, RetryJustified, At, InDispatch
<1>9. OlderRuledOut /\ LandedOnce
    BY <1>1, <1>5 DEF OlderRuledOut, LandedOnce
<1>10. OutcomesHold
    BY <1>1, <1>2 DEF OutcomesHold, IsSuccess
<1>11. ToldHolds
    BY <1>1, <1>2, <1>3, <1>4 DEF ToldHolds, Settled, Snap, Terminal, TerminalStates
<1> QED BY <1>6, <1>7, <1>8, <1>9, <1>10, <1>11 DEF EffectInv

LEMMA EffectInvStep == RuntimeInv /\ EffectInv /\ RuntimeMoved => EffectInv'
    BY IssuedStep, AttemptsStep, AnswersStep, RetryStep, OlderStep, LandedStep, OutcomesStep,
       ToldStep DEF EffectInv

\* The inductive invariant of requests, effects and outcomes: it holds of the
\* runtime together with RuntimeInv.
THEOREM EffectInvariant == Spec => []EffectInv
<1>1. RuntimeInv /\ EffectInv /\ [Next]_vars => EffectInv'
    BY RuntimeStep, EffectInvStep
<1> QED BY <1>1, EffectInvInit, RuntimeInvariant, PTL DEF Spec

-----------------------------------------------------------------------------
(***************************************************************************)
(* What follows: the effects.                                              *)
(***************************************************************************)
LEMMA SentCovered ==
    ASSUME EffectInv, NEW op \in Ops
    PROVE  /\ IsFiniteSet(sent[op]) /\ Cardinality(sent[op]) \in Nat
           /\ Cardinality(sent[op]) <= Cardinality(Issued(op))
           /\ Cardinality(Issued(op)) \in Nat /\ Cardinality(Issued(op)) <= records[op].attempts
<1>1. IsFiniteSet(Issued(op)) /\ Cardinality(Issued(op)) <= records[op].attempts
    BY DEF EffectInv, IssuedCovered
<1>2. sent[op] \subseteq Issued(op)
    BY DEF Issued
<1> QED BY <1>1, <1>2, FS_Subset, FS_CardinalityType

\* An operation without an attempt has sent nothing.
LEMMA UnattemptedSentNothing ==
    ASSUME EffectInv, NEW op \in Ops, records[op].attempts = 0
    PROVE  sent[op] = {}
<1>1. Cardinality(sent[op]) = 0
    BY SentCovered
<1> QED BY <1>1, SentCovered, FS_EmptySet

\* Write-ahead dispatch (#dispatchAndExecute): what has reached the Provider
\* carries a token the record has issued, and attempts covers all of it.
THEOREM DispatchesAreDurableFirst == Spec => []DispatchIsDurableFirst
<1>1. RuntimeInv /\ EffectInv => DispatchIsDurableFirst
  <2> SUFFICES ASSUME RuntimeInv, EffectInv, NEW op \in Ops
               PROVE  /\ \A token \in sent[op] : token <= records[op].token
                      /\ Cardinality(sent[op]) <= records[op].attempts
    BY DEF DispatchIsDurableFirst
  <2>1. \A token \in sent[op] : token <= records[op].token
    BY DEF EffectInv, IssuedCovered, Issued
  <2>2. records[op].attempts \in Nat
    BY DEF RuntimeInv, TypeOK, LedgerTypeOK, OperationRecord
  <2> QED BY <2>1, <2>2, SentCovered
<1> QED BY <1>1, RuntimeInvariant, EffectInvariant, PTL

\* An effect with neither an operation key nor a query is requested at most
\* once, over all crashes, takeovers, aborts and replays.
THEOREM GuardedIsRequestedOnce == Spec => []GuardedRequestedOnce
<1>1. RuntimeInv /\ EffectInv => GuardedRequestedOnce
  <2> SUFFICES ASSUME RuntimeInv, EffectInv, NEW op \in Ops,
                      ~ usesOperationKey(op), ~ Profile[op].reconcile
               PROVE  Cardinality(sent[op]) <= 1
    BY DEF GuardedRequestedOnce
  <2>1. records[op].attempts <= 1 /\ records[op].attempts \in Nat
    BY DEF EffectInv, AttemptsFit, RuntimeInv, TypeOK, LedgerTypeOK, OperationRecord
  <2> QED BY <2>1, SentCovered
<1> QED BY <1>1, RuntimeInvariant, EffectInvariant, PTL

LEMMA NoneOrOne ==
    ASSUME NEW set, \A a, b \in set : a = b
    PROVE  Cardinality(set) = IF set = {} THEN 0 ELSE 1
<1>1. CASE set = {}
    BY <1>1, FS_EmptySet
<1>2. CASE set # {}
  <2>1. PICK elem \in set : set = {elem}
    BY <1>2
  <2>2. Cardinality({elem}) = 1
    BY FS_Singleton
  <2> QED BY <1>2, <2>1, <2>2
<1> QED BY <1>1, <1>2

\* Given a Provider that keeps its promises, the business effect happens at
\* most once, however many attempts, owners and late requests there are.
THEOREM EffectHappensAtMostOnce == Spec => []EffectAtMostOnce
<1>1. EffectInv => EffectAtMostOnce
  <2> SUFFICES ASSUME EffectInv, NEW op \in Ops
               PROVE  Cardinality(landed[op]) <= 1
    BY DEF EffectAtMostOnce
  <2>1. Cardinality(landed[op]) \in {0, 1}
    BY NoneOrOne DEF EffectInv, LandedOnce
  <2> QED BY <2>1
<1> QED BY <1>1, EffectInvariant, PTL

\* The stored outcome is what happened outside.
THEOREM RecordsTellTheTruth == Spec => []RecordTellsTheTruth
<1>1. RuntimeInv /\ EffectInv => RecordTellsTheTruth
  <2> SUFFICES ASSUME RuntimeInv, EffectInv, NEW op \in Ops, hasExternalSideEffect(op),
                      records[op].state \in
                        {"absent", "proposed", "authorized", "denied", "cancelled", "failed"}
               PROVE  sent[op] = {}
    BY DEF RecordTellsTheTruth, EffectInv, OutcomesHold
  <2>1. records[op].attempts = 0
    BY DEF EffectInv, AttemptsFit, HistoryFits, NeverDispatched
  <2> QED BY <2>1, UnattemptedSentNothing
<1> QED BY <1>1, RuntimeInvariant, EffectInvariant, PTL

\* What a call told its caller is, and stays, what the record says.
THEOREM CallersAreToldTheTruth == Spec => []CallerWasToldTheTruth
<1>1. RuntimeInv /\ EffectInv => CallerWasToldTheTruth
  <2> SUFFICES ASSUME RuntimeInv, EffectInv, NEW c \in Calls, calls[c].outcome \in Settled
               PROVE  LET rec == records[OpOf(c)] IN
                      /\ calls[c].outcome = "succeeded" => IsSuccess(rec)
                      /\ calls[c].outcome = "denied" => rec.state = "denied"
                      /\ calls[c].outcome = "cancelled" => rec.state = "cancelled"
                      /\ calls[c].outcome = "failed" => Terminal(rec) /\ rec.error /\ ~ rec.result
    BY DEF CallerWasToldTheTruth, Settled
  <2> DEFINE rec == records[OpOf(c)]
  <2>1. OpOf(c) \in Ops /\ rec \in OperationRecord /\ Ending(rec) = calls[c].outcome
    BY OneCall DEF RuntimeInv, EffectInv, ToldHolds
  <2>2. WellFormed(rec) /\ HistoryFits(OpOf(c), rec)
    BY <2>1, EndingFields
    DEF RuntimeInv, LedgerInv, RecordsWellFormed, EffectInv, AttemptsFit,
        Exists, Terminal, TerminalStates
  <2>3. Terminal(rec)
    BY <2>1, EndingFields
  <2> HIDE DEF rec
  <2>4. calls[c].outcome = "succeeded" => IsSuccess(rec)
    BY <2>1, EndingFields
  <2>5. calls[c].outcome \in {"denied", "cancelled"} => rec.state = calls[c].outcome
    BY <2>1, <2>3 DEF Ending, Terminal, TerminalStates, OperationRecord
  <2>6. calls[c].outcome = "failed" => rec.error /\ ~ rec.result
    <3> SUFFICES ASSUME Ending(rec) = "failed"
                 PROVE  rec.error /\ ~ rec.result
      BY <2>1
    <3>1. \/ rec.state = "failed"
          \/ rec.state = "reconciled" /\ rec.reconciliation = "failed"
      BY <2>3 DEF Ending, Terminal, TerminalStates
    <3>2. ~ IsSuccess(rec)
      BY <3>1 DEF IsSuccess
    <3> QED BY <2>2, <3>1, <3>2 DEF WellFormed, HistoryFits
  <2> QED BY <2>3, <2>4, <2>5, <2>6 DEF rec
<1> QED BY <1>1, RuntimeInvariant, EffectInvariant, PTL

\* From the durable dispatch there is one way into action.execute.
LEMMA OnlyBeginExecutes ==
    ASSUME RuntimeInv, Next, NEW c \in Calls, At(c, "dispatched"), calls'[c].pc = "executing"
    PROVE  BeginExecute(c)
<1>1. calls \in [Calls -> CallState]
    BY DEF RuntimeInv, TypeOK
<1>2. ASSUME NEW d \in Calls, CallMoved(d)
      PROVE  d = c
    BY <1>2 DEF CallMoved, OnlyCall, At
<1>3. ~ (LedgerStep(c) /\ ~ ExpireAfterDispatch(c))
    BY DEF LedgerStep, At, Deciding, Recovering, BindPrincipal, ReloadForBinding, Authorize,
           CancelBeforeClaim, ReadLease, ClaimOperation, Reload, FirstDispatch,
           CancelRecovery, RecoverWithoutQuery, ResolveReconcile
<1>4. ~ ExpireAfterDispatch(c)
  <2> SUFFICES ASSUME ExpireAfterDispatch(c)
               PROVE  FALSE
    OBVIOUS
  <2>1. \E outcome \in {"idempotency-expired", "busy"} : Return(c, outcome)
    BY DEF ExpireAfterDispatch, SaveAndReturn
  <2>2. {"idempotency-expired", "busy"} \subseteq Outcomes
    BY DEF Outcomes
  <2> QED BY <1>1, <2>1, <2>2, ReturnEffect
<1>5. LedgerFreeStep(c) => BeginExecute(c)
    BY DEF LedgerFreeStep, At, Deciding, Recovering, ReadTerminal, RefuseReconcileOnly,
           YieldLostLease, BeginReconcile
<1>6. ~ ActionStep(c)
    BY DEF ActionStep, At, FinishExecution, FailExecution, AnswerQuery, YieldLostLease
<1>7. CallStep(c) => BeginExecute(c)
    BY <1>3, <1>4, <1>5, <1>6 DEF CallStep, Start, RefuseMaterial, At
<1>8. ~ Abort(c)
    BY <1>1 DEF Abort, At, CallState
<1>9. ~ Interrupt(c)
    BY <1>1, ReturnEffect DEF Interrupt, Outcomes
<1>10. ASSUME NEW d \in Calls, CallStep(d) \/ Abort(d) \/ Interrupt(d)
       PROVE  BeginExecute(c)
    BY <1>2, <1>7, <1>8, <1>9, <1>10, CallStepMoves
<1>11. ASSUME NEW d \in Calls, RenewOnTimer(d)
       PROVE  calls'[c].pc = calls[c].pc
    BY <1>1, <1>11 DEF RenewOnTimer, CallState
<1>12. ASSUME UNCHANGED calls
       PROVE  calls'[c].pc = calls[c].pc
    BY <1>12
<1>13. ASSUME NEW d \in Calls, SendRequest(d)
       PROVE  UNCHANGED calls
    BY <1>13 DEF SendRequest
<1>14. ASSUME NEW op \in Ops, NEW token \in sent[op], LandRequest(op, token)
       PROVE  UNCHANGED calls
    BY <1>14 DEF LandRequest
<1>15. AdvanceClock \/ Finished => UNCHANGED calls
    BY DEF AdvanceClock, Finished, vars
<1> QED BY <1>10, <1>11, <1>12, <1>13, <1>14, <1>15 DEF Next, At

\* Every execution has the evidence it needs, at the moment it begins.
THEOREM ExecutionsHaveEvidence == Spec => ExecutesOnlyOnEvidence
<1> DEFINE Excluded(c) ==
        \A token \in sent[OpOf(c)] : token < Snap(c).token =>
            token < fence[OpOf(c)] /\ token \notin landed[OpOf(c)]
           Evident(c) ==
        At(c, "dispatched") /\ calls'[c].pc = "executing" =>
            /\ invocation[c].mode = "normal"
            /\ ~ idempotencyDeadlinePassed(Snap(c), now)
            /\ Snap(c).attempts > 1 /\ hasExternalSideEffect(OpOf(c)) =>
                IF Profile[OpOf(c)].reconcile THEN Excluded(c) ELSE usesOperationKey(OpOf(c))
<1>1. ASSUME RuntimeInv, EffectInv, Next, NEW c \in Calls
      PROVE  Evident(c)
  <2> SUFFICES ASSUME At(c, "dispatched"), calls'[c].pc = "executing"
               PROVE  /\ invocation[c].mode = "normal"
                      /\ ~ idempotencyDeadlinePassed(Snap(c), now)
                      /\ Snap(c).attempts > 1 =>
                            IF Profile[OpOf(c)].reconcile THEN Excluded(c)
                                                          ELSE usesOperationKey(OpOf(c))
    OBVIOUS
  <2>1. ~ idempotencyDeadlinePassed(Snap(c), now) /\ invocation[c].mode = "normal"
    BY <1>1, OnlyBeginExecutes DEF BeginExecute, RuntimeInv, CallsFit, CallFits, At
  <2>2. ASSUME Snap(c).attempts > 1
        PROVE  IF Profile[OpOf(c)].reconcile THEN RuledOut(c) ELSE usesOperationKey(OpOf(c))
    BY <1>1, <2>2 DEF EffectInv, RetryJustified, InDispatch, At
  <2>3. /\ OpOf(c) \in Ops /\ Snap(c).token \in Nat /\ sent[OpOf(c)] \subseteq Nat
        /\ fence[OpOf(c)] \in Nat
    BY <1>1, OneCall DEF RuntimeInv, TypeOK, OperationRecord
  <2>4. RuledOut(c) => Excluded(c)
    BY <2>3 DEF RuledOut
  <2> QED BY <2>1, <2>2, <2>4
<1>2. RuntimeInv /\ EffectInv /\ [Next]_vars => [\A c \in Calls : Evident(c)]_vars
    BY <1>1
<1> QED BY <1>2, RuntimeInvariant, EffectInvariant, PTL DEF Spec, ExecutesOnlyOnEvidence

-----------------------------------------------------------------------------
(***************************************************************************)
(* The runtime implements SafeAction.                                      *)
(***************************************************************************)

\* The refinement mapping, by name.
OutcomeOf == [op \in Ops |-> Ending(records[op])]
EffectsOf == [op \in Ops |-> Cardinality(landed[op])]
ToldOf == [c \in Calls |-> Answer(calls[c])]
TargetOf == [c \in Calls |-> OpOf(c)]

LEMMA PromisedInit == Init => Promised!Init
<1> SUFFICES ASSUME Init PROVE Promised!Init
    OBVIOUS
<1>1. /\ records = [op \in Ops |-> Absent] /\ calls = [c \in Calls |-> IdleCall]
      /\ landed = [op \in Ops |-> {}]
    BY DEF Init, LedgerInit
<1>2. TargetOf \in [Calls -> Ops]
    BY OneCall, RuntimeInvInit DEF RuntimeInv, TargetOf
<1>3. Ending(Absent) = "open"
    BY DEF Ending, Absent, Terminal, TerminalStates
<1>4. OutcomeOf = [op \in Ops |-> "open"]
    BY <1>1, <1>3 DEF OutcomeOf
<1>5. EffectsOf = [op \in Ops |-> 0]
    BY <1>1, FS_EmptySet DEF EffectsOf
<1>6. Answer(IdleCall) = "waiting"
    BY DEF Answer, IdleCall
<1>7. ToldOf = [c \in Calls |-> "waiting"]
    BY <1>1, <1>6 DEF ToldOf
<1> QED BY <1>2, <1>4, <1>5, <1>7
        DEF Promised!Init, TargetOf, OutcomeOf, EffectsOf, ToldOf

\* A request lands only while its operation is open.
LEMMA LandsWhileOpen ==
    ASSUME RuntimeInv, EffectInv, RuntimeMoved, NEW op \in Ops, landed'[op] # landed[op]
    PROVE  /\ hasExternalSideEffect(op) /\ Ending(records[op]) = "open"
           /\ landed[op] = {} /\ landed'[op] # {}
           /\ UNCHANGED <<records, calls>>
<1>1. PICK token \in landed'[op] : token \notin landed[op]
    BY ProviderStep
<1>2. /\ token \in sent[op] /\ token >= fence[op] /\ UNCHANGED <<records, calls>>
      /\ token \in Nat /\ fence[op] \in Nat /\ records[op] \in OperationRecord
    BY <1>1, ProviderStep, TokenStep DEF RuntimeInv, TypeOK
<1>3. hasExternalSideEffect(op)
    BY <1>2 DEF EffectInv, LandedOnce
<1>4. landed[op] = {}
    BY <1>1, LandedStep, ProviderStep DEF LandedOnce
<1>5. records[op].attempts # 0
    BY <1>2, UnattemptedSentNothing
<1>6. /\ records[op].state \notin {"denied", "cancelled", "failed"}
      /\ ~ IsSuccess(records[op])
    BY <1>3, <1>4, <1>5
    DEF EffectInv, AttemptsFit, HistoryFits, NeverDispatched, OutcomesHold
<1>7. ~ (records[op].state = "reconciled" /\ records[op].reconciliation = "failed")
    BY <1>2, <1>3 DEF EffectInv, OutcomesHold, Issued
<1>8. records[op].state = "reconciled" => records[op].reconciliation # "none"
    BY DEF RuntimeInv, LedgerInv, RecordsWellFormed, Exists, WellFormed
<1>9. ~ Terminal(records[op])
    BY <1>2, <1>6, <1>7, <1>8 DEF Terminal, TerminalStates, IsSuccess, OperationRecord
<1> QED BY <1>1, <1>2, <1>3, <1>4, <1>9 DEF Ending, Terminal, TerminalStates

LEMMA LandsAlone ==
    ASSUME RuntimeInv, RuntimeMoved, NEW op \in Ops, landed'[op] # landed[op]
    PROVE  landed' = [landed EXCEPT ![op] = landed'[op]]
<1>1. landed \in [Ops -> SUBSET Nat]
    BY DEF RuntimeInv, TypeOK
<1>2. ASSUME NEW c \in Calls, CallMoved(c)
      PROVE  landed' = landed
    BY <1>2 DEF CallMoved, Answering, providerVars
<1>3. ASSUME \/ Aborting \/ Passing \/ \E o \in Ops : HandingOff(o)
             \/ \E c \in Calls : Renewing(c) \/ SendRequest(c)
      PROVE  landed' = landed
    BY <1>3 DEF Aborting, Passing, HandingOff, Renewing, SendRequest, providerVars
<1>4. ASSUME NEW o \in Ops, NEW token \in sent[o], LandRequest(o, token)
      PROVE  landed' = [landed EXCEPT ![op] = landed'[op]]
  <2>1. landed' = [landed EXCEPT ![o] = landed[o] \cup {token}]
    BY <1>4 DEF LandRequest
  <2>2. o = op
    BY <1>1, <2>1
  <2> QED BY <1>1, <2>1, <2>2
<1> QED BY <1>2, <1>3, <1>4 DEF RuntimeMoved

LEMMA LandingTakesEffect ==
    ASSUME RuntimeInv, EffectInv, RuntimeMoved, NEW op \in Ops, landed'[op] # landed[op]
    PROVE  Promised!TakeEffect(op)
<1>1. /\ hasExternalSideEffect(op) /\ Ending(records[op]) = "open"
      /\ landed[op] = {} /\ landed'[op] # {}
      /\ UNCHANGED <<records, calls>>
      /\ landed' = [landed EXCEPT ![op] = landed'[op]] /\ landed \in [Ops -> SUBSET Nat]
    BY LandsWhileOpen, LandsAlone DEF RuntimeInv, TypeOK
<1>2. EffectsOf[op] = 0 /\ Cardinality(landed'[op]) = 1
  <2>1. \A a, b \in landed'[op] : a = b
    BY LandedStep DEF LandedOnce
  <2>2. Cardinality(landed'[op]) = 1
    BY <1>1, <2>1, NoneOrOne
  <2> QED BY <1>1, <2>2, FS_EmptySet DEF EffectsOf
<1>3. EffectsOf' = [EffectsOf EXCEPT ![op] = 1]
    BY <1>1, <1>2 DEF EffectsOf
<1>4. OutcomeOf[op] = "open" /\ UNCHANGED <<TargetOf, OutcomeOf, ToldOf>>
    BY <1>1, CallCases DEF OutcomeOf, TargetOf, ToldOf
<1> QED BY <1>1, <1>2, <1>3, <1>4
        DEF Promised!TakeEffect, TargetOf, OutcomeOf, EffectsOf, ToldOf

\* A call that moves has not returned before, and only it is told something.
LEMMA MovedWasWaiting ==
    ASSUME RuntimeInv, NEW c \in Calls, CallMoved(c)
    PROVE  /\ calls[c].outcome = "none"
           /\ \A d \in Calls \ {c} : calls'[d] = calls[d]
<1>1. ~ At(c, "done")
    BY DEF RuntimeInv, CallsFit, CallFits, WithoutSnapshot, CallMoved, KindOfStep, Answering,
           Entering, Looking, Quitting, Claiming, Revising, Dispatching, Settling, At, Active,
           Exists
<1> QED BY <1>1, OthersKept DEF RuntimeInv, CallsFit, CallFits

\* What a settled record says agrees with the effect.
LEMMA EndingAgrees ==
    ASSUME NEW op \in Ops, NEW rec \in OperationRecord, Terminal(rec), WellFormed(rec),
           HistoryFits(op, rec), hasExternalSideEffect(op), NEW landings,
           IsSuccess(rec) => landings # {},
           rec.state = "reconciled" /\ rec.reconciliation = "failed" => landings = {},
           rec.attempts = 0 => landings = {}
    PROVE  landings # {} <=> Ending(rec) = "succeeded"
<1>1. \/ IsSuccess(rec)
      \/ rec.state \in {"denied", "cancelled", "failed"}
      \/ rec.state = "reconciled" /\ rec.reconciliation = "failed"
    BY DEF Terminal, TerminalStates, WellFormed, IsSuccess, OperationRecord
<1>2. CASE IsSuccess(rec)
    BY <1>2, EndingFields
<1>3. CASE rec.state \in {"denied", "cancelled", "failed"}
  <2>1. ~ IsSuccess(rec) /\ rec.attempts = 0
    BY <1>3 DEF IsSuccess, HistoryFits, NeverDispatched
  <2> QED BY <2>1, EndingFields
<1>4. CASE rec.state = "reconciled" /\ rec.reconciliation = "failed"
    BY <1>4, EndingFields DEF IsSuccess
<1> QED BY <1>1, <1>2, <1>3, <1>4

LEMMA EndingIsSettled ==
    ASSUME NEW rec \in OperationRecord, Terminal(rec), WellFormed(rec)
    PROVE  Ending(rec) \in Settled
    BY DEF Ending, Terminal, TerminalStates, WellFormed, OperationRecord, Settled

\* A write that ends an operation is the end of its promise, told to the caller.
LEMMA EndsPromise ==
    ASSUME RuntimeInv, EffectInv, RuntimeMoved, NEW op \in Ops, NEW c \in Calls, Ends(c, op),
           Ending(records'[op]) # Ending(records[op])
    PROVE  Promised!End(op, Ending(records'[op])) /\ Ending(records'[op]) \in Settled
<1> DEFINE ending == Ending(records'[op])
<1>1. /\ OpOf(c) = op /\ CallMoved(c) /\ UNCHANGED <<sent, landed, fence>>
      /\ Terminal(records'[op]) /\ calls'[c].outcome = ending
      /\ records \in [Ops -> OperationRecord] /\ records' \in [Ops -> OperationRecord]
      /\ calls \in [Calls -> CallState] /\ calls' \in [Calls -> CallState]
    BY RuntimeTypeStep
    DEF Ends, providerVars, RuntimeInv, TypeOK, LedgerTypeOK
<1>2. Ending(records[op]) = "open"
    BY EndingStays, EndingFields DEF RuntimeInv, TypeOK, LedgerTypeOK
<1>3. /\ calls[c].outcome = "none"
      /\ \A d \in Calls \ {c} : calls'[d] = calls[d]
      /\ \A o \in Ops \ {op} : records'[o] = records[o]
    BY <1>1, MovedWasWaiting, OthersKept
<1>4. /\ ending \in Settled
      /\ hasExternalSideEffect(op) => (landed[op] # {} <=> ending = "succeeded")
  <2>1. WellFormed(records'[op]) /\ HistoryFits(op, records'[op])
    BY <1>1, LedgerInvStep, HistoryStep
    DEF LedgerInv, RecordsWellFormed, Exists, Terminal, TerminalStates
  <2>2. records'[op].attempts = records[op].attempts
    BY <1>1, AttemptsKept, DispatchingDispatches, DispatchedFields, OneCall
    DEF Dispatches, Terminal, TerminalStates, RuntimeInv
  <2>3. records'[op].attempts = 0 => landed[op] = {}
    BY <2>2, UnattemptedSentNothing DEF EffectInv, LandedOnce
  <2>4. hasExternalSideEffect(op) => (landed[op] # {} <=> ending = "succeeded")
    BY <1>1, <2>1, <2>3, EndsTruly, EndingAgrees
  <2> QED BY <1>1, <2>1, <2>4, EndingIsSettled
<1>5. OutcomeOf' = [OutcomeOf EXCEPT ![op] = ending]
    BY <1>1, <1>3 DEF OutcomeOf
<1>6. Answer(calls[c]) = "waiting" /\ Answer(calls'[c]) = ending
    BY <1>1, <1>3, <1>4 DEF Answer, Settled
<1>7. ToldOf' = [ToldOf EXCEPT ![c] = ending]
    BY <1>1, <1>3, <1>6 DEF ToldOf
<1>8. UNCHANGED <<TargetOf, EffectsOf>>
    BY <1>1, CallCases DEF TargetOf, EffectsOf
<1>9. hasExternalSideEffect(op) =>
        EffectsOf[op] = IF ending = "succeeded" THEN 1 ELSE 0
    BY <1>4, NoneOrOne DEF EffectsOf, EffectInv, LandedOnce
<1> HIDE DEF ending
<1>10. Promised!End(op, ending)
    BY <1>1, <1>2, <1>5, <1>6, <1>7, <1>8, <1>9
    DEF Promised!End, Promised!AgreesWithEffect, TargetOf, OutcomeOf, EffectsOf, ToldOf
<1> QED BY <1>4, <1>10 DEF ending

\* A call that returns without ending its operation is told how it stands.
LEMMA ReturnTells ==
    ASSUME RuntimeInv, EffectInv, RuntimeMoved, NEW c \in Calls, CallMoved(c),
           UNCHANGED <<TargetOf, OutcomeOf, EffectsOf>>
    PROVE  UNCHANGED ToldOf \/ Promised!Tell(c)
<1>1. /\ calls[c].outcome = "none"
      /\ \A d \in Calls \ {c} : calls'[d] = calls[d]
      /\ OpOf(c) \in Ops /\ calls'[c].outcome \in Outcomes \cup {"none"}
    BY MovedWasWaiting, OneCall, RuntimeTypeStep DEF RuntimeInv, TypeOK, CallState
<1>2. ToldOf[c] = "waiting" /\ ToldOf' = [ToldOf EXCEPT ![c] = Answer(calls'[c])]
    BY <1>1 DEF ToldOf, Answer
<1>3. CASE calls'[c].outcome = "none"
  <2>1. Answer(calls'[c]) = "waiting"
    BY <1>3 DEF Answer
  <2> QED BY <1>2, <2>1 DEF ToldOf
<1>4. CASE calls'[c].outcome \in Settled
  <2>1. OpOf(c)' = OpOf(c) /\ Ending(records'[OpOf(c)]) = calls'[c].outcome
    BY <1>4, ToldStep, CallCases DEF ToldHolds
  <2>2. Answer(calls'[c]) = calls'[c].outcome
    BY <1>4 DEF Answer, Settled
  <2>3. OutcomeOf'[OpOf(c)] = Ending(records'[OpOf(c)])
    BY <1>1 DEF OutcomeOf
  <2>4. OutcomeOf[TargetOf[c]] = Answer(calls'[c]) /\ Answer(calls'[c]) # "open"
    BY <1>4, <2>1, <2>2, <2>3 DEF TargetOf, Settled
  <2> QED BY <1>2, <2>4 DEF Promised!Tell, ToldOf, TargetOf, OutcomeOf, EffectsOf
<1>5. CASE calls'[c].outcome \notin Settled \cup {"none"}
  <2>1. Answer(calls'[c]) = "unsettled"
    BY <1>5 DEF Answer, Settled
  <2> QED BY <1>2, <2>1 DEF Promised!Tell, ToldOf, TargetOf, OutcomeOf, EffectsOf
<1> QED BY <1>3, <1>4, <1>5

\* A handoff that cancels an operation ends its promise, and tells nobody.
LEMMA HandoffPromise ==
    ASSUME RuntimeInv, EffectInv, RuntimeMoved, NEW op \in Ops, HandsOff(op)
    PROVE  Promised!End(op, "cancelled")
<1>1. /\ records \in [Ops -> OperationRecord] /\ records' \in [Ops -> OperationRecord]
      /\ UNCHANGED <<calls, landed>>
    BY RuntimeTypeStep DEF HandsOff, HandingOff, providerVars, RuntimeInv, TypeOK, LedgerTypeOK
<1>2. Ending(records[op]) = "open" /\ Ending(records'[op]) = "cancelled"
    BY DEF HandsOff, Ending, Terminal, TerminalStates
<1>3. \A o \in Ops \ {op} : records'[o] = records[o]
    BY HandoffRecord DEF HandsOff
<1>4. hasExternalSideEffect(op) => landed[op] = {}
  <2>1. HistoryFits(op, records'[op]) /\ records'[op].attempts = records[op].attempts
    BY HistoryStep, HandoffRecord DEF HandsOff
  <2>2. hasExternalSideEffect(op) => records[op].attempts = 0
    BY <2>1 DEF HandsOff, HistoryFits
  <2> QED BY <2>2, UnattemptedSentNothing DEF EffectInv, LandedOnce
<1>5. OutcomeOf' = [OutcomeOf EXCEPT ![op] = "cancelled"] /\ OutcomeOf[op] = "open"
  <2>1. \A o \in Ops : Ending(records'[o]) = IF o = op THEN "cancelled" ELSE Ending(records[o])
    BY <1>2, <1>3
  <2>2. OutcomeOf' = [o \in Ops |-> Ending(records'[o])]
    BY DEF OutcomeOf
  <2> QED BY <1>2, <2>1, <2>2 DEF OutcomeOf
<1>6. UNCHANGED <<TargetOf, EffectsOf, ToldOf>>
    BY <1>1, CallCases DEF TargetOf, EffectsOf, ToldOf
<1>7. hasExternalSideEffect(op) => EffectsOf[op] = 0
    BY <1>4, FS_EmptySet DEF EffectsOf
<1> QED BY <1>5, <1>6, <1>7
        DEF Promised!End, Promised!AgreesWithEffect, TargetOf, OutcomeOf, EffectsOf, ToldOf

LEMMA PromisedStep ==
    RuntimeInv /\ EffectInv /\ RuntimeMoved => [Promised!Next]_(Promised!vars)
<1> SUFFICES ASSUME RuntimeInv, EffectInv, RuntimeMoved
             PROVE  [Promised!Next]_(Promised!vars)
    OBVIOUS
<1>1. CASE \E op \in Ops : landed'[op] # landed[op]
    BY <1>1, LandingTakesEffect DEF Promised!Next
<1>2. CASE \E op \in Ops : Ending(records'[op]) # Ending(records[op])
  <2>1. PICK op \in Ops : Ending(records'[op]) # Ending(records[op])
    BY <1>2
  <2>2. ASSUME NEW c \in Calls, Ends(c, op)
        PROVE  /\ Ending(records'[op]) \in Promised!Endings
               /\ Promised!End(op, Ending(records'[op]))
    BY <2>1, <2>2, EndsPromise DEF Promised!Endings, Settled
  <2>3. HandsOff(op) => Promised!End(op, "cancelled") /\ "cancelled" \in Promised!Endings
    BY HandoffPromise DEF Promised!Endings
  <2> QED BY <2>1, <2>2, <2>3, EndingStep DEF Promised!Next
<1>3. CASE /\ \A op \in Ops : landed'[op] = landed[op]
           /\ \A op \in Ops : Ending(records'[op]) = Ending(records[op])
  <2>1. UNCHANGED <<TargetOf, OutcomeOf, EffectsOf>>
    BY <1>3, CallCases DEF TargetOf, OutcomeOf, EffectsOf
  <2>2. CASE \E c \in Calls : CallMoved(c)
    BY <2>1, <2>2, ReturnTells
    DEF Promised!Next, Promised!vars, TargetOf, OutcomeOf, EffectsOf, ToldOf
  <2>3. CASE \A c \in Calls : KeepsWork(c)
    <3>1. UNCHANGED ToldOf
      BY <2>3 DEF ToldOf, KeepsWork, Answer
    <3> QED BY <2>1, <3>1 DEF Promised!vars, TargetOf, OutcomeOf, EffectsOf, ToldOf
  <2> QED BY <2>2, <2>3, CallCases
<1> QED BY <1>1, <1>2, <1>3

\* The runtime implements the promise of SafeAction, step by step: a landing
\* request is the effect, the write of a terminal record is the ending, and
\* every return tells the caller how its operation stands.
THEOREM RuntimeKeepsItsPromise == Spec => ImplementsSafeAction
<1>1. RuntimeInv /\ EffectInv /\ [Next]_vars => [Promised!Next]_(Promised!vars)
    BY RuntimeStep, PromisedStep
<1> QED BY <1>1, PromisedInit, RuntimeInvariant, EffectInvariant, PTL
        DEF Spec, ImplementsSafeAction, Promised!Spec
=============================================================================
