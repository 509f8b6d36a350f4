------------------------ MODULE RuntimeLifecycle_proofs ------------------------
(***************************************************************************)
(* dispose() beside the calls, for every number of runtimes, calls and     *)
(* disposals.  Its steps are two kinds that RuntimeMoved already counts    *)
(* with, so whatever the runtime keeps, it keeps while it is disposed of;  *)
(* what is added here is the order in which dispose() closes one door      *)
(* after the other: no call starts once it has begun, none dispatches once *)
(* it has drained, and none keeps its lease once it has handed off.        *)
(***************************************************************************)
EXTENDS RuntimeLifecycle, OperationRuntime_proofs

-----------------------------------------------------------------------------
(***************************************************************************)
(* The invariant.                                                          *)
(***************************************************************************)
LifecycleTypes ==
    /\ lifecycle \in [Runtimes -> RuntimeLifecycleState]
    /\ handle \in [Runtimes -> Handles]
    /\ disposals \in [Disposals -> DisposalState]

\* The record a handoff is about to write over was a revision with work in it.
HandoffReads(d) ==
    LET read == disposals[d].read
        rec == records[OpOf(disposals[d].entry)] IN
    /\ disposals[d].entry \in disposals[d].entries
    /\ NeedsHandoff(read) /\ Exists(rec)
    /\ read.rev <= rec.rev
    /\ read.rev = rec.rev => read = rec

HandoffsFit == \A d \in Disposals : DisposalAt(d, "writing") => HandoffReads(d)

PastDrain == {"aborting", "handoff", "writing", "closing"}
AllAborted(r) == \A c \in Entries(r) : calls[c].aborted

\* A disposal that has begun keeps new calls out; one that has drained has
\* told those left to stop, and so has whoever closed the runtime.
Drained ==
    /\ \A d \in Disposals : ~ DisposalAt(d, "idle") => lifecycle[DisposedRuntime[d]] # "accepting"
    /\ \A d \in Disposals : disposals[d].pc \in PastDrain => AllAborted(DisposedRuntime[d])
    /\ \A r \in Runtimes : lifecycle[r] \in {"closing", "closed"} => AllAborted(r)

\* A call in dispatch holds a token, and the lease may still be under it.
TokensIssued == \A c \in Calls : calls[c].pc \in InDispatch => Snap(c).token > 0
LetGo(c) == calls[c].pc \in InDispatch => leases[OpOf(c)].token # Snap(c).token

\* While the handoffs run: every call in flight is still to be handed off, was
\* given up, or does not hold its operation any more.
HandoffsHold ==
    \A d \in Disposals : disposals[d].pc \in {"handoff", "writing"} =>
        \A c \in Entries(DisposedRuntime[d]) :
            c \in disposals[d].entries \/ c \in disposals[d].lost \/ LetGo(c)

LifecycleInv ==
    /\ RuntimeInv /\ EffectInv
    /\ LifecycleTypes /\ HandoffsFit /\ Drained /\ TokensIssued /\ HandoffsHold

-----------------------------------------------------------------------------
(***************************************************************************)
(* Every step is one the runtime's proofs know.                            *)
(***************************************************************************)
LEMMA OneDisposal ==
    ASSUME LifecycleTypes, NEW d \in Disposals
    PROVE  /\ DisposedRuntime[d] \in Runtimes
           /\ disposals[d].entries \subseteq Calls /\ disposals[d].lost \subseteq Calls
           /\ disposals[d].read \in OperationRecord
    BY DisposalAssumption DEF LifecycleTypes, DisposalState

\* The write of a handoff that gets through is over the record it was read of.
LEMMA HandoffWrites ==
    ASSUME RuntimeInv, LifecycleTypes, HandoffsFit, NEW d \in Disposals, WriteHandoff(d)
    PROVE  /\ OpOf(disposals[d].entry) \in Ops
           /\ HandingOff(OpOf(disposals[d].entry)) \/ KeepLedger
           /\ UNCHANGED <<now, invocation, calls, providerVars, lifecycle, handle>>
<1> DEFINE op == OpOf(disposals[d].entry)
           read == disposals[d].read
           next == HandedOff(read)
<1>1. /\ HandoffReads(d) /\ disposals[d].entry \in Calls /\ read \in OperationRecord
    BY OneDisposal DEF WriteHandoff, HandoffsFit, HandoffReads
<1>2. op \in Ops
    BY <1>1, OneCall DEF RuntimeInv
<1>3. /\ UNCHANGED <<now, invocation, calls, providerVars, lifecycle, handle>>
      /\ \/ CasAccepts(op, read.rev, next) /\ CompareAndSet(op, next)
         \/ KeepLedger
    BY DEF WriteHandoff
<1>4. ASSUME CasAccepts(op, read.rev, next), CompareAndSet(op, next)
      PROVE  HandingOff(op)
  <2>1. records[op] = read
    BY <1>1, <1>4 DEF CasAccepts, HandoffReads
  <2>2. next \in CancelSuccessors(read) \cup UncertainSuccessors(read)
    BY <1>1 DEF HandoffReads, NeedsHandoff, HandedOff, CancelSuccessors, UncertainSuccessors
  <2> QED BY <1>3, <1>4, <2>1, <2>2 DEF HandingOff
<1> QED BY <1>2, <1>3, <1>4

LEMMA AbortMoves ==
    ASSUME RuntimeInv, NEW d \in Disposals, AbortTheRest(d)
    PROVE  Aborting
<1> DEFINE r == DisposedRuntime[d]
<1>1. calls \in [Calls -> CallState]
    BY DEF RuntimeInv, TypeOK
<1>2. ASSUME NEW c \in Calls
      PROVE  calls'[c] \in CallState /\ KeepsWork(c)
  <2> DEFINE call == [calls[c] EXCEPT !.aborted = TRUE]
  <2>1. /\ call \in CallState /\ call.pc = calls[c].pc /\ call.snap = calls[c].snap
        /\ call.answer = calls[c].answer /\ call.outcome = calls[c].outcome
    BY <1>1 DEF CallState
  <2>2. calls'[c] \in {call, calls[c]}
    BY DEF AbortTheRest
  <2> HIDE DEF call
  <2> QED BY <1>1, <2>1, <2>2 DEF KeepsWork, Snap
<1>3. calls' \in [Calls -> CallState]
    BY <1>2 DEF AbortTheRest
<1> QED BY <1>2, <1>3 DEF AbortTheRest, Aborting

LEMMA CallProgressMoves ==
    ASSUME RuntimeInv, NEW c \in Calls, CallProgress(c) \/ ActionProgress(c)
    PROVE  CallMoved(c)
<1>1. CASE StartAccepted(c) \/ LedgerFreeStep(c) \/ RefuseMaterial(c) \/ LedgerStep(c)
    BY <1>1, CallStepMoves DEF StartAccepted, CallStep
<1>2. CASE \/ MeetClosedLedger(c) \/ ActionStep(c) \/ Interrupt(c)
           \/ YieldLostLease(c, "executing")
    BY <1>2, CallStepMoves DEF MeetClosedLedger, CallStep, ActionStep
<1>3. CASE RejectStart(c)
  <2>1. TypeOK /\ ~ At(c, "done") /\ "not-accepting" \in Outcomes \ Settled
    BY <1>3 DEF RuntimeInv, RejectStart, At, Outcomes, Settled
  <2> QED BY <1>3, <2>1, QuitMoves DEF RejectStart, CallMoved
<1> QED BY <1>1, <1>2, <1>3 DEF CallProgress, ActionProgress

LEMMA LifecycleStep ==
    ASSUME RuntimeInv, LifecycleTypes, HandoffsFit, [LifecycleNext]_lifecycleVars
    PROVE  RuntimeMoved
<1>1. UNCHANGED vars => RuntimeMoved
    BY DEF vars, providerVars, ledgerVars, Passing, RuntimeMoved
<1>2. ASSUME NEW c \in Calls, CallProgress(c) \/ ActionProgress(c)
      PROVE  RuntimeMoved
    BY <1>2, CallProgressMoves DEF RuntimeMoved
<1>3. ASSUME NEW d \in Disposals, Quiesce(d) \/ StartDraining(d) \/ StartHandoffs(d)
                                  \/ ReadForHandoff(d) \/ CloseLedger(d) \/ FinishDisposal(d)
      PROVE  UNCHANGED vars
    BY <1>3 DEF Quiesce, StartDraining, StartHandoffs, ReadForHandoff, CloseLedger, FinishDisposal
<1>4. ASSUME NEW d \in Disposals, AbortTheRest(d)
      PROVE  RuntimeMoved
    BY <1>4, AbortMoves DEF RuntimeMoved
<1>5. ASSUME NEW d \in Disposals, WriteHandoff(d)
      PROVE  RuntimeMoved
    BY <1>1, <1>5, HandoffWrites DEF RuntimeMoved, KeepLedger, providerVars, vars
<1>6. CASE Environment
  <2>1. Next
    BY <1>6 DEF Environment, Renewal, Next
  <2> QED BY <2>1, RuntimeStep
<1>7. UNCHANGED lifecycleVars => UNCHANGED vars
    BY DEF lifecycleVars
<1> QED BY <1>1, <1>2, <1>3, <1>4, <1>5, <1>6, <1>7 DEF LifecycleNext, DisposalProgress

-----------------------------------------------------------------------------
(***************************************************************************)
(* A step of dispose(), seen from its local state.                         *)
(***************************************************************************)
OnlyDisposal(d) ==
    /\ disposals' \in [Disposals -> DisposalState]
    /\ \A e \in Disposals : e # d => disposals'[e] = disposals[e]

\* One field, or several, of one disposal.
LEMMA PcChange ==
    ASSUME LifecycleTypes, NEW d \in Disposals,
           NEW pc \in {"quiesced", "done", "draining", "aborting", "handoff", "closing"},
           disposals' = [disposals EXCEPT ![d].pc = pc]
    PROVE  /\ OnlyDisposal(d)
           /\ disposals'[d].pc = pc
           /\ disposals'[d].entries = disposals[d].entries
           /\ disposals'[d].lost = disposals[d].lost
    BY DEF LifecycleTypes, OnlyDisposal, DisposalState

LEMMA EntryDropped ==
    ASSUME LifecycleTypes, NEW d \in Disposals, NEW c \in Calls,
           NextEntry(d, c) \/ GiveUpEntry(d, c)
    PROVE  /\ OnlyDisposal(d)
           /\ disposals'[d].pc = "handoff"
           /\ disposals'[d].entries = disposals[d].entries \ {c}
           /\ disposals'[d].lost \in {disposals[d].lost, disposals[d].lost \cup {c}}
           /\ GiveUpEntry(d, c) => c \in disposals'[d].lost
    BY AbsentType DEF LifecycleTypes, OnlyDisposal, DisposalState, NextEntry, GiveUpEntry

LEMMA EntriesTaken ==
    ASSUME LifecycleTypes, NEW d \in Disposals, StartHandoffs(d)
    PROVE  /\ OnlyDisposal(d)
           /\ disposals'[d].pc = "handoff"
           /\ disposals'[d].entries = Entries(DisposedRuntime[d])
<1>1. Entries(DisposedRuntime[d]) \subseteq Calls
    BY DEF Entries
<1> QED BY ZenonT(30), <1>1 DEF LifecycleTypes, OnlyDisposal, DisposalState, StartHandoffs

\* Three ways in which the read of a handoff ends.
ReadsWork(d, c) ==
    /\ disposals'[d].pc = "writing" /\ disposals'[d].entry = c
    /\ disposals'[d].read = records[OpOf(c)] /\ NeedsHandoff(records[OpOf(c)])
    /\ disposals'[d].entries = disposals[d].entries
    /\ disposals'[d].lost = disposals[d].lost

LEMMA ReadCases ==
    ASSUME RuntimeInv, LifecycleTypes, NEW d \in Disposals, ReadForHandoff(d)
    PROVE  /\ OnlyDisposal(d)
           /\ \E c \in disposals[d].entries :
                \/ ReadsWork(d, c)
                \/ GiveUpEntry(d, c)
                \/ NextEntry(d, c) /\ ~ (Registered(c) /\ NeedsHandoff(records[OpOf(c)]))
<1>1. PICK c \in disposals[d].entries :
            IF ~ Registered(c)
            THEN NextEntry(d, c)
            ELSE \/ GiveUpEntry(d, c)
                 \/ /\ LedgerIsOpen(DisposedRuntime[d])
                    /\ IF NeedsHandoff(records[OpOf(c)])
                       THEN disposals' = [disposals EXCEPT ![d].pc = "writing", ![d].entry = c,
                                                           ![d].read = records[OpOf(c)]]
                       ELSE NextEntry(d, c)
    BY DEF ReadForHandoff
<1>2. c \in Calls /\ records[OpOf(c)] \in OperationRecord
    BY OneDisposal, OneCall DEF RuntimeInv
<1>3. CASE \/ GiveUpEntry(d, c)
           \/ NextEntry(d, c) /\ ~ (Registered(c) /\ NeedsHandoff(records[OpOf(c)]))
  <2>1. OnlyDisposal(d)
    BY <1>2, <1>3, EntryDropped
  <2> QED BY <1>3, <2>1
<1>4. CASE /\ NeedsHandoff(records[OpOf(c)])
           /\ disposals' = [disposals EXCEPT ![d].pc = "writing", ![d].entry = c,
                                             ![d].read = records[OpOf(c)]]
  <2> DEFINE rec == records[OpOf(c)]
             disposal == [disposals[d] EXCEPT !.pc = "writing", !.entry = c, !.read = rec]
  <2>1. /\ disposal \in DisposalState
        /\ disposal.pc = "writing" /\ disposal.entry = c /\ disposal.read = rec
        /\ disposal.entries = disposals[d].entries /\ disposal.lost = disposals[d].lost
    BY <1>2 DEF LifecycleTypes, DisposalState
  <2>2. disposals' = [disposals EXCEPT ![d] = disposal]
    BY <1>4 DEF LifecycleTypes
  <2> HIDE DEF disposal
  <2>3. disposals'[d] = disposal /\ OnlyDisposal(d)
    BY <2>1, <2>2 DEF LifecycleTypes, OnlyDisposal
  <2>4. ReadsWork(d, c)
    BY <1>4, <2>1, <2>3 DEF ReadsWork
  <2> QED BY <2>3, <2>4
<1> QED BY <1>1, <1>3, <1>4

LEMMA WriteEnds ==
    ASSUME RuntimeInv, LifecycleTypes, HandoffsFit, NEW d \in Disposals, WriteHandoff(d)
    PROVE  LET c == disposals[d].entry IN
           /\ c \in Calls /\ OnlyDisposal(d)
           /\ \/ GiveUpEntry(d, c)
              \/ NextEntry(d, c) /\ leases'[OpOf(c)] = NoLease
<1> DEFINE c == disposals[d].entry
           next == HandedOff(disposals[d].read)
<1>1. /\ c \in Calls /\ HandoffReads(d) /\ disposals[d].read \in OperationRecord
    BY OneDisposal DEF WriteHandoff, HandoffsFit, HandoffReads
<1>2. CASE GiveUpEntry(d, c)
    BY <1>1, <1>2, EntryDropped
<1>3. CASE CompareAndSet(OpOf(c), next) /\ NextEntry(d, c)
  <2>1. ~ HasClaim(next)
    <3>1. next.claim = NoClaim
      BY <1>1 DEF HandedOff, CancelledRecord, UncertainRecord, Revised, OperationRecord
    <3> QED BY <3>1 DEF HasClaim
  <2>2. OpOf(c) \in Ops /\ leases \in [Ops -> LiveLease]
    BY <1>1, OneCall DEF RuntimeInv, TypeOK, LedgerTypeOK
  <2>3. leases'[OpOf(c)] = NoLease
    BY <1>3, <2>1, <2>2 DEF CompareAndSet
  <2> QED BY <1>1, <1>3, <2>3, EntryDropped
<1> QED BY <1>2, <1>3 DEF WriteHandoff

-----------------------------------------------------------------------------
(***************************************************************************)
(* Types, and what a handoff has read.                                     *)
(***************************************************************************)
LEMMA LifecycleTypesStep ==
    ASSUME RuntimeInv, LifecycleTypes, HandoffsFit, [LifecycleNext]_lifecycleVars
    PROVE  LifecycleTypes'
<1>1. {"accepting", "quiescing", "draining", "closing", "closed"} \subseteq RuntimeLifecycleState
  <2>1. \A i \in 1..5 : Phases[i] \in RuntimeLifecycleState
    BY DEF RuntimeLifecycleState
  <2> QED BY <2>1 DEF Phases
<1>2. ASSUME UNCHANGED <<lifecycle, handle, disposals>>
      PROVE  LifecycleTypes'
    BY <1>2 DEF LifecycleTypes
<1>3. ASSUME NEW d \in Disposals, Quiesce(d) \/ StartDraining(d) \/ AbortTheRest(d)
      PROVE  LifecycleTypes'
    BY <1>1, <1>3, PcChange, OneDisposal
    DEF LifecycleTypes, OnlyDisposal, Quiesce, StartDraining, AbortTheRest
<1>4. ASSUME NEW d \in Disposals, CloseLedger(d) \/ FinishDisposal(d)
      PROVE  LifecycleTypes'
    BY <1>1, <1>4, PcChange, OneDisposal
    DEF LifecycleTypes, OnlyDisposal, CloseLedger, FinishDisposal, Handles
<1>5. ASSUME NEW d \in Disposals, StartHandoffs(d) \/ ReadForHandoff(d) \/ WriteHandoff(d)
      PROVE  LifecycleTypes'
  <2>1. OnlyDisposal(d) /\ UNCHANGED <<lifecycle, handle>>
    BY <1>5, EntriesTaken, ReadCases, WriteEnds
    DEF StartHandoffs, ReadForHandoff, WriteHandoff
  <2> QED BY <2>1 DEF LifecycleTypes, OnlyDisposal
<1> QED BY <1>2, <1>3, <1>4, <1>5
        DEF LifecycleNext, DisposalProgress, CallProgress, ActionProgress, Environment,
            lifecycleVars

\* A disposal that is writing was writing before, or has just read.
LEMMA WritingOrigin ==
    ASSUME RuntimeInv, LifecycleTypes, HandoffsFit, [LifecycleNext]_lifecycleVars,
           NEW d \in Disposals, disposals'[d].pc = "writing"
    PROVE  \/ disposals'[d] = disposals[d]
           \/ /\ UNCHANGED vars
              /\ \E c \in disposals[d].entries : ReadsWork(d, c)
<1> SUFFICES ASSUME disposals'[d] # disposals[d]
             PROVE  UNCHANGED vars /\ \E c \in disposals[d].entries : ReadsWork(d, c)
    OBVIOUS
<1>1. ASSUME NEW e \in Disposals, Quiesce(e) \/ StartDraining(e) \/ AbortTheRest(e)
                                  \/ CloseLedger(e) \/ FinishDisposal(e)
      PROVE  FALSE
    BY <1>1, PcChange
    DEF Quiesce, StartDraining, AbortTheRest, CloseLedger, FinishDisposal, OnlyDisposal
<1>2. ASSUME NEW e \in Disposals, StartHandoffs(e) \/ WriteHandoff(e)
      PROVE  FALSE
    BY <1>2, EntriesTaken, WriteEnds, EntryDropped DEF OnlyDisposal
<1>3. ASSUME NEW e \in Disposals, ReadForHandoff(e)
      PROVE  UNCHANGED vars /\ \E c \in disposals[d].entries : ReadsWork(d, c)
  <2>1. e = d /\ UNCHANGED vars
    BY <1>3, ReadCases DEF OnlyDisposal, ReadForHandoff
  <2>2. ASSUME NEW c \in disposals[d].entries, NextEntry(d, c) \/ GiveUpEntry(d, c)
        PROVE  FALSE
    BY <2>2, EntryDropped, OneDisposal
  <2> QED BY <1>3, <2>1, <2>2, ReadCases
<1> QED BY <1>1, <1>2, <1>3
        DEF LifecycleNext, DisposalProgress, CallProgress, ActionProgress, Environment,
            lifecycleVars

LEMMA HandoffsFitStep ==
    ASSUME RuntimeInv, LifecycleTypes, HandoffsFit, [LifecycleNext]_lifecycleVars
    PROVE  HandoffsFit'
<1> SUFFICES ASSUME NEW d \in Disposals, disposals'[d].pc = "writing"
             PROVE  HandoffReads(d)'
    BY DEF HandoffsFit, DisposalAt
<1>1. CASE disposals'[d] = disposals[d]
  <2>1. PICK c \in Calls, read \in OperationRecord :
            c = disposals[d].entry /\ read = disposals[d].read /\ HandoffReads(d)
    BY <1>1, OneDisposal DEF HandoffsFit, DisposalAt, HandoffReads
  <2>2. RuntimeMoved
    BY LifecycleStep
  <2>3. OpOf(c) \in Ops /\ OpOf(c)' = OpOf(c) /\ records[OpOf(c)] \in OperationRecord
    BY <2>1, <2>2, OneCall, CallCases DEF RuntimeInv
  <2>4. /\ Exists(records'[OpOf(c)])
        /\ \/ records'[OpOf(c)] = records[OpOf(c)]
           \/ records'[OpOf(c)].rev = records[OpOf(c)].rev + 1
    BY <2>1, <2>2, <2>3, RevisionStep DEF HandoffReads
  <2>5. read.rev \in Nat /\ records[OpOf(c)].rev \in Nat
    BY <2>1, <2>3 DEF OperationRecord
  <2> QED BY <1>1, <2>1, <2>3, <2>4, <2>5 DEF HandoffReads, Exists
<1>2. ASSUME NEW c \in disposals[d].entries, ReadsWork(d, c), UNCHANGED vars
      PROVE  HandoffReads(d)'
  <2>1. /\ c \in Calls /\ OpOf(c)' = OpOf(c) /\ records' = records
        /\ records[OpOf(c)] \in OperationRecord
    BY <1>2, OneDisposal, OneCall DEF RuntimeInv, vars, OpOf
  <2>2. records[OpOf(c)].rev \in Nat /\ Exists(records[OpOf(c)])
    BY <1>2, <2>1 DEF ReadsWork, NeedsHandoff, Exists, OperationRecord
  <2> QED BY <1>2, <2>1, <2>2 DEF HandoffReads, ReadsWork, Exists
<1> QED BY <1>1, <1>2, WritingOrigin

-----------------------------------------------------------------------------
(***************************************************************************)
(* An abort sticks, and an aborted call dispatches nothing.                *)
(***************************************************************************)
Stepped(c) ==
    \/ calls'[c].pc = "done"
    \/ /\ calls'[c].aborted = calls[c].aborted
       /\ calls'[c].pc = "dispatched" => ~ calls[c].aborted

LEMMA SegmentEnds ==
    ASSUME RuntimeInv, NEW c \in Calls
    PROVE  /\ \A outcome : Return(c, outcome) => Stepped(c)
           /\ \A pc, retries : LookAgain(c, pc, retries) /\ pc # "dispatched" => Stepped(c)
           /\ \A pc : Goto(c, pc) /\ pc # "dispatched" => Stepped(c)
           /\ \A pc, rec : Continue(c, pc, rec) /\ (pc = "dispatched" => ~ calls[c].aborted)
                                => Stepped(c)
<1>1. calls \in [Calls -> CallState]
    BY DEF RuntimeInv, TypeOK
<1>2. ASSUME NEW outcome, Return(c, outcome)
      PROVE  Stepped(c)
    BY <1>1, <1>2 DEF Return, IdleCall, Stepped
<1>3. ASSUME NEW pc, NEW retries, LookAgain(c, pc, retries), pc # "dispatched"
      PROVE  Stepped(c)
    BY <1>1, <1>3 DEF LookAgain, CallState, Stepped
<1>4. ASSUME NEW pc, Goto(c, pc), pc # "dispatched"
      PROVE  Stepped(c)
    BY <1>1, <1>4 DEF Goto, CallState, Stepped
<1>5. ASSUME NEW pc, NEW rec, Continue(c, pc, rec), pc = "dispatched" => ~ calls[c].aborted
      PROVE  Stepped(c)
    BY <1>1, <1>5 DEF Continue, CallState, Stepped
<1> QED BY <1>2, <1>3, <1>4, <1>5

LEMMA DispatchHeedsAbort ==
    ASSUME RuntimeInv, NEW c \in Calls, DispatchAndExecute(c)
    PROVE  Stepped(c)
    BY SegmentEnds DEF DispatchAndExecute, SaveAndReturn

LEMMA LedgerStepped ==
    ASSUME RuntimeInv, NEW c \in Calls, LedgerStep(c)
    PROVE  Stepped(c)
<1>1. CASE BindPrincipal(c) \/ ReloadForBinding(c)
    BY <1>1, SegmentEnds DEF BindPrincipal, ReloadForBinding, ApplyPrincipalBinding
<1>2. CASE Authorize(c) \/ CancelBeforeClaim(c)
    BY <1>2, SegmentEnds DEF Authorize, CancelBeforeClaim, SaveOrReload
<1>3. CASE ReadLease(c) \/ ClaimOperation(c) \/ Reload(c)
    BY <1>3, SegmentEnds DEF ReadLease, ClaimOperation, Reload
<1>4. CASE FirstDispatch(c)
    BY <1>4, DispatchHeedsAbort DEF FirstDispatch
<1>5. CASE ExpireAfterDispatch(c) \/ CancelRecovery(c)
    BY <1>5, SegmentEnds DEF ExpireAfterDispatch, CancelRecovery, SaveAndReturn
<1>6. CASE RecoverWithoutQuery(c)
    BY <1>6, SegmentEnds, DispatchHeedsAbort
    DEF RecoverWithoutQuery, StopAsUncertain, SaveAndReturn
<1>7. CASE ResolveReconcile(c)
    BY <1>7, SegmentEnds, DispatchHeedsAbort
    DEF ResolveReconcile, StopAsUncertain, SaveAndReturn
<1> QED BY <1>1, <1>2, <1>3, <1>4, <1>5, <1>6, <1>7 DEF LedgerStep

LEMMA CallStepped ==
    ASSUME RuntimeInv, NEW c \in Calls, CallProgress(c) \/ ActionProgress(c)
    PROVE  Stepped(c)
<1>1. CASE StartAccepted(c) \/ RejectStart(c) \/ RefuseMaterial(c)
    BY <1>1, SegmentEnds
    DEF StartAccepted, Start, RejectStart, RefuseMaterial, ApplyPrincipalBinding
<1>2. CASE LedgerFreeStep(c)
    BY <1>2, SegmentEnds
    DEF LedgerFreeStep, ReadTerminal, RefuseReconcileOnly, BeginExecute, YieldLostLease,
        BeginReconcile
<1>3. CASE MeetClosedLedger(c) \/ Interrupt(c) \/ YieldLostLease(c, "executing")
    BY <1>3, SegmentEnds DEF MeetClosedLedger, Interrupt, YieldLostLease
<1>4. CASE FinishExecution(c) \/ FailExecution(c)
    BY <1>4, SegmentEnds DEF FinishExecution, FailExecution, SaveAndReturn
<1>5. CASE AnswerQuery(c)
  <2>1. calls \in [Calls -> CallState]
    BY DEF RuntimeInv, TypeOK
  <2> QED BY <1>5, <2>1 DEF AnswerQuery, CallState, Stepped
<1> QED BY <1>1, <1>2, <1>3, <1>4, <1>5, LedgerStepped
        DEF CallProgress, ActionProgress, ActionStep

\* Of every call, whatever the step.
LEMMA AbortSticks ==
    ASSUME RuntimeInv, [LifecycleNext]_lifecycleVars, NEW c \in Calls
    PROVE  /\ calls'[c].pc = "done" \/ (calls[c].aborted => calls'[c].aborted)
           /\ ~ At(c, "dispatched") /\ calls'[c].pc = "dispatched" => ~ calls[c].aborted
<1> DEFINE Sticks ==
        /\ calls'[c].pc = "done" \/ (calls[c].aborted => calls'[c].aborted)
        /\ ~ At(c, "dispatched") /\ calls'[c].pc = "dispatched" => ~ calls[c].aborted
<1>1. calls \in [Calls -> CallState]
    BY DEF RuntimeInv, TypeOK
<1>2. calls'[c] = calls[c] => Sticks
    BY DEF At
<1>3. ASSUME NEW d \in Calls, CallProgress(d) \/ ActionProgress(d)
      PROVE  Sticks
  <2>1. CASE d = c
    BY <1>3, <2>1, CallStepped DEF Stepped
  <2>2. CASE d # c
    BY <1>2, <1>3, <2>2, CallProgressMoves DEF CallMoved, OnlyCall
  <2> QED BY <2>1, <2>2
<1>4. ASSUME NEW d \in Disposals, AbortTheRest(d)
      PROVE  Sticks
    BY <1>1, <1>4 DEF AbortTheRest, CallState, At
<1>5. ASSUME NEW d \in Disposals, Quiesce(d) \/ DisposalProgress(d), ~ AbortTheRest(d)
      PROVE  calls' = calls
    BY <1>5 DEF Quiesce, DisposalProgress, StartDraining, StartHandoffs, ReadForHandoff,
                WriteHandoff, CloseLedger, FinishDisposal, vars
<1>6. ASSUME NEW d \in Calls, Renewal(d)
      PROVE  Sticks
    BY <1>1, <1>6 DEF Renewal, RenewOnTimer, CallState, At
<1>7. ASSUME NEW d \in Calls, SendRequest(d)
      PROVE  calls' = calls
    BY <1>7 DEF SendRequest
<1>8. ASSUME NEW op \in Ops, NEW token \in sent[op], LandRequest(op, token)
      PROVE  calls' = calls
    BY <1>8 DEF LandRequest
<1>9. AdvanceClock \/ Finished \/ UNCHANGED lifecycleVars => calls' = calls
    BY DEF AdvanceClock, Finished, vars, lifecycleVars
<1>10. calls' = calls => Sticks
    BY <1>2
<1> HIDE DEF Sticks
<1>11. Sticks
    BY <1>3, <1>4, <1>5, <1>6, <1>7, <1>8, <1>9, <1>10 DEF LifecycleNext, Environment
<1> QED BY <1>11 DEF Sticks

-----------------------------------------------------------------------------
(***************************************************************************)
(* One door after the other.                                               *)
(***************************************************************************)
LEMMA InvocationKept ==
    ASSUME RuntimeInv, RuntimeMoved
    PROVE  invocation' = invocation
    BY DEF RuntimeMoved, CallMoved, Answering, Renewing, SendRequest, LandRequest, HandingOff,
           Aborting, Passing

\* Only an accepting runtime takes a call on.
LEMMA OnlyAcceptedStart ==
    ASSUME RuntimeInv, LifecycleTypes, HandoffsFit, [LifecycleNext]_lifecycleVars,
           NEW c \in Calls, ~ Active(c), Active(c)'
    PROVE  lifecycle[RuntimeOf(c)] = "accepting"
<1>1. calls'[c] # calls[c] /\ calls'[c].pc \notin {"idle", "done"}
    BY DEF Active
<1>2. ~ KeepsWork(c)
    BY DEF Active, KeepsWork
<1>3. ASSUME NEW d \in Calls, CallProgress(d) \/ ActionProgress(d)
      PROVE  lifecycle[RuntimeOf(c)] = "accepting"
  <2>1. CallMoved(d)
    BY <1>3, CallProgressMoves
  <2>2. d = c
    BY <1>1, <2>1 DEF CallMoved, OnlyCall
  <2>3. At(c, "idle")
    BY <2>1, <2>2, MovedWasWaiting DEF RuntimeInv, CallsFit, CallFits, Active, At
  <2>4. StartAccepted(c) \/ RejectStart(c) \/ RefuseMaterial(c)
    <3>1. ~ LedgerStep(c)
      BY <2>3 DEF LedgerStep, At, Deciding, Recovering, BindPrincipal, ReloadForBinding,
                  Authorize, CancelBeforeClaim, ReadLease, ClaimOperation, Reload,
                  FirstDispatch, ExpireAfterDispatch, CancelRecovery, RecoverWithoutQuery,
                  ResolveReconcile
    <3>2. ~ LedgerFreeStep(c) /\ ~ Interrupt(c) /\ ~ MeetClosedLedger(c)
      BY <2>3 DEF LedgerFreeStep, At, Deciding, Recovering, ReadTerminal,
                  RefuseReconcileOnly, BeginExecute, YieldLostLease, BeginReconcile,
                  Interrupt, MeetClosedLedger, Active
    <3>3. ~ ActionStep(c)
      BY <2>3 DEF ActionStep, At, FinishExecution, FailExecution, AnswerQuery, YieldLostLease
    <3> QED BY <1>3, <2>2, <3>1, <3>2, <3>3 DEF CallProgress, ActionProgress, ActionStep
  <2>5. ASSUME NEW outcome \in Outcomes, Return(c, outcome)
        PROVE  FALSE
    BY <1>1, <2>5, ReturnFits DEF RuntimeInv
  <2>6. ~ RejectStart(c) /\ ~ RefuseMaterial(c)
    BY <2>5 DEF RejectStart, RefuseMaterial, Outcomes
  <2> QED BY <2>4, <2>6 DEF StartAccepted
<1>4. ASSUME NEW d \in Disposals, AbortTheRest(d)
      PROVE  FALSE
    BY <1>2, <1>4, AbortMoves DEF Aborting
<1>5. ASSUME NEW d \in Disposals, Quiesce(d) \/ DisposalProgress(d), ~ AbortTheRest(d)
      PROVE  calls' = calls
    BY <1>5 DEF Quiesce, DisposalProgress, StartDraining, StartHandoffs, ReadForHandoff,
                WriteHandoff, CloseLedger, FinishDisposal, vars
<1>6. ASSUME NEW d \in Calls, Renewal(d)
      PROVE  calls'[c].pc = calls[c].pc
    BY <1>6 DEF Renewal, RenewOnTimer, CallState, RuntimeInv, TypeOK
<1>7. ASSUME NEW d \in Calls, SendRequest(d)
      PROVE  calls' = calls
    BY <1>7 DEF SendRequest
<1>8. ASSUME NEW op \in Ops, NEW token \in sent[op], LandRequest(op, token)
      PROVE  calls' = calls
    BY <1>8 DEF LandRequest
<1>9. AdvanceClock \/ Finished \/ UNCHANGED lifecycleVars => calls' = calls
    BY DEF AdvanceClock, Finished, vars, lifecycleVars
<1>10. calls'[c].pc # calls[c].pc
    BY DEF Active
<1> QED BY <1>1, <1>3, <1>4, <1>5, <1>6, <1>7, <1>8, <1>9, <1>10
        DEF LifecycleNext, Environment

\* Once a runtime has stopped accepting, its calls in flight only get fewer.
LEMMA EntriesShrink ==
    ASSUME RuntimeInv, LifecycleTypes, HandoffsFit, [LifecycleNext]_lifecycleVars,
           NEW r \in Runtimes, lifecycle[r] # "accepting", NEW c \in Entries(r)'
    PROVE  /\ c \in Entries(r)
           /\ calls[c].aborted => calls'[c].aborted
<1>1. c \in Calls /\ invocation' = invocation
    BY LifecycleStep, InvocationKept DEF Entries
<1>2. /\ RuntimeOf(c) = r /\ invocation[c].mode = "normal" /\ Active(c)'
    BY <1>1 DEF Entries, Registered, RuntimeOf
<1>3. Active(c)
    BY <1>1, <1>2, OnlyAcceptedStart
<1>4. calls'[c].pc # "done"
    BY <1>2 DEF Active
<1> QED BY <1>1, <1>2, <1>3, <1>4, AbortSticks DEF Entries, Registered

\* The lifecycle never comes back to "accepting".
LEMMA LifecycleCases ==
    ASSUME RuntimeInv, LifecycleTypes, [LifecycleNext]_lifecycleVars, NEW r \in Runtimes
    PROVE  /\ lifecycle[r] # "accepting" => lifecycle'[r] # "accepting"
           /\ \/ lifecycle'[r] = lifecycle[r]
              \/ lifecycle'[r] \notin {"closing", "closed"}
              \/ \E d \in Disposals : /\ DisposedRuntime[d] = r
                                      /\ disposals[d].pc \in {"handoff", "closing"}
<1>1. lifecycle \in [Runtimes -> RuntimeLifecycleState]
    BY DEF LifecycleTypes
<1>2. ASSUME NEW d \in Disposals, Quiesce(d)
      PROVE  \/ lifecycle'[r] = lifecycle[r]
             \/ lifecycle'[r] = "quiescing"
    BY <1>1, <1>2 DEF Quiesce
<1>3. ASSUME NEW d \in Disposals, StartDraining(d)
      PROVE  lifecycle'[r] = lifecycle[r] \/ lifecycle'[r] = "draining"
    BY <1>1, <1>3 DEF StartDraining
<1>4. ASSUME NEW d \in Disposals, CloseLedger(d) \/ FinishDisposal(d)
      PROVE  \/ lifecycle'[r] = lifecycle[r]
             \/ /\ lifecycle'[r] \in {"closing", "closed"} /\ DisposedRuntime[d] = r
                /\ disposals[d].pc \in {"handoff", "closing"}
    BY <1>1, <1>4 DEF CloseLedger, FinishDisposal, DisposalAt
<1>5. ASSUME NEW d \in Disposals, AbortTheRest(d) \/ StartHandoffs(d) \/ ReadForHandoff(d)
                                  \/ WriteHandoff(d)
      PROVE  lifecycle' = lifecycle
    BY <1>5 DEF AbortTheRest, StartHandoffs, ReadForHandoff, WriteHandoff
<1> QED BY <1>2, <1>3, <1>4, <1>5
        DEF LifecycleNext, DisposalProgress, CallProgress, ActionProgress, Environment,
            lifecycleVars

\* Of a disposal: where it was.
LEMMA DisposalCases ==
    ASSUME RuntimeInv, LifecycleTypes, HandoffsFit, [LifecycleNext]_lifecycleVars,
           NEW d \in Disposals
    PROVE  \/ disposals'[d] = disposals[d]
           \/ Quiesce(d) \/ StartDraining(d) \/ AbortTheRest(d) \/ StartHandoffs(d)
           \/ ReadForHandoff(d) \/ WriteHandoff(d) \/ CloseLedger(d) \/ FinishDisposal(d)
<1>1. ASSUME NEW e \in Disposals, Quiesce(e) \/ DisposalProgress(e)
      PROVE  e = d \/ disposals'[d] = disposals[d]
  <2>1. CASE Quiesce(e) \/ StartDraining(e) \/ AbortTheRest(e) \/ CloseLedger(e)
             \/ FinishDisposal(e)
    BY <2>1
    DEF LifecycleTypes, Quiesce, StartDraining, AbortTheRest, CloseLedger, FinishDisposal
  <2>2. CASE StartHandoffs(e) \/ ReadForHandoff(e) \/ WriteHandoff(e)
    BY <2>2, EntriesTaken, ReadCases, WriteEnds DEF OnlyDisposal
  <2> QED BY <1>1, <2>1, <2>2 DEF DisposalProgress
<1> QED BY <1>1
        DEF LifecycleNext, DisposalProgress, CallProgress, ActionProgress, Environment,
            lifecycleVars

LEMMA DrainedStep ==
    ASSUME RuntimeInv, LifecycleTypes, HandoffsFit, Drained, [LifecycleNext]_lifecycleVars
    PROVE  Drained'
<1>1. ASSUME NEW r \in Runtimes, lifecycle[r] # "accepting", AllAborted(r)
      PROVE  AllAborted(r)'
    BY <1>1, EntriesShrink DEF AllAborted
<1>2. ASSUME NEW d \in Disposals, ~ DisposalAt(d, "idle")'
      PROVE  lifecycle'[DisposedRuntime[d]] # "accepting"
  <2>1. DisposedRuntime[d] \in Runtimes
    BY OneDisposal
  <2>2. CASE ~ DisposalAt(d, "idle")
    BY <2>1, <2>2, LifecycleCases DEF Drained
  <2>3. CASE DisposalAt(d, "idle")
    <3>1. disposals'[d] # disposals[d]
      BY <1>2, <2>3 DEF DisposalAt
    <3>2. ~ StartDraining(d) /\ ~ AbortTheRest(d) /\ ~ StartHandoffs(d) /\ ~ ReadForHandoff(d)
      BY <2>3 DEF DisposalAt, StartDraining, AbortTheRest, StartHandoffs, ReadForHandoff
    <3>3. ~ WriteHandoff(d) /\ ~ CloseLedger(d) /\ ~ FinishDisposal(d)
      BY <2>3 DEF DisposalAt, WriteHandoff, CloseLedger, FinishDisposal
    <3>4. Quiesce(d)
      BY <3>1, <3>2, <3>3, DisposalCases
    <3> QED BY <2>1, <3>4 DEF Quiesce, LifecycleTypes
  <2> QED BY <2>2, <2>3
<1>3. ASSUME NEW d \in Disposals, disposals'[d].pc \in PastDrain
      PROVE  AllAborted(DisposedRuntime[d])'
  <2> DEFINE r == DisposedRuntime[d]
  <2>1. r \in Runtimes /\ disposals'[d].pc \notin {"quiesced", "draining", "done"}
    BY <1>3, OneDisposal DEF PastDrain
  <2>2. CASE disposals[d].pc \in PastDrain
    <3>1. lifecycle[r] # "accepting" /\ AllAborted(r)
      BY <2>2 DEF Drained, PastDrain, DisposalAt
    <3> QED BY <1>1, <2>1, <3>1
  <2>3. CASE disposals[d].pc \notin PastDrain
    <3>1. disposals'[d] # disposals[d]
      BY <1>3, <2>3
    <3>2. ~ Quiesce(d) /\ ~ StartDraining(d)
      BY <2>1, PcChange DEF Quiesce, StartDraining
    <3>3. /\ ~ StartHandoffs(d) /\ ~ ReadForHandoff(d) /\ ~ WriteHandoff(d)
          /\ ~ CloseLedger(d) /\ ~ FinishDisposal(d)
      BY <2>3 DEF DisposalAt, PastDrain, StartHandoffs, ReadForHandoff,
                  WriteHandoff, CloseLedger, FinishDisposal
    <3>4. AbortTheRest(d)
      BY <3>1, <3>2, <3>3, DisposalCases
    <3>5. lifecycle[r] # "accepting"
      BY <3>4 DEF Drained, DisposalAt, AbortTheRest
    <3>6. ASSUME NEW c \in Entries(r)'
          PROVE  calls'[c].aborted
      <4>1. c \in Entries(r) /\ c \in Calls
        BY <2>1, <3>5, <3>6, EntriesShrink DEF Entries
      <4>2. calls[c] \in CallState
        BY <4>1 DEF RuntimeInv, TypeOK
      <4> QED BY <3>4, <4>1, <4>2 DEF AbortTheRest, CallState
    <3> QED BY <3>6 DEF AllAborted
  <2> QED BY <2>2, <2>3
<1>4. ASSUME NEW r \in Runtimes, lifecycle'[r] \in {"closing", "closed"}
      PROVE  AllAborted(r)'
  <2>1. CASE lifecycle'[r] = lifecycle[r]
    BY <1>1, <1>4, <2>1 DEF Drained
  <2>2. ASSUME NEW d \in Disposals, DisposedRuntime[d] = r,
               disposals[d].pc \in {"handoff", "closing"}
        PROVE  AllAborted(r)'
    <3>1. lifecycle[r] # "accepting" /\ AllAborted(r)
      BY <2>2 DEF Drained, PastDrain, DisposalAt
    <3> QED BY <1>1, <3>1
  <2> QED BY <1>4, <2>1, <2>2, LifecycleCases
<1> QED BY <1>2, <1>3, <1>4 DEF Drained

-----------------------------------------------------------------------------
(***************************************************************************)
(* What a handoff lets go of stays let go of.                              *)
(***************************************************************************)

\* A call in dispatch was in it with the same snapshot, or has just entered it.
LEMMA InDispatchOrigin ==
    ASSUME RuntimeInv, RuntimeMoved, NEW c \in Calls, calls'[c].pc \in InDispatch
    PROVE  \/ calls[c].pc \in InDispatch /\ Snap(c)' = Snap(c)
           \/ Dispatching(c)
<1>1. CASE KeepsWork(c)
    BY <1>1 DEF KeepsWork, Snap
<1>2. CASE CallMoved(c)
  <2>1. CASE Looking(c)
    BY <2>1 DEF Looking, KeepsItsPlace, Snap
  <2>2. /\ ~ Entering(c) /\ ~ Quitting(c) /\ ~ Claiming(c)
        /\ ~ Revising(c) /\ ~ Settling(c) /\ ~ Answering(c)
    BY DEF InDispatch, Entering, Quitting, Claiming, Revising, Settling, Answering
  <2> QED BY <1>2, <2>1, <2>2 DEF CallMoved, KindOfStep
<1> QED BY <1>1, <1>2, CallCases

LEMMA DispatchingCall ==
    ASSUME RuntimeInv, NEW c \in Calls, Dispatching(c)
    PROVE  /\ calls'[c].snap.token > 0 /\ calls'[c].pc = "dispatched"
           /\ ~ At(c, "dispatched") /\ Active(c) /\ invocation[c].mode = "normal"
<1>1. /\ Snap(c) \in OperationRecord /\ OpOf(c) \in Ops
      /\ Snap(c).state = "claimed" /\ Exists(Snap(c)) /\ CallFits(c)
    BY OneCall DEF RuntimeInv, CallsFit, Dispatching, Exists
<1>2. records[OpOf(c)] = Snap(c)
    BY <1>1, SavedIsCurrent DEF Dispatching
<1>3. Snap(c).attempts < Snap(c).token
    BY <1>1, <1>2 DEF RuntimeInv, LedgerInv, AttemptsNeverOvertakeTokens
<1>4. Snap(c).token > 0
    BY <1>1, <1>3 DEF OperationRecord
<1>5. calls'[c].snap.token = Snap(c).token
    BY <1>1, DispatchedFields DEF Dispatching
<1> QED BY <1>1, <1>4, <1>5
        DEF Dispatching, MayDispatch, CallFits, At, Active, WithoutSnapshot

LEMMA TokensStep ==
    ASSUME RuntimeInv, RuntimeMoved, TokensIssued
    PROVE  TokensIssued'
<1> SUFFICES ASSUME NEW c \in Calls, calls'[c].pc \in InDispatch
             PROVE  calls'[c].snap.token > 0
    BY DEF TokensIssued, Snap
<1> QED BY InDispatchOrigin, DispatchingCall DEF TokensIssued, Snap

\* A lease keeps its token, or is released, or is taken under the next one.
LEMMA LeaseTokens ==
    ASSUME RuntimeInv, RuntimeMoved, NEW op \in Ops
    PROVE  leases'[op].token \in {leases[op].token, 0, records[op].token + 1}
<1>1. /\ LedgerTypeOK /\ [LedgerNext]_ledgerVars /\ leases[op] \in LiveLease
    BY RuntimeLedgerStep DEF RuntimeInv, TypeOK, LedgerTypeOK
<1>2. CASE Untouched(op) \/ Created(op) \/ Advanced(op)
    BY <1>2 DEF Untouched, Created, Advanced, NoLease
<1>3. CASE Renewed(op)
    BY <1>1, <1>3 DEF Renewed, LiveLease
<1>4. ASSUME NEW owner \in Runtimes, TakenBy(op, owner)
      PROVE  leases'[op].token = records[op].token + 1
    BY <1>4 DEF TakenBy
<1> QED BY <1>1, <1>2, <1>3, <1>4, OperationStep DEF OperationMoved

LEMMA LetGoStays ==
    ASSUME RuntimeInv, EffectInv, TokensIssued, RuntimeMoved, NEW c \in Calls,
           LetGo(c), ~ Dispatching(c)
    PROVE  LetGo(c)'
<1> SUFFICES ASSUME calls'[c].pc \in InDispatch
             PROVE  leases'[OpOf(c)].token # Snap(c)'.token
    BY CallCases DEF LetGo
<1>1. /\ calls[c].pc \in InDispatch /\ Snap(c)' = Snap(c) /\ OpOf(c) \in Ops
      /\ leases[OpOf(c)].token # Snap(c).token /\ Snap(c).token > 0
    BY InDispatchOrigin, OneCall DEF RuntimeInv, LetGo, TokensIssued
<1>2. Snap(c).token \in Issued(OpOf(c))
    BY <1>1 DEF Issued
<1>3. /\ Snap(c).token \in Nat /\ Snap(c).token <= records[OpOf(c)].token
      /\ records[OpOf(c)].token \in Nat
    BY <1>1, <1>2, OneCall DEF EffectInv, IssuedCovered, RuntimeInv, OperationRecord
<1> QED BY <1>1, <1>3, LeaseTokens

\* An operation that needs no handoff, or got it, is nobody's.
LEMMA NoLeaseLetsGo ==
    ASSUME TokensIssued, NEW c \in Calls, leases[OpOf(c)] = NoLease
    PROVE  LetGo(c)
    BY DEF TokensIssued, LetGo, NoLease

LEMMA IdleIsUnleased ==
    ASSUME RuntimeInv, NEW op \in Ops, ~ NeedsHandoff(records[op])
    PROVE  leases[op] = NoLease
    BY DEF RuntimeInv, LedgerInv, LeaseBacksClaim, ClaimIsLeased, NeedsHandoff, Held

\* From its drain on, dispose() finds every call in flight aborted, and so
\* none of them dispatches any more.
LEMMA PastDrainStep ==
    ASSUME LifecycleInv, [LifecycleNext]_lifecycleVars,
           NEW d \in Disposals, disposals[d].pc \in PastDrain,
           NEW c \in Entries(DisposedRuntime[d])'
    PROVE  /\ c \in Entries(DisposedRuntime[d]) /\ c \in Calls
           /\ ~ Dispatching(c)
           /\ LetGo(c) => LetGo(c)'
<1> DEFINE r == DisposedRuntime[d]
<1>1. r \in Runtimes /\ lifecycle[r] # "accepting" /\ AllAborted(r)
    BY OneDisposal DEF LifecycleInv, Drained, PastDrain, DisposalAt
<1>2. c \in Entries(r) /\ c \in Calls /\ calls[c].aborted
    BY <1>1, EntriesShrink DEF LifecycleInv, AllAborted, Entries
<1>3. ~ Dispatching(c)
    BY <1>2, AbortSticks, DispatchingCall DEF LifecycleInv
<1> QED BY <1>2, <1>3, LifecycleStep, LetGoStays DEF LifecycleInv

LEMMA HandoffsHoldStep ==
    ASSUME LifecycleInv, [LifecycleNext]_lifecycleVars
    PROVE  HandoffsHold'
<1> SUFFICES ASSUME NEW d \in Disposals, disposals'[d].pc \in {"handoff", "writing"},
                    NEW c \in Entries(DisposedRuntime[d])'
             PROVE  c \in disposals'[d].entries \/ c \in disposals'[d].lost \/ LetGo(c)'
    BY DEF HandoffsHold
<1> DEFINE Known == c \in disposals[d].entries \/ c \in disposals[d].lost \/ LetGo(c)
           Kept == c \in disposals'[d].entries \/ c \in disposals'[d].lost \/ LetGo(c)'
<1>1. /\ RuntimeInv /\ LifecycleTypes /\ HandoffsFit /\ HandoffsHold /\ TokensIssued
      /\ TokensIssued'
    BY LifecycleStep, TokensStep DEF LifecycleInv
<1>2. ASSUME disposals[d].pc \in {"handoff", "writing"}
      PROVE  Known /\ (LetGo(c) => LetGo(c)') /\ c \in Entries(DisposedRuntime[d]) /\ c \in Calls
    BY <1>1, <1>2, PastDrainStep DEF HandoffsHold, PastDrain
<1>3. CASE disposals'[d] = disposals[d]
    BY <1>2, <1>3
<1>4. CASE StartHandoffs(d)
  <2>1. c \in Entries(DisposedRuntime[d])
    BY <1>4, PastDrainStep DEF StartHandoffs, DisposalAt, PastDrain
  <2> QED BY <1>1, <1>4, <2>1, EntriesTaken
<1>5. CASE ReadForHandoff(d)
  <2>1. Known /\ (LetGo(c) => LetGo(c)') /\ c \in Entries(DisposedRuntime[d]) /\ c \in Calls
    BY <1>2, <1>5 DEF ReadForHandoff, DisposalAt
  <2>2. ASSUME NEW e \in disposals[d].entries, ReadsWork(d, e)
        PROVE  Kept
    BY <2>1, <2>2 DEF ReadsWork
  <2>3. ASSUME NEW e \in disposals[d].entries, GiveUpEntry(d, e)
        PROVE  Kept
    BY <1>1, <2>1, <2>3, EntryDropped, OneDisposal
  <2>4. ASSUME NEW e \in disposals[d].entries, NextEntry(d, e),
               ~ (Registered(e) /\ NeedsHandoff(records[OpOf(e)]))
        PROVE  Kept
    <3>1. CASE e # c
      BY <1>1, <2>1, <2>4, <3>1, EntryDropped, OneDisposal
    <3>2. CASE e = c
      <4>1. ~ NeedsHandoff(records[OpOf(c)]) /\ OpOf(c) \in Ops
        BY <1>1, <2>1, <2>4, <3>2, OneCall DEF Entries, RuntimeInv
      <4>2. LetGo(c)
        BY <1>1, <2>1, <4>1, IdleIsUnleased, NoLeaseLetsGo
      <4> QED BY <2>1, <4>2
    <3> QED BY <3>1, <3>2
  <2> QED BY <1>1, <1>5, <2>2, <2>3, <2>4, ReadCases
<1>6. CASE WriteHandoff(d)
  <2> DEFINE e == disposals[d].entry
  <2>1. /\ Known /\ (LetGo(c) => LetGo(c)') /\ c \in Calls
        /\ calls' = calls /\ invocation' = invocation
    BY <1>2, <1>6 DEF WriteHandoff, DisposalAt
  <2>2. /\ e \in Calls
        /\ GiveUpEntry(d, e) \/ (NextEntry(d, e) /\ leases'[OpOf(e)] = NoLease)
    BY <1>1, <1>6, WriteEnds
  <2>3. /\ disposals'[d].entries = disposals[d].entries \ {e}
        /\ disposals'[d].lost \in {disposals[d].lost, disposals[d].lost \cup {e}}
        /\ GiveUpEntry(d, e) => e \in disposals'[d].lost
    BY <1>1, <2>2, EntryDropped
  <2>4. CASE e # c \/ GiveUpEntry(d, e)
    BY <2>1, <2>3, <2>4
  <2>5. CASE e = c /\ leases'[OpOf(c)] = NoLease
    <3>1. LetGo(c)'
      BY <1>1, <2>1, <2>5 DEF TokensIssued, LetGo, NoLease, OpOf
    <3> QED BY <3>1
  <2> QED BY <2>2, <2>4, <2>5
<1>7. ASSUME Quiesce(d) \/ StartDraining(d) \/ AbortTheRest(d) \/ CloseLedger(d)
             \/ FinishDisposal(d)
      PROVE  FALSE
    BY <1>1, <1>7, PcChange DEF Quiesce, StartDraining, AbortTheRest, CloseLedger, FinishDisposal
<1> QED BY <1>1, <1>3, <1>4, <1>5, <1>6, <1>7, DisposalCases

-----------------------------------------------------------------------------
(***************************************************************************)
(* The invariant is inductive.                                             *)
(***************************************************************************)
LEMMA LifecycleInvInit == LifecycleInit => LifecycleInv
<1> SUFFICES ASSUME LifecycleInit PROVE LifecycleInv
    OBVIOUS
<1>1. RuntimeInv /\ EffectInv
    BY RuntimeInvInit, EffectInvInit DEF LifecycleInit
<1>2. "accepting" \in RuntimeLifecycleState
  <2>1. Phases[1] = "accepting" /\ 1 \in 1..5
    BY DEF Phases
  <2> QED BY <2>1 DEF RuntimeLifecycleState
<1>3. IdleDisposal \in DisposalState /\ IdleDisposal.pc = "idle"
    BY AbsentType DEF IdleDisposal, DisposalState
<1>4. LifecycleTypes
    BY <1>2, <1>3 DEF LifecycleInit, LifecycleTypes, Handles
<1>5. \A d \in Disposals : disposals[d].pc = "idle"
    BY <1>3 DEF LifecycleInit
<1>6. \A r \in Runtimes : lifecycle[r] = "accepting"
    BY DEF LifecycleInit
<1>7. HandoffsFit /\ Drained /\ HandoffsHold
    BY <1>5, <1>6 DEF HandoffsFit, Drained, HandoffsHold, DisposalAt, PastDrain
<1>8. TokensIssued
    BY DEF LifecycleInit, Init, IdleCall, TokensIssued, InDispatch
<1> QED BY <1>1, <1>4, <1>7, <1>8 DEF LifecycleInv

LEMMA LifecycleInvStep == LifecycleInv /\ [LifecycleNext]_lifecycleVars => LifecycleInv'
<1> SUFFICES ASSUME LifecycleInv, [LifecycleNext]_lifecycleVars PROVE LifecycleInv'
    OBVIOUS
<1>1. RuntimeInv /\ EffectInv /\ LifecycleTypes /\ HandoffsFit /\ Drained /\ TokensIssued
    BY DEF LifecycleInv
<1>2. RuntimeMoved
    BY <1>1, LifecycleStep
<1>3. RuntimeInv' /\ EffectInv' /\ TokensIssued'
    BY <1>1, <1>2, RuntimeInvStep, EffectInvStep, TokensStep
<1>4. LifecycleTypes' /\ HandoffsFit' /\ Drained'
    BY <1>1, LifecycleTypesStep, HandoffsFitStep, DrainedStep
<1> QED BY <1>3, <1>4, HandoffsHoldStep DEF LifecycleInv

\* The inductive invariant of dispose() beside the calls.
THEOREM LifecycleInvariant == LifecycleSpec => []LifecycleInv
    BY LifecycleInvInit, LifecycleInvStep, PTL DEF LifecycleSpec

-----------------------------------------------------------------------------
(***************************************************************************)
(* What follows.                                                           *)
(***************************************************************************)

\* The lifecycle, the ledger handles and the disposals keep their types, and a
\* handoff never writes over a record that was terminal when it was read.
THEOREM LifecycleTypeCorrect == LifecycleSpec => []LifecycleTypeOK
<1>1. LifecycleInv => LifecycleTypeOK
    BY DEF LifecycleInv, RuntimeInv, LifecycleTypes, LifecycleTypeOK, HandoffsFit, HandoffReads,
           NeedsHandoff, Terminal, TerminalStates
<1> QED BY <1>1, LifecycleInvariant, PTL

\* Disposal included, every write that gets through is a lifecycle step of
\* the ledger's port.
THEOREM LifecycleRespectsPort == LifecycleSpec => RespectsLedgerPort
<1>1. LifecycleInit => LedgerInit
    BY DEF LifecycleInit, Init
<1>2. LifecycleInv /\ [LifecycleNext]_lifecycleVars => [LedgerNext]_ledgerVars
    BY LifecycleStep, RuntimeLedgerStep DEF LifecycleInv
<1> QED BY <1>1, <1>2, LifecycleInvariant, PTL
        DEF LifecycleSpec, RespectsLedgerPort, LedgerSpec

\* Disposal included, the runtime keeps what it promises its callers: aborting
\* calls and handing their operations off ends none of them untruly.
THEOREM LifecycleKeepsItsPromise == LifecycleSpec => ImplementsSafeAction
<1>1. LifecycleInit => Promised!Init
    BY PromisedInit DEF LifecycleInit
<1>2. LifecycleInv /\ [LifecycleNext]_lifecycleVars => [Promised!Next]_(Promised!vars)
    BY LifecycleStep, PromisedStep DEF LifecycleInv
<1> QED BY <1>1, <1>2, LifecycleInvariant, PTL
        DEF LifecycleSpec, ImplementsSafeAction, Promised!Spec

\* None of the calls of a runtime that has drained dispatches any more, though
\* all they ever hear of it is their abort.
THEOREM DrainedNeverDispatches == LifecycleSpec => NothingDispatchedAfterDrain
<1>1. ASSUME LifecycleInv, [LifecycleNext]_lifecycleVars, NEW c \in Calls,
             ~ At(c, "dispatched"), calls'[c].pc = "dispatched"
      PROVE  lifecycle[RuntimeOf(c)] \notin {"closing", "closed"}
  <2>1. RuntimeInv /\ RuntimeMoved /\ Drained /\ RuntimeOf(c) \in Runtimes
    BY <1>1, LifecycleStep, OneCall DEF LifecycleInv, RuntimeInv
  <2>2. ~ calls[c].aborted
    BY <1>1, <2>1, AbortSticks
  <2>3. calls[c].pc \in InDispatch \/ Dispatching(c)
    BY <1>1, <2>1, InDispatchOrigin DEF InDispatch
  <2>4. Registered(c)
    <3>1. CASE calls[c].pc \in InDispatch
      BY <2>1, <3>1 DEF RuntimeInv, CallsFit, CallFits, InDispatch, Registered, Active
    <3>2. CASE Dispatching(c)
      BY <2>1, <3>2, DispatchingCall DEF Registered
    <3> QED BY <2>3, <3>1, <3>2
  <2>5. c \in Entries(RuntimeOf(c))
    BY <2>4 DEF Entries
  <2> QED BY <2>1, <2>2, <2>5 DEF Drained, AllAborted
<1>2. LifecycleInv /\ [LifecycleNext]_lifecycleVars
        => [\A c \in Calls : ~ At(c, "dispatched") /\ calls'[c].pc = "dispatched" =>
                lifecycle[RuntimeOf(c)] \notin {"closing", "closed"}]_lifecycleVars
    BY <1>1
<1> QED BY <1>2, LifecycleInvariant, PTL DEF LifecycleSpec, NothingDispatchedAfterDrain

\* When dispose() closes the ledger, no call left in its execute() still holds its
\* operation, but for the handoffs that did not go through.
THEOREM HungWorkHandedOff == LifecycleSpec => HungWorkIsHandedOff
<1>1. ASSUME LifecycleInv, [LifecycleNext]_lifecycleVars, NEW d \in Disposals,
             DisposalAt(d, "handoff"), disposals'[d].pc = "closing",
             NEW c \in Entries(DisposedRuntime[d]) \ disposals[d].lost, At(c, "executing")
      PROVE  leases[OpOf(c)].token # Snap(c).token
  <2>1. RuntimeInv /\ LifecycleTypes /\ HandoffsFit /\ HandoffsHold
    BY <1>1 DEF LifecycleInv
  <2>2. ~ Quiesce(d) /\ ~ StartDraining(d) /\ ~ AbortTheRest(d) /\ ~ FinishDisposal(d)
    BY <1>1, <2>1, PcChange DEF Quiesce, StartDraining, AbortTheRest, FinishDisposal
  <2>3. ~ StartHandoffs(d) /\ ~ WriteHandoff(d)
    BY <1>1 DEF StartHandoffs, WriteHandoff, DisposalAt
  <2>4. ~ ReadForHandoff(d)
    BY <1>1, <2>1, ReadCases, EntryDropped, OneDisposal DEF ReadsWork
  <2>5. CloseLedger(d)
    BY <1>1, <2>1, <2>2, <2>3, <2>4, DisposalCases DEF DisposalAt
  <2>6. disposals[d].entries = {} /\ calls[c].pc \in InDispatch
    BY <1>1, <2>5 DEF CloseLedger, At, InDispatch
  <2> QED BY <1>1, <2>1, <2>6 DEF HandoffsHold, DisposalAt, LetGo
<1>2. LifecycleInv /\ [LifecycleNext]_lifecycleVars
        => [\A d \in Disposals : DisposalAt(d, "handoff") /\ disposals'[d].pc = "closing" =>
                \A c \in Entries(DisposedRuntime[d]) \ disposals[d].lost :
                    At(c, "executing") => leases[OpOf(c)].token # Snap(c).token]_lifecycleVars
    BY <1>1
<1> QED BY <1>2, LifecycleInvariant, PTL DEF LifecycleSpec, HungWorkIsHandedOff
=============================================================================
