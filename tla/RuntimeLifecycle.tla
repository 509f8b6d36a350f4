-------------------------- MODULE RuntimeLifecycle --------------------------
(***************************************************************************)
(* quiesce(), dispose() and the durable handoff of OrdariumRuntime         *)
(* (core/src/runtime.ts), beside the calls they drain, abort and hand off  *)
(* and beside the calls of other runtimes on the same ledger.              *)
(*                                                                         *)
(* One action is one segment of a dispose() between two awaits.            *)
(*                                                                         *)
(* pc of a disposal:                                                       *)
(*   idle       not called yet                                             *)
(*   quiesced   awaited quiesce(), about to drain                          *)
(*   draining   waits for the calls in flight, or for its drain timer      *)
(*   aborting   has aborted the rest and waits again, at most 250 ms       *)
(*   handoff    hands the calls left in flight off, one at a time          *)
(*   writing    read the record of one of them, about to write it          *)
(*   closing    awaits ledger.close()                                      *)
(*   done       returned                                                   *)
(***************************************************************************)
EXTENDS OperationRuntime

CONSTANTS Disposals,        \* one element per dispose() call
          DisposedRuntime   \* DisposedRuntime[d]: the runtime d disposes of

ASSUME DisposalAssumption == DisposedRuntime \in [Disposals -> Runtimes]

VARIABLES lifecycle,    \* lifecycle[r]: #lifecycle of runtime r
          handle,       \* handle[r]: what r's ledger.close() does and has done
          disposals     \* disposals[d]: the local state of dispose() call d

lifecycleVars == <<vars, lifecycle, handle, disposals>>

Phases == <<"accepting", "quiescing", "draining", "closing", "closed">>
RuntimeLifecycleState == {Phases[i] : i \in 1..5}
Position(phase) == CHOOSE i \in 1..5 : Phases[i] = phase

\* A "shared" ledger has no close(), as MemoryLedger has none.
Handles == {"shared", "open", "closed"}

DisposalState ==
    [pc : {"idle", "quiesced", "draining", "aborting", "handoff", "writing", "closing", "done"},
     entries : SUBSET Calls,    \* snapshot of #inFlight still to hand off
     entry : Calls \cup {Nobody},
     read : OperationRecord,    \* the record #handoff read
     lost : SUBSET Calls]       \* history: handoffs whose read or write did not go through

IdleDisposal ==
    [pc |-> "idle", entries |-> {}, entry |-> Nobody, read |-> Absent, lost |-> {}]

\* #inFlight holds the run() calls that have not settled; reconcileOnly() is
\* never registered.
Registered(c) == Active(c) /\ invocation[c].mode = "normal"
Entries(r) == {c \in Calls : RuntimeOf(c) = r /\ Registered(c)}

LedgerIsOpen(r) == handle[r] # "closed"

-----------------------------------------------------------------------------
(***************************************************************************)
(* The calls under a lifecycle.                                            *)
(***************************************************************************)
\* run() and reconcileOnly() accept work only while the runtime does.
StartAccepted(c) == lifecycle[RuntimeOf(c)] = "accepting" /\ Start(c)

RejectStart(c) ==
    /\ At(c, "idle")
    /\ lifecycle[RuntimeOf(c)] # "accepting"
    /\ Return(c, "not-accepting")
    /\ KeepLedger /\ UNCHANGED <<now, invocation, providerVars>>

\* The ledger of the runtime is closed: the call's next ledger method throws.
MeetClosedLedger(c) ==
    /\ ~ LedgerIsOpen(RuntimeOf(c))
    /\ ~ calls[c].leaseLost
    /\ calls[c].pc \notin {"executing", "reconciling"}
    /\ Interrupt(c)

\* The heartbeat of a runtime whose ledger is closed can only fail.
Renewal(c) ==
    /\ RenewOnTimer(c)
    /\ ~ LedgerIsOpen(RuntimeOf(c)) => calls'[c].leaseLost

CallProgress(c) ==
    /\ \/ StartAccepted(c) \/ RejectStart(c) \/ LedgerFreeStep(c) \/ MeetClosedLedger(c)
       \/ LedgerIsOpen(RuntimeOf(c)) /\ (RefuseMaterial(c) \/ LedgerStep(c))
    /\ UNCHANGED <<lifecycle, handle, disposals>>

\* The Action settles; the outcome of an execute() cannot be saved any more
\* once the ledger is closed.
ActionProgress(c) ==
    /\ IF LedgerIsOpen(RuntimeOf(c)) \/ At(c, "reconciling")
       THEN ActionStep(c)
       ELSE \/ YieldLostLease(c, "executing")
            \/ At(c, "executing") /\ ~ calls[c].leaseLost /\ Interrupt(c)
    /\ UNCHANGED <<lifecycle, handle, disposals>>

-----------------------------------------------------------------------------
(***************************************************************************)
(* dispose().                                                              *)
(***************************************************************************)
DisposalAt(d, pc) == disposals[d].pc = pc

\* quiesce(): new calls are rejected from here on, running ones are untouched.
Quiesce(d) ==
    LET r == DisposedRuntime[d] IN
    /\ DisposalAt(d, "idle")
    /\ lifecycle' = [lifecycle EXCEPT ![r] = IF @ = "accepting" THEN "quiescing" ELSE @]
    /\ disposals' = [disposals EXCEPT ![d].pc = "quiesced"]
    /\ UNCHANGED <<vars, handle>>

\* A runtime that is already closed is left alone; any other one is drained
\* from the start, whatever another dispose() has done to it by now.
StartDraining(d) ==
    LET r == DisposedRuntime[d] IN
    /\ DisposalAt(d, "quiesced")
    /\ IF lifecycle[r] = "closed"
       THEN /\ disposals' = [disposals EXCEPT ![d].pc = "done"]
            /\ UNCHANGED lifecycle
       ELSE /\ lifecycle' = [lifecycle EXCEPT ![r] = "draining"]
            /\ disposals' = [disposals EXCEPT ![d].pc = "draining"]
    /\ UNCHANGED <<vars, handle>>

LeaveTheRest(d) ==                      \* mutant: nobody is told to stop
    /\ DisposalAt(d, "draining")
    /\ disposals' = [disposals EXCEPT ![d].pc = "aborting"]
    /\ UNCHANGED <<vars, lifecycle, handle>>

\* #settleInFlight waits for the calls in flight, but never longer than its
\* timer; drainMs may be 0, so it may end in any state.
AbortTheRest(d) ==
    LET r == DisposedRuntime[d] IN
    /\ DisposalAt(d, "draining")
    /\ calls' = [c \in Calls |->
                    IF c \in Entries(r) THEN [calls[c] EXCEPT !.aborted = TRUE] ELSE calls[c]]
    /\ disposals' = [disposals EXCEPT ![d].pc = "aborting"]
    /\ KeepLedger /\ UNCHANGED <<now, invocation, providerVars, lifecycle, handle>>

WaitForAborted(d) ==                    \* mutant: no timer on the calls it has aborted
    LET r == DisposedRuntime[d] IN
    /\ DisposalAt(d, "aborting")
    /\ Entries(r) = {}
    /\ disposals' = [disposals EXCEPT ![d].pc = "handoff"]
    /\ UNCHANGED <<vars, lifecycle, handle>>

StartHandoffs(d) ==
    /\ DisposalAt(d, "aborting")
    /\ disposals' = [disposals EXCEPT ![d].pc = "handoff",
                                      ![d].entries = Entries(DisposedRuntime[d])]
    /\ UNCHANGED <<vars, lifecycle, handle>>

NextEntry(d, c) ==
    disposals' = [disposals EXCEPT ![d].pc = "handoff", ![d].entries = @ \ {c},
                                   ![d].entry = Nobody, ![d].read = Absent]
GiveUpEntry(d, c) ==
    disposals' = [disposals EXCEPT ![d].pc = "handoff", ![d].entries = @ \ {c},
                                   ![d].entry = Nobody, ![d].read = Absent,
                                   ![d].lost = @ \cup {c}]

NeedsHandoffAlways(rec) == Exists(rec)  \* mutant: whatever the record's state
NeedsHandoffUnsent(rec) ==              \* mutant: only what was not claimed yet
    rec.state \in {"proposed", "authorized"}

NeedsHandoff(rec) == rec.state \in {"proposed", "authorized", "claimed", "dispatched"}

\* #handoff up to its read.  An entry that left #inFlight is skipped, and so
\* is a record that holds no work any more; a throwing ledger is swallowed.
ReadForHandoff(d) ==
    \E c \in disposals[d].entries :
        LET rec == records[OpOf(c)] IN
        /\ DisposalAt(d, "handoff")
        /\ IF ~ Registered(c)
           THEN NextEntry(d, c)
           ELSE \/ GiveUpEntry(d, c)
                \/ /\ LedgerIsOpen(DisposedRuntime[d])
                   /\ IF NeedsHandoff(rec)
                      THEN disposals' = [disposals EXCEPT ![d].pc = "writing",
                                                          ![d].entry = c, ![d].read = rec]
                      ELSE NextEntry(d, c)
        /\ UNCHANGED <<vars, lifecycle, handle>>

HandOffAsCancelled(rec) == CancelledRecord(rec)     \* mutant: whatever may have been sent

\* What the handoff leaves behind: nothing was sent, or it cannot know.
HandedOff(rec) ==
    IF rec.state \in {"proposed", "authorized"} THEN CancelledRecord(rec)
                                                ELSE UncertainRecord(rec)

\* #handoff from its read on.  A write that has meanwhile been overtaken is
\* refused, and the handoff is over all the same.
WriteHandoff(d) ==
    LET c == disposals[d].entry
        op == OpOf(c)
        next == HandedOff(disposals[d].read)
        accepted == /\ LedgerIsOpen(DisposedRuntime[d])
                    /\ CasAccepts(op, disposals[d].read.rev, next) IN
    /\ DisposalAt(d, "writing")
    /\ \/ accepted /\ CompareAndSet(op, next) /\ NextEntry(d, c)
       \/ KeepLedger /\ GiveUpEntry(d, c)
    /\ UNCHANGED <<now, invocation, calls, providerVars, lifecycle, handle>>

CloseLedger(d) ==
    LET r == DisposedRuntime[d] IN
    /\ DisposalAt(d, "handoff")
    /\ disposals[d].entries = {}
    /\ lifecycle' = [lifecycle EXCEPT ![r] = "closing"]
    /\ handle' = [handle EXCEPT ![r] = IF @ = "open" THEN "closed" ELSE @]
    /\ disposals' = [disposals EXCEPT ![d].pc = "closing"]
    /\ UNCHANGED vars

FinishDisposal(d) ==
    /\ DisposalAt(d, "closing")
    /\ lifecycle' = [lifecycle EXCEPT ![DisposedRuntime[d]] = "closed"]
    /\ disposals' = [disposals EXCEPT ![d].pc = "done"]
    /\ UNCHANGED <<vars, handle>>

DisposalProgress(d) ==
    \/ StartDraining(d) \/ AbortTheRest(d) \/ StartHandoffs(d)
    \/ ReadForHandoff(d) \/ WriteHandoff(d) \/ CloseLedger(d) \/ FinishDisposal(d)

-----------------------------------------------------------------------------
LifecycleInit ==
    /\ Init
    /\ lifecycle = [r \in Runtimes |-> "accepting"]
    /\ handle \in [Runtimes -> {"shared", "open"}]
    /\ \A r \in Runtimes : (\A d \in Disposals : DisposedRuntime[d] # r) => handle[r] = "open"
    /\ disposals = [d \in Disposals |-> IdleDisposal]

\* The environment of the calls, as in OperationRuntime, less the aborts and
\* crashes of single calls, which dispose() and a closed ledger stand in for.
Environment ==
    /\ \/ \E c \in Calls : SendRequest(c) \/ Renewal(c)
       \/ \E op \in Ops : \E token \in sent[op] : LandRequest(op, token)
       \/ AdvanceClock
       \/ Finished
    /\ UNCHANGED <<lifecycle, handle, disposals>>

LifecycleNext ==
    \/ \E c \in Calls : CallProgress(c) \/ ActionProgress(c)
    \/ \E d \in Disposals : Quiesce(d) \/ DisposalProgress(d)
    \/ Environment

LifecycleSpec == LifecycleInit /\ [][LifecycleNext]_lifecycleVars

\* Continuations and timers run.  Nothing is assumed of the Action: execute()
\* and reconcile() may hang, also when their lease is lost and they are told to
\* stop, and nobody has to call dispose().
LifecycleFairSpec ==
    /\ LifecycleSpec
    /\ \A c \in Calls : WF_lifecycleVars(CallProgress(c))
    /\ \A d \in Disposals : WF_lifecycleVars(DisposalProgress(d))

-----------------------------------------------------------------------------
(***************************************************************************)
(* Properties.                                                             *)
(***************************************************************************)
LifecycleTypeOK ==
    /\ TypeOK
    /\ lifecycle \in [Runtimes -> RuntimeLifecycleState]
    /\ handle \in [Runtimes -> Handles]
    /\ disposals \in [Disposals -> DisposalState]
    /\ \A d \in Disposals : DisposalAt(d, "writing") =>
        /\ disposals[d].entry \in disposals[d].entries
        /\ ~ Terminal(disposals[d].read)

\* dispose() comes back, although an Action it waits for may hang for ever, a
\* handoff may fail, and another dispose() may be under way.
DisposeReturns == \A d \in Disposals : ~ DisposalAt(d, "idle") ~> DisposalAt(d, "done")

\* Only an Action can keep a call from coming back: every call settles, or is
\* for ever inside its execute() or reconcile().
OnlyActionsHang ==
    \A c \in Calls : Active(c) ~> At(c, "done") \/ calls[c].pc \in {"executing", "reconciling"}

\* Once a runtime has drained, none of its calls dispatches any more: what is
\* then on its way outside is all there will be from it.  The calls still
\* running know nothing of the lifecycle; only their abort stops them.
NothingDispatchedAfterDrain ==
    [][\A c \in Calls :
        ~ At(c, "dispatched") /\ calls'[c].pc = "dispatched" =>
            lifecycle[RuntimeOf(c)] \notin {"closing", "closed"}]_lifecycleVars

\* When the ledger closes, no call left hanging in execute() still holds its
\* operation: another runtime can recover it at once, without waiting for the
\* lease.  Excepted are handoffs whose read or write did not go through.
HungWorkIsHandedOff ==
    [][\A d \in Disposals : DisposalAt(d, "handoff") /\ disposals'[d].pc = "closing" =>
        \A c \in Entries(DisposedRuntime[d]) \ disposals[d].lost :
            At(c, "executing") => leases[OpOf(c)].token # Snap(c).token]_lifecycleVars

\* docs/dev/10-lifecycle-and-recovery.md and the comment on the lifecycle
\* getter: the lifecycle only moves forward.
LifecycleIsMonotonic ==
    [][\A r \in Runtimes : Position(lifecycle[r]) <= Position(lifecycle'[r])]_lifecycleVars
=============================================================================
