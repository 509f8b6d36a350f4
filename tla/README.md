# Ordarium: a TLA+ model of the Operation runtime

This directory verifies the core of Ordarium, the safe-action SDK of this
repository: a `run()` call gives an Action a durable Operation identity, a
ledger records every step before it has consequences, leases and fencing tokens
keep several workers from settling one Operation twice, and recovery goes only
as far as the Provider's declared capabilities allow. Its second part is management
state: revisioned records with compare-and-set, references and a change feed. Around both
are the lifecycle of a runtime, the opening and migration of the SQLite file, and the
paged reads.

Contents: [inventory](#inventory) of the system, [modules](#modules) and how they
correspond to the code, [runs](#runs) and their bounds, [what the model
assumes](#assumptions), [proofs](#proofs), [divergences](#divergences-from-the-documentation)
found, the [plan](#plan), and what is [not modelled](#not-modelled).

## Inventory

Sources are under `src/packages/`. `PROJECT.json` lists the same components with
their status, and under `hazards` each place that is hard to test.

| Component | Source | State it keeps | Operations | Hard behaviour | What makes it correct |
|---|---|---|---|---|---|
| Runtime pipeline | `core/src/runtime.ts` | none of its own beyond `#inFlight`; each call holds a snapshot of a record | `run`, `reconcileOnly` | every `await` lets another call or process in; crash between any two steps; aborts; lost leases | no stale write; durable dispatch before the request; no blind retry; callers are told what the ledger holds |
| Runtime lifecycle | `core/src/runtime.ts` | `#lifecycle`, `#inFlight` | `quiesce`, `dispose`, `close`, handoff | drain deadline, late callbacks, two concurrent disposals, handoff of work taken over elsewhere | monotonic lifecycle; handed-off work is recoverable; the ledger closes last |
| Recovery evaluator | `core/src/recovery.ts` | none | three pure functions | deadline boundary, mode | reconcile-only never redispatches |
| Effect profiles, Action definition | `core/src/effects.ts`, `action.ts` | none | `defineAction`, predicates | none | only meaningful profiles exist |
| Record and codec | `core/src/types.ts`, `codec.ts` | none | encode, decode, cross-state invariants | a patch that forgets a field | every written record decodes |
| Operation ledger | port in `types.ts`; `ledger-sqlite/src/index.ts`, `core/src/ledger.ts` | operation rows, lease rows | `create`, `compareAndSet`, `claim`, `lease`, `renewLease` | two tables, several processes, takeover | lease and claim agree; tokens fence; outcomes are final |
| Operation history and list | both adapters | append-only events | `history`, `list` | pages over changing data | one event per revision; no event skipped |
| State store | `core/src/state.ts`, both adapters | state records with revisions, references | `getState`, `compareAndSetState`, `stateHistory`, `listStates`, `listStatesReferencing` | concurrent writers, references to moving revisions | revisions are gapless; references resolve |
| State change feed | both adapters | change log, opaque cursors | `changes` | consumers paging while writers commit; restarts | a cursor passes no change that was not delivered; a persisted cursor stays good |
| SQLite open, migrations | `ledger-sqlite/src/index.ts`, `migrations.ts` | schema version | open, create, migrate v1, v2, v3 | several processes, bounded retry, crash inside | one schema; no row lost |
| Operations service | `core/src/operations.ts` | none | `list`, `history`, `reconcileOnly` | stale read before delegation | never executes |
| Provider | outside; `testing/src/provider.ts` is its conformance double | effects by key, highest fence | `execute`, `query`, `cancel` | late, lost, repeated requests | its declared promises |
| Canonical JSON, errors, guards | `core/src/json.ts`, `errors.ts`, `runtime-guards.ts` | none | pure | none | encoding is injective |
| Hosts | `core/src/host.ts`, `host-kit`, `host-mcp`, `dsh` | sessions, subscriptions | request handling in front of `run` | shutdown while requests run | one response per request |
| Tools | `src/tools` | none | build, release, audit scripts | none | not modelled |

How they interact: a host calls `run()` of a runtime; the runtime calls the ledger
port for every durable step and the Action's `execute()` or `reconcile()` for every
external one; several runtimes, in one or several processes, share one SQLite file.
There is no message between runtimes: they meet only in the ledger and at the
Provider. The Operations service reads the ledger and calls `reconcileOnly()`. The
state store and its feed live in the same database; the only thing they know of
operations is whether a referenced one exists.

## Modules

| Module | Models | Extends |
|---|---|---|
| `OperationRecords` | the record, the effect profile, the patch every call site applies, the codec's invariants; constant-level | |
| `OperationLedger` | the ledger port; `LedgerSpec`: the ledger under any client that keeps the port's discipline | `OperationRecords` |
| `RecoveryPolicy` | the recovery evaluator | `OperationRecords` |
| `SafeAction` | abstract: what an operation promises its callers, without records, leases or retries | |
| `OperationRuntime` | `run()` and `reconcileOnly()` of several runtimes, the Provider, crashes, the clock | `OperationLedger`, `RecoveryPolicy`; instantiates `SafeAction` |
| `RuntimeLifecycle` | `quiesce()`, `dispose()` and its handoffs, composed with the calls of the runtimes | `OperationRuntime` |
| `LedgerOpen` | the constructor of `SqliteLedger` in several processes: creation, migrations, retries, crashes | `OperationRecords`, `Paging` (the order of a backfilled log); instantiates `OperationLedger` |
| `Paging` | cursors and pages; constant-level | |
| `OperationHistory` | `history()` and `list()` beside any clients of the ledger | `OperationLedger`, `Paging` |
| `StateStore` | `write()` calls over the state methods of the ledger, the runtime's lifecycle as they see it | |
| `StateReaders` | `stateHistory()`, `listStates()`, `listStatesReferencing()` beside the writers | `StateStore`, `Paging` |
| `StateChangeFeed` | `changes()` and the consumers of the feed, beside the writers of the store | `StateStore` |
| `OperationLedger_proofs` | theorems about the ledger under any client | `OperationLedger` |
| `OperationRuntime_proofs` | theorems about the runtime; both refinements | `OperationRuntime`, `OperationLedger_proofs` |
| `RuntimeLifecycle_proofs` | the same under `dispose()`, and what it ensures | `RuntimeLifecycle`, `OperationRuntime_proofs` |
| `StateStore_proofs` | theorems about the store | `StateStore` |
| `Paging_proofs` | lemmas on places, ranks and pages | `Paging` |
| `OperationHistory_proofs` | theorems about `history()` and `list()` | `OperationHistory`, `OperationLedger_proofs`, `Paging_proofs` |
| `StateReads_proofs` | theorems about the feed and the paged reads of the store | `StateChangeFeed`, `StateReaders`, `StateStore_proofs`, `Paging_proofs` |
| `LedgerOpen_proofs` | theorems about opening and migrating a file | `LedgerOpen`, `Paging_proofs` |
| `MCOperationLedger`, `MCOperationRuntime`, `MCRuntimeLifecycle`, `MCLedgerOpen`, `MCStateStore`, `MCStateReaders`, `MCStateChangeFeed` | small instances for TLC | |

### Records

An `OperationRecord` keeps every field the control flow tests. `rev` is
`semanticRevision`, `token` is `lastFencingToken`, `principal` is
`providerPrincipalDigest`, `expiresAt` is `idempotencyExpiresAt`. A result, a safe
error and an uncertainty are present or absent; an authorization is its decision.
Input digest, logical key, contract fingerprint, receipts, timestamps and reasons are
left out: within a model all calls of an operation use the same Action and input, so
the comparisons of the first three always succeed, and nothing else tests the others. The
contract fingerprint is more than a comparison where a record has none: then
`#applyContractBinding` binds it with a compare-and-set of its own, before and in the same way as
`BindPrincipal`. `run()` creates every record with a fingerprint, and only a record migrated from an
older version can lack one; no record of these models does, and that write is not modelled. State
`"absent"` stands for an operation id without a row.

Each `...Record` operator is the patch of one call site (`DispatchedRecord` is the
patch of the write-ahead dispatch, and so on); `Revised` is the `semanticRevision + 1`
that `#update` adds to all of them. `WellFormed` is `assertCrossStateInvariants`. The
code checks it as a guard of every write; the model checks it as an invariant
(`RecordsWellFormed`) instead, which shows that the guard never fires.

### Ledger

`Create`, `CasAccepts`/`CompareAndSet`, `ClaimAccepts`/`Claim` and
`RenewAccepts`/`RenewLease` are the port's methods, one atomic step each: SQLite runs
each in one IMMEDIATE transaction, the memory adapter in one synchronous body. Both
adapters give the same answers, so one operator stands for both; the SQLite `UPDATE ...
WHERE semantic_revision = ?` and the memory adapter's comparison are the same conjunct.

`LedgerSpec` is an abstract specification: it says which record may replace which
(`Successors`, by lifecycle state), not who writes or when. The runtime is shown to
implement it (`RespectsLedgerPort == LedgerSpec`, a PROPERTY of the runs `workers`,
`callers` and `lifecycle` and a theorem, with the identity mapping on `records`, `leases` and
`now`): every write that gets through, from however stale a snapshot, is a legal step over the record it replaces.

### History and lists

Every write of a record inserts one event in the same transaction, so the events of an
operation are its revisions (`Events`); a list orders records by `updatedAt`, which every
write renews, and by id. `OperationHistory` adds to the ledger under any client one reader
that follows the cursors to their end: `ReadPage` is one call of `history()` or `list()`,
`WriteOnTime` a write of the ledger with the timestamp it leaves. A cursor is the place of
the last item of a page (`Paging`); its text is opaque. `memory` says whose rule for issuing
a cursor applies: the adapters differ in two places, neither of which loses an item.
`MemoryLedger.list` issues a cursor with a page that is exactly full and the last;
`MemoryLedger.listStatesReferencing` counts matches before the cursor, so that it issues one
that leads to an empty page. A `limit` of 0, which ends a listing at once, is not modelled.

### Opening a file

`LedgerOpen` follows the constructor statement by statement. `file` is the committed content
of the database, `original` what it was at first, `openers[p]` one process. A migration is
one IMMEDIATE transaction, so it shows as a whole or not at all (`BeginMigration`,
`EndMigration`; a crash in between leaves the file alone). The creation of a new file is not
one: each `CREATE TABLE`, the application id and the version commit alone (`StampApplicationId`,
`CreateTable`, `SetUserVersion`), and each may be the last thing a process does. The version
is read once, outside any transaction (`ReadUserVersion`, `Plan`), and acted on later.
`MeetBusy` is the bounded retry, `MeetError` every error that is not "busy", `HoldLock` a
foreign transaction. A process that opened the file may then use it (`BeginWrite`,
`CommitWrite`), which is what a late opener must not damage.

`HasForm` says what a file of each version holds when an opener meets it: what the ledger of
that version wrote. A file of version 0 is empty, or its creation was cut off; rows of version 1 may be
damaged, so that their conversion fails, but one that converts had its claim and lease in step; from version 2
on the rows satisfy the ledger's invariants. Nothing is assumed of a newer file or of another
application's. A foreign database that sets neither id nor version is taken for an
empty file, as in the code; it is not modelled.

Two observations, neither of which contradicts the documentation. An opener that has read version 1
or 3 and finds the file migrated by another process when its own transaction begins fails with
`LEDGER_MIGRATION_FAILED`, although the file is sound and a second attempt would open
it. And a record migrated from version 1 has no idempotency deadline, whatever its
profile's window says.

### Runtime

One element of `Calls` is one call of `run()` or `reconcileOnly()`; `invocation[c]`
holds its arguments and `calls[c]` its local state: program counter, snapshot, retries,
abort and lease-lost flags, the Provider's answer, the outcome. An action is the code
between two awaits; it makes at most one ledger call. The program counters are listed in
the module's header.

| Action | Code |
|---|---|
| `Start` | `#runInternal` up to the first decision: `create`, the authorization and principal checks |
| `RefuseMaterial` | the check of `Operations.reconcileOnly` that the presented material names an existing operation; a direct `runtime.reconcileOnly()` is not checked and creates the record |
| `BindPrincipal`, `ReloadForBinding` | `#applyPrincipalBinding`, its write and its recursion |
| `ReadTerminal`, `RefuseReconcileOnly`, `Authorize`, `CancelBeforeClaim` | the head of the loop, by state |
| `ReadLease`, `ClaimOperation`, `Reload` | `#claim`: the lease read, the claim, the reload; the retry counter |
| `FirstDispatch`, `DispatchAndExecute` | `#dispatchAndExecute` up to the durable dispatch |
| `ExpireAfterDispatch`, `BeginExecute` | the deadline check after the dispatch |
| `SendRequest` | the request leaving `action.execute` |
| `RenewOnTimer` | the heartbeat of `#runWithLease` |
| `FinishExecution`, `FailExecution`, `YieldLostLease` | the three ends of `execute`; the last also of `reconcile`. All wait for it to settle: a lost lease aborts its signal and interrupts nothing |
| `CancelRecovery`, `BeginReconcile`, `AnswerQuery`, `ResolveReconcile`, `RecoverWithoutQuery` | `#recover` |
| `LandRequest` | the Provider applying a request, at any later time or never |
| `Abort`, `Interrupt`, `AdvanceClock` | the caller's signal; a crash or a ledger call that throws; the clock |

A second `run()` of the same runtime and operation joins the first and gets its
promise, so `Start` waits for it to end; `reconcileOnly()` is not registered there and
runs beside it.

`SafeAction` is what a caller may rely on: an operation takes its effect at most once and
ends at most once, the ending agrees with the effect, and a call is told either that ending or
that it has to ask again. The refinement mapping (`Promised`) takes the durable record for the
outcome (`Ending`), the requests that landed for the effects, and a call's return for what it was
told (`Answer`). `ImplementsSafeAction` is checked in the runs `callers` and
`lifecycle`, and proved.

### Lifecycle

`RuntimeLifecycle` runs the calls above under a lifecycle per runtime and adds `dispose()`,
one action per segment between two awaits. `lifecycle[r]` is `#lifecycle`, `handle[r]` what
the ledger's `close()` does: a SQLite handle closes, a memory ledger shared by runtimes has no
`close()`. `disposals[d]` is one `dispose()` call.

| Action | Code |
|---|---|
| `StartAccepted`, `RejectStart` | the gate of `run()` and `reconcileOnly()` |
| `MeetClosedLedger` | a ledger method after the close |
| `Renewal` | the heartbeat; after the close it can only fail |
| `CallProgress`, `ActionProgress` | the steps of the calls, the latter those that wait for the Action |
| `Quiesce`, `StartDraining` | `quiesce()`, the check for an already closed runtime and the drain |
| `AbortTheRest`, `StartHandoffs` | the two timers of `#settleInFlight` and the abort between them |
| `ReadForHandoff`, `WriteHandoff` | `#handoff`: its read, and its write over the revision it read; every error is swallowed |
| `CloseLedger`, `FinishDisposal` | `ledger.close()` and the end |

The crash of a single call and a caller's own abort are left out of this composition (they
are in the runs of `OperationRuntime`), and no Authorizer is configured, so the only thing
outside that a call waits for is its Action. A handoff that is refused or whose ledger throws is
recorded in `lost`: the code makes no promise about such an operation.

### State store

`revisions[s]` is the chain of committed revisions of subject `s` (a namespace and key),
`changes` the change log. A state record keeps its revision, its references and its
writer's identity; value, digest, timestamps and authorization are data that nothing
branches on. One element of `Writes` is one `write()` call, and its record carries it as
`identity`, so that properties can tell whose record it is.

| Action | Code |
|---|---|
| `StartWrite` | `write` up to its first `await`: the lifecycle gate, the draft |
| `CheckRef` | one round of `assertRefsExist`: the read of one target and its comparison. The code goes through the references in the order given; the model in any order |
| `CommitState` | `compareAndSetState`, one transaction for the revision, its references and its position in the change log |
| `ReportConflict` | the second read after a refused compare-and-set, and the error |
| `MeetClosedLedger` | a ledger call after the runtime closed the ledger |
| `InterruptWrite` | a crash, or a transaction that fails and rolls back |
| `CreateOperation`, `AdvanceLifecycle` | the surroundings: operations appear, the runtime goes down |

`bound` says that a store was created from a runtime: only then do the gate and the
ledger's close concern it. The lifecycle is seen through the gate: "quiescing" stands for
quiescing and draining (`RUNTIME_QUIESCING`), "closed" for closing and closed
(`RUNTIME_CLOSED`); `dispose()` sets closing and calls the ledger's `close` without an
`await` in between. Two concurrent disposals, which can set the lifecycle back, belong to
`RuntimeLifecycle`; here there is one. `ClosesLedger` separates the adapters: SQLite closes its handle, the memory
ledger has no `close`. A request is never at the model's bound on revisions, so the
bound cuts off requests, not behaviour. References are sets: a
reference listed twice (which SQLite refuses and the memory adapter takes) is
left out.

`StateReaders` adds one reader that follows the cursors of `stateHistory()` (places are
revisions), `listStates()` (places are subjects, each shown at its current revision) or
`listStatesReferencing()` (every revision that holds the reference) to their end.

`StateChangeFeed` adds `changes()` and its consumers. `Pending` is the query, `Page`,
`PageCursor` and `HasMore` its answer, `IsFuture` the check of the cursor against the
high-water mark. Consumers are outside the repository; `ReadChanges`, `ConsumeRecord`,
`PersistCursor` and `CrashConsumer` follow the loop of
`docs/how-to/store-and-watch-state.md` (page, consume each record, persist the cursor),
continued as polling, where a restart resumes from the persisted cursor. `origin[k]` is the cursor a consumer
starts from; one that lies beyond the log is foreign.

## Assumptions

- **Provider.** A request may be lost, or take effect at any later time. Under an
  operation key at most one request takes effect. A query never reports an effect that
  is not there nor misses one that is. The answers "failed" and "absent, safe to retry"
  promise that no request with an older fencing token will take effect any more: this is
  what `docs/tutorials/provider-reconciliation.md` asks of `safeToRetry`, and
  `EffectAtMostOnce` depends on it. No promise is assumed of "absent" without it.
- **One clock.** Runtimes and ledger read one clock. Skew only makes a takeover
  earlier or later, and takeovers of expired leases happen at every point anyway; it is
  not modelled.
- **Crash.** `Interrupt` ends a call at any of its steps and keeps the durable state. It
  stands for a killed process, a ledger method that throws and a throwing hook. A restart
  is another call.
- **Heartbeat.** A renewal may be refused or throw; both set `leaseLost`.
- **Cancellation.** `action.cancel` is best effort and its result is ignored; its effect
  on the Provider is a request that never lands.
- **Fairness.** Three runs check liveness, each under weak fairness of what the event loop
  and the timers run, and nothing else. `LifecycleFairSpec`: the continuations of a call
  (`CallProgress`) and the segments of a `dispose()` once it has been called
  (`DisposalProgress`); ledger methods settle. Nothing is assumed of the Action: `execute()` and
  `reconcile()` may hang for ever, also when their lease is lost or they are aborted (whatever
  follows them is in `ActionProgress`, which is not fair); requests, heartbeats, the clock and the
  call of `dispose()` itself are not fair either. `LedgerOpen!FairSpec`: the constructor's own steps; whoever is inside
  a transaction may hold the write lock for ever, since a waiting statement gives up. The feed's
  `FairSpec`: each consumer's loop; writers may stop at any point, and crashes are bounded,
  not fair.
- **SQLite.** A statement outside a transaction, and a transaction, is atomic and durable; one that did
  not commit leaves nothing after a crash. Readers see the last commit.
- **Cursors.** A position from another or a restored database that is not beyond the
  high-water mark cannot be told from a good one, as the documentation says; the feed's
  properties speak of what follows a consumer's starting position.

## Runs

| Run | Instance | Shows |
|---|---|---|
| `ledger` | 2 operations (reconcilable with a finite key; read-only), 2 runtimes, 1 principal, clock 0..3; up to revision 6 and 4 without a reader; beside a reader of a history (pages of 2) up to 4, beside one of a list (pages of 1, SQLite without filter or memory with one) up to 3 and 2 | the ledger's own invariants, under every client; a traversal misses and repeats nothing |
| `workers` | 3 calls, clock 0..2: workers and operators on a guarded operation, or workers on a reconcilable one without key | one guarded request at most, after its durable dispatch; effect at most once under query recovery; truthful record; stale snapshots and stale owners never write; a lost lease ends its call |
| `callers` | 2 calls, clock 0..2: on a reconcilable operation evidence either way or none, a principal or none, abortable calls, operators, an authorizer that may decide either way; workers and operators on an operation whose key is valid for 1 tick; readers and operators on a read-only one | the runtime implements `SafeAction`; callers are told the truth; authorization and binding races keep the port; no execution, the first included, past the deadline; evidence for a retry; reconcile-only never executes |
| `lifecycle` | 2 calls, 1 `dispose()`, clock 0..1: a guarded call beside one of another runtime, or a reconcilable one beside a `reconcileOnly()` of the same runtime; own and shared ledgers; fairness, no symmetry | handoffs keep the port and the promise; nothing is dispatched after the drain; hung work is recoverable; `dispose()` returns, and so does every call whose Action settles |
| `open` | 3 processes, 2 attempts each, 10 files: empty, creation cut off, foreign, version 1 sound and damaged, 2, 3 with and without revisions, 4, 5; one commit per process; fairness, no symmetry | the file is always what it was or complete and current; a migration loses nothing; every constructor comes back |
| `state_writers` | 4 `write()` calls, 2 subjects with references both ways, 1 operation, 2 revisions each, SQLite's close; 3 calls beside a reader with pages of 1 | chains, change log and references stay consistent; writers are told the truth; a traversal misses and repeats nothing |
| `feed` | 3 writes, 2 subjects, a consumer of both or of a single namespace, pages of 1, 1 crash, starting cursors 0 and 3; fairness, no symmetry | nothing is skipped, `hasMore` is honest, every change arrives |
| `foreign_lease`, `deny_evidence`, `principal_switch` | 2 calls | divergences, below |
| `read_only_replay` | 2 calls of one runtime on a read-only operation | divergence, below |
| `lifecycle_monotonic` | the instance of `lifecycle` with 2 `dispose()` calls | divergence, below |

Each run takes between one and three minutes on two cores.

**Why these bounds suffice for the cases of interest.** Two runtimes give a foreign and
an own lease. Three calls give an owner, a second that takes over, and a third that meets
the result (or a zombie between two live owners). A lease lasts one tick, so clock 0..2
allows two expiries, and a key of one tick expires at, before and after a takeover or
between a dispatch and its execution. All calls of a behaviour are on one operation
(`Workloads`), since operations share nothing; a run with several profiles checks
them one after the other.
`ClaimRetryLimit` is 1 (10 in the code): the loser of a claim both retries and gives up within
reach. The principals are one and none, which is enough to bind and to conflict. Calls
and runtimes are symmetric (they only occur in sets and as function arguments); the
liveness runs do not use symmetry. The ledger run stops at its bound on revisions, which is
why it alone turns deadlock checking off; in the other runs the only stop is a step of
its own (`Finished`, `AllWritten`, `AllEnded`), when every call has returned.

For the lifecycle, one call that is drained or handed off and one that nobody drains (of another
runtime, or an operator's) are the two cases `dispose()` tells apart. One tick lets a lease
expire, so the other runtime can take the operation over before, between and after the
read and the write of the handoff. Three openers give one that has read an old version, one
that migrates in the meantime and one that uses the result or holds the lock; two attempts (5 in
the code) give a retry and an end of retrying. The version 1 file holds a dispatched and a resumed
operation, because only those have a claim to convert.

For the state store, four writes are the least with which two race for each of two
revisions of one subject, or one subject moves on twice between a reference's check and its
commit; they are symmetric. Three writes give the feed more changes than a page
holds, in either namespace order, and starting cursor 3 lies beyond the log at first and at
its end later. A second crash of one consumer only repeats the first from a later cursor.

**The properties.**

- `LeaseBacksClaim`: a lease exists exactly while its operation is owned, for its owner,
  under its last token. `FencingMonotone`: tokens never decrease; ownership changes only
  under a new token. `AttemptsNeverOvertakeTokens`: a token identifies one attempt.
- `TerminalIsFinal`: nothing rewrites a settled operation but a late principal binding.
- `SnapshotIsRevision`: a snapshot whose revision is current is the current record. This
  is what makes `{...snapshot, ...patch}` safe.
- `DispatchIsDurableFirst`: requests carry issued tokens and are covered by the durable
  attempt counter, through all crashes.
- `GuardedRequestedOnce`, `EffectAtMostOnce`, `ExecutesOnlyOnEvidence`: the safety contract
  of the profiles with an external effect. The last also says of every execution, a first or a
  read-only one included, that a normal call begins it and within the deadline. Of further
  executions of a read-only operation it says nothing: they would do no harm.
- `RecordTellsTheTruth`: a recorded success has its effect; a denied, cancelled or failed
  operation sent nothing. `CallerWasToldTheTruth`: the same towards the caller.
- `StaleOwnerNeverWrites`: an overtaken call changes neither record nor lease.
  `LostLeaseEndsTheCall`: neither does one whose heartbeat failed, overtaken or not; all it
  can still tell its caller is to ask again.
- `ImplementsSafeAction`: the runtime, with or without a `dispose()`, implements `SafeAction`.
- `OnlyActionsHang`: every call returns or is for ever inside its `execute()` or
  `reconcile()`. `DisposeReturns`: `dispose()` returns even then, and beside another `dispose()`.
- `NothingDispatchedAfterDrain`: when the ledger closes, what is on its way outside is all there
  will be; only the abort of the calls still running ensures it. `HungWorkIsHandedOff`: no call
  left in its `execute()` still holds its operation then (one left in its `reconcile()` may, until
  its lease expires).
- `FileIsOldOrCurrent`: at every instant, so after every crash, the file is what it was or a
  complete current ledger that satisfies the ledger's own invariants, and whoever has it open has
  the latter. `MigrationKeepsTheFacts`: outcomes, attempts, tokens, leases, events and
  revisions survive. `OpenersEnd`: every constructor returns or throws.
- `TraversalsMissNothing`, `ReadersMissNothing`: following the cursors meets everything that was
  there at the beginning and stayed in the list, and nothing twice, whatever is written between
  two pages.
- `RevisionsAreGapless`: chains are 1, 2, 3, ...; the memory adapter's lookup by place
  depends on it. `ChangeLogMatchesRevisions`: the log names every revision once, in chain
  order. `CommittedIsImmutable`: neither changes behind its end.
- `ReferencesPointBack`: what a revision refers to was committed before it, so
  references are neither dangling nor circular, although their check and the commit are apart.
- `WritersAreToldTheTruth`: "written" means in the chain for good, anything else nowhere.
- `CursorSkipsNothing`: no cursor, volatile or persisted, has passed a change its consumer
  has not taken in. `NoMoreMeansCaughtUp`: `hasMore: false` is honest about the log as it was
  read. `ChangesArrive`: every change reaches every consumer that asks for it, so no
  cursor this ledger issued is refused.

Each property of a passing run has a mutant in the module (marked `mutant:`), a plausible
bug under which TLC finds the property violated.

## Proofs

Every safety property of a passing run, invariant or action property, and both refinements are
theorems: they hold for every value of the constants (any number of operations, runtimes, calls,
disposals, writers, consumers, processes; any profile, workload, page size), from the assumptions
named in the modules and nothing else. Clock, crash and revision bounds (`MaxClock`,
`MaxCrashes`, `MaxRevision`, ...) appear in the proofs only as numbers. The assumptions say what
the code's types and `defineAction` ensure of an input (`RecordsAssumption`,
`RuntimeAssumption`, `StateStoreAssumption`, ...), that ids are ordered (`HistoryAssumption`,
`ReadersAssumption`), and what a file of an older version holds (`OriginalsAssumption`).

| Module | Theorems | Property |
|---|---|---|
| `OperationLedger_proofs` | `LedgerTypeCorrect`, `LeaseBacksClaimAlways`, `AttemptsCovered`, `RecordsStayWellFormed` | `LedgerTypeOK`, `LeaseBacksClaim`, `AttemptsNeverOvertakeTokens`, `RecordsWellFormed` |
| | `FencingTokensFence`, `TerminalStaysFinal` | `FencingMonotone`, `TerminalIsFinal` |
| `OperationRuntime_proofs` | `RuntimeInvariant`, `RuntimeTypeCorrect`, `SnapshotsAreRevisions` | `TypeOK`, `SnapshotIsRevision` |
| | `RuntimeRespectsPort`, `RuntimeKeepsLedger` | `RespectsLedgerPort`, the ledger's own |
| | `OvertakenNeverWrites`, `LostLeasesEndCalls` | `StaleOwnerNeverWrites`, `LostLeaseEndsTheCall` |
| | `EffectInvariant`, `DispatchesAreDurableFirst`, `GuardedIsRequestedOnce`, `EffectHappensAtMostOnce`, `ExecutionsHaveEvidence` | `DispatchIsDurableFirst`, `GuardedRequestedOnce`, `EffectAtMostOnce`, `ExecutesOnlyOnEvidence` |
| | `RecordsTellTheTruth`, `CallersAreToldTheTruth`, `RuntimeKeepsItsPromise` | `RecordTellsTheTruth`, `CallerWasToldTheTruth`, `ImplementsSafeAction` |
| `RuntimeLifecycle_proofs` | `LifecycleInvariant`, `LifecycleTypeCorrect`, `LifecycleRespectsPort`, `LifecycleKeepsItsPromise` | `LifecycleTypeOK`, `RespectsLedgerPort`, `ImplementsSafeAction` |
| | `DrainedNeverDispatches`, `HungWorkHandedOff` | `NothingDispatchedAfterDrain`, `HungWorkIsHandedOff` |
| `LedgerOpen_proofs` | `OpenInvariant`, `FileIsOldOrCurrentAlways`, `MigrationKeepsTheFactsAlways` | `FileIsOldOrCurrent`, `MigrationKeepsTheFacts` |
| `OperationHistory_proofs` | `HistoryInvariant`, `TraversalsMissNothingEver` | `TraversalsMissNothing` |
| `StateStore_proofs` | `StoreTypeCorrect`, `RevisionsStayGapless`, `ChangeLogStaysComplete`, `CommittedStaysImmutable`, `ReferencesAlwaysPointBack`, `WritersAreAlwaysToldTheTruth` | `StoreTypeOK`, `RevisionsAreGapless`, `ChangeLogMatchesRevisions`, `CommittedIsImmutable`, `ReferencesPointBack`, `WritersAreToldTheTruth` |
| `StateReads_proofs` | `FeedInvariant`, `CursorsSkipNothing`, `NoMoreIsHonest` | `CursorSkipsNothing`, `NoMoreMeansCaughtUp` |
| | `ReadersInvariant`, `ReadersMissNothingEver` | `ReadersMissNothing` |

`Paging_proofs` holds the lemmas about cursors and pages that three of them cite.

**The ledger.** A ledger step touches one operation, in one of five ways
(`OperationStep`: untouched, created, advanced by a successor, taken over, renewed).
Lemmas say of each patch what it does to the claim (`SuccessorsClaim`), to the counters
(`SuccessorsCounters`) and to well-formedness; each invariant then follows by the five
cases. `LeaseBacksClaim` is inductive relative to the type only with its conjunct that a
claim's owner is a runtime: without it a claim that loses `resumeFrom` at dispatch could
become equal to no claim. `FencingMonotone` needs `LeaseBacksClaim` and
`AbsentIsEmpty` (no row, no token).

**The runtime implements the ledger's port.** `RuntimeInv` adds to types and the ledger's
invariants what a call holds between two awaits. A write is the call's snapshot with a patch, so it
is a legal step of the port exactly if the snapshot is the record it replaces: that is
`SnapshotIsRevision`, which only speaks of the same revision and leaves all else to the guard of the
compare-and-set. It is not inductive alone. `SnapshotsWellFormed` and `CallsFit` (the snapshot is
in a state that fits the call's place in the code) are needed to know which patch meets which
record, and `ActiveHasRecord` that a call never finds its row gone. The
actions are first reduced to the kinds of step that the invariants tell apart (lemma
`RuntimeStep`, `RuntimeMoved`: a call enters, looks, claims, revises, dispatches, settles, answers or
quits; a lease is renewed; a request leaves or lands; the surroundings move). All later proofs argue
by kind, which is also how the lifecycle uses them. With the port respected, the six
results of the ledger hold of the runtime by citation (`RuntimeKeepsLedger`).
`LostLeaseEndsTheCall` needs one fact of its own, `LossInMidWork`: the flag is raised only while the
Action runs, and every segment that follows the Action looks at it first.

**Effects.** `EffectAtMostOnce` relates the Provider to records that several calls
write, so its invariant `EffectInv` must say what is known at every point in between:
every issued token is durable and spends an attempt of its own (`IssuedCovered`), no
operation without key and query has a second one (`AttemptsFit`); an answer of the Provider still
holds when the call acts on it (`AnswersHold`), because what it rules out stays fenced;
a retry under way is justified (`RetryJustified`), and where there is a query a newer token exists only
once older ones are ruled out (`OlderRuledOut`). Then at most one request lands
(`LandedOnce`), recorded outcomes agree with what landed (`OutcomesHold`), and what callers were
told is the ending (`ToldHolds`). The refinement of `SafeAction` (`RuntimeKeepsItsPromise`)
takes the kinds of step one by one and names the step of the promise, or the stutter, that each one
is; the promise's guards are conjuncts of `EffectInv`.

**The lifecycle.** The steps of `dispose()` are two more kinds of `RuntimeMoved` (an abort, a
handoff), so `RuntimeInv`, `EffectInv` and both refinements hold beside it. A handoff writes
without owning the lease; it is legal because it writes over the revision it read (`HandoffsFit`).
`Drained` orders the doors (no call starts once a disposal has begun, all are aborted once
it has drained), which is `NothingDispatchedAfterDrain`. `HungWorkIsHandedOff` needs
`HandoffsHold`: while handoffs run, every call in flight is still on the list, was lost, or has let go of
its lease (its token is not the lease's); a renewal cannot bring the lease back because tokens
only grow.

**The opening of a file.** The write lock plays no part in the argument, nor does the number of
attempts. What an opener read before its turn to write came may be out of date, but in one way only: the file has
become current (`OpenerFits`). `OpenInv` says that the file is the original but for its id and
empty tables, or current with the original's rows, converted if they were version 1
(`RowsAreKept`), and with its revisions at the head of the log (`LogLeadsWithTheOld`). Each writing step is shown
to make an old file current or to leave a current one as it is: the late `PRAGMA user_version` of a
creator writes what is there, and a late migration fails or changes nothing
(`MigrationOfCurrent`). The proof corrected the property: another
application's file may carry any version, so `FileIsOldOrCurrent` now promises a current ledger
only of a file that is this application's.

**Paged reads.** A page is the set of places whose rank beyond the cursor is at most the limit;
`Paging_proofs` counts predecessors to show that a page has no gap, that the cursor it returns parts what it
shows from what it leaves, and that without a next page nothing is left. What remains is why nothing moves
across a cursor. A state list shows each subject at a fixed place, and a history grows only beyond
its cursors (`ReadersInv`). A list of operations is ordered by update time, newest first, and a
write moves a record to the front: `HistoryInv` keeps `TimesFit` (no update lies ahead of the
clock), hence what moves, moves behind the cursor; this is why the property speaks of
the records that nobody has written since. `FeedInv` says that a cursor is where the consumer
started or a position the log has issued (`CursorIsIssued`), that what was asked for up to it was
consumed or is on the page at hand (`NothingSkipped`), and that there is a page only while one is consumed.

**The state store.** A step either commits for one call or leaves chains and log alone
(`StoreMoves`), and a commit adds one record and one position, at the length it
expected (`CommitEffect`). The first four results follow. `ReferencesPointBack` is not inductive:
it needs that every reference a waiting call has already checked still points at a
committed change (`CheckedRefsExist`), which holds because the log only grows
(`SettledStays`). `WritersAreToldTheTruth` needs that a call without an outcome has no
record yet, hence that running calls are silent (`SilentWhileRunning`).

**Model-checked only.** The four liveness properties, `DisposeReturns`, `OnlyActionsHang`,
`OpenersEnd` and `ChangesArrive`: liveness under fairness, and `ENABLED`, are out of this prover's
reach. The five counterexamples are TLC's by nature. Induction over data is out of reach
too; nothing here needs it, because pages, logs and chains are described by
cardinalities and ranks instead of recursion.

## Divergences from the documentation

Five runs end in a counterexample. Each states a sentence of the documentation as a
property.

- `foreign_lease`. The how-to for several workers says a worker that meets a live foreign
  lease cannot execute at the same time. A call that reads the other worker's `claimed`
  record (after a lost write or claim, or because it was `claimed` when the call
  started) skips `#claim` and dispatches under the claim it read. The revision check
  still lets only one of the two dispatch, which is why `GuardedRequestedOnce` holds; but the one
  that executes need not be the one that holds the lease.
- `deny_evidence`. Contradictory evidence is said to fail closed. The check happens once;
  a call with deny evidence that loses its authorization write to an allow executes.
- `principal_switch`. An operation is said never to continue under another principal.
  A call without one that passed the check before another call bound its own executes.
- `read_only_replay`. A replay of a `readOnly()` Action is said to be free to execute again, also
  after a crash. The code executes a read-only operation once: recovery knows only a query
  and an operation key, so an operation whose process died after the dispatch becomes uncertain, and
  every later call is told so. No harm is done, but the caller needs a new identity to get an answer.
- `lifecycle_monotonic`. The lifecycle is said to move only forward. `dispose()` returns early
  only from a closed runtime, so a second one called while the first is closing the ledger sets
  the lifecycle from closing back to draining. The gates stay shut in both states; callers are told
  `RUNTIME_QUIESCING` where `RUNTIME_CLOSED` would be true.

A sixth disagreement needs no run, a single write shows it. `STATE_REF_NOT_FOUND` is documented
(`docs/dev/11-state.md:119`) as the answer to a target that does not exist. `assertRefsExist`
(`CheckRef`, `Resolves`) asks whether the referenced revision is the subject's current one, so a
reference to an existing older revision gets it too. The refusal is on the safe side:
`ReferencesPointBack` holds either way.

A further observation is no divergence: the handoff does not look at the lease. When another
runtime has taken the operation over and is executing it, the handoff of the first marks the record
uncertain and releases that runtime's live lease. Both refinements hold all the same: the
executing runtime's later write is refused, and recovery asks the Provider.

The later checks that keep the damage small (revision, token, deadline) are the subject
of the passing runs.

## Plan

Done: records, ledger, recovery policy, runtime pipeline, state store, change feed; the
lifecycle and its handoffs; opening and migrations; histories and lists; the abstract
specification of the promise and its refinement; proofs of every safety property and of both
refinements.

What is left, in this order:

1. An abstract specification of the state store (a map of chains that a write extends or leaves
   alone), which `StoreSpec`, the readers and the feed implement, with its proof.
2. What the recovery evaluator decides, for every record and profile, as lemmas about `RecoveryPolicy`
   that stand on their own and not only inside the runtime's proofs.
3. The MCP host: request handling in front of `run()` and its shutdown.

## Not modelled

- **Canonical JSON, digests, size limits, codec field by field**: pure data; equality of digests
  is equality of model values, and of the codec only the cross-state invariants are
  modelled.
- **Operator authorization, operator views, ledger capability checks**: pure checks before an
  operation exists, and projections.
- **Contract fingerprints**: all calls of a model use one Action, so a fingerprint never drifts. The
  one durable step they have, binding one to a migrated record that has none, is left out (see
  [records](#records)).
- **Errors**: an error is an outcome of a call; its text and code are wording.
- **Hosts** (`core/src/host.ts`, `host-kit`, `host-mcp`, `dsh`): adapters in front of `run()`.
- **The journal mode and SQLite's own recovery** are SQLite's.
- **Clock skew**: see the assumption above.
- **Tools** (`src/tools`): scripts without a part in the running program.
