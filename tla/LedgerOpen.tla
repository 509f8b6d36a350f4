------------------------------ MODULE LedgerOpen ------------------------------
(***************************************************************************)
(* Several processes open one SQLite file (ledger-sqlite/src/index.ts and  *)
(* migrations.ts): it may be empty, of an older schema version, current,   *)
(* of a newer version or another application's.  Every opener reads the    *)
(* version outside any transaction and then creates, migrates or simply    *)
(* uses the file; it retries when the file is busy, it may be killed       *)
(* between any two statements, and other openers may be at work beside it. *)
(*                                                                         *)
(* A migration is one IMMEDIATE transaction: SQLite makes it visible as a  *)
(* whole or, after an error or a crash, not at all.  The creation of a new *)
(* file is a sequence of statements that commit one by one.                *)
(***************************************************************************)
EXTENDS OperationRecords, Paging, SequencesExt

CONSTANTS Processes,
          Subjects,         \* numbers, in (namespace, key) order
          Originals,        \* the files the openers may meet
          MaxAttempts,      \* openRetry.attempts
          MaxRevision       \* bound: state revisions per subject

ASSUME OpenAssumption ==
    /\ Subjects \subseteq Nat
    /\ MaxAttempts \in Nat \ {0}
    /\ MaxRevision \in Nat

VARIABLES file,         \* the committed content of the database file
          original,     \* what it was at first
          openers       \* openers[p]: the local state of process p

vars == <<file, original, openers>>

CurrentVersion == 4

\* The tables of createSchema, in the order it creates them: the first stands
\* for operations, events and leases, the second for revisions and references.
Tables == <<"operations", "revisions", "changes">>
AllTables == {Tables[i] : i \in 1..3}

LeaseRow == [owner : Runtimes \cup {Nobody}, token : Nat, expiresAt : Nat]
NoRow == [owner |-> Nobody, token |-> 0, expiresAt |-> 0]

\* A row of the private v1 layout: the claim holds its expiry, and resumeFrom
\* stands beside it; fields that only changed their name carry the new one.
V1Record ==
    [schemaVersion : Nat, state : OperationStates, rev : Nat, attempts : Nat, token : Nat,
     claim : LeaseRow, resumeFrom : Claimable \cup {"none"},
     authorization : {"none", "allow", "deny"}, uncertainty : BOOLEAN, result : BOOLEAN,
     error : BOOLEAN, reconciliation : {"none", "succeeded", "failed"}]
V1Claim(rec) == rec.claim
Convertible(v1) == v1.schemaVersion = 1

FileContent ==
    [application : {"none", "ordarium", "other"}, version : Nat,
     tables : SUBSET AllTables, layout : {"v1", "current"},
     operations : [Ops -> OperationRecord \cup V1Record],
     events : SUBSET (Ops \X (OperationRecord \cup V1Record)),
     leases : [Ops -> LeaseRow],
     revisions : SUBSET (Subjects \X Nat), changes : Seq(Subjects \X Nat)]

EmptyFile ==
    [application |-> "none", version |-> 0, tables |-> {}, layout |-> "current",
     operations |-> [op \in Ops |-> Absent], events |-> {},
     leases |-> [op \in Ops |-> NoRow], revisions |-> {}, changes |-> <<>>]

-----------------------------------------------------------------------------
(***************************************************************************)
(* The migrations.                                                         *)
(***************************************************************************)
TransformAsNew(v1) ==                   \* mutant: the attempts are counted anew
    [Absent EXCEPT
        !.state = v1.state, !.rev = v1.rev, !.token = v1.token,
        !.claim = IF V1Claim(v1) = NoRow THEN NoClaim
                  ELSE [owner |-> v1.claim.owner, token |-> v1.claim.token,
                        resumeFrom |-> IF v1.state = "claimed" THEN v1.resumeFrom ELSE "none"],
        !.authorization = v1.authorization, !.uncertainty = v1.uncertainty,
        !.result = v1.result, !.error = v1.error, !.reconciliation = v1.reconciliation]

\* transformV1Record: the expiry moves to a lease of its own, resumeFrom into
\* the claim it belongs to, and no deadline is known.
TransformV1Record(v1) ==
    [Absent EXCEPT
        !.state = v1.state, !.rev = v1.rev, !.attempts = v1.attempts, !.token = v1.token,
        !.claim = IF V1Claim(v1) = NoRow THEN NoClaim
                  ELSE [owner |-> v1.claim.owner, token |-> v1.claim.token,
                        resumeFrom |-> IF v1.state = "claimed" THEN v1.resumeFrom ELSE "none"],
        !.authorization = v1.authorization, !.uncertainty = v1.uncertainty,
        !.result = v1.result, !.error = v1.error, !.reconciliation = v1.reconciliation]

Converts(v1) == Convertible(v1) /\ WellFormed(TransformV1Record(v1))

\* ROW_NUMBER() OVER (ORDER BY namespace, key, revision).
RowNumber(revs, rev) == Cardinality({other \in revs : Precedes(other, rev)}) + 1

InMigrationOrder(revs) ==
    [i \in 1..Cardinality(revs) |-> CHOOSE rev \in revs : RowNumber(revs, rev) = i]

\* Version 1 is read by columns the current layout does not have; version 3 is
\* backfilled into a change log that must not hold a position yet.
MigrationSucceeds(from) ==
    /\ from = 1 => /\ file.layout = "v1"
                   /\ \A op \in Ops : Exists(file.operations[op]) => Converts(file.operations[op])
                   /\ \A event \in file.events : Converts(event[2])
    /\ from = 3 => file.changes = <<>>

\* What every migration ends with.
Upgraded(content) == [content EXCEPT !.version = CurrentVersion, !.tables = AllTables]

MigratedFromV1(content) ==
    [content EXCEPT
        !.layout = "current",
        !.operations = [op \in Ops |-> IF Exists(@[op]) THEN TransformV1Record(@[op]) ELSE Absent],
        !.leases = [op \in Ops |-> IF Exists(content.operations[op])
                                   THEN V1Claim(content.operations[op]) ELSE NoRow],
        !.events = {<<event[1], TransformV1Record(event[2])>> : event \in @}]

Migrated(from, content) ==
    CASE from = 1 -> Upgraded(MigratedFromV1(content))
      [] from = 2 -> Upgraded(content)
      [] from = 3 -> Upgraded([content EXCEPT !.changes = InMigrationOrder(content.revisions)])

-----------------------------------------------------------------------------
(***************************************************************************)
(* What a file of each version holds: what the ledger of that version      *)
(* wrote.  Nothing is assumed of a newer one or of another application's.  *)
(***************************************************************************)
Current == INSTANCE OperationLedger WITH
    records <- file.operations, leases <- file.leases, now <- 0, LeaseMs <- 1, MaxClock <- 0

RowsAreSound(content) ==
    \A op \in Ops :
        /\ content.operations[op] \in OperationRecord
        /\ Exists(content.operations[op]) => WellFormed(content.operations[op])
        /\ Current!ClaimIsLeased(content.operations[op], content.leases[op])

\* A v1 ledger held a claim exactly while it owned the operation.
V1RowsAreSound(content) ==
    /\ \A op \in Ops :
        LET row == content.operations[op] IN
        \/ row = Absent
        \/ /\ row \in V1Record
           /\ Converts(row) => Current!ClaimIsLeased(TransformV1Record(row), V1Claim(row))
    /\ \A event \in content.events : event[2] \in V1Record

ChainOf(revs, s) == {rev \in revs : rev[1] = s}

\* The revisions of a subject are 1, 2, 3, ...
ChainsAreGapless(revs) ==
    /\ IsFiniteSet(revs)
    /\ \A s \in Subjects : ChainOf(revs, s) = {s} \X (1..Cardinality(ChainOf(revs, s)))

\* The change log holds every revision once, each chain in its order.
LogIsComplete(revs, log) ==
    /\ ToSet(log) = revs
    /\ Len(log) = Cardinality(revs)
    /\ \A i, j \in 1..Len(log) : i < j /\ log[i][1] = log[j][1] => log[i][2] < log[j][2]

HasForm(content) ==
    /\ content.version = 0 =>
          content = [EmptyFile EXCEPT !.application = content.application,
                                      !.tables = content.tables]
    /\ content.version = 1 => content.layout = "v1" /\ V1RowsAreSound(content)
    /\ content.version \in 2..4 => content.layout = "current" /\ RowsAreSound(content)
    /\ content.version \in 1..2 => content.revisions = {} /\ content.changes = <<>>
    /\ content.version = 3 => ChainsAreGapless(content.revisions) /\ content.changes = <<>>
    /\ content.version = CurrentVersion =>
          /\ content.application = "ordarium" /\ content.tables = AllTables
          /\ ChainsAreGapless(content.revisions)
          /\ LogIsComplete(content.revisions, content.changes)

ASSUME OriginalsAssumption ==
    \A content \in Originals :
        content \in FileContent /\ (content.application # "other" => HasForm(content))

-----------------------------------------------------------------------------
(***************************************************************************)
(* The constructor.  pc of an opener:                                      *)
(*   connecting  not begun, or about to try again                          *)
(*   connected   about to read the application id                          *)
(*   identified  about to read the schema version                          *)
(*   stamping    about to set the application id                           *)
(*   creating    creates the tables of an empty file, one by one           *)
(*   upgrading   about to begin its migration transaction                  *)
(*   migrating   inside it                                                 *)
(*   open        the constructor has returned                              *)
(*   writing     uses the ledger: inside a transaction                     *)
(*   holding     not an opener: a foreign connection inside a transaction  *)
(*   closed, failed, dead                                                  *)
(***************************************************************************)
OpenerAt(p, pc) == openers[p].pc = pc
GoTo(p, pc) == openers' = [openers EXCEPT ![p].pc = pc]
Fail(p, reason) == openers' = [openers EXCEPT ![p].pc = "failed", ![p].reason = reason]

WriteLocked == \E p \in Processes : openers[p].pc \in {"migrating", "writing", "holding"}

Connect(p) ==
    /\ OpenerAt(p, "connecting")
    /\ GoTo(p, "connected")
    /\ UNCHANGED <<file, original>>

ReadApplicationId(p) ==
    /\ OpenerAt(p, "connected")
    /\ IF file.application = "other"
       THEN Fail(p, "open-failed")
       ELSE openers' = [openers EXCEPT ![p].pc = "identified",
                                       ![p].application = file.application]
    /\ UNCHANGED <<file, original>>

\* What the version read asks for; it is not read again.
Plan(version) ==
    CASE version = 0 -> "creating"
      [] version \in 1..3 -> "upgrading"
      [] version = CurrentVersion -> "open"

ReadUserVersion(p) ==
    /\ OpenerAt(p, "identified")
    /\ IF file.version > CurrentVersion
       THEN Fail(p, "newer-schema")
       ELSE openers' = [openers EXCEPT
                ![p].version = file.version,
                ![p].pc = IF openers[p].application = "none" THEN "stamping"
                                                             ELSE Plan(file.version)]
    /\ UNCHANGED <<file, original>>

StampApplicationId(p) ==
    /\ OpenerAt(p, "stamping") /\ ~ WriteLocked
    /\ file' = [file EXCEPT !.application = "ordarium"]
    /\ GoTo(p, Plan(openers[p].version))
    /\ UNCHANGED original

Missing == {i \in 1..3 : Tables[i] \notin file.tables}
FirstMissing == CHOOSE i \in Missing : \A j \in Missing : i <= j

CreateTableOfCurrent(p) ==              \* mutant: the version is set first
    /\ OpenerAt(p, "creating") /\ ~ WriteLocked
    /\ Missing # {}
    /\ file' = [file EXCEPT !.tables = @ \cup {Tables[FirstMissing]}, !.version = CurrentVersion]
    /\ UNCHANGED <<original, openers>>

\* CREATE ... IF NOT EXISTS passes over what another opener has created.
CreateTable(p) ==
    /\ OpenerAt(p, "creating") /\ ~ WriteLocked
    /\ Missing # {}
    /\ file' = [file EXCEPT !.tables = @ \cup {Tables[FirstMissing]}]
    /\ UNCHANGED <<original, openers>>

SetUserVersion(p) ==
    /\ OpenerAt(p, "creating") /\ ~ WriteLocked
    /\ Missing = {}
    /\ file' = [file EXCEPT !.version = CurrentVersion]
    /\ GoTo(p, "open")
    /\ UNCHANGED original

BeginMigration(p) ==
    /\ OpenerAt(p, "upgrading") /\ ~ WriteLocked
    /\ GoTo(p, "migrating")
    /\ UNCHANGED <<file, original>>

EndMigration(p) ==
    LET from == openers[p].version IN
    /\ OpenerAt(p, "migrating")
    /\ IF MigrationSucceeds(from)
       THEN file' = Migrated(from, file) /\ GoTo(p, "open")
       ELSE Fail(p, "migration-failed") /\ UNCHANGED file
    /\ UNCHANGED original

RetryWithoutLimit(p) == TRUE            \* mutant: the attempts are not counted

Retry(p) == openers[p].attempt < MaxAttempts

\* A statement that waits for the write lock gives up after the connection's
\* timeout; the handle is closed and the constructor starts over, or throws.
MeetBusy(p) ==
    /\ openers[p].pc \in {"connecting", "stamping", "creating", "upgrading"}
    /\ WriteLocked
    /\ IF Retry(p)
       THEN openers' = [openers EXCEPT
                ![p].pc = "connecting",
                ![p].attempt = IF @ < MaxAttempts THEN @ + 1 ELSE @]
       ELSE Fail(p, "busy")
    /\ UNCHANGED <<file, original>>

OpenStep(p) ==
    \/ Connect(p) \/ ReadApplicationId(p) \/ ReadUserVersion(p) \/ StampApplicationId(p)
    \/ CreateTable(p) \/ SetUserVersion(p) \/ BeginMigration(p) \/ EndMigration(p)
    \/ MeetBusy(p)

-----------------------------------------------------------------------------
(***************************************************************************)
(* Beside the constructor: errors, crashes, and handles in use.            *)
(***************************************************************************)
Opening(p) ==
    openers[p].pc \in {"connecting", "connected", "identified", "stamping", "creating",
                       "upgrading", "migrating"}

\* A full disk, a corrupt page, a failing read: not retried.
MeetError(p) ==
    /\ Opening(p)
    /\ Fail(p, IF openers[p].pc \in {"upgrading", "migrating"} THEN "migration-failed" ELSE "error")
    /\ UNCHANGED <<file, original>>

Crash(p) ==
    /\ Opening(p) \/ OpenerAt(p, "writing")
    /\ GoTo(p, "dead")
    /\ UNCHANGED <<file, original>>

BeginWrite(p) ==
    /\ OpenerAt(p, "open") /\ ~ WriteLocked
    /\ GoTo(p, "writing")
    /\ UNCHANGED <<file, original>>

\* The next revision of a subject with its position in the change log.  Bound:
\* a process commits once and closes its handle.
CommitWrite(p) ==
    /\ OpenerAt(p, "writing")
    /\ \E s \in Subjects : LET r == Cardinality(ChainOf(file.revisions, s)) + 1 IN
        /\ r <= MaxRevision
        /\ file' = [file EXCEPT !.revisions = @ \cup {<<s, r>>}, !.changes = Append(@, <<s, r>>)]
    /\ GoTo(p, "closed")
    /\ UNCHANGED original

\* Another program, or a ledger of an older version, locks the file.
HoldLock(p) ==
    /\ OpenerAt(p, "connecting") /\ ~ WriteLocked
    /\ openers[p].attempt = 1
    /\ GoTo(p, "holding")
    /\ UNCHANGED <<file, original>>

ReleaseLock(p) ==
    /\ OpenerAt(p, "holding")
    /\ GoTo(p, "closed")
    /\ UNCHANGED <<file, original>>

CloseHandle(p) ==
    /\ OpenerAt(p, "open")
    /\ GoTo(p, "closed")
    /\ UNCHANGED <<file, original>>

AllEnded ==
    (\A p \in Processes : openers[p].pc \in {"closed", "failed", "dead"}) /\ UNCHANGED vars

Init ==
    /\ original \in Originals
    /\ file = original
    /\ openers = [p \in Processes |->
          [pc |-> "connecting", attempt |-> 1, application |-> "none", version |-> 0,
           reason |-> "none"]]

Next ==
    \/ \E p \in Processes :
        \/ OpenStep(p) \/ MeetError(p) \/ Crash(p)
        \/ BeginWrite(p) \/ CommitWrite(p) \/ CloseHandle(p)
        \/ HoldLock(p) \/ ReleaseLock(p)
    \/ AllEnded

Spec == Init /\ [][Next]_vars

\* The constructor runs on.  A process that uses or locks the file may hang
\* inside its transaction and hold the write lock for ever.
FairSpec == Spec /\ \A p \in Processes : WF_vars(OpenStep(p))

-----------------------------------------------------------------------------
(***************************************************************************)
(* Properties.                                                             *)
(***************************************************************************)
\* At every instant, so also after a crash, the file is either what it was
\* (but for its application id and, in an empty file, tables without rows), or
\* a complete current ledger that satisfies the ledger's own invariants.
\* Whoever has it open has it open as the latter, although the version was
\* read before others created, migrated and used the file.
FileIsOldOrCurrent ==
    /\ IF file.version = CurrentVersion /\ file.application # "other"
       THEN /\ file.application = "ordarium"
            /\ file.layout = "current" /\ file.tables = AllTables
            /\ Current!RecordsWellFormed /\ Current!LeaseBacksClaim
            /\ ChainsAreGapless(file.revisions)
            /\ LogIsComplete(file.revisions, file.changes)
       ELSE /\ file = [original EXCEPT !.application = file.application, !.tables = file.tables]
            /\ file.tables # original.tables => original.version = 0
    /\ original.application = "other" \/ original.version > CurrentVersion => file = original
    /\ \A p \in Processes : openers[p].pc \in {"open", "writing"} =>
          file.version = CurrentVersion /\ file.application = "ordarium"

DurableFacts ==
    {"state", "rev", "attempts", "token", "authorization", "uncertainty", "result", "error",
     "reconciliation"}
SameFacts(rec, old) == \A fact \in DurableFacts : rec[fact] = old[fact]

\* Nothing an older version stored is lost or altered: every operation keeps
\* its outcome, attempts and fencing token, an owner its lease until the expiry
\* it was given, the history its events, and the revisions, which had no commit
\* order, lead the change log in migration order.
MigrationKeepsTheFacts ==
    /\ \A op \in Ops : Exists(original.operations[op]) =>
        /\ SameFacts(file.operations[op], original.operations[op])
        /\ file.layout # original.layout =>
              file.leases[op] = V1Claim(original.operations[op])
    /\ \A event \in original.events :
          \E kept \in file.events : kept[1] = event[1] /\ SameFacts(kept[2], event[2])
    /\ original.revisions \subseteq file.revisions
    /\ original.version = 3 /\ file.version = CurrentVersion =>
          SubSeq(file.changes, 1, Cardinality(original.revisions))
              = InMigrationOrder(original.revisions)

\* Every constructor comes back, with a handle or an error, whoever else is
\* creating, migrating or hanging inside a transaction on the same file.
OpenersEnd == \A p \in Processes : Opening(p) ~> ~ Opening(p)

=============================================================================
