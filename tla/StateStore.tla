------------------------------ MODULE StateStore ------------------------------
(***************************************************************************)
(* Management state (core/src/state.ts over the state tables of a ledger): *)
(* concurrent write() calls on subjects, each a compare-and-set on the     *)
(* subject's revision, with references to operations and to revisions of   *)
(* other subjects, and the change log committed with every revision.       *)
(*                                                                         *)
(* One element of Writes is one write() call.  It checks its references    *)
(* one await at a time and only then commits, so anything may be written   *)
(* between its checks and its commit.                                      *)
(***************************************************************************)
EXTENDS Naturals, Sequences

CONSTANTS Subjects,         \* (namespace, key) pairs
          Operations,       \* operation ids references may name
          Writes,           \* write() calls
          Requests,         \* what a write() may be asked to do
          MaxRevision,      \* bound: revisions per subject
          ClosesLedger      \* closing the runtime closes the ledger (SQLite; not memory)

OperationRef(op) == [kind |-> "operation", id |-> op]
StateRef(s, r) == [kind |-> "state", id |-> <<s, r>>]

StateRefs == {OperationRef(op) : op \in Operations}
             \cup {StateRef(s, r) : s \in Subjects, r \in 1..MaxRevision}

\* bound: the store was created from a runtime, not from a bare ledger.
Request ==
    [subject : Subjects, expected : Nat, refs : SUBSET StateRefs, bound : BOOLEAN]

ASSUME StateStoreAssumption ==
    /\ Requests \subseteq Request
    /\ MaxRevision \in Nat
    /\ \A request \in Requests : request.expected < MaxRevision
    /\ ClosesLedger \in BOOLEAN

VARIABLES revisions,    \* revisions[s]: the chain of committed revisions of s
          changes,      \* the change log: <<subject, revision>> in commit order
          operations,   \* ids of the operations that exist; none is ever removed
          lifecycle,    \* of the runtime the bound stores were created from
          writes        \* writes[w]: the local state of write() call w

storeVars == <<revisions, changes, operations, lifecycle, writes>>
durableVars == <<revisions, changes>>

StateRecord == [revision : Nat, refs : SUBSET StateRefs, identity : Writes]

Outcomes ==
    {"none", "written", "conflict", "ref-not-found", "quiescing", "closed",
     "ledger-closed", "interrupted"}

WriteState ==
    [request : Requests, unchecked : SUBSET StateRefs,
     pc : {"checking", "refused", "done"}, outcome : Outcomes]

\* A call that has not been made yet.
NotStarted == [pc |-> "idle", outcome |-> "none"]

-----------------------------------------------------------------------------
(***************************************************************************)
(* The state methods of the ledger port, one atomic step each.             *)
(***************************************************************************)
CurrentRevision(s) == Len(revisions[s])

CasAnything(s, expected) == TRUE            \* mutant: INSERT without the revision check

\* Revision 0 stands for a subject that does not exist.
CasStateAccepts(s, expected) == CurrentRevision(s) = expected

ReplaceRevision(s, record) ==               \* mutant: one row per subject, replaced
    /\ revisions' = [revisions EXCEPT ![s] = <<record>>]
    /\ changes' = Append(changes, <<s, record.revision>>)

CommitRevisionOnly(s, record) ==            \* mutant: the ordering row is left out
    /\ revisions' = [revisions EXCEPT ![s] = Append(@, record)]
    /\ UNCHANGED changes

\* The revision, its references and its position in the change log are
\* committed in one transaction.
CompareAndSetState(s, record) ==
    /\ revisions' = [revisions EXCEPT ![s] = Append(@, record)]
    /\ changes' = Append(changes, <<s, record.revision>>)

RefParses(ref) == TRUE                      \* mutant: the id is parsed, not looked up

\* assertRefsExist for one reference: the operation exists, the state revision
\* is the subject's current one.
Resolves(ref) ==
    IF ref.kind = "operation" THEN ref.id \in operations
    ELSE CurrentRevision(ref.id[1]) = ref.id[2]

-----------------------------------------------------------------------------
(***************************************************************************)
(* write()                                                                 *)
(***************************************************************************)
RequestOf(w) == writes[w].request
Checking(w) == writes[w].pc = "checking"
Running(w) == writes[w].pc \in {"checking", "refused"}

Return(w, outcome) ==
    writes' = [writes EXCEPT ![w].pc = "done", ![w].outcome = outcome]

Refuse(w) == writes' = [writes EXCEPT ![w].pc = "refused"]

\* An unbound store has a ledger handle of its own, which stays open.
LedgerIsOpen(w) == ~ (ClosesLedger /\ RequestOf(w).bound /\ lifecycle = "closed")

\* The lifecycle gates the entry of a write, not its commit.
StartWrite(w) ==
    /\ writes[w].pc = "idle"
    /\ \E request \in Requests :
         writes' = [writes EXCEPT ![w] =
            [request |-> request, unchecked |-> request.refs,
             pc |-> IF request.bound /\ lifecycle # "accepting" THEN "done" ELSE "checking",
             outcome |-> IF request.bound /\ lifecycle # "accepting" THEN lifecycle ELSE "none"]]
    /\ UNCHANGED <<revisions, changes, operations, lifecycle>>

CheckRef(w) ==
    /\ Checking(w) /\ LedgerIsOpen(w)
    /\ \E ref \in writes[w].unchecked :
         IF Resolves(ref)
         THEN writes' = [writes EXCEPT ![w].unchecked = @ \ {ref}]
         ELSE Return(w, "ref-not-found")
    /\ UNCHANGED <<revisions, changes, operations, lifecycle>>

DraftUnsigned(w) ==                         \* mutant: signed with the subject, not the caller
    [revision |-> RequestOf(w).expected + 1, refs |-> RequestOf(w).refs,
     identity |-> RequestOf(w).subject]

Draft(w) ==
    [revision |-> RequestOf(w).expected + 1, refs |-> RequestOf(w).refs, identity |-> w]

CommitUnacknowledged(w) ==                  \* mutant: the result of the CAS is ignored
    /\ Checking(w) /\ LedgerIsOpen(w)
    /\ writes[w].unchecked = {}
    /\ IF CasStateAccepts(RequestOf(w).subject, RequestOf(w).expected)
       THEN CompareAndSetState(RequestOf(w).subject, Draft(w))
       ELSE UNCHANGED durableVars
    /\ Return(w, "written")
    /\ UNCHANGED <<operations, lifecycle>>

\* After a refused compare-and-set the subject is read once more.
CommitState(w) ==
    /\ Checking(w) /\ LedgerIsOpen(w)
    /\ writes[w].unchecked = {}
    /\ IF CasStateAccepts(RequestOf(w).subject, RequestOf(w).expected)
       THEN CompareAndSetState(RequestOf(w).subject, Draft(w)) /\ Return(w, "written")
       ELSE UNCHANGED durableVars /\ Refuse(w)
    /\ UNCHANGED <<operations, lifecycle>>

\* What the second read finds only words the error.
ReportConflict(w) ==
    /\ writes[w].pc = "refused" /\ LedgerIsOpen(w)
    /\ Return(w, "conflict")
    /\ UNCHANGED <<revisions, changes, operations, lifecycle>>

MeetClosedLedger(w) ==
    /\ Running(w) /\ ~ LedgerIsOpen(w)
    /\ Return(w, "ledger-closed")
    /\ UNCHANGED <<revisions, changes, operations, lifecycle>>

\* The process died, or the ledger was busy or full: a transaction that was
\* not committed leaves nothing.
InterruptWrite(w) ==
    /\ Running(w)
    /\ Return(w, "interrupted")
    /\ UNCHANGED <<revisions, changes, operations, lifecycle>>

-----------------------------------------------------------------------------
(***************************************************************************)
(* The surroundings: operations being created, the runtime going down.     *)
(***************************************************************************)
CreateOperation(op) ==
    /\ op \notin operations
    /\ operations' = operations \cup {op}
    /\ UNCHANGED <<revisions, changes, lifecycle, writes>>

\* "quiescing" stands for quiescing and draining, "closed" for closing and
\* closed: a write() meets the same answer in both.  The runtime is disposed of
\* once: no second dispose() runs beside the first.
AdvanceLifecycle ==
    /\ \/ lifecycle = "accepting" /\ lifecycle' = "quiescing"
       \/ lifecycle = "quiescing" /\ lifecycle' = "closed"
    /\ UNCHANGED <<revisions, changes, operations, writes>>

\* Every call has returned.
AllWritten == (\A w \in Writes : writes[w].pc = "done") /\ UNCHANGED storeVars

StoreInit ==
    /\ revisions = [s \in Subjects |-> <<>>]
    /\ changes = <<>>
    /\ operations = {}
    /\ lifecycle = "accepting"
    /\ writes = [w \in Writes |-> NotStarted]

WriteStep(w) ==
    \/ StartWrite(w) \/ CheckRef(w) \/ CommitState(w) \/ ReportConflict(w)
    \/ MeetClosedLedger(w) \/ InterruptWrite(w)

StoreStep ==
    \/ \E w \in Writes : WriteStep(w)
    \/ \E op \in Operations : CreateOperation(op)
    \/ AdvanceLifecycle

StoreNext == StoreStep \/ AllWritten

StoreSpec == StoreInit /\ [][StoreNext]_storeVars

-----------------------------------------------------------------------------
(***************************************************************************)
(* Properties.                                                             *)
(***************************************************************************)
StoreTypeOK ==
    /\ revisions \in [Subjects -> Seq(StateRecord)]
    /\ changes \in Seq(Subjects \X Nat)
    /\ operations \subseteq Operations
    /\ lifecycle \in {"accepting", "quiescing", "closed"}
    /\ writes \in [Writes -> WriteState \cup {NotStarted}]

\* Each subject's chain is 1, 2, 3, ... without a gap or a repetition.  The
\* memory adapter finds a revision by its place in the chain, and the
\* compare-and-set of both adapters takes the last revision for the length.
RevisionsAreGapless ==
    \A s \in Subjects : \A i \in 1..Len(revisions[s]) : revisions[s][i].revision = i

\* The change log and the chains never drift apart: every position names a
\* committed revision, and every revision has one position, after that of its
\* predecessor.
ChangeLogMatchesRevisions ==
    /\ \A i \in 1..Len(changes) : changes[i][2] \in 1..CurrentRevision(changes[i][1])
    /\ \A s \in Subjects : \A r \in 1..CurrentRevision(s) :
          \E i \in 1..Len(changes) : changes[i] = <<s, r>>
    /\ \A i, j \in 1..Len(changes) :
          i < j /\ changes[i][1] = changes[j][1] => changes[i][2] < changes[j][2]

\* No dangling and no circular reference: what a committed revision refers to
\* was committed before it, although the check and the commit are apart.
ReferencesPointBack ==
    \A i \in 1..Len(changes) : \A ref \in revisions[changes[i][1]][changes[i][2]].refs :
        IF ref.kind = "operation" THEN ref.id \in operations
        ELSE \E j \in 1..(i - 1) : changes[j] = ref.id

\* What a write() told its caller is what the chain says: a written record is
\* at its revision for good, and a refused one is nowhere.
WritersAreToldTheTruth ==
    \A w \in Writes :
        LET Holds(s, r) == r <= CurrentRevision(s) /\ revisions[s][r].identity = w IN
        /\ writes[w].outcome = "written" =>
              Holds(RequestOf(w).subject, RequestOf(w).expected + 1)
        /\ writes[w].outcome # "written" =>
              \A s \in Subjects : \A r \in 1..CurrentRevision(s) : ~ Holds(s, r)

\* Committed history is append-only: a position once read, and the record
\* behind it, never change.
CommittedIsImmutable ==
    [][/\ Len(changes') >= Len(changes)
       /\ \A i \in 1..Len(changes) :
            /\ changes'[i] = changes[i]
            /\ revisions'[changes[i][1]][changes[i][2]] = revisions[changes[i][1]][changes[i][2]]]_storeVars
=============================================================================
