-------------------------- MODULE LedgerOpen_proofs --------------------------
(***************************************************************************)
(* A ledger file is at every instant what it was or a complete current     *)
(* ledger, and a migration loses nothing: for every number of processes    *)
(* that open it at once, every file of the versions 0 to 4 and every       *)
(* number of attempts.                                                     *)
(*                                                                         *)
(* The write lock plays no part in the argument: what an opener read before*)
(* its transaction began may be out of date in it, but only in one way,    *)
(* that the file has become current in the meantime.  Each step that       *)
(* writes is shown to do no harm to a file that has.                       *)
(***************************************************************************)
EXTENDS LedgerOpen, Paging_proofs

-----------------------------------------------------------------------------
(***************************************************************************)
(* The order of a backfilled change log.                                   *)
(***************************************************************************)

\* Every place of the log from 1 to n is the row number of one revision.
LEMMA RowNumbersAreOnto ==
    ASSUME NEW revs \in SUBSET Pairs, IsFiniteSet(revs), NEW i \in 1..Cardinality(revs)
    PROVE  \E rev \in revs : RowNumber(revs, rev) = i
<1> DEFINE n == Cardinality(revs)
           f == [rev \in revs |-> RowNumber(revs, rev)]
<1>1. n \in Nat /\ IsFiniteSet(1..n) /\ Cardinality(1..n) = n
  <2>1. n \in Nat
      BY FS_CardinalityType
  <2>2. /\ IsFiniteSet(1..n)
        /\ Cardinality(1..n) = IF 1 > n THEN 0 ELSE n - 1 + 1
      BY <2>1, FS_Interval, SMTT(30)
  <2> QED BY <2>1, <2>2
<1>2. ASSUME NEW rev \in revs PROVE RowNumber(revs, rev) \in 1..n
  <2>1. /\ Cardinality(Before(revs, rev)) \in Nat
        /\ Cardinality(Before(revs, rev)) < n
      BY BeforeIsFinite
  <2> QED BY <1>1, <2>1 DEF RowNumber, Before
<1>3. ASSUME NEW a \in revs, NEW b \in revs, RowNumber(revs, a) = RowNumber(revs, b)
      PROVE  a = b
  <2>1. Cardinality(Before(revs, a)) \in Nat /\ Cardinality(Before(revs, b)) \in Nat
      BY BeforeIsFinite
  <2>2. Cardinality(Before(revs, a)) = Cardinality(Before(revs, b))
      BY <1>3, <2>1 DEF RowNumber, Before
  <2> QED BY <2>2, PlacesHaveOwnRanks
<1>4. f \in Injection(revs, 1..n)
    BY <1>2, <1>3 DEF Injection, IsInjective
<1> HIDE DEF f
<1>5. f \in Surjection(revs, 1..n)
    BY <1>1, <1>4, FS_Injection
<1>6. \E rev \in revs : f[rev] = i
    BY <1>5 DEF Surjection
<1> QED BY <1>6 DEF f

LEMMA MigrationOrderEffect ==
    ASSUME NEW revs \in SUBSET Pairs, IsFiniteSet(revs)
    PROVE  /\ InMigrationOrder(revs) \in Seq(revs)
           /\ Len(InMigrationOrder(revs)) = Cardinality(revs)
           /\ Cardinality(revs) \in Nat
           /\ ToSet(InMigrationOrder(revs)) = revs
           /\ \A i, j \in 1..Cardinality(revs) :
                i < j => Precedes(InMigrationOrder(revs)[i], InMigrationOrder(revs)[j])
<1> DEFINE n == Cardinality(revs)
           log == InMigrationOrder(revs)
<1>1. n \in Nat
    BY FS_CardinalityType
<1>2. ASSUME NEW i \in 1..n PROVE log[i] \in revs /\ RowNumber(revs, log[i]) = i
  <2>1. \E rev \in revs : RowNumber(revs, rev) = i
      BY RowNumbersAreOnto
  <2>2. log[i] = CHOOSE rev \in revs : RowNumber(revs, rev) = i
      BY DEF InMigrationOrder
  <2> QED BY <2>1, <2>2
<1>3. log = [i \in 1..n |-> log[i]]
    BY DEF InMigrationOrder
<1> HIDE DEF log
<1>4. log \in Seq(revs) /\ Len(log) = n
    BY <1>1, <1>2, <1>3
<1>5. ASSUME NEW rev \in revs PROVE \E i \in 1..n : log[i] = rev
  <2> DEFINE i == RowNumber(revs, rev)
  <2>1. Cardinality(Before(revs, rev)) \in Nat /\ Cardinality(Before(revs, rev)) < n
      BY BeforeIsFinite
  <2>2. i \in 1..n
      BY <1>1, <2>1 DEF RowNumber, Before
  <2>3. log[i] \in revs /\ RowNumber(revs, log[i]) = RowNumber(revs, rev)
      BY <1>2, <2>2
  <2>4. Cardinality(Before(revs, log[i])) \in Nat
      BY <2>3, BeforeIsFinite
  <2>5. Cardinality(Before(revs, log[i])) = Cardinality(Before(revs, rev))
      BY <2>1, <2>3, <2>4 DEF RowNumber, Before
  <2>6. log[i] = rev
      BY <2>3, <2>5, PlacesHaveOwnRanks
  <2> HIDE DEF i
  <2> QED BY <2>2, <2>6
<1>6. ToSet(log) = revs
    BY <1>2, <1>3, <1>5 DEF ToSet
<1>7. ASSUME NEW i \in 1..n, NEW j \in 1..n, i < j PROVE Precedes(log[i], log[j])
  <2>1. /\ log[i] \in revs /\ log[j] \in revs /\ log[i] \in Pairs /\ log[j] \in Pairs
        /\ RowNumber(revs, log[i]) = i /\ RowNumber(revs, log[j]) = j
      BY <1>2
  <2>2. /\ Cardinality(Before(revs, log[i])) \in Nat
        /\ Cardinality(Before(revs, log[j])) \in Nat
      BY <2>1, BeforeIsFinite
  <2>3. Cardinality(Before(revs, log[i])) < Cardinality(Before(revs, log[j]))
      BY <1>1, <1>7, <2>1, <2>2 DEF RowNumber, Before
  <2>4. ~ Precedes(log[j], log[i]) /\ log[i] # log[j]
    <3>1. log[i] # log[j]
        BY <1>1, <1>7, <2>1
    <3>2. Precedes(log[j], log[i])
            => Cardinality(Before(revs, log[j])) < Cardinality(Before(revs, log[i]))
        BY <2>1, BeforeGrows
    <3> QED BY <2>2, <2>3, <3>1, <3>2
  <2> QED BY <2>1, <2>4, PrecedesIsTotal
<1> QED BY <1>1, <1>4, <1>6, <1>7 DEF log

\* So the log a migration from version 3 writes is complete.
LEMMA BackfilledLogIsComplete ==
    ASSUME NEW revs \in SUBSET (Subjects \X Nat), ChainsAreGapless(revs)
    PROVE  /\ InMigrationOrder(revs) \in Seq(Subjects \X Nat)
           /\ LogIsComplete(revs, InMigrationOrder(revs))
<1> DEFINE n == Cardinality(revs)
           log == InMigrationOrder(revs)
<1>1. revs \in SUBSET Pairs /\ IsFiniteSet(revs)
  <2>1. ASSUME NEW rev \in revs PROVE rev \in Pairs
    <3>1. rev \in Subjects \X Nat /\ rev = <<rev[1], rev[2]>>
        OBVIOUS
    <3>2. rev[1] \in Subjects /\ rev[2] \in Nat
        BY <3>1
    <3>3. rev[1] \in Nat
        BY <3>2, OpenAssumption
    <3> QED BY <3>1, <3>2, <3>3 DEF Pairs
  <2> QED BY <2>1 DEF ChainsAreGapless
<1>2. /\ log \in Seq(revs) /\ Len(log) = n /\ n \in Nat /\ ToSet(log) = revs
      /\ \A i, j \in 1..n : i < j => Precedes(log[i], log[j])
    BY <1>1, MigrationOrderEffect
<1> HIDE DEF log, n
<1>3. \A i, j \in 1..Len(log) : i < j /\ log[i][1] = log[j][1] => log[i][2] < log[j][2]
  <2> SUFFICES ASSUME NEW i \in 1..n, NEW j \in 1..n, i < j, log[i][1] = log[j][1]
               PROVE  log[i][2] < log[j][2]
      BY <1>2
  <2>1. log[i] \in revs /\ log[j] \in revs
      BY <1>2
  <2>2. log[i] \in Pairs /\ log[j] \in Pairs
      BY <1>1, <2>1
  <2> QED BY <1>2, <2>2 DEF Precedes, Pairs
<1>4. log \in Seq(Subjects \X Nat)
    BY <1>2
<1> QED BY <1>2, <1>3, <1>4 DEF LogIsComplete, log, n

\* The next revision of a subject goes to the end of its chain and of the log.
LEMMA NextRevisionIsLogged ==
    ASSUME NEW revs \in SUBSET (Subjects \X Nat), NEW log \in Seq(Subjects \X Nat),
           ChainsAreGapless(revs), LogIsComplete(revs, log), NEW s \in Subjects,
           NEW r, r = Cardinality(ChainOf(revs, s)) + 1
    PROVE  /\ revs \cup {<<s, r>>} \in SUBSET (Subjects \X Nat)
           /\ Append(log, <<s, r>>) \in Seq(Subjects \X Nat)
           /\ ChainsAreGapless(revs \cup {<<s, r>>})
           /\ LogIsComplete(revs \cup {<<s, r>>}, Append(log, <<s, r>>))
<1> DEFINE new == <<s, r>>
           grown == revs \cup {new}
           n == Cardinality(ChainOf(revs, s))
<1>1. ChainOf(revs, s) \in SUBSET revs
    BY DEF ChainOf
<1>2. IsFiniteSet(revs) /\ IsFiniteSet(ChainOf(revs, s)) /\ n \in Nat
    BY <1>1, FS_Subset, FS_CardinalityType DEF ChainsAreGapless
<1>3. ChainOf(revs, s) = {s} \X (1..n)
    BY DEF ChainsAreGapless
<1>4. r \in Nat /\ r = n + 1 /\ new \in Subjects \X Nat
    BY <1>2
<1>5. new \notin revs
  <2>1. new \notin {s} \X (1..n)
      BY <1>2, <1>4
  <2> QED BY <1>3, <2>1 DEF ChainOf
<1>6. IsFiniteSet(grown) /\ Cardinality(grown) = Cardinality(revs) + 1
    BY <1>2, <1>5, FS_AddElement
<1>7. Cardinality(revs) \in Nat
    BY <1>2, FS_CardinalityType
<1> HIDE DEF n
<1>8. ChainOf(grown, s) = {s} \X (1..r) /\ Cardinality(ChainOf(grown, s)) = r
  <2>1. ChainOf(grown, s) = ChainOf(revs, s) \cup {new}
      BY DEF ChainOf
  <2>2. new \notin ChainOf(revs, s)
      BY <1>1, <1>5
  <2>3. Cardinality(ChainOf(revs, s) \cup {new}) = n + 1
      BY <1>2, <2>2, FS_AddElement DEF n
  <2>4. {s} \X (1..r) = ({s} \X (1..n)) \cup {new}
    <3>1. 1..r = (1..n) \cup {r}
        BY <1>2, <1>4
    <3> QED BY <3>1
  <2> QED BY <1>3, <1>4, <2>1, <2>3, <2>4
<1>9. ASSUME NEW t \in Subjects \ {s}
      PROVE  ChainOf(grown, t) = {t} \X (1..Cardinality(ChainOf(grown, t)))
  <2>1. ChainOf(grown, t) = ChainOf(revs, t)
      BY DEF ChainOf
  <2> QED BY <2>1 DEF ChainsAreGapless
<1>10. ChainsAreGapless(grown)
  <2> SUFFICES ASSUME NEW t \in Subjects
               PROVE  ChainOf(grown, t) = {t} \X (1..Cardinality(ChainOf(grown, t)))
      BY <1>6 DEF ChainsAreGapless
  <2>1. CASE t = s
      BY <1>8, <2>1
  <2>2. CASE t # s
      BY <1>9, <2>2
  <2> QED BY <2>1, <2>2
<1> DEFINE longer == Append(log, new)
           m == Len(log)
<1>11. /\ m \in Nat /\ longer \in Seq(Subjects \X Nat) /\ Len(longer) = m + 1
       /\ longer[m + 1] = new /\ \A i \in 1..m : longer[i] = log[i] /\ log[i] \in revs
  <2>1. \A i \in 1..m : log[i] \in revs
      BY DEF LogIsComplete, ToSet
  <2> QED BY <1>4, <2>1
<1>12. ToSet(longer) = grown
  <2>1. ToSet(log) = {log[i] : i \in 1..m} /\ ToSet(log) = revs
      BY DEF ToSet, LogIsComplete
  <2>2. ToSet(longer) = {longer[i] : i \in 1..(m + 1)}
      BY <1>11, SMTT(30) DEF ToSet
  <2> HIDE DEF longer, m
  <2>3. ASSUME NEW i \in 1..(m + 1) PROVE longer[i] \in grown
      BY <1>11, <2>3, SMTT(30)
  <2>4. ASSUME NEW rev \in grown PROVE \E i \in 1..(m + 1) : longer[i] = rev
    <3>1. CASE rev = new
        BY <1>11, <3>1
    <3>2. CASE rev \in revs
      <4>1. PICK i \in 1..m : log[i] = rev
          BY <2>1, <3>2
      <4>2. i \in 1..(m + 1) /\ longer[i] = rev
          BY <1>11, <4>1
      <4> QED BY <4>2
    <3> QED BY <2>4, <3>1, <3>2
  <2> QED BY <2>2, <2>3, <2>4
<1>13. Len(longer) = Cardinality(grown)
    BY <1>6, <1>11 DEF LogIsComplete
<1>14. ASSUME NEW i \in 1..Len(longer), NEW j \in 1..Len(longer),
              i < j, longer[i][1] = longer[j][1]
       PROVE  longer[i][2] < longer[j][2]
  <2>1. CASE j \in 1..m
    <3>1. i \in 1..m /\ longer[i] = log[i] /\ longer[j] = log[j]
        BY <1>11, <1>14, <2>1
    <3> QED BY <1>14, <2>1, <3>1 DEF LogIsComplete
  <2>2. CASE j = m + 1
    <3>1. i \in 1..m /\ longer[i] = log[i] /\ log[i] \in revs /\ longer[j] = new
        BY <1>11, <1>14, <2>2
    <3>2. log[i] \in ChainOf(revs, s)
        BY <1>14, <3>1 DEF ChainOf
    <3>3. log[i][2] \in 1..n
        BY <1>3, <3>2
    <3> HIDE DEF longer
    <3>4. longer[i][2] \in 1..n
        BY <3>1, <3>3
    <3>5. longer[j][2] = r
        BY <3>1
    <3> QED BY <1>2, <1>4, <3>4, <3>5
  <2> QED BY <1>11, <2>1, <2>2
<1> HIDE DEF longer, grown
<1>15. LogIsComplete(grown, longer)
    BY <1>12, <1>13, <1>14 DEF LogIsComplete
<1>16. grown \in SUBSET (Subjects \X Nat)
    BY <1>4 DEF grown
<1> QED BY <1>10, <1>11, <1>15, <1>16 DEF grown, longer

-----------------------------------------------------------------------------
(***************************************************************************)
(* The conversion of version 1.                                            *)
(***************************************************************************)
LEMMA AbsentIsSound ==
    /\ Absent \in OperationRecord /\ ~ Exists(Absent) /\ NoRow \in LeaseRow
    /\ Current!ClaimIsLeased(Absent, NoRow)
<1>1. NoClaim \in OperationClaim
    BY DEF NoClaim, OperationClaim, Claimable
<1>2. Absent \in OperationRecord /\ ~ Exists(Absent)
    BY <1>1 DEF Absent, OperationRecord, Exists, NoDeadline
<1>3. NoRow \in LeaseRow
    BY DEF NoRow, LeaseRow
<1>4. Current!ClaimIsLeased(Absent, NoRow)
    BY DEF Current!ClaimIsLeased, Current!Held, Current!NoLease, Current!HasClaim,
           Current!NoClaim, Current!Nobody, NoClaim, Absent, NoRow, Nobody
<1> QED BY <1>2, <1>3, <1>4

LEMMA TransformedType ==
    ASSUME NEW row \in V1Record
    PROVE  TransformV1Record(row) \in OperationRecord
<1> DEFINE claim == IF V1Claim(row) = NoRow THEN NoClaim
                    ELSE [owner |-> row.claim.owner, token |-> row.claim.token,
                          resumeFrom |-> IF row.state = "claimed" THEN row.resumeFrom ELSE "none"]
<1>1. row.claim.owner \in Runtimes \cup {Nobody} /\ row.claim.token \in Nat
    BY DEF V1Record, LeaseRow
<1>2. row.resumeFrom \in Claimable \cup {"none"}
    BY DEF V1Record
<1>3. claim \in OperationClaim
    BY <1>1, <1>2 DEF OperationClaim, NoClaim, Claimable
<1>4. TransformV1Record(row) =
        [Absent EXCEPT
            !.state = row.state, !.rev = row.rev, !.attempts = row.attempts, !.token = row.token,
            !.claim = claim, !.authorization = row.authorization,
            !.uncertainty = row.uncertainty, !.result = row.result, !.error = row.error,
            !.reconciliation = row.reconciliation]
    BY DEF TransformV1Record
<1> HIDE DEF claim
<1>5. Absent \in OperationRecord
    BY AbsentIsSound
<1> QED BY <1>3, <1>4, <1>5, ZenonT(30) DEF V1Record, OperationRecord

\* A converted row keeps every durable fact, whatever is in it.
LEMMA TransformKeepsFacts ==
    ASSUME NEW row
    PROVE  SameFacts(TransformV1Record(row), row)
    BY ZenonT(30) DEF SameFacts, DurableFacts, TransformV1Record, Absent

LEMMA ConvertedRowsAreSound ==
    ASSUME NEW content \in FileContent, V1RowsAreSound(content),
           \A op \in Ops : Exists(content.operations[op]) => Converts(content.operations[op]),
           \A event \in content.events : Converts(event[2]),
           NEW new, new = Upgraded(MigratedFromV1(content))
    PROVE  new \in FileContent /\ RowsAreSound(new)
<1> DEFINE rows == [op \in Ops |-> IF Exists(content.operations[op])
                                   THEN TransformV1Record(content.operations[op]) ELSE Absent]
           leases == [op \in Ops |-> IF Exists(content.operations[op])
                                     THEN V1Claim(content.operations[op]) ELSE NoRow]
           events == {<<event[1], TransformV1Record(event[2])>> : event \in content.events}
<1>1. ASSUME NEW op \in Ops
      PROVE  /\ rows[op] \in OperationRecord /\ leases[op] \in LeaseRow
             /\ Exists(rows[op]) => WellFormed(rows[op])
             /\ Current!ClaimIsLeased(rows[op], leases[op])
  <2>1. CASE ~ Exists(content.operations[op])
      BY <2>1, AbsentIsSound
  <2>2. CASE Exists(content.operations[op])
    <3>1. Converts(content.operations[op]) /\ content.operations[op] \in V1Record
        BY <2>2, AbsentIsSound DEF V1RowsAreSound
    <3>2. TransformV1Record(content.operations[op]) \in OperationRecord
        BY <3>1, TransformedType
    <3>3. V1Claim(content.operations[op]) \in LeaseRow
        BY <3>1 DEF V1Claim, V1Record
    <3>4. Current!ClaimIsLeased(TransformV1Record(content.operations[op]),
                                V1Claim(content.operations[op]))
        BY <2>2, <3>1, AbsentIsSound DEF V1RowsAreSound
    <3>5. WellFormed(TransformV1Record(content.operations[op]))
        BY <3>1 DEF Converts
    <3> QED BY <2>2, <3>2, <3>3, <3>4, <3>5
  <2> QED BY <2>1, <2>2
<1>2. events \in SUBSET (Ops \X (OperationRecord \cup V1Record))
  <2> SUFFICES ASSUME NEW event \in content.events
               PROVE  <<event[1], TransformV1Record(event[2])>>
                        \in Ops \X (OperationRecord \cup V1Record)
      OBVIOUS
  <2>1. event[2] \in V1Record
      BY DEF V1RowsAreSound
  <2>2. event[1] \in Ops
      BY DEF FileContent
  <2> QED BY <2>1, <2>2, TransformedType
<1>3. rows \in [Ops -> OperationRecord \cup V1Record] /\ leases \in [Ops -> LeaseRow]
    BY <1>1
<1>4. new = [content EXCEPT !.layout = "current", !.operations = rows, !.leases = leases,
                            !.events = events, !.version = CurrentVersion, !.tables = AllTables]
    BY DEF Upgraded, MigratedFromV1, FileContent
<1> HIDE DEF rows, leases, events
<1>5. CurrentVersion \in Nat /\ AllTables \in SUBSET AllTables
    BY DEF CurrentVersion
<1>6. new \in FileContent
    BY <1>2, <1>3, <1>4, <1>5, ZenonT(60) DEF FileContent
<1>7. new.operations = rows /\ new.leases = leases
    BY <1>4, Zenon DEF FileContent
<1> QED BY <1>1, <1>6, <1>7 DEF RowsAreSound

-----------------------------------------------------------------------------
(***************************************************************************)
(* The invariant.                                                          *)
(***************************************************************************)
ProgramCounters ==
    {"connecting", "connected", "identified", "stamping", "creating", "upgrading", "migrating",
     "open", "writing", "holding", "closed", "failed", "dead"}
Reasons == {"none", "open-failed", "newer-schema", "migration-failed", "busy", "error"}

OpenerState ==
    [pc : ProgramCounters, attempt : Nat, application : {"none", "ordarium"}, version : Nat,
     reason : Reasons]

\* The operations of the file, once it is current, are those it had.
RowsAreKept ==
    LET was == IF original.version = 1 THEN MigratedFromV1(original) ELSE original IN
    /\ file.operations = was.operations /\ file.leases = was.leases /\ file.events = was.events

LogLeadsWithTheOld ==
    LET old == Cardinality(original.revisions) IN
    original.version = 3 =>
        /\ old <= Len(file.changes)
        /\ \A i \in 1..old : file.changes[i] = InMigrationOrder(original.revisions)[i]

IsCurrent == file.version = CurrentVersion /\ file.application # "other"

CurrentFits ==
    /\ file.application = "ordarium" /\ file.layout = "current" /\ file.tables = AllTables
    /\ RowsAreSound(file) /\ RowsAreKept
    /\ ChainsAreGapless(file.revisions) /\ LogIsComplete(file.revisions, file.changes)
    /\ original.revisions \subseteq file.revisions /\ LogLeadsWithTheOld

OldFits ==
    /\ file = [original EXCEPT !.application = file.application, !.tables = file.tables]
    /\ file.tables # original.tables => original.version = 0

FileFits ==
    /\ file \in FileContent
    /\ original \in Originals
    /\ file.application # original.application =>
          original.application = "none" /\ file.application = "ordarium"
    /\ IF IsCurrent THEN CurrentFits ELSE OldFits
    /\ original.application = "other" \/ original.version > CurrentVersion => file = original

\* What an opener at a point of the constructor knows of the file.
OpenerFits(p) ==
    LET version == openers[p].version IN
    /\ openers[p].pc \in {"identified", "stamping", "creating", "upgrading", "migrating",
                           "open", "writing"} => file.application # "other"
    /\ OpenerAt(p, "identified") /\ openers[p].application = "ordarium"
          => file.application = "ordarium"
    /\ openers[p].pc \in {"creating", "upgrading", "migrating", "open", "writing"}
          => file.application = "ordarium"
    /\ OpenerAt(p, "stamping") =>
          /\ original.version <= CurrentVersion
          /\ \/ version = original.version
             \/ version = CurrentVersion /\ file.version = CurrentVersion
    /\ OpenerAt(p, "creating") => original.version = 0
    /\ openers[p].pc \in {"upgrading", "migrating"} =>
          version = original.version /\ version \in 1..3
    /\ openers[p].pc \in {"open", "writing"} => file.version = CurrentVersion

OpenInv ==
    /\ FileFits
    /\ openers \in [Processes -> OpenerState]
    /\ \A p \in Processes : OpenerFits(p)

-----------------------------------------------------------------------------
(***************************************************************************)
(* The file as an opener finds it.                                         *)
(***************************************************************************)
LEMMA SameContent ==
    ASSUME NEW content \in FileContent
    PROVE  content = [content EXCEPT !.application = content.application,
                                     !.tables = content.tables]
    BY Zenon DEF FileContent

LEMMA OriginalHasForm ==
    ASSUME FileFits, original.application # "other"
    PROVE  original \in FileContent /\ HasForm(original)
    BY OriginalsAssumption DEF FileFits

\* An old file differs from what it was in its application id and its tables.
LEMMA OldContent ==
    ASSUME FileFits, ~ IsCurrent
    PROVE  /\ file.version = original.version /\ file.layout = original.layout
           /\ file.operations = original.operations /\ file.leases = original.leases
           /\ file.events = original.events /\ file.revisions = original.revisions
           /\ file.changes = original.changes
           /\ file.tables # original.tables => original.version = 0
<1>1. original \in FileContent
    BY OriginalsAssumption DEF FileFits
<1>2. OldFits
    BY DEF FileFits
<1> QED BY <1>1, <1>2, Zenon DEF OldFits, FileContent

\* A file that is this application's, of a version this one knows.
LEMMA OldOrCurrent ==
    ASSUME FileFits, file.application # "other", file.version <= CurrentVersion
    PROVE  /\ original.application # "other" /\ original.version \in 0..4
           /\ HasForm(original) /\ original \in FileContent
           /\ IsCurrent <=> file.version = CurrentVersion
           /\ ~ IsCurrent => file.version = original.version /\ original.version \in 0..3
           /\ IsCurrent => file.application = "ordarium"
<1>1. original.application # "other"
    BY DEF FileFits
<1>2. HasForm(original) /\ original \in FileContent
    BY <1>1, OriginalHasForm
<1>3. file.version \in Nat /\ original.version \in Nat
    BY <1>2 DEF FileFits, FileContent
<1>4. original.version <= CurrentVersion
    BY <1>3 DEF FileFits, CurrentVersion
<1>5. IsCurrent <=> file.version = CurrentVersion
    BY DEF IsCurrent
<1>6. ~ IsCurrent => file.version = original.version
    BY OldContent
<1>7. IsCurrent => file.application = "ordarium"
    BY DEF FileFits, CurrentFits
<1> QED BY <1>1, <1>2, <1>3, <1>4, <1>5, <1>6, <1>7 DEF CurrentVersion

-----------------------------------------------------------------------------
(***************************************************************************)
(* How openers move.                                                       *)
(***************************************************************************)
OnlyOpener(p) ==
    /\ openers' \in [Processes -> OpenerState]
    /\ \A q \in Processes \ {p} : openers'[q] = openers[q]

LEMMA GoToEffect ==
    ASSUME openers \in [Processes -> OpenerState], NEW p \in Processes,
           NEW pc \in ProgramCounters, GoTo(p, pc)
    PROVE  /\ OnlyOpener(p)
           /\ openers'[p].pc = pc /\ openers'[p].version = openers[p].version
           /\ openers'[p].application = openers[p].application
    BY DEF GoTo, OnlyOpener, OpenerState

LEMMA FailEffect ==
    ASSUME openers \in [Processes -> OpenerState], NEW p \in Processes,
           NEW reason \in Reasons, Fail(p, reason)
    PROVE  OnlyOpener(p) /\ openers'[p].pc = "failed"
    BY ZenonT(30) DEF Fail, OnlyOpener, OpenerState, ProgramCounters

\* What the other openers know of the file stays true of it.
FileGoesOn ==
    /\ original' = original
    /\ file.application # "other" => file'.application # "other"
    /\ file.application = "ordarium" => file'.application = "ordarium"
    /\ file.version = CurrentVersion => file'.version = CurrentVersion

LEMMA OthersStayFit ==
    ASSUME NEW p, OnlyOpener(p), FileGoesOn, NEW q \in Processes, q # p, OpenerFits(q)
    PROVE  OpenerFits(q)'
<1>1. openers'[q] = openers[q]
    BY DEF OnlyOpener
<1> QED BY <1>1 DEF OpenerFits, OpenerAt, FileGoesOn

\* An opener that is not at work knows nothing.
LEMMA OutsideIsFit ==
    ASSUME NEW p \in Processes,
           openers'[p].pc \in {"connecting", "connected", "holding", "closed", "failed", "dead"}
    PROVE  OpenerFits(p)'
    BY DEF OpenerFits, OpenerAt

LEMMA OpenInvStep ==
    ASSUME OpenInv, NEW p \in Processes, FileFits', FileGoesOn, OnlyOpener(p), OpenerFits(p)'
    PROVE  OpenInv'
<1>1. ASSUME NEW q \in Processes PROVE OpenerFits(q)'
  <2>1. CASE q = p
      BY <2>1
  <2>2. CASE q # p
      BY <2>2, OthersStayFit DEF OpenInv
  <2> QED BY <2>1, <2>2
<1>2. openers' \in [Processes -> OpenerState]
    BY DEF OnlyOpener
<1> QED BY <1>1, <1>2 DEF OpenInv

-----------------------------------------------------------------------------
(***************************************************************************)
(* The initial file.                                                       *)
(***************************************************************************)
LEMMA InitiallyOpenInv ==
    ASSUME Init
    PROVE  OpenInv
<1>1. original \in FileContent /\ original \in Originals /\ file = original
    BY OriginalsAssumption DEF Init
<1>2. OldFits
    BY <1>1, SameContent DEF OldFits
<1>3. ASSUME IsCurrent PROVE CurrentFits
  <2>1. HasForm(original) /\ original.version = CurrentVersion /\ original.version = 4
      BY <1>1, <1>3, OriginalsAssumption DEF IsCurrent, CurrentVersion
  <2>2. /\ original.application = "ordarium" /\ original.tables = AllTables
        /\ ChainsAreGapless(original.revisions)
        /\ LogIsComplete(original.revisions, original.changes)
        /\ original.layout = "current" /\ RowsAreSound(original)
      BY <2>1 DEF HasForm
  <2>3. RowsAreKept /\ LogLeadsWithTheOld
      BY <1>1, <2>1 DEF RowsAreKept, LogLeadsWithTheOld
  <2> QED BY <1>1, <2>2, <2>3 DEF CurrentFits
<1>4. FileFits
    BY <1>1, <1>2, <1>3 DEF FileFits
<1>5. openers \in [Processes -> OpenerState]
    BY DEF Init, OpenerState, ProgramCounters, Reasons
<1>6. ASSUME NEW p \in Processes PROVE OpenerFits(p)
    BY DEF Init, OpenerFits, OpenerAt
<1> QED BY <1>4, <1>5, <1>6 DEF OpenInv

-----------------------------------------------------------------------------
(***************************************************************************)
(* The steps that leave the file alone.                                    *)
(***************************************************************************)
\* What an opener knows goes by its own state and the file.
LEMMA UnchangedFileFits ==
    ASSUME OpenInv, UNCHANGED <<file, original>>
    PROVE  FileFits' /\ FileGoesOn
<1>1. FileFits'
    BY DEF OpenInv, FileFits, IsCurrent, CurrentFits, OldFits, RowsAreSound, RowsAreKept,
           LogLeadsWithTheOld
<1> QED BY <1>1 DEF FileGoesOn

\* A step to a point at which an opener need not know anything.
LEMMA OutwardStep ==
    ASSUME OpenInv, NEW p \in Processes, UNCHANGED <<file, original>>,
           NEW pc \in {"connecting", "connected", "holding", "closed", "failed", "dead"},
           OnlyOpener(p), openers'[p].pc = pc
    PROVE  OpenInv'
    BY UnchangedFileFits, OutsideIsFit, OpenInvStep

LEMMA ConnectStep ==
    ASSUME OpenInv, NEW p \in Processes, Connect(p)
    PROVE  OpenInv'
<1>1. OnlyOpener(p) /\ openers'[p].pc = "connected"
    BY GoToEffect DEF Connect, OpenInv, ProgramCounters
<1> QED BY <1>1, OutwardStep DEF Connect

LEMMA ReadApplicationIdStep ==
    ASSUME OpenInv, NEW p \in Processes, ReadApplicationId(p)
    PROVE  OpenInv'
<1>0. openers \in [Processes -> OpenerState] /\ UNCHANGED <<file, original>>
    BY DEF ReadApplicationId, OpenInv
<1>1. CASE file.application = "other"
  <2>1. OnlyOpener(p) /\ openers'[p].pc = "failed"
      BY <1>0, <1>1, FailEffect DEF ReadApplicationId, Reasons
  <2> QED BY <1>0, <2>1, OutwardStep
<1>2. CASE file.application # "other"
  <2>1. openers' = [openers EXCEPT ![p].pc = "identified", ![p].application = file.application]
      BY <1>2 DEF ReadApplicationId
  <2>2. file.application \in {"none", "ordarium"}
      BY <1>2 DEF OpenInv, FileFits, FileContent
  <2>3. /\ OnlyOpener(p)
        /\ openers'[p].pc = "identified" /\ openers'[p].application = file.application
      BY <1>0, <2>1, <2>2, ZenonT(30) DEF OnlyOpener, OpenerState, ProgramCounters
  <2>4. OpenerFits(p)'
      BY <1>0, <1>2, <2>3 DEF OpenerFits, OpenerAt
  <2> QED BY <1>0, <2>3, <2>4, UnchangedFileFits, OpenInvStep
<1> QED BY <1>1, <1>2

\* What follows from the version that an opener read.
LEMMA PlanFits ==
    ASSUME FileFits, file.application # "other", NEW version \in Nat,
           original.version <= CurrentVersion,
           version = original.version \/ (version = CurrentVersion /\ file.version = CurrentVersion)
    PROVE  /\ original.version \in 0..4
           /\ Plan(version) \in {"creating", "upgrading", "open"}
           /\ Plan(version) = "creating" => original.version = 0
           /\ Plan(version) = "upgrading" => version = original.version /\ version \in 1..3
           /\ Plan(version) = "open" => file.version = CurrentVersion
<1>1. /\ original.application # "other" /\ original \in FileContent
    BY OriginalsAssumption DEF FileFits
<1>2. original.version \in Nat /\ file.version \in Nat
    BY <1>1 DEF FileFits, FileContent
<1>3. original.version \in 0..4 /\ CurrentVersion = 4
    BY <1>2 DEF CurrentVersion
<1>4. original.version = CurrentVersion => file.version = CurrentVersion
    BY OldContent DEF IsCurrent
<1>5. version \in 0..4
    BY <1>3
<1>6. CASE version = 0
    BY <1>3, <1>6 DEF Plan
<1>7. CASE version \in 1..3
  <2>1. Plan(version) = "upgrading"
      BY <1>3, <1>7 DEF Plan
  <2> QED BY <1>3, <1>7, <2>1
<1>8. CASE version = 4
  <2>1. Plan(version) = "open"
      BY <1>3, <1>8 DEF Plan
  <2> QED BY <1>3, <1>4, <1>8, <2>1
<1> QED BY <1>5, <1>6, <1>7, <1>8

LEMMA ReadUserVersionStep ==
    ASSUME OpenInv, NEW p \in Processes, ReadUserVersion(p)
    PROVE  OpenInv'
<1>0. openers \in [Processes -> OpenerState] /\ UNCHANGED <<file, original>>
    BY DEF ReadUserVersion, OpenInv
<1>1. FileFits /\ OpenerFits(p) /\ OpenerAt(p, "identified")
    BY DEF OpenInv, ReadUserVersion
<1>2. CASE file.version > CurrentVersion
  <2>1. OnlyOpener(p) /\ openers'[p].pc = "failed"
      BY <1>0, <1>2, FailEffect DEF ReadUserVersion, Reasons
  <2> QED BY <1>0, <2>1, OutwardStep
<1>3. CASE ~ (file.version > CurrentVersion)
  <2> DEFINE pc == IF openers[p].application = "none" THEN "stamping" ELSE Plan(file.version)
  <2>1. /\ file.application # "other"
        /\ openers[p].application = "ordarium" => file.application = "ordarium"
      BY <1>1 DEF OpenerFits, OpenerAt
  <2>2. file.version \in Nat /\ file.version <= CurrentVersion
      BY <1>1, <1>3 DEF FileFits, FileContent, CurrentVersion
  <2>3. /\ original.version \in 0..4 /\ original.version <= CurrentVersion
        /\ \/ file.version = original.version
           \/ file.version = CurrentVersion
    <3>1. /\ original.version \in 0..4 /\ (IsCurrent <=> file.version = CurrentVersion)
          /\ ~ IsCurrent => file.version = original.version
        BY <1>1, <2>1, <2>2, OldOrCurrent
    <3> QED BY <3>1 DEF CurrentVersion
  <2>4. /\ Plan(file.version) \in {"creating", "upgrading", "open"}
        /\ Plan(file.version) = "creating" => original.version = 0
        /\ Plan(file.version) = "upgrading"
              => file.version = original.version /\ file.version \in 1..3
        /\ Plan(file.version) = "open" => file.version = CurrentVersion
      BY <1>1, <2>1, <2>2, <2>3, PlanFits
  <2>5. openers' = [openers EXCEPT ![p].version = file.version, ![p].pc = pc]
      BY <1>3 DEF ReadUserVersion
  <2>6. pc \in ProgramCounters
      BY <2>4 DEF ProgramCounters
  <2>7. openers[p].application \in {"none", "ordarium"}
      BY <1>0 DEF OpenerState
  <2>8. pc = "stamping" \/ (openers[p].application = "ordarium" /\ pc = Plan(file.version))
      BY <2>7
  <2> HIDE DEF pc
  <2>9. OnlyOpener(p) /\ openers'[p].pc = pc /\ openers'[p].version = file.version
      BY <1>0, <2>2, <2>5, <2>6 DEF OnlyOpener, OpenerState
  <2>10. OpenerFits(p)'
    <3>1. CASE pc = "stamping"
        BY <1>0, <2>1, <2>3, <2>9, <3>1 DEF OpenerFits, OpenerAt
    <3>2. CASE openers[p].application = "ordarium" /\ pc = Plan(file.version)
        BY <1>0, <2>1, <2>4, <2>9, <3>2 DEF OpenerFits, OpenerAt
    <3> QED BY <2>8, <3>1, <3>2
  <2> QED BY <1>0, <2>9, <2>10, UnchangedFileFits, OpenInvStep
<1> QED BY <1>2, <1>3

LEMMA BeginMigrationStep ==
    ASSUME OpenInv, NEW p \in Processes, BeginMigration(p)
    PROVE  OpenInv'
<1>1. OnlyOpener(p) /\ openers'[p].pc = "migrating" /\ openers'[p].version = openers[p].version
    BY GoToEffect DEF BeginMigration, OpenInv, ProgramCounters
<1>2. OpenerFits(p)'
    BY <1>1 DEF OpenInv, OpenerFits, OpenerAt, BeginMigration
<1> QED BY <1>1, <1>2, UnchangedFileFits, OpenInvStep DEF BeginMigration

LEMMA BeginWriteStep ==
    ASSUME OpenInv, NEW p \in Processes, BeginWrite(p)
    PROVE  OpenInv'
<1>1. OnlyOpener(p) /\ openers'[p].pc = "writing" /\ openers'[p].version = openers[p].version
    BY GoToEffect DEF BeginWrite, OpenInv, ProgramCounters
<1>2. OpenerFits(p)'
    BY <1>1 DEF OpenInv, OpenerFits, OpenerAt, BeginWrite
<1> QED BY <1>1, <1>2, UnchangedFileFits, OpenInvStep DEF BeginWrite

LEMMA MeetBusyStep ==
    ASSUME OpenInv, NEW p \in Processes, MeetBusy(p)
    PROVE  OpenInv'
<1>0. openers \in [Processes -> OpenerState] /\ UNCHANGED <<file, original>>
    BY DEF MeetBusy, OpenInv
<1>1. CASE Retry(p)
  <2> DEFINE attempt == IF openers[p].attempt < MaxAttempts THEN openers[p].attempt + 1
                                                           ELSE openers[p].attempt
  <2>1. openers' = [openers EXCEPT ![p].pc = "connecting", ![p].attempt = attempt]
      BY <1>0, <1>1 DEF MeetBusy
  <2>2. attempt \in Nat
      BY <1>0 DEF OpenerState
  <2> HIDE DEF attempt
  <2>3. OnlyOpener(p) /\ openers'[p].pc = "connecting"
      BY <1>0, <2>1, <2>2, ZenonT(30) DEF OnlyOpener, OpenerState, ProgramCounters
  <2> QED BY <1>0, <2>3, OutwardStep
<1>2. CASE ~ Retry(p)
  <2>1. OnlyOpener(p) /\ openers'[p].pc = "failed"
      BY <1>0, <1>2, FailEffect DEF MeetBusy, Reasons
  <2> QED BY <1>0, <2>1, OutwardStep
<1> QED BY <1>1, <1>2

LEMMA MeetErrorStep ==
    ASSUME OpenInv, NEW p \in Processes, MeetError(p)
    PROVE  OpenInv'
<1>0. openers \in [Processes -> OpenerState] /\ UNCHANGED <<file, original>>
    BY DEF MeetError, OpenInv
<1>1. OnlyOpener(p) /\ openers'[p].pc = "failed"
    BY <1>0, FailEffect DEF MeetError, Reasons
<1> QED BY <1>0, <1>1, OutwardStep

\* A crash, the end of a handle's use, and a foreign connection's transaction.
LEMMA LeavingSteps ==
    ASSUME OpenInv, NEW p \in Processes,
           Crash(p) \/ CloseHandle(p) \/ HoldLock(p) \/ ReleaseLock(p)
    PROVE  OpenInv'
<1>0. openers \in [Processes -> OpenerState] /\ UNCHANGED <<file, original>>
    BY DEF OpenInv, Crash, CloseHandle, HoldLock, ReleaseLock
<1>1. PICK pc \in {"holding", "closed", "dead"} : GoTo(p, pc)
    BY DEF Crash, CloseHandle, HoldLock, ReleaseLock
<1>2. OnlyOpener(p) /\ openers'[p].pc = pc
    BY <1>0, <1>1, GoToEffect DEF ProgramCounters
<1> QED BY <1>0, <1>2, OutwardStep

LEMMA StutteringStep ==
    ASSUME OpenInv, UNCHANGED vars
    PROVE  OpenInv'
<1>1. FileFits'
    BY UnchangedFileFits DEF vars
<1>2. ASSUME NEW p \in Processes PROVE OpenerFits(p)'
    BY DEF vars, OpenInv, OpenerFits, OpenerAt
<1> QED BY <1>1, <1>2 DEF OpenInv, vars

-----------------------------------------------------------------------------
(***************************************************************************)
(* The steps that write.                                                   *)
(***************************************************************************)
\* An opener that writes has met a file of this application.
LEMMA WritersFile ==
    ASSUME OpenInv, file.application # "other", original.version <= CurrentVersion
    PROVE  /\ file \in FileContent /\ original \in FileContent
           /\ original.application # "other" /\ HasForm(original)
           /\ original.version \in 0..4
           /\ IsCurrent <=> file.version = CurrentVersion
           /\ IsCurrent => CurrentFits
           /\ ~ IsCurrent => file.version = original.version /\ original.version \in 0..3
<1>1. FileFits /\ file \in FileContent
    BY DEF OpenInv, FileFits
<1>2. original.application # "other"
    BY <1>1 DEF FileFits
<1>3. original \in FileContent /\ HasForm(original)
    BY <1>1, <1>2, OriginalHasForm
<1>4. original.version \in 0..4
    BY <1>3 DEF FileContent, CurrentVersion
<1>5. IsCurrent <=> file.version = CurrentVersion
    BY DEF IsCurrent
<1>6. IsCurrent => CurrentFits
    BY <1>1 DEF FileFits
<1>7. ~ IsCurrent => file.version = original.version
    BY <1>1, OldContent
<1>8. ~ IsCurrent => original.version # 4
    BY <1>5, <1>7 DEF CurrentVersion
<1> QED BY <1>1, <1>2, <1>3, <1>4, <1>5, <1>6, <1>7, <1>8

LEMMA StaysOld ==
    ASSUME OpenInv, file.application # "other", original.version <= CurrentVersion, ~ IsCurrent,
           UNCHANGED original, file' \in FileContent, OldFits',
           file'.version = file.version, file'.application = "ordarium"
    PROVE  FileFits' /\ FileGoesOn
<1>1. /\ original.application # "other" /\ ~ (original.version > CurrentVersion)
      /\ file.version # CurrentVersion
    BY WritersFile DEF FileContent, CurrentVersion
<1>2. original \in Originals
    BY DEF OpenInv, FileFits
<1>3. ~ IsCurrent'
    BY <1>1 DEF IsCurrent
<1>4. file'.application # original.application => original.application = "none"
    BY <1>1, WritersFile DEF FileContent
<1> QED BY <1>1, <1>2, <1>3, <1>4 DEF FileFits, FileGoesOn, CurrentVersion

LEMMA BecomesCurrent ==
    ASSUME OpenInv, file.application # "other", original.version <= CurrentVersion,
           UNCHANGED original, file' \in FileContent, CurrentFits', file'.version = CurrentVersion
    PROVE  FileFits' /\ FileGoesOn
<1>1. original.application # "other" /\ ~ (original.version > CurrentVersion)
    BY WritersFile DEF FileContent, CurrentVersion
<1>2. original \in Originals
    BY DEF OpenInv, FileFits
<1>3. file'.application = "ordarium" /\ IsCurrent'
    BY DEF CurrentFits, IsCurrent, CurrentVersion
<1>4. file'.application # original.application => original.application = "none"
    BY <1>1, <1>3, WritersFile DEF FileContent
<1> QED BY <1>1, <1>2, <1>3, <1>4 DEF FileFits, FileGoesOn, CurrentVersion

LEMMA StampApplicationIdStep ==
    ASSUME OpenInv, NEW p \in Processes, StampApplicationId(p)
    PROVE  OpenInv'
<1> DEFINE version == openers[p].version
<1>1. /\ openers \in [Processes -> OpenerState] /\ OpenerFits(p) /\ OpenerAt(p, "stamping")
      /\ UNCHANGED original /\ FileFits
    BY DEF OpenInv, StampApplicationId
<1>2. /\ file.application # "other" /\ original.version <= CurrentVersion
      /\ version = original.version \/ (version = CurrentVersion /\ file.version = CurrentVersion)
    BY <1>1 DEF OpenerFits, OpenerAt
<1>3. version \in Nat
    BY <1>1 DEF OpenerState
<1>4. /\ original.version \in 0..4
      /\ Plan(version) \in {"creating", "upgrading", "open"}
      /\ Plan(version) = "creating" => original.version = 0
      /\ Plan(version) = "upgrading" => version = original.version /\ version \in 1..3
      /\ Plan(version) = "open" => file.version = CurrentVersion
    BY <1>1, <1>2, <1>3, PlanFits
<1>5. file' = [file EXCEPT !.application = "ordarium"]
    BY DEF StampApplicationId
<1>6. file \in FileContent /\ original \in FileContent
    BY <1>2, WritersFile
<1>7. /\ file' \in FileContent /\ file'.application = "ordarium"
      /\ file'.version = file.version /\ file'.tables = file.tables
    BY <1>5, <1>6, Zenon DEF FileContent
<1>8. FileFits' /\ FileGoesOn
  <2>1. CASE IsCurrent
    <3>1. file.application = "ordarium"
        BY <1>2, <2>1, WritersFile DEF CurrentFits
    <3>2. file' = file
        BY <1>5, <1>6, <3>1, Zenon DEF FileContent
    <3> QED BY <1>1, <3>2, UnchangedFileFits
  <2>2. CASE ~ IsCurrent
    <3>1. OldFits
        BY <1>1, <2>2 DEF FileFits
    <3>2. file' = [original EXCEPT !.application = "ordarium", !.tables = file.tables]
        BY <1>5, <1>6, <3>1, Zenon DEF OldFits, FileContent
    <3>3. OldFits'
        BY <1>1, <1>7, <3>1, <3>2 DEF OldFits
    <3> QED BY <1>1, <1>2, <1>7, <2>2, <3>3, StaysOld
  <2> QED BY <2>1, <2>2
<1>9. OnlyOpener(p) /\ openers'[p].pc = Plan(version) /\ openers'[p].version = version
  <2>1. GoTo(p, Plan(version)) /\ Plan(version) \in ProgramCounters
      BY <1>4 DEF StampApplicationId, ProgramCounters
  <2> QED BY <1>1, <2>1, GoToEffect
<1> HIDE DEF version
<1>10. OpenerFits(p)'
    BY <1>1, <1>4, <1>7, <1>9 DEF OpenerFits, OpenerAt
<1> QED BY <1>8, <1>9, <1>10, OpenInvStep

LEMMA FirstMissingIsATable ==
    ASSUME Missing # {}
    PROVE  Tables[FirstMissing] \in AllTables
<1>1. \E i \in Missing : \A j \in Missing : i <= j
    BY DEF Missing
<1>2. FirstMissing \in Missing
    BY <1>1 DEF FirstMissing
<1> QED BY <1>2 DEF Missing, AllTables

LEMMA CreateTableStep ==
    ASSUME OpenInv, NEW p \in Processes, CreateTable(p)
    PROVE  OpenInv'
<1>1. /\ openers \in [Processes -> OpenerState] /\ OpenerFits(p) /\ OpenerAt(p, "creating")
      /\ UNCHANGED <<original, openers>> /\ FileFits /\ Missing # {}
    BY DEF OpenInv, CreateTable
<1>2. file.application = "ordarium" /\ original.version = 0 /\ original.version <= CurrentVersion
    BY <1>1 DEF OpenerFits, OpenerAt, CurrentVersion
<1>3. file' = [file EXCEPT !.tables = @ \cup {Tables[FirstMissing]}]
    BY DEF CreateTable
<1>4. file \in FileContent /\ original \in FileContent /\ (IsCurrent => CurrentFits)
    BY <1>2, WritersFile
<1>5. ~ IsCurrent
    BY <1>1, <1>4 DEF CurrentFits, Missing, AllTables
<1> DEFINE tables == file.tables \cup {Tables[FirstMissing]}
<1>6. tables \in SUBSET AllTables
    BY <1>1, <1>4, FirstMissingIsATable DEF FileContent
<1> HIDE DEF tables
<1>7. file' = [file EXCEPT !.tables = tables]
    BY <1>3 DEF tables
<1>8. /\ file' \in FileContent /\ file'.application = "ordarium"
      /\ file'.version = file.version /\ file'.tables = tables
    BY <1>2, <1>4, <1>6, <1>7, Zenon DEF FileContent
<1>9. OldFits
    BY <1>1, <1>5 DEF FileFits
<1>10. file' = [original EXCEPT !.application = "ordarium", !.tables = tables]
    BY <1>2, <1>4, <1>7, <1>9, Zenon DEF OldFits, FileContent
<1>11. OldFits'
    BY <1>1, <1>2, <1>8, <1>10 DEF OldFits
<1>12. FileFits' /\ FileGoesOn
  <2>1. file.application # "other"
      BY <1>2
  <2> QED BY <1>1, <1>2, <1>5, <1>8, <1>11, <2>1, StaysOld
<1>13. OnlyOpener(p) /\ OpenerFits(p)'
    BY <1>1, <1>8 DEF OnlyOpener, OpenerFits, OpenerAt
<1> QED BY <1>12, <1>13, OpenInvStep

LEMMA NothingIsLogged ==
    ASSUME NEW revs, revs = {}
    PROVE  ChainsAreGapless(revs) /\ LogIsComplete(revs, <<>>)
<1>1. IsFiniteSet({}) /\ Cardinality({}) = 0
    BY FS_EmptySet
<1>2. ASSUME NEW s \in Subjects PROVE ChainOf(revs, s) = {s} \X (1..Cardinality(ChainOf(revs, s)))
  <2>1. ChainOf(revs, s) = {}
      BY DEF ChainOf
  <2> QED BY <1>1, <2>1
<1> QED BY <1>1, <1>2 DEF ChainsAreGapless, LogIsComplete, ToSet

LEMMA SetUserVersionStep ==
    ASSUME OpenInv, NEW p \in Processes, SetUserVersion(p)
    PROVE  OpenInv'
<1>1. /\ openers \in [Processes -> OpenerState] /\ OpenerFits(p) /\ OpenerAt(p, "creating")
      /\ UNCHANGED original /\ FileFits /\ Missing = {}
    BY DEF OpenInv, SetUserVersion
<1>2. /\ file.application = "ordarium" /\ original.version = 0
      /\ original.version <= CurrentVersion
    BY <1>1 DEF OpenerFits, OpenerAt, CurrentVersion
<1>3. file' = [file EXCEPT !.version = CurrentVersion]
    BY DEF SetUserVersion
<1>4. /\ file \in FileContent /\ original \in FileContent /\ HasForm(original)
      /\ (IsCurrent <=> file.version = CurrentVersion)
    BY <1>2, WritersFile
<1>5. FileFits' /\ FileGoesOn
  <2>1. CASE IsCurrent
    <3>1. file' = file
        BY <1>3, <1>4, <2>1, Zenon DEF FileContent
    <3> QED BY <1>1, <3>1, UnchangedFileFits
  <2>2. CASE ~ IsCurrent
    <3>1. /\ file'.application = "ordarium" /\ file'.version = CurrentVersion
          /\ file'.tables = file.tables /\ file'.layout = file.layout
          /\ file'.operations = file.operations /\ file'.leases = file.leases
          /\ file'.events = file.events /\ file'.revisions = file.revisions
          /\ file'.changes = file.changes
        BY <1>2, <1>3, <1>4, Zenon DEF FileContent
    <3>2. file' \in FileContent
      <4>1. CurrentVersion \in Nat
          BY DEF CurrentVersion
      <4> QED BY <1>3, <1>4, <4>1, Zenon DEF FileContent
    <3>3. /\ file.layout = original.layout
          /\ file.operations = original.operations /\ file.leases = original.leases
          /\ file.events = original.events /\ file.revisions = original.revisions
          /\ file.changes = original.changes
        BY <1>1, <2>2, OldContent
    <3>4. original = [EmptyFile EXCEPT !.application = original.application,
                                       !.tables = original.tables]
        BY <1>2, <1>4 DEF HasForm
    <3>5. /\ original.layout = "current" /\ original.operations = [op \in Ops |-> Absent]
          /\ original.leases = [op \in Ops |-> NoRow]
          /\ original.revisions = {} /\ original.changes = <<>>
        BY <3>4 DEF EmptyFile
    <3>6. RowsAreSound(file')
        BY <3>1, <3>3, <3>5, AbsentIsSound DEF RowsAreSound
    <3>7. file'.tables = AllTables
        BY <1>1, <1>4, <3>1 DEF Missing, AllTables, FileContent
    <3>8. RowsAreKept' /\ LogLeadsWithTheOld'
        BY <1>1, <1>2, <3>1, <3>3 DEF RowsAreKept, LogLeadsWithTheOld
    <3>9. /\ ChainsAreGapless(file'.revisions) /\ LogIsComplete(file'.revisions, file'.changes)
          /\ original'.revisions \subseteq file'.revisions
        BY <1>1, <3>1, <3>3, <3>5, NothingIsLogged
    <3>10. CurrentFits'
        BY <3>1, <3>3, <3>5, <3>6, <3>7, <3>8, <3>9 DEF CurrentFits
    <3>11. file.application # "other"
        BY <1>2
    <3> QED BY <1>1, <1>2, <3>1, <3>2, <3>10, <3>11, BecomesCurrent
  <2> QED BY <2>1, <2>2
<1>6. OnlyOpener(p) /\ openers'[p].pc = "open"
    BY <1>1, GoToEffect DEF SetUserVersion, ProgramCounters
<1>7. file'.application = "ordarium" /\ file'.version = CurrentVersion
    BY <1>2, <1>3, <1>4, Zenon DEF FileContent
<1>8. OpenerFits(p)'
    BY <1>6, <1>7 DEF OpenerFits, OpenerAt
<1> QED BY <1>5, <1>6, <1>8, OpenInvStep

\* A migration that finds the file current, because another opener was first,
\* fails or changes nothing.
LEMMA MigrationOfCurrent ==
    ASSUME file \in FileContent, IsCurrent, CurrentFits, NEW from \in 1..3,
           MigrationSucceeds(from)
    PROVE  Migrated(from, file) = file
<1>1. from # 1
    BY DEF MigrationSucceeds, CurrentFits
<1>2. file.version = CurrentVersion /\ file.tables = AllTables
    BY DEF IsCurrent, CurrentFits
<1>3. CASE from = 2
  <2>1. Migrated(from, file) = Upgraded(file)
      BY <1>3 DEF Migrated
  <2>2. Upgraded(file) = file
      BY <1>2, Zenon DEF Upgraded, FileContent
  <2> QED BY <2>1, <2>2
<1>4. CASE from = 3
  <2>1. file.changes = <<>>
      BY <1>4 DEF MigrationSucceeds
  <2>2. IsFiniteSet(file.revisions) /\ Cardinality(file.revisions) = 0
      BY <2>1 DEF CurrentFits, ChainsAreGapless, LogIsComplete
  <2>3. file.revisions = {}
      BY <2>2, FS_EmptySet
  <2>4. file.revisions \in SUBSET (Subjects \X Nat) /\ ChainsAreGapless(file.revisions)
      BY DEF FileContent, CurrentFits
  <2>5. /\ InMigrationOrder(file.revisions) \in Seq(Subjects \X Nat)
        /\ LogIsComplete(file.revisions, InMigrationOrder(file.revisions))
      BY <2>4, BackfilledLogIsComplete
  <2>6. Len(InMigrationOrder(file.revisions)) = 0
      BY <2>2, <2>5 DEF LogIsComplete
  <2> DEFINE log == InMigrationOrder(file.revisions)
  <2>7. log = <<>>
    <3> HIDE DEF log
    <3>1. log \in Seq(Subjects \X Nat) /\ Len(log) = 0
        BY <2>5, <2>6 DEF log
    <3> QED BY <3>1
  <2>8. Migrated(from, file) = Upgraded([file EXCEPT !.changes = log])
      BY <1>4 DEF Migrated
  <2> HIDE DEF log
  <2>9. [file EXCEPT !.changes = log] = file
      BY <2>1, <2>7, Zenon DEF FileContent
  <2>10. Upgraded(file) = file
      BY <1>2, Zenon DEF Upgraded, FileContent
  <2> QED BY <2>8, <2>9, <2>10
<1> QED BY <1>1, <1>3, <1>4

\* A migration of the file the opener read the version of makes it current.
LEMMA MigrationOfOld ==
    ASSUME FileFits, ~ IsCurrent, file.application = "ordarium", NEW from \in 1..3,
           original.version = from, original.application # "other",
           MigrationSucceeds(from), UNCHANGED original, file' = Migrated(from, file)
    PROVE  file' \in FileContent /\ CurrentFits' /\ file'.version = CurrentVersion
<1>1. file \in FileContent /\ original \in FileContent /\ HasForm(original)
    BY OriginalHasForm DEF FileFits
<1>2. /\ file.version = original.version /\ file.layout = original.layout
      /\ file.operations = original.operations /\ file.leases = original.leases
      /\ file.events = original.events /\ file.revisions = original.revisions
      /\ file.changes = original.changes
    BY OldContent
<1>3. CurrentVersion \in Nat /\ CurrentVersion = 4
    BY DEF CurrentVersion
<1>4. CASE from = 1
  <2>1. V1RowsAreSound(file)
      BY <1>1, <1>2, <1>4 DEF HasForm, V1RowsAreSound
  <2>2. /\ \A op \in Ops : Exists(file.operations[op]) => Converts(file.operations[op])
        /\ \A event \in file.events : Converts(event[2])
      BY <1>4 DEF MigrationSucceeds
  <2>3. file' = Upgraded(MigratedFromV1(file))
      BY <1>4 DEF Migrated
  <2>4. file' \in FileContent /\ RowsAreSound(file')
    <3> DEFINE new == Upgraded(MigratedFromV1(file))
    <3>1. new \in FileContent /\ RowsAreSound(new)
        BY <1>1, <2>1, <2>2, ConvertedRowsAreSound
    <3> QED BY <2>3, <3>1
  <2> DEFINE rows == [op \in Ops |-> IF Exists(file.operations[op])
                                     THEN TransformV1Record(file.operations[op]) ELSE Absent]
             leases == [op \in Ops |-> IF Exists(file.operations[op])
                                       THEN V1Claim(file.operations[op]) ELSE NoRow]
             events == {<<event[1], TransformV1Record(event[2])>> : event \in file.events}
  <2>5. file' = [file EXCEPT !.layout = "current", !.operations = rows, !.leases = leases,
                             !.events = events, !.version = CurrentVersion, !.tables = AllTables]
      BY <2>3 DEF Upgraded, MigratedFromV1
  <2>6. /\ MigratedFromV1(original).operations = rows
        /\ MigratedFromV1(original).leases = leases
        /\ MigratedFromV1(original).events = events
      BY <1>1, <1>2 DEF MigratedFromV1, FileContent
  <2> HIDE DEF rows, leases, events
  <2>7. /\ file'.application = "ordarium" /\ file'.layout = "current"
        /\ file'.tables = AllTables /\ file'.version = CurrentVersion
        /\ file'.operations = rows /\ file'.leases = leases /\ file'.events = events
        /\ file'.revisions = file.revisions /\ file'.changes = file.changes
      BY <1>1, <2>5, Zenon DEF FileContent
  <2>8. RowsAreKept'
      BY <1>4, <2>6, <2>7 DEF RowsAreKept
  <2>9. original.revisions = {} /\ original.changes = <<>>
      BY <1>1, <1>4 DEF HasForm
  <2>10. /\ ChainsAreGapless(file'.revisions) /\ LogIsComplete(file'.revisions, file'.changes)
         /\ original'.revisions \subseteq file'.revisions /\ LogLeadsWithTheOld'
      BY <1>2, <1>4, <2>7, <2>9, NothingIsLogged DEF LogLeadsWithTheOld
  <2>11. CurrentFits'
      BY <2>4, <2>7, <2>8, <2>10 DEF CurrentFits
  <2> QED BY <2>4, <2>7, <2>11
<1>5. CASE from = 2
  <2>1. file' = [file EXCEPT !.version = CurrentVersion, !.tables = AllTables]
      BY <1>5 DEF Migrated, Upgraded
  <2>2. /\ file' \in FileContent
        /\ file'.application = "ordarium" /\ file'.layout = file.layout
        /\ file'.tables = AllTables /\ file'.version = CurrentVersion
        /\ file'.operations = file.operations /\ file'.leases = file.leases
        /\ file'.events = file.events
        /\ file'.revisions = file.revisions /\ file'.changes = file.changes
    <3>1. AllTables \in SUBSET AllTables
        OBVIOUS
    <3> QED BY <1>1, <1>3, <2>1, <3>1, ZenonT(60) DEF FileContent
  <2>3. /\ original.layout = "current" /\ RowsAreSound(original)
        /\ original.revisions = {} /\ original.changes = <<>>
      BY <1>1, <1>5 DEF HasForm
  <2>4. RowsAreSound(file') /\ RowsAreKept'
      BY <1>2, <1>5, <2>2, <2>3 DEF RowsAreSound, RowsAreKept
  <2>5. /\ ChainsAreGapless(file'.revisions) /\ LogIsComplete(file'.revisions, file'.changes)
        /\ original'.revisions \subseteq file'.revisions /\ LogLeadsWithTheOld'
      BY <1>2, <1>5, <2>2, <2>3, NothingIsLogged DEF LogLeadsWithTheOld
  <2>6. CurrentFits'
      BY <1>2, <2>2, <2>3, <2>4, <2>5 DEF CurrentFits
  <2> QED BY <2>2, <2>6
<1>6. CASE from = 3
  <2> DEFINE log == InMigrationOrder(file.revisions)
  <2>1. file' = [file EXCEPT !.changes = log, !.version = CurrentVersion, !.tables = AllTables]
      BY <1>6 DEF Migrated, Upgraded
  <2>2. /\ original.layout = "current" /\ RowsAreSound(original)
        /\ ChainsAreGapless(original.revisions)
      BY <1>1, <1>6 DEF HasForm
  <2>3. file.revisions \in SUBSET (Subjects \X Nat) /\ ChainsAreGapless(file.revisions)
      BY <1>1, <1>2, <2>2 DEF FileContent
  <2>4. log \in Seq(Subjects \X Nat) /\ LogIsComplete(file.revisions, log)
      BY <2>3, BackfilledLogIsComplete
  <2>5. log = InMigrationOrder(original.revisions)
      BY <1>2
  <2> HIDE DEF log
  <2>6. /\ file' \in FileContent
        /\ file'.application = "ordarium" /\ file'.layout = file.layout
        /\ file'.tables = AllTables /\ file'.version = CurrentVersion
        /\ file'.operations = file.operations /\ file'.leases = file.leases
        /\ file'.events = file.events
        /\ file'.revisions = file.revisions /\ file'.changes = log
    <3>1. AllTables \in SUBSET AllTables
        OBVIOUS
    <3> QED BY <1>1, <1>3, <2>1, <2>4, <3>1, ZenonT(60) DEF FileContent
  <2>7. RowsAreSound(file') /\ RowsAreKept'
      BY <1>2, <1>6, <2>2, <2>6 DEF RowsAreSound, RowsAreKept
  <2>8. LogLeadsWithTheOld'
    <3> DEFINE old == Cardinality(original.revisions)
    <3>1. Len(log) = old
        BY <1>2, <2>4 DEF LogIsComplete
    <3>2. Len(log) \in Nat
        BY <2>4
    <3> HIDE DEF old
    <3>3. old <= Len(file'.changes)
        BY <2>6, <3>1, <3>2
    <3>4. \A i \in 1..old : file'.changes[i] = InMigrationOrder(original'.revisions)[i]
        BY <2>5, <2>6
    <3>5. old = Cardinality(original'.revisions)
        BY DEF old
    <3> QED BY <3>3, <3>4, <3>5 DEF LogLeadsWithTheOld
  <2>9. CurrentFits'
      BY <1>2, <2>2, <2>3, <2>4, <2>6, <2>7, <2>8 DEF CurrentFits
  <2> QED BY <2>6, <2>9
<1> QED BY <1>4, <1>5, <1>6

LEMMA EndMigrationStep ==
    ASSUME OpenInv, NEW p \in Processes, EndMigration(p)
    PROVE  OpenInv'
<1> DEFINE from == openers[p].version
<1>1. /\ openers \in [Processes -> OpenerState] /\ OpenerFits(p) /\ OpenerAt(p, "migrating")
      /\ UNCHANGED original /\ FileFits
    BY DEF OpenInv, EndMigration
<1>2. /\ file.application = "ordarium" /\ file.application # "other"
      /\ from = original.version /\ from \in 1..3
    BY <1>1 DEF OpenerFits, OpenerAt
<1>3. original.version <= CurrentVersion
    BY <1>2 DEF CurrentVersion
<1>4. /\ file \in FileContent /\ original.application # "other"
      /\ (IsCurrent => CurrentFits)
    BY <1>2, <1>3, WritersFile
<1>5. CASE MigrationSucceeds(from)
  <2>1. file' = Migrated(from, file) /\ GoTo(p, "open")
      BY <1>5 DEF EndMigration
  <2>2. OnlyOpener(p) /\ openers'[p].pc = "open"
      BY <1>1, <2>1, GoToEffect DEF ProgramCounters
  <2> HIDE DEF from
  <2>3. /\ FileFits' /\ FileGoesOn
        /\ file'.version = CurrentVersion /\ file'.application = "ordarium"
    <3>1. CASE IsCurrent
      <4>1. file' = file
          BY <1>2, <1>4, <1>5, <2>1, <3>1, MigrationOfCurrent
      <4> QED BY <1>1, <1>2, <3>1, <4>1, UnchangedFileFits DEF IsCurrent
    <3>2. CASE ~ IsCurrent
      <4>1. file' \in FileContent /\ CurrentFits' /\ file'.version = CurrentVersion
          BY <1>1, <1>2, <1>4, <1>5, <2>1, <3>2, MigrationOfOld
      <4>2. file'.application = "ordarium"
          BY <4>1 DEF CurrentFits
      <4> QED BY <1>1, <1>2, <1>3, <4>1, <4>2, BecomesCurrent
    <3> QED BY <3>1, <3>2
  <2>4. OpenerFits(p)'
      BY <2>2, <2>3 DEF OpenerFits, OpenerAt
  <2> QED BY <2>2, <2>3, <2>4, OpenInvStep
<1>6. CASE ~ MigrationSucceeds(from)
  <2>1. Fail(p, "migration-failed") /\ UNCHANGED file
      BY <1>6 DEF EndMigration
  <2>2. OnlyOpener(p) /\ openers'[p].pc = "failed"
      BY <1>1, <2>1, FailEffect DEF Reasons
  <2> QED BY <1>1, <2>1, <2>2, OutwardStep
<1> QED BY <1>5, <1>6

LEMMA CommitWriteStep ==
    ASSUME OpenInv, NEW p \in Processes, CommitWrite(p)
    PROVE  OpenInv'
<1>1. /\ openers \in [Processes -> OpenerState] /\ OpenerFits(p) /\ OpenerAt(p, "writing")
      /\ UNCHANGED original /\ FileFits
    BY DEF OpenInv, CommitWrite
<1>2. file.application = "ordarium" /\ file.version = CurrentVersion /\ IsCurrent
    BY <1>1 DEF OpenerFits, OpenerAt, IsCurrent
<1>3. file \in FileContent /\ CurrentFits
    BY <1>1, <1>2 DEF FileFits
<1>4. PICK s \in Subjects : LET r == Cardinality(ChainOf(file.revisions, s)) + 1 IN
          file' = [file EXCEPT !.revisions = @ \cup {<<s, r>>}, !.changes = Append(@, <<s, r>>)]
    BY DEF CommitWrite
<1> DEFINE r == Cardinality(ChainOf(file.revisions, s)) + 1
           revs == file.revisions \cup {<<s, r>>}
           log == Append(file.changes, <<s, r>>)
<1>5. file' = [file EXCEPT !.revisions = revs, !.changes = log]
    BY <1>4
<1>6. /\ file.revisions \in SUBSET (Subjects \X Nat) /\ file.changes \in Seq(Subjects \X Nat)
      /\ ChainsAreGapless(file.revisions) /\ LogIsComplete(file.revisions, file.changes)
    BY <1>3 DEF FileContent, CurrentFits
<1>7. /\ revs \in SUBSET (Subjects \X Nat) /\ log \in Seq(Subjects \X Nat)
      /\ ChainsAreGapless(revs) /\ LogIsComplete(revs, log)
    BY <1>6, NextRevisionIsLogged, ZenonT(30)
<1>8. /\ file.revisions \subseteq revs
      /\ Len(log) = Len(file.changes) + 1 /\ Len(file.changes) \in Nat
      /\ \A i \in 1..Len(file.changes) : log[i] = file.changes[i]
    BY <1>6
<1> HIDE DEF r, revs, log
<1>9. /\ file' \in FileContent
      /\ file'.application = "ordarium" /\ file'.layout = file.layout
      /\ file'.tables = file.tables /\ file'.version = CurrentVersion
      /\ file'.operations = file.operations /\ file'.leases = file.leases
      /\ file'.events = file.events
      /\ file'.revisions = revs /\ file'.changes = log
    BY <1>2, <1>3, <1>5, <1>7, ZenonT(60) DEF FileContent
<1>10. RowsAreSound(file') /\ RowsAreKept'
    BY <1>1, <1>3, <1>9 DEF CurrentFits, RowsAreSound, RowsAreKept
<1>11. original'.revisions \subseteq file'.revisions
    BY <1>1, <1>3, <1>8, <1>9 DEF CurrentFits
<1>12. LogLeadsWithTheOld'
  <2> SUFFICES ASSUME original.version = 3
               PROVE  LET old == Cardinality(original.revisions) IN
                      /\ old <= Len(log)
                      /\ \A i \in 1..old : log[i] = InMigrationOrder(original.revisions)[i]
      BY <1>1, <1>9 DEF LogLeadsWithTheOld
  <2> DEFINE old == Cardinality(original.revisions)
  <2>1. /\ old <= Len(file.changes)
        /\ \A i \in 1..old : file.changes[i] = InMigrationOrder(original.revisions)[i]
      BY <1>3 DEF CurrentFits, LogLeadsWithTheOld
  <2>2. old \in Nat
    <3>1. IsFiniteSet(file.revisions) /\ original.revisions \subseteq file.revisions
        BY <1>3 DEF CurrentFits, ChainsAreGapless
    <3> QED BY <3>1, FS_Subset, FS_CardinalityType
  <2> HIDE DEF old
  <2>3. old <= Len(log) /\ \A i \in 1..old : i \in 1..Len(file.changes)
      BY <1>8, <2>1, <2>2
  <2> QED BY <1>8, <2>1, <2>3 DEF old
<1>13. CurrentFits'
    BY <1>3, <1>7, <1>9, <1>10, <1>11, <1>12 DEF CurrentFits
<1>14. FileFits' /\ FileGoesOn
  <2>1. /\ file.application # "other" /\ original.application # "other"
        /\ original.application # file.application => original.application = "none"
        /\ original \in Originals /\ original \in FileContent
      BY <1>1, <1>2, OriginalsAssumption DEF FileFits
  <2>2. original.version <= CurrentVersion
    <3>1. original.version > CurrentVersion => file.version # CurrentVersion
        BY <1>1, <1>2 DEF FileFits, CurrentVersion
    <3> QED BY <1>2, <2>1, <3>1 DEF FileContent, CurrentVersion
  <2> QED BY <1>1, <1>9, <1>13, <2>1, <2>2, BecomesCurrent
<1>15. OnlyOpener(p) /\ openers'[p].pc = "closed"
    BY <1>1, GoToEffect DEF CommitWrite, ProgramCounters
<1> QED BY <1>14, <1>15, OutsideIsFit, OpenInvStep

-----------------------------------------------------------------------------
(***************************************************************************)
(* The theorems.                                                           *)
(***************************************************************************)
\* Every opener, whatever it read before its turn to write came, finds the file
\* as it was or current, and leaves it so.
THEOREM OpenInvariant == Spec => []OpenInv
<1>1. Init => OpenInv
    BY InitiallyOpenInv
<1>2. OpenInv /\ [Next]_vars => OpenInv'
  <2> SUFFICES ASSUME OpenInv, [Next]_vars PROVE OpenInv'
      OBVIOUS
  <2>1. ASSUME NEW p \in Processes, OpenStep(p) PROVE OpenInv'
      BY <2>1, ConnectStep, ReadApplicationIdStep, ReadUserVersionStep, StampApplicationIdStep,
         CreateTableStep, SetUserVersionStep, BeginMigrationStep, EndMigrationStep, MeetBusyStep
         DEF OpenStep
  <2>2. ASSUME NEW p \in Processes,
               MeetError(p) \/ Crash(p) \/ CloseHandle(p) \/ HoldLock(p) \/ ReleaseLock(p)
        PROVE  OpenInv'
      BY <2>2, MeetErrorStep, LeavingSteps
  <2>3. ASSUME NEW p \in Processes, BeginWrite(p) \/ CommitWrite(p) PROVE OpenInv'
      BY <2>3, BeginWriteStep, CommitWriteStep
  <2>4. CASE AllEnded \/ UNCHANGED vars
      BY <2>4, StutteringStep DEF AllEnded
  <2> QED BY <2>1, <2>2, <2>3, <2>4 DEF Next
<1> QED BY <1>1, <1>2, PTL DEF Spec

LEMMA SoundRowsAreALedger ==
    ASSUME RowsAreSound(file)
    PROVE  Current!RecordsWellFormed /\ Current!LeaseBacksClaim
<1>1. ASSUME NEW op \in Ops, Current!Exists(file.operations[op])
      PROVE  Current!WellFormed(file.operations[op])
  <2>1. WellFormed(file.operations[op])
      BY <1>1 DEF RowsAreSound, Exists, Current!Exists
  <2> QED BY <2>1 DEF WellFormed, Current!WellFormed, HasClaim, Current!HasClaim, NoClaim,
                      Current!NoClaim, Nobody, Current!Nobody
<1>2. ASSUME NEW op \in Ops
      PROVE  Current!ClaimIsLeased(file.operations[op], file.leases[op])
    BY DEF RowsAreSound
<1> QED BY <1>1, <1>2 DEF Current!RecordsWellFormed, Current!LeaseBacksClaim

\* At every instant, so also after a crash, the file is what it was or a
\* complete current ledger, and whoever has it open has it open as the latter.
THEOREM FileIsOldOrCurrentAlways == Spec => []FileIsOldOrCurrent
<1>1. OpenInv => FileIsOldOrCurrent
  <2> SUFFICES ASSUME OpenInv PROVE FileIsOldOrCurrent
      OBVIOUS
  <2>1. FileFits
      BY DEF OpenInv
  <2>2. CASE IsCurrent
    <3>1. CurrentFits
        BY <2>1, <2>2 DEF FileFits
    <3>2. Current!RecordsWellFormed /\ Current!LeaseBacksClaim
        BY <3>1, SoundRowsAreALedger DEF CurrentFits
    <3>3. /\ original.application = "other" \/ original.version > CurrentVersion => file = original
          /\ file.version = CurrentVersion /\ file.application # "other"
        BY <2>1, <2>2 DEF FileFits, IsCurrent
    <3>4. ASSUME NEW p \in Processes, openers[p].pc \in {"open", "writing"}
          PROVE  file.version = CurrentVersion /\ file.application = "ordarium"
        BY <3>1, <3>3 DEF CurrentFits
    <3> QED BY <3>1, <3>2, <3>3, <3>4 DEF FileIsOldOrCurrent, CurrentFits
  <2>3. CASE ~ IsCurrent
    <3>1. OldFits
        BY <2>1, <2>3 DEF FileFits
    <3>2. ASSUME NEW p \in Processes, openers[p].pc \in {"open", "writing"}
          PROVE  file.version = CurrentVersion /\ file.application = "ordarium"
        BY <3>2 DEF OpenInv, OpenerFits
    <3>3. original.application = "other" \/ original.version > CurrentVersion => file = original
        BY <2>1 DEF FileFits
    <3> QED BY <2>3, <3>1, <3>2, <3>3 DEF FileIsOldOrCurrent, OldFits, IsCurrent
  <2> QED BY <2>2, <2>3
<1> QED BY <1>1, OpenInvariant, PTL

\* What an older version stored is in the file, unaltered, before, during and
\* after its migration, and leads the change log in migration order.
THEOREM MigrationKeepsTheFactsAlways == Spec => []MigrationKeepsTheFacts
<1>1. OpenInv => MigrationKeepsTheFacts
  <2> SUFFICES ASSUME OpenInv PROVE MigrationKeepsTheFacts
      OBVIOUS
  <2>1. FileFits /\ original \in FileContent /\ file \in FileContent
      BY OriginalsAssumption DEF OpenInv, FileFits
  <2>2. ASSUME NEW rec PROVE SameFacts(rec, rec)
      BY DEF SameFacts
  <2>3. CASE ~ IsCurrent
    <3>1. /\ file.layout = original.layout /\ file.operations = original.operations
          /\ file.events = original.events /\ file.revisions = original.revisions
          /\ file.version = original.version
        BY <2>1, <2>3, OldContent
    <3>2. original.version = 3 => file.version # CurrentVersion
        BY <3>1 DEF CurrentVersion
    <3> QED BY <2>2, <3>1, <3>2 DEF MigrationKeepsTheFacts
  <2>4. CASE IsCurrent
    <3>1. CurrentFits
        BY <2>1, <2>4 DEF FileFits
    <3>2. CASE original.version = 1
      <4>1. /\ file.operations = [op \in Ops |-> IF Exists(original.operations[op])
                                    THEN TransformV1Record(original.operations[op]) ELSE Absent]
            /\ file.leases = [op \in Ops |-> IF Exists(original.operations[op])
                                THEN V1Claim(original.operations[op]) ELSE NoRow]
            /\ file.events = {<<event[1], TransformV1Record(event[2])>> : event \in original.events}
        BY <2>1, <3>1, <3>2 DEF CurrentFits, RowsAreKept, MigratedFromV1, FileContent
      <4>2. ASSUME NEW op \in Ops, Exists(original.operations[op])
            PROVE  /\ SameFacts(file.operations[op], original.operations[op])
                   /\ file.leases[op] = V1Claim(original.operations[op])
          BY <4>1, <4>2, TransformKeepsFacts
      <4>3. ASSUME NEW event \in original.events
            PROVE  \E kept \in file.events : kept[1] = event[1] /\ SameFacts(kept[2], event[2])
        <5> DEFINE kept == <<event[1], TransformV1Record(event[2])>>
        <5>1. kept \in file.events
            BY <4>1
        <5>2. kept[1] = event[1] /\ SameFacts(kept[2], event[2])
            BY TransformKeepsFacts
        <5> QED BY <5>1, <5>2
      <4> QED BY <3>1, <3>2, <4>2, <4>3 DEF MigrationKeepsTheFacts, CurrentFits
    <3>3. CASE original.version # 1
      <4>1. file.operations = original.operations /\ file.events = original.events
          BY <3>1, <3>3 DEF CurrentFits, RowsAreKept
      <4>2. file.layout = original.layout
        <5>1. file.application # "other" /\ file.version <= CurrentVersion
            BY <2>4 DEF IsCurrent, CurrentVersion
        <5>2. HasForm(original) /\ original.version \in 0..4
            BY <2>1, <5>1, OldOrCurrent
        <5>3. CASE original.version = 0
          <6>1. original = [EmptyFile EXCEPT !.application = original.application,
                                             !.tables = original.tables]
              BY <5>2, <5>3 DEF HasForm
          <6>2. original.layout = "current"
              BY <6>1 DEF EmptyFile
          <6> QED BY <3>1, <6>2 DEF CurrentFits
        <5>4. CASE original.version \in 2..4
            BY <3>1, <5>2, <5>4 DEF CurrentFits, HasForm
        <5> QED BY <3>3, <5>2, <5>3, <5>4
      <4>3. original.revisions \subseteq file.revisions
          BY <3>1 DEF CurrentFits
      <4>4. original.version = 3 =>
              SubSeq(file.changes, 1, Cardinality(original.revisions))
                  = InMigrationOrder(original.revisions)
        <5> SUFFICES ASSUME original.version = 3
                     PROVE  SubSeq(file.changes, 1, Cardinality(original.revisions))
                                = InMigrationOrder(original.revisions)
            OBVIOUS
        <5> DEFINE old == Cardinality(original.revisions)
                   log == InMigrationOrder(original.revisions)
        <5>1. /\ old <= Len(file.changes)
              /\ \A i \in 1..old : file.changes[i] = log[i]
            BY <3>1 DEF CurrentFits, LogLeadsWithTheOld
        <5>2. old \in Nat
          <6>1. IsFiniteSet(original.revisions)
              BY <3>1, FS_Subset DEF CurrentFits, ChainsAreGapless
          <6> QED BY <6>1, FS_CardinalityType
        <5>3. log = [i \in 1..old |-> log[i]]
            BY DEF InMigrationOrder
        <5>4. file.changes \in Seq(Subjects \X Nat)
            BY <2>1 DEF FileContent
        <5> HIDE DEF old, log
        <5>5. SubSeq(file.changes, 1, old) = [i \in 1..old |-> file.changes[i]]
            BY <5>1, <5>2, <5>4
        <5> QED BY <5>1, <5>3, <5>5 DEF old, log
      <4> QED BY <2>2, <4>1, <4>2, <4>3, <4>4 DEF MigrationKeepsTheFacts
    <3> QED BY <3>2, <3>3
  <2> QED BY <2>3, <2>4
<1> QED BY <1>1, OpenInvariant, PTL

=============================================================================
