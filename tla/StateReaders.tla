---------------------------- MODULE StateReaders ----------------------------
(***************************************************************************)
(* The paged reads of management state: stateHistory() of one subject,     *)
(* listStates() and listStatesReferencing(), followed from cursor to       *)
(* cursor while writers commit.  The reader has a ledger handle of its     *)
(* own, which stays open.                                                  *)
(***************************************************************************)
EXTENDS StateStore, Paging

CONSTANTS SubjectRank,      \* SubjectRank[s]: the order of (namespace, key)
          ReadRequests      \* what the reader may ask for

ReadRequest ==
    [kind : {"none", "history", "list", "referencing"},
     subject : Subjects,                \* of a history
     ref : StateRefs,                   \* of a listing of references
     limit : Nat \ {0},
     memory : BOOLEAN]                  \* asked of MemoryLedger, not of SqliteLedger

ASSUME ReadersAssumption ==
    /\ SubjectRank \in [Subjects -> Nat]
    /\ \A s, t \in Subjects : SubjectRank[s] = SubjectRank[t] => s = t
    /\ ReadRequests \subseteq ReadRequest

VARIABLES readRequest,
          reader,       \* how far the reader has come
          due           \* history: what it was due to see when it began

readerVars == <<readRequest, reader, due>>

-----------------------------------------------------------------------------
Committed == {row \in Subjects \X (1..MaxRevision) : row[2] <= CurrentRevision(row[1])}

\* A list shows a subject at its current revision; its place is the subject.
Rows ==
    CASE readRequest.kind = "history" ->
            {row \in Committed : row[1] = readRequest.subject}
      [] readRequest.kind = "list" ->
            {row \in Committed : row[2] = CurrentRevision(row[1])}
      [] readRequest.kind = "referencing" ->
            {row \in Committed : readRequest.ref \in revisions[row[1]][row[2]].refs}

RowPlace(row) == <<SubjectRank[row[1]], IF readRequest.kind = "list" THEN 0 ELSE row[2]>>
RowPlaces == {RowPlace(row) : row \in Rows}
PagePlaces == PageAfter(RowPlaces, reader.cursor, readRequest.limit)

\* MemoryLedger's listStatesReferencing() counts the matches before the cursor,
\* too: it issues a cursor that leads to an empty page.
IssuesCursor ==
    IF readRequest.memory /\ readRequest.kind = "referencing"
    THEN PagePlaces # {} /\ Cardinality(Rows) > readRequest.limit
    ELSE MoreBeyond(RowPlaces, reader.cursor, readRequest.limit)

ReadPage ==
    /\ readRequest.kind # "none"
    /\ reader.pc # "done"
    /\ reader' = [pc |-> IF IssuesCursor THEN "reading" ELSE "done",
                  cursor |-> LastOf(PagePlaces, reader.cursor),
                  seen |-> reader.seen \cup PagePlaces,
                  repeated |-> reader.repeated \/ reader.seen \cap PagePlaces # {}]
    /\ due' = IF reader.pc = "idle" THEN RowPlaces ELSE due
    /\ UNCHANGED <<storeVars, readRequest>>

ReadersInit ==
    /\ StoreInit
    /\ readRequest \in ReadRequests
    /\ reader = [pc |-> "idle", cursor |-> <<-1, 0>>, seen |-> {}, repeated |-> FALSE]
    /\ due = {}

ReadersNext == (StoreNext /\ UNCHANGED readerVars) \/ ReadPage

ReadersSpec == ReadersInit /\ [][ReadersNext]_<<storeVars, readerVars>>

-----------------------------------------------------------------------------
\* A reader that follows the cursors to their end has met everything that was
\* there when it began, and nothing twice, whatever is committed between two
\* of its pages; a history it has met up to a revision without a gap.
ReadersMissNothing ==
    /\ ~ reader.repeated
    /\ reader.pc = "done" => due \subseteq reader.seen
    /\ readRequest.kind = "history" =>
          \A place \in reader.seen : \A r \in 1..(place[2] - 1) : <<place[1], r>> \in reader.seen
=============================================================================
