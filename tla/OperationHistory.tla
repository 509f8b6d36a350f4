-------------------------- MODULE OperationHistory --------------------------
(***************************************************************************)
(* history() and list() of the OperationLedger port: a reader follows the  *)
(* opaque cursors page by page while clients go on writing.  A page of     *)
(* history() holds the next events of one operation; a page of list() the  *)
(* next records in descending order of updatedAt, the operation id         *)
(* breaking ties.                                                          *)
(*                                                                         *)
(* Create(), CompareAndSet() and Claim() insert one event per revision in  *)
(* the transaction that writes the record, so the events of an operation   *)
(* are its revisions up to the current one.                                *)
(***************************************************************************)
EXTENDS OperationLedger, Paging

CONSTANTS Rank,         \* Rank[op]: the order of operation ids
          Requests      \* what a reader may ask for

Request ==
    [kind : {"none", "history", "list"},
     op : Ops,                              \* of a history
     state : OperationStates \cup {"any"},  \* filter of a list
     limit : Nat \ {0},
     memory : BOOLEAN]                      \* asked of MemoryLedger, not of SqliteLedger

ASSUME HistoryAssumption ==
    /\ Rank \in [Ops -> Nat]
    /\ \A a, b \in Ops : Rank[a] = Rank[b] => a = b
    /\ Requests \subseteq Request

VARIABLES updatedAt,    \* updatedAt[op]: when the record was written last
          request,      \* what the reader asks for
          reader,       \* how far it has come
          still         \* history: the records of its list that nobody has written since

historyVars == <<records, leases, now, updatedAt, request, reader, still>>

-----------------------------------------------------------------------------
InHistory == request.kind = "history"

Events(op) == IF Exists(records[op]) THEN 0..records[op].rev ELSE {}

Matching ==
    {op \in Ops : Exists(records[op])
                  /\ request.state \in {"any", records[op].state}}

Items == IF InHistory THEN Events(request.op) ELSE Matching

\* A list descends, so its places are negated.
PlaceOf(item) == IF InHistory THEN <<item, 0>> ELSE <<-updatedAt[item], -Rank[item]>>

Beginning == IF InHistory THEN <<-1, 0>> ELSE <<-(MaxClock + 1), 0>>

Places == {PlaceOf(item) : item \in Items}
PagePlaces == PageAfter(Places, reader.cursor, request.limit)
Page == {item \in Items : PlaceOf(item) \in PagePlaces}

\* MemoryLedger's list() issues a cursor with every full page, also the last.
HasNextCursor ==
    IF request.memory /\ ~ InHistory
    THEN Cardinality(Page) = request.limit
    ELSE MoreBeyond(Places, reader.cursor, request.limit)

ReadPage ==
    /\ request.kind # "none"
    /\ reader.pc # "done"
    /\ reader' = [pc |-> IF HasNextCursor THEN "reading" ELSE "done",
                  cursor |-> LastOf(PagePlaces, reader.cursor),
                  seen |-> reader.seen \cup Page,
                  repeated |-> reader.repeated \/ reader.seen \cap Page # {},
                  head |-> records[request.op].rev]
    /\ still' = IF reader.pc = "idle" THEN Items ELSE still
    /\ UNCHANGED <<ledgerVars, updatedAt, request>>

\* A write moves its record to the front of every list.  Neither time nor
\* still is kept up where no list will ask for it any more.
WriteOnTime ==
    /\ LedgerNext
    /\ IF request.kind # "list" \/ reader.pc = "done"
       THEN UNCHANGED <<updatedAt, still>>
       ELSE /\ updatedAt' = [op \in Ops |->
                    IF records'[op] # records[op] THEN now ELSE updatedAt[op]]
            /\ still' = {op \in still : records'[op] = records[op]}
    /\ UNCHANGED <<request, reader>>

HistoryInit ==
    /\ LedgerInit
    /\ updatedAt = [op \in Ops |-> 0]
    /\ request \in Requests
    /\ reader = [pc |-> "idle", cursor |-> Beginning, seen |-> {}, repeated |-> FALSE, head |-> 0]
    /\ still = {}

HistoryNext == WriteOnTime \/ ReadPage

HistorySpec == HistoryInit /\ [][HistoryNext]_historyVars

-----------------------------------------------------------------------------
\* Pages lose nothing and repeat nothing, although records are written and
\* move between two of them, pages may be exactly full, and updates share a
\* timestamp.  A history that ends without a cursor has shown every event up
\* to the revision current at its last page; a list has shown every record
\* that matched when it began and that nobody has written since.
TraversalsMissNothing ==
    /\ ~ reader.repeated
    /\ reader.pc = "done" =>
        IF InHistory
        THEN reader.seen = (IF reader.seen = {} THEN {} ELSE 0..reader.head)
        ELSE still \subseteq reader.seen
=============================================================================
