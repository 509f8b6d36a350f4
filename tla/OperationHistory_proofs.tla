----------------------- MODULE OperationHistory_proofs -----------------------
(***************************************************************************)
(* A reader of history() or list() misses nothing and meets nothing twice, *)
(* for every set of operations and runtimes, every request, page size and  *)
(* order of operation ids, and every bound on the clock.                   *)
(*                                                                         *)
(* The clients' steps are those of OperationLedger, so its theorems hold   *)
(* here.  A history only grows beyond the cursors it has issued.  A record *)
(* that is written moves in a list, but only towards its front, and the    *)
(* front lies behind every cursor: what was met is never met again, and    *)
(* what was not written keeps its place.                                   *)
(***************************************************************************)
EXTENDS OperationHistory, OperationLedger_proofs, Paging_proofs

-----------------------------------------------------------------------------
(***************************************************************************)
(* The ledger under a reader.                                              *)
(***************************************************************************)
LEMMA HistoryKeepsLedger == HistorySpec => LedgerSpec
<1>1. HistoryInit => LedgerInit
    BY DEF HistoryInit
<1>2. [HistoryNext]_historyVars => [LedgerNext]_ledgerVars
    BY DEF HistoryNext, WriteOnTime, ReadPage, historyVars, ledgerVars
<1> QED BY <1>1, <1>2, PTL DEF HistorySpec, LedgerSpec

\* A record that exists stays, and its revision only grows.
LEMMA RevisionsGrow ==
    ASSUME LedgerTypeOK, [LedgerNext]_ledgerVars, NEW op \in Ops, Exists(records[op])
    PROVE  /\ Exists(records'[op])
           /\ records[op].rev \in Nat /\ records'[op].rev \in Nat
           /\ records[op].rev <= records'[op].rev
<1> DEFINE rec == records[op]
           next == records'[op]
<1>1. rec \in OperationRecord /\ rec.state # "absent" /\ rec.rev \in Nat
    BY DEF LedgerTypeOK, Exists, OperationRecord
<1>2. next \in OperationRecord
    BY OperationStep, OperationTypeStep
<1>3. next.rev \in Nat
    BY <1>2 DEF OperationRecord
<1>4. CASE Untouched(op) \/ Renewed(op)
    BY <1>1, <1>4 DEF Untouched, Renewed, Exists
<1>5. CASE Created(op)
    BY <1>1, <1>5 DEF Created, Exists
<1>6. CASE Advanced(op)
  <2>1. next \in Successors(op, rec)
      BY <1>6 DEF Advanced
  <2>2. next.rev = rec.rev + 1 /\ next.state # "absent"
      BY <1>1, <2>1, SuccessorsCounters, SuccessorsState
  <2> HIDE DEF rec, next
  <2>3. rec.rev <= next.rev
      BY <1>1, <2>2
  <2> QED BY <1>1, <1>3, <2>2, <2>3 DEF Exists, rec, next
<1>7. ASSUME NEW owner \in Runtimes, TakenBy(op, owner)
      PROVE  next.state = "claimed" /\ next.rev = rec.rev + 1
    BY <1>1, <1>7 DEF TakenBy, ClaimedRecord, Revised, OperationRecord
<1>8. ASSUME NEW owner \in Runtimes, TakenBy(op, owner)
      PROVE  Exists(records'[op]) /\ rec.rev <= next.rev
  <2>1. next.state = "claimed" /\ next.rev = rec.rev + 1
      BY <1>8, <1>7
  <2> QED BY <1>1, <2>1 DEF Exists
<1> QED BY <1>1, <1>3, <1>4, <1>5, <1>6, <1>8, OperationStep DEF OperationMoved, Exists

\* Finitely many operations exist at any time: a step creates at most one.
Recorded == {op \in Ops : Exists(records[op])}
RecordedIsFinite == IsFiniteSet(Recorded)

LEMMA RecordedStaysFinite == LedgerSpec => []RecordedIsFinite
<1>1. LedgerInit => RecordedIsFinite
  <2>1. LedgerInit => Recorded = {}
      BY DEF LedgerInit, Recorded, Exists, Absent
  <2> QED BY <2>1, FS_EmptySet DEF RecordedIsFinite
<1>2. LedgerTypeOK /\ RecordedIsFinite /\ [LedgerNext]_ledgerVars => RecordedIsFinite'
  <2> SUFFICES ASSUME LedgerTypeOK, RecordedIsFinite, [LedgerNext]_ledgerVars
               PROVE  IsFiniteSet(Recorded')
      BY DEF RecordedIsFinite
  <2>1. ASSUME NEW o \in Ops, \A op \in Ops \ {o} : records'[op] = records[op]
        PROVE  IsFiniteSet(Recorded')
    <3>1. IsFiniteSet(Recorded \cup {o})
        BY FS_AddElement DEF RecordedIsFinite
    <3>2. Recorded' \in SUBSET (Recorded \cup {o})
        BY <2>1 DEF Recorded
    <3> QED BY <3>1, <3>2, FS_Subset
  <2>2. CASE records' = records
      BY <2>2 DEF Recorded, RecordedIsFinite
  <2>3. ASSUME NEW o \in Ops, Submit(o) \/ Advance(o) \/ Heartbeat(o)
        PROVE  \A op \in Ops \ {o} : records'[op] = records[op]
      BY <2>3 DEF Submit, Create, Advance, CompareAndSet, Heartbeat, RenewLease, LedgerTypeOK
  <2>4. ASSUME NEW o \in Ops, NEW owner \in Runtimes, TakeOwnership(o, owner)
        PROVE  \A op \in Ops \ {o} : records'[op] = records[op]
      BY <2>4 DEF TakeOwnership, Claim, LedgerTypeOK
  <2>5. Tick \/ UNCHANGED ledgerVars => records' = records
      BY DEF Tick, ledgerVars
  <2> QED BY <2>1, <2>2, <2>3, <2>4, <2>5 DEF LedgerNext
<1> QED BY <1>1, <1>2, LedgerTypeCorrect, PTL DEF LedgerSpec

-----------------------------------------------------------------------------
(***************************************************************************)
(* Items and their places.                                                 *)
(***************************************************************************)
TimesFit ==
    /\ updatedAt \in [Ops -> Nat]
    /\ \A op \in Ops : updatedAt[op] <= now

Asks == request \in Request /\ request.kind \in {"history", "list"}

BaseInv == LedgerTypeOK /\ RecordedIsFinite /\ TimesFit

LEMMA PlaceTypes ==
    ASSUME BaseInv, Asks, NEW item \in Items
    PROVE  PlaceOf(item) \in Pairs /\ Precedes(Beginning, PlaceOf(item))
<1>1. CASE InHistory
  <2>1. request.op \in Ops
      BY DEF Asks, Request
  <2>2. item \in Nat
      BY <1>1, <2>1 DEF Items, Events, BaseInv, LedgerTypeOK, OperationRecord
  <2> QED BY <1>1, <2>2 DEF PlaceOf, Beginning, Pairs, Precedes
<1>2. CASE ~ InHistory
  <2>1. item \in Ops
      BY <1>2 DEF Items, Matching
  <2>2. /\ updatedAt[item] \in Nat /\ updatedAt[item] <= now /\ now \in 0..MaxClock
        /\ MaxClock \in Nat /\ Rank[item] \in Nat
      BY <2>1, ClockAssumption, HistoryAssumption DEF BaseInv, TimesFit, LedgerTypeOK
  <2>3. -(MaxClock + 1) < -updatedAt[item] /\ -updatedAt[item] \in Int /\ -Rank[item] \in Int
      BY <2>2
  <2> QED BY <1>2, <2>3 DEF PlaceOf, Beginning, Pairs, Precedes
<1> QED BY <1>1, <1>2

LEMMA BeginningType == Beginning \in Pairs
<1>1. -(MaxClock + 1) \in Int /\ -1 \in Int
    BY ClockAssumption
<1> QED BY <1>1 DEF Beginning, Pairs

\* No two items share a place.
LEMMA PlacesDiffer ==
    ASSUME BaseInv, Asks, NEW a \in Items, NEW b \in Items, PlaceOf(a) = PlaceOf(b)
    PROVE  a = b
<1>1. CASE InHistory
    BY <1>1 DEF PlaceOf
<1>2. CASE ~ InHistory
  <2>1. a \in Ops /\ b \in Ops
      BY <1>2 DEF Items, Matching
  <2>2. Rank[a] \in Nat /\ Rank[b] \in Nat
      BY <2>1, HistoryAssumption
  <2>3. -Rank[a] = -Rank[b]
      BY <1>2 DEF PlaceOf
  <2>4. Rank[a] = Rank[b]
      BY <2>2, <2>3
  <2> QED BY <2>1, <2>4, HistoryAssumption
<1> QED BY <1>1, <1>2

LEMMA PlacesAreFinite ==
    ASSUME BaseInv, Asks
    PROVE  IsFiniteSet(Items) /\ IsFiniteSet(Places) /\ Places \in SUBSET Pairs
<1> DEFINE place == [item \in Items |-> PlaceOf(item)]
<1>1. IsFiniteSet(Items)
  <2>1. CASE InHistory
    <3>1. records[request.op].rev \in Nat
        BY DEF Asks, Request, BaseInv, LedgerTypeOK, OperationRecord
    <3> QED BY <2>1, <3>1, FS_Interval, FS_EmptySet DEF Items, Events
  <2>2. CASE ~ InHistory
    <3>1. Matching \in SUBSET Recorded
        BY DEF Matching, Recorded
    <3> QED BY <2>2, <3>1, FS_Subset DEF Items, BaseInv, RecordedIsFinite
  <2> QED BY <2>1, <2>2
<1>2. place \in Surjection(Items, Places)
    BY DEF Surjection, Places
<1>3. IsFiniteSet(Places)
    BY <1>1, <1>2, FS_Surjection
<1>4. Places \in SUBSET Pairs
    BY PlaceTypes DEF Places
<1> QED BY <1>1, <1>3, <1>4

\* The items of a page are as many as its places.
LEMMA PageSizes ==
    ASSUME BaseInv, Asks
    PROVE  Cardinality(Page) = Cardinality(PagePlaces)
<1> DEFINE place == [item \in Page |-> PlaceOf(item)]
<1>1. Page \in SUBSET Items /\ IsFiniteSet(Page)
  <2>1. Page \in SUBSET Items
      BY DEF Page
  <2> QED BY <2>1, PlacesAreFinite, FS_Subset
<1>2. PagePlaces \in SUBSET Places
    BY PlacesAreFinite, PageIsFinite, BeyondIsFinite DEF PagePlaces
<1>3. place \in [Page -> PagePlaces]
    BY DEF Page
<1>4. \A a, b \in Page : place[a] = place[b] => a = b
    BY <1>1, PlacesDiffer
<1>5. \A p \in PagePlaces : \E item \in Page : place[item] = p
    BY <1>2 DEF Places, Page
<1> HIDE DEF place
<1>6. place \in Bijection(Page, PagePlaces)
    BY <1>3, <1>4, <1>5 DEF Bijection, Injection, Surjection, IsInjective
<1>7. ExistsBijection(Page, PagePlaces)
    BY <1>6 DEF ExistsBijection
<1> QED BY <1>1, <1>7, FS_Bijection

\* A page without a next cursor is the last one, also where a cursor is issued
\* with every full page.
LEMMA WithoutCursorNothingIsLeft ==
    ASSUME BaseInv, Asks, ~ HasNextCursor
    PROVE  PagePlaces = Beyond(Places, reader.cursor)
<1>1. IsFiniteSet(Places) /\ Places \in SUBSET Pairs /\ request.limit \in Nat
    BY PlacesAreFinite DEF Asks, Request
<1>2. CASE ~ MoreBeyond(Places, reader.cursor, request.limit)
    BY <1>1, <1>2, LastPageHoldsAll DEF PagePlaces
<1>3. CASE Cardinality(Page) # request.limit
  <2>1. Cardinality(PagePlaces) # request.limit
      BY <1>3, PageSizes
  <2> QED BY <1>1, <2>1, PartialPageHoldsAll DEF PagePlaces
<1> QED BY <1>2, <1>3 DEF HasNextCursor

-----------------------------------------------------------------------------
(***************************************************************************)
(* The reader.                                                             *)
(***************************************************************************)
ReaderTypes ==
    /\ request \in Requests
    /\ reader \in [pc : {"idle", "reading", "done"}, cursor : Pairs,
                   seen : SUBSET (Nat \cup Ops), repeated : {FALSE}, head : Nat]

\* A history has been met up to the cursor, which is that of an event; at its
\* end that was the current one.
HistoryRead ==
    LET last == reader.cursor[1] IN
    /\ last \in Int /\ reader.cursor = <<last, 0>>
    /\ reader.seen = 0..last
    /\ last = -1 \/ (last \in Nat /\ Exists(records[request.op])
                     /\ last <= records[request.op].rev)
    /\ reader.pc = "done" => last = -1 \/ last = reader.head

\* What a list has shown lies behind its cursor for good, what has not been
\* written since it began lies before it or was shown.
ListRead ==
    /\ reader.pc = "idle" => reader.cursor = Beginning /\ reader.seen = {}
    /\ reader.seen \subseteq Ops /\ still \subseteq Ops
    /\ \A op \in reader.seen : NotBeyond(PlaceOf(op), reader.cursor)
    /\ \A op \in still :
          \/ op \in reader.seen
          \/ reader.pc # "done" /\ op \in Matching /\ Precedes(reader.cursor, PlaceOf(op))

HistoryInv ==
    /\ ReaderTypes
    /\ request.kind = "none" => reader.pc = "idle"
    /\ request.kind = "history" => HistoryRead
    /\ request.kind = "list" => ListRead

LEMMA RequestTypes ==
    ASSUME ReaderTypes
    PROVE  /\ request \in Request /\ request.op \in Ops /\ request.limit \in Nat \ {0}
           /\ request.kind \in {"none", "history", "list"}
           /\ request.kind # "none" => Asks
    BY HistoryAssumption DEF ReaderTypes, Request, Asks

LEMMA ListPlaces ==
    ASSUME BaseInv, ~ InHistory, NEW op \in Ops
    PROVE  PlaceOf(op) = <<-updatedAt[op], -Rank[op]>> /\ PlaceOf(op) \in Pairs
<1>1. updatedAt[op] \in Nat /\ Rank[op] \in Nat
    BY HistoryAssumption DEF BaseInv, TimesFit
<1> QED BY <1>1 DEF PlaceOf, Pairs

\* Time runs on, and a record is written at the time it is.
LEMMA TimesStep ==
    ASSUME LedgerTypeOK, LedgerTypeOK', TimesFit, [HistoryNext]_historyVars
    PROVE  /\ TimesFit'
           /\ \A op \in Ops : updatedAt[op] <= updatedAt'[op]
<1>1. now \in Nat /\ now' \in Nat
    BY ClockAssumption DEF LedgerTypeOK
<1>2. now <= now'
  <2>1. ASSUME LedgerNext PROVE now <= now'
    <3>1. now' = now \/ Tick
        BY <2>1 DEF LedgerNext, Submit, Advance, Heartbeat, TakeOwnership
    <3> QED BY <1>1, <3>1 DEF Tick
  <2> QED BY <1>1, <2>1 DEF HistoryNext, WriteOnTime, ReadPage, ledgerVars, historyVars
<1>3. ASSUME NEW op \in Ops
      PROVE  /\ updatedAt[op] \in Nat /\ updatedAt[op] <= now
             /\ updatedAt'[op] = updatedAt[op] \/ updatedAt'[op] = now
    BY DEF TimesFit, HistoryNext, WriteOnTime, ReadPage, historyVars
<1>4. updatedAt' = [op \in Ops |-> updatedAt'[op]]
    BY DEF TimesFit, HistoryNext, WriteOnTime, ReadPage, historyVars
<1>5. ASSUME NEW op \in Ops
      PROVE  /\ updatedAt'[op] \in Nat /\ updatedAt'[op] <= now'
             /\ updatedAt[op] <= updatedAt'[op]
    BY <1>1, <1>2, <1>3
<1> QED BY <1>4, <1>5 DEF TimesFit

\* A client's step leaves the reader's account true.
LEMMA WriteKeepsReader ==
    ASSUME BaseInv, BaseInv', HistoryInv, WriteOnTime
    PROVE  HistoryInv'
<1>1. /\ LedgerNext /\ [LedgerNext]_ledgerVars /\ request' = request /\ reader' = reader
      /\ LedgerTypeOK
    BY DEF WriteOnTime, BaseInv
<1>2. ReaderTypes /\ ReaderTypes'
    BY <1>1 DEF HistoryInv, ReaderTypes
<1>3. ASSUME request.kind = "history" PROVE HistoryRead'
  <2>1. HistoryRead /\ request.op \in Ops
      BY <1>2, <1>3, RequestTypes DEF HistoryInv
  <2> DEFINE last == reader.cursor[1]
             rec == records[request.op]
             next == records'[request.op]
  <2>2. ASSUME last \in Nat, Exists(rec), last <= rec.rev
        PROVE  Exists(next) /\ last <= next.rev
      BY <1>1, <2>1, <2>2, RevisionsGrow
  <2>3. \/ last = -1
        \/ last \in Nat /\ Exists(rec) /\ last <= rec.rev
      BY <2>1 DEF HistoryRead
  <2>4. /\ last \in Int /\ reader.cursor = <<last, 0>> /\ reader.seen = 0..last
        /\ reader.pc = "done" => last = -1 \/ last = reader.head
      BY <2>1 DEF HistoryRead
  <2> HIDE DEF last, rec, next
  <2>5. \/ last = -1
        \/ last \in Nat /\ Exists(next) /\ last <= next.rev
      BY <2>2, <2>3
  <2> QED BY <1>1, <2>4, <2>5 DEF HistoryRead, last, next
<1>4. ASSUME request.kind = "list" PROVE ListRead'
  <2>1. ListRead /\ ~ InHistory /\ InHistory' = FALSE
      BY <1>1, <1>4 DEF HistoryInv, InHistory
  <2>2. /\ reader.cursor \in Pairs /\ reader.seen \subseteq Ops /\ still \subseteq Ops
        /\ still' \subseteq still
      BY <1>2, <2>1 DEF ReaderTypes, ListRead, WriteOnTime
  <2>3. ASSUME NEW op \in Ops
        PROVE  /\ PlaceOf(op) = <<-updatedAt[op], -Rank[op]>> /\ PlaceOf(op) \in Pairs
               /\ PlaceOf(op)' = <<-updatedAt'[op], -Rank[op]>>
               /\ PlaceOf(op)' \in Pairs
               /\ NotBeyond(PlaceOf(op)', PlaceOf(op))
    <3>1. updatedAt[op] \in Nat /\ updatedAt'[op] \in Nat /\ Rank[op] \in Nat
        BY HistoryAssumption DEF BaseInv, TimesFit
    <3>2. updatedAt[op] <= updatedAt'[op]
        BY TimesStep DEF BaseInv, HistoryNext
    <3>3. /\ PlaceOf(op) = <<-updatedAt[op], -Rank[op]>>
          /\ PlaceOf(op)' = <<-updatedAt'[op], -Rank[op]>>
        BY <2>1 DEF PlaceOf, InHistory
    <3> QED BY <3>1, <3>2, <3>3 DEF Pairs, NotBeyond, Precedes
  <2>4. ASSUME NEW op \in reader.seen PROVE NotBeyond(PlaceOf(op)', reader.cursor)
    <3>1. NotBeyond(PlaceOf(op), reader.cursor)
        BY <2>1 DEF ListRead
    <3>2. op \in Ops
        BY <2>2
    <3> QED BY <2>2, <2>3, <3>1, <3>2, PrecedesIsTransitive DEF NotBeyond
  <2>5. ASSUME NEW op \in still'
        PROVE  \/ op \in reader.seen
               \/ /\ reader.pc # "done" /\ (op \in Matching)'
                  /\ Precedes(reader.cursor, PlaceOf(op)')
    <3>1. op \in Ops
        BY <2>2
    <3>2. \/ op \in reader.seen
          \/ reader.pc # "done" /\ op \in Matching /\ Precedes(reader.cursor, PlaceOf(op))
        BY <2>1, <2>2 DEF ListRead
    <3>3. ASSUME reader.pc # "done"
          PROVE  updatedAt'[op] = updatedAt[op] /\ records'[op] = records[op]
        BY <1>4, <2>5, <3>1, <3>3 DEF WriteOnTime
    <3>4. ASSUME reader.pc # "done" PROVE PlaceOf(op)' = PlaceOf(op)
        BY <2>3, <3>1, <3>3, <3>4
    <3>5. ASSUME reader.pc # "done", op \in Matching PROVE (op \in Matching)'
        BY <1>1, <3>3, <3>5 DEF Matching
    <3> QED BY <3>2, <3>4, <3>5
  <2> QED BY <1>1, <2>1, <2>2, <2>4, <2>5 DEF ListRead, NotBeyond, Precedes, Beginning, InHistory
<1> QED BY <1>1, <1>2, <1>3, <1>4 DEF HistoryInv

\* What reading a page does, in terms of Paging_proofs.
LEMMA ReadTurnsPage ==
    ASSUME BaseInv, HistoryInv, ReadPage
    PROVE  LET next == LastOf(PagePlaces, reader.cursor) IN
           /\ Asks /\ reader.cursor \in Pairs /\ reader.pc # "done"
           /\ request' = request /\ records' = records /\ updatedAt' = updatedAt
           /\ reader' = [pc |-> IF HasNextCursor THEN "reading" ELSE "done", cursor |-> next,
                         seen |-> reader.seen \cup Page,
                         repeated |-> reader.repeated \/ reader.seen \cap Page # {},
                         head |-> records[request.op].rev]
           /\ still' = IF reader.pc = "idle" THEN Items ELSE still
           /\ next \in Pairs
           /\ next = reader.cursor \/ next \in Places
           /\ NotBeyond(reader.cursor, next)
           /\ \A item \in Page :
                  /\ item \in Items /\ PlaceOf(item) \in Pairs
                  /\ Precedes(reader.cursor, PlaceOf(item)) /\ NotBeyond(PlaceOf(item), next)
           /\ \A item \in Items :
                  \/ NotBeyond(PlaceOf(item), reader.cursor)
                  \/ item \in Page
                  \/ HasNextCursor /\ Precedes(next, PlaceOf(item))
<1> DEFINE next == LastOf(PagePlaces, reader.cursor)
<1>1. /\ request.kind # "none" /\ reader.pc # "done"
      /\ reader' = [pc |-> IF HasNextCursor THEN "reading" ELSE "done", cursor |-> next,
                    seen |-> reader.seen \cup Page,
                    repeated |-> reader.repeated \/ reader.seen \cap Page # {},
                    head |-> records[request.op].rev]
      /\ still' = IF reader.pc = "idle" THEN Items ELSE still
      /\ request' = request /\ records' = records /\ updatedAt' = updatedAt
    BY DEF ReadPage, ledgerVars
<1>2. Asks /\ request.limit \in Nat /\ reader.cursor \in Pairs
    BY <1>1, RequestTypes DEF HistoryInv, ReaderTypes
<1>3. IsFiniteSet(Places) /\ Places \in SUBSET Pairs
    BY <1>2, PlacesAreFinite
<1>4. /\ next \in Pairs
      /\ next = reader.cursor \/ next \in PagePlaces
      /\ NotBeyond(reader.cursor, next)
      /\ \A place \in PagePlaces :
             place \in Places /\ Precedes(reader.cursor, place) /\ NotBeyond(place, next)
      /\ \A place \in Places :
             \/ NotBeyond(place, reader.cursor)
             \/ place \in PagePlaces
             \/ Precedes(next, place)
    BY <1>2, <1>3, PageParts DEF PagePlaces
<1> HIDE DEF next
<1>5. ASSUME NEW item \in Page
      PROVE  /\ item \in Items /\ PlaceOf(item) \in Pairs
             /\ Precedes(reader.cursor, PlaceOf(item)) /\ NotBeyond(PlaceOf(item), next)
    BY <1>2, <1>4, PlaceTypes DEF Page
<1>6. ASSUME NEW item \in Items
      PROVE  \/ NotBeyond(PlaceOf(item), reader.cursor)
             \/ item \in Page
             \/ HasNextCursor /\ Precedes(next, PlaceOf(item))
  <2>1. PlaceOf(item) \in Places /\ (PlaceOf(item) \in PagePlaces => item \in Page)
      BY DEF Places, Page
  <2>2. CASE HasNextCursor
      BY <1>4, <2>1, <2>2
  <2>3. CASE ~ HasNextCursor
    <3>1. NotBeyond(PlaceOf(item), reader.cursor) \/ PlaceOf(item) \in Beyond(Places, reader.cursor)
        BY <1>2, <1>3, <2>1, PrecedesIsTotal DEF Beyond, NotBeyond
    <3> QED BY <1>2, <2>1, <2>3, <3>1, WithoutCursorNothingIsLeft
  <2> QED BY <2>2, <2>3
<1> QED BY <1>1, <1>2, <1>4, <1>5, <1>6 DEF next

LEMMA ReadKeepsHistory ==
    ASSUME BaseInv, HistoryInv, ReadPage, request.kind = "history"
    PROVE  HistoryRead' /\ reader.seen \cap Page = {}
<1> DEFINE next == LastOf(PagePlaces, reader.cursor)
           last == reader.cursor[1]
           rec == records[request.op]
<1>1. /\ reader.cursor \in Pairs /\ request' = request /\ records' = records
      /\ reader'.pc = (IF HasNextCursor THEN "reading" ELSE "done") /\ reader'.cursor = next
      /\ reader'.seen = reader.seen \cup Page /\ reader'.head = rec.rev
      /\ next \in Pairs
      /\ next = reader.cursor \/ next \in Places
      /\ NotBeyond(reader.cursor, next)
      /\ \A item \in Page :
             item \in Items
             /\ Precedes(reader.cursor, PlaceOf(item)) /\ NotBeyond(PlaceOf(item), next)
      /\ \A item \in Items :
             \/ NotBeyond(PlaceOf(item), reader.cursor)
             \/ item \in Page
             \/ HasNextCursor /\ Precedes(next, PlaceOf(item))
    BY ReadTurnsPage
<1>2. HistoryRead /\ InHistory /\ request.op \in Ops
    BY RequestTypes DEF HistoryInv, InHistory
<1>3. rec.rev \in Nat
    BY <1>2 DEF BaseInv, LedgerTypeOK, OperationRecord
<1>4. /\ Items = (IF Exists(rec) THEN 0..rec.rev ELSE {})
      /\ \A item \in Items : PlaceOf(item) = <<item, 0>>
      /\ Places = {<<item, 0>> : item \in Items}
    BY <1>2 DEF Items, Events, PlaceOf, Places
<1>5. /\ last \in Int /\ reader.cursor = <<last, 0>> /\ reader.seen = 0..last
      /\ last = -1 \/ (last \in Nat /\ Exists(rec) /\ last <= rec.rev)
    BY <1>2 DEF HistoryRead
<1> HIDE DEF next, last, rec
<1>6. PICK n \in Int : next = <<n, 0>> /\ (n = last \/ n \in Items)
  <2>1. CASE next = reader.cursor
      BY <1>5, <2>1
  <2>2. CASE next \in Places
    <3>1. PICK item \in Items : next = <<item, 0>>
        BY <1>4, <2>2
    <3>2. item \in Int
        BY <1>3, <1>4
    <3> QED BY <3>1, <3>2
  <2> QED BY <1>1, <2>1, <2>2
<1>7. last <= n
    BY <1>1, <1>5, <1>6 DEF NotBeyond, Precedes
<1>8. n = -1 \/ (n \in Nat /\ Exists(rec) /\ n <= rec.rev)
    BY <1>3, <1>4, <1>5, <1>6
<1>9. ASSUME NEW item \in Page PROVE item \in Nat /\ last < item /\ item <= n
  <2>1. item \in Items /\ PlaceOf(item) = <<item, 0>>
      BY <1>1, <1>4
  <2>2. item \in Nat
      BY <1>3, <1>4, <2>1
  <2> QED BY <1>1, <1>5, <1>6, <2>1, <2>2 DEF NotBeyond, Precedes
<1>10. ASSUME NEW item \in 0..n, last < item PROVE item \in Page
  <2>1. item \in Items /\ PlaceOf(item) = <<item, 0>>
      BY <1>3, <1>4, <1>5, <1>8, <1>10
  <2>2. ~ NotBeyond(PlaceOf(item), reader.cursor) /\ ~ Precedes(next, PlaceOf(item))
      BY <1>5, <1>6, <1>10, <2>1 DEF NotBeyond, Precedes
  <2> QED BY <1>1, <2>1, <2>2
<1>11. reader.seen \cup Page = 0..n
    BY <1>5, <1>6, <1>7, <1>9, <1>10
<1>12. reader.seen \cap Page = {}
    BY <1>5, <1>9
<1>13. ASSUME ~ HasNextCursor PROVE n = -1 \/ n = rec.rev
  <2>1. CASE ~ Exists(rec)
      BY <1>8, <2>1
  <2>2. CASE Exists(rec)
    <3>1. rec.rev \in Items /\ PlaceOf(rec.rev) = <<rec.rev, 0>>
        BY <1>3, <1>4, <2>2
    <3>2. NotBeyond(<<rec.rev, 0>>, <<last, 0>>) \/ rec.rev \in Page
        BY <1>1, <1>5, <1>13, <3>1
    <3>3. rec.rev <= n
        BY <1>3, <1>5, <1>7, <1>9, <3>2 DEF NotBeyond, Precedes
    <3> QED BY <1>3, <1>8, <3>3
  <2> QED BY <2>1, <2>2
<1>14. /\ reader'.cursor[1] = n /\ reader'.cursor = <<n, 0>>
       /\ reader'.seen = 0..n /\ reader'.head = rec.rev
       /\ reader'.pc = "done" => n = -1 \/ n = rec.rev
    BY <1>1, <1>6, <1>11, <1>13
<1> QED BY <1>1, <1>8, <1>12, <1>14 DEF HistoryRead, rec

LEMMA ReadKeepsList ==
    ASSUME BaseInv, HistoryInv, ReadPage, request.kind = "list"
    PROVE  ListRead' /\ reader.seen \cap Page = {}
<1> DEFINE next == LastOf(PagePlaces, reader.cursor)
<1>1. /\ Asks /\ reader.cursor \in Pairs /\ reader.pc # "done"
      /\ request' = request /\ records' = records /\ updatedAt' = updatedAt
      /\ reader'.pc = (IF HasNextCursor THEN "reading" ELSE "done") /\ reader'.cursor = next
      /\ reader'.seen = reader.seen \cup Page
      /\ still' = IF reader.pc = "idle" THEN Items ELSE still
      /\ next \in Pairs
      /\ NotBeyond(reader.cursor, next)
      /\ \A item \in Page :
             /\ item \in Items /\ PlaceOf(item) \in Pairs
             /\ Precedes(reader.cursor, PlaceOf(item)) /\ NotBeyond(PlaceOf(item), next)
      /\ \A item \in Items :
             \/ NotBeyond(PlaceOf(item), reader.cursor)
             \/ item \in Page
             \/ HasNextCursor /\ Precedes(next, PlaceOf(item))
    BY ReadTurnsPage
<1>2. ListRead /\ ~ InHistory /\ Items = Matching /\ Matching \subseteq Ops
    BY DEF HistoryInv, InHistory, Items, Matching
<1>3. /\ reader.seen \subseteq Ops /\ still \subseteq Ops
      /\ reader.pc = "idle" => reader.cursor = Beginning
      /\ \A op \in reader.seen : NotBeyond(PlaceOf(op), reader.cursor)
    BY <1>2 DEF ListRead
<1> HIDE DEF next
<1>4. \A op \in Ops : PlaceOf(op) \in Pairs
    BY <1>2, ListPlaces
<1>5. ASSUME NEW op \in reader.seen PROVE NotBeyond(PlaceOf(op), next) /\ op \notin Page
  <2>1. PlaceOf(op) \in Pairs /\ NotBeyond(PlaceOf(op), reader.cursor)
      BY <1>3, <1>4
  <2>2. NotBeyond(PlaceOf(op), next)
      BY <1>1, <2>1, PrecedesIsTransitive DEF NotBeyond
  <2>3. op \notin Page
      BY <1>1, <2>1, NotBeyondThenBeyond
  <2> QED BY <2>2, <2>3
<1>6. \A op \in reader.seen \cup Page : op \in Ops /\ NotBeyond(PlaceOf(op), next)
    BY <1>1, <1>2, <1>3, <1>5
<1>7. ASSUME NEW op \in still'
      PROVE  \/ op \in reader.seen \cup Page
             \/ HasNextCursor /\ op \in Matching /\ Precedes(next, PlaceOf(op))
  <2>1. op \in reader.seen \/ (op \in Items /\ Precedes(reader.cursor, PlaceOf(op)))
    <3>1. CASE reader.pc = "idle"
        BY <1>1, <1>3, <3>1, PlaceTypes
    <3>2. CASE reader.pc # "idle"
        BY <1>1, <1>2, <3>2 DEF ListRead
    <3> QED BY <3>1, <3>2
  <2>2. ASSUME op \in Items, Precedes(reader.cursor, PlaceOf(op))
        PROVE  op \in Page \/ (HasNextCursor /\ Precedes(next, PlaceOf(op)))
    <3>1. ~ NotBeyond(PlaceOf(op), reader.cursor)
        BY <1>1, <1>2, <1>4, <2>2, NotBeyondThenBeyond
    <3> QED BY <1>1, <2>2, <3>1
  <2> QED BY <1>2, <2>1, <2>2
<1>8. still' \subseteq Ops
    BY <1>1, <1>2, <1>3
<1>9. Matching' = Matching /\ \A op \in Ops : PlaceOf(op)' = PlaceOf(op)
    BY <1>1 DEF Matching, PlaceOf, InHistory
<1>10. /\ \A op \in reader'.seen : op \in Ops /\ NotBeyond(PlaceOf(op)', reader'.cursor)
       /\ \A op \in still' :
             \/ op \in reader'.seen
             \/ /\ reader'.pc # "done" /\ op \in Matching'
                /\ Precedes(reader'.cursor, PlaceOf(op)')
       /\ reader'.pc # "idle"
    BY <1>1, <1>6, <1>7, <1>8, <1>9
<1>11. ListRead'
    BY <1>8, <1>10 DEF ListRead, NotBeyond, Precedes
<1> QED BY <1>5, <1>11

LEMMA ReadKeepsReader ==
    ASSUME BaseInv, HistoryInv, ReadPage
    PROVE  HistoryInv'
<1> DEFINE next == LastOf(PagePlaces, reader.cursor)
<1>1. /\ request' = request /\ next \in Pairs
      /\ reader' = [pc |-> IF HasNextCursor THEN "reading" ELSE "done", cursor |-> next,
                    seen |-> reader.seen \cup Page,
                    repeated |-> reader.repeated \/ reader.seen \cap Page # {},
                    head |-> records[request.op].rev]
      /\ \A item \in Page : item \in Items
    BY ReadTurnsPage
<1> HIDE DEF next
<1>2. ReaderTypes /\ request.kind # "none" /\ request.op \in Ops
      /\ request.kind \in {"none", "history", "list"}
    BY RequestTypes DEF HistoryInv, ReadPage
<1>3. reader.seen \cap Page = {}
    BY <1>2, ReadKeepsHistory, ReadKeepsList
<1>4. records[request.op].rev \in Nat
    BY <1>2 DEF BaseInv, LedgerTypeOK, OperationRecord
<1>5. Items \subseteq Nat \cup Ops
    BY <1>4 DEF Items, Events, Matching
<1>6. /\ reader.repeated = FALSE /\ reader.seen \subseteq Nat \cup Ops
    BY <1>2 DEF ReaderTypes
<1>7. reader' \in [pc : {"idle", "reading", "done"}, cursor : Pairs,
                   seen : SUBSET (Nat \cup Ops), repeated : {FALSE}, head : Nat]
  <2>1. reader.repeated \/ reader.seen \cap Page # {} <=> FALSE
      BY <1>3, <1>6
  <2> QED BY <1>1, <1>4, <1>5, <1>6, <2>1
<1>8. ReaderTypes'
    BY <1>1, <1>2, <1>7 DEF ReaderTypes
<1> QED BY <1>1, <1>2, <1>8, ReadKeepsHistory, ReadKeepsList DEF HistoryInv

\* Theorem: the cursor of a reader parts what it was shown from what it is
\* still to be shown, whatever is written between two of its pages (history()
\* and list() of both adapters).
THEOREM HistoryInvariant == HistorySpec => [](BaseInv /\ HistoryInv)
<1>1. HistoryInit => TimesFit /\ HistoryInv
  <2> SUFFICES ASSUME HistoryInit PROVE TimesFit /\ HistoryInv
      OBVIOUS
  <2>1. /\ now = 0 /\ updatedAt = [op \in Ops |-> 0] /\ request \in Requests /\ still = {}
        /\ reader = [pc |-> "idle", cursor |-> Beginning, seen |-> {}, repeated |-> FALSE,
                     head |-> 0]
      BY DEF HistoryInit, LedgerInit
  <2>2. TimesFit
      BY <2>1 DEF TimesFit
  <2>3. ReaderTypes
      BY <2>1, BeginningType DEF ReaderTypes
  <2>4. request.kind = "history" => HistoryRead
      BY <2>1 DEF HistoryRead, Beginning, InHistory
  <2>5. request.kind = "list" => ListRead
      BY <2>1 DEF ListRead
  <2> QED BY <2>1, <2>2, <2>3, <2>4, <2>5 DEF HistoryInv
<1>2. LedgerTypeOK /\ LedgerTypeOK' /\ TimesFit /\ [HistoryNext]_historyVars => TimesFit'
    BY TimesStep
<1>3. BaseInv /\ BaseInv' /\ HistoryInv /\ [HistoryNext]_historyVars => HistoryInv'
  <2> SUFFICES ASSUME BaseInv, BaseInv', HistoryInv, [HistoryNext]_historyVars
               PROVE  HistoryInv'
      OBVIOUS
  <2>1. CASE UNCHANGED historyVars
      BY <2>1 DEF historyVars, HistoryInv, ReaderTypes, HistoryRead, ListRead, Beginning,
                  InHistory, NotBeyond, Precedes, PlaceOf, Matching
  <2> QED BY <2>1, WriteKeepsReader, ReadKeepsReader DEF HistoryNext
<1>4. HistorySpec => []LedgerTypeOK /\ []RecordedIsFinite
    BY HistoryKeepsLedger, LedgerTypeCorrect, RecordedStaysFinite, PTL
<1>5. HistorySpec => []TimesFit
    BY <1>1, <1>2, <1>4, PTL DEF HistorySpec
<1>6. HistorySpec => []BaseInv
    BY <1>4, <1>5, PTL DEF BaseInv
<1> QED BY <1>1, <1>3, <1>6, PTL DEF HistorySpec

\* Theorem: pages lose nothing and repeat nothing; a history that has ended has
\* shown every event up to the current one, a list every record that matched
\* when it began and was not written since.
THEOREM TraversalsMissNothingEver == HistorySpec => []TraversalsMissNothing
<1>1. HistoryInv => TraversalsMissNothing
  <2> SUFFICES ASSUME HistoryInv PROVE TraversalsMissNothing
      OBVIOUS
  <2>1. ReaderTypes /\ reader.repeated = FALSE
      BY DEF HistoryInv, ReaderTypes
  <2>2. ASSUME InHistory, reader.pc = "done"
        PROVE  reader.seen = IF reader.seen = {} THEN {} ELSE 0..reader.head
    <3> DEFINE last == reader.cursor[1]
    <3>1. reader.seen = 0..last /\ (last = -1 \/ last = reader.head)
        BY <2>2 DEF HistoryInv, HistoryRead, InHistory
    <3>2. 0..(-1) = {}
        OBVIOUS
    <3> HIDE DEF last
    <3> QED BY <3>1, <3>2
  <2>3. ASSUME ~ InHistory, reader.pc = "done" PROVE still \subseteq reader.seen
    <3>1. request.kind = "list"
        BY <2>1, <2>3, RequestTypes DEF HistoryInv, InHistory
    <3> QED BY <2>3, <3>1 DEF HistoryInv, ListRead
  <2> QED BY <2>1, <2>2, <2>3 DEF TraversalsMissNothing
<1> QED BY <1>1, HistoryInvariant, PTL
=============================================================================
