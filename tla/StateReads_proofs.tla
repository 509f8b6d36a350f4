------------------------- MODULE StateReads_proofs -------------------------
(***************************************************************************)
(* Those who read the state store page by page miss nothing, for every set *)
(* of subjects, writers and references and every page size: the consumers  *)
(* of the change feed, whatever their filters, starting positions and      *)
(* crashes, and the reader of a history or a list, whatever it asks for.   *)
(*                                                                         *)
(* The writers' steps are those of StateStore in both models, so its       *)
(* theorems hold here: the change log only grows at its end, and a         *)
(* revision never changes.                                                 *)
(***************************************************************************)
EXTENDS StateChangeFeed, StateReaders, StateStore_proofs, Paging_proofs

-----------------------------------------------------------------------------
(***************************************************************************)
(* The change feed.  A page is the pending positions of the ranks          *)
(* 1..PageSize, so nothing pending lies between the cursor asked with and  *)
(* the one returned but outside the page (lemma PageCovers).               *)
(***************************************************************************)
(***************************************************************************)
(* Ranks in a finite set of positions.                                     *)
(***************************************************************************)

\* The rank of an element counts it and what is below it.
LEMMA RankBounds ==
    ASSUME NEW P \in SUBSET Nat, IsFiniteSet(P), NEW i \in P
    PROVE  RankIn(P, i) \in 1..Cardinality(P)
<1> DEFINE Upto == {j \in P : j <= i}
<1>1. IsFiniteSet(Upto) /\ Cardinality(Upto) <= Cardinality(P)
    BY FS_Subset
<1>2. Cardinality(Upto) \in Nat /\ Cardinality(P) \in Nat
    BY <1>1, FS_CardinalityType
<1>3. i \in Upto
    OBVIOUS
<1>4. Cardinality(Upto) # 0
    BY <1>1, <1>3, FS_EmptySet
<1> QED BY <1>1, <1>2, <1>4 DEF RankIn

LEMMA RankMonotone ==
    ASSUME NEW P \in SUBSET Nat, IsFiniteSet(P), NEW i \in P, NEW j \in P, i < j
    PROVE  RankIn(P, i) < RankIn(P, j)
<1> DEFINE Upto(n) == {m \in P : m <= n}
<1>1. /\ IsFiniteSet(Upto(j))
      /\ Upto(i) \in SUBSET Upto(j) /\ j \in Upto(j) /\ j \notin Upto(i)
  <2>1. Upto(j) \in SUBSET P
      OBVIOUS
  <2>2. IsFiniteSet(Upto(j))
      BY <2>1, FS_Subset
  <2>3. j \in Upto(j) /\ j \notin Upto(i)
      OBVIOUS
  <2>4. ASSUME NEW m \in P, m <= i PROVE m <= j
    <3>1. m \in Nat /\ i \in Nat /\ j \in Nat
        OBVIOUS
    <3> QED BY <2>4, <3>1
  <2>5. Upto(i) \in SUBSET Upto(j)
      BY <2>4
  <2> HIDE DEF Upto
  <2> QED BY <2>2, <2>3, <2>5
<1>2. /\ IsFiniteSet(Upto(i))
      /\ Cardinality(Upto(i)) <= Cardinality(Upto(j))
      /\ Cardinality(Upto(j)) = Cardinality(Upto(i)) => Upto(j) = Upto(i)
    BY <1>1, FS_Subset
<1>3. Cardinality(Upto(i)) \in Nat /\ Cardinality(Upto(j)) \in Nat
    BY <1>1, <1>2, FS_CardinalityType
<1>4. Upto(i) # Upto(j)
    BY <1>1
<1>5. Cardinality(Upto(i)) < Cardinality(Upto(j))
    BY <1>2, <1>3, <1>4
<1> QED BY <1>5 DEF RankIn

LEMMA RankInjective ==
    ASSUME NEW P \in SUBSET Nat, IsFiniteSet(P), NEW i \in P, NEW j \in P,
           RankIn(P, i) = RankIn(P, j)
    PROVE  i = j
<1>1. RankIn(P, i) \in Nat /\ RankIn(P, j) \in Nat
    BY RankBounds, FS_CardinalityType
<1>2. i \in Nat /\ j \in Nat
    OBVIOUS
<1>3. ~ i < j
    BY <1>1, RankMonotone
<1>4. ~ j < i
    BY <1>1, RankMonotone
<1> QED BY <1>2, <1>3, <1>4

\* Every rank is taken: if one were not, as many elements as there are would
\* share one rank less.
LEMMA RankIsTaken ==
    ASSUME NEW P \in SUBSET Nat, IsFiniteSet(P), NEW m \in 1..Cardinality(P)
    PROVE  \E i \in P : RankIn(P, i) = m
<1> SUFFICES ASSUME \A i \in P : RankIn(P, i) # m PROVE FALSE
    OBVIOUS
<1> DEFINE Ranks == 1..Cardinality(P)
           Others == Ranks \ {m}
           f == [i \in P |-> RankIn(P, i)]
<1>1. Cardinality(P) \in Nat
    BY FS_CardinalityType
<1>2. IsFiniteSet(Ranks) /\ Cardinality(Ranks) = Cardinality(P)
  <2>1. IsFiniteSet(Ranks)
        /\ Cardinality(Ranks) = IF 1 > Cardinality(P) THEN 0 ELSE Cardinality(P) - 1 + 1
      BY <1>1, FS_Interval
  <2> QED BY <1>1, <2>1
<1>3. IsFiniteSet(Others) /\ Cardinality(Others) = Cardinality(P) - 1
    BY ZenonT(30), <1>2, FS_RemoveElement
<1>4. f \in [P -> Others]
    BY RankBounds
<1>5. Cardinality(Others) < Cardinality(P)
    BY <1>1, <1>3
<1> HIDE DEF Others, f
<1>6. PICK x \in P, y \in P : x # y /\ f[x] = f[y]
    BY <1>3, <1>4, <1>5, FS_PigeonHole
<1>7. RankIn(P, x) = RankIn(P, y)
    BY <1>6 DEF f
<1> QED BY <1>6, <1>7, RankInjective

\* Nth picks the element of a rank.
LEMMA NthHasRank ==
    ASSUME NEW P \in SUBSET Nat, IsFiniteSet(P), NEW m \in 1..Cardinality(P)
    PROVE  Nth(P, m) \in P /\ RankIn(P, Nth(P, m)) = m
    BY RankIsTaken DEF Nth

LEMMA NthOfRank ==
    ASSUME NEW P \in SUBSET Nat, IsFiniteSet(P), NEW i \in P
    PROVE  Nth(P, RankIn(P, i)) = i
<1> DEFINE j == Nth(P, RankIn(P, i))
<1>1. RankIn(P, i) \in 1..Cardinality(P)
    BY RankBounds
<1>2. j \in P /\ RankIn(P, j) = RankIn(P, i)
    BY <1>1, NthHasRank
<1> HIDE DEF j
<1>3. j = i
    BY <1>2, RankInjective
<1> QED BY <1>3 DEF j

-----------------------------------------------------------------------------
(***************************************************************************)
(* Pages.                                                                  *)
(***************************************************************************)
LEMMA PendingIsFinite ==
    ASSUME StoreTypeOK, NEW k, NEW after \in Nat
    PROVE  /\ HighWater \in Nat
           /\ Pending(k, after) \subseteq Nat
           /\ IsFiniteSet(Pending(k, after))
           /\ Cardinality(Pending(k, after)) \in Nat
<1>1. HighWater \in Nat
    BY DEF HighWater, StoreTypeOK
<1>2. IsFiniteSet((after + 1)..HighWater)
    BY <1>1, FS_Interval
<1>3. Pending(k, after) \in SUBSET ((after + 1)..HighWater)
    BY DEF Pending
<1>4. IsFiniteSet(Pending(k, after))
    BY <1>2, <1>3, FS_Subset
<1>5. Pending(k, after) \subseteq Nat
    BY <1>1, <1>3
<1> QED BY <1>1, <1>4, <1>5, FS_CardinalityType

LEMMA PageSizeBounds ==
    ASSUME StoreTypeOK, NEW k, NEW after \in Nat
    PROVE  /\ PageSize(k, after) \in 0..Cardinality(Pending(k, after))
           /\ PageSize(k, after) = 0 => Pending(k, after) = {}
           /\ ~ HasMore(k, after) => PageSize(k, after) = Cardinality(Pending(k, after))
<1>1. IsFiniteSet(Pending(k, after)) /\ Cardinality(Pending(k, after)) \in Nat
    BY PendingIsFinite
<1>2. PageLimit \in Nat \ {0}
    BY FeedAssumption
<1>3. Cardinality(Pending(k, after)) = 0 => Pending(k, after) = {}
    BY <1>1, FS_EmptySet
<1> QED BY <1>1, <1>2, <1>3 DEF PageSize, HasMore

\* A page is a sequence of changes.
LEMMA PageType ==
    ASSUME StoreTypeOK, NEW k, NEW after \in Nat
    PROVE  /\ Page(k, after) \in Seq(Subjects \X Nat)
           /\ Len(Page(k, after)) = PageSize(k, after)
<1>1. /\ IsFiniteSet(Pending(k, after)) /\ Pending(k, after) \in SUBSET Nat
      /\ HighWater \in Nat /\ Cardinality(Pending(k, after)) \in Nat
    BY PendingIsFinite
<1>2. PageSize(k, after) \in 0..Cardinality(Pending(k, after))
    BY PageSizeBounds
<1>3. ASSUME NEW n \in 1..PageSize(k, after)
      PROVE  changes[Nth(Pending(k, after), n)] \in Subjects \X Nat
  <2>1. n \in 1..Cardinality(Pending(k, after))
      BY <1>1, <1>2
  <2>2. Nth(Pending(k, after), n) \in Pending(k, after)
      BY <1>1, <2>1, NthHasRank
  <2>3. Nth(Pending(k, after), n) \in 1..Len(changes)
      BY <1>1, <2>2 DEF Pending, HighWater
  <2> QED BY <2>3 DEF StoreTypeOK
<1> HIDE DEF PageSize
<1>4. PageSize(k, after) \in Nat
    BY <1>1, <1>2
<1>5. Page(k, after) \in [1..PageSize(k, after) -> Subjects \X Nat]
    BY <1>3 DEF Page
<1> QED BY <1>4, <1>5

\* The cursor of a page is the one it was asked with or that of a committed
\* change beyond it.
LEMMA CursorAdvances ==
    ASSUME StoreTypeOK, NEW k, NEW after \in Nat
    PROVE  /\ PageCursor(k, after) \in Nat
           /\ PageCursor(k, after) >= after
           /\ \/ PageCursor(k, after) = after
              \/ PageCursor(k, after) <= HighWater
<1>1. CASE PageSize(k, after) = 0
    BY <1>1 DEF PageCursor
<1>2. CASE PageSize(k, after) # 0
  <2>1. /\ IsFiniteSet(Pending(k, after)) /\ Pending(k, after) \in SUBSET Nat
        /\ HighWater \in Nat /\ Cardinality(Pending(k, after)) \in Nat
      BY PendingIsFinite
  <2>2. PageSize(k, after) \in 1..Cardinality(Pending(k, after))
      BY <1>2, <2>1, PageSizeBounds
  <2>3. Nth(Pending(k, after), PageSize(k, after)) \in Pending(k, after)
      BY <2>1, <2>2, NthHasRank
  <2>4. PageCursor(k, after) \in (after + 1)..HighWater
      BY <1>2, <2>3 DEF PageCursor, Pending
  <2> QED BY <2>1, <2>4
<1> QED BY <1>1, <1>2

\* What is pending and not beyond the page's cursor is in the page; without a
\* next page everything pending is.
LEMMA PageCovers ==
    ASSUME StoreTypeOK, NEW k, NEW after \in Nat, NEW i \in Pending(k, after),
           i <= PageCursor(k, after) \/ ~ HasMore(k, after)
    PROVE  \E n \in 1..PageSize(k, after) : Page(k, after)[n] = changes[i]
<1> DEFINE P == Pending(k, after)
           size == PageSize(k, after)
           rank == RankIn(P, i)
<1>1. IsFiniteSet(P) /\ P \in SUBSET Nat /\ Cardinality(P) \in Nat
    BY PendingIsFinite
<1>2. size \in 1..Cardinality(P)
    BY <1>1, PageSizeBounds
<1>3. rank \in 1..Cardinality(P) /\ Nth(P, rank) = i
    BY <1>1, RankBounds, NthOfRank
<1>4. rank <= size
  <2>1. CASE ~ HasMore(k, after)
      BY <1>1, <1>3, <2>1, PageSizeBounds
  <2>2. CASE i <= PageCursor(k, after)
    <3> DEFINE last == Nth(P, size)
    <3>1. last \in P /\ RankIn(P, last) = size
        BY <1>1, <1>2, NthHasRank
    <3>2. i <= last
        BY <1>1, <1>2, <2>2 DEF PageCursor
    <3>3. CASE i = last
        BY <1>1, <1>2, <3>1, <3>3
    <3>4. CASE i < last
      <4>1. rank < RankIn(P, last)
          BY <1>1, <3>1, <3>4, RankMonotone
      <4> QED BY <1>1, <1>2, <1>3, <3>1, <4>1
    <3> HIDE DEF last, rank
    <3>5. i \in Nat /\ last \in Nat
        BY <1>1, <3>1
    <3> QED BY <3>2, <3>3, <3>4, <3>5
  <2> QED BY <2>1, <2>2
<1> HIDE DEF P, size
<1>5. rank \in 1..size
    BY <1>1, <1>2, <1>3, <1>4
<1>6. Page(k, after)[rank] = changes[Nth(P, rank)]
    BY <1>5 DEF Page, P, size
<1> QED BY <1>3, <1>5, <1>6 DEF size

-----------------------------------------------------------------------------
(***************************************************************************)
(* The feed keeps what the store promises.                                 *)
(***************************************************************************)

\* A writer's step is one of the store; a consumer's step leaves the store
\* alone.
LEMMA FeedStepIsStoreStep ==
    ASSUME [Next]_vars
    PROVE  /\ [StoreNext]_storeVars
           /\ UNCHANGED feedVars
              \/ \E k \in Consumers : ConsumerStep(k) \/ CrashConsumer(k)
           /\ UNCHANGED feedVars \/ UNCHANGED storeVars
    BY DEF Next, vars, storeVars, feedVars, StoreNext, AllWritten

LEMMA FeedKeepsStore == Spec => StoreSpec
<1>1. Init => StoreInit
    BY DEF Init
<1>2. [Next]_vars => [StoreNext]_storeVars
    BY FeedStepIsStoreStep
<1> QED BY <1>1, <1>2, PTL DEF Spec, StoreSpec

-----------------------------------------------------------------------------
(***************************************************************************)
(* The inductive invariant.                                                *)
(***************************************************************************)
ConsumerState ==
    [pc : {"polling", "consuming", "rejected"}, cursor : Nat, page : Seq(Subjects \X Nat)]

FeedTypeOK ==
    /\ consumers \in [Consumers -> ConsumerState]
    /\ stored \in [Consumers -> Nat]
    /\ DOMAIN consumed = Consumers
    /\ origin \in [Consumers -> Nat]
    /\ filter \in [Consumers -> SUBSET Subjects]
    /\ crashes \in [Consumers -> Nat]

\* Only a consumer that is consuming has a page.
PageWhileConsuming(k) == ~ InConsumer(k, "consuming") => consumers[k].page = <<>>

\* A cursor is the one the consumer was started with, which may be foreign, or
\* a position of this log.
CursorIsIssued(k, cursor) == cursor = origin[k] \/ cursor <= Len(changes)

\* A consumer that has come to a cursor has passed position i.
HasPassed(k, cursor, i) == origin[k] < i /\ i <= cursor /\ changes[i][1] \in filter[k]

InPage(page, change) == \E n \in 1..Len(page) : page[n] = change

\* What a consumer has passed it has taken in, or it is in the page at hand.
NothingSkipped(k) ==
    \A i \in 1..Len(changes) :
        /\ HasPassed(k, stored[k], i) => changes[i] \in consumed[k]
        /\ HasPassed(k, consumers[k].cursor, i) =>
              changes[i] \in consumed[k] \/ InPage(consumers[k].page, changes[i])

FeedInv ==
    /\ FeedTypeOK
    /\ \A k \in Consumers :
          /\ PageWhileConsuming(k)
          /\ CursorIsIssued(k, stored[k]) /\ CursorIsIssued(k, consumers[k].cursor)
          /\ NothingSkipped(k)

-----------------------------------------------------------------------------
(***************************************************************************)
(* The steps of a consumer's loop.                                         *)
(***************************************************************************)

\* A page that is read begins where the one before it ended.
LEMMA ReadKeepsFeed ==
    ASSUME FeedInv, StoreTypeOK, NEW k \in Consumers, ReadChanges(k), UNCHANGED storeVars
    PROVE  FeedInv'
<1> DEFINE after == consumers[k].cursor
           next == IF IsFuture(after)
                   THEN [pc |-> "rejected", cursor |-> after, page |-> <<>>]
                   ELSE [pc |-> "consuming", cursor |-> PageCursor(k, after),
                         page |-> Page(k, after)]
<1>1. /\ consumers[k] \in ConsumerState /\ after \in Nat /\ consumers[k].page = <<>>
      /\ origin[k] \in Nat
    BY DEF FeedInv, FeedTypeOK, PageWhileConsuming, InConsumer, ReadChanges, ConsumerState
<1>2. next \in ConsumerState
    BY <1>1, CursorAdvances, PageType DEF ConsumerState
<1>3. /\ consumers' = [consumers EXCEPT ![k] = next]
      /\ UNCHANGED <<stored, consumed, origin, filter, crashes, changes>>
    BY DEF ReadChanges, storeVars
<1>4. next.pc # "consuming" => next.page = <<>>
    OBVIOUS
<1>5. CursorIsIssued(k, next.cursor)
    BY <1>1, CursorAdvances DEF FeedInv, CursorIsIssued, HighWater
<1>6. ASSUME NEW i \in 1..Len(changes), HasPassed(k, next.cursor, i)
      PROVE  changes[i] \in consumed[k] \/ InPage(next.page, changes[i])
  <2>1. i \in Nat /\ Len(changes) \in Nat
      BY DEF StoreTypeOK
  <2>2. CASE i <= after
    <3>1. HasPassed(k, after, i)
        BY <1>6, <2>2 DEF HasPassed
    <3>2. ~ InPage(<<>>, changes[i])
        BY DEF InPage
    <3> QED BY <1>1, <3>1, <3>2 DEF FeedInv, NothingSkipped
  <2>3. CASE ~ i <= after
    <3>1. ~ IsFuture(after)
        BY <1>6, <2>3 DEF HasPassed
    <3>2. i <= PageCursor(k, after) /\ i \in Pending(k, after)
        BY <1>1, <1>6, <2>1, <2>3, <3>1 DEF HasPassed, Pending, HighWater
    <3>3. \E n \in 1..PageSize(k, after) : Page(k, after)[n] = changes[i]
        BY <1>1, <3>2, PageCovers
    <3>4. Len(Page(k, after)) = PageSize(k, after)
        BY <1>1, PageType
    <3> QED BY <3>1, <3>3, <3>4 DEF InPage
  <2> QED BY <2>2, <2>3
<1> HIDE DEF next
<1>7. FeedTypeOK'
    BY <1>2, <1>3 DEF FeedInv, FeedTypeOK
<1>8. ASSUME NEW j \in Consumers
      PROVE  /\ PageWhileConsuming(j)'
             /\ CursorIsIssued(j, stored[j])' /\ CursorIsIssued(j, consumers[j].cursor)'
             /\ NothingSkipped(j)'
  <2>1. CASE j # k
    <3>1. consumers'[j] = consumers[j]
        BY <1>3, <2>1 DEF FeedInv, FeedTypeOK
    <3> QED BY <1>3, <3>1 DEF FeedInv, PageWhileConsuming, InConsumer, CursorIsIssued,
                              NothingSkipped, HasPassed
  <2>2. CASE j = k
    <3>1. consumers'[k] = next
        BY <1>3 DEF FeedInv, FeedTypeOK
    <3>2. PageWhileConsuming(k)' /\ CursorIsIssued(k, stored[k])'
          /\ CursorIsIssued(k, consumers[k].cursor)'
        BY <1>3, <1>4, <1>5, <3>1 DEF FeedInv, PageWhileConsuming, InConsumer, CursorIsIssued
    <3>3. NothingSkipped(k)'
        BY <1>3, <1>6, <3>1 DEF FeedInv, NothingSkipped, HasPassed
    <3> QED BY <2>2, <3>2, <3>3
  <2> QED BY <2>1, <2>2
<1> QED BY <1>7, <1>8 DEF FeedInv

\* A record leaves the page for what was consumed.
LEMMA ConsumeKeepsFeed ==
    ASSUME FeedInv, StoreTypeOK, NEW k \in Consumers, ConsumeRecord(k), UNCHANGED storeVars
    PROVE  FeedInv'
<1> DEFINE page == consumers[k].page
           next == [consumers[k] EXCEPT !.page = Tail(page)]
<1>1. /\ consumers[k] \in ConsumerState /\ page \in Seq(Subjects \X Nat) /\ page # <<>>
      /\ consumers[k].pc = "consuming"
    BY DEF FeedInv, FeedTypeOK, ConsumerState, ConsumeRecord, InConsumer
<1>2. /\ next \in ConsumerState /\ next.pc = "consuming"
      /\ next.cursor = consumers[k].cursor /\ next.page = Tail(page)
  <2>1. Tail(page) \in Seq(Subjects \X Nat)
      BY <1>1
  <2> QED BY <1>1, <2>1 DEF ConsumerState
<1>3. /\ consumers' = [consumers EXCEPT ![k] = next]
      /\ consumed' = [consumed EXCEPT ![k] = @ \cup {Head(page)}]
      /\ UNCHANGED <<stored, origin, filter, crashes, changes>>
    BY DEF ConsumeRecord, storeVars, FeedInv, FeedTypeOK
<1>4. ASSUME NEW change, InPage(page, change)
      PROVE  change = Head(page) \/ InPage(Tail(page), change)
  <2>1. PICK n \in 1..Len(page) : page[n] = change
      BY <1>4 DEF InPage
  <2>2. CASE n = 1
      BY <2>1, <2>2
  <2>3. CASE n # 1
    <3>1. n - 1 \in 1..Len(Tail(page)) /\ Tail(page)[n - 1] = page[n]
        BY <1>1, <2>1, <2>3
    <3> QED BY <2>1, <3>1 DEF InPage
  <2> QED BY <2>2, <2>3
<1> HIDE DEF next, page
<1>5. FeedTypeOK'
    BY <1>2, <1>3 DEF FeedInv, FeedTypeOK
<1>6. ASSUME NEW j \in Consumers
      PROVE  /\ PageWhileConsuming(j)'
             /\ CursorIsIssued(j, stored[j])' /\ CursorIsIssued(j, consumers[j].cursor)'
             /\ NothingSkipped(j)'
  <2>1. CASE j # k
    <3>1. consumers'[j] = consumers[j] /\ consumed'[j] = consumed[j]
        BY <1>3, <2>1 DEF FeedInv, FeedTypeOK
    <3> QED BY <1>3, <3>1 DEF FeedInv, PageWhileConsuming, InConsumer, CursorIsIssued,
                              NothingSkipped, HasPassed
  <2>2. CASE j = k
    <3>1. consumers'[k] = next /\ consumed'[k] = consumed[k] \cup {Head(page)}
        BY <1>3 DEF FeedInv, FeedTypeOK
    <3>2. PageWhileConsuming(k)' /\ CursorIsIssued(k, stored[k])'
          /\ CursorIsIssued(k, consumers[k].cursor)'
        BY <1>2, <1>3, <3>1 DEF FeedInv, PageWhileConsuming, InConsumer, CursorIsIssued
    <3>3. NothingSkipped(k)'
      <4>1. SUFFICES ASSUME NEW i \in 1..Len(changes)
                     PROVE  /\ HasPassed(k, stored[k], i) => changes[i] \in consumed'[k]
                            /\ HasPassed(k, consumers[k].cursor, i) =>
                                  changes[i] \in consumed'[k] \/ InPage(Tail(page), changes[i])
          BY <1>2, <1>3, <3>1 DEF NothingSkipped, HasPassed
      <4>2. NothingSkipped(k)
          BY DEF FeedInv
      <4> QED BY <1>4, <3>1, <4>2 DEF NothingSkipped, page
    <3> QED BY <2>2, <3>2, <3>3
  <2> QED BY <2>1, <2>2
<1> QED BY <1>5, <1>6 DEF FeedInv

\* The cursor is persisted when the page behind it has been taken in.
LEMMA PersistKeepsFeed ==
    ASSUME FeedInv, StoreTypeOK, NEW k \in Consumers, PersistCursor(k), UNCHANGED storeVars
    PROVE  FeedInv'
<1> DEFINE cursor == consumers[k].cursor
           next == [consumers[k] EXCEPT !.pc = "polling"]
<1>1. consumers[k] \in ConsumerState /\ cursor \in Nat /\ consumers[k].page = <<>>
    BY DEF FeedInv, FeedTypeOK, ConsumerState, PersistCursor
<1>2. /\ next \in ConsumerState /\ next.cursor = cursor /\ next.page = <<>>
    BY <1>1 DEF ConsumerState
<1>3. /\ consumers' = [consumers EXCEPT ![k] = next]
      /\ stored' = [stored EXCEPT ![k] = cursor]
      /\ UNCHANGED <<consumed, origin, filter, crashes, changes>>
    BY DEF PersistCursor, storeVars, FeedInv, FeedTypeOK
<1> HIDE DEF next, cursor
<1>4. FeedTypeOK'
    BY <1>1, <1>2, <1>3 DEF FeedInv, FeedTypeOK
<1>5. ASSUME NEW j \in Consumers
      PROVE  /\ PageWhileConsuming(j)'
             /\ CursorIsIssued(j, stored[j])' /\ CursorIsIssued(j, consumers[j].cursor)'
             /\ NothingSkipped(j)'
  <2>1. CASE j # k
    <3>1. consumers'[j] = consumers[j] /\ stored'[j] = stored[j]
        BY <1>3, <2>1 DEF FeedInv, FeedTypeOK
    <3> QED BY <1>3, <3>1 DEF FeedInv, PageWhileConsuming, InConsumer, CursorIsIssued,
                              NothingSkipped, HasPassed
  <2>2. CASE j = k
    <3>1. consumers'[k] = next /\ stored'[k] = cursor
        BY <1>3 DEF FeedInv, FeedTypeOK
    <3>2. CursorIsIssued(k, cursor) /\ NothingSkipped(k)
        BY DEF FeedInv, cursor
    <3>3. PageWhileConsuming(k)' /\ CursorIsIssued(k, stored[k])'
          /\ CursorIsIssued(k, consumers[k].cursor)'
        BY <1>2, <1>3, <3>1, <3>2 DEF PageWhileConsuming, InConsumer, CursorIsIssued
    <3>4. ASSUME NEW i \in 1..Len(changes), HasPassed(k, cursor, i)
          PROVE  changes[i] \in consumed[k]
      <4>1. ~ InPage(<<>>, changes[i])
          BY DEF InPage
      <4> QED BY <1>1, <3>2, <3>4, <4>1 DEF NothingSkipped, cursor
    <3>5. NothingSkipped(k)'
        BY <1>2, <1>3, <3>1, <3>4 DEF NothingSkipped, HasPassed
    <3> QED BY <2>2, <3>3, <3>5
  <2> QED BY <2>1, <2>2
<1> QED BY <1>4, <1>5 DEF FeedInv

\* A crash falls back to the persisted cursor, behind which nothing is missing.
LEMMA CrashKeepsFeed ==
    ASSUME FeedInv, StoreTypeOK, NEW k \in Consumers, CrashConsumer(k), UNCHANGED storeVars
    PROVE  FeedInv'
<1> DEFINE next == [pc |-> "polling", cursor |-> stored[k], page |-> <<>>]
<1>1. next \in ConsumerState /\ next.pc = "polling" /\ next.cursor = stored[k] /\ next.page = <<>>
    BY DEF FeedInv, FeedTypeOK, ConsumerState
<1>2. /\ consumers' = [consumers EXCEPT ![k] = next]
      /\ crashes' = [crashes EXCEPT ![k] = @ + 1]
      /\ UNCHANGED <<stored, consumed, origin, filter, changes>>
    BY DEF CrashConsumer, storeVars
<1> HIDE DEF next
<1>3. FeedTypeOK'
    BY <1>1, <1>2 DEF FeedInv, FeedTypeOK
<1>4. ASSUME NEW j \in Consumers
      PROVE  /\ PageWhileConsuming(j)'
             /\ CursorIsIssued(j, stored[j])' /\ CursorIsIssued(j, consumers[j].cursor)'
             /\ NothingSkipped(j)'
  <2>1. CASE j # k
    <3>1. consumers'[j] = consumers[j]
        BY <1>2, <2>1 DEF FeedInv, FeedTypeOK
    <3> QED BY <1>2, <3>1 DEF FeedInv, PageWhileConsuming, InConsumer, CursorIsIssued,
                              NothingSkipped, HasPassed
  <2>2. CASE j = k
    <3>1. consumers'[k] = next
        BY <1>2 DEF FeedInv, FeedTypeOK
    <3> QED BY <1>1, <1>2, <2>2, <3>1 DEF FeedInv, PageWhileConsuming, InConsumer,
                                          CursorIsIssued, NothingSkipped, HasPassed
  <2> QED BY <2>1, <2>2
<1> QED BY <1>3, <1>4 DEF FeedInv

\* A writer appends beyond every cursor that was issued.
LEMMA WriterKeepsFeed ==
    ASSUME FeedInv, StoreTypeOK, [StoreNext]_storeVars, UNCHANGED feedVars
    PROVE  FeedInv'
<1>1. /\ Len(changes) \in Nat /\ Len(changes') \in Nat /\ Len(changes') >= Len(changes)
      /\ \A i \in 1..Len(changes) : changes'[i] = changes[i]
    BY DurableGrows
<1>2. UNCHANGED <<consumers, stored, consumed, origin, filter, crashes>>
    BY DEF feedVars
<1>3. FeedTypeOK'
    BY <1>2 DEF FeedInv, FeedTypeOK
<1>4. ASSUME NEW k \in Consumers
      PROVE  /\ PageWhileConsuming(k)'
             /\ CursorIsIssued(k, stored[k])' /\ CursorIsIssued(k, consumers[k].cursor)'
             /\ NothingSkipped(k)'
  <2>1. PageWhileConsuming(k)'
      BY <1>2 DEF FeedInv, PageWhileConsuming, InConsumer
  <2>2. stored[k] \in Nat /\ consumers[k].cursor \in Nat /\ origin[k] \in Nat
      BY DEF FeedInv, FeedTypeOK, ConsumerState
  <2>3. CursorIsIssued(k, stored[k])' /\ CursorIsIssued(k, consumers[k].cursor)'
      BY <1>1, <1>2, <2>2 DEF FeedInv, CursorIsIssued
  <2>4. ASSUME NEW i \in 1..Len(changes'), NEW cursor \in Nat, CursorIsIssued(k, cursor),
               HasPassed(k, cursor, i)'
        PROVE  i \in 1..Len(changes) /\ changes'[i] = changes[i] /\ HasPassed(k, cursor, i)
    <3>1. i \in 1..Len(changes)
        BY <1>1, <1>2, <2>2, <2>4 DEF CursorIsIssued, HasPassed
    <3> QED BY <1>1, <1>2, <2>4, <3>1 DEF HasPassed
  <2>5. NothingSkipped(k)'
      BY <1>2, <2>2, <2>4 DEF FeedInv, NothingSkipped, HasPassed
  <2> QED BY <2>1, <2>3, <2>5
<1> QED BY <1>3, <1>4 DEF FeedInv

-----------------------------------------------------------------------------
(***************************************************************************)
(* Theorems.                                                               *)
(***************************************************************************)

\* Theorem: what a consumer has passed it has taken in or holds in its page,
\* and its cursors are its own or positions of the log, whatever writers
\* commit and whenever consumers crash (changes() of both adapters).
THEOREM FeedInvariant == Spec => []FeedInv
<1>1. Init => FeedInv
  <2> SUFFICES ASSUME Init PROVE FeedInv
      OBVIOUS
  <2>1. /\ Len(changes) = 0 /\ origin \in [Consumers -> Nat]
        /\ filter \in [Consumers -> SUBSET Subjects]
      BY FeedAssumption DEF Init, StoreInit
  <2>2. FeedTypeOK
      BY <2>1 DEF Init, FeedTypeOK, ConsumerState
  <2>3. \A k \in Consumers : consumers[k] = [pc |-> "polling", cursor |-> origin[k], page |-> <<>>]
      BY DEF Init
  <2> QED BY <2>1, <2>2, <2>3 DEF Init, FeedInv, PageWhileConsuming, CursorIsIssued, NothingSkipped
<1>2. FeedInv /\ StoreTypeOK /\ [Next]_vars => FeedInv'
  <2> SUFFICES ASSUME FeedInv, StoreTypeOK, [Next]_vars PROVE FeedInv'
      OBVIOUS
  <2>1. CASE UNCHANGED feedVars
      BY <2>1, FeedStepIsStoreStep, WriterKeepsFeed
  <2>2. CASE UNCHANGED storeVars
      BY <2>1, <2>2, FeedStepIsStoreStep, ReadKeepsFeed, ConsumeKeepsFeed, PersistKeepsFeed,
         CrashKeepsFeed DEF ConsumerStep
  <2> QED BY <2>1, <2>2, FeedStepIsStoreStep
<1> QED BY <1>1, <1>2, FeedKeepsStore, StoreTypeCorrect, PTL DEF Spec

\* Theorem: a cursor never passes a change that was not consumed.
THEOREM CursorsSkipNothing == Spec => []CursorSkipsNothing
<1>1. FeedInv /\ StoreTypeOK => CursorSkipsNothing
  <2> SUFFICES ASSUME FeedInv, StoreTypeOK, NEW k \in Consumers
               PROVE  LET Behind(cursor) ==
                              {changes[i] : i \in Pending(k, origin[k]) \cap 1..cursor}
                          AtHand == {consumers[k].page[n] : n \in DOMAIN consumers[k].page} IN
                      /\ Behind(stored[k]) \subseteq consumed[k]
                      /\ Behind(consumers[k].cursor) \subseteq consumed[k] \cup AtHand
      BY DEF CursorSkipsNothing
  <2>1. /\ origin[k] \in Nat /\ stored[k] \in Nat /\ consumers[k].cursor \in Nat
        /\ consumers[k].page \in Seq(Subjects \X Nat)
      BY DEF FeedInv, FeedTypeOK, ConsumerState
  <2>2. ASSUME NEW cursor \in Nat, NEW i \in Pending(k, origin[k]) \cap 1..cursor
        PROVE  i \in 1..Len(changes) /\ HasPassed(k, cursor, i)
    <3>1. Len(changes) \in Nat
        BY DEF StoreTypeOK
    <3> QED BY <2>1, <2>2, <3>1 DEF Pending, HighWater, HasPassed
  <2>3. NothingSkipped(k)
      BY DEF FeedInv
  <2>4. ASSUME NEW i \in Pending(k, origin[k]) \cap 1..stored[k] PROVE changes[i] \in consumed[k]
      BY <2>1, <2>2, <2>3 DEF NothingSkipped
  <2>5. ASSUME NEW i \in Pending(k, origin[k]) \cap 1..consumers[k].cursor
        PROVE  changes[i] \in consumed[k]
                   \cup {consumers[k].page[n] : n \in DOMAIN consumers[k].page}
    <3>1. changes[i] \in consumed[k] \/ InPage(consumers[k].page, changes[i])
        BY <2>1, <2>2, <2>3, <2>5 DEF NothingSkipped
    <3>2. DOMAIN consumers[k].page = 1..Len(consumers[k].page)
        BY <2>1
    <3> QED BY <3>1, <3>2 DEF InPage
  <2> QED BY <2>4, <2>5
<1> QED BY <1>1, FeedInvariant, FeedKeepsStore, StoreTypeCorrect, PTL

\* Theorem: a page without a next one leaves nothing behind: with it the
\* consumer has all that was committed and passes its filter (hasMore of
\* changes()).
THEOREM NoMoreIsHonest == Spec => NoMoreMeansCaughtUp
<1> DEFINE Honest(k) ==
      InConsumer(k, "polling") /\ InConsumer(k, "consuming")'
      /\ ~ HasMore(k, consumers[k].cursor) =>
          \A i \in Pending(k, origin[k]) :
              changes[i] \in consumed[k]
                  \cup {consumers'[k].page[n] : n \in DOMAIN consumers'[k].page}
<1>1. FeedInv /\ StoreTypeOK /\ [Next]_vars => [\A k \in Consumers : Honest(k)]_vars
  <2> SUFFICES ASSUME FeedInv, StoreTypeOK, [Next]_vars, NEW k \in Consumers,
                      InConsumer(k, "polling"), InConsumer(k, "consuming")',
                      ~ HasMore(k, consumers[k].cursor), NEW i \in Pending(k, origin[k])
               PROVE  changes[i] \in consumed[k]
                          \cup {consumers'[k].page[n] : n \in DOMAIN consumers'[k].page}
      OBVIOUS
  <2> DEFINE after == consumers[k].cursor
  <2>1. ReadChanges(k)
    <3>1. ~ UNCHANGED feedVars
        BY DEF InConsumer, feedVars
    <3>2. PICK j \in Consumers : ConsumerStep(j) \/ CrashConsumer(j)
        BY <3>1, FeedStepIsStoreStep
    <3>3. consumers \in [Consumers -> ConsumerState]
        BY DEF FeedInv, FeedTypeOK
    <3>4. j = k
      <4>1. \A m \in Consumers \ {j} : consumers'[m] = consumers[m]
          BY <3>2, <3>3 DEF ConsumerStep, ReadChanges, ConsumeRecord, PersistCursor, CrashConsumer
      <4> QED BY <4>1 DEF InConsumer
    <3>5. ~ CrashConsumer(k)
        BY <3>3 DEF CrashConsumer, InConsumer
    <3> QED BY <3>2, <3>4, <3>5 DEF ConsumerStep, ConsumeRecord, PersistCursor, InConsumer
  <2>2. /\ consumers[k] \in ConsumerState /\ after \in Nat /\ consumers[k].page = <<>>
        /\ origin[k] \in Nat /\ Len(changes) \in Nat
      BY DEF FeedInv, FeedTypeOK, ConsumerState, PageWhileConsuming, InConsumer, StoreTypeOK
  <2>3. consumers'[k].page = Page(k, after)
      BY <2>1 DEF ReadChanges, InConsumer, FeedInv, FeedTypeOK
  <2>4. i \in 1..Len(changes) /\ origin[k] < i /\ changes[i][1] \in filter[k]
      BY <2>2 DEF Pending, HighWater
  <2>5. CASE i <= after
    <3>1. HasPassed(k, after, i)
        BY <2>4, <2>5 DEF HasPassed
    <3>2. ~ InPage(<<>>, changes[i])
        BY DEF InPage
    <3> QED BY <2>2, <2>4, <3>1, <3>2 DEF FeedInv, NothingSkipped
  <2>6. CASE ~ i <= after
    <3>1. i \in Pending(k, after)
        BY <2>2, <2>4, <2>6 DEF Pending, HighWater
    <3>2. PICK n \in 1..PageSize(k, after) : Page(k, after)[n] = changes[i]
        BY <2>2, <3>1, PageCovers
    <3>3. DOMAIN Page(k, after) = 1..PageSize(k, after)
        BY DEF Page
    <3> QED BY <2>3, <3>2, <3>3
  <2> QED BY <2>5, <2>6
<1> QED BY <1>1, FeedInvariant, FeedKeepsStore, StoreTypeCorrect, PTL
        DEF Spec, NoMoreMeansCaughtUp

-----------------------------------------------------------------------------
(***************************************************************************)
(* Histories and lists.  No row ever leaves a listing or moves in it       *)
(* (lemma PlacesStay), although a list shows each subject at its current   *)
(* revision; a history only grows beyond the cursors it has issued; and    *)
(* the lemmas of Paging_proofs say what a page holds.                      *)
(***************************************************************************)
(***************************************************************************)
(* The readers leave the store alone.                                      *)
(***************************************************************************)
LEMMA ReadersKeepStore == ReadersSpec => StoreSpec
<1>1. ReadersInit => StoreInit
    BY DEF ReadersInit
<1>2. [ReadersNext]_<<storeVars, readerVars>> => [StoreNext]_storeVars
    BY DEF ReadersNext, ReadPage
<1> QED BY <1>1, <1>2, PTL DEF ReadersSpec, StoreSpec

\* A write() never commits a revision beyond the bound of its request.
ChainsAreBounded == \A s \in Subjects : Len(revisions[s]) <= MaxRevision

LEMMA ChainsStayBounded == StoreSpec => []ChainsAreBounded
<1>1. StoreInit => ChainsAreBounded
  <2>1. Len(<<>>) = 0 /\ 0 <= MaxRevision
      BY StateStoreAssumption
  <2> QED BY <2>1 DEF StoreInit, ChainsAreBounded
<1>2. StoreTypeOK /\ ChainsAreBounded /\ [StoreNext]_storeVars => ChainsAreBounded'
  <2> SUFFICES ASSUME StoreTypeOK, ChainsAreBounded, [StoreNext]_storeVars
               PROVE  ChainsAreBounded'
      OBVIOUS
  <2>1. CASE UNCHANGED durableVars
      BY <2>1 DEF ChainsAreBounded, durableVars
  <2>2. ASSUME NEW w \in Writes, Commits(w) PROVE ChainsAreBounded'
    <3> DEFINE t == RequestOf(w).subject
               n == RequestOf(w).expected + 1
    <3>1. /\ Len(revisions'[t]) = n
          /\ \A s \in Subjects \ {t} : revisions'[s] = revisions[s]
        BY <2>2, CommitEffect
    <3>2. RequestOf(w).expected \in Nat /\ RequestOf(w).expected < MaxRevision
        BY <2>2, RequestType, StateStoreAssumption DEF Commits, Checking
    <3>3. n <= MaxRevision
        BY <3>2, StateStoreAssumption
    <3> HIDE DEF t, n
    <3> QED BY <3>1, <3>3 DEF ChainsAreBounded
  <2> QED BY <2>1, <2>2, StoreMoves
<1> QED BY <1>1, <1>2, StoreTypeCorrect, PTL DEF StoreSpec

StoreInv == StoreTypeOK /\ ChangeLogMatchesRevisions /\ ChainsAreBounded

LEMMA StoreInvariant == ReadersSpec => []StoreInv
    BY ReadersKeepStore, StoreTypeCorrect, ChangeLogStaysComplete, ChainsStayBounded, PTL
       DEF StoreInv

-----------------------------------------------------------------------------
(***************************************************************************)
(* Rows and their places.                                                  *)
(***************************************************************************)

\* The listings in terms of a subject and a revision.
Listed(s, r) ==
    CASE readRequest.kind = "history" -> s = readRequest.subject
      [] readRequest.kind = "list" -> r = CurrentRevision(s)
      [] readRequest.kind = "referencing" -> readRequest.ref \in revisions[s][r].refs

IsRow(s, r) == s \in Subjects /\ r \in 1..MaxRevision /\ r <= CurrentRevision(s) /\ Listed(s, r)

\* A reader that asks for nothing has no rows: Rows is applied to the others.
Asks == readRequest \in ReadRequest /\ readRequest.kind # "none"

LEMMA RowsAreListed ==
    ASSUME Asks, NEW row
    PROVE  row \in Rows <=> row \in Subjects \X (1..MaxRevision) /\ IsRow(row[1], row[2])
<1>1. readRequest.kind \in {"history", "list", "referencing"}
    BY DEF Asks, ReadRequest
<1>2. row \in Committed <=>
        row \in Subjects \X (1..MaxRevision) /\ row[2] <= CurrentRevision(row[1])
    BY DEF Committed, CurrentRevision
<1>3. CASE readRequest.kind = "history"
    BY <1>2, <1>3 DEF Rows, IsRow, Listed
<1>4. CASE readRequest.kind = "list"
    BY <1>2, <1>4 DEF Rows, IsRow, Listed
<1>5. CASE readRequest.kind = "referencing"
    BY <1>2, <1>5 DEF Rows, IsRow, Listed
<1> QED BY <1>1, <1>3, <1>4, <1>5

PlaceAt(s, r) == <<SubjectRank[s], IF readRequest.kind = "list" THEN 0 ELSE r>>

LEMMA PlacesAreListed ==
    ASSUME Asks, NEW place
    PROVE  place \in RowPlaces <=>
             \E s \in Subjects, r \in 1..MaxRevision : IsRow(s, r) /\ place = PlaceAt(s, r)
<1>1. ASSUME place \in RowPlaces
      PROVE  \E s \in Subjects, r \in 1..MaxRevision : IsRow(s, r) /\ place = PlaceAt(s, r)
  <2>1. PICK row \in Rows : place = RowPlace(row)
      BY <1>1 DEF RowPlaces
  <2>2. row \in Subjects \X (1..MaxRevision) /\ IsRow(row[1], row[2])
      BY RowsAreListed
  <2>3. place = PlaceAt(row[1], row[2])
      BY <2>1 DEF RowPlace, PlaceAt
  <2> QED BY <2>2, <2>3
<1>2. ASSUME NEW s \in Subjects, NEW r \in 1..MaxRevision, IsRow(s, r), place = PlaceAt(s, r)
      PROVE  place \in RowPlaces
  <2> DEFINE row == <<s, r>>
  <2>1. row \in Rows
      BY <1>2, RowsAreListed
  <2>2. place = RowPlace(row)
      BY <1>2 DEF RowPlace, PlaceAt
  <2> QED BY <2>1, <2>2 DEF RowPlaces
<1> QED BY <1>1, <1>2

\* Places are pairs of naturals, so all lie beyond the cursor of the beginning.
LEMMA PlaceTypes ==
    ASSUME Asks, NEW place \in RowPlaces
    PROVE  place \in Nat \X Nat /\ place \in Pairs /\ Precedes(<<-1, 0>>, place)
<1>1. PICK s \in Subjects, r \in 1..MaxRevision : place = PlaceAt(s, r)
    BY PlacesAreListed
<1>2. SubjectRank[s] \in Nat /\ r \in Nat
    BY ReadersAssumption, StateStoreAssumption
<1>3. place \in Nat \X Nat
    BY <1>1, <1>2 DEF PlaceAt
<1> QED BY <1>3 DEF Pairs, Precedes

\* A listing is finite, and no longer than the number of its rows.
LEMMA RowsAreFinite ==
    ASSUME Asks, StoreInv
    PROVE  /\ IsFiniteSet(Rows) /\ IsFiniteSet(RowPlaces)
           /\ RowPlaces \in SUBSET Pairs
           /\ Cardinality(Rows) \in Nat /\ Cardinality(RowPlaces) \in Nat
           /\ Cardinality(RowPlaces) <= Cardinality(Rows)
<1> DEFINE Positions == 1..Len(changes)
           Logged == {changes[i] : i \in Positions}
           log == [i \in Positions |-> changes[i]]
           place == [row \in Rows |-> RowPlace(row)]
<1>1. Len(changes) \in Nat
    BY DEF StoreInv, StoreTypeOK
<1>2. IsFiniteSet(Positions)
    BY <1>1, FS_Interval
<1>3. log \in Surjection(Positions, Logged)
    BY DEF Surjection
<1>4. IsFiniteSet(Logged)
    BY <1>2, <1>3, FS_Surjection
<1>5. ASSUME NEW row \in Rows PROVE row \in Logged
  <2>1. /\ row \in Subjects \X (1..MaxRevision)
        /\ row[2] \in 1..MaxRevision /\ row[2] <= CurrentRevision(row[1])
      BY RowsAreListed DEF IsRow
  <2>2. row[1] \in Subjects /\ row = <<row[1], row[2]>>
      BY <2>1
  <2>3. row[2] \in 1..CurrentRevision(row[1])
    <3>1. CurrentRevision(row[1]) \in Nat
        BY <2>2 DEF StoreInv, StoreTypeOK, CurrentRevision
    <3> QED BY <2>1, <3>1, StateStoreAssumption
  <2>4. PICK i \in Positions : changes[i] = <<row[1], row[2]>>
      BY <2>2, <2>3 DEF StoreInv, ChangeLogMatchesRevisions
  <2> QED BY <2>2, <2>4
<1>6. IsFiniteSet(Rows)
    BY <1>4, <1>5, FS_Subset
<1>7. place \in Surjection(Rows, RowPlaces)
    BY DEF Surjection, RowPlaces
<1>8. IsFiniteSet(RowPlaces) /\ Cardinality(RowPlaces) <= Cardinality(Rows)
    BY <1>6, <1>7, FS_Surjection
<1>9. RowPlaces \in SUBSET Pairs
    BY PlaceTypes
<1> QED BY <1>6, <1>8, <1>9, FS_CardinalityType

\* A writer's step takes no row out of a listing and moves none: chains only
\* grow, committed references stay, and the place of a list is the subject's.
\* What it adds to a history comes after everything in it.
LEMMA PlacesStay ==
    ASSUME Asks, StoreInv, ChainsAreBounded', [StoreNext]_storeVars, UNCHANGED readRequest
    PROVE  /\ RowPlaces \subseteq RowPlaces'
           /\ readRequest.kind = "history" =>
                \A place \in RowPlaces' :
                    place \in RowPlaces \/ \A other \in RowPlaces : Precedes(other, place)
<1>1. readRequest.kind \in {"history", "list", "referencing"} /\ Asks'
    BY DEF Asks, ReadRequest
<1>2. ASSUME NEW s \in Subjects
      PROVE  /\ CurrentRevision(s) \in Nat /\ CurrentRevision(s)' \in Nat
             /\ CurrentRevision(s) <= CurrentRevision(s)'
             /\ CurrentRevision(s)' <= MaxRevision
             /\ \A r \in 1..CurrentRevision(s) : revisions'[s][r] = revisions[s][r]
    BY DurableGrows DEF StoreInv, CurrentRevision, ChainsAreBounded
<1>3. ASSUME NEW place \in RowPlaces PROVE place \in RowPlaces'
  <2>1. PICK s \in Subjects, r \in 1..MaxRevision : IsRow(s, r) /\ place = PlaceAt(s, r)
      BY PlacesAreListed
  <2>2. r \in 1..CurrentRevision(s) /\ revisions'[s][r] = revisions[s][r]
      BY <1>2, <2>1, StateStoreAssumption DEF IsRow
  <2> DEFINE now == IF readRequest.kind = "list" THEN Len(revisions'[s]) ELSE r
             row == <<s, now>>
  <2>3. now \in 1..MaxRevision /\ now <= CurrentRevision(s)'
      BY <1>2, <2>2, StateStoreAssumption DEF CurrentRevision
  <2>4. row \in Committed'
      BY <2>3 DEF Committed, CurrentRevision
  <2>5. row \in Rows'
    <3>1. CASE readRequest.kind = "history"
        BY <2>1, <2>4, <3>1 DEF Rows, IsRow, Listed
    <3>2. CASE readRequest.kind = "list"
        BY <2>4, <3>2 DEF Rows, CurrentRevision
    <3>3. CASE readRequest.kind = "referencing"
        BY <2>1, <2>2, <2>4, <3>3 DEF Rows, IsRow, Listed
    <3> QED BY <1>1, <3>1, <3>2, <3>3
  <2>6. place = <<SubjectRank[row[1]], IF readRequest'.kind = "list" THEN 0 ELSE row[2]>>
      BY <2>1 DEF PlaceAt
  <2> HIDE DEF row
  <2> QED BY <2>5, <2>6 DEF RowPlaces, RowPlace
<1>4. ASSUME readRequest.kind = "history", NEW place \in RowPlaces', place \notin RowPlaces,
             NEW other \in RowPlaces
      PROVE  Precedes(other, place)
  <2>1. PICK row \in Rows' : place = RowPlace(row)'
      BY <1>4 DEF RowPlaces
  <2>2. row \in Subjects \X (1..MaxRevision) /\ row[1] = readRequest.subject
      BY <1>4, <2>1 DEF Rows, Committed
  <2> DEFINE s == readRequest.subject
             r == row[2]
  <2>3. s \in Subjects /\ r \in 1..MaxRevision /\ place = PlaceAt(s, r)
      BY <1>4, <2>1, <2>2 DEF RowPlace, PlaceAt
  <2>4. ~ r <= CurrentRevision(s)
      BY <1>4, <2>3, PlacesAreListed DEF IsRow, Listed
  <2>5. PICK t \in Subjects, q \in 1..MaxRevision : IsRow(t, q) /\ other = PlaceAt(t, q)
      BY <1>4, PlacesAreListed
  <2>6. t = s /\ q <= CurrentRevision(s)
      BY <1>4, <2>5 DEF IsRow, Listed
  <2>7. q < r
    <3>1. CurrentRevision(s) \in Nat /\ q \in Int /\ r \in Int
        BY <1>2, <2>3, <2>5, StateStoreAssumption
    <3> HIDE DEF s, r
    <3> QED BY <2>4, <2>6, <3>1
  <2> QED BY <1>4, <2>3, <2>5, <2>6, <2>7 DEF PlaceAt, Precedes
<1> QED BY <1>3, <1>4

-----------------------------------------------------------------------------
(***************************************************************************)
(* The reader.                                                             *)
(***************************************************************************)
ReaderTypes ==
    /\ readRequest \in ReadRequests
    /\ reader \in [pc : {"idle", "reading", "done"}, cursor : Pairs,
                   seen : SUBSET RowPlaces, repeated : BOOLEAN]
    /\ due \subseteq RowPlaces

\* A reader that has not begun has seen nothing.
Fresh ==
    reader.pc = "idle" => reader.cursor = <<-1, 0>> /\ reader.seen = {} /\ due = {}

\* The cursor parts what the reader has met from what it is still to meet.
CursorParts ==
    /\ ~ reader.repeated
    /\ \A place \in reader.seen : NotBeyond(place, reader.cursor)
    /\ \A place \in due :
          place \in reader.seen \/ (reader.pc # "done" /\ Precedes(reader.cursor, place))

\* A history has been met whole up to the cursor.
HistoryIsWhole ==
    readRequest.kind = "history" =>
        /\ reader.cursor = <<-1, 0>> \/ reader.cursor \in reader.seen
        /\ \A place \in RowPlaces :
              NotBeyond(place, reader.cursor) => place \in reader.seen

ReadersInv ==
    /\ readRequest.kind = "none" =>
          reader.pc = "idle" /\ ~ reader.repeated /\ reader.seen = {}
    /\ readRequest.kind # "none" => ReaderTypes /\ Fresh /\ CursorParts /\ HistoryIsWhole

LEMMA ReaderAsks ==
    ASSUME ReaderTypes, readRequest.kind # "none"
    PROVE  /\ Asks /\ readRequest.limit \in Nat \ {0}
           /\ reader.cursor \in Pairs /\ reader.seen \subseteq RowPlaces
           /\ reader.pc \in {"idle", "reading", "done"} /\ reader.repeated \in BOOLEAN
    BY ReadersAssumption DEF ReaderTypes, Asks, ReadRequest

\* A writer's step leaves the reader's account true.
LEMMA WriterKeepsReader ==
    ASSUME ReadersInv, StoreInv, StoreInv', [StoreNext]_storeVars, UNCHANGED readerVars
    PROVE  ReadersInv'
<1>1. readRequest' = readRequest /\ reader' = reader /\ due' = due
    BY DEF readerVars
<1>2. CASE readRequest.kind = "none"
    BY <1>1, <1>2 DEF ReadersInv
<1>3. CASE readRequest.kind # "none"
  <2>1. ReaderTypes /\ Fresh /\ CursorParts /\ HistoryIsWhole
      BY <1>3 DEF ReadersInv
  <2>2. /\ Asks /\ reader.cursor \in Pairs /\ reader.seen \subseteq RowPlaces
        /\ RowPlaces \in SUBSET Pairs
      BY <1>3, <2>1, ReaderAsks, PlaceTypes
  <2>3. /\ RowPlaces \subseteq RowPlaces'
        /\ readRequest.kind = "history" =>
             \A place \in RowPlaces' :
                 place \in RowPlaces \/ \A other \in RowPlaces : Precedes(other, place)
      BY <1>1, <2>2, PlacesStay DEF StoreInv
  <2>4. ReaderTypes'
      BY <1>1, <2>1, <2>3 DEF ReaderTypes
  <2>5. Fresh' /\ CursorParts'
      BY <1>1, <2>1 DEF Fresh, CursorParts
  <2>6. ASSUME readRequest.kind = "history", NEW place \in RowPlaces',
               NotBeyond(place, reader.cursor)
        PROVE  place \in reader.seen
    <3>1. CASE place \in RowPlaces
        BY <2>1, <2>6, <3>1 DEF HistoryIsWhole
    <3>2. CASE place \notin RowPlaces
      <4>1. place \in Pairs /\ Precedes(<<-1, 0>>, place)
        <5>1. PICK row \in Rows' : place = <<SubjectRank[row[1]], row[2]>>
            BY <1>1, <2>6 DEF RowPlaces, RowPlace
        <5>2. row[1] \in Subjects /\ row[2] \in 1..MaxRevision
            BY <1>1, <2>6 DEF Rows, Committed
        <5>3. SubjectRank[row[1]] \in Nat /\ row[2] \in Nat
            BY <5>2, ReadersAssumption, StateStoreAssumption
        <5> QED BY <5>1, <5>3 DEF Pairs, Precedes
      <4>2. Precedes(reader.cursor, place)
          BY <2>1, <2>2, <2>3, <2>6, <3>2, <4>1 DEF HistoryIsWhole
      <4> QED BY <2>2, <2>6, <4>1, <4>2, NotBeyondThenBeyond
    <3> QED BY <3>1, <3>2
  <2>7. HistoryIsWhole'
      BY <1>1, <2>1, <2>6 DEF HistoryIsWhole, NotBeyond, Precedes
  <2> QED BY <1>1, <1>3, <2>4, <2>5, <2>7 DEF ReadersInv
<1> QED BY <1>2, <1>3

\* A page without a cursor is the last one, also where the cursor is issued by
\* counting the matches before it.
LEMMA WithoutCursorNothingIsLeft ==
    ASSUME ReaderTypes, readRequest.kind # "none", StoreInv, ~ IssuesCursor,
           NEW place \in RowPlaces
    PROVE  NotBeyond(place, reader.cursor) \/ place \in PagePlaces
<1> DEFINE limit == readRequest.limit
<1>1. Asks /\ limit \in Nat \ {0} /\ reader.cursor \in Pairs
    BY ReaderAsks
<1>2. /\ RowPlaces \in SUBSET Pairs /\ IsFiniteSet(RowPlaces)
      /\ Cardinality(Rows) \in Nat /\ Cardinality(RowPlaces) <= Cardinality(Rows)
      /\ Cardinality(RowPlaces) \in Nat
    BY <1>1, RowsAreFinite
<1>3. NotBeyond(place, reader.cursor) \/ place \in Beyond(RowPlaces, reader.cursor)
    BY <1>1, <1>2, PrecedesIsTotal DEF Beyond, NotBeyond
<1> HIDE DEF limit
<1>4. CASE ~ MoreBeyond(RowPlaces, reader.cursor, limit)
    BY <1>1, <1>2, <1>3, <1>4, LastPageHoldsAll DEF PagePlaces, limit
<1>5. CASE PagePlaces = {}
    BY <1>1, <1>2, <1>3, <1>5, EmptyPageEnds DEF PagePlaces, limit
<1>6. CASE ~ Cardinality(Rows) > limit
  <2>1. /\ Beyond(RowPlaces, reader.cursor) \in SUBSET RowPlaces
        /\ Cardinality(Beyond(RowPlaces, reader.cursor)) \in Nat
      BY <1>2, BeyondIsFinite
  <2>2. Cardinality(Beyond(RowPlaces, reader.cursor)) <= Cardinality(RowPlaces)
      BY <1>2, <2>1, FS_Subset
  <2>3. ~ MoreBeyond(RowPlaces, reader.cursor, limit)
      BY <1>1, <1>2, <1>6, <2>1, <2>2 DEF MoreBeyond
  <2> QED BY <1>4, <2>3
<1> QED BY <1>4, <1>5, <1>6 DEF IssuesCursor, limit

\* So does a page that is read.
LEMMA ReadKeepsReader ==
    ASSUME ReadersInv, StoreInv, ReadPage
    PROVE  ReadersInv'
<1> DEFINE next == LastOf(PagePlaces, reader.cursor)
<1>1. /\ readRequest.kind # "none" /\ reader.pc # "done"
      /\ reader' = [pc |-> IF IssuesCursor THEN "reading" ELSE "done",
                    cursor |-> next,
                    seen |-> reader.seen \cup PagePlaces,
                    repeated |-> reader.repeated \/ reader.seen \cap PagePlaces # {}]
      /\ due' = IF reader.pc = "idle" THEN RowPlaces ELSE due
      /\ readRequest' = readRequest /\ revisions' = revisions
    BY DEF ReadPage, storeVars
<1>2. ReaderTypes /\ Fresh /\ CursorParts /\ HistoryIsWhole
    BY <1>1 DEF ReadersInv
<1>3. /\ Asks /\ readRequest.limit \in Nat \ {0}
      /\ reader.cursor \in Pairs /\ reader.seen \subseteq RowPlaces
      /\ reader.pc \in {"idle", "reading", "done"}
    BY <1>1, <1>2, ReaderAsks
<1>4. RowPlaces' = RowPlaces
    BY <1>1 DEF RowPlaces, RowPlace, Rows, Committed, CurrentRevision
<1>5. RowPlaces \in SUBSET Pairs /\ IsFiniteSet(RowPlaces)
    BY <1>3, RowsAreFinite
<1>6. /\ next \in Pairs
      /\ next = reader.cursor \/ next \in PagePlaces
      /\ NotBeyond(reader.cursor, next)
      /\ \A place \in PagePlaces :
             place \in RowPlaces /\ Precedes(reader.cursor, place) /\ NotBeyond(place, next)
      /\ \A place \in RowPlaces :
             \/ NotBeyond(place, reader.cursor)
             \/ place \in PagePlaces
             \/ Precedes(next, place)
    BY <1>3, <1>5, PageParts DEF PagePlaces
<1> HIDE DEF next
<1>7. ASSUME NEW place \in reader.seen
      PROVE  place \notin PagePlaces /\ NotBeyond(place, next)
  <2>1. NotBeyond(place, reader.cursor) /\ place \in Pairs
      BY <1>2, <1>3, <1>5 DEF CursorParts
  <2>2. place \notin PagePlaces
      BY <1>3, <1>5, <1>6, <2>1, NotBeyondThenBeyond
  <2>3. NotBeyond(place, next)
      BY <1>3, <1>6, <2>1, PrecedesIsTransitive DEF NotBeyond
  <2> QED BY <2>2, <2>3
<1>8. reader.repeated = FALSE /\ reader.seen \cap PagePlaces = {}
    BY <1>2, <1>7, ReaderAsks, <1>1 DEF CursorParts
<1>9. /\ reader'.pc = IF IssuesCursor THEN "reading" ELSE "done"
      /\ reader'.cursor = next
      /\ reader'.seen = reader.seen \cup PagePlaces
      /\ reader'.repeated = FALSE
      /\ reader' \in [pc : {"idle", "reading", "done"}, cursor : Pairs,
                      seen : SUBSET RowPlaces, repeated : BOOLEAN]
    BY <1>1, <1>3, <1>6, <1>8
<1>10. due' \subseteq RowPlaces
    BY <1>1, <1>2 DEF ReaderTypes
<1>11. ReaderTypes'
    BY <1>1, <1>2, <1>4, <1>9, <1>10 DEF ReaderTypes
<1>12. Fresh'
    BY <1>9 DEF Fresh
<1>13. ASSUME NEW place \in due'
       PROVE  place \in reader'.seen \/ (reader'.pc # "done" /\ Precedes(next, place))
  <2>1. place \in RowPlaces /\ place \in Pairs
      BY <1>5, <1>10
  <2>2. place \in reader.seen \/ Precedes(reader.cursor, place)
    <3>1. CASE reader.pc = "idle"
        BY <1>2, <1>3, <2>1, <3>1, PlaceTypes DEF Fresh
    <3>2. CASE reader.pc # "idle"
        BY <1>1, <1>2, <3>2 DEF CursorParts
    <3> QED BY <3>1, <3>2
  <2>3. Precedes(reader.cursor, place) => ~ NotBeyond(place, reader.cursor)
      BY <1>3, <2>1, NotBeyondThenBeyond
  <2>4. CASE IssuesCursor
      BY <1>6, <1>9, <2>1, <2>2, <2>3, <2>4
  <2>5. CASE ~ IssuesCursor
      BY <1>1, <1>2, <1>9, <2>1, <2>2, <2>3, <2>5, WithoutCursorNothingIsLeft
  <2> QED BY <2>4, <2>5
<1>14. CursorParts'
    BY <1>6, <1>7, <1>9, <1>13 DEF CursorParts, NotBeyond, Precedes
<1>15. ASSUME readRequest.kind = "history"
       PROVE  /\ next = <<-1, 0>> \/ next \in reader'.seen
              /\ \A place \in RowPlaces : NotBeyond(place, next) => place \in reader'.seen
  <2>1. next = <<-1, 0>> \/ next \in reader'.seen
      BY <1>2, <1>6, <1>9, <1>15 DEF HistoryIsWhole
  <2>2. ASSUME NEW place \in RowPlaces, NotBeyond(place, next) PROVE place \in reader'.seen
    <3>1. ~ Precedes(next, place)
        BY <1>5, <1>6, <2>2, NotBeyondThenBeyond
    <3>2. NotBeyond(place, reader.cursor) => place \in reader.seen
        BY <1>2, <1>15 DEF HistoryIsWhole
    <3> QED BY <1>6, <1>9, <3>1, <3>2
  <2> QED BY <2>1, <2>2
<1>16. HistoryIsWhole'
    BY <1>1, <1>4, <1>9, <1>15 DEF HistoryIsWhole, NotBeyond, Precedes
<1> QED BY <1>1, <1>11, <1>12, <1>14, <1>16 DEF ReadersInv

\* Theorem: the cursor of a reader parts what it has met from what it is still
\* to meet, whatever is committed between two of its pages (stateHistory,
\* listStates and listStatesReferencing of both adapters).
THEOREM ReadersInvariant == ReadersSpec => []ReadersInv
<1>1. ReadersInit => ReadersInv
  <2> SUFFICES ASSUME ReadersInit PROVE ReadersInv
      OBVIOUS
  <2>1. /\ readRequest \in ReadRequests /\ due = {}
        /\ reader = [pc |-> "idle", cursor |-> <<-1, 0>>, seen |-> {}, repeated |-> FALSE]
      BY DEF ReadersInit
  <2>2. <<-1, 0>> \in Pairs
      BY DEF Pairs
  <2>3. ReaderTypes /\ Fresh /\ CursorParts
      BY <2>1, <2>2 DEF ReaderTypes, Fresh, CursorParts
  <2>4. ASSUME readRequest.kind # "none", NEW place \in RowPlaces
        PROVE  ~ NotBeyond(place, <<-1, 0>>)
    <3>1. Asks
        BY <2>3, <2>4, ReaderAsks
    <3> QED BY <2>2, <2>4, <3>1, PlaceTypes, NotBeyondThenBeyond
  <2> QED BY <2>1, <2>3, <2>4 DEF ReadersInv, HistoryIsWhole
<1>2. ReadersInv /\ StoreInv /\ StoreInv' /\ [ReadersNext]_<<storeVars, readerVars>>
        => ReadersInv'
  <2> SUFFICES ASSUME ReadersInv, StoreInv, StoreInv', [ReadersNext]_<<storeVars, readerVars>>
               PROVE  ReadersInv'
      OBVIOUS
  <2>1. CASE [StoreNext]_storeVars /\ UNCHANGED readerVars
      BY <2>1, WriterKeepsReader
  <2>2. CASE ReadPage
      BY <2>2, ReadKeepsReader
  <2> QED BY <2>1, <2>2 DEF ReadersNext
<1> QED BY <1>1, <1>2, StoreInvariant, PTL DEF ReadersSpec

\* Theorem: a reader that follows the cursors to their end has met everything
\* that was there when it began, and nothing twice; a history it has met
\* without a gap.
THEOREM ReadersMissNothingEver == ReadersSpec => []ReadersMissNothing
<1>1. ReadersInv /\ StoreInv => ReadersMissNothing
  <2> SUFFICES ASSUME ReadersInv, StoreInv PROVE ReadersMissNothing
      OBVIOUS
  <2>1. CASE readRequest.kind = "none"
      BY <2>1 DEF ReadersInv, ReadersMissNothing
  <2>2. CASE readRequest.kind # "none"
    <3>1. ReaderTypes /\ CursorParts /\ HistoryIsWhole /\ Asks
        BY <2>2, ReaderAsks DEF ReadersInv
    <3>2. ASSUME readRequest.kind = "history", NEW place \in reader.seen,
                 NEW r \in 1..(place[2] - 1)
          PROVE  <<place[1], r>> \in reader.seen
      <4> DEFINE earlier == <<place[1], r>>
      <4>1. place \in RowPlaces /\ NotBeyond(place, reader.cursor) /\ reader.cursor \in Pairs
          BY <2>2, <3>1, <3>2, ReaderAsks DEF CursorParts
      <4>2. PICK s \in Subjects, q \in 1..MaxRevision : IsRow(s, q) /\ place = PlaceAt(s, q)
          BY <3>1, <4>1, PlacesAreListed
      <4>3. /\ place = <<SubjectRank[s], q>> /\ q <= CurrentRevision(s)
            /\ s = readRequest.subject
          BY <3>2, <4>2 DEF PlaceAt, IsRow, Listed
      <4>4. r \in 1..MaxRevision /\ r < q
          BY <4>3, StateStoreAssumption
      <4>5. r <= CurrentRevision(s)
        <5>1. CurrentRevision(s) \in Nat /\ q \in Int
            BY DEF StoreInv, StoreTypeOK, CurrentRevision
        <5> QED BY <4>3, <4>4, <5>1
      <4>6. earlier = PlaceAt(s, r) /\ IsRow(s, r)
          BY <3>2, <4>3, <4>4, <4>5 DEF PlaceAt, IsRow, Listed
      <4>7. earlier \in RowPlaces
          BY <3>1, <4>4, <4>6, PlacesAreListed
      <4>8. earlier \in Pairs /\ place \in Pairs
          BY <3>1, <4>1, <4>7, PlaceTypes
      <4>9. Precedes(earlier, place)
          BY <4>3, <4>4 DEF Precedes
      <4> HIDE DEF earlier
      <4>10. NotBeyond(earlier, reader.cursor)
          BY <4>1, <4>8, <4>9, PrecedesIsTransitive DEF NotBeyond
      <4> QED BY <3>1, <3>2, <4>7, <4>10 DEF HistoryIsWhole, earlier
    <3> QED BY <3>1, <3>2 DEF CursorParts, ReadersMissNothing
  <2> QED BY <2>1, <2>2
<1> QED BY <1>1, ReadersInvariant, StoreInvariant, PTL
=============================================================================
