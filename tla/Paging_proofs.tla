---------------------------- MODULE Paging_proofs ----------------------------
(***************************************************************************)
(* What a page of the ledger's read methods holds, for every finite set of *)
(* places, every cursor and every limit: the next places beyond the cursor *)
(* without a gap, all of them when no next page is announced; and the      *)
(* cursor it returns separates what the page holds from what it leaves.    *)
(*                                                                         *)
(* The proofs count: the places that precede one of a finite set are its   *)
(* rank, and no two places share a rank.                                   *)
(***************************************************************************)
EXTENDS Paging, FiniteSetTheorems, TLAPS

Pairs == Int \X Int

NotBeyond(place, cursor) == place = cursor \/ Precedes(place, cursor)

-----------------------------------------------------------------------------
(***************************************************************************)
(* Places are strictly and totally ordered.                                *)
(***************************************************************************)
LEMMA PrecedesIsIrreflexive ==
    ASSUME NEW a \in Pairs
    PROVE  ~ Precedes(a, a)
    BY DEF Pairs, Precedes

LEMMA PrecedesIsTransitive ==
    ASSUME NEW a \in Pairs, NEW b \in Pairs, NEW c \in Pairs,
           Precedes(a, b), Precedes(b, c)
    PROVE  Precedes(a, c)
    BY DEF Pairs, Precedes

LEMMA PrecedesIsTotal ==
    ASSUME NEW a \in Pairs, NEW b \in Pairs
    PROVE  a = b \/ Precedes(a, b) \/ Precedes(b, a)
<1>1. a = <<a[1], a[2]>> /\ b = <<b[1], b[2]>>
    BY DEF Pairs
<1>2. a[1] \in Int /\ a[2] \in Int /\ b[1] \in Int /\ b[2] \in Int
    BY DEF Pairs
<1>3. (a[1] = b[1] /\ a[2] = b[2]) \/ Precedes(a, b) \/ Precedes(b, a)
    BY <1>2 DEF Precedes
<1> QED BY <1>1, <1>3

\* What is not beyond a cursor comes before everything beyond it.
LEMMA NotBeyondThenBeyond ==
    ASSUME NEW a \in Pairs, NEW b \in Pairs, NEW c \in Pairs,
           NotBeyond(a, b), Precedes(b, c)
    PROVE  Precedes(a, c) /\ a # c
<1>1. Precedes(a, c)
    BY PrecedesIsTransitive DEF NotBeyond
<1> QED BY <1>1, PrecedesIsIrreflexive

-----------------------------------------------------------------------------
(***************************************************************************)
(* Ranks in a finite set of places.                                        *)
(***************************************************************************)
Before(places, place) == {other \in places : Precedes(other, place)}

LEMMA BeforeIsFinite ==
    ASSUME NEW places \in SUBSET Pairs, IsFiniteSet(places), NEW place \in places
    PROVE  /\ IsFiniteSet(Before(places, place))
           /\ Cardinality(Before(places, place)) \in Nat
           /\ Cardinality(places) \in Nat
           /\ Cardinality(Before(places, place)) < Cardinality(places)
<1>1. Before(places, place) \in SUBSET places
    BY DEF Before
<1>2. /\ IsFiniteSet(Before(places, place))
      /\ Cardinality(Before(places, place)) <= Cardinality(places)
      /\ Cardinality(places) = Cardinality(Before(places, place))
            => places = Before(places, place)
    BY <1>1, FS_Subset
<1>3. Cardinality(Before(places, place)) \in Nat /\ Cardinality(places) \in Nat
    BY <1>2, FS_CardinalityType
<1>4. place \notin Before(places, place)
    BY PrecedesIsIrreflexive DEF Before
<1>5. Cardinality(places) # Cardinality(Before(places, place))
    BY <1>2, <1>4
<1> QED BY <1>2, <1>3, <1>5

LEMMA BeforeGrows ==
    ASSUME NEW places \in SUBSET Pairs, IsFiniteSet(places),
           NEW a \in places, NEW b \in places, Precedes(a, b)
    PROVE  Cardinality(Before(places, a)) < Cardinality(Before(places, b))
<1>1. a \in Pairs /\ b \in Pairs
    OBVIOUS
<1>2. ASSUME NEW c \in Before(places, a) PROVE c \in Before(places, b)
  <2>1. c \in places /\ Precedes(c, a)
      BY DEF Before
  <2>2. c \in Pairs
      BY <2>1
  <2>3. Precedes(c, b)
      BY <1>1, <2>1, <2>2, PrecedesIsTransitive
  <2> QED BY <2>1, <2>3 DEF Before
<1>3. a \in Before(places, b) /\ a \notin Before(places, a)
    BY <1>1, PrecedesIsIrreflexive DEF Before
<1>4. /\ IsFiniteSet(Before(places, b))
      /\ Cardinality(Before(places, a)) \in Nat /\ Cardinality(Before(places, b)) \in Nat
    BY BeforeIsFinite
<1>5. /\ Cardinality(Before(places, a)) <= Cardinality(Before(places, b))
      /\ Cardinality(Before(places, b)) = Cardinality(Before(places, a))
            => Before(places, b) = Before(places, a)
    BY <1>2, <1>4, FS_Subset
<1>6. Before(places, a) # Before(places, b)
    BY <1>3
<1> QED BY <1>4, <1>5, <1>6

\* No two places share a rank.
LEMMA PlacesHaveOwnRanks ==
    ASSUME NEW places \in SUBSET Pairs, IsFiniteSet(places),
           NEW a \in places, NEW b \in places,
           Cardinality(Before(places, a)) = Cardinality(Before(places, b))
    PROVE  a = b
<1>1. Cardinality(Before(places, a)) \in Nat
    BY BeforeIsFinite
<1>2. ~ Precedes(a, b) /\ ~ Precedes(b, a)
    BY <1>1, BeforeGrows
<1> QED BY <1>2, PrecedesIsTotal

\* A finite set of places has a last one: were every place before another,
\* they would share fewer ranks than there are places.
LEMMA LastExists ==
    ASSUME NEW places \in SUBSET Pairs, IsFiniteSet(places), places # {}
    PROVE  \E last \in places : \A other \in places \ {last} : Precedes(other, last)
<1> SUFFICES ASSUME \A last \in places :
                        \E other \in places \ {last} : ~ Precedes(other, last)
             PROVE  FALSE
    OBVIOUS
<1> DEFINE size == Cardinality(places)
           Ranks == 0..(size - 2)
           f == [place \in places |-> Cardinality(Before(places, place))]
<1>1. size \in Nat /\ size # 0
    BY FS_CardinalityType, FS_EmptySet
<1>2. IsFiniteSet(Ranks) /\ Cardinality(Ranks) < size
  <2>1. /\ IsFiniteSet(Ranks)
        /\ Cardinality(Ranks) = IF 0 > size - 2 THEN 0 ELSE size - 2 - 0 + 1
      BY SMTT(30), <1>1, FS_Interval
  <2> QED BY <1>1, <2>1
<1>3. ASSUME NEW place \in places
      PROVE  Cardinality(Before(places, place)) \in Ranks
  <2>1. PICK other \in places \ {place} : ~ Precedes(other, place)
      OBVIOUS
  <2>2. Precedes(place, other)
      BY <2>1, PrecedesIsTotal
  <2>3. Cardinality(Before(places, place)) < Cardinality(Before(places, other))
      BY <2>2, BeforeGrows
  <2>4. /\ Cardinality(Before(places, place)) \in Nat
        /\ Cardinality(Before(places, other)) \in Nat
        /\ Cardinality(Before(places, other)) < size
      BY BeforeIsFinite
  <2> QED BY <1>1, <2>3, <2>4
<1>4. f \in [places -> Ranks]
    BY <1>3
<1> HIDE DEF Ranks, f, size
<1>5. PICK x \in places, y \in places : x # y /\ f[x] = f[y]
    BY <1>2, <1>4, FS_PigeonHole DEF size
<1>6. Cardinality(Before(places, x)) = Cardinality(Before(places, y))
    BY <1>5 DEF f
<1> QED BY <1>5, <1>6, PlacesHaveOwnRanks

\* It has a first one, too: were every place after another, no rank would be 0.
LEMMA FirstExists ==
    ASSUME NEW places \in SUBSET Pairs, IsFiniteSet(places), places # {}
    PROVE  \E first \in places : \A other \in places \ {first} : Precedes(first, other)
<1> SUFFICES ASSUME \A first \in places :
                        \E other \in places \ {first} : ~ Precedes(first, other)
             PROVE  FALSE
    OBVIOUS
<1> DEFINE size == Cardinality(places)
           Ranks == 1..(size - 1)
           f == [place \in places |-> Cardinality(Before(places, place))]
<1>1. size \in Nat /\ size # 0
    BY FS_CardinalityType, FS_EmptySet
<1>2. IsFiniteSet(Ranks) /\ Cardinality(Ranks) < size
  <2>1. /\ IsFiniteSet(Ranks)
        /\ Cardinality(Ranks) = IF 1 > size - 1 THEN 0 ELSE size - 1 - 1 + 1
      BY <1>1, FS_Interval
  <2> QED BY <1>1, <2>1
<1>3. ASSUME NEW place \in places
      PROVE  Cardinality(Before(places, place)) \in Ranks
  <2>1. PICK other \in places \ {place} : ~ Precedes(place, other)
      OBVIOUS
  <2>2. Precedes(other, place)
      BY <2>1, PrecedesIsTotal
  <2>3. Cardinality(Before(places, other)) < Cardinality(Before(places, place))
      BY <2>2, BeforeGrows
  <2>4. /\ Cardinality(Before(places, other)) \in Nat
        /\ Cardinality(Before(places, place)) \in Nat
        /\ Cardinality(Before(places, place)) < size
      BY BeforeIsFinite
  <2> QED BY <1>1, <2>3, <2>4
<1>4. f \in [places -> Ranks]
    BY <1>3
<1> HIDE DEF Ranks, f, size
<1>5. PICK x \in places, y \in places : x # y /\ f[x] = f[y]
    BY <1>2, <1>4, FS_PigeonHole DEF size
<1>6. Cardinality(Before(places, x)) = Cardinality(Before(places, y))
    BY <1>5 DEF f
<1> QED BY <1>5, <1>6, PlacesHaveOwnRanks

-----------------------------------------------------------------------------
(***************************************************************************)
(* Pages.                                                                  *)
(***************************************************************************)
LEMMA BeyondIsFinite ==
    ASSUME NEW places \in SUBSET Pairs, IsFiniteSet(places), NEW cursor
    PROVE  /\ Beyond(places, cursor) \in SUBSET places
           /\ Beyond(places, cursor) \in SUBSET Pairs
           /\ IsFiniteSet(Beyond(places, cursor))
           /\ Cardinality(Beyond(places, cursor)) \in Nat
<1>1. Beyond(places, cursor) \in SUBSET places
    BY DEF Beyond
<1>2. IsFiniteSet(Beyond(places, cursor))
    BY <1>1, FS_Subset
<1> QED BY <1>1, <1>2, FS_CardinalityType

LEMMA PageIsFinite ==
    ASSUME NEW places \in SUBSET Pairs, IsFiniteSet(places), NEW cursor, NEW limit
    PROVE  /\ PageAfter(places, cursor, limit) \in SUBSET Beyond(places, cursor)
           /\ PageAfter(places, cursor, limit) \in SUBSET Pairs
           /\ IsFiniteSet(PageAfter(places, cursor, limit))
<1>1. PageAfter(places, cursor, limit) \in SUBSET Beyond(places, cursor)
    BY DEF PageAfter
<1> QED BY <1>1, BeyondIsFinite, FS_Subset

\* A page has no gap: what lies between the cursor and one of its places is in it.
LEMMA PageHasNoGap ==
    ASSUME NEW places \in SUBSET Pairs, IsFiniteSet(places), NEW cursor, NEW limit \in Nat,
           NEW place \in PageAfter(places, cursor, limit),
           NEW other \in Beyond(places, cursor), Precedes(other, place)
    PROVE  other \in PageAfter(places, cursor, limit)
<1> DEFINE Rest == Beyond(places, cursor)
<1>1. Rest \in SUBSET Pairs /\ IsFiniteSet(Rest)
    BY BeyondIsFinite
<1>2. place \in Rest /\ Cardinality(Before(Rest, place)) < limit
    BY DEF PageAfter, Before
<1>3. Cardinality(Before(Rest, other)) < Cardinality(Before(Rest, place))
    BY <1>1, <1>2, BeforeGrows
<1>4. Cardinality(Before(Rest, other)) \in Nat /\ Cardinality(Before(Rest, place)) \in Nat
    BY <1>1, <1>2, BeforeIsFinite
<1>5. Cardinality(Before(Rest, other)) < limit
    BY <1>2, <1>3, <1>4
<1> QED BY <1>5 DEF PageAfter, Before

\* Without a next page, everything beyond the cursor is in the page.
LEMMA LastPageHoldsAll ==
    ASSUME NEW places \in SUBSET Pairs, IsFiniteSet(places), NEW cursor, NEW limit \in Nat,
           ~ MoreBeyond(places, cursor, limit)
    PROVE  PageAfter(places, cursor, limit) = Beyond(places, cursor)
<1> DEFINE Rest == Beyond(places, cursor)
<1>1. Rest \in SUBSET Pairs /\ IsFiniteSet(Rest) /\ Cardinality(Rest) \in Nat
    BY BeyondIsFinite
<1>2. Cardinality(Rest) <= limit
    BY <1>1 DEF MoreBeyond
<1>3. ASSUME NEW place \in Rest PROVE Cardinality(Before(Rest, place)) < limit
  <2>1. /\ Cardinality(Before(Rest, place)) \in Nat
        /\ Cardinality(Before(Rest, place)) < Cardinality(Rest)
      BY <1>1, BeforeIsFinite
  <2> QED BY <1>1, <1>2, <2>1
<1> QED BY <1>3 DEF PageAfter, Before

\* A page is empty only at the end of its listing: the first of what lies
\* beyond the cursor is in every page.
LEMMA EmptyPageEnds ==
    ASSUME NEW places \in SUBSET Pairs, IsFiniteSet(places), NEW cursor, NEW limit \in Nat \ {0},
           PageAfter(places, cursor, limit) = {}
    PROVE  Beyond(places, cursor) = {}
<1> SUFFICES ASSUME Beyond(places, cursor) # {} PROVE FALSE
    OBVIOUS
<1> DEFINE Rest == Beyond(places, cursor)
<1>1. Rest \in SUBSET Pairs /\ IsFiniteSet(Rest)
    BY BeyondIsFinite
<1>2. PICK first \in Rest : \A other \in Rest \ {first} : Precedes(first, other)
    BY <1>1, FirstExists
<1>3. Before(Rest, first) = {}
  <2>1. ASSUME NEW other \in Rest, Precedes(other, first) PROVE FALSE
    <3>1. other \in Pairs /\ first \in Pairs
        BY <1>1
    <3>2. other # first
        BY <2>1, <3>1, PrecedesIsIrreflexive
    <3>3. Precedes(other, other)
        BY <1>2, <2>1, <3>1, <3>2, PrecedesIsTransitive
    <3> QED BY <3>1, <3>3, PrecedesIsIrreflexive
  <2> QED BY <2>1 DEF Before
<1>4. Cardinality(Before(Rest, first)) < limit
    BY <1>3, FS_EmptySet
<1> QED BY <1>2, <1>4 DEF PageAfter, Before

\* A page that is not full is the last one, too: the first place left out would
\* have the whole page before it, and not fewer than the limit.
LEMMA PartialPageHoldsAll ==
    ASSUME NEW places \in SUBSET Pairs, IsFiniteSet(places), NEW cursor, NEW limit \in Nat,
           Cardinality(PageAfter(places, cursor, limit)) # limit
    PROVE  PageAfter(places, cursor, limit) = Beyond(places, cursor)
<1> DEFINE page == PageAfter(places, cursor, limit)
           Rest == Beyond(places, cursor)
           Out == Rest \ page
<1>1. /\ Rest \in SUBSET Pairs /\ IsFiniteSet(Rest)
      /\ page \in SUBSET Rest /\ page \in SUBSET Pairs /\ IsFiniteSet(page)
      /\ Cardinality(page) \in Nat
    BY BeyondIsFinite, PageIsFinite, FS_CardinalityType
<1> SUFFICES ASSUME Out # {} PROVE FALSE
    BY <1>1
<1>2. Out \in SUBSET Rest /\ Out \in SUBSET Pairs /\ IsFiniteSet(Out)
    BY <1>1, FS_Subset
<1>3. PICK first \in Out : \A other \in Out \ {first} : Precedes(first, other)
    BY <1>2, FirstExists
<1>4. first \in Rest /\ first \in Pairs /\ first \notin page
    BY <1>2, <1>3
<1>5. ASSUME NEW place \in page PROVE Precedes(place, first)
  <2>1. ~ Precedes(first, place)
      BY <1>4, <1>5, PageHasNoGap
  <2> QED BY <1>1, <1>4, <2>1, PrecedesIsTotal
<1>6. ASSUME NEW place \in Rest, Precedes(place, first) PROVE place \in page
  <2>1. place \in Pairs /\ place # first
      BY <1>1, <1>4, <1>6, PrecedesIsIrreflexive
  <2>2. ~ Precedes(first, place)
      BY <1>4, <1>6, <2>1, PrecedesIsTransitive, PrecedesIsIrreflexive
  <2> QED BY <1>3, <2>1, <2>2
<1>7. Before(Rest, first) = page
    BY <1>1, <1>5, <1>6 DEF Before
<1>8. ~ Cardinality(page) < limit
    BY <1>4, <1>7 DEF PageAfter, Before
<1>9. Cardinality(page) <= limit
  <2>1. CASE page = {}
      BY <2>1, FS_EmptySet
  <2>2. CASE page # {}
    <3>1. PICK last \in page : \A other \in page \ {last} : Precedes(other, last)
        BY <1>1, <2>2, LastExists
    <3> HIDE DEF page
    <3>2. /\ IsFiniteSet(page \ {last})
          /\ Cardinality(page \ {last}) = Cardinality(page) - 1
        BY <1>1, <3>1, FS_RemoveElement
    <3>3. page \ {last} \in SUBSET Before(Rest, last)
        BY <1>1, <3>1 DEF Before
    <3>4. IsFiniteSet(Before(Rest, last)) /\ Cardinality(Before(Rest, last)) \in Nat
        BY <1>1, <3>1, BeforeIsFinite
    <3>5. Cardinality(page \ {last}) <= Cardinality(Before(Rest, last))
        BY <3>3, <3>4, FS_Subset
    <3>6. Cardinality(Before(Rest, last)) < limit
        BY <3>1 DEF page, PageAfter, Before
    <3> HIDE DEF Rest
    <3> QED BY <1>1, <3>2, <3>4, <3>5, <3>6
  <2> QED BY <2>1, <2>2
<1> QED BY <1>1, <1>8, <1>9

\* The cursor of a page is that of its last place, or the one it was asked with
\* when the page is empty.
LEMMA LastOfPage ==
    ASSUME NEW page \in SUBSET Pairs, IsFiniteSet(page), page # {}, NEW cursor
    PROVE  /\ LastOf(page, cursor) \in page
           /\ \A other \in page : NotBeyond(other, LastOf(page, cursor))
<1>1. \E last \in page : \A other \in page \ {last} : Precedes(other, last)
    BY LastExists
<1>2. LastOf(page, cursor)
        = CHOOSE last \in page : \A other \in page \ {last} : Precedes(other, last)
    BY DEF LastOf
<1>3. /\ LastOf(page, cursor) \in page
      /\ \A other \in page \ {LastOf(page, cursor)} : Precedes(other, LastOf(page, cursor))
    BY <1>1, <1>2
<1> QED BY <1>3 DEF NotBeyond

\* The cursor a page returns parts the listing: of what lay beyond the cursor
\* it was asked with, the page holds what is not beyond the one it returns.
LEMMA PageParts ==
    ASSUME NEW places \in SUBSET Pairs, IsFiniteSet(places),
           NEW cursor \in Pairs, NEW limit \in Nat,
           NEW next, next = LastOf(PageAfter(places, cursor, limit), cursor)
    PROVE  /\ next \in Pairs
           /\ next = cursor \/ next \in PageAfter(places, cursor, limit)
           /\ NotBeyond(cursor, next)
           /\ \A place \in PageAfter(places, cursor, limit) :
                  place \in places /\ Precedes(cursor, place) /\ NotBeyond(place, next)
           /\ \A place \in places :
                  \/ NotBeyond(place, cursor)
                  \/ place \in PageAfter(places, cursor, limit)
                  \/ Precedes(next, place)
<1> DEFINE page == PageAfter(places, cursor, limit)
<1>1. /\ page \in SUBSET Beyond(places, cursor) /\ page \in SUBSET Pairs /\ IsFiniteSet(page)
    BY PageIsFinite
<1>2. \A place \in page : place \in places /\ Precedes(cursor, place)
    BY <1>1 DEF Beyond
<1>3. CASE page = {}
  <2>1. next = cursor
      BY <1>3 DEF LastOf
  <2>2. \A place \in places : NotBeyond(place, cursor) \/ Precedes(cursor, place)
      BY PrecedesIsTotal DEF NotBeyond
  <2> QED BY <1>3, <2>1, <2>2 DEF NotBeyond
<1>4. CASE page # {}
  <2>1. next \in page /\ \A other \in page : NotBeyond(other, next)
      BY <1>1, <1>4, LastOfPage
  <2>2. next \in Pairs /\ Precedes(cursor, next)
      BY <1>1, <1>2, <2>1
  <2>3. ASSUME NEW place \in places, ~ NotBeyond(place, cursor), place \notin page
        PROVE  Precedes(next, place)
    <3>1. place \in Beyond(places, cursor)
        BY <2>3, PrecedesIsTotal DEF Beyond, NotBeyond
    <3>2. ~ Precedes(place, next)
        BY <2>1, <2>3, <3>1, PageHasNoGap
    <3>3. place # next
        BY <2>1, <2>3
    <3> QED BY <2>2, <3>2, <3>3, PrecedesIsTotal
  <2> QED BY <1>2, <2>1, <2>2, <2>3 DEF NotBeyond
<1> QED BY <1>3, <1>4
=============================================================================
