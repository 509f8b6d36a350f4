------------------------------- MODULE Paging -------------------------------
(***************************************************************************)
(* The pages of the ledger's read methods.  A place is a pair that orders  *)
(* an item in its listing; a cursor is the place of the last item of a     *)
(* page.  Cursors are opaque base64url texts of that place: they are       *)
(* modelled by it.                                                         *)
(***************************************************************************)
EXTENDS Integers, FiniteSets

Precedes(a, b) == a[1] < b[1] \/ (a[1] = b[1] /\ a[2] < b[2])

BeyondInFirst(places, cursor) ==        \* mutant: ties are not broken
    {place \in places : cursor[1] < place[1]}

Beyond(places, cursor) == {place \in places : Precedes(cursor, place)}

PageAfter(places, cursor, limit) ==
    {place \in Beyond(places, cursor) :
        Cardinality({other \in Beyond(places, cursor) : Precedes(other, place)}) < limit}

\* An empty page ends a listing.
LastOf(page, cursor) ==
    IF page = {} THEN cursor
    ELSE CHOOSE last \in page : \A other \in page \ {last} : Precedes(other, last)

\* A query fetches one row more than the page holds, to know of a next page.
MoreBeyond(places, cursor, limit) == Cardinality(Beyond(places, cursor)) > limit
=============================================================================
