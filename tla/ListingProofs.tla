----------------------------- MODULE ListingProofs ----------------------------
(***************************************************************************)
(* Proofs about Listing, for any number of invoices, any limits and any    *)
(* page sizes.                                                             *)
(***************************************************************************)
EXTENDS Listing, FiniteSetTheorems, SequenceTheorems, TLAPS

(* What the operators on sequences return. *)

\* InsertAt shifts the rows from position k on by one.
LEMMA InsertedRow ==
  ASSUME NEW S, NEW s \in Seq(S), NEW i \in S, NEW k \in 1..Len(s) + 1
  PROVE  /\ InsertAt(s, k, i) \in Seq(S)
         /\ Len(InsertAt(s, k, i)) = Len(s) + 1
         /\ \A j \in 1..Len(s) + 1 :
              InsertAt(s, k, i)[j] =
                IF j < k THEN s[j] ELSE IF j = k THEN i ELSE s[j - 1]
<1> DEFINE a == SubSeq(s, 1, k - 1)
           b == a \o <<i>>
           c == SubSeq(s, k, Len(s))
           t == b \o c
<1>1. a \in Seq(S) /\ Len(a) = k - 1 /\ \A j \in 1..k - 1 : a[j] = s[j]
  OBVIOUS
<1>2. /\ c \in Seq(S) /\ Len(c) = Len(s) + 1 - k
      /\ \A j \in 1..Len(s) + 1 - k : c[j] = s[k + j - 1]
  OBVIOUS
<1>3. <<i>> \in Seq(S) /\ Len(<<i>>) = 1 /\ <<i>>[1] = i
  OBVIOUS
<1> HIDE DEF a, c
<1>4. b \in Seq(S) /\ Len(b) = k
      /\ \A j \in 1..k : b[j] = IF j <= k - 1 THEN a[j] ELSE <<i>>[j - (k - 1)]
  BY <1>1, <1>3, ConcatProperties
<1>5. b[k] = i /\ \A j \in 1..k - 1 : b[j] = s[j]
  BY <1>1, <1>3, <1>4
<1> HIDE DEF b
<1>6. /\ t \in Seq(S) /\ Len(t) = Len(s) + 1
      /\ \A j \in 1..Len(s) + 1 : t[j] = IF j <= k THEN b[j] ELSE c[j - k]
  <2>1. /\ t \in Seq(S) /\ Len(t) = Len(b) + Len(c)
        /\ \A j \in 1..Len(b) + Len(c) : t[j] = IF j <= Len(b) THEN b[j] ELSE c[j - Len(b)]
    BY <1>2, <1>4, ConcatProperties
  <2> HIDE DEF t
  <2>2. Len(b) = k /\ Len(b) + Len(c) = Len(s) + 1
    BY <1>2, <1>4
  <2> QED
    BY <2>1, <2>2
<1>7. ASSUME NEW j \in 1..Len(s) + 1
      PROVE  t[j] = IF j < k THEN s[j] ELSE IF j = k THEN i ELSE s[j - 1]
  BY <1>2, <1>5, <1>6
<1>8. InsertAt(s, k, i) = t
  BY DEF InsertAt, a, b, c
<1> QED
  BY <1>6, <1>7, <1>8

\* Without a filter the rank of a row is its position: an answer holds the rows
\* at the positions after offset, limit of them or as many as there are.
LEMMA PlainRows ==
  ASSUME table \in Seq(Rows), NEW d \in BOOLEAN, ~d, NEW limit \in Nat, NEW offset \in Nat
  PROVE  /\ RowsAt(d, limit, offset) =
              {k \in 1..Len(table) : offset < k /\ k <= offset + limit}
         /\ Cardinality(RowsAt(d, limit, offset)) < limit =>
              Len(table) < offset + limit
<1>0. Len(table) \in Nat
  OBVIOUS
<1>1. Positions(d) = 1..Len(table)
  BY DEF Positions
<1>2. ASSUME NEW k \in 1..Len(table) PROVE Rank(d, k) = k
  <2>1. {j \in Positions(d) : j <= k} = 1..k
    <3>1. \A j \in 1..k : j \in 1..Len(table) /\ j <= k
      BY <1>0
    <3>2. \A j \in 1..Len(table) : j <= k => j \in 1..k
      BY <1>0
    <3> QED
      BY <3>1, <3>2, <1>1
  <2>2. k \in Nat /\ 1 <= k
    BY <1>0
  <2>3. Cardinality(1..k) = IF 1 > k THEN 0 ELSE k - 1 + 1
    BY <2>2, FS_Interval
  <2>4. Cardinality(1..k) = k
    BY <2>2, <2>3
  <2> QED
    BY <2>1, <2>4 DEF Rank
<1>3. RowsAt(d, limit, offset) =
        {k \in 1..Len(table) : offset < k /\ k <= offset + limit}
  <2>1. RowsAt(d, limit, offset) =
          {k \in 1..Len(table) : k \in offset + 1..offset + limit}
    BY <1>1, <1>2 DEF RowsAt
  <2> QED
    BY <2>1, <1>0
<1>4. ASSUME Len(table) >= offset + limit
      PROVE  Cardinality(RowsAt(d, limit, offset)) = limit
  <2>1. RowsAt(d, limit, offset) = offset + 1..offset + limit
    BY <1>0, <1>3, <1>4
  <2>2. Cardinality(offset + 1..offset + limit) =
          IF offset + 1 > offset + limit THEN 0 ELSE offset + limit - (offset + 1) + 1
    BY FS_Interval
  <2> QED
    BY <2>1, <2>2
<1> QED
  BY <1>0, <1>3, <1>4

\* The same of the table, at any place.
LEMMA InsertedTable ==
  ASSUME table \in Seq(Rows), NEW i \in Rows
  PROVE  \A k \in 1..Len(table) + 1 :
           /\ InsertAt(table, k, i) \in Seq(Rows)
           /\ Len(InsertAt(table, k, i)) = Len(table) + 1
           /\ \A j \in 1..Len(table) + 1 :
                InsertAt(table, k, i)[j] =
                  IF j < k THEN table[j] ELSE IF j = k THEN i ELSE table[j - 1]
  BY InsertedRow

\* What the WHERE clause selects is finite.
LEMMA PositionsFinite ==
  ASSUME table \in Seq(Rows), NEW draftsOnly
  PROVE  /\ Cardinality(Positions(draftsOnly)) \in Nat
         /\ \A limit, offset :
              Cardinality(RowsAt(draftsOnly, limit, offset)) \in Nat
<1>1. IsFiniteSet(1..Len(table))
  BY FS_Interval
<1>2. \A P \in SUBSET (1..Len(table)) : Cardinality(P) \in Nat
  BY <1>1, FS_Subset, FS_CardinalityType
<1>3. Positions(draftsOnly) \in SUBSET (1..Len(table))
  BY DEF Positions
<1>4. \A limit, offset : RowsAt(draftsOnly, limit, offset) \in SUBSET (1..Len(table))
  BY <1>3 DEF RowsAt
<1> QED
  BY <1>2, <1>3, <1>4

-----------------------------------------------------------------------------
\* The inductive invariant.
ListInv == ListingTypeOK /\ WalkInv

\* The initial state satisfies the invariant.
LEMMA ListInvInit == ListingInit => ListInv
  BY ListingAssumption DEF ListingInit, ListInv, ListingTypeOK, WalkInv, NoWalk, Walk,
     Stored, Range, PagesRead, Plain, WalkMissesNothing, TotalIsReached

\* A row that is created only shifts rows to later positions: the rows within
\* the pages already read were within them before.
LEMMA InsertPreserves ==
  ASSUME ListInv, NEW i \in Rows, Insert(i)
  PROVE  ListInv'
<1> USE DEF ListInv
<1>1. PICK k \in 1..Len(table) + 1 : table' = InsertAt(table, k, i)
  BY DEF Insert
<1>2. /\ table' \in Seq(Rows) /\ Len(table') = Len(table) + 1
      /\ \A j \in 1..Len(table) + 1 :
           table'[j] = IF j < k THEN table[j] ELSE IF j = k THEN i ELSE table[j - 1]
  BY <1>1, InsertedTable DEF ListingTypeOK
<1>3. i \notin Stored /\ drafts' = drafts \cup {i} /\ walk' = walk
  BY DEF Insert
<1>4. Len(table) \in Nat /\ Stored = {table[j] : j \in 1..Len(table)}
  BY DEF Stored, Range, ListingTypeOK
<1>5. Stored' = {table'[j] : j \in 1..Len(table')}
  BY <1>2 DEF Stored, Range
<1>6. \A j \in 1..Len(table) : table[j] # i /\ table[j] \in Stored
  BY <1>3, <1>4
\* Where the row at position j of the new table was before.
<1> DEFINE Before(j) == IF j < k THEN j ELSE j - 1
           After(j) == IF j < k THEN j ELSE j + 1
<1>7. \A j \in 1..Len(table') :
        j # k => /\ Before(j) \in 1..Len(table) /\ Before(j) <= j
                 /\ table'[j] = table[Before(j)]
  BY <1>2, <1>4
<1>8. \A j \in 1..Len(table) : After(j) \in 1..Len(table') /\ table'[After(j)] = table[j]
  BY <1>2, <1>4
<1>9. k \in 1..Len(table') /\ table'[k] = i
  BY <1>2, <1>4
<1>10. Stored' = Stored \cup {i}
  <2>1. \A x \in Stored : x \in Stored'
    BY <1>4, <1>5, <1>8
  <2>2. \A x \in Stored' : x \in Stored \cup {i}
    BY <1>5, <1>6, <1>7, <1>9
  <2> QED
    BY <2>1, <2>2, <1>5, <1>9
<1>11. ASSUME NEW j \in 1..Len(table'), NEW m \in 1..Len(table'), table'[j] = table'[m]
       PROVE  j = m
  <2>1. CASE j = k \/ m = k
    BY <2>1, <1>6, <1>7, <1>9, <1>11
  <2>2. CASE j # k /\ m # k
    <3>1. Before(j) = Before(m)
      BY <2>2, <1>7, <1>11 DEF ListingTypeOK
    <3> QED
      BY <3>1, <2>2, <1>2, <1>4
  <2> QED
    BY <2>1, <2>2
<1>12. ListingTypeOK'
  BY <1>2, <1>3, <1>10, <1>11 DEF ListingTypeOK
<1>13. PagesRead'
  <2> SUFFICES ASSUME Plain, walk.pc # "done", NEW j \in 1..Len(table'),
                      j <= walk.offset, table'[j] \in walk.start
               PROVE  table'[j] \in walk.seen
    BY <1>3 DEF PagesRead, Plain
  <2>1. j # k
    BY <1>3, <1>9 DEF WalkInv
  <2>2. PICK m \in 1..Len(table) : m <= j /\ table'[j] = table[m]
    BY <1>7, <2>1
  <2>3. walk.offset \in Nat
    BY DEF ListingTypeOK, Walk
  <2>4. m <= walk.offset
    BY <2>2, <2>3, <1>2, <1>4
  <2> QED
    BY <2>2, <2>4 DEF WalkInv, PagesRead
<1>14. walk.start \subseteq Stored' /\ Len(table) <= Len(table')
  BY <1>2, <1>4, <1>10 DEF WalkInv
<1>15. walk.total \in Nat
  BY DEF ListingTypeOK, Walk
<1>16. WalkMissesNothing' /\ TotalIsReached'
  BY <1>3 DEF WalkInv, WalkMissesNothing, TotalIsReached, Plain
<1>17. walk.pc = "page" /\ ~walk.draftsOnly => walk.total <= Len(table')
  BY <1>2, <1>4, <1>15 DEF WalkInv
<1> QED
  BY <1>3, <1>12, <1>13, <1>14, <1>16, <1>17 DEF WalkInv

\* Submitting an invoice leaves the order of the list alone.
LEMMA LeaveDraftPreserves ==
  ASSUME ListInv, NEW i \in Rows, LeaveDraft(i)
  PROVE  ListInv'
  BY DEF LeaveDraft, ListInv, ListingTypeOK, WalkInv, Stored, PagesRead, Plain,
     WalkMissesNothing, TotalIsReached

\* A walk begins with no page read.
LEMMA StartWalkPreserves ==
  ASSUME ListInv, StartWalk
  PROVE  ListInv'
<1> USE DEF ListInv
<1>1. PICK limit \in Limits, draftsOnly \in BOOLEAN :
        walk' = [NoWalk EXCEPT !.pc = "count", !.limit = limit,
                               !.draftsOnly = draftsOnly, !.start = Stored]
  BY DEF StartWalk
<1>2. table' = table /\ drafts' = drafts /\ Stored' = Stored
  BY DEF StartWalk, Stored
<1>3. Stored \subseteq Rows
  BY DEF ListingTypeOK, Stored, Range
<1>4. walk' = [pc |-> "count", draftsOnly |-> draftsOnly, limit |-> limit, offset |-> 0,
               start |-> Stored, seen |-> {}, total |-> 0, cut |-> FALSE]
  BY <1>1 DEF NoWalk
<1>5. ListingTypeOK'
  BY <1>2, <1>3, <1>4 DEF ListingTypeOK, Walk
<1> QED
  BY <1>2, <1>4, <1>5 DEF WalkInv, PagesRead, Plain, WalkMissesNothing, TotalIsReached

\* The rows counted are those of the table, which only grows until the page
\* is read.
LEMMA CountPreserves ==
  ASSUME ListInv, Count
  PROVE  ListInv'
<1> USE DEF ListInv
<1>1. table \in Seq(Rows) /\ walk \in Walk
  BY DEF ListingTypeOK
<1>2. Cardinality(Positions(walk.draftsOnly)) \in Nat
  BY <1>1, PositionsFinite
<1>3. ~walk.draftsOnly => Cardinality(Positions(walk.draftsOnly)) = Len(table)
  <2>1. Cardinality(1..Len(table)) = Len(table)
    <3>1. Len(table) \in Nat
      BY <1>1
    <3>2. Cardinality(1..Len(table)) = IF 1 > Len(table) THEN 0 ELSE Len(table) - 1 + 1
      BY <3>1, FS_Interval
    <3> QED
      BY <3>1, <3>2
  <2>2. ~walk.draftsOnly => Positions(walk.draftsOnly) = 1..Len(table)
    BY DEF Positions
  <2> QED
    BY <2>1, <2>2
<1> HIDE DEF ListInv
<1>4. /\ walk' = [walk EXCEPT !.pc = "page", !.total = Cardinality(Positions(walk.draftsOnly))]
      /\ table' = table /\ drafts' = drafts /\ Stored' = Stored /\ walk.pc = "count"
  BY DEF Count, Stored
<1>5. /\ walk'.start = walk.start /\ walk'.limit = walk.limit
      /\ walk'.draftsOnly = walk.draftsOnly /\ walk'.seen = walk.seen
      /\ walk'.cut = walk.cut /\ walk'.pc = "page" /\ walk'.offset = walk.offset
      /\ walk'.total = Cardinality(Positions(walk.draftsOnly))
      /\ walk' \in Walk
  BY <1>1, <1>2, <1>4 DEF Walk
<1>6. ListingTypeOK'
  BY <1>4, <1>5 DEF ListingTypeOK, ListInv
<1>7. PagesRead'
  BY <1>4, <1>5 DEF PagesRead, Plain, ListInv, WalkInv
<1>8. WalkMissesNothing' /\ TotalIsReached'
  BY <1>5 DEF WalkMissesNothing, TotalIsReached
<1>9. walk'.draftsOnly \/ walk'.total <= Len(table')
  BY <1>1, <1>3, <1>4, <1>5
<1> QED
  BY <1>4, <1>5, <1>6, <1>7, <1>8, <1>9 DEF WalkInv, ListInv

\* A page extends the positions that have been read; the page that ends the
\* walk holds the last row.
LEMMA PagePreserves ==
  ASSUME ListInv, Page
  PROVE  ListInv'
<1> DEFINE size == PageSize(walk.limit)
           Answer(n) == RowsAt(walk.draftsOnly, n, walk.offset)
           full(n) == Cardinality(Answer(n)) >= walk.limit
<1>1. PICK n \in 0..size :
        walk' = [walk EXCEPT
          !.seen   = @ \cup {table[k] : k \in Answer(n)},
          !.cut    = @ \/ Answer(n) # Answer(size),
          !.pc     = IF full(n) THEN "count" ELSE "done",
          !.offset = IF full(n) THEN @ + walk.limit ELSE @]
  BY DEF Page
<1>2. walk.pc = "page" /\ table' = table /\ drafts' = drafts /\ Stored' = Stored
  BY DEF Page, Stored
<1>3. table \in Seq(Rows) /\ walk \in Walk
  BY DEF ListInv, ListingTypeOK
<1>4. walk.offset \in Nat /\ walk.limit \in Nat /\ walk.total \in Nat /\ size \in Nat
  <2>0. walk.offset \in Nat /\ walk.limit \in Limits \cup {0} /\ walk.total \in Nat
    BY <1>3 DEF Walk
  <2>1. walk.offset \in Nat /\ walk.limit \in Nat /\ walk.total \in Nat
    <3>1. Limits \cup {0} \subseteq Nat
      BY ListingAssumption
    <3> QED
      BY <2>0, <3>1
  <2> QED
    BY <2>1, ListingAssumption DEF PageSize
<1>5. Answer(n) \subseteq 1..Len(table) /\ Cardinality(Answer(n)) \in Nat
  BY <1>3, PositionsFinite DEF RowsAt, Positions
<1> HIDE DEF Answer
<1>6. /\ walk'.start = walk.start /\ walk'.limit = walk.limit
      /\ walk'.total = walk.total /\ walk'.draftsOnly = walk.draftsOnly
      /\ walk'.seen = walk.seen \cup {table[k] : k \in Answer(n)}
      /\ walk'.cut = (walk.cut \/ Answer(n) # Answer(size))
      /\ walk'.pc = (IF full(n) THEN "count" ELSE "done")
      /\ walk'.offset = (IF full(n) THEN walk.offset + walk.limit ELSE walk.offset)
  BY <1>1, <1>3 DEF Walk
<1>7. {table[k] : k \in Answer(n)} \subseteq Rows
  BY <1>3, <1>5
<1>8. ListingTypeOK'
  <2>1. walk' \in Walk
    <3>1. walk.seen \cup {table[k] : k \in Answer(n)} \in SUBSET Rows
      BY <1>3, <1>7 DEF Walk
    <3>2. walk.offset + walk.limit \in Nat
      BY <1>4
    <3>3. (walk.cut \/ Answer(n) # Answer(size)) \in BOOLEAN
      OBVIOUS
    <3> QED
      BY <3>1, <3>2, <3>3, <1>1, <1>3 DEF Walk
  <2> QED
    BY <2>1, <1>2 DEF ListInv, ListingTypeOK
<1>9. ASSUME Plain'
      PROVE  /\ Plain
             /\ Answer(n) = {k \in 1..Len(table) :
                              walk.offset < k /\ k <= walk.offset + walk.limit}
             /\ ~full(n) => Len(table) < walk.offset + walk.limit
  <2>1. Plain /\ Answer(n) = Answer(size)
    BY <1>6, <1>9 DEF Plain
  <2>2. size = walk.limit /\ walk.draftsOnly \in BOOLEAN /\ ~walk.draftsOnly
    BY <1>3, <1>4, <2>1 DEF Plain, PageSize, Walk
  <2>3. Answer(n) = RowsAt(walk.draftsOnly, walk.limit, walk.offset)
    BY <2>1, <2>2 DEF Answer
  <2>4. /\ RowsAt(walk.draftsOnly, walk.limit, walk.offset) =
             {k \in 1..Len(table) : walk.offset < k /\ k <= walk.offset + walk.limit}
        /\ Cardinality(RowsAt(walk.draftsOnly, walk.limit, walk.offset)) < walk.limit =>
             Len(table) < walk.offset + walk.limit
    BY <2>2, <1>3, <1>4, PlainRows
  <2> QED
    BY <2>1, <2>3, <2>4, <1>4, <1>5
<1> HIDE DEF full
<1>10. ASSUME Plain', NEW k \in 1..Len(table), k <= walk.offset + walk.limit,
              table[k] \in walk.start
       PROVE  table[k] \in walk'.seen
  <2>1. CASE k <= walk.offset
    <3>1. table[k] \in walk.seen
      BY <2>1, <1>2, <1>9, <1>10 DEF ListInv, WalkInv, PagesRead
    <3> QED
      BY <3>1, <1>6
  <2>2. CASE k > walk.offset
    BY <2>2, <1>4, <1>6, <1>9, <1>10
  <2> QED
    BY <2>1, <2>2, <1>3, <1>4
<1>11. PagesRead'
  <2>1. walk'.pc # "done" => walk'.offset = walk.offset + walk.limit
    BY <1>6
  <2> QED
    BY <2>1, <1>2, <1>6, <1>10 DEF PagesRead
<1>12. ASSUME Plain', walk'.pc = "done"
       PROVE  ~full(n) /\ Len(table) < walk.offset + walk.limit
  BY <1>6, <1>9, <1>12
<1>13. WalkMissesNothing'
  <2> SUFFICES ASSUME Plain', walk'.pc = "done", NEW x \in walk.start
               PROVE  x \in walk'.seen
    BY <1>6 DEF WalkMissesNothing
  <2>1. Stored = {table[k] : k \in 1..Len(table)}
    BY <1>3 DEF Stored, Range
  <2>2. PICK k \in 1..Len(table) : x = table[k]
    BY <2>1 DEF ListInv, WalkInv
  <2>3. k <= walk.offset + walk.limit
    BY <1>3, <1>4, <1>12
  <2> QED
    BY <2>2, <2>3, <1>10
<1>14. TotalIsReached'
  <2> SUFFICES ASSUME Plain', walk'.pc = "done"
               PROVE  walk'.total < walk'.offset + walk'.limit
    BY DEF TotalIsReached
  <2>1. walk.total <= Len(table)
    BY <1>2, <1>9 DEF ListInv, WalkInv, Plain
  <2>2. walk'.offset = walk.offset
    BY <1>6, <1>12
  <2> QED
    BY <2>1, <2>2, <1>3, <1>4, <1>6, <1>12
<1>15. walk'.pc # "page"
  BY <1>6
<1> QED
  BY <1>2, <1>6, <1>8, <1>11, <1>13, <1>14, <1>15 DEF ListInv, WalkInv

\* Every step preserves the invariant.
LEMMA ListInvNext == ListInv /\ [ListingNext]_listingVars => ListInv'
<1> SUFFICES ASSUME ListInv, [ListingNext]_listingVars PROVE ListInv'
  OBVIOUS
<1>1. CASE UNCHANGED listingVars
  BY <1>1 DEF listingVars, ListInv, ListingTypeOK, WalkInv, Stored, PagesRead, Plain,
     WalkMissesNothing, TotalIsReached
<1> QED
  BY <1>1, InsertPreserves, LeaveDraftPreserves, StartWalkPreserves, CountPreserves,
     PagePreserves DEF ListingNext

\* Every row is listed once, whatever the order in which creations commit.
THEOREM ListingTypeCorrect == ListingSpec => []ListingTypeOK
<1>1. ListInv => ListingTypeOK
  BY DEF ListInv
<1> QED
  BY <1>1, ListInvInit, ListInvNext, PTL DEF ListingSpec

\* A walk misses no invoice that existed when it began.
THEOREM NothingIsMissed == ListingSpec => []WalkMissesNothing
<1>1. ListInv => WalkMissesNothing
  BY DEF ListInv, WalkInv
<1> QED
  BY <1>1, ListInvInit, ListInvNext, PTL DEF ListingSpec

\* The total promises no row beyond the page that ends the walk.
THEOREM TotalIsNotAhead == ListingSpec => []TotalIsReached
<1>1. ListInv => TotalIsReached
  BY DEF ListInv, WalkInv
<1> QED
  BY <1>1, ListInvInit, ListInvNext, PTL DEF ListingSpec

\* A page read is a page received: a row that was there when the walk began
\* and lies within the pages already answered has been received, and the
\* total of the answer under way promises no row that is not in the table.
THEOREM WalkKeepsUp == ListingSpec => []WalkInv
<1>1. ListInv => WalkInv
  BY DEF ListInv
<1> QED
  BY <1>1, ListInvInit, ListInvNext, PTL DEF ListingSpec
=============================================================================
