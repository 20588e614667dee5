------------------------------- MODULE Listing -------------------------------
(***************************************************************************)
(* GET /invoices walked page by page (internal/service/invoice_service.go  *)
(* and List of internal/repository/postgres/invoice_repo.go) while other   *)
(* requests create and submit invoices.  The walking client is external:   *)
(* it adds limit to offset until an answer holds fewer rows than limit.    *)
(***************************************************************************)
EXTENDS Integers, SequencesExt

CONSTANTS Rows,         \* the invoices
          Limits,       \* the limits clients ask for
          DefaultPage,  \* the page size when the limit is 0
          MaxPage       \* the largest page

ASSUME ListingAssumption ==
  /\ Limits \subseteq Nat
  /\ DefaultPage \in Nat \ {0}
  /\ MaxPage \in Nat \ {0}

VARIABLES
  table,      \* the stored invoices, by created_at, newest first
  drafts,     \* those in draft
  walk        \* the client: its next call, its query, what it has received

listingVars == <<table, drafts, walk>>

Stored == Range(table)

\* The client walks all invoices or the drafts only; start is what the table
\* held when it began, cut whether an answer was incomplete.
Walk == [pc : {"idle", "count", "page", "done"}, draftsOnly : BOOLEAN,
         limit : Limits \cup {0}, offset : Nat, start : SUBSET Rows,
         seen : SUBSET Rows, total : Nat, cut : BOOLEAN]

NoWalk == [pc |-> "idle", draftsOnly |-> FALSE, limit |-> 0, offset |-> 0,
           start |-> {}, seen |-> {}, total |-> 0, cut |-> FALSE]

ListingInit ==
  /\ table = <<>>
  /\ drafts = {}
  /\ walk = NoWalk

-----------------------------------------------------------------------------
\* Mutated form: a create that is tried again stores the invoice again.
InsertAgain(i) ==
  /\ \E k \in 1..Len(table) + 1 : table' = InsertAt(table, k, i)
  /\ drafts' = drafts \cup {i}
  /\ UNCHANGED walk

\* CreateInvoice commits a draft: created_at was taken before, so a row that
\* was begun later may be there already.  (Two equal times are left out.)
Insert(i) ==
  /\ i \in Rows \ Stored
  /\ \E k \in 1..Len(table) + 1 : table' = InsertAt(table, k, i)
  /\ drafts' = drafts \cup {i}
  /\ UNCHANGED walk

\* Mutated form: the list is ordered by updated_at.
LeaveDraftReordered(i) ==
  /\ i \in drafts
  /\ drafts' = drafts \ {i}
  /\ table' = <<i>> \o Remove(table, i)
  /\ UNCHANGED walk

\* SubmitInvoice: no row goes back to draft, and none is deleted.
LeaveDraft(i) ==
  /\ i \in drafts
  /\ drafts' = drafts \ {i}
  /\ UNCHANGED <<table, walk>>

-----------------------------------------------------------------------------
\* ListInvoices clamps the limit.
PageSize(limit) == IF limit = 0 THEN DefaultPage
                   ELSE IF limit > MaxPage THEN MaxPage ELSE limit

\* The positions of the rows the WHERE clause selects, and their rank.
Positions(draftsOnly) == {k \in 1..Len(table) : draftsOnly => table[k] \in drafts}
Rank(draftsOnly, k) == Cardinality({j \in Positions(draftsOnly) : j <= k})

\* Mutated form: a page is one row short.
RowsAtShort(draftsOnly, limit, offset) ==
  {k \in Positions(draftsOnly) : Rank(draftsOnly, k) \in offset + 1..offset + limit - 1}

\* LIMIT limit OFFSET offset.
RowsAt(draftsOnly, limit, offset) ==
  {k \in Positions(draftsOnly) : Rank(draftsOnly, k) \in offset + 1..offset + limit}

StartWalk ==
  /\ walk.pc \in {"idle", "done"}
  /\ \E limit \in Limits, draftsOnly \in BOOLEAN :
       walk' = [NoWalk EXCEPT !.pc = "count", !.limit = limit,
                              !.draftsOnly = draftsOnly, !.start = Stored]
  /\ UNCHANGED <<table, drafts>>

\* List: SELECT COUNT(*) ...
Count ==
  /\ walk.pc = "count"
  /\ walk' = [walk EXCEPT !.pc = "page", !.total = Cardinality(Positions(walk.draftsOnly))]
  /\ UNCHANGED <<table, drafts>>

\* ... then, in a statement of its own, the page; if the connection breaks
\* the rows read so far are the answer (rows.Err() is not asked).
Page ==
  LET size == PageSize(walk.limit)
      Answer(n) == RowsAt(walk.draftsOnly, n, walk.offset) IN
  /\ walk.pc = "page"
  /\ \E n \in 0..size :
       LET full == Cardinality(Answer(n)) >= walk.limit IN
       walk' = [walk EXCEPT
         !.seen   = @ \cup {table[k] : k \in Answer(n)},
         !.cut    = @ \/ Answer(n) # Answer(size),
         !.pc     = IF full THEN "count" ELSE "done",
         !.offset = IF full THEN @ + walk.limit ELSE @]
  /\ UNCHANGED <<table, drafts>>

ListingNext == \/ \E i \in Rows : Insert(i) \/ LeaveDraft(i)
               \/ StartWalk \/ Count \/ Page

ListingSpec == ListingInit /\ [][ListingNext]_listingVars

-----------------------------------------------------------------------------
\* Types of the variables; every row is listed once.
ListingTypeOK ==
  /\ table \in Seq(Rows)
  /\ \A j, k \in 1..Len(table) : table[j] = table[k] => j = k
  /\ drafts \subseteq Stored
  /\ walk \in Walk

\* The walks the interface supports: no status filter, a limit the service
\* does not clamp, answers that arrived whole.
Plain == ~walk.draftsOnly /\ walk.limit \in 1..MaxPage /\ ~walk.cut

\* Such a walk misses no invoice that existed when it began, however many are
\* created and submitted meanwhile: OFFSET may repeat rows, never skip them.
WalkMissesNothing == walk.pc = "done" /\ Plain => walk.start \subseteq walk.seen

\* The total of the answer that ends it, counted before the page was read,
\* promises no row beyond that page.
TotalIsReached ==
  walk.pc = "done" /\ Plain => walk.total < walk.offset + walk.limit

(* What carries this from page to page: a row that was there at the start  *)
(* and lies within the pages already read has been received.               *)
PagesRead ==
  Plain /\ walk.pc # "done" =>
    \A k \in 1..Len(table) :
      k <= walk.offset /\ table[k] \in walk.start => table[k] \in walk.seen

WalkInv ==
  /\ walk.start \subseteq Stored
  /\ walk.pc = "page" /\ ~walk.draftsOnly => walk.total <= Len(table)
  /\ PagesRead
  /\ WalkMissesNothing
  /\ TotalIsReached
=============================================================================
