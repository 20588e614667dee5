----------------------------- MODULE InvoiceRepo -----------------------------
(***************************************************************************)
(* The invoices table as the rest of the program uses it                   *)
(* (internal/repository/postgres/invoice_repo.go).  A row keeps the        *)
(* columns whose value the workers and the API decide on: the status,      *)
(* whether external_id is set, transaction_uuid, transaction_hash and      *)
(* retry_count.  updated_at, which only orders the poller's page, is kept  *)
(* as the set of rows written after this one.  Every statement commits on  *)
(* its own.                                                                *)
(***************************************************************************)
EXTENDS Sequences, Domain

CONSTANTS Hashes,       \* blockchain transaction hashes a client may send
          NoHash,       \* transaction_hash is empty
          OldRows,      \* invoices stored before migration 10
          MaxDBFaults   \* bound: how many database calls may fail

ASSUME RepoAssumption ==
  /\ NoHash \notin Hashes
  /\ OldRows \subseteq Invoices
  /\ MaxDBFaults \in Nat

VARIABLES row,      \* row[i]: the columns of invoice i
          newer,    \* newer[i]: the rows whose updated_at is later than i's
          history,  \* history[i]: the <<from, to>> rows of invoice_status_history
          faults    \* how many database calls have failed

repoVars == <<row, newer, history, faults>>

Row == [status : Status \cup {"none"}, ext : BOOLEAN,
        uuid : Uuids \cup {NoUuid}, hash : Hashes \cup {NoHash}, retry : Nat]

NoRow == [status |-> "none", ext |-> FALSE, uuid |-> NoUuid, hash |-> NoHash,
          retry |-> 0]

\* A row that was being processed when the migrations added the columns of
\* today: transaction_uuid and the buyer's columns are NULL.
OldRow == [NoRow EXCEPT !.status = "processing"]

\* scanInvoice scans columns that may be NULL into plain strings: every read
\* of an old row is an error.
Readable(i) == i \notin OldRows

\* The columns a statement writes back from a row read earlier.
Copy == [ext : BOOLEAN, uuid : Uuids \cup {NoUuid}, hash : Hashes \cup {NoHash},
         retry : Nat]

\* Mutated forms: a column is left out of the SELECT.
CopyWithoutNumber(r) ==
  [ext |-> FALSE, uuid |-> r.uuid, hash |-> r.hash, retry |-> r.retry]
CopyWithoutRetry(r) ==
  [ext |-> r.ext, uuid |-> r.uuid, hash |-> r.hash, retry |-> 0]
CopyWithoutUuid(r) ==
  [ext |-> r.ext, uuid |-> NoUuid, hash |-> r.hash, retry |-> r.retry]

CopyOf(r) == [ext |-> r.ext, uuid |-> r.uuid, hash |-> r.hash, retry |-> r.retry]

\* The old rows were written one after the other.
RepoInit ==
  /\ row = [i \in Invoices |-> IF i \in OldRows THEN OldRow ELSE NoRow]
  /\ newer \in [Invoices -> SUBSET OldRows]
  /\ \A i \in Invoices \ OldRows : newer[i] = {}
  /\ \A i, j \in OldRows :
       /\ i # j => (i \in newer[j] <=> j \notin newer[i])
       /\ i \notin newer[i]
       /\ j \in newer[i] => newer[j] \subseteq newer[i]
  /\ history = [i \in Invoices |-> {}]
  /\ faults = 0

Exists(i) == row[i].status # "none"

NoCopy == CopyOf(NoRow)

-----------------------------------------------------------------------------
(* The new value of a row under each UPDATE statement. *)

\* CreateWithItems: a draft with the hash of the request, its items in the
\* same transaction.
CreatedRow(u, h) == [NoRow EXCEPT !.status = "draft", !.uuid = u, !.hash = h]

\* UpdateStatus: no condition on the status it replaces.
WithStatus(r, s) == [r EXCEPT !.status = s]

\* UpdateTransactionHash.
WithHash(r, h) == [r EXCEPT !.hash = h]

\* Update: every column but status is overwritten from the caller's copy.
Overwritten(r, copy) ==
  [r EXCEPT !.ext = copy.ext, !.uuid = copy.uuid, !.hash = copy.hash,
            !.retry = copy.retry]

\* updated_at := now: nothing is newer than i, i is newer than all others.
Touched(i) ==
  [j \in Invoices |-> IF j = i THEN {} ELSE newer[j] \cup {i}]

\* One UPDATE of row i, which may or may not have been applied.
Write(i, r, applied) ==
  /\ row' = IF applied THEN [row EXCEPT ![i] = r] ELSE row
  /\ newer' = IF applied THEN Touched(i) ELSE newer

\* AddStatusHistory: one INSERT.
AddHistory(i, from, to, applied) ==
  history' = IF applied THEN [history EXCEPT ![i] = @ \cup {<<from, to>>}]
                        ELSE history

-----------------------------------------------------------------------------
\* Mutated forms: the statuses of the page.
PendingOrDraft(i) == row[i].status \in {"draft", "submitted", "processing"}
SubmittedOnly(i) == row[i].status = "submitted"

Pending(i) == row[i].status \in {"submitted", "processing"}

\* The page GetPendingPolling(limit) selects: the pending rows, least recently
\* updated first, at most limit of them.
IsPendingPage(page, limit) ==
  LET n == Len(page)
      picked == {page[k] : k \in 1..n}
  IN  /\ n <= limit
      /\ \A k \in 1..n : Pending(page[k])
      /\ \A k, m \in 1..n : k < m => page[m] \in newer[page[k]]
      /\ \A i \in Invoices \ picked :
           Pending(i) => n = limit /\ \A j \in picked : i \in newer[j]

\* One row that cannot be scanned, among the n that arrive, fails the query.
PageIsRead(page, n) == \A k \in 1..n : Readable(page[k])
=============================================================================
