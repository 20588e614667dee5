------------------------------ MODULE TaxModule ------------------------------
(***************************************************************************)
(* The whole service (cmd/server/main.go): the API, the worker pool, the   *)
(* invoices table and Viettel, with the process's start, graceful          *)
(* shutdown and crash.  The table and Viettel survive the process; the     *)
(* queue, the workers, the poller and the requests do not.                 *)
(***************************************************************************)
EXTENDS InvoiceService

CONSTANT MaxStops       \* bound: how many times the process is stopped

ASSUME StopAssumption == MaxStops \in Nat

VARIABLE stops          \* stops and crashes so far

vars == <<repoVars, viettelVars, mode, poolVars, serviceVars, stops>>

Init ==
  /\ RepoInit /\ ViettelInit /\ PoolInit /\ ServiceInit
  /\ mode = "up"
  /\ stops = 0

-----------------------------------------------------------------------------
\* SIGINT or SIGTERM: server.Shutdown refuses new requests.
Signal ==
  /\ mode = "up"
  /\ stops < MaxStops
  /\ mode' = "stopping"
  /\ stops' = stops + 1
  /\ UNCHANGED <<repoVars, viettelVars, poolVars, serviceVars>>

\* The requests have ended; Pool.Shutdown cancels the pool's context.
CancelPool ==
  /\ mode = "stopping"
  /\ \A c \in Clients : client[c].pc = "idle"
  /\ mode' = "draining"
  /\ inflight' = {w \in Workers : worker[w].pc # "idle"}
  /\ UNCHANGED <<repoVars, viettelVars, queue, worker, batch, serviceVars, stops>>

\* What the end of the process leaves behind.
Gone ==
  /\ mode' = "down"
  /\ queue' = <<>>
  /\ worker' = [w \in Workers |-> Idle]
  /\ batch' = <<>>
  /\ inflight' = {}
  /\ client' = [c \in Clients |-> Answered("none")]
  /\ UNCHANGED <<repoVars, viettelVars, submits>>

\* wg.Wait has returned: every worker and the poller are out.
Stopped ==
  /\ mode = "draining"
  /\ \A w \in Workers : worker[w].pc = "idle"
  /\ batch = <<>>
  /\ Gone
  /\ UNCHANGED stops

\* server.Shutdown timed out on a request: log.Fatal exits on the spot.
ForcedExit ==
  /\ mode = "stopping"
  /\ \E c \in Clients : client[c].pc # "idle"
  /\ Gone
  /\ UNCHANGED stops

Crash ==
  /\ mode # "down"
  /\ stops < MaxStops
  /\ Gone
  /\ stops' = stops + 1

\* NewPool and Start: an empty queue, idle workers.
Restart ==
  /\ mode = "down"
  /\ mode' = "up"
  /\ UNCHANGED <<repoVars, viettelVars, poolVars, serviceVars, stops>>

-----------------------------------------------------------------------------
WorkerNext(w) == WorkerStep(w) /\ UNCHANGED <<serviceVars, stops>>

PollerNext == PollerStep /\ UNCHANGED <<serviceVars, stops>>

ClientNext(c) == Request(c) /\ UNCHANGED stops

ViettelNext(i) ==
  AssignNumber(i) /\ UNCHANGED <<repoVars, mode, poolVars, serviceVars, stops>>

ProcessNext == Signal \/ CancelPool \/ Stopped \/ ForcedExit \/ Crash \/ Restart

Next == \/ \E w \in Workers : WorkerNext(w)
        \/ PollerNext
        \/ \E c \in Clients : ClientNext(c)
        \/ \E i \in Invoices : ViettelNext(i)
        \/ ProcessNext

Spec == Init /\ [][Next]_vars

(* Fairness.  The goroutines run: a worker with a job or a job to take, a  *)
(* poller whose ticker fires, a request being served, main() once it was   *)
(* told to stop.  A stopped process is started again.  A status query      *)
(* cannot fail for ever.  Nothing is assumed of the outcome of a create    *)
(* request.                                                                *)
RequestContinues(c) == client[c].pc # "idle" /\ ClientNext(c)

Answers(i) == \E w \in Workers :
  worker[w].inv = i /\ QueryAnswered(w) /\ UNCHANGED <<serviceVars, stops>>

Fairness ==
  /\ \A w \in Workers : WF_vars(WorkerNext(w))
  /\ WF_vars(PollerNext)
  /\ \A c \in Clients : WF_vars(RequestContinues(c))
  /\ \A i \in Invoices : SF_vars(Answers(i))
  /\ WF_vars(CancelPool) /\ WF_vars(Stopped) /\ WF_vars(Restart)

FairSpec == Spec /\ Fairness

\* Moreover Viettel gives every accepted request its number.
IssuingSpec == FairSpec /\ \A i \in Invoices : WF_vars(ViettelNext(i))

-----------------------------------------------------------------------------
\* Types of every variable; the queue never exceeds its capacity.
WorkerState == [pc : PublishCall \cup PollCall \cup {"idle"},
                inv : Invoices \cup {NoInvoice}, copy : Copy]

ClientState == [pc : {"idle", "pay", "submit", "record", "enqueue"},
                inv : Invoices \cup {NoInvoice}, from : Status \cup {"none"},
                hash : Hashes \cup {NoHash}, reply : Reply]

TypeOK ==
  /\ row \in [Invoices -> Row]
  /\ newer \in [Invoices -> SUBSET Invoices]
  /\ history \in [Invoices -> SUBSET (Status \X Status)]
  /\ faults \in Nat
  /\ viettel \in [Invoices -> [Uuids -> ViettelState]]
  /\ cut \subseteq Invoices
  /\ mode \in {"up", "stopping", "draining", "down"}
  /\ queue \in Seq(Job) /\ Len(queue) <= QueueSize
  /\ worker \in [Workers -> WorkerState]
  /\ \A w \in Workers : worker[w].pc # "idle" => worker[w].inv \in Invoices
  /\ batch \in Seq(Job) /\ Len(batch) <= QueueSize
  /\ inflight \subseteq Workers
  /\ client \in [Clients -> ClientState]
  /\ \A c \in Clients :
       /\ client[c].pc # "idle" => client[c].inv \in Invoices
       /\ client[c].pc \in {"submit", "record"} => client[c].from \in Status
  /\ submits \in [Invoices -> Nat]
  /\ stops \in Nat

-----------------------------------------------------------------------------
(* Safety, for any number of workers and clients, failing database calls,  *)
(* crashes and restarts.                                                   *)

\* Viettel has issued i under the uuid stored with it.
Issued(i) == row[i].uuid \in IssuedUuids(i)

\* An invoice shown as completed has really been issued by Viettel: no
\* interleaving of publish jobs, poll jobs and requests makes it up.
CompletedWasIssued ==
  \A i \in Invoices : row[i].status = "completed" => Issued(i)

\* So has an invoice whose external_id is set, whatever its status: the PDF
\* the API then offers exists.
ExternalIdGenuine ==
  \A i \in Invoices : row[i].ext => Issued(i)

\* Viettel is never sent the same invoice under two transaction_uuids, so it
\* never issues two legal invoices for one, however often answers are lost,
\* jobs are queued twice or the process is restarted.
IssuedOnce ==
  \A i \in Invoices : \A u, v \in Known(i) : u = v

\* The invoices some job refers to: queued, about to be, or being handled.
Handled == {queue[k].inv : k \in 1..Len(queue)}
             \cup {batch[k].inv : k \in 1..Len(batch)}
             \cup {worker[w].inv : w \in {v \in Workers : worker[v].pc # "idle"}}

\* A draft stays inside the service until it is submitted: no job is about
\* it and Viettel has never heard of it.
DraftNeverSent ==
  \A i \in Invoices :
    row[i].status \in {"none", "draft"} => Known(i) = {} /\ i \notin Handled

\* i has been submitted at least once.
Left(i) == row[i].status \notin {"none", "draft"}

\* The history tells no step that was not taken: an invoice recorded as
\* submitted has left draft, and one recorded as completed was issued,
\* whatever has been written to its row since.
HistoryGenuine ==
  \A i \in Invoices : \A from \in Status :
    /\ <<from, "submitted">> \in history[i] => Left(i)
    /\ <<from, "completed">> \in history[i] => Issued(i)

(* The invariant that carries these from step to step.                     *)

\* The calls a handler makes only once it has been given an invoice number.
Confirming == {"saveNumber", "complete", "record", "pollConfirm", "pollComplete"}

\* The first uuid is minted with the row, and no other is ever used.
RowsSafe ==
  \A i \in Invoices :
    /\ row[i].ext \/ row[i].status = "completed" => Issued(i)
    /\ Known(i) # {} => Left(i)
    /\ Known(i) \subseteq {1}
    /\ Exists(i) /\ Readable(i) => row[i].uuid = 1

\* What a worker holds may be older than the row, but is never ahead of Viettel.
WorkerSafe(w) ==
  worker[w].pc # "idle" =>
    /\ Left(worker[w].inv)
    /\ worker[w].pc \in UsesCopy => worker[w].copy.uuid = 1 /\ Readable(worker[w].inv)
    /\ worker[w].copy.ext \/ worker[w].pc \in Confirming => Issued(worker[w].inv)

WorkersSafe == \A w \in Workers : WorkerSafe(w)

QueueSafe == \A k \in 1..Len(queue) : Left(queue[k].inv)

BatchSafe == \A k \in 1..Len(batch) : Left(batch[k].inv)

ClientsSafe ==
  \A c \in Clients :
    /\ client[c].pc = "submit" => Exists(client[c].inv)
    /\ client[c].pc \in {"record", "enqueue"} => Left(client[c].inv)

\* Whatever the program holds about an invoice agrees with what Viettel and
\* the table hold: jobs, copies and requests only refer to submitted
\* invoices, a copy keeps the uuid of its row, and a copied number is a
\* number Viettel has issued under it.
IssuanceInv ==
  /\ RowsSafe
  /\ WorkersSafe
  /\ QueueSafe
  /\ BatchSafe
  /\ ClientsSafe
  /\ HistoryGenuine

\* The service implements the contract: its steps are steps of
\* IssuanceContract, or change nothing the contract speaks of.
Contract == INSTANCE IssuanceContract WITH
  status   <- [i \in Invoices |-> row[i].status],
  recorded <- {i \in Invoices : row[i].ext},
  issued   <- {i \in Invoices : IssuedUuids(i) # {}}

ImplementsContract == Contract!Spec

-----------------------------------------------------------------------------
(* Safety that rests on a single worker or a single client at a time.      *)

\* A completed invoice carries the number Viettel gave it, as long as no
\* database call has failed: handlePoll ignores the error of its Update.
CompletedHasExternalId ==
  faults = 0 => \A i \in Invoices : row[i].status = "completed" => row[i].ext

\* A stored invoice number is never erased by a later write.
ExternalIdStable ==
  [][\A i \in Invoices : row[i].ext => row'[i].ext]_vars

\* retry_count never goes back.
RetryCountMonotone ==
  [][\A i \in Invoices : row'[i].retry >= row[i].retry]_vars

\* The hash of an invoice that has left draft is never changed, neither by
\* a late payment request nor by a worker writing back an older copy.
HashFrozen ==
  [][\A i \in Invoices :
       row[i].status \notin {"none", "draft"} => row'[i].hash = row[i].hash]_vars

\* A completed invoice stays completed, when it was submitted once: jobs
\* queued twice and polls that come late do not reopen it.
CompletedIsTerminal ==
  [][\A i \in Invoices :
       row[i].status = "completed" /\ submits[i] = 1
         => row'[i].status = "completed"]_vars

\* One submission is attempted at most MaxRetries times; each further
\* submission, which does not reset retry_count, is attempted once more.
\* (A database call that fails may leave the failed invoice in processing.)
RetryBudget ==
  faults = 0 => \A i \in Invoices :
    row[i].retry > MaxRetries => row[i].retry < MaxRetries + submits[i]

-----------------------------------------------------------------------------
(* Liveness. *)

Settled(i) == row[i].status \in {"completed", "failed"}

\* A submitted invoice is eventually completed or failed.
SubmittedSettles ==
  \A i \in Invoices : Pending(i) ~> Settled(i)

\* What Viettel has issued is eventually shown, however long the others
\* take: a page of the poller cannot starve it.
IssuedIsRecorded ==
  \A i \in Invoices : (Pending(i) /\ Issued(i)) ~> Settled(i)

-----------------------------------------------------------------------------
(* What the repository's documents and comments say, and the code does not *)
(* ensure.                                                                 *)

\* An invoice in processing is polled until it leaves processing.
ProcessingEnds ==
  \A i \in Invoices :
    row[i].status = "processing" ~> row[i].status # "processing"

\* What Viettel has issued is shown, also when the table holds rows that
\* were stored before the columns of today.
NumberArrives ==
  \A i \in Invoices \ OldRows : (Pending(i) /\ Issued(i)) ~> Settled(i)

\* Every request Viettel has taken held all the lines of its invoice.
LinesAllSent == cut = {}
=============================================================================
