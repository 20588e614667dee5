# A TLA+ model of tax-module

`tax-module` takes invoices over HTTP, keeps them in PostgreSQL, and has a pool
of workers publish them to Viettel SInvoice, the service that issues the legal
invoice. This directory holds a TLA+ model of the parts of the program in which
several goroutines, a database and a remote service meet, the TLC
configurations that check it on small instances, and proofs, checked by TLAPS,
of what holds for every number of workers, clients, invoices and failures.

## The system

| Component | Source | State | Operations | Hard behaviour |
|---|---|---|---|---|
| Invoice lifecycle | `internal/domain/invoice.go` | status, declared transitions | `CanTransitionTo` | only the submit endpoint consults it |
| Invoice repository | `internal/repository/postgres/invoice_repo.go` | `invoices`, `invoice_items`, `invoice_status_history` | `CreateWithItems`, `GetByID`, `GetItemsByInvoiceID`, `List`, `Update`, `UpdateStatus`, `UpdateTransactionHash`, `GetPendingPolling`, `AddStatusHistory` | every statement commits on its own; `Update` writes back a row read earlier; `UpdateStatus` has no condition; a result cut by a broken connection looks complete; NULLs of old rows cannot be scanned |
| Worker pool | `internal/worker/pool.go` | bounded channel, goroutines, context | `Enqueue`, `handlePublish`, `handlePublishError`, `handlePoll`, `pollPendingInvoices`, `Shutdown` | duplicate jobs for one invoice, errors ignored half-way, cancellation, a full queue |
| Invoice service | `internal/service/invoice_service.go` | none of its own | create, pay, submit, list, reads, PDF, report to authority | check and write are separate statements |
| Process | `cmd/server/main.go` | goroutines | start, signal, shutdown | crash, forced exit, what survives a restart |
| Publisher | `internal/integration/viettel_publisher.go` | none | `CreateInvoice`, `QueryStatus`, report, PDF | asynchronous answers, lost answers |
| Request mapping and validation | `internal/integration/mapper.go`, `validate.go` | none | `MapInvoiceToViettel`, `mapItems`, `buildTaxBreakdowns`, `ValidateViettelRequest` | limits repeated in three layers, rounded lines against rounded totals |
| Viettel DTOs and error codes | `internal/integration/viettel_dto.go` | none | `ParseViettelError`, `IsRetryable` | which errors are final |
| Viettel client | `internal/integration/viettel_client.go`, `access_token_repo.go`, `access_token.go` | the row in `access_tokens`, a mutex | `getToken`, `login`, retry after a 401 | concurrent logins, tokens that age or are revoked |
| Viettel SInvoice | external | an invoice per `transaction_uuid` | create, number, search | idempotent, answers late or never |
| HTTP handlers and DTOs | `internal/handler` | none | binding, answers | an accepted body that can never be published |
| Schema migrations | `internal/repository/postgres/migrations` | the columns | `ALTER TABLE` by hand | columns that stay NULL in older rows |
| Configuration | `internal/config/config.go` | constants | `Load`, `validate` | template, series and seller are not validated |
| Logging, database pool, domain errors | the remaining files | none that changes | | |

An HTTP request runs in its own goroutine and calls the service; `SubmitInvoice`
writes the row, then puts a publish job in the pool's channel. A worker takes a
job, loads the row, and makes a sequence of database and Viettel calls, working
on the copy it loaded. Once per `PollInterval` the poller reads the least
recently updated pending rows and queues a publish job for a `submitted` one
and a poll job for a `processing` one, whether or not a job for it exists
already. Only the table, `access_tokens` and Viettel outlive the process.

What makes each part correct:

* **issuing**: nothing is shown as issued that Viettel has not issued; a draft
  never leaves the service; a submitted invoice is eventually settled;
* **rows**: a late write loses neither the number, the retry count nor the
  transaction hash; a completed invoice stays completed;
* **pool**: the queue stays bounded, a dropped job is found again, a pending row
  cannot hide the others from the poller, attempts stay within the budget;
* **token**: one login per expiry, the newest token is the stored one, a refused
  token is not sent again, nobody waits for the mutex for ever;
* **requests**: a body that is bound can be stored and published, its lines reach
  Viettel in their order, with breakdowns and totals that agree as far as those of
  the body do, the same at each attempt;
* **list**: a client that pages through the list misses no invoice.

## Modules

| Module | Models | Extends |
|---|---|---|
| `Domain` | statuses, declared transitions, uuids | |
| `InvoiceRepo` | the table, one operator per UPDATE statement, the poller's page, old rows | `Domain` |
| `SInvoice` | Viettel, external: what it holds under each `transaction_uuid` | `Domain` |
| `Publisher` | the uuid of a request, what the publisher makes of Viettel's answers, the error codes | `SInvoice` |
| `WorkerPool` | queue, workers, poller | `InvoiceRepo`, `Publisher` |
| `InvoiceService` | requests in progress | `WorkerPool` |
| `TaxModule` | process start, stop and crash, `Next`, fairness, the properties | `InvoiceService` |
| `IssuanceContract` | the abstract specification `TaxModule` implements | `Domain` |
| `TaxModuleProofs` | type correctness, the inductive invariant, its consequences | `TaxModule` |
| `ContractProofs` | the refinement of `IssuanceContract` | `TaxModuleProofs` |
| `CopyProofs` | what copies written back do to the rows: with one worker, and with payments that overlap no submission | `TaxModuleProofs` |
| `RetryProofs` | what a submission may cost and undo, with one worker | `CopyProofs` |
| `ViettelClient` | the access token and its mutex | |
| `TokenCache` | the abstract specification `ViettelClient` implements | |
| `ViettelClientProofs` | mutual exclusion, the order of tokens, the count of logins, the refinement of `TokenCache` | `ViettelClient` |
| `Requests` | one body from the binding to the request Viettel is sent | |
| `FoldProofs` | lemmas on folds: that they exist, and how sums over sets relate | |
| `RequestProofs` | why an accepted body gets stuck, the order of the lines, the totals | `Requests`, `FoldProofs` |
| `Listing` | a client walking the list while invoices are created and submitted | |
| `ListingProofs` | such a walk misses nothing | `Listing` |
| `MCTaxModule`, `MCViettelClient`, `MCRequests`, `MCListing` | symmetry sets, bodies and limits for TLC | |

Three modules stand beside `TaxModule` and are not composed with it, because
what the rest sees of them is a single outcome. Of `ViettelClient` the pool sees
a call that is answered or fails: `CreateAccepted` and `CreateErred` may each
happen whenever it makes one. Of `Requests` it sees whether an invoice passes
the local validation (`Malformed`) and whether its lines arrived whole. The
client of `Listing` only reads.

### How state and steps correspond to the code

* `row[i]` keeps the columns that decide anything: `status`, whether
  `external_id` is set (`ext`; Viettel gives one number per uuid, so which
  number it is does not matter), `transaction_uuid`, `transaction_hash` and
  `retry_count`. `updated_at` is only used to order the poller's page and is
  represented by `newer[i]`, the rows written after `i`. The code takes the time
  just before the statement and the model takes it at the statement.
* The uuids of an invoice are numbered: 1 is the one `CreateInvoice` mints, the
  others are those `MapInvoiceToViettel` would mint for a row without one
  (`RequestUuids`). `viettel[i][u]` is what Viettel holds under the `u`-th of
  `i`. `cut` are the invoices Viettel took from a request whose lines had been
  read only in part.
* `OldRows` were stored before migration 10: scanning their NULL columns is an
  error, for `GetByID` and for every page of the poller that holds one.
* `history[i]` is the set of transitions recorded for `i`.
* A goroutine's program counter names **the call it makes next**, so every
  database call and every exchange with Viettel is a step of its own and any
  other goroutine may run in between. `worker[w].copy` is the `*domain.Invoice`
  the handler loaded; it is forgotten once no later call uses it.
* A call may fail, and a write that fails may still have been applied
  (`CallOutcome`). After the pool's context is cancelled every call of a
  worker fails; one that had already begun may still take effect (`inflight`).
* `CreateAccepted`, `CreateRejected` and `CreateErred` are the outcomes of
  `publisher.CreateInvoice`: answered with the number or without one, an error
  that is final, any other error. Which errors are final is `IsRetryable` over
  the HTTP status and the code in the body. An error also covers a request
  Viettel has taken and whose answer was lost, and a request the local
  validation refused (`Malformed`), which never leaves.
* `PollTick` reads the page and `PollEnqueue` is one turn of the loop over it.
* A request is one step per database call; one that is refused after its first
  read changes nothing and is not represented.
* `CanTransitionTo` allows a submission from `draft` and from `failed`;
  `cancelled` is declared and never written by the program.
* `Crash` covers `log.Fatal`, a panic in a goroutine and a kill; `ForcedExit`
  is the `log.Fatal` after `server.Shutdown` has timed out.

In `ViettelClient` tokens are numbered in the order of their logins. `aged` are
those `IsExpiredWithBuffer(tokenBufferTime)` is true of, `revoked` those Viettel
answers with 401; the two are independent, so a token may be revoked early and
a goroutine may be delayed between `getToken` and the request for any time. A
caller between `Lock` and `Unlock` is at one of the `Holding` calls; `bad` is the
token its first attempt was refused with.

In `Requests` a text is its length and a number the digits before its point once
it is rounded to its column. The amounts that are added up, those of the lines
and the three totals, are integers in tenths of the last digit `NUMERIC(18,2)`
keeps, so that rounding is visible; `MaxAmount` and `MaxLineNumber` are what their
columns hold. The totals are fields of the body like any other: nothing compares
them with the lines, and the model does not either. A body varies one text or
number at a time, since the checks are conjunctions over the fields and none
relates two of them. `formed` stands for the tags that the API and Viettel share
word for word (`currency`, `selection`, `item_type`, `adjust_ratio`, the signs of
discounts), `nul` for a text with U+0000, which JSON can write and PostgreSQL does
not store. `config` holds the length of each setting Viettel's limits apply to;
`config.validate` looks at none of them. A behaviour is one body: bodies share
nothing but the settings. Each attempt is `GetItems` followed by `Publish`; the
order of lines the `ORDER BY` leaves open is any order.

In `Listing` the table is the sequence the `ORDER BY created_at DESC` gives. A row
may be inserted behind rows begun later, since `created_at` is taken before the
commit. `Count` and `Page` are the two statements of `List`.

Definitions introduced by a comment "Mutated form" are deliberate bugs, used to
see each property fail; no specification uses them.

## What TLC checks

| Run | Instance | Shows |
|---|---|---|
| `races` | 1 invoice, 2 workers, 1 client, queue 1, 1 hash, 1 database failure, no stop | `TypeOK`, `CompletedWasIssued`, `ExternalIdGenuine`, `IssuedOnce`, `DraftNeverSent`, `HistoryGenuine`, `IssuanceInv`, `HashFrozen`, `ImplementsContract` |
| `one_worker` | 1 invoice, 1 worker, 2 clients, queue 2, 2 retries, 2 submissions, 1 database failure, 1 stop | `CompletedHasExternalId`, `IssuedOnce`, `RetryBudget`, `ExternalIdStable`, `RetryCountMonotone`, `CompletedIsTerminal` |
| `settles` | 1 invoice, 2 workers, 1 client, no failure | `SubmittedSettles` under `IssuingSpec` |
| `recovery` | 2 invoices, one of them malformed, 1 worker, page and queue of 1, 1 stop | `IssuedIsRecorded` under `FairSpec` |
| `token` | 3 callers, 2 logins answered, 1 database failure | `TokenTypeOK`, `LoginsJustified`, `RetriedWithNewToken`, `NewestStored`, `ImplementsTokenCache`, `RequestsEnd` |
| `requests` | every field at and beyond each of its limits, nine lists of lines, totals that disagree, amounts at the edge of their column, every setting at and beyond its limit | `RequestTypeOK`, `AcceptedIsIssuable`, `LinesInOrder`, `TotalsAgree`, `ResentUnchanged` |
| `listing` | 4 invoices, limits 0 to 3, largest page 2 | `ListingTypeOK`, `WalkMissesNothing`, `TotalIsReached`, `WalkInv` |

Runs that are expected to find a counterexample, each to one sentence of the
repository:

| Run | Sentence | What happens |
|---|---|---|
| `lost_number` | completed means "`external_id` populated" (`docs/API.md:37`) | two jobs overlap; a poll answered "processing" writes its older row back over the number |
| `stuck_processing` | a processing invoice is polled "until `invoiceNo` is returned" (`docs/API.md:47`) | the process stops between `UpdateStatus(processing)` and the request; only poll jobs follow, and Viettel never heard of it |
| `late_hash` | "transaction hash can only be updated on draft invoices" (`invoice_service.go:66`) | a submission between the check and the write of a payment |
| `old_rows` | a processing invoice is polled "until `invoiceNo` is returned" (`docs/API.md:47`) | one processing row from before the migrations makes every page of the poller an error; an invoice Viettel has numbered is never settled |
| `short_invoice` | the items are read "with all line items" (`docs/API.md:342`) | the loop over the lines ends at a broken connection as at their end; Viettel takes an invoice without its last lines |

`lost_number` checks a property `one_worker` shows to hold with one worker, and
`late_hash` one that `races` shows with one client: they delimit what the
correctness of the program rests on. `CopyProofs` and `RetryProofs` prove the
other half.

Other differences between the code and its documents, seen while modelling and
too plain to need a run:

* a full queue is logged and answered 200, not 503 `QUEUE_FULL`
  (`docs/API.md:410`, `invoice_service.go:103`);
* a completion by the poller writes no history row (`docs/API.md:440`);
* an error of the local validation is not a `*ViettelError` and is retried
  (`pool.go:216` says validation errors should fail immediately);
* with two overlapping jobs the slower one takes a failed invoice back to
  submitted, beyond "maximum attempts" (`docs/API.md:687`): the cause is that of
  `lost_number`, and `RetryBudget` fails in the same instance;
* `external_id` is set for a while before the status says `completed`
  (`docs/API.md:47` and the table above it);
* `buyer_name` may be 400 long for the API, 255 for the column, 100 for Viettel
  (`docs/API.md:211`): `AcceptedIsIssuable` states what follows;
* `meta.limit` of the list is the limit asked for, not the clamped one
  (`invoice_handler.go:189`), so a client that asks for more than 100 takes the
  first page for the last;
* `invoiceIssuedDate` is the time of the attempt (`mapper.go:23`): two attempts
  under one uuid differ in it.

### Bounds

* One invoice is enough for the races, which are all between jobs and requests
  for the same invoice; two are needed for the poller's order and for a queue
  filled by another invoice. Invoices interact only through the queue, the page
  and `updated_at`.
* Two workers are enough for one to overtake the other; a second client for one
  request to run between the two statements of another.
* `QueueSize` 1 makes the queue full with a single job, 2 allows a duplicate.
* `MaxDBFaults` bounds failing database calls and results cut by a broken
  connection, `MaxStops` stops and crashes, `MaxSubmits` submissions that pass
  their check, `MaxUuids` the uuids of an invoice (3: the stored one and two
  that would be minted), `MaxTokens` answered logins, `MaxTokenFaults` failing
  calls on `access_tokens`. Failures of Viettel, 401s and failed logins are not
  bounded. The proofs hold for every value.
* `MCRequestSet` has every field empty, at each limit of each layer and one
  beyond; lists of lines in order, out of order, without numbers, sharing a
  percentage, negative, with fractions of a hundredth, and refused ones; totals
  that do and do not agree with the lines; and each kind of amount and the line
  number at what its column holds and around it. Three lines are the fewest of
  which two share a group and one does not. `MaxAmount` is 9990 and `MaxLineNumber`
  9 in place of 18 and 10 digits: only where the border lies matters, and TLC's
  integers have 32 bits. `MCConfigs` varies one setting at a time, with a seller
  and without.
* In `listing` pages of one and two rows over four invoices give walks of several
  pages with rows inserted before, within and after the current one;
  the limits 0 and 3 are those the service clamps.
* Safety runs use the symmetry of workers, of clients and of listed rows;
  liveness runs use none.
* `races` has two workers and no stop, `one_worker` and `recovery` one worker and a
  stop; for stops with several workers the invariants of `races` rest on the
  proofs.
* `SPECIFICATION` differs between runs only by fairness. Every run checks for
  deadlock but `requests`, where a body that is refused or not stored is done with.

### Fairness

`FairSpec` assumes what the Go scheduler and the operator give: a goroutine that
has a call to make makes it (`WorkerNext`, `RequestContinues`), the ticker fires
(`PollerNext`), `main` goes on once it was told to stop (`CancelPool`,
`Stopped`), and a stopped process is started again (`Restart`). No client is
obliged to start a request, and no signal, crash or forced exit to happen.
`Answers` is strongly fair: Viettel, asked about an invoice again and again,
answers some time. Nothing is assumed of the outcome of a create request, which
may be refused or lost every time. `IssuingSpec` adds that Viettel numbers what it
has accepted, which only `settles`, `stuck_processing` and `old_rows` need. In
`ViettelClient` a request in progress goes on, and waiting for the mutex is
strongly fair because `sync.Mutex` hands over to a goroutine that starves.

### Properties worth a remark

* `IssuedIsRecorded` rests on `handlePoll` writing `updated_at` although nothing
  has changed: otherwise the invoice polled in vain is the first of every page.
* `CompletedHasExternalId` is stated while no database call has failed, because
  `handlePoll` ignores the error of `Update` and completes the invoice all the
  same. `RetryBudget` likewise: the write of `failed` may fail.
* `retry_count` is not reset by a new submission, so an invoice that has used
  up its attempts gets exactly one more each time it is submitted again;
  `RetryBudget` says so.
* `CompletedIsTerminal` is limited to invoices submitted once: two submissions
  of a failed invoice may overlap, and `SubmitInvoice` writes `submitted` over
  whatever the status has become.
* `Settled` includes `failed`, and a failed invoice may have been issued: the
  answer to the last attempt may be lost. No document promises otherwise, so no
  property does.
* `IssuedOnce` is what the stored uuid is for. It holds because no path loses
  the uuid: `CreateInvoice` mints it before the first write, every copy keeps
  it, and an old row, which has none, cannot be read and so is never published.
* `HistoryGenuine` is about rows that are there. Most transitions write none.
* `AcceptedIsIssuable` lists every way in which the three layers of limits and the
  settings disagree, while the database answers. Each entry of the list is reached
  in the run. A template or a series left blank, as both are by default, is one:
  the program starts, accepts invoices and fails every publish.
* `TotalsAgree` speaks of bodies in whole hundredths. With fractions the
  breakdowns, sums of rounded lines, and the totals, rounded on their own, drift
  apart. It does not say that the totals are the sums of the lines: the service
  takes both from the body and sends what it was given.
* `WalkMissesNothing` speaks of walks without a status filter. With one, an
  invoice that is submitted during the walk moves the later drafts up a page,
  and the client does skip some. The client of the model stops at a short page;
  one that stops by `meta.total` may stop too early, which is why
  `TotalIsReached` bounds the total from one side only.

## What TLAPS proves

For any sets of invoices, workers, clients and hashes and any values of the
bounds, under the named assumptions of the modules (`DomainAssumption`,
`RepoAssumption`, `PoolAssumption`, `ServiceAssumption`, `StopAssumption`,
`ClientAssumption`, `RequestAssumption`, `ConfigAssumption`, `ListingAssumption`: the "none" values
are not members of the sets they complete, `QueueSize`, `MaxUuids` and the page
sizes are positive numbers, the other bounds are numbers, the bodies and the
settings are of their type):

* `TypeCorrect`: `Spec => []TypeOK`, with the capacity of the queue and of the
  page; `IssuanceIsSafe`: `Spec => []IssuanceInv`;
* `CompletedIsIssued`, `ExternalIdIsGenuine`, `IssuedUnderOneUuid`,
  `DraftIsNeverSent`, `HistoryIsGenuine`: the safety properties of `races`;
* `Implementation`: `Spec => ImplementsContract`;
* `HashIsFrozen`: `Spec /\ []PaymentsInTime => HashFrozen`, for any number of
  clients and workers;
* `NumberIsKept`, `RetriesOnlyGrow`, `CompletedIsNumbered`, `CompletedStays` and,
  for `MaxRetries` above 0, `RetriesAreBounded` with one worker: the properties of
  `one_worker`;
* `TokenTypeCorrect`, `NewestIsStored`, `RetryTokenIsNew`, `LoginsAreOwed`: the
  mutex, the order of tokens, and one login per expiry;
  `ClientImplementsCache`: `TokenSpec => ImplementsTokenCache`;
* `RequestTypeCorrect`, `AcceptedCauses`, `LinesReachInOrder`,
  `BreakdownsAddUp`, `ResendsAreEqual`: for any set of bodies, with any number of
  lines, percentages, amounts and totals, and any settings;
* `ListingTypeCorrect`, `NothingIsMissed`, `TotalIsNotAhead`, `WalkKeepsUp`: for
  any number of invoices and any page size.

**The inductive invariant.** `CompletedWasIssued` is not inductive: a worker
about to write `completed` would break it in a state in which Viettel has issued
nothing. `IssuanceInv` adds what every holder of a pending write knows: a worker
whose copy has a number, or that is at one of the `Confirming` calls, handles an
issued invoice, and its copy has the uuid of the row (`WorkersSafe`); jobs in the
queue and in the page, and requests past their first write, concern invoices
that are no drafts (`QueueSafe`, `BatchSafe`, `ClientsSafe`); what Viettel knows
has been submitted and is known under the uuid of the row only (`RowsSafe`), from
which `IssuedOnce` follows. Old copies are harmless because these facts only
grow: an invoice that has left draft never returns to it, its uuid does not
change, and a number issued is never taken back. The proof calls this
`Progress`; each step is first shown to make progress and to keep `RowsSafe`,
and the other conjuncts then survive wherever the state they speak of is
unchanged.

**Copies and late payments.** `UpdateTransactionHash` checks for draft and then
writes by id. `PaymentsInTime` says that no submission falls in between; it is
the hypothesis of `HashIsFrozen`, nothing the code ensures, and `late_hash` shows
what happens without it. In `races`, where one client makes one request after the
other, it holds. Under it a copy of an invoice that has left draft has the hash of its
row (`HashInv`), however many workers hold one, so that neither a copy written
back nor a stop between two calls changes a hash: the overlap is the only cause.

`OneWorker` is the hypothesis of the other theorems of `CopyProofs`, not an
assumption of a module: it is `WORKER_POOL_SIZE` 1.
With one worker a copy is never behind its row (`CopyInv`),
so writing it back loses nothing; `NumberInv` adds that the worker about to
write `completed` has stored the number, unless a database call has failed.
Every action of a worker is first reduced to its effect on the row and on the
copy (`WorkerEffect`), and the three invariants are shown to survive the effects.

**Attempts.** `RetryProofs` counts them. A request that has passed the check of a
submission and not yet written `submitted` may reopen a completed invoice, so
`SubmitInv` bounds those requests by the submissions counted: none is left once
an invoice submitted once has left draft. `OpenInv` says that a row under
publication is not completed and that the copy counts at most one attempt more
than the row, while that is still to be saved. From these two `CompletedStays`.
`BudgetInv` charges an invoice with its `retry_count`, one for a `submitted` row,
one for an attempt under way, one for a processing row a worker may still put
back to `submitted`, and one for each submission about to be written; the charge
never exceeds `MaxRetries` and one more for each submission after the first. The
calls of the worker fall into seven kinds by what they do to the charge
(`Aside`, `Resumes`, `Begins`, `Within`, `Ends`, `Counts`, `Decides`), and each
kind is treated once. `MaxRetries` must be above 0: `config.validate` accepts 0,
the first attempt is made all the same, and the count then exceeds the bound
by that one.

**The refinement** maps a contract's `status` to the column, `recorded` to the
invoices with an `external_id` and `issued` to what Viettel has numbered. Each
step of the service changes one of the three for one invoice or nothing; the
guards of the contract's actions follow from `IssuanceInv`. The contract says
what the service promises whatever happens; that a completed invoice stays so is
not part of it, since the code does not ensure it.

**The token** needs `SavesNewest`: whoever is about to store a token holds the
last one issued, because only the holder of the mutex logs in. Without it an
older token could be stored over a newer one. `LoginsJustified` counts: each
login is owed to the first one, to an expiry, to a refusal or to a failing call,
and `LoginBudget` states what the holder of the mutex may still spend.

`TokenCache` knows neither mutex nor program counters: a request is handed the
cached token or the newest one, is sent at most twice, the second time only with
a token issued after its first was refused, and a new token is in use before
Viettel is asked for another. The refinement maps its `owner` to the holder of
the mutex that has a token to store, and what a request was sent with to `bad`
followed by the token in use; the waits for the mutex are stutters. Its guards
follow from the mutex (`NoOwner`), `SavesNewest`, `BadTokenSafe` (a request
retried only logs in and sends) and `BadRefused` (what it was refused with).

**The list.** `WalkMissesNothing` speaks of the end of a walk; `PagesRead` carries
it: a row that was there at the start and lies within the pages already read has
been received. An insertion only moves rows to later positions, so the rows
within those pages were within them before. The page is the range of positions
from `offset + 1` on, by a lemma on the rank of a position.

**The lines.** `ReadInv` keeps what was read and what was made of it: `lines` is
one of the `Reads` of the stored lines, and `wire` is the image of such a read.
A permutation under which strictly increasing numbers do not decrease is the
identity (`OrderIsUnique`), so a whole read of numbered lines returns them as
they are stored; `LinesReachInOrder` and `ResendsAreEqual` follow.

**The totals.** The folds of the community modules are recursive functions under
a `CHOOSE`, so what they compute is known only once the function is shown to
exist. The library's induction principles take an operator and cannot be
instantiated here; `FoldProofs` proves two that take a set instead (`NatInd`, by a
counting argument, and `SubsetInd`), from them that folds exist (`FoldExists`),
and then that a sum does not depend on the order of its elements (`AnyOrder`),
is that of a matched set (`SumMatched`), and is made up of the sums of groups
(`SumGroups`). `GroupSums` shows by induction on the number of lines that
`buildTaxBreakdowns` computes the sums at each percentage; the lines read are
matched with those of the request, and an amount in whole hundredths is what its
column holds (`ColumnExact`). The sum over the breakdowns is then the sum over the
lines (`TotalOfGroups`), and the totals are sent as they came (`TotalsSent`).

**Model-checked only**: the liveness properties `SubmittedSettles`,
`IssuedIsRecorded` and `RequestsEnd`, which rest on fairness and `ENABLED`. Every
other property of the passing runs is a theorem.

## Not modelled

* **Contents**: fields that are copied from the body to Viettel unchanged and
  never checked, percentages finer than a whole number, the metadata column, the audit log, the contents of tokens and
  of Viettel's answers, the issue date of an attempt.
* **Reads** (one invoice, its history, the PDF) and **report to authority**: they
  change no state of the program. The PDF is served as soon as `external_id`
  is set, before the status says `completed` (`invoice_service.go:150`); that it
  then exists is `ExternalIdGenuine`.
* **List filters** by date, and two invoices with equal `created_at`, whose order
  the database may change between pages.
* **Unused code**: `Create`, the item updates and deletes and the lookups by
  external id and uuid have no caller.
* **Database failures in `Requests`** other than a cut read: a failing write or
  read ends the request or the attempt, as in `TaxModule`.
* **Handlers' routing and answers, loading the configuration, logging, the
  database pool, domain errors**: decoding, formatting, tables and I/O done once.
* **Migrations** are run by hand before the program starts; what they leave
  behind is `OldRows` and the widths of the columns.
* **Two processes** on one database: the program is started once.

## Possible extensions

Two processes on one database, should the service be deployed that way: the mutex
of the token then no longer excludes, and `NewestStored` is at stake.
