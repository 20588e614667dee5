----------------------------- MODULE WorkerPool ------------------------------
(***************************************************************************)
(* The worker pool (internal/worker/pool.go): PoolSize goroutines taking   *)
(* jobs from a bounded channel, and the poller goroutine that refills it   *)
(* from the invoices table.  Each database or Viettel call is one step, so *)
(* that other goroutines and the API interleave between the calls of a     *)
(* handler; the handler keeps the row it loaded first (its copy) until it  *)
(* returns.                                                                *)
(***************************************************************************)
EXTENDS InvoiceRepo, Publisher

CONSTANTS Workers,      \* the worker goroutines
          NoInvoice,    \* what an idle worker holds
          QueueSize,    \* capacity of the channel, and of the poller's page
          MaxRetries,   \* WORKER_MAX_RETRIES
          Malformed     \* invoices whose request fails the local validation

ASSUME PoolAssumption ==
  /\ NoInvoice \notin Invoices
  /\ QueueSize \in Nat \ {0}
  /\ MaxRetries \in Nat
  /\ Malformed \subseteq Invoices

VARIABLES
  mode,       \* "up", "stopping" (http.Server.Shutdown), "draining" (the
              \* pool's context is cancelled) or "down" (no process)
  queue,      \* the channel of jobs
  worker,     \* worker[w]: the handler's next call, its invoice, its copy
  batch,      \* the jobs the poller has still to enqueue in this cycle
  inflight    \* workers whose current call began before the cancellation

poolVars == <<queue, worker, batch, inflight>>

JobType == {"publish", "poll"}
Job == [type : JobType, inv : Invoices]

\* The call a busy worker makes next.
PublishCall == {"load", "toProcessing", "items", "failItems", "create",
                "createCut", "saveNumber", "complete", "record", "reject",
                "saveRetry", "requeue"}
CreateCall == {"create", "createCut"}
PollCall == {"pollLoad", "query", "pollSave", "pollConfirm", "pollComplete"}

Idle == [pc |-> "idle", inv |-> NoInvoice, copy |-> NoCopy]

PoolInit ==
  /\ queue = <<>>
  /\ worker = [w \in Workers |-> Idle]
  /\ batch = <<>>
  /\ inflight = {}

-----------------------------------------------------------------------------
(* Calls and their outcomes. *)

\* A call of worker w succeeds (ok) or returns an error; a write that
\* returns an error may still have been applied.  Once the pool's context is
\* cancelled every call fails, and only one that had begun before can have
\* had its effect.
CallOutcome(w, ok, applied) ==
  /\ IF mode = "draining"
       THEN ~ok /\ (applied => w \in inflight) /\ UNCHANGED faults
       ELSE /\ ok => applied
            /\ ok \/ faults < MaxDBFaults
            /\ faults' = IF ok THEN faults ELSE faults + 1
  /\ inflight' = inflight \ {w}

\* The calls that come before the last use of the copy.
UsesCopy == {"toProcessing", "items", "create", "createCut", "saveNumber",
             "saveRetry", "requeue", "query", "pollSave", "pollConfirm"}

\* Worker w's handler returns, or goes on to the call pc with this copy.
Return(w) == worker' = [worker EXCEPT ![w] = Idle]

Continue(w, pc, copy) ==
  worker' = [worker EXCEPT ![w] = [pc |-> pc, inv |-> worker[w].inv, copy |-> copy]]

\* Either of them; a copy the rest of the handler does not use is forgotten.
Goto(w, pc) ==
  IF pc = "idle" THEN Return(w)
  ELSE Continue(w, pc, IF pc \in UsesCopy THEN worker[w].copy ELSE NoCopy)

\* Worker w sets the status of its invoice, then goes to onOk or onError.
SetStatus(w, s, onOk, onError) ==
  LET i == worker[w].inv IN
  \E ok, applied \in BOOLEAN :
    /\ CallOutcome(w, ok, applied)
    /\ Write(i, WithStatus(row[i], s), applied)
    /\ Goto(w, IF ok THEN onOk ELSE onError)
    /\ UNCHANGED <<history, viettelVars, mode, queue, batch>>

\* Worker w writes its copy over the row of its invoice.
SaveCopy(w, onOk, onError) ==
  LET i == worker[w].inv IN
  \E ok, applied \in BOOLEAN :
    /\ CallOutcome(w, ok, applied)
    /\ Write(i, Overwritten(row[i], worker[w].copy), applied)
    /\ Goto(w, IF ok THEN onOk ELSE onError)
    /\ UNCHANGED <<history, viettelVars, mode, queue, batch>>

\* What a handler changes in its copy: the invoice number, the uuid it was
\* sent with, the retry count.
WithNumber(copy) == [copy EXCEPT !.ext = TRUE]
WithUuid(copy, u) == [copy EXCEPT !.uuid = u]
WithRetry(copy) == [copy EXCEPT !.retry = @ + 1]

-----------------------------------------------------------------------------
(* The queue. *)

\* Enqueue: never blocks, refuses the job when the channel is full.
HasRoom == Len(queue) < QueueSize

\* Mutated form: the channel is taken to be unbounded.
EnqueueUnbounded(job) == queue' = Append(queue, job)

Enqueue(job) == queue' = IF HasRoom THEN Append(queue, job) ELSE queue

FirstCall(type) == IF type = "publish" THEN "load" ELSE "pollLoad"

\* The select of worker(): a cancelled pool may still take a job.
Dequeue(w) ==
  /\ mode # "down"
  /\ worker[w].pc = "idle"
  /\ queue # <<>>
  /\ worker' = [worker EXCEPT ![w] = [pc   |-> FirstCall(Head(queue).type),
                                      inv  |-> Head(queue).inv,
                                      copy |-> NoCopy]]
  /\ queue' = Tail(queue)
  /\ UNCHANGED <<repoVars, viettelVars, mode, batch, inflight>>

-----------------------------------------------------------------------------
(* handlePublish *)

\* Mutated form: the status is not looked at.
PublishableAlways(r) == r.status # "none"

\* Submitted, or processing and still without an external_id.
Publishable(r) ==
  r.status = "submitted" \/ (r.status = "processing" /\ ~r.ext)

\* GetByID: the copy is taken here; a row that cannot be scanned and the
\* other statuses end the job.
Load(w) ==
  LET i == worker[w].inv
      r == row[i] IN
  /\ worker[w].pc = "load"
  /\ \E ok \in BOOLEAN :
       /\ CallOutcome(w, ok, ok)
       /\ IF ok /\ Readable(i) /\ Publishable(r)
            THEN Continue(w, IF r.status = "submitted" THEN "toProcessing" ELSE "items",
                          CopyOf(r))
            ELSE Return(w)
  /\ UNCHANGED <<row, newer, history, viettelVars, mode, queue, batch>>

ToProcessing(w) ==
  /\ worker[w].pc = "toProcessing"
  /\ SetStatus(w, "processing", "items", "idle")

\* GetItemsByInvoiceID ends the same way when the lines are exhausted and
\* when the connection breaks between two of them: rows.Err() is not asked.
AfterItems(ok) == IF ok THEN {"create"} ELSE {"failItems", "createCut"}

LoadItems(w) ==
  /\ worker[w].pc = "items"
  /\ \E ok \in BOOLEAN :
       /\ CallOutcome(w, ok, ok)
       /\ \E pc \in AfterItems(ok) : Goto(w, pc)
  /\ UNCHANGED <<row, newer, history, viettelVars, mode, queue, batch>>

FailItems(w) ==
  /\ worker[w].pc = "failItems"
  /\ SetStatus(w, "failed", "idle", "idle")

\* The publisher's request for worker w's invoice, under uuid u, is taken.
Sent(w, u, v) == Take(worker[w].inv, u, v, worker[w].pc = "create")

\* Mutated form: the number answered is not put in the copy.
CreateForgetsNumber(w) ==
  LET i == worker[w].inv
      copy == worker[w].copy IN
  /\ worker[w].pc \in CreateCall
  /\ mode # "draining"
  /\ i \notin Malformed
  /\ \E u \in RequestUuids(i, copy.uuid) : \E v \in AcceptedAs(i, u) :
       /\ Sent(w, u, v)
       /\ IF ReturnsNumber(v) THEN Continue(w, "saveNumber", WithUuid(copy, u))
                              ELSE Return(w)
  /\ UNCHANGED <<repoVars, mode, queue, batch, inflight>>

\* Mutated form: an asynchronous answer is taken for a number.
CreateTrustsAsync(w) ==
  LET i == worker[w].inv
      copy == worker[w].copy IN
  /\ worker[w].pc \in CreateCall
  /\ mode # "draining"
  /\ i \notin Malformed
  /\ \E u \in RequestUuids(i, copy.uuid) : \E v \in AcceptedAs(i, u) :
       /\ Sent(w, u, v)
       /\ Continue(w, "saveNumber", WithNumber(WithUuid(copy, u)))
  /\ UNCHANGED <<repoVars, mode, queue, batch, inflight>>

\* publisher.CreateInvoice reached Viettel and was answered: with the number
\* (put in the copy), or asynchronously, which leaves the row as it is.
CreateAccepted(w) ==
  LET i == worker[w].inv
      copy == worker[w].copy IN
  /\ worker[w].pc \in CreateCall
  /\ mode # "draining"
  /\ i \notin Malformed
  /\ \E u \in RequestUuids(i, copy.uuid) : \E v \in AcceptedAs(i, u) :
       /\ Sent(w, u, v)
       /\ IF ReturnsNumber(v)
            THEN Continue(w, "saveNumber", WithNumber(WithUuid(copy, u)))
            ELSE Return(w)
  /\ UNCHANGED <<repoVars, mode, queue, batch, inflight>>

\* An error answer that handlePublishError does not retry.
CreateRejected(w) ==
  /\ worker[w].pc \in CreateCall
  /\ mode # "draining"
  /\ worker[w].inv \notin Malformed
  /\ \E answer \in ErrorAnswer : ~IsRetryable(answer)
  /\ Goto(w, "reject")
  /\ UNCHANGED <<repoVars, viettelVars, mode, queue, batch, inflight>>

\* Any other error.  The request was refused, was not taken, or was taken
\* and the answer lost.
RequestErred(w, u) ==
  /\ \/ UNCHANGED viettelVars
     \/ /\ mode = "draining" => w \in inflight
        /\ \E v \in AcceptedAs(worker[w].inv, u) : Sent(w, u, v)
  /\ Continue(w, "saveRetry", WithRetry(WithUuid(worker[w].copy, u)))

\* validateRequest refused it before the uuid was put in the invoice.
RequestRefused(w) ==
  /\ Continue(w, "saveRetry", WithRetry(worker[w].copy))
  /\ UNCHANGED viettelVars

CreateErred(w) ==
  LET i == worker[w].inv IN
  /\ worker[w].pc \in CreateCall
  /\ IF i \in Malformed
       THEN RequestRefused(w)
       ELSE \E u \in RequestUuids(i, worker[w].copy.uuid) : RequestErred(w, u)
  /\ inflight' = inflight \ {w}
  /\ UNCHANGED <<repoVars, mode, queue, batch>>

SaveNumber(w) ==
  /\ worker[w].pc = "saveNumber"
  /\ SaveCopy(w, "complete", "idle")

Complete(w) ==
  /\ worker[w].pc = "complete"
  /\ SetStatus(w, "completed", "record", "idle")

\* AddStatusHistory, its error ignored.
Record(w) ==
  /\ worker[w].pc = "record"
  /\ \E ok, applied \in BOOLEAN :
       /\ CallOutcome(w, ok, applied)
       /\ AddHistory(worker[w].inv, "processing", "completed", applied)
  /\ Goto(w, "idle")
  /\ UNCHANGED <<row, newer, viettelVars, mode, queue, batch>>

(* handlePublishError *)

Reject(w) ==
  /\ worker[w].pc = "reject"
  /\ SetStatus(w, "failed", "idle", "idle")

SaveRetry(w) ==
  /\ worker[w].pc = "saveRetry"
  /\ SaveCopy(w, "requeue", "requeue")

\* Mutated form: one attempt too many.
StatusAfterErrorLate(copy) ==
  IF copy.retry > MaxRetries THEN "failed" ELSE "submitted"

StatusAfterError(copy) == IF copy.retry >= MaxRetries THEN "failed" ELSE "submitted"

Requeue(w) ==
  /\ worker[w].pc = "requeue"
  /\ SetStatus(w, StatusAfterError(worker[w].copy), "idle", "idle")

-----------------------------------------------------------------------------
(* handlePoll: whatever the status of the row it loads, if it has a uuid. *)

PollLoad(w) ==
  LET i == worker[w].inv
      copy == CopyOf(row[i]) IN
  /\ worker[w].pc = "pollLoad"
  /\ \E ok \in BOOLEAN :
       /\ CallOutcome(w, ok, ok)
       /\ IF ok /\ Readable(i) /\ copy.uuid # NoUuid
            THEN Continue(w, "query", copy)
            ELSE Return(w)
  /\ UNCHANGED <<row, newer, history, viettelVars, mode, queue, batch>>

\* QueryStatus answers "completed" with the number, or something else.
QueryAnswered(w) ==
  /\ worker[w].pc = "query"
  /\ mode # "draining"
  /\ IF QueryStatus(worker[w].inv, worker[w].copy.uuid) = "completed"
       THEN Continue(w, "pollConfirm", WithNumber(worker[w].copy))
       ELSE Continue(w, "pollSave", worker[w].copy)
  /\ UNCHANGED <<repoVars, viettelVars, mode, queue, batch, inflight>>

QueryErred(w) ==
  /\ worker[w].pc = "query"
  /\ Goto(w, "idle")
  /\ inflight' = inflight \ {w}
  /\ UNCHANGED <<repoVars, viettelVars, mode, queue, batch>>

\* Mutated form: updated_at is written only when the number has arrived.
PollSaveUntouched(w) ==
  /\ worker[w].pc = "pollSave"
  /\ Goto(w, "idle")
  /\ UNCHANGED <<repoVars, viettelVars, mode, queue, batch, inflight>>

\* Not issued yet: the copy (new metadata, new updated_at) is written back.
PollSave(w) ==
  /\ worker[w].pc = "pollSave"
  /\ SaveCopy(w, "idle", "idle")

\* Issued: the copy with the number is written, its error ignored.
PollConfirm(w) ==
  /\ worker[w].pc = "pollConfirm"
  /\ SaveCopy(w, "pollComplete", "pollComplete")

PollComplete(w) ==
  /\ worker[w].pc = "pollComplete"
  /\ SetStatus(w, "completed", "idle", "idle")

-----------------------------------------------------------------------------
(* The poller. *)

PollJob(i) ==
  [type |-> IF row[i].status = "processing" THEN "poll" ELSE "publish",
   inv |-> i]

\* pollPendingInvoices: the m rows read of one page of n pending rows, all of
\* them unless the connection breaks (rows.Err() is not asked); the cycle
\* ends there when one cannot be scanned.
PollTick ==
  /\ mode \in {"up", "stopping"}
  /\ batch = <<>>
  /\ \E n \in 0..QueueSize : \E page \in [1..n -> Invoices] : \E m \in 0..n :
       /\ IsPendingPage(page, QueueSize)
       /\ m = n \/ faults < MaxDBFaults
       /\ faults' = IF m = n THEN faults ELSE faults + 1
       /\ batch' = IF PageIsRead(page, m) THEN [k \in 1..m |-> PollJob(page[k])] ELSE <<>>
  /\ UNCHANGED <<row, newer, history, viettelVars, mode, queue, worker, inflight>>

\* One turn of its loop; a full queue ends the cycle.
PollEnqueue ==
  /\ mode # "down"
  /\ batch # <<>>
  /\ Enqueue(Head(batch))
  /\ batch' = IF HasRoom THEN Tail(batch) ELSE <<>>
  /\ UNCHANGED <<repoVars, viettelVars, mode, worker, inflight>>

-----------------------------------------------------------------------------
Publish(w) == \/ Load(w) \/ ToProcessing(w) \/ LoadItems(w) \/ FailItems(w)
              \/ CreateAccepted(w) \/ CreateRejected(w) \/ CreateErred(w)
              \/ SaveNumber(w) \/ Complete(w) \/ Record(w)
              \/ Reject(w) \/ SaveRetry(w) \/ Requeue(w)

Poll(w) == \/ PollLoad(w) \/ QueryAnswered(w) \/ QueryErred(w)
           \/ PollSave(w) \/ PollConfirm(w) \/ PollComplete(w)

WorkerStep(w) == Dequeue(w) \/ Publish(w) \/ Poll(w)

PollerStep == PollTick \/ PollEnqueue
=============================================================================
