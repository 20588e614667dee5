--------------------------- MODULE TaxModuleProofs ---------------------------
(***************************************************************************)
(* Proofs about TaxModule, for any number of invoices, workers, clients,   *)
(* failed calls, stops and crashes.                                        *)
(***************************************************************************)
EXTENDS TaxModule, TLAPS

USE DEF viettelVars

PC == PublishCall \cup PollCall \cup {"idle"}

\* There is a uuid for the row to be stored with.
LEMMA OneUuid == 1 \in Uuids /\ NoUuid \notin Uuids
<1>1. \A n \in Nat \ {0} : 1 \in 1..n
  OBVIOUS
<1> QED BY <1>1, DomainAssumption DEF Uuids, NoUuid

(* Lemmas about the operators that build rows, copies and worker states.   *)

\* The copy taken of a row is a copy.
LEMMA CopyOfType == ASSUME NEW r \in Row PROVE CopyOf(r) \in Copy
BY DEF Row, Copy, CopyOf

\* The absent row and the absent copy have their types.
LEMMA NoRowType == NoRow \in Row /\ NoCopy \in Copy
BY DEF Row, Copy, CopyOf, NoRow, NoCopy

\* UpdateStatus keeps a row a row.
LEMMA WithStatusType ==
  ASSUME NEW r \in Row, NEW s \in Status PROVE WithStatus(r, s) \in Row
BY DEF Row, WithStatus

\* Update keeps a row a row.
LEMMA OverwrittenType ==
  ASSUME NEW r \in Row, NEW c \in Copy PROVE Overwritten(r, c) \in Row
BY DEF Row, Copy, Overwritten

\* UpdateTransactionHash keeps a row a row.
LEMMA WithHashType ==
  ASSUME NEW r \in Row, NEW h \in Hashes PROVE WithHash(r, h) \in Row
BY DEF Row, WithHash

\* An idle worker is a worker state.
LEMMA IdleType == Idle \in WorkerState
BY NoRowType DEF Idle, WorkerState

\* An answered client is a client state.
LEMMA AnsweredType == ASSUME NEW reply \in Reply PROVE Answered(reply) \in ClientState
BY DEF Answered, ClientState

WorkersOK ==
  /\ worker \in [Workers -> WorkerState]
  /\ \A w \in Workers : worker[w].pc # "idle" => worker[w].inv \in Invoices

\* A handler that returns keeps the workers typed.
LEMMA ReturnType ==
  ASSUME WorkersOK, NEW w \in Workers, Return(w) PROVE WorkersOK'
BY IdleType DEF WorkersOK, Return, Idle

\* So does a handler that goes on to its next call.
LEMMA ContinueType ==
  ASSUME WorkersOK, NEW w \in Workers, worker[w].inv \in Invoices,
         NEW pc \in PC, NEW copy \in Copy, Continue(w, pc, copy)
  PROVE  WorkersOK'
BY DEF WorkersOK, Continue, WorkerState, PC

\* So does either of them.
LEMMA GotoType ==
  ASSUME WorkersOK, NEW w \in Workers, worker[w].inv \in Invoices,
         NEW pc \in PC, Goto(w, pc)
  PROVE  WorkersOK'
<1>1. worker[w].copy \in Copy /\ NoCopy \in Copy
  BY NoRowType DEF WorkersOK, WorkerState
<1>2. Return(w) \/ Continue(w, pc, worker[w].copy) \/ Continue(w, pc, NoCopy)
  BY DEF Goto
<1> QED BY <1>1, <1>2, ReturnType, ContinueType

\* What a handler puts in its copy leaves it a copy.
LEMMA HandlerCopyType ==
  ASSUME NEW copy \in Copy
  PROVE  /\ WithNumber(copy) \in Copy /\ WithRetry(copy) \in Copy
         /\ \A u \in Uuids : WithUuid(copy, u) \in Copy
<1>1. WithNumber(copy) \in Copy
  BY DEF Copy, WithNumber
<1>2. WithRetry(copy) \in Copy
  <2> DEFINE n == copy.retry + 1
  <2>1. n \in Nat
    BY DEF Copy
  <2>2. WithRetry(copy) = [copy EXCEPT !.retry = n]
    BY DEF WithRetry
  <2> HIDE DEF n
  <2> QED BY <2>1, <2>2 DEF Copy
<1>3. \A u \in Uuids : WithUuid(copy, u) \in Copy
  BY DEF Copy, WithUuid
<1> QED BY <1>1, <1>2, <1>3

\* A request is sent under a uuid.
LEMMA RequestUuidType ==
  ASSUME NEW i \in Invoices, NEW copy \in Copy PROVE RequestUuids(i, copy.uuid) \subseteq Uuids
BY DEF Copy, RequestUuids, FreshUuids

\* Taking a request keeps what Viettel holds typed.
LEMMA TakeType ==
  ASSUME viettel \in [Invoices -> [Uuids -> ViettelState]], cut \subseteq Invoices,
         NEW i \in Invoices, NEW u \in Uuids, NEW v, NEW whole, Take(i, u, v, whole)
  PROVE  viettel' \in [Invoices -> [Uuids -> ViettelState]] /\ cut' \subseteq Invoices
BY DEF Take, AcceptedAs, ViettelState

\* A statement keeps the table typed.
LEMMA WriteType ==
  ASSUME row \in [Invoices -> Row], newer \in [Invoices -> SUBSET Invoices],
         NEW i \in Invoices, NEW r \in Row, NEW applied \in BOOLEAN,
         Write(i, r, applied)
  PROVE  row' \in [Invoices -> Row] /\ newer' \in [Invoices -> SUBSET Invoices]
BY DEF Write, Touched

\* The outcome of a worker's call keeps the fault count typed.
LEMMA OutcomeType ==
  ASSUME faults \in Nat, inflight \subseteq Workers, NEW w \in Workers,
         NEW ok \in BOOLEAN, NEW applied \in BOOLEAN, CallOutcome(w, ok, applied)
  PROVE  faults' \in Nat /\ inflight' \subseteq Workers
BY DEF CallOutcome

-----------------------------------------------------------------------------
(* Type correctness, one lemma per kind of step.                           *)

\* Type correctness of a status change by a worker.
LEMMA SetStatusType ==
  ASSUME TypeOK, NEW w \in Workers, worker[w].pc # "idle",
         NEW s \in Status, NEW onOk \in PC, NEW onError \in PC,
         SetStatus(w, s, onOk, onError), UNCHANGED <<serviceVars, stops>>
  PROVE  TypeOK'
<1> DEFINE i == worker[w].inv
<1>1. i \in Invoices /\ row[i] \in Row
  BY DEF TypeOK
<1>2. PICK ok \in BOOLEAN, applied \in BOOLEAN :
        /\ CallOutcome(w, ok, applied)
        /\ Write(i, WithStatus(row[i], s), applied)
        /\ Goto(w, IF ok THEN onOk ELSE onError)
  BY DEF SetStatus
<1>3. row' \in [Invoices -> Row] /\ newer' \in [Invoices -> SUBSET Invoices]
  BY <1>1, <1>2, WithStatusType, WriteType DEF TypeOK
<1>4. faults' \in Nat /\ inflight' \subseteq Workers
  BY <1>2, OutcomeType DEF TypeOK
<1>5. WorkersOK'
  BY <1>1, <1>2, GotoType DEF TypeOK, WorkersOK
<1> QED
  BY <1>3, <1>4, <1>5 DEF TypeOK, WorkersOK, SetStatus, serviceVars

\* Type correctness of a row written back by a worker.
LEMMA SaveCopyType ==
  ASSUME TypeOK, NEW w \in Workers, worker[w].pc # "idle",
         NEW onOk \in PC, NEW onError \in PC,
         SaveCopy(w, onOk, onError), UNCHANGED <<serviceVars, stops>>
  PROVE  TypeOK'
<1> DEFINE i == worker[w].inv
<1>1. i \in Invoices /\ row[i] \in Row /\ worker[w].copy \in Copy
  BY DEF TypeOK, WorkerState
<1>2. PICK ok \in BOOLEAN, applied \in BOOLEAN :
        /\ CallOutcome(w, ok, applied)
        /\ Write(i, Overwritten(row[i], worker[w].copy), applied)
        /\ Goto(w, IF ok THEN onOk ELSE onError)
  BY DEF SaveCopy
<1>3. row' \in [Invoices -> Row] /\ newer' \in [Invoices -> SUBSET Invoices]
  BY <1>1, <1>2, OverwrittenType, WriteType DEF TypeOK
<1>4. faults' \in Nat /\ inflight' \subseteq Workers
  BY <1>2, OutcomeType DEF TypeOK
<1>5. WorkersOK'
  BY <1>1, <1>2, GotoType DEF TypeOK, WorkersOK
<1> QED
  BY <1>3, <1>4, <1>5 DEF TypeOK, WorkersOK, SaveCopy, serviceVars

\* The queue stays within its capacity.
LEMMA EnqueueType ==
  ASSUME queue \in Seq(Job), Len(queue) <= QueueSize, NEW job \in Job, Enqueue(job)
  PROVE  queue' \in Seq(Job) /\ Len(queue') <= QueueSize
BY PoolAssumption DEF Enqueue, HasRoom

\* Type correctness of taking a job.
LEMMA DequeueType ==
  ASSUME TypeOK, NEW w \in Workers, Dequeue(w), UNCHANGED <<serviceVars, stops>>
  PROVE  TypeOK'
<1>1. Head(queue) \in Job /\ Tail(queue) \in Seq(Job) /\ Len(Tail(queue)) <= QueueSize
  BY PoolAssumption DEF TypeOK, Dequeue
<1>2. [pc |-> FirstCall(Head(queue).type), inv |-> Head(queue).inv,
       copy |-> NoCopy] \in WorkerState
  BY <1>1, NoRowType DEF WorkerState, FirstCall, Job, PublishCall, PollCall
<1>3. WorkersOK'
  BY <1>1, <1>2 DEF TypeOK, Dequeue, WorkersOK, Job
<1> QED
  BY <1>1, <1>3 DEF TypeOK, Dequeue, WorkersOK, serviceVars, repoVars

\* Type correctness of the first call of handlePublish.
LEMMA LoadType ==
  ASSUME TypeOK, NEW w \in Workers, Load(w), UNCHANGED <<serviceVars, stops>>
  PROVE  TypeOK'
<1> DEFINE r == row[worker[w].inv]
<1>1. worker[w].inv \in Invoices /\ CopyOf(r) \in Copy
  BY CopyOfType DEF TypeOK, Load
<1>2. PICK ok \in BOOLEAN :
        /\ CallOutcome(w, ok, ok)
        /\ \/ Continue(w, "toProcessing", CopyOf(r))
           \/ Continue(w, "items", CopyOf(r))
           \/ Return(w)
  BY DEF Load
<1>3. WorkersOK'
  BY <1>1, <1>2, ContinueType, ReturnType DEF TypeOK, WorkersOK, PC, PublishCall
<1>4. faults' \in Nat /\ inflight' \subseteq Workers
  BY <1>2, OutcomeType DEF TypeOK
<1> QED
  BY <1>3, <1>4 DEF TypeOK, WorkersOK, Load, serviceVars

\* Type correctness of loading the items.
LEMMA LoadItemsType ==
  ASSUME TypeOK, NEW w \in Workers, LoadItems(w), UNCHANGED <<serviceVars, stops>>
  PROVE  TypeOK'
<1>1. PICK ok \in BOOLEAN, pc \in {"create", "createCut", "failItems"} :
        CallOutcome(w, ok, ok) /\ Goto(w, pc)
  BY DEF LoadItems, AfterItems
<1>2. WorkersOK'
  BY <1>1, GotoType DEF TypeOK, WorkersOK, LoadItems, PC, PublishCall
<1>3. faults' \in Nat /\ inflight' \subseteq Workers
  BY <1>1, OutcomeType DEF TypeOK
<1> QED
  BY <1>2, <1>3 DEF TypeOK, WorkersOK, LoadItems, serviceVars

\* A create request that was answered with an acceptance.
LEMMA AcceptedStep ==
  ASSUME TypeOK, NEW w \in Workers, CreateAccepted(w)
  PROVE  \E u \in Uuids : \E v \in AcceptedAs(worker[w].inv, u) :
           /\ u \in RequestUuids(worker[w].inv, worker[w].copy.uuid)
           /\ Sent(w, u, v)
           /\ \/ /\ v = "issued"
                 /\ Continue(w, "saveNumber", WithNumber(WithUuid(worker[w].copy, u)))
              \/ Return(w)
<1>1. worker[w].inv \in Invoices /\ worker[w].copy \in Copy
  BY DEF TypeOK, WorkerState, CreateAccepted, CreateCall
<1>2. RequestUuids(worker[w].inv, worker[w].copy.uuid) \subseteq Uuids
  BY <1>1, RequestUuidType
<1> QED BY <1>2 DEF CreateAccepted, ReturnsNumber

\* One that ended in an error: the copy keeps its uuid or is given the one
\* the request was sent with.
LEMMA ErredStep ==
  ASSUME TypeOK, NEW w \in Workers, CreateErred(w)
  PROVE  \E copy \in Copy :
           /\ copy.ext = worker[w].copy.ext
           /\ copy.uuid = worker[w].copy.uuid
                \/ copy.uuid \in RequestUuids(worker[w].inv, worker[w].copy.uuid)
           /\ Continue(w, "saveRetry", WithRetry(copy))
           /\ \/ UNCHANGED viettelVars
              \/ \E u \in Uuids : \E v \in AcceptedAs(worker[w].inv, u) :
                   /\ u \in RequestUuids(worker[w].inv, worker[w].copy.uuid)
                   /\ Sent(w, u, v)
<1>1. worker[w].inv \in Invoices /\ worker[w].copy \in Copy
  BY DEF TypeOK, WorkerState, CreateErred, CreateCall
<1>2. RequestUuids(worker[w].inv, worker[w].copy.uuid) \subseteq Uuids
  BY <1>1, RequestUuidType
<1>3. CASE worker[w].inv \in Malformed
  BY <1>1, <1>3 DEF CreateErred, RequestRefused
<1>4. CASE worker[w].inv \notin Malformed
  <2>1. PICK u \in RequestUuids(worker[w].inv, worker[w].copy.uuid) : RequestErred(w, u)
    BY <1>4 DEF CreateErred
  <2>2. /\ WithUuid(worker[w].copy, u) \in Copy
        /\ WithUuid(worker[w].copy, u).ext = worker[w].copy.ext
        /\ WithUuid(worker[w].copy, u).uuid = u
    BY <1>1, <1>2, HandlerCopyType DEF WithUuid, Copy
  <2> QED BY <1>2, <2>1, <2>2 DEF RequestErred
<1> QED BY <1>3, <1>4

\* Type correctness of the call to Viettel.
LEMMA CreateType ==
  ASSUME TypeOK, NEW w \in Workers,
         CreateAccepted(w) \/ CreateRejected(w) \/ CreateErred(w),
         UNCHANGED <<serviceVars, stops>>
  PROVE  TypeOK'
<1>1. /\ worker[w].inv \in Invoices /\ worker[w].copy \in Copy
  BY DEF TypeOK, WorkerState, CreateAccepted, CreateRejected, CreateErred, CreateCall
<1>2. /\ WorkersOK'
      /\ viettel' \in [Invoices -> [Uuids -> ViettelState]] /\ cut' \subseteq Invoices
  <2>1. CASE CreateAccepted(w)
    <3>1. PICK u \in Uuids : \E v \in AcceptedAs(worker[w].inv, u) :
            /\ Sent(w, u, v)
            /\ \/ Continue(w, "saveNumber", WithNumber(WithUuid(worker[w].copy, u)))
               \/ Return(w)
      BY <2>1, AcceptedStep
    <3>2. WithNumber(WithUuid(worker[w].copy, u)) \in Copy
      BY <1>1, HandlerCopyType
    <3>3. WorkersOK'
      BY <1>1, <3>1, <3>2, ContinueType, ReturnType DEF TypeOK, WorkersOK, PC, PublishCall
    <3> QED BY <1>1, <3>1, <3>3, TakeType DEF TypeOK, Sent
  <2>2. CASE CreateErred(w)
    <3>1. PICK copy \in Copy :
            /\ Continue(w, "saveRetry", WithRetry(copy))
            /\ \/ UNCHANGED viettelVars
               \/ \E u \in Uuids : \E v \in AcceptedAs(worker[w].inv, u) : Sent(w, u, v)
      BY <2>2, ErredStep
    <3>2. WorkersOK'
      BY <1>1, <3>1, HandlerCopyType, ContinueType DEF TypeOK, WorkersOK, PC, PublishCall
    <3> QED BY <1>1, <3>1, <3>2, TakeType DEF TypeOK, Sent
  <2>3. CASE CreateRejected(w)
    BY <1>1, <2>3, GotoType DEF TypeOK, WorkersOK, PC, PublishCall, CreateRejected
  <2> QED BY <2>1, <2>2, <2>3
<1>3. inflight' \subseteq Workers
  BY DEF TypeOK, CreateAccepted, CreateRejected, CreateErred
<1> QED
  BY <1>2, <1>3
  DEF TypeOK, WorkersOK, CreateAccepted, CreateRejected, CreateErred,
      serviceVars, repoVars

\* Type correctness of writing the history.
LEMMA RecordType ==
  ASSUME TypeOK, NEW w \in Workers, Record(w), UNCHANGED <<serviceVars, stops>>
  PROVE  TypeOK'
<1>1. PICK ok \in BOOLEAN, applied \in BOOLEAN :
        /\ CallOutcome(w, ok, applied)
        /\ AddHistory(worker[w].inv, "processing", "completed", applied)
  BY DEF Record
<1>2. history' \in [Invoices -> SUBSET (Status \X Status)]
  <2>1. worker[w].inv \in Invoices /\ history[worker[w].inv] \subseteq Status \X Status
    BY DEF TypeOK, Record
  <2>2. <<"processing", "completed">> \in Status \X Status
    BY DEF Status
  <2> QED BY <1>1, <2>1, <2>2 DEF TypeOK, AddHistory
<1>3. WorkersOK'
  BY GotoType DEF TypeOK, WorkersOK, Record, PC
<1>4. faults' \in Nat /\ inflight' \subseteq Workers
  BY <1>1, OutcomeType DEF TypeOK
<1> QED
  BY <1>2, <1>3, <1>4 DEF TypeOK, WorkersOK, Record, serviceVars

\* Type correctness of the first two calls of handlePoll.
LEMMA QueryType ==
  ASSUME TypeOK, NEW w \in Workers,
         PollLoad(w) \/ QueryAnswered(w) \/ QueryErred(w),
         UNCHANGED <<serviceVars, stops>>
  PROVE  TypeOK'
<1>1. /\ worker[w].inv \in Invoices /\ worker[w].copy \in Copy
      /\ CopyOf(row[worker[w].inv]) \in Copy /\ WithNumber(worker[w].copy) \in Copy
  BY CopyOfType, HandlerCopyType
  DEF TypeOK, WorkerState, PollLoad, QueryAnswered, QueryErred
<1>2. WorkersOK'
  <2>1. \/ Continue(w, "query", CopyOf(row[worker[w].inv]))
        \/ Continue(w, "pollConfirm", WithNumber(worker[w].copy))
        \/ Continue(w, "pollSave", worker[w].copy)
        \/ Goto(w, "idle")
    BY DEF PollLoad, QueryAnswered, QueryErred, Goto
  <2> QED
    BY <1>1, <2>1, ContinueType, GotoType DEF TypeOK, WorkersOK, PC, PollCall
<1>3. faults' \in Nat /\ inflight' \subseteq Workers
  BY OutcomeType DEF TypeOK, PollLoad, QueryAnswered, QueryErred, repoVars
<1> QED
  BY <1>2, <1>3
  DEF TypeOK, WorkersOK, PollLoad, QueryAnswered, QueryErred, serviceVars, repoVars

\* Type correctness of the poller.
LEMMA PollerType ==
  ASSUME TypeOK, PollerNext PROVE TypeOK'
<1>1. CASE PollTick
  <2>1. PICK n \in 0..QueueSize : \E m \in 0..n : \E page \in [1..n -> Invoices] :
          batch' = [k \in 1..m |-> PollJob(page[k])] \/ batch' = <<>>
    BY <1>1 DEF PollTick
  <2>2. PICK m \in 0..n : \E page \in [1..n -> Invoices] :
          batch' = [k \in 1..m |-> PollJob(page[k])] \/ batch' = <<>>
    BY <2>1
  <2>2a. PICK page \in [1..n -> Invoices] :
          batch' = [k \in 1..m |-> PollJob(page[k])] \/ batch' = <<>>
    BY <2>2
  <2>3. n \in Nat /\ m \in Nat /\ m <= QueueSize
    BY PoolAssumption
  <2>4. \A k \in 1..m : PollJob(page[k]) \in Job
    BY <2>3 DEF PollJob, Job, JobType
  <2>5. batch' \in Seq(Job) /\ Len(batch') <= m
    <3>1. CASE batch' = [k \in 1..m |-> PollJob(page[k])]
      BY <2>3, <2>4, <3>1
    <3>2. CASE batch' = <<>>
      BY <2>3, <3>2
    <3> QED BY <2>2a, <3>1, <3>2
  <2>6. batch' \in Seq(Job) /\ Len(batch') <= QueueSize
    <3>1. Len(batch') \in Nat
      BY <2>5
    <3> QED BY <2>3, <2>5, <3>1, PoolAssumption
  <2>7. faults' \in Nat
    BY <1>1 DEF TypeOK, PollTick
  <2> QED
    BY <1>1, <2>6, <2>7 DEF TypeOK, PollTick, PollerNext, serviceVars
<1>2. CASE PollEnqueue
  <2>1. Head(batch) \in Job /\ Tail(batch) \in Seq(Job) /\ Len(Tail(batch)) <= QueueSize
    BY <1>2, PoolAssumption DEF TypeOK, PollEnqueue
  <2>2. batch' \in Seq(Job) /\ Len(batch') <= QueueSize
    BY <1>2, <2>1, PoolAssumption DEF PollEnqueue
  <2>3. queue' \in Seq(Job) /\ Len(queue') <= QueueSize
    BY <1>2, <2>1, EnqueueType DEF TypeOK, PollEnqueue
  <2> QED
    BY <1>2, <2>2, <2>3 DEF TypeOK, PollEnqueue, PollerNext, serviceVars, repoVars
<1> QED BY <1>1, <1>2 DEF PollerNext, PollerStep

\* Type correctness of every step of a worker.
LEMMA WorkerType ==
  ASSUME TypeOK, NEW w \in Workers, WorkerNext(w) PROVE TypeOK'
<1> USE DEF PC, PublishCall, PollCall
<1>1. {"processing", "failed", "completed"} \subseteq Status
      /\ StatusAfterError(worker[w].copy) \in Status
  BY DEF Status, StatusAfterError
<1>2. CASE Dequeue(w)
  BY <1>2, DequeueType DEF WorkerNext
<1>3. CASE Load(w)
  BY <1>3, LoadType DEF WorkerNext
<1>4. CASE ToProcessing(w)
  BY <1>1, <1>4, SetStatusType DEF WorkerNext, ToProcessing
<1>5. CASE LoadItems(w)
  BY <1>5, LoadItemsType DEF WorkerNext
<1>6. CASE FailItems(w) \/ Reject(w)
  BY <1>1, <1>6, SetStatusType DEF WorkerNext, FailItems, Reject
<1>7. CASE CreateAccepted(w) \/ CreateRejected(w) \/ CreateErred(w)
  BY <1>7, CreateType DEF WorkerNext
<1>8. CASE SaveNumber(w) \/ SaveRetry(w) \/ PollSave(w) \/ PollConfirm(w)
  BY <1>8, SaveCopyType DEF WorkerNext, SaveNumber, SaveRetry, PollSave, PollConfirm
<1>9. CASE Complete(w) \/ PollComplete(w)
  BY <1>1, <1>9, SetStatusType DEF WorkerNext, Complete, PollComplete
<1>10. CASE Record(w)
  BY <1>10, RecordType DEF WorkerNext
<1>11. CASE Requeue(w)
  BY <1>1, <1>11, SetStatusType DEF WorkerNext, Requeue
<1>12. CASE PollLoad(w) \/ QueryAnswered(w) \/ QueryErred(w)
  BY <1>12, QueryType DEF WorkerNext
<1> QED
  BY <1>2, <1>3, <1>4, <1>5, <1>6, <1>7, <1>8, <1>9, <1>10, <1>11, <1>12
  DEF WorkerNext, WorkerStep, Publish, Poll

ClientsOK ==
  /\ client \in [Clients -> ClientState]
  /\ \A c \in Clients :
       /\ client[c].pc # "idle" => client[c].inv \in Invoices
       /\ client[c].pc \in {"submit", "record"} => client[c].from \in Status

\* The outcome of a request's call keeps the fault count typed.
LEMMA RequestOutcomeType ==
  ASSUME faults \in Nat, NEW ok \in BOOLEAN, NEW applied \in BOOLEAN,
         RequestOutcome(ok, applied)
  PROVE  faults' \in Nat
BY DEF RequestOutcome

\* Type correctness of every step of a client.
LEMMA ClientType ==
  ASSUME TypeOK, NEW c \in Clients, ClientNext(c) PROVE TypeOK'
<1> USE DEF poolVars, serviceVars
<1>0. \A reply \in Reply : Answered(reply) \in ClientState /\ Answered(reply).pc = "idle"
  BY AnsweredType DEF Answered
<1>1. CASE \E i \in Invoices : CreateInvoice(c, i)
  <2>1. \A h \in Hashes \cup {NoHash} : CreatedRow(1, h) \in Row
    BY NoRowType, OneUuid DEF Row, CreatedRow, Status
  <2> QED
    BY <1>1, <2>1, WriteType DEF TypeOK, ClientNext, CreateInvoice
<1>2. CASE \E i \in Invoices, h \in Hashes : PayRead(c, i, h)
  <2>1. PICK i \in Invoices, h \in Hashes : PayRead(c, i, h)
    BY <1>2
  <2>2. [Answered("none") EXCEPT !.pc = "pay", !.inv = i, !.hash = h] \in ClientState
    BY <1>0 DEF ClientState, Reply
  <2>3. ClientsOK'
    BY <2>1, <2>2 DEF TypeOK, ClientsOK, PayRead, Answered
  <2> QED BY <2>1, <2>3 DEF TypeOK, ClientsOK, ClientNext, PayRead, repoVars
<1>3. CASE PayWrite(c)
  <2> DEFINE i == client[c].inv
  <2>1. i \in Invoices /\ row[i] \in Row /\ client[c].hash \in Hashes \cup {NoHash}
    BY <1>3 DEF TypeOK, PayWrite, ClientState
  <2>2. WithHash(row[i], client[c].hash) \in Row
    BY <2>1 DEF Row, WithHash
  <2>3. /\ row' \in [Invoices -> Row] /\ newer' \in [Invoices -> SUBSET Invoices]
        /\ faults' \in Nat
    BY <1>3, <2>1, <2>2, WriteType, RequestOutcomeType DEF TypeOK, PayWrite
  <2>4. ClientsOK'
    BY <1>0, <1>3 DEF TypeOK, ClientsOK, PayWrite, Reply
  <2> QED BY <1>3, <2>3, <2>4 DEF TypeOK, ClientsOK, ClientNext, PayWrite
<1>4. CASE \E i \in Invoices : SubmitRead(c, i)
  <2>1. PICK i \in Invoices : SubmitRead(c, i)
    BY <1>4
  <2>2. row[i].status \in Status \cup {"none"}
    BY DEF TypeOK, Row
  <2>3. [Answered("none") EXCEPT !.pc = "submit", !.inv = i, !.from = row[i].status]
          \in ClientState
    BY <1>0, <2>2 DEF ClientState, Reply
  <2>4. ClientsOK'
    BY <2>1, <2>3 DEF TypeOK, ClientsOK, SubmitRead, Answered, CanTransitionTo
  <2>5. submits' \in [Invoices -> Nat]
    BY <2>1 DEF TypeOK, SubmitRead
  <2> QED BY <2>1, <2>4, <2>5 DEF TypeOK, ClientsOK, ClientNext, SubmitRead, repoVars
<1>5. CASE SubmitWrite(c)
  <2> DEFINE i == client[c].inv
  <2>1. i \in Invoices /\ row[i] \in Row /\ client[c] \in ClientState
    BY <1>5 DEF TypeOK, SubmitWrite
  <2>2. WithStatus(row[i], "submitted") \in Row
    BY <2>1, WithStatusType DEF Status
  <2>3. /\ row' \in [Invoices -> Row] /\ newer' \in [Invoices -> SUBSET Invoices]
        /\ faults' \in Nat
    BY <1>5, <2>1, <2>2, WriteType, RequestOutcomeType DEF TypeOK, SubmitWrite
  <2>4. [client[c] EXCEPT !.pc = "record"] \in ClientState
    BY <2>1 DEF ClientState
  <2>5. ClientsOK'
    <3>1. PICK s \in ClientState :
            /\ client' = [client EXCEPT ![c] = s]
            /\ s.pc # "idle" => s.inv \in Invoices /\ s.from \in Status
      BY <1>0, <1>5, <2>1, <2>4 DEF TypeOK, SubmitWrite, ClientState, Reply
    <3> QED BY <3>1 DEF TypeOK, ClientsOK
  <2> QED BY <1>5, <2>3, <2>5 DEF TypeOK, ClientsOK, ClientNext, SubmitWrite
<1>6. CASE SubmitRecord(c)
  <2>1. client[c].inv \in Invoices /\ client[c] \in ClientState
    BY <1>6 DEF TypeOK, SubmitRecord
  <2>2. PICK ok \in BOOLEAN, applied \in BOOLEAN :
          /\ RequestOutcome(ok, applied)
          /\ AddHistory(client[c].inv, client[c].from, "submitted", applied)
    BY <1>6 DEF SubmitRecord
  <2>3. client[c].from \in Status
    BY <1>6 DEF TypeOK, SubmitRecord
  <2>4. history' \in [Invoices -> SUBSET (Status \X Status)]
    <3>1. <<client[c].from, "submitted">> \in Status \X Status
      BY <2>3 DEF Status
    <3> QED BY <2>1, <2>2, <3>1 DEF TypeOK, AddHistory
  <2>5. faults' \in Nat
    BY <2>2, RequestOutcomeType DEF TypeOK
  <2>6. [client[c] EXCEPT !.pc = "enqueue"] \in ClientState
    BY <2>1 DEF ClientState
  <2>7. ClientsOK'
    BY <1>6, <2>1, <2>6 DEF TypeOK, ClientsOK, SubmitRecord, ClientState
  <2> QED BY <1>6, <2>4, <2>5, <2>7 DEF TypeOK, ClientsOK, ClientNext, SubmitRecord
<1>7. CASE SubmitEnqueue(c)
  <2>1. [type |-> "publish", inv |-> client[c].inv] \in Job
    BY <1>7 DEF TypeOK, SubmitEnqueue, Job, JobType
  <2>2. queue' \in Seq(Job) /\ Len(queue') <= QueueSize
    BY <1>7, <2>1, EnqueueType DEF TypeOK, SubmitEnqueue
  <2>3. ClientsOK'
    BY <1>0, <1>7 DEF TypeOK, ClientsOK, SubmitEnqueue, Reply
  <2> QED BY <1>7, <2>2, <2>3 DEF TypeOK, ClientsOK, ClientNext, SubmitEnqueue, repoVars
<1> QED
  BY <1>1, <1>2, <1>3, <1>4, <1>5, <1>6, <1>7 DEF ClientNext, Request

\* Type correctness of stopping and starting the process.
LEMMA ProcessType ==
  ASSUME TypeOK, ProcessNext PROVE TypeOK'
<1> USE DEF poolVars, serviceVars, repoVars
<1>1. CASE Signal
  BY <1>1 DEF TypeOK, Signal
<1>2. CASE CancelPool
  BY <1>2 DEF TypeOK, CancelPool
<1>3. CASE Restart
  BY <1>3 DEF TypeOK, Restart
<1>4. CASE Stopped \/ ForcedExit \/ Crash
  <2>1. Gone /\ stops' \in Nat
    BY <1>4 DEF TypeOK, Stopped, ForcedExit, Crash
  <2>2. worker' \in [Workers -> WorkerState] /\ \A w \in Workers : worker'[w].pc = "idle"
    BY <2>1, IdleType DEF Gone, Idle
  <2>3. client' \in [Clients -> ClientState] /\ \A c \in Clients : client'[c].pc = "idle"
    BY <2>1, AnsweredType DEF Gone, Answered, Reply
  <2> QED
    BY <2>1, <2>2, <2>3, PoolAssumption DEF TypeOK, Gone
<1> QED BY <1>1, <1>2, <1>3, <1>4 DEF ProcessNext

\* Type correctness of the numbering at Viettel.
LEMMA ViettelType ==
  ASSUME TypeOK, NEW i \in Invoices, ViettelNext(i) PROVE TypeOK'
<1>1. PICK u \in Uuids : viettel' = [viettel EXCEPT ![i][u] = "issued"]
  BY DEF ViettelNext, AssignNumber
<1>2. viettel' \in [Invoices -> [Uuids -> ViettelState]]
  BY <1>1 DEF TypeOK, ViettelState
<1> QED
  BY <1>2 DEF TypeOK, ViettelNext, AssignNumber, repoVars, poolVars, serviceVars

\* Type correctness of a stuttering step.
LEMMA StutterType ==
  ASSUME TypeOK, UNCHANGED vars PROVE TypeOK'
BY DEF TypeOK, vars, repoVars, poolVars, serviceVars

\* The initial state is well typed.
LEMMA InitType ==
  ASSUME Init PROVE TypeOK
<1>1. row \in [Invoices -> Row] /\ newer \in [Invoices -> SUBSET Invoices]
      /\ history \in [Invoices -> SUBSET (Status \X Status)] /\ faults \in Nat
  <2>1. OldRow \in Row
    BY NoRowType DEF OldRow, Row, Status
  <2>2. newer \in [Invoices -> SUBSET Invoices]
    BY RepoAssumption DEF Init, RepoInit
  <2> QED BY <2>1, <2>2, NoRowType DEF Init, RepoInit
<1>2. viettel \in [Invoices -> [Uuids -> ViettelState]] /\ cut \subseteq Invoices
  BY DEF Init, ViettelInit, ViettelState
<1>3. worker \in [Workers -> WorkerState] /\ \A w \in Workers : worker[w].pc = "idle"
  BY IdleType DEF Init, PoolInit, Idle
<1>4. client \in [Clients -> ClientState] /\ \A c \in Clients : client[c].pc = "idle"
  BY AnsweredType DEF Init, ServiceInit, Answered, Reply
<1> QED
  BY <1>1, <1>2, <1>3, <1>4, PoolAssumption
  DEF TypeOK, Init, PoolInit, ServiceInit

\* Every step keeps every variable typed.
LEMMA NextType ==
  ASSUME TypeOK, [Next]_vars PROVE TypeOK'
BY WorkerType, PollerType, ClientType, ViettelType, ProcessType, StutterType DEF Next

\* Every variable keeps its type, and the queue its capacity.
THEOREM TypeCorrect == Spec => []TypeOK
<1>1. Init => TypeOK
  BY InitType
<1>2. TypeOK /\ [Next]_vars => TypeOK'
  BY NextType
<1> QED BY <1>1, <1>2, PTL DEF Spec

-----------------------------------------------------------------------------
(* IssuanceInv is inductive.  No step takes back what Viettel has issued,  *)
(* or makes a submitted invoice a draft again (Progress), so that what a   *)
(* step does not touch stays safe; each action then answers for what it    *)
(* changes.                                                                *)

Progress ==
  \A i \in Invoices :
    /\ Left(i) => Left(i)'
    /\ Exists(i) => Exists(i)'
    /\ Issued(i) => Issued(i)'

\* Rows keep their uuid or are given the first one; nothing Viettel holds is
\* lost, and what it learns it learns of a submitted invoice.
LEMMA StepRows ==
  ASSUME TypeOK, RowsSafe,
         \A i \in Invoices :
           /\ \/ row'[i].uuid = row[i].uuid /\ (Exists(i)' <=> Exists(i))
              \/ ~Exists(i) /\ row'[i].uuid = 1
           /\ Left(i) => Left(i)'
           /\ row'[i].ext \/ row'[i].status = "completed"
                => row[i].ext \/ row[i].status = "completed" \/ Issued(i)
           /\ \A u \in Uuids :
                /\ viettel[i][u] = "issued" => viettel'[i][u] = "issued"
                /\ viettel'[i][u] # "none" => viettel[i][u] # "none" \/ (u = 1 /\ Left(i))
  PROVE  RowsSafe' /\ Progress
<1>1. ASSUME NEW i \in Invoices
      PROVE  (Left(i) => Left(i)') /\ (Exists(i) => Exists(i)') /\ (Issued(i) => Issued(i)')
  <2>1. Issued(i) => Left(i)
    BY OneUuid DEF RowsSafe, Issued, IssuedUuids, Known
  <2>2. Left(i) => Exists(i)
    BY DEF Left, Exists
  <2> QED BY <2>1, <2>2 DEF Issued, IssuedUuids
<1>2. Progress
  BY <1>1 DEF Progress
<1>3. ASSUME NEW i \in Invoices
      PROVE  (Known(i) # {} => Left(i))' /\ (Known(i) \subseteq {1})'
  BY <1>1 DEF RowsSafe, Known
<1>4. ASSUME NEW i \in Invoices
      PROVE  /\ (row[i].ext \/ row[i].status = "completed" => Issued(i))'
             /\ (Exists(i) /\ Readable(i) => row[i].uuid = 1)'
  BY <1>1 DEF RowsSafe, Readable
<1> QED BY <1>2, <1>3, <1>4 DEF RowsSafe

\* HistoryGenuine survives a step that writes no history.
LEMMA KeepHistory ==
  ASSUME TypeOK, HistoryGenuine, Progress, UNCHANGED history PROVE HistoryGenuine'
<1>1. ASSUME NEW i \in Invoices, NEW from \in Status
      PROVE  /\ (<<from, "submitted">> \in history[i] => Left(i))'
             /\ (<<from, "completed">> \in history[i] => Issued(i))'
  <2>1. history'[i] = history[i]
    OBVIOUS
  <2> QED BY <2>1 DEF HistoryGenuine, Progress
<1> QED BY <1>1 DEF HistoryGenuine

\* And one that records a transition that was made.
LEMMA StepHistory ==
  ASSUME TypeOK, HistoryGenuine, Progress, NEW i \in Invoices,
         NEW from \in Status, NEW to \in Status, NEW applied \in BOOLEAN,
         AddHistory(i, from, to, applied),
         to = "submitted" => Left(i)', to = "completed" => Issued(i)'
  PROVE  HistoryGenuine'
<1>1. ASSUME NEW j \in Invoices, NEW f \in Status, NEW t \in Status
      PROVE  <<f, t>> \in history'[j] => <<f, t>> \in history[j] \/ (j = i /\ t = to)
  BY DEF TypeOK, AddHistory
<1>2. "submitted" \in Status /\ "completed" \in Status
  BY DEF Status
<1>3. ASSUME NEW j \in Invoices, NEW f \in Status
      PROVE  /\ <<f, "submitted">> \in history'[j] => Left(j)'
             /\ <<f, "completed">> \in history'[j] => Issued(j)'
  BY <1>1, <1>2 DEF HistoryGenuine, Progress
<1> QED BY <1>3 DEF HistoryGenuine

\* ClientsSafe survives a step that leaves the clients alone.
LEMMA KeepClients ==
  ASSUME TypeOK, ClientsSafe, Progress, UNCHANGED client PROVE ClientsSafe'
BY DEF TypeOK, ClientsSafe, Progress, Left, Exists

\* What a queue of jobs holds are jobs.
LEMMA JobOfQueue ==
  ASSUME NEW q \in Seq(Job), NEW k \in 1..Len(q) PROVE q[k] \in Job /\ q[k].inv \in Invoices
<1>1. q[k] \in Job
  OBVIOUS
<1> QED BY <1>1 DEF Job

\* QueueSafe survives a step that leaves the queue alone.
LEMMA KeepQueue ==
  ASSUME TypeOK, QueueSafe, Progress, UNCHANGED queue PROVE QueueSafe'
<1>1. \A k \in 1..Len(queue) : queue[k].inv \in Invoices
  BY JobOfQueue DEF TypeOK
<1> QED BY <1>1 DEF QueueSafe, Progress, Left

\* BatchSafe survives a step that leaves the batch alone.
LEMMA KeepBatch ==
  ASSUME TypeOK, BatchSafe, Progress, UNCHANGED batch PROVE BatchSafe'
<1>1. \A k \in 1..Len(batch) : batch[k].inv \in Invoices
  BY JobOfQueue DEF TypeOK
<1> QED BY <1>1 DEF BatchSafe, Progress, Left

\* WorkerSafe survives a step that leaves the worker alone.
LEMMA KeepWorker ==
  ASSUME TypeOK, Progress, NEW v \in Workers, WorkerSafe(v), worker'[v] = worker[v]
  PROVE  WorkerSafe(v)'
BY DEF TypeOK, WorkerSafe, Progress, Left

\* WorkersSafe survives a step that leaves all workers alone.
LEMMA KeepWorkers ==
  ASSUME TypeOK, WorkersSafe, Progress, UNCHANGED worker PROVE WorkersSafe'
BY KeepWorker DEF WorkersSafe

\* Rows that are unchanged.
LEMMA KeepRows ==
  ASSUME TypeOK, RowsSafe, UNCHANGED <<row, viettel>> PROVE RowsSafe' /\ Progress
BY StepRows DEF Left, Exists

\* Worker w moves on to a safe state.
LEMMA StepWorkers ==
  ASSUME TypeOK, WorkersSafe, Progress, NEW w \in Workers, NEW s,
         worker' = [worker EXCEPT ![w] = s],
         s.pc # "idle" =>
           /\ s.inv \in Invoices /\ Left(s.inv)'
           /\ s.pc \in UsesCopy => s.copy.uuid = 1 /\ Readable(s.inv)
           /\ s.copy.ext \/ s.pc \in Confirming => Issued(s.inv)'
  PROVE  WorkersSafe'
<1>1. ASSUME NEW v \in Workers PROVE WorkerSafe(v)'
  <2>1. CASE v = w
    <3>1. worker'[v] = s
      BY <2>1 DEF TypeOK
    <3> QED BY <3>1 DEF WorkerSafe, Left, Issued, IssuedUuids, Readable
  <2>2. CASE v # w
    BY <2>2, KeepWorker DEF TypeOK, WorkersSafe
  <2> QED BY <2>1, <2>2
<1> QED BY <1>1 DEF WorkersSafe

\* A worker that goes on with a genuine copy keeps WorkersSafe.
LEMMA StepContinue ==
  ASSUME TypeOK, WorkersSafe, Progress, NEW w \in Workers, worker[w].pc # "idle",
         NEW i \in Invoices, i = worker[w].inv,
         NEW pc \in PC, NEW copy \in Copy, Continue(w, pc, copy),
         pc \in UsesCopy => copy.uuid = 1 /\ Readable(i),
         pc \in Confirming \/ copy.ext => Issued(i)'
  PROVE  WorkersSafe'
<1>1. Left(i)
  BY DEF WorkersSafe, WorkerSafe
<1>2. Left(i)'
  BY <1>1 DEF Progress
<1> DEFINE s == [pc |-> pc, inv |-> i, copy |-> copy]
<1>3. worker' = [worker EXCEPT ![w] = s]
  BY <1>1 DEF Continue
<1>4. /\ s.inv \in Invoices /\ Left(s.inv)'
      /\ s.pc \in UsesCopy => s.copy.uuid = 1 /\ Readable(s.inv)
      /\ s.copy.ext \/ s.pc \in Confirming => Issued(s.inv)'
  BY <1>1, <1>2
<1> HIDE DEF s
<1> QED BY <1>3, <1>4, StepWorkers

\* A worker that returns keeps WorkersSafe.
LEMMA StepReturn ==
  ASSUME TypeOK, WorkersSafe, Progress, NEW w \in Workers, Return(w)
  PROVE  WorkersSafe'
<1>1. PICK s : s = Idle
  OBVIOUS
<1>2. worker' = [worker EXCEPT ![w] = s] /\ s.pc = "idle"
  BY <1>1 DEF Return, Idle
<1> QED BY <1>2, StepWorkers

\* So does a worker that does either and keeps its copy.
LEMMA StepGoto ==
  ASSUME TypeOK, WorkersSafe, Progress, NEW w \in Workers, worker[w].pc # "idle",
         NEW pc \in PC, Goto(w, pc),
         pc \in UsesCopy => worker[w].pc \in UsesCopy,
         pc \in Confirming => Issued(worker[w].inv)
  PROVE  WorkersSafe'
<1>1. PICK i \in Invoices : i = worker[w].inv
  BY DEF TypeOK
<1>2. /\ worker[w].copy \in Copy
      /\ pc \in UsesCopy => worker[w].copy.uuid = 1 /\ Readable(i)
      /\ worker[w].copy.ext \/ pc \in Confirming => Issued(i)
  BY <1>1 DEF TypeOK, WorkerState, WorkersSafe, WorkerSafe
<1>3. worker[w].copy.ext \/ pc \in Confirming => Issued(i)'
  BY <1>2 DEF Progress
<1>4. NoCopy \in Copy /\ ~NoCopy.ext
  BY NoRowType DEF NoCopy, CopyOf, NoRow
<1>5. \/ Return(w)
      \/ Continue(w, pc, worker[w].copy)
      \/ pc \notin UsesCopy /\ Continue(w, pc, NoCopy)
  BY DEF Goto
<1> QED BY <1>1, <1>2, <1>3, <1>4, <1>5, StepReturn, StepContinue

\* A status change by a worker preserves the invariant.
LEMMA StepSetStatus ==
  ASSUME TypeOK, IssuanceInv, NEW w \in Workers, worker[w].pc # "idle",
         NEW s \in Status \ {"draft"}, NEW onOk \in PC, NEW onError \in PC,
         SetStatus(w, s, onOk, onError), UNCHANGED <<serviceVars, stops>>,
         {onOk, onError} \cap UsesCopy # {} => worker[w].pc \in UsesCopy,
         s = "completed" \/ {onOk, onError} \cap Confirming # {} => Issued(worker[w].inv)
  PROVE  IssuanceInv'
<1> DEFINE i == worker[w].inv
<1> USE DEF IssuanceInv
<1>1. i \in Invoices /\ Left(i)
  BY DEF TypeOK, WorkersSafe, WorkerSafe
<1>2. PICK ok \in BOOLEAN, applied \in BOOLEAN :
        /\ Write(i, WithStatus(row[i], s), applied)
        /\ Goto(w, IF ok THEN onOk ELSE onError)
  BY DEF SetStatus
<1>3. \A j \in Invoices :
        /\ row'[j].ext = row[j].ext /\ row'[j].uuid = row[j].uuid
        /\ row'[j].status = row[j].status \/ (j = i /\ row'[j].status = s)
  BY <1>1, <1>2 DEF TypeOK, Row, Write, WithStatus
<1>4. viettel' = viettel /\ UNCHANGED <<queue, batch, client, history>>
  BY DEF SetStatus, serviceVars
<1>5. RowsSafe' /\ Progress
  <2>1. \A j \in Invoices :
          /\ Exists(j)' <=> Exists(j)
          /\ Left(j) => Left(j)'
          /\ row'[j].status = "completed" => row[j].status = "completed" \/ Issued(j)
    BY <1>1, <1>3 DEF Left, Exists, Status
  <2> QED BY <1>3, <1>4, <2>1, StepRows
<1>6. WorkersSafe'
  BY <1>2, <1>5, StepGoto
<1> QED BY <1>4, <1>5, <1>6, KeepQueue, KeepBatch, KeepClients, KeepHistory

\* A row written back by a worker preserves the invariant.
LEMMA StepSaveCopy ==
  ASSUME TypeOK, IssuanceInv, NEW w \in Workers, worker[w].pc # "idle",
         NEW onOk \in PC, NEW onError \in PC,
         SaveCopy(w, onOk, onError), UNCHANGED <<serviceVars, stops>>,
         worker[w].pc \in UsesCopy,
         {onOk, onError} \cap Confirming # {} => Issued(worker[w].inv)
  PROVE  IssuanceInv'
<1> DEFINE i == worker[w].inv
<1> USE DEF IssuanceInv
<1>1. /\ i \in Invoices /\ Left(i) /\ Exists(i)
      /\ worker[w].copy.uuid = 1 /\ row[i].uuid = 1
      /\ worker[w].copy.ext => Issued(i)
  BY DEF TypeOK, WorkersSafe, WorkerSafe, RowsSafe, Left, Exists
<1>2. PICK ok \in BOOLEAN, applied \in BOOLEAN :
        /\ Write(i, Overwritten(row[i], worker[w].copy), applied)
        /\ Goto(w, IF ok THEN onOk ELSE onError)
  BY DEF SaveCopy
<1>3. \A j \in Invoices :
        /\ row'[j].status = row[j].status /\ row'[j].uuid = row[j].uuid
        /\ row'[j].ext = row[j].ext \/ (j = i /\ row'[j].ext = worker[w].copy.ext)
  BY <1>1, <1>2 DEF TypeOK, Row, Write, Overwritten
<1>4. viettel' = viettel /\ UNCHANGED <<queue, batch, client, history>>
  BY DEF SaveCopy, serviceVars
<1>5. RowsSafe' /\ Progress
  <2>1. \A j \in Invoices :
          /\ Exists(j)' <=> Exists(j)
          /\ Left(j) => Left(j)'
          /\ row'[j].ext => row[j].ext \/ Issued(j)
    BY <1>1, <1>3 DEF Left, Exists
  <2> QED BY <1>3, <1>4, <2>1, StepRows
<1>6. WorkersSafe'
  BY <1>2, <1>5, StepGoto
<1> QED BY <1>4, <1>5, <1>6, KeepQueue, KeepBatch, KeepClients, KeepHistory

\* Taking a job preserves the invariant.
LEMMA StepDequeue ==
  ASSUME TypeOK, IssuanceInv, NEW w \in Workers, Dequeue(w),
         UNCHANGED <<serviceVars, stops>>
  PROVE  IssuanceInv'
<1> USE DEF IssuanceInv
<1>1. UNCHANGED <<row, viettel, batch, client, history>>
  BY DEF Dequeue, repoVars, serviceVars
<1>2. RowsSafe' /\ Progress
  BY <1>1, KeepRows
<1>3. /\ queue \in Seq(Job) /\ queue # <<>> /\ Len(queue) \in Nat \ {0}
      /\ Head(queue) = queue[1] /\ queue' = Tail(queue)
  BY DEF TypeOK, Dequeue
<1>4. queue[1].inv \in Invoices /\ Left(queue[1].inv)
  BY <1>3, JobOfQueue DEF QueueSafe
<1>5. WorkersSafe'
  <2> DEFINE s == [pc |-> FirstCall(Head(queue).type), inv |-> Head(queue).inv,
                   copy |-> NoCopy]
  <2>1. PICK t \in {"load", "pollLoad"}, i \in Invoices :
          s = [pc |-> t, inv |-> i, copy |-> NoCopy] /\ Left(i)
    BY <1>3, <1>4 DEF FirstCall
  <2>2. worker' = [worker EXCEPT ![w] = s]
    BY DEF Dequeue
  <2>3. ~s.copy.ext /\ s.pc \notin Confirming /\ s.pc \notin UsesCopy /\ s.inv = i
    BY <2>1 DEF NoCopy, CopyOf, NoRow, Confirming, UsesCopy
  <2>4. Left(i)'
    BY <1>2, <2>1 DEF Progress
  <2>5. PICK u : u = [pc |-> t, inv |-> i, copy |-> NoCopy]
    OBVIOUS
  <2>6. worker' = [worker EXCEPT ![w] = u]
    BY <2>1, <2>2, <2>5
  <2>7. ~u.copy.ext /\ u.pc \notin Confirming /\ u.pc \notin UsesCopy /\ u.inv = i
    BY <2>1, <2>3, <2>5
  <2> HIDE DEF s
  <2> QED BY <1>2, <2>4, <2>6, <2>7, StepWorkers
<1>6. QueueSafe'
  <2>1. \A k \in 1..Len(queue') :
          k + 1 \in 1..Len(queue) /\ queue'[k] = queue[k + 1]
    BY <1>3
  <2> QED BY <1>1, <2>1 DEF QueueSafe, Left
<1> QED BY <1>1, <1>2, <1>5, <1>6, KeepBatch, KeepClients, KeepHistory

\* Loading the invoice preserves the invariant.
LEMMA StepLoad ==
  ASSUME TypeOK, IssuanceInv, NEW w \in Workers, Load(w) \/ PollLoad(w),
         UNCHANGED <<serviceVars, stops>>
  PROVE  IssuanceInv'
<1> USE DEF IssuanceInv
<1>1. UNCHANGED <<row, viettel, queue, batch, client, history>>
  BY DEF Load, PollLoad, serviceVars
<1>2. RowsSafe' /\ Progress
  BY <1>1, KeepRows
<1>3. worker[w].pc # "idle" /\ worker[w].inv \in Invoices
  BY DEF TypeOK, Load, PollLoad
<1> DEFINE copy == CopyOf(row[worker[w].inv])
<1>0. PICK i \in Invoices : i = worker[w].inv
  BY <1>3
<1>4. /\ copy \in Copy
      /\ Readable(i) => copy.uuid = 1
      /\ copy.ext => Issued(i)'
  <2>1. Left(i) /\ Exists(i)
    BY <1>0, <1>3 DEF WorkersSafe, WorkerSafe, Left, Exists
  <2>2. copy.uuid = row[i].uuid /\ copy.ext = row[i].ext /\ row[i] \in Row
    BY <1>0, <1>3 DEF CopyOf, TypeOK
  <2>3. copy.ext => Issued(i)
    BY <1>3, <2>2 DEF RowsSafe
  <2>4. Issued(i) => Issued(i)'
    BY <1>2 DEF Progress
  <2> QED BY <1>0, <1>3, <2>1, <2>2, <2>3, <2>4, CopyOfType DEF RowsSafe
<1>5. \/ Readable(i) /\ \E pc \in {"toProcessing", "items", "query"} : Continue(w, pc, copy)
      \/ Return(w)
  BY <1>0 DEF Load, PollLoad
<1>6. {"toProcessing", "items", "query"} \subseteq PC \ Confirming
  BY DEF PC, PublishCall, PollCall, Confirming
<1>7. WorkersSafe'
  <2> HIDE DEF copy
  <2> QED BY <1>0, <1>2, <1>3, <1>4, <1>5, <1>6, StepContinue, StepReturn
<1> QED BY <1>1, <1>2, <1>7, KeepQueue, KeepBatch, KeepClients, KeepHistory

\* The calls that change neither the table, the copy nor Viettel preserve it.
LEMMA StepCall ==
  ASSUME TypeOK, IssuanceInv, NEW w \in Workers,
         LoadItems(w) \/ CreateRejected(w) \/ Record(w) \/ QueryErred(w),
         UNCHANGED <<serviceVars, stops>>
  PROVE  IssuanceInv'
<1> USE DEF IssuanceInv
<1>1. UNCHANGED <<row, viettel, queue, batch, client>> /\ worker[w].pc # "idle"
  BY DEF LoadItems, CreateRejected, CreateCall, Record, QueryErred, serviceVars, repoVars
<1>2. RowsSafe' /\ Progress
  BY <1>1, KeepRows
<1>3. PICK pc \in {"create", "createCut", "failItems", "reject", "idle"} :
        /\ Goto(w, pc)
        /\ pc \in {"create", "createCut"} => worker[w].pc = "items"
  BY DEF LoadItems, AfterItems, CreateRejected, Record, QueryErred
<1>4. /\ pc \in PC /\ pc \notin Confirming
      /\ pc \in UsesCopy => worker[w].pc \in UsesCopy
  BY <1>3 DEF PC, PublishCall, Confirming, UsesCopy
<1>5. WorkersSafe'
  BY <1>1, <1>2, <1>3, <1>4, StepGoto
<1>6. HistoryGenuine'
  <2>1. CASE Record(w)
    <3>1. PICK i \in Invoices : i = worker[w].inv /\ Issued(i)
      BY <2>1 DEF TypeOK, Record, WorkersSafe, WorkerSafe, Confirming
    <3>2. PICK applied \in BOOLEAN : AddHistory(i, "processing", "completed", applied)
      BY <2>1, <3>1 DEF Record
    <3>3. Issued(i)'
      BY <1>2, <3>1 DEF Progress
    <3>4. "processing" \in Status /\ "completed" \in Status
      BY DEF Status
    <3> QED BY <1>2, <3>2, <3>3, <3>4, StepHistory
  <2>2. CASE ~Record(w)
    <3>1. UNCHANGED history
      BY <2>2 DEF LoadItems, CreateRejected, QueryErred, repoVars
    <3> QED BY <1>2, <3>1, KeepHistory
  <2> QED BY <2>1, <2>2
<1> QED BY <1>1, <1>2, <1>5, <1>6, KeepQueue, KeepBatch, KeepClients

\* Viettel takes a request that is sent under the uuid of the row.
LEMMA TakeRows ==
  ASSUME TypeOK, RowsSafe, NEW i \in Invoices, Left(i), NEW v \in AcceptedAs(i, 1),
         NEW whole, Take(i, 1, v, whole), UNCHANGED row
  PROVE  RowsSafe' /\ Progress /\ viettel'[i][1] = v
<1>1. /\ \A j \in Invoices, u \in Uuids :
           viettel'[j][u] = IF j = i /\ u = 1 THEN v ELSE viettel[j][u]
      /\ viettel'[i][1] = v
  BY OneUuid DEF TypeOK, Take
<1>2. viettel[i][1] = "issued" => v = "issued"
  BY DEF AcceptedAs
<1>3. ASSUME NEW j \in Invoices, NEW u \in Uuids
      PROVE  /\ viettel[j][u] = "issued" => viettel'[j][u] = "issued"
             /\ viettel'[j][u] # "none" => viettel[j][u] # "none" \/ (u = 1 /\ Left(j))
  BY <1>1, <1>2
<1> QED BY <1>1, <1>3, StepRows DEF Left, Exists

\* Viettel takes a create request, or not.
LEMMA StepCreate ==
  ASSUME TypeOK, IssuanceInv, NEW w \in Workers, CreateAccepted(w) \/ CreateErred(w),
         UNCHANGED <<serviceVars, stops>>
  PROVE  IssuanceInv'
<1> DEFINE copy == worker[w].copy
<1> USE DEF IssuanceInv
<1>1. /\ UNCHANGED <<row, queue, batch, client, history>>
      /\ worker[w].pc # "idle" /\ worker[w].pc \in UsesCopy
      /\ worker[w].inv \in Invoices /\ copy \in Copy
  BY DEF TypeOK, WorkerState, UsesCopy, CreateAccepted, CreateErred, CreateCall,
         serviceVars, repoVars
<1>0. PICK i \in Invoices : i = worker[w].inv
  BY <1>1
<1>2. /\ Left(i) /\ Exists(i) /\ Readable(i) /\ copy.uuid = 1 /\ row[i].uuid = 1
      /\ copy.ext => Issued(i)
  BY <1>0, <1>1 DEF WorkersSafe, WorkerSafe, RowsSafe, Left, Exists
<1>3. RequestUuids(i, copy.uuid) = {1}
  BY <1>2 DEF RequestUuids, NoUuid
<1>4. RowsSafe' /\ Progress /\ WorkersSafe'
  <2>1. CASE CreateAccepted(w)
    <3>1. PICK v \in AcceptedAs(i, 1) :
            /\ Sent(w, 1, v)
            /\ \/ /\ v = "issued"
                  /\ Continue(w, "saveNumber", WithNumber(WithUuid(copy, 1)))
               \/ Return(w)
      BY <1>0, <1>3, <2>1, AcceptedStep
    <3>2. RowsSafe' /\ Progress /\ viettel'[i][1] = v
      BY <1>1, <1>2, <3>1, <1>0, TakeRows DEF Sent
    <3>3. v = "issued" => Issued(i)'
      BY <1>1, <1>2, <3>2, OneUuid
      DEF Issued, IssuedUuids
    <3>4. /\ WithNumber(WithUuid(copy, 1)) \in Copy
          /\ WithNumber(WithUuid(copy, 1)).uuid = 1
      BY <1>1, HandlerCopyType, OneUuid DEF WithNumber, WithUuid, Copy
    <3>5. WorkersSafe'
      BY <1>0, <1>1, <1>2, <3>1, <3>2, <3>3, <3>4, StepContinue, StepReturn
      DEF PC, PublishCall
    <3> QED BY <3>2, <3>5
  <2>2. CASE CreateErred(w)
    <3>1. PICK c \in Copy :
            /\ c.ext = copy.ext /\ c.uuid = 1
            /\ Continue(w, "saveRetry", WithRetry(c))
            /\ \/ UNCHANGED viettelVars
               \/ \E v \in AcceptedAs(i, 1) : Sent(w, 1, v)
      BY <1>0, <1>2, <1>3, <2>2, ErredStep
    <3>2. RowsSafe' /\ Progress
      BY <1>1, <1>2, <3>1, <1>0, TakeRows, KeepRows DEF Sent
    <3>3. copy.ext => Issued(i)'
      BY <1>1, <1>2, <3>2 DEF Progress
    <3>4. /\ WithRetry(c) \in Copy /\ WithRetry(c).uuid = 1
          /\ WithRetry(c).ext = copy.ext
      BY <3>1, HandlerCopyType DEF WithRetry, Copy
    <3>5. "saveRetry" \in PC \ Confirming
      BY DEF PC, PublishCall, Confirming
    <3>6. WorkersSafe'
      BY <1>0, <1>1, <1>2, <3>1, <3>2, <3>3, <3>4, <3>5, StepContinue
    <3> QED BY <3>2, <3>6
  <2> QED BY <2>1, <2>2
<1> QED BY <1>1, <1>4, KeepQueue, KeepBatch, KeepClients, KeepHistory

\* The answer of QueryStatus preserves the invariant.
LEMMA StepQuery ==
  ASSUME TypeOK, IssuanceInv, NEW w \in Workers, QueryAnswered(w),
         UNCHANGED <<serviceVars, stops>>
  PROVE  IssuanceInv'
<1> DEFINE copy == worker[w].copy
<1> USE DEF IssuanceInv
<1>1. /\ UNCHANGED <<row, viettel, queue, batch, client, history>>
      /\ worker[w].pc # "idle" /\ worker[w].pc \in UsesCopy
  BY DEF QueryAnswered, UsesCopy, serviceVars, repoVars
<1>2. RowsSafe' /\ Progress
  BY <1>1, KeepRows
<1>0. PICK i \in Invoices : i = worker[w].inv
  BY <1>1 DEF TypeOK
<1>3. /\ copy \in Copy /\ Readable(i) /\ copy.uuid = 1 /\ row[i].uuid = 1
      /\ copy.ext => Issued(i)
  BY <1>0, <1>1 DEF TypeOK, WorkerState, WorkersSafe, WorkerSafe, RowsSafe, Left, Exists
<1>4. Issued(i) => Issued(i)'
  BY <1>2 DEF Progress
<1>5. QueryStatus(i, copy.uuid) = "completed" <=> Issued(i)
  <2>1. viettel[i][1] \in {"none", "pending", "issued"}
    BY <1>3, OneUuid DEF TypeOK, ViettelState
  <2> QED BY <1>3, <2>1, OneUuid DEF QueryStatus, Issued, IssuedUuids
<1>6. "pollConfirm" \in PC /\ "pollSave" \in PC \ Confirming
  BY DEF PC, PollCall, Confirming
<1>7. WithNumber(copy) \in Copy /\ WithNumber(copy).uuid = 1
  BY <1>3, HandlerCopyType DEF WithNumber, Copy
<1>8. WorkersSafe'
  <2>1. CASE Issued(i)
    <3>1. Continue(w, "pollConfirm", WithNumber(copy))
      BY <1>0, <1>5, <2>1 DEF QueryAnswered
    <3> QED BY <1>0, <1>1, <1>2, <1>3, <1>4, <1>6, <1>7, <2>1, <3>1, StepContinue
  <2>2. CASE ~Issued(i)
    <3>1. Continue(w, "pollSave", copy)
      BY <1>0, <1>5, <2>2 DEF QueryAnswered
    <3> QED BY <1>0, <1>1, <1>2, <1>3, <1>4, <1>6, <2>2, <3>1, StepContinue
  <2> QED BY <2>1, <2>2
<1> QED BY <1>1, <1>2, <1>8, KeepQueue, KeepBatch, KeepClients, KeepHistory

\* Every step of a worker preserves the invariant.
LEMMA StepWorker ==
  ASSUME TypeOK, IssuanceInv, NEW w \in Workers, WorkerNext(w) PROVE IssuanceInv'
<1> USE DEF WorkerNext
<1>1. worker[w].pc \in Confirming /\ worker[w].pc # "idle" => Issued(worker[w].inv)
  BY DEF IssuanceInv, WorkersSafe, WorkerSafe
<1>2. /\ {"processing", "failed", "completed"} \subseteq Status \ {"draft"}
      /\ StatusAfterError(worker[w].copy) \in {"failed", "submitted"}
      /\ {"failed", "submitted"} \subseteq Status \ {"draft"}
  BY DEF Status, StatusAfterError
<1>3. /\ {"idle", "items", "record", "requeue", "complete", "pollComplete"} \subseteq PC
      /\ {"idle", "items", "requeue"} \cap Confirming = {}
      /\ {"idle", "record", "complete", "pollComplete"} \cap UsesCopy = {}
      /\ {"toProcessing", "saveNumber", "saveRetry", "pollSave", "pollConfirm"} \subseteq UsesCopy
  BY DEF PC, PublishCall, PollCall, Confirming, UsesCopy
<1>4. CASE ToProcessing(w) \/ FailItems(w) \/ Reject(w) \/ Requeue(w)
  BY <1>2, <1>3, <1>4, StepSetStatus DEF ToProcessing, FailItems, Reject, Requeue
<1>5. CASE Complete(w) \/ PollComplete(w)
  BY <1>1, <1>2, <1>3, <1>5, StepSetStatus DEF Complete, PollComplete, Confirming
<1>6. CASE SaveNumber(w) \/ PollConfirm(w)
  BY <1>1, <1>3, <1>6, StepSaveCopy DEF SaveNumber, PollConfirm, Confirming
<1>7. CASE SaveRetry(w) \/ PollSave(w)
  BY <1>3, <1>7, StepSaveCopy DEF SaveRetry, PollSave
<1> QED
  BY <1>4, <1>5, <1>6, <1>7, StepDequeue, StepLoad, StepCall, StepCreate, StepQuery
  DEF WorkerStep, Publish, Poll

\* Every step of the poller preserves the invariant.
LEMMA StepPoller ==
  ASSUME TypeOK, IssuanceInv, PollerNext PROVE IssuanceInv'
<1> USE DEF IssuanceInv
<1>1. UNCHANGED <<row, viettel, worker, client, history>>
  BY DEF PollerNext, PollerStep, PollTick, PollEnqueue, repoVars, serviceVars
<1>2. RowsSafe' /\ Progress
  BY <1>1, KeepRows
<1>3. CASE PollTick
  <2>1. PICK n \in 0..QueueSize : \E m \in 0..n : \E page \in [1..n -> Invoices] :
          /\ IsPendingPage(page, QueueSize)
          /\ batch' = [k \in 1..m |-> PollJob(page[k])] \/ batch' = <<>>
    BY <1>3 DEF PollTick
  <2>2. PICK m \in 0..n : \E page \in [1..n -> Invoices] :
          /\ IsPendingPage(page, QueueSize)
          /\ batch' = [k \in 1..m |-> PollJob(page[k])] \/ batch' = <<>>
    BY <2>1
  <2>2a. PICK page \in [1..n -> Invoices] :
          /\ IsPendingPage(page, QueueSize)
          /\ batch' = [k \in 1..m |-> PollJob(page[k])] \/ batch' = <<>>
    BY <2>2
  <2>3. n \in Nat /\ m \in Nat /\ m <= n
    BY PoolAssumption
  <2>4. \A k \in 1..n : Left(page[k])
    BY <2>2a, <2>3 DEF IsPendingPage, Pending, Left
  <2>5. BatchSafe'
    <3>1. CASE batch' = [k \in 1..m |-> PollJob(page[k])]
      <4>1. \A k \in 1..m : k \in 1..n /\ batch'[k].inv = page[k]
        BY <2>3, <3>1 DEF PollJob
      <4>2. Len(batch') = m
        BY <2>3, <3>1
      <4> QED BY <1>1, <2>4, <4>1, <4>2 DEF BatchSafe, Left
    <3>2. CASE batch' = <<>>
      BY <3>2 DEF BatchSafe
    <3> QED BY <2>2a, <3>1, <3>2
  <2>6. UNCHANGED queue
    BY <1>3 DEF PollTick
  <2> QED BY <1>1, <1>2, <2>5, <2>6, KeepWorkers, KeepQueue, KeepClients, KeepHistory
<1>4. CASE PollEnqueue
  <2>1. /\ batch \in Seq(Job) /\ Len(batch) \in Nat \ {0} /\ Head(batch) = batch[1]
        /\ Head(batch) \in Job
    BY <1>4 DEF TypeOK, PollEnqueue
  <2>2. Left(Head(batch).inv)
    BY <2>1 DEF BatchSafe
  <2>3. BatchSafe'
    <3>1. CASE batch' = Tail(batch)
      <4>1. \A k \in 1..Len(batch') : k + 1 \in 1..Len(batch) /\ batch'[k] = batch[k + 1]
        BY <2>1, <3>1
      <4> QED BY <1>1, <4>1 DEF BatchSafe, Left
    <3>2. CASE batch' = <<>>
      BY <3>2 DEF BatchSafe
    <3> QED BY <1>4, <3>1, <3>2 DEF PollEnqueue
  <2>4. QueueSafe'
    <3>1. CASE queue' = queue
      BY <1>2, <3>1, KeepQueue
    <3>2. CASE queue' = Append(queue, Head(batch))
      <4>0. queue \in Seq(Job)
        BY DEF TypeOK
      <4>1. \A k \in 1..Len(queue') :
              queue'[k] = Head(batch) \/ (k \in 1..Len(queue) /\ queue'[k] = queue[k])
        BY <2>1, <3>2, <4>0
      <4> QED BY <1>1, <2>2, <4>1 DEF QueueSafe, Left
    <3> QED BY <1>4, <3>1, <3>2 DEF PollEnqueue, Enqueue
  <2> QED BY <1>1, <1>2, <2>3, <2>4, KeepWorkers, KeepClients, KeepHistory
<1> QED BY <1>3, <1>4 DEF PollerNext, PollerStep

\* A write of a request: it changes no external_id, and only moves a status
\* on, from none to draft or from any other to submitted.
LEMMA RequestRows ==
  ASSUME TypeOK, RowsSafe, viettel' = viettel,
         \A j \in Invoices :
           /\ row'[j].ext = row[j].ext
           /\ \/ /\ row'[j].uuid = row[j].uuid
                 /\ \/ row'[j].status = row[j].status
                    \/ Exists(j) /\ row'[j].status = "submitted"
              \/ ~Exists(j) /\ row'[j].status = "draft" /\ row'[j].uuid = 1
  PROVE  RowsSafe' /\ Progress
<1>1. ASSUME NEW j \in Invoices
      PROVE  /\ \/ row'[j].uuid = row[j].uuid /\ (Exists(j)' <=> Exists(j))
                \/ ~Exists(j) /\ row'[j].uuid = 1
             /\ Left(j) => Left(j)'
             /\ row'[j].status = "completed" => row[j].status = "completed"
  BY DEF Left, Exists
<1> QED BY <1>1, StepRows

\* Every step of a client preserves the invariant.
LEMMA StepClient ==
  ASSUME TypeOK, IssuanceInv, NEW c \in Clients, ClientNext(c) PROVE IssuanceInv'
<1> USE DEF IssuanceInv
<1>0. UNCHANGED <<viettel, worker, batch>>
  BY DEF ClientNext, Request, CreateInvoice, PayRead, PayWrite, SubmitRead,
         SubmitWrite, SubmitRecord, SubmitEnqueue, poolVars
<1>1. CASE \E i \in Invoices : CreateInvoice(c, i)
  <2>1. PICK i \in Invoices : CreateInvoice(c, i)
    BY <1>1
  <2>2. PICK h : \A j \in Invoices :
          row'[j] = row[j] \/ (~Exists(j) /\ row'[j] = CreatedRow(1, h) /\ j = i)
    BY <2>1 DEF TypeOK, CreateInvoice, Write
  <2>3. ~row[i].ext
    <3>1. ~Issued(i) \/ Left(i)
      BY OneUuid DEF RowsSafe, Issued, IssuedUuids, Known
    <3> QED BY <2>1, <3>1 DEF RowsSafe, CreateInvoice, Left, Exists, TypeOK, Row
  <2>4. /\ CreatedRow(1, h).status = "draft" /\ CreatedRow(1, h).uuid = 1
        /\ CreatedRow(1, h).ext = FALSE
    BY DEF CreatedRow, NoRow
  <2>5. \A j \in Invoices : row[j].ext \in BOOLEAN
    BY DEF TypeOK, Row
  <2>6. RowsSafe' /\ Progress
    BY <1>0, <2>2, <2>3, <2>4, <2>5, RequestRows
  <2>7. UNCHANGED <<queue, client, history>>
    BY <2>1 DEF CreateInvoice, poolVars, serviceVars
  <2> QED BY <1>0, <2>6, <2>7, KeepWorkers, KeepQueue, KeepBatch, KeepClients, KeepHistory
<1>2. CASE PayWrite(c)
  <2>1. client[c].inv \in Invoices
    BY <1>2 DEF TypeOK, PayWrite
  <2>2. \A j \in Invoices :
          /\ row'[j].ext = row[j].ext /\ row'[j].status = row[j].status
          /\ row'[j].uuid = row[j].uuid
    BY <1>2, <2>1 DEF TypeOK, Row, PayWrite, Write, WithHash
  <2>3. RowsSafe' /\ Progress
    BY <1>0, <2>1, <2>2, RequestRows
  <2>4. UNCHANGED <<queue, history>> /\ client' = [client EXCEPT ![c] = Answered("none")]
    BY <1>2 DEF PayWrite, poolVars
  <2>5. ClientsSafe'
    BY <2>3, <2>4 DEF TypeOK, ClientsSafe, Progress, Answered, Left, Exists
  <2> QED BY <1>0, <2>3, <2>4, <2>5, KeepWorkers, KeepQueue, KeepBatch, KeepHistory
<1>3. CASE SubmitWrite(c)
  <2> DEFINE i == client[c].inv
  <2>1. PICK ok \in BOOLEAN, applied \in BOOLEAN :
          /\ ok => applied
          /\ Write(i, WithStatus(row[i], "submitted"), applied)
          /\ client' = [client EXCEPT ![c] = IF ok THEN [@ EXCEPT !.pc = "record"]
                                                   ELSE Answered("error")]
    BY <1>3 DEF SubmitWrite, RequestOutcome
  <2>2. i \in Invoices /\ Exists(i)
    BY <1>3 DEF TypeOK, SubmitWrite, ClientsSafe
  <2>3. /\ applied => row'[i].status = "submitted"
        /\ \A j \in Invoices :
             /\ row'[j].ext = row[j].ext
             /\ row'[j].uuid = row[j].uuid
             /\ \/ row'[j].status = row[j].status
                \/ Exists(j) /\ row'[j].status = "submitted"
    BY <2>1, <2>2 DEF TypeOK, Row, Write, WithStatus
  <2>4. RowsSafe' /\ Progress
    BY <1>0, <2>2, <2>3, RequestRows
  <2>5. ClientsSafe'
    <3>1. ASSUME NEW d \in Clients, d # c
          PROVE  /\ client'[d].pc = "submit" => row'[client'[d].inv].status # "none"
                 /\ client'[d].pc \in {"record", "enqueue"}
                      => row'[client'[d].inv].status \notin {"none", "draft"}
      BY <2>1, <2>4, <3>1 DEF TypeOK, ClientsSafe, Progress, Left, Exists
    <3>2. CASE ok
      BY <2>1, <2>2, <2>3, <3>1, <3>2 DEF TypeOK, ClientState, ClientsSafe, Left, Exists
    <3>3. CASE ~ok
      BY <2>1, <3>1, <3>3 DEF TypeOK, ClientsSafe, Left, Exists, Answered
    <3> QED BY <3>2, <3>3
  <2>6. UNCHANGED <<queue, history>>
    BY <1>3 DEF SubmitWrite, poolVars
  <2> QED BY <1>0, <2>4, <2>5, <2>6, KeepWorkers, KeepQueue, KeepBatch, KeepHistory
<1>4. CASE SubmitRecord(c) \/ SubmitEnqueue(c)
           \/ \E i \in Invoices : SubmitRead(c, i) \/ \E h \in Hashes : PayRead(c, i, h)
  <2>1. row' = row
    BY <1>4 DEF SubmitRecord, SubmitEnqueue, SubmitRead, PayRead, repoVars
  <2>2. RowsSafe' /\ Progress
    BY <1>0, <2>1, KeepRows
  <2>3. ClientsSafe'
    <3>1. CASE SubmitRecord(c)
      BY <2>1, <3>1 DEF TypeOK, ClientState, ClientsSafe, SubmitRecord, Left, Exists
    <3>2. CASE SubmitEnqueue(c)
      BY <2>1, <3>2 DEF TypeOK, ClientsSafe, SubmitEnqueue, Answered, Left, Exists
    <3>3. CASE \E i \in Invoices : SubmitRead(c, i)
      BY <2>1, <3>3
      DEF TypeOK, ClientsSafe, SubmitRead, Answered, Left, Exists, CanTransitionTo, Status
    <3>4. CASE \E i \in Invoices, h \in Hashes : PayRead(c, i, h)
      BY <2>1, <3>4 DEF TypeOK, ClientsSafe, PayRead, Answered, Left, Exists
    <3> QED BY <1>4, <3>1, <3>2, <3>3, <3>4
  <2>4. QueueSafe'
    <3>1. CASE queue' = queue
      BY <2>2, <3>1, KeepQueue
    <3>2. CASE SubmitEnqueue(c) /\ queue' # queue
      <4> DEFINE job == [type |-> "publish", inv |-> client[c].inv]
      <4>1. Left(job.inv) /\ queue' = Append(queue, job)
        BY <3>2 DEF ClientsSafe, SubmitEnqueue, Enqueue
      <4>0. queue \in Seq(Job) /\ job \in Job
        <5>1. client[c].inv \in Invoices
          BY <3>2 DEF TypeOK, SubmitEnqueue
        <5> QED BY <5>1 DEF TypeOK, Job, JobType
      <4>2. \A k \in 1..Len(queue') :
              queue'[k] = job \/ (k \in 1..Len(queue) /\ queue'[k] = queue[k])
        BY <4>0, <4>1
      <4> HIDE DEF job
      <4> QED BY <2>1, <4>1, <4>2 DEF QueueSafe, Left
    <3> QED BY <1>4, <3>1, <3>2 DEF SubmitRecord, SubmitRead, PayRead, poolVars
  <2>5. HistoryGenuine'
    <3>1. CASE SubmitRecord(c)
      <4>1. PICK i \in Invoices : i = client[c].inv /\ Left(i) /\ client[c].from \in Status
        BY <3>1 DEF TypeOK, SubmitRecord, ClientsSafe
      <4>2. PICK applied \in BOOLEAN : AddHistory(i, client[c].from, "submitted", applied)
        BY <3>1, <4>1 DEF SubmitRecord
      <4>3. Left(i)' /\ "submitted" \in Status
        BY <2>2, <4>1 DEF Progress, Status
      <4> QED BY <2>2, <4>1, <4>2, <4>3, StepHistory
    <3>2. CASE ~SubmitRecord(c)
      <4>1. UNCHANGED history
        BY <1>4, <3>2 DEF SubmitEnqueue, SubmitRead, PayRead, repoVars
      <4> QED BY <2>2, <4>1, KeepHistory
    <3> QED BY <3>1, <3>2
  <2> QED BY <1>0, <2>2, <2>3, <2>4, <2>5, KeepWorkers, KeepBatch
<1> QED BY <1>1, <1>2, <1>3, <1>4 DEF ClientNext, Request

\* The numbering at Viettel preserves the invariant.
LEMMA StepViettel ==
  ASSUME TypeOK, IssuanceInv, NEW i \in Invoices, ViettelNext(i) PROVE IssuanceInv'
<1> USE DEF IssuanceInv
<1>1. UNCHANGED <<row, worker, queue, batch, client, history>>
  BY DEF ViettelNext, repoVars, poolVars, serviceVars
<1>2. ASSUME NEW j \in Invoices, NEW u \in Uuids
      PROVE  /\ viettel[j][u] = "issued" => viettel'[j][u] = "issued"
             /\ viettel'[j][u] # "none" => viettel[j][u] # "none"
  <2>1. PICK n \in Uuids :
          viettel[i][n] = "pending" /\ viettel' = [viettel EXCEPT ![i][n] = "issued"]
    BY DEF ViettelNext, AssignNumber
  <2> QED BY <2>1 DEF TypeOK
<1>3. RowsSafe' /\ Progress
  BY <1>1, <1>2, StepRows DEF Left, Exists
<1> QED BY <1>1, <1>3, KeepWorkers, KeepQueue, KeepBatch, KeepClients, KeepHistory

\* Stopping and starting the process preserves the invariant.
LEMMA StepProcess ==
  ASSUME TypeOK, IssuanceInv, ProcessNext PROVE IssuanceInv'
<1> USE DEF IssuanceInv, repoVars, poolVars, serviceVars
<1>1. UNCHANGED <<row, viettel, history>>
  BY DEF ProcessNext, Signal, CancelPool, Restart, Stopped, ForcedExit, Crash, Gone
<1>2. RowsSafe' /\ Progress
  BY <1>1, KeepRows
<1>3. CASE Signal \/ CancelPool \/ Restart
  <2>1. UNCHANGED <<worker, queue, batch, client>>
    BY <1>3 DEF Signal, CancelPool, Restart
  <2> QED BY <1>1, <1>2, <2>1, KeepWorkers, KeepQueue, KeepBatch, KeepClients, KeepHistory
<1>4. CASE Stopped \/ ForcedExit \/ Crash
  <2>1. Gone
    BY <1>4 DEF Stopped, ForcedExit, Crash
  <2> QED
    BY <1>1, <1>2, <2>1, KeepHistory
    DEF Gone, WorkersSafe, WorkerSafe, Idle, QueueSafe, BatchSafe, ClientsSafe, Answered
<1> QED BY <1>3, <1>4 DEF ProcessNext

\* The initial state satisfies the invariant.
LEMMA IssuanceInit ==
  ASSUME Init PROVE IssuanceInv
<1>1. RowsSafe
  BY DEF Init, RepoInit, NoRow, OldRow, ViettelInit, RowsSafe, Known, Exists, Readable
<1>2. WorkersSafe /\ QueueSafe /\ BatchSafe /\ ClientsSafe /\ HistoryGenuine
  BY DEF Init, RepoInit, PoolInit, Idle, ServiceInit, Answered, WorkersSafe, WorkerSafe,
         QueueSafe, BatchSafe, ClientsSafe, HistoryGenuine
<1> QED BY <1>1, <1>2 DEF IssuanceInv

\* Every step preserves the invariant.
LEMMA IssuanceNext ==
  ASSUME TypeOK, IssuanceInv, [Next]_vars PROVE IssuanceInv'
<1>1. CASE UNCHANGED vars
  BY <1>1
  DEF vars, repoVars, poolVars, serviceVars, IssuanceInv, RowsSafe, WorkersSafe,
      WorkerSafe, QueueSafe, BatchSafe, ClientsSafe, HistoryGenuine, Left, Exists,
      Issued, IssuedUuids, Known, Readable
<1> QED
  BY <1>1, StepWorker, StepPoller, StepClient, StepViettel, StepProcess DEF Next

\* Types and the issuance invariant hold in every reachable state.
LEMMA InvCorrect == Spec => [](TypeOK /\ IssuanceInv)
<1>1. Init => TypeOK /\ IssuanceInv
  BY InitType, IssuanceInit
<1>2. TypeOK /\ IssuanceInv /\ [Next]_vars => (TypeOK /\ IssuanceInv)'
  BY NextType, IssuanceNext
<1> QED BY <1>1, <1>2, PTL DEF Spec

\* Jobs, copies and requests only ever refer to submitted invoices, and no
\* number held in the program is ahead of Viettel.
THEOREM IssuanceIsSafe == Spec => []IssuanceInv
BY InvCorrect, PTL

\* Only invoices Viettel has issued are ever shown as completed.
THEOREM CompletedIsIssued == Spec => []CompletedWasIssued
<1>1. IssuanceInv => CompletedWasIssued
  BY DEF IssuanceInv, RowsSafe, CompletedWasIssued
<1> QED BY <1>1, InvCorrect, PTL

\* Only invoices Viettel has issued ever have an external_id.
THEOREM ExternalIdIsGenuine == Spec => []ExternalIdGenuine
<1>1. IssuanceInv => ExternalIdGenuine
  BY DEF IssuanceInv, RowsSafe, ExternalIdGenuine
<1> QED BY <1>1, InvCorrect, PTL

\* Viettel never knows an invoice under two transaction_uuids.
THEOREM IssuedUnderOneUuid == Spec => []IssuedOnce
<1>1. IssuanceInv => IssuedOnce
  BY DEF IssuanceInv, RowsSafe, IssuedOnce
<1> QED BY <1>1, InvCorrect, PTL

\* The status history records no submission or completion that did not happen.
THEOREM HistoryIsGenuine == Spec => []HistoryGenuine
<1>1. IssuanceInv => HistoryGenuine
  BY DEF IssuanceInv
<1> QED BY <1>1, InvCorrect, PTL

\* No draft is ever sent to Viettel, queued or being handled.
THEOREM DraftIsNeverSent == Spec => []DraftNeverSent
<1>1. TypeOK /\ IssuanceInv => DraftNeverSent
  BY DEF IssuanceInv, RowsSafe, WorkersSafe, WorkerSafe, QueueSafe, BatchSafe,
         Left, Handled, DraftNeverSent
<1> QED BY <1>1, InvCorrect, PTL
=============================================================================
