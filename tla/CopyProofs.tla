------------------------------ MODULE CopyProofs ------------------------------
(***************************************************************************)
(* Proofs of what rests on one worker, or on no payment overlapping a      *)
(* submission: a handler writes a whole row back from the copy it loaded,  *)
(* and a request writes to a row it has read before.                       *)
(***************************************************************************)
EXTENDS TaxModuleProofs

USE DEF viettelVars

OneWorker == \A v, w \in Workers : v = w

(* What a step of worker w does to rows and copies.                        *)

\* A call that may take effect.
Live(w) == mode = "draining" => w \in inflight

\* It leaves a row alone, or changes the status of its invoice, or writes
\* its copy over it.
RowEffect(w) ==
  \A j \in Invoices :
    \/ row'[j] = row[j]
    \/ /\ worker[w].pc # "idle" /\ j = worker[w].inv
       /\ Live(w)
       /\ \E s \in Status :
            /\ s = "completed" => worker[w].pc \in {"complete", "pollComplete"}
            /\ row'[j] = WithStatus(row[j], s)
    \/ /\ worker[w].pc \in UsesCopy /\ j = worker[w].inv
       /\ Live(w)
       /\ row'[j] = Overwritten(row[j], worker[w].copy)

\* d is c, or what the handler makes of it.
Follows(c, d) == d.hash = c.hash /\ (c.ext => d.ext) /\ c.retry <= d.retry

\* The copy it uses next is fresh, or follows the one it had.
CopyEffect(w) ==
  worker'[w].pc \in UsesCopy =>
    /\ worker'[w].inv = worker[w].inv
    /\ worker[w].pc # "idle"
    /\ \/ worker'[w].copy = CopyOf(row[worker[w].inv]) /\ UNCHANGED row
       \/ worker[w].pc \in UsesCopy /\ Follows(worker[w].copy, worker'[w].copy)

WorkerEffect(w) ==
  /\ RowEffect(w) /\ CopyEffect(w)
  /\ \A v \in Workers : v # w => worker'[v] = worker[v]

\* What each statement does to the columns of a row.
LEMMA RowColumns ==
  ASSUME NEW r \in Row, NEW s, NEW h, NEW copy \in Copy
  PROVE  /\ WithStatus(r, s).hash = r.hash /\ WithStatus(r, s).ext = r.ext
         /\ WithStatus(r, s).retry = r.retry /\ WithStatus(r, s).status = s
         /\ Overwritten(r, copy).hash = copy.hash /\ Overwritten(r, copy).ext = copy.ext
         /\ Overwritten(r, copy).retry = copy.retry /\ Overwritten(r, copy).status = r.status
         /\ WithHash(r, h).ext = r.ext /\ WithHash(r, h).retry = r.retry
         /\ WithHash(r, h).status = r.status
         /\ CreatedRow(1, h).status = "draft" /\ CreatedRow(1, h).retry = 0
BY DEF Row, Copy, WithStatus, Overwritten, WithHash, CreatedRow, NoRow

\* What a handler does to its copy only adds to it.
LEMMA CopyFollows ==
  ASSUME NEW c \in Copy, NEW u
  PROVE  /\ Follows(c, c)
         /\ Follows(c, WithNumber(c)) /\ WithNumber(c).ext
         /\ Follows(c, WithNumber(WithUuid(c, u))) /\ WithNumber(WithUuid(c, u)).ext
         /\ Follows(c, WithRetry(c)) /\ Follows(c, WithRetry(WithUuid(c, u)))
<1>1. c.retry \in Nat
  BY DEF Copy
<1>2. /\ WithUuid(c, u).hash = c.hash /\ WithUuid(c, u).ext = c.ext
      /\ WithUuid(c, u).retry = c.retry
  BY DEF Copy, WithUuid
<1>3. /\ WithNumber(c).hash = c.hash /\ WithNumber(c).ext /\ WithNumber(c).retry = c.retry
  BY DEF Copy, WithNumber
<1>4. /\ WithNumber(WithUuid(c, u)).hash = c.hash /\ WithNumber(WithUuid(c, u)).ext
      /\ WithNumber(WithUuid(c, u)).retry = c.retry
  BY DEF Copy, WithNumber, WithUuid
<1>5. /\ WithRetry(c).hash = c.hash /\ WithRetry(c).ext = c.ext
      /\ WithRetry(c).retry = c.retry + 1
  BY DEF Copy, WithRetry
<1>6. /\ WithRetry(WithUuid(c, u)).hash = c.hash /\ WithRetry(WithUuid(c, u)).ext = c.ext
      /\ WithRetry(WithUuid(c, u)).retry = c.retry + 1
  BY DEF Copy, WithRetry, WithUuid
<1> QED BY <1>1, <1>3, <1>4, <1>5, <1>6 DEF Follows

\* A worker that returns, goes to a call without a copy, or goes on with one
\* that follows its own.
LEMMA EffectContinue ==
  ASSUME TypeOK, NEW w \in Workers, NEW pc, NEW copy, worker[w].pc # "idle",
         Continue(w, pc, copy),
         pc \in UsesCopy =>
           \/ copy = CopyOf(row[worker[w].inv]) /\ UNCHANGED row
           \/ worker[w].pc \in UsesCopy /\ Follows(worker[w].copy, copy)
  PROVE  CopyEffect(w) /\ \A v \in Workers : v # w => worker'[v] = worker[v]
<1>1. worker'[w] = [pc |-> pc, inv |-> worker[w].inv, copy |-> copy]
  BY DEF TypeOK, Continue
<1>2. \A v \in Workers : v # w => worker'[v] = worker[v]
  BY DEF TypeOK, Continue
<1> QED BY <1>1, <1>2 DEF CopyEffect

\* A worker that is done with its job keeps no copy.
LEMMA EffectReturn ==
  ASSUME TypeOK, NEW w \in Workers, Return(w)
  PROVE  CopyEffect(w) /\ \A v \in Workers : v # w => worker'[v] = worker[v]
<1>1. worker'[w] = Idle /\ \A v \in Workers : v # w => worker'[v] = worker[v]
  BY DEF TypeOK, Return
<1> QED BY <1>1 DEF CopyEffect, Idle, UsesCopy

\* Goto keeps the copy or forgets it.
LEMMA EffectGoto ==
  ASSUME TypeOK, NEW w \in Workers, NEW pc, worker[w].pc # "idle", Goto(w, pc),
         pc \in UsesCopy => worker[w].pc \in UsesCopy
  PROVE  CopyEffect(w) /\ \A v \in Workers : v # w => worker'[v] = worker[v]
<1>1. Follows(worker[w].copy, worker[w].copy)
  <2>1. worker[w].copy \in Copy
    BY DEF TypeOK, WorkerState
  <2> QED BY <2>1, CopyFollows
<1>2. \/ Return(w)
      \/ pc \in UsesCopy /\ Continue(w, pc, worker[w].copy)
      \/ pc \notin UsesCopy /\ Continue(w, pc, NoCopy)
  BY DEF Goto
<1> QED BY <1>1, <1>2, EffectReturn, EffectContinue

\* A call that takes effect is live.
LEMMA AppliedIsLive ==
  ASSUME NEW w \in Workers, NEW ok \in BOOLEAN, NEW applied \in BOOLEAN,
         CallOutcome(w, ok, applied), applied
  PROVE  Live(w)
BY DEF CallOutcome, Live

\* A status change.
LEMMA EffectSetStatus ==
  ASSUME TypeOK, NEW w \in Workers, worker[w].pc # "idle", NEW s \in Status,
         NEW onOk, NEW onError, SetStatus(w, s, onOk, onError),
         s = "completed" => worker[w].pc \in {"complete", "pollComplete"},
         {onOk, onError} \cap UsesCopy # {} => worker[w].pc \in UsesCopy
  PROVE  WorkerEffect(w)
<1> DEFINE i == worker[w].inv
<1>1. PICK ok \in BOOLEAN, applied \in BOOLEAN :
        /\ CallOutcome(w, ok, applied)
        /\ Write(i, WithStatus(row[i], s), applied)
        /\ Goto(w, IF ok THEN onOk ELSE onError)
  BY DEF SetStatus
<1>2. CopyEffect(w) /\ \A v \in Workers : v # w => worker'[v] = worker[v]
  BY <1>1, EffectGoto
<1>3. RowEffect(w)
  BY <1>1, AppliedIsLive DEF TypeOK, RowEffect, Write
<1> QED BY <1>2, <1>3 DEF WorkerEffect

\* A copy written back.
LEMMA EffectSaveCopy ==
  ASSUME TypeOK, NEW w \in Workers, worker[w].pc \in UsesCopy, worker[w].pc # "idle",
         NEW onOk, NEW onError, SaveCopy(w, onOk, onError)
  PROVE  WorkerEffect(w)
<1> DEFINE i == worker[w].inv
<1>1. PICK ok \in BOOLEAN, applied \in BOOLEAN :
        /\ CallOutcome(w, ok, applied)
        /\ Write(i, Overwritten(row[i], worker[w].copy), applied)
        /\ Goto(w, IF ok THEN onOk ELSE onError)
  BY DEF SaveCopy
<1>2. CopyEffect(w) /\ \A v \in Workers : v # w => worker'[v] = worker[v]
  BY <1>1, EffectGoto
<1>3. RowEffect(w)
  BY <1>1, AppliedIsLive DEF TypeOK, RowEffect, Write
<1> QED BY <1>2, <1>3 DEF WorkerEffect

\* A step that reads only.
LEMMA EffectRead ==
  ASSUME NEW w \in Workers, UNCHANGED row, CopyEffect(w),
         \A v \in Workers : v # w => worker'[v] = worker[v]
  PROVE  WorkerEffect(w)
BY DEF WorkerEffect, RowEffect

\* Taking a job.
LEMMA EffectDequeue ==
  ASSUME TypeOK, NEW w \in Workers, Dequeue(w) PROVE WorkerEffect(w)
<1> DEFINE job == Head(queue)
<1>1. PICK copy : copy = NoCopy
  OBVIOUS
<1>2. worker' = [worker EXCEPT ![w] = [pc |-> FirstCall(job.type), inv |-> job.inv,
                                       copy |-> copy]]
  BY <1>1 DEF Dequeue
<1>3. worker'[w].pc = FirstCall(job.type) /\ \A v \in Workers : v # w => worker'[v] = worker[v]
  BY <1>2 DEF TypeOK
<1>4. worker'[w].pc \notin UsesCopy
  BY <1>3 DEF FirstCall, UsesCopy
<1>5. UNCHANGED row
  BY DEF Dequeue, repoVars
<1> QED BY <1>3, <1>4, <1>5, EffectRead DEF CopyEffect

\* Loading the row: the copy is fresh.
LEMMA EffectLoad ==
  ASSUME TypeOK, NEW w \in Workers, Load(w) \/ PollLoad(w) PROVE WorkerEffect(w)
<1> DEFINE copy == CopyOf(row[worker[w].inv])
<1>1. UNCHANGED row /\ worker[w].pc # "idle"
  BY DEF Load, PollLoad
<1>2. Return(w) \/ \E pc \in {"toProcessing", "items", "query"} : Continue(w, pc, copy)
  BY DEF Load, PollLoad
<1> HIDE DEF copy
<1>3. CASE Return(w)
  BY <1>1, <1>3, EffectReturn, EffectRead
<1>4. CASE \E pc \in {"toProcessing", "items", "query"} : Continue(w, pc, copy)
  BY <1>1, <1>4, EffectContinue, EffectRead DEF copy
<1> QED BY <1>2, <1>3, <1>4

\* The calls that only move on.
LEMMA EffectCall ==
  ASSUME TypeOK, NEW w \in Workers,
         LoadItems(w) \/ Record(w) \/ QueryErred(w) \/ CreateRejected(w)
  PROVE  WorkerEffect(w)
<1>1. UNCHANGED row /\ worker[w].pc # "idle"
  BY DEF LoadItems, Record, QueryErred, CreateRejected, repoVars, CreateCall
<1>2. \E pc \in {"create", "failItems", "createCut", "idle", "reject"} :
        Goto(w, pc) /\ (pc \in UsesCopy => worker[w].pc \in UsesCopy)
  BY DEF LoadItems, AfterItems, Record, QueryErred, CreateRejected, UsesCopy
<1> QED BY <1>1, <1>2, EffectGoto, EffectRead

\* The request to Viettel and the query: the copy is added to.
LEMMA EffectCreate ==
  ASSUME TypeOK, NEW w \in Workers,
         CreateAccepted(w) \/ CreateErred(w) \/ QueryAnswered(w)
  PROVE  WorkerEffect(w)
<1> DEFINE c == worker[w].copy
<1>1. /\ UNCHANGED row /\ worker[w].pc # "idle" /\ worker[w].pc \in UsesCopy
      /\ worker[w].copy \in Copy
  BY DEF CreateAccepted, CreateErred, QueryAnswered, repoVars, CreateCall, UsesCopy,
         TypeOK, WorkerState
<1>2. Return(w) \/ \E pc, copy : Continue(w, pc, copy) /\ Follows(c, copy)
  <2>1. CASE CreateAccepted(w)
    <3>1. PICK u \in Uuids :
            Return(w) \/ Continue(w, "saveNumber", WithNumber(WithUuid(c, u)))
      BY <2>1, AcceptedStep
    <3> QED BY <1>1, <3>1, CopyFollows
  <2>2. CASE CreateErred(w)
    <3>1. \/ Continue(w, "saveRetry", WithRetry(c))
          \/ \E u : Continue(w, "saveRetry", WithRetry(WithUuid(c, u)))
      BY <2>2 DEF CreateErred, RequestErred, RequestRefused
    <3> QED BY <1>1, <3>1, CopyFollows
  <2>3. CASE QueryAnswered(w)
    <3>1. Continue(w, "pollConfirm", WithNumber(c)) \/ Continue(w, "pollSave", c)
      BY <2>3 DEF QueryAnswered
    <3> QED BY <1>1, <3>1, CopyFollows
  <2> QED BY <2>1, <2>2, <2>3
<1> QED BY <1>1, <1>2, EffectReturn, EffectContinue, EffectRead

\* Every step of a worker.
LEMMA EffectWorker ==
  ASSUME TypeOK, NEW w \in Workers, WorkerNext(w) PROVE WorkerEffect(w)
<1>1. /\ {"processing", "failed", "submitted", "completed"} \subseteq Status
      /\ StatusAfterError(worker[w].copy) \in {"failed", "submitted"}
  BY DEF Status, StatusAfterError
<1>2. /\ {"idle", "record", "complete", "pollComplete"} \cap UsesCopy = {}
      /\ {"toProcessing", "saveNumber", "saveRetry", "pollSave", "pollConfirm"} \subseteq UsesCopy
  BY DEF UsesCopy
<1>3. CASE ToProcessing(w) \/ FailItems(w) \/ Reject(w) \/ Requeue(w)
  BY <1>1, <1>2, <1>3, EffectSetStatus DEF ToProcessing, FailItems, Reject, Requeue
<1>4. CASE Complete(w) \/ PollComplete(w)
  BY <1>1, <1>2, <1>4, EffectSetStatus DEF Complete, PollComplete
<1>5. CASE SaveNumber(w) \/ PollConfirm(w) \/ SaveRetry(w) \/ PollSave(w)
  BY <1>2, <1>5, EffectSaveCopy DEF SaveNumber, PollConfirm, SaveRetry, PollSave
<1> QED
  BY <1>3, <1>4, <1>5, EffectDequeue, EffectLoad, EffectCall, EffectCreate
  DEF WorkerNext, WorkerStep, Publish, Poll

-----------------------------------------------------------------------------
(* What the other steps do.                                                *)

\* The poller and Viettel leave rows, workers and requests alone.
LEMMA EffectOthers ==
  ASSUME TypeOK, PollerNext \/ \E i \in Invoices : ViettelNext(i)
  PROVE  UNCHANGED <<row, worker, client, mode, inflight>> /\ (faults' = 0 => faults = 0)
<1>1. CASE PollerNext
  BY <1>1 DEF TypeOK, PollerNext, PollerStep, PollTick, PollEnqueue, repoVars, serviceVars
<1>2. CASE \E i \in Invoices : ViettelNext(i)
  BY <1>2 DEF ViettelNext, repoVars, poolVars, serviceVars
<1> QED BY <1>1, <1>2

\* The process leaves rows alone; it leaves workers and requests alone, or
\* ends them.
LEMMA EffectProcess ==
  ASSUME TypeOK, ProcessNext
  PROVE  /\ UNCHANGED <<row, faults>>
         /\ \A w \in Workers :
              worker'[w].pc = "idle" \/ (worker'[w] = worker[w] /\ (Live(w)' => Live(w)))
         /\ \A c \in Clients : client'[c] = client[c] \/ client'[c].pc = "idle"
<1> USE DEF repoVars, poolVars, serviceVars
<1>1. CASE Signal \/ CancelPool \/ Restart
  BY <1>1 DEF Signal, CancelPool, Restart, Live
<1>2. CASE Stopped \/ ForcedExit \/ Crash
  <2>1. Gone
    BY <1>2 DEF Stopped, ForcedExit, Crash
  <2> QED BY <2>1 DEF Gone, Idle, Answered
<1> QED BY <1>1, <1>2 DEF ProcessNext

\* What a request may do to row j.
ClientEffect(c, j) ==
  \/ row'[j] = row[j]
  \/ ~Exists(j) /\ client[c].pc = "idle" /\ \E h : row'[j] = CreatedRow(1, h)
  \/ /\ j = client[c].inv /\ client[c].pc = "pay"
     /\ row'[j] = WithHash(row[j], client[c].hash)
  \/ /\ j = client[c].inv /\ client[c].pc = "submit"
     /\ row'[j] = WithStatus(row[j], "submitted")

\* Every step of a request; it goes on to write a hash only after it has
\* read a draft.
LEMMA EffectClient ==
  ASSUME TypeOK, NEW c \in Clients, ClientNext(c)
  PROVE  /\ \A j \in Invoices : ClientEffect(c, j)
         /\ UNCHANGED <<worker, mode, inflight>>
         /\ faults' = 0 => faults = 0
         /\ client'[c].pc = "pay" =>
              \/ client' = client /\ client[c].pc = "idle"
              \/ UNCHANGED row /\ row[client'[c].inv].status = "draft"
<1>1. CASE \E i \in Invoices : CreateInvoice(c, i)
  BY <1>1 DEF TypeOK, CreateInvoice, Accepting, Write, ClientEffect, poolVars, serviceVars
<1>2. CASE PayWrite(c)
  BY <1>2 DEF TypeOK, PayWrite, Write, ClientEffect, poolVars, Answered, RequestOutcome
<1>3. CASE SubmitWrite(c)
  BY <1>3 DEF TypeOK, ClientState, SubmitWrite, Write, ClientEffect, poolVars, Answered, RequestOutcome
<1>4. CASE SubmitRecord(c) \/ SubmitEnqueue(c)
  BY <1>4 DEF TypeOK, ClientState, SubmitRecord, SubmitEnqueue, ClientEffect, poolVars, repoVars,
              Answered, RequestOutcome
<1>5. CASE \E i \in Invoices : SubmitRead(c, i)
  BY <1>5 DEF TypeOK, SubmitRead, ClientEffect, poolVars, repoVars, Answered
<1>6. CASE \E i \in Invoices, h \in Hashes : PayRead(c, i, h)
  BY <1>6 DEF TypeOK, PayRead, ClientEffect, poolVars, repoVars, Answered
<1> QED BY <1>1, <1>2, <1>3, <1>4, <1>5, <1>6 DEF ClientNext, Request

-----------------------------------------------------------------------------
(* HashFrozen, for any number of workers and clients.                      *)

\* No submission falls between the two steps of UpdateTransactionHash: while a
\* payment is about to be written its invoice is a draft.  Nothing in the code
\* sees to that; late_hash is what happens otherwise.
PaymentsInTime ==
  \A c \in Clients :
    client[c].pc = "pay" => row[client[c].inv].status = "draft"

\* A copy has the hash of its row.
HashInv ==
  \A w \in Workers :
    worker[w].pc \in UsesCopy => worker[w].copy.hash = row[worker[w].inv].hash

\* The hash of rows that have left draft stays.
HashKept ==
  \A i \in Invoices : row[i].status \notin {"none", "draft"} => row'[i].hash = row[i].hash

\* Copies keep agreeing with their rows in a step that leaves the worker
\* alone and changes no hash of a submitted row.
LEMMA KeepCopyHash ==
  ASSUME TypeOK, IssuanceInv, HashInv, HashKept, NEW w \in Workers,
         worker'[w] = worker[w] \/ worker'[w].pc = "idle", worker'[w].pc \in UsesCopy
  PROVE  worker'[w].copy.hash = row'[worker'[w].inv].hash
<1>1. worker'[w] = worker[w] /\ worker[w].pc # "idle"
  BY DEF UsesCopy
<1>2. worker[w].inv \in Invoices /\ Left(worker[w].inv)
  BY <1>1 DEF TypeOK, IssuanceInv, WorkersSafe, WorkerSafe
<1> QED BY <1>1, <1>2 DEF HashInv, HashKept, Left

\* A step of a worker.
LEMMA HashWorker ==
  ASSUME TypeOK, IssuanceInv, HashInv, NEW w \in Workers, WorkerNext(w)
  PROVE  HashInv' /\ HashKept
<1>1. WorkerEffect(w) /\ UNCHANGED client
  BY EffectWorker DEF WorkerNext, serviceVars
<1>2. worker[w].pc # "idle" => worker[w].inv \in Invoices /\ Left(worker[w].inv)
  BY DEF TypeOK, IssuanceInv, WorkersSafe, WorkerSafe
<1>3. ASSUME NEW j \in Invoices PROVE row'[j].hash = row[j].hash
  <2>1. row[j] \in Row /\ worker[w].copy \in Copy
    BY DEF TypeOK, WorkerState
  <2>2. /\ \A s : WithStatus(row[j], s).hash = row[j].hash
        /\ Overwritten(row[j], worker[w].copy).hash = worker[w].copy.hash
    BY <2>1, RowColumns
  <2> QED BY <1>1, <2>2 DEF WorkerEffect, RowEffect, HashInv
<1>4. HashKept
  BY <1>3 DEF HashKept
<1>5. ASSUME NEW v \in Workers, worker'[v].pc \in UsesCopy
      PROVE  worker'[v].copy.hash = row'[worker'[v].inv].hash
  <2>1. CASE v = w
    BY <1>1, <1>2, <1>3, <1>5, <2>1
    DEF WorkerEffect, CopyEffect, CopyOf, Follows, HashInv
  <2>2. CASE v # w
    BY <1>1, <1>4, <1>5, <2>2, KeepCopyHash DEF WorkerEffect
  <2> QED BY <2>1, <2>2
<1> QED BY <1>4, <1>5 DEF HashInv

\* A step of a request.
LEMMA HashClient ==
  ASSUME PaymentsInTime, TypeOK, IssuanceInv, HashInv, NEW c \in Clients, ClientNext(c)
  PROVE  HashInv' /\ HashKept
<1>1. /\ \A j \in Invoices : ClientEffect(c, j)
      /\ UNCHANGED worker
      /\ client'[c].pc = "pay" =>
           \/ client' = client /\ client[c].pc = "idle"
           \/ UNCHANGED row /\ row[client'[c].inv].status = "draft"
  BY EffectClient
<1>2. HashKept
  <2>1. ASSUME NEW j \in Invoices, row[j].status \notin {"none", "draft"}
        PROVE  row'[j].hash = row[j].hash
    <3>1. row[j] \in Row /\ NoCopy \in Copy
      BY NoRowType DEF TypeOK
    <3> QED BY <1>1, <2>1, <3>1, RowColumns DEF ClientEffect, PaymentsInTime, Exists
  <2> QED BY <2>1 DEF HashKept
<1>3. \A w \in Workers :
        worker'[w].pc \in UsesCopy => worker'[w].copy.hash = row'[worker'[w].inv].hash
  BY <1>1, <1>2, KeepCopyHash
<1> QED BY <1>2, <1>3 DEF HashInv

\* Every step.
LEMMA HashNext ==
  ASSUME PaymentsInTime, TypeOK, IssuanceInv, HashInv, [Next]_vars
  PROVE  HashInv' /\ HashKept
<1>1. CASE \E w \in Workers : WorkerNext(w)
  BY <1>1, HashWorker
<1>2. CASE \E c \in Clients : ClientNext(c)
  BY <1>2, HashClient
<1>3. CASE \/ PollerNext \/ \E i \in Invoices : ViettelNext(i)
           \/ ProcessNext \/ UNCHANGED vars
  <2>1. /\ UNCHANGED row
        /\ \A w \in Workers : worker'[w] = worker[w] \/ worker'[w].pc = "idle"
    BY <1>3, EffectOthers, EffectProcess DEF vars, repoVars, poolVars, serviceVars
  <2>2. HashKept
    BY <2>1 DEF HashKept
  <2> QED BY <2>1, <2>2, KeepCopyHash DEF HashInv
<1> QED BY <1>1, <1>2, <1>3 DEF Next

\* The hash of an invoice that has left draft is never changed, however many
\* workers write older copies back, calls fail and stops lose the work, unless a
\* payment overlaps the submission of its invoice.
THEOREM HashIsFrozen == Spec /\ []PaymentsInTime => HashFrozen
<1>1. Init => HashInv
  BY DEF Init, PoolInit, Idle, HashInv, UsesCopy
<1>2. PaymentsInTime /\ TypeOK /\ IssuanceInv /\ HashInv /\ [Next]_vars => HashInv'
  BY HashNext
<1>3. PaymentsInTime /\ TypeOK /\ IssuanceInv /\ HashInv /\ [Next]_vars =>
        [\A i \in Invoices :
           row[i].status \notin {"none", "draft"} => row'[i].hash = row[i].hash]_vars
  BY HashNext DEF HashKept
<1> QED BY <1>1, <1>2, <1>3, InvCorrect, PTL DEF Spec, HashFrozen

-----------------------------------------------------------------------------
(* What one worker keeps of a row: its number and its retry count.         *)

\* A copy is never behind its row.
CopyInv ==
  /\ \A i \in Invoices : ~Exists(i) => row[i].retry = 0
  /\ \A w \in Workers :
       worker[w].pc \in UsesCopy =>
         /\ row[worker[w].inv].ext => worker[w].copy.ext
         /\ row[worker[w].inv].retry <= worker[w].copy.retry

\* No number is lost and no retry count goes back.
RowsGrow ==
  \A i \in Invoices : (row[i].ext => row'[i].ext) /\ row[i].retry <= row'[i].retry

\* A step of the one worker.
LEMMA CopyWorker ==
  ASSUME OneWorker, TypeOK, TypeOK', IssuanceInv, CopyInv, NEW w \in Workers, WorkerNext(w)
  PROVE  CopyInv' /\ RowsGrow
<1> DEFINE i == worker[w].inv
           c == worker[w].copy
           d == worker'[w].copy
<1>1. WorkerEffect(w)
  BY EffectWorker
<1>2. /\ worker[w].pc # "idle" => i \in Invoices /\ Left(i) /\ Exists(i)
      /\ c \in Copy /\ d \in Copy
      /\ \A j \in Invoices : row[j] \in Row
  BY DEF TypeOK, IssuanceInv, WorkersSafe, WorkerSafe, Left, Exists, WorkerState
<1>3. ASSUME NEW j \in Invoices
      PROVE  \/ row'[j] = row[j]
             \/ /\ j = i /\ Exists(j) /\ Exists(j)'
                /\ row'[j].ext = row[j].ext /\ row'[j].retry = row[j].retry
             \/ /\ j = i /\ Exists(j) /\ Exists(j)' /\ worker[w].pc \in UsesCopy
                /\ row'[j].ext = c.ext /\ row'[j].retry = c.retry
  <2>1. \A s : /\ WithStatus(row[j], s).status = s
               /\ WithStatus(row[j], s).ext = row[j].ext
               /\ WithStatus(row[j], s).retry = row[j].retry
    BY <1>2, RowColumns
  <2>2. /\ Overwritten(row[j], c).status = row[j].status
        /\ Overwritten(row[j], c).ext = c.ext /\ Overwritten(row[j], c).retry = c.retry
    BY <1>2, RowColumns
  <2>3. "idle" \notin UsesCopy /\ "none" \notin Status
    BY DEF UsesCopy, Status
  <2> QED BY <1>1, <1>2, <2>1, <2>2, <2>3 DEF WorkerEffect, RowEffect, Exists
<1>4. RowsGrow
  BY <1>2, <1>3 DEF RowsGrow, CopyInv, Row
<1>5. \A j \in Invoices : ~Exists(j)' => row'[j].retry = 0
  BY <1>3 DEF CopyInv, Exists
<1>6. ASSUME worker'[w].pc \in UsesCopy
      PROVE  /\ row'[worker'[w].inv].ext => d.ext
             /\ row'[worker'[w].inv].retry <= d.retry
  <2>1. worker'[w].inv = i /\ worker[w].pc # "idle" /\ i \in Invoices
    BY <1>1, <1>2, <1>6 DEF WorkerEffect, CopyEffect
  <2>2. CASE d = CopyOf(row[i]) /\ UNCHANGED row
    BY <1>2, <2>1, <2>2 DEF CopyOf, Row
  <2>3. CASE worker[w].pc \in UsesCopy /\ Follows(c, d)
    <3>1. /\ (row[i].ext => c.ext) /\ (c.ext => d.ext)
          /\ row[i].retry <= c.retry /\ c.retry <= d.retry
          /\ row[i].retry \in Nat /\ c.retry \in Nat /\ d.retry \in Nat
      BY <1>2, <2>1, <2>3 DEF CopyInv, Follows, Row, Copy
    <3>2. \/ row'[i] = row[i]
          \/ row'[i].ext = row[i].ext /\ row'[i].retry = row[i].retry
          \/ row'[i].ext = c.ext /\ row'[i].retry = c.retry
      BY <1>3, <2>1
    <3>3. (row'[i].ext => d.ext) /\ row'[i].retry <= d.retry
      BY <3>1, <3>2
    <3> QED BY <2>1, <3>3
  <2> QED BY <1>1, <1>6, <2>2, <2>3 DEF WorkerEffect, CopyEffect
<1>7. \A v \in Workers : v = w
  BY DEF OneWorker
<1> QED BY <1>4, <1>5, <1>6, <1>7 DEF CopyInv, Exists

\* A step that leaves the worker alone or ends it, and no row behind.
LEMMA KeepCopy ==
  ASSUME TypeOK, IssuanceInv, CopyInv,
         \A v \in Workers : worker'[v] = worker[v] \/ worker'[v].pc = "idle",
         \A j \in Invoices :
           \/ row'[j].ext = row[j].ext /\ row'[j].retry = row[j].retry
           \/ ~Exists(j) /\ row'[j].retry = 0,
         \A j \in Invoices : Exists(j) => Exists(j)'
  PROVE  CopyInv' /\ RowsGrow
<1>1. ASSUME NEW j \in Invoices
      PROVE  (row[j].ext => row'[j].ext) /\ row[j].retry <= row'[j].retry
  <2>1. row[j].retry \in Nat
    BY DEF TypeOK, Row
  <2>2. ~Exists(j) => ~row[j].ext /\ row[j].retry = 0
    <3>1. Issued(j) => Left(j)
      BY OneUuid DEF IssuanceInv, RowsSafe, Issued, IssuedUuids, Known
    <3>2. Left(j) => Exists(j)
      BY DEF Left, Exists
    <3> QED BY <3>1, <3>2 DEF IssuanceInv, RowsSafe, CopyInv
  <2> QED BY <2>1, <2>2
<1>2. \A j \in Invoices : ~Exists(j)' => row'[j].retry = 0
  BY DEF CopyInv
<1>3. ASSUME NEW v \in Workers, worker'[v].pc \in UsesCopy
      PROVE  /\ row'[worker'[v].inv].ext => worker'[v].copy.ext
             /\ row'[worker'[v].inv].retry <= worker'[v].copy.retry
  <2>1. worker'[v] = worker[v] /\ worker[v].pc # "idle"
    BY <1>3 DEF UsesCopy
  <2>2. worker[v].inv \in Invoices /\ Left(worker[v].inv)
    BY <2>1 DEF TypeOK, IssuanceInv, WorkersSafe, WorkerSafe
  <2>3. Exists(worker[v].inv)
    BY <2>2 DEF Left, Exists
  <2> QED BY <1>3, <2>1, <2>2, <2>3 DEF CopyInv
<1> QED BY <1>1, <1>2, <1>3 DEF CopyInv, RowsGrow, Exists

\* Every step.
LEMMA CopyNext ==
  ASSUME OneWorker, TypeOK, IssuanceInv, CopyInv, [Next]_vars
  PROVE  CopyInv' /\ RowsGrow
<1>1. CASE \E w \in Workers : WorkerNext(w)
  <2>1. TypeOK'
    BY NextType
  <2> QED BY <1>1, <2>1, CopyWorker
<1>2. CASE \E c \in Clients : ClientNext(c)
  <2>1. PICK c \in Clients : ClientNext(c)
    BY <1>2
  <2>2. UNCHANGED worker /\ \A j \in Invoices : ClientEffect(c, j)
    BY <2>1, EffectClient
  <2>3. ASSUME NEW j \in Invoices
        PROVE  /\ \/ row'[j].ext = row[j].ext /\ row'[j].retry = row[j].retry
                  \/ ~Exists(j) /\ row'[j].retry = 0
               /\ Exists(j) => Exists(j)'
    <3>1. row[j] \in Row /\ NoCopy \in Copy
      BY NoRowType DEF TypeOK
    <3>2. /\ \A s : /\ WithStatus(row[j], s).status = s
                    /\ WithStatus(row[j], s).ext = row[j].ext
                    /\ WithStatus(row[j], s).retry = row[j].retry
          /\ \A h : /\ WithHash(row[j], h).status = row[j].status
                    /\ WithHash(row[j], h).ext = row[j].ext
                    /\ WithHash(row[j], h).retry = row[j].retry
                    /\ CreatedRow(1, h).retry = 0 /\ CreatedRow(1, h).status = "draft"
      BY <3>1, RowColumns
    <3> QED BY <2>2, <3>2 DEF ClientEffect, Exists
  <2> QED BY <2>2, <2>3, KeepCopy
<1>3. CASE \/ PollerNext \/ \E i \in Invoices : ViettelNext(i)
           \/ ProcessNext \/ UNCHANGED vars
  <2>1. /\ UNCHANGED row
        /\ \A w \in Workers : worker'[w] = worker[w] \/ worker'[w].pc = "idle"
    BY <1>3, EffectOthers, EffectProcess DEF vars, repoVars, poolVars
  <2> QED BY <2>1, KeepCopy DEF Exists
<1> QED BY <1>1, <1>2, <1>3 DEF Next

\* The initial state.
LEMMA CopyInit == Init => CopyInv
<1>1. OldRow.retry = 0 /\ NoRow.retry = 0
  BY DEF NoRow, OldRow
<1>2. Init => \A i \in Invoices : row[i].retry = 0
  BY <1>1 DEF Init, RepoInit
<1>3. Init => \A w \in Workers : worker[w].pc \notin UsesCopy
  BY DEF Init, PoolInit, Idle, UsesCopy
<1> QED BY <1>2, <1>3 DEF CopyInv

\* With one worker, no later write erases a stored invoice number.
THEOREM NumberIsKept == ASSUME OneWorker PROVE Spec => ExternalIdStable
<1>1. TypeOK /\ IssuanceInv /\ CopyInv /\ [Next]_vars => CopyInv'
  BY CopyNext
<1>2. TypeOK /\ IssuanceInv /\ CopyInv /\ [Next]_vars =>
        [\A i \in Invoices : row[i].ext => row'[i].ext]_vars
  BY CopyNext DEF RowsGrow
<1> QED BY <1>1, <1>2, CopyInit, InvCorrect, PTL DEF Spec, ExternalIdStable

\* With one worker, no later write takes a retry count back.
THEOREM RetriesOnlyGrow == ASSUME OneWorker PROVE Spec => RetryCountMonotone
<1>1. TypeOK /\ IssuanceInv /\ CopyInv /\ [Next]_vars => CopyInv'
  BY CopyNext
<1>2. TypeOK /\ IssuanceInv /\ CopyInv /\ [Next]_vars =>
        [\A i \in Invoices : row'[i].retry >= row[i].retry]_vars
  <2> SUFFICES ASSUME TypeOK, IssuanceInv, CopyInv, [Next]_vars, NEW i \in Invoices
               PROVE  row'[i].retry >= row[i].retry
    OBVIOUS
  <2>1. TypeOK' /\ RowsGrow
    BY NextType, CopyNext
  <2> QED BY <2>1 DEF RowsGrow, TypeOK, Row
<1> QED BY <1>1, <1>2, CopyInit, InvCorrect, PTL DEF Spec, RetryCountMonotone

-----------------------------------------------------------------------------
(* CompletedHasExternalId, for one worker.                                 *)

\* Until a call fails, the number is in the copy before it is saved, in the
\* row before the status is written, and stays there.
NumberInv ==
  faults = 0 =>
    /\ \A i \in Invoices : row[i].status = "completed" => row[i].ext
    /\ \A w \in Workers :
         /\ worker[w].pc \in {"saveNumber", "pollConfirm"} => worker[w].copy.ext
         /\ worker[w].pc = "complete" => row[worker[w].inv].ext
         /\ worker[w].pc = "pollComplete" /\ Live(w) => row[worker[w].inv].ext

Numbered == {"saveNumber", "pollConfirm", "complete", "pollComplete"}

\* The calls that do not lead to a number.
LEMMA NumberOther ==
  ASSUME TypeOK, NEW w \in Workers, WorkerNext(w),
         ~(CreateAccepted(w) \/ QueryAnswered(w) \/ SaveNumber(w) \/ PollConfirm(w))
  PROVE  worker'[w].pc \notin Numbered
<1> USE DEF Numbered
<1>1. ASSUME NEW pc, Goto(w, pc) PROVE worker'[w].pc = pc
  BY <1>1 DEF TypeOK, Goto, Return, Continue, Idle
<1>2. CASE \/ ToProcessing(w) \/ FailItems(w) \/ Complete(w) \/ Reject(w) \/ Requeue(w)
           \/ PollComplete(w) \/ SaveRetry(w) \/ PollSave(w)
  BY <1>1, <1>2
  DEF ToProcessing, FailItems, Complete, Reject, Requeue, PollComplete, SaveRetry, PollSave,
      SetStatus, SaveCopy
<1>3. CASE LoadItems(w) \/ Record(w) \/ QueryErred(w) \/ CreateRejected(w)
  BY <1>1, <1>3 DEF LoadItems, AfterItems, Record, QueryErred, CreateRejected
<1>4. CASE Load(w) \/ PollLoad(w) \/ CreateErred(w)
  <2>1. \/ Return(w)
        \/ \E pc \in {"toProcessing", "items", "query", "saveRetry"} :
             \E copy : Continue(w, pc, copy)
    BY <1>4 DEF Load, PollLoad, CreateErred, RequestRefused, RequestErred
  <2> QED BY <2>1 DEF TypeOK, Return, Continue, Idle
<1>5. CASE Dequeue(w)
  <2>1. PICK inv, copy :
          worker' = [worker EXCEPT ![w] = [pc |-> FirstCall(Head(queue).type), inv |-> inv,
                                           copy |-> copy]]
    BY <1>5 DEF Dequeue
  <2>2. worker'[w].pc = FirstCall(Head(queue).type)
    BY <2>1 DEF TypeOK
  <2> QED BY <2>2 DEF FirstCall
<1> QED
  BY <1>2, <1>3, <1>4, <1>5 DEF WorkerNext, WorkerStep, Publish, Poll

\* A call that failed is not forgotten.
LEMMA NumberFaults ==
  ASSUME TypeOK, NEW w \in Workers, WorkerNext(w) PROVE faults' = 0 => faults = 0
<1>1. (\E ok, applied \in BOOLEAN : CallOutcome(w, ok, applied)) => (faults' = 0 => faults = 0)
  BY DEF CallOutcome, TypeOK
<1>2. \/ UNCHANGED faults
      \/ \E ok, applied \in BOOLEAN : CallOutcome(w, ok, applied)
  BY DEF WorkerNext, WorkerStep, Publish, Poll, Dequeue, Load, ToProcessing, LoadItems, FailItems,
         CreateAccepted, CreateRejected, CreateErred, SaveNumber, Complete, Record, Reject,
         SaveRetry, Requeue, PollLoad, QueryAnswered, QueryErred, PollSave, PollConfirm,
         PollComplete, SetStatus, SaveCopy, repoVars
<1> QED BY <1>1, <1>2

\* What leads to a number: the answer puts it in the copy, the write in the row.
LEMMA NumberEffect ==
  ASSUME TypeOK, NumberInv, NEW w \in Workers, WorkerNext(w), faults' = 0
  PROVE  /\ worker'[w].pc \in {"saveNumber", "pollConfirm"} => worker'[w].copy.ext
         /\ worker'[w].pc = "complete" => row'[worker'[w].inv].ext
         /\ worker'[w].pc = "pollComplete" /\ Live(w)' => row'[worker'[w].inv].ext
<1> DEFINE i == worker[w].inv
           c == worker[w].copy
<1>1. faults = 0 /\ c \in Copy
  BY NumberFaults DEF TypeOK, WorkerState
<1>2. CASE CreateAccepted(w) \/ QueryAnswered(w)
  <2>1. Return(w) \/ \E pc \in {"saveNumber", "pollConfirm", "pollSave"} : \E copy :
          Continue(w, pc, copy) /\ (pc # "pollSave" => copy.ext)
    <3>1. CASE CreateAccepted(w)
      BY <1>1, <3>1, AcceptedStep, CopyFollows
    <3>2. CASE QueryAnswered(w)
      BY <1>1, <3>2, CopyFollows DEF QueryAnswered
    <3> QED BY <1>2, <3>1, <3>2
  <2>2. CASE Return(w)
    BY <2>2 DEF TypeOK, Return, Idle
  <2>3. CASE \E pc \in {"saveNumber", "pollConfirm", "pollSave"} : \E copy :
               Continue(w, pc, copy) /\ (pc # "pollSave" => copy.ext)
    BY <2>3 DEF TypeOK, Continue
  <2> QED BY <2>1, <2>2, <2>3
<1>3. CASE SaveNumber(w) \/ PollConfirm(w)
  <2>1. PICK onOk \in {"complete", "pollComplete"}, onError \in {"idle", "pollComplete"} :
          /\ onOk = "complete" <=> onError = "idle"
          /\ SaveCopy(w, onOk, onError)
    BY <1>3 DEF SaveNumber, PollConfirm
  <2>2. PICK ok \in BOOLEAN, applied \in BOOLEAN :
          /\ CallOutcome(w, ok, applied)
          /\ Write(i, Overwritten(row[i], c), applied)
          /\ Goto(w, IF ok THEN onOk ELSE onError)
    BY <2>1 DEF SaveCopy
  <2>3. c.ext /\ i \in Invoices /\ row[i] \in Row
    BY <1>1, <1>3 DEF NumberInv, TypeOK, SaveNumber, PollConfirm
  <2>4. worker'[w].pc = (IF ok THEN onOk ELSE onError)
        /\ (worker'[w].pc # "idle" => worker'[w].inv = i)
    BY <2>2 DEF TypeOK, Goto, Return, Continue, Idle
  <2>5. applied => row'[i].ext
    <3>1. Overwritten(row[i], c).ext = c.ext
      BY <1>1, <2>3, RowColumns
    <3> QED BY <2>2, <2>3, <3>1 DEF Write, TypeOK
  <2>6. ok \/ ~Live(w)'
    BY <1>1, <2>1, <2>2 DEF CallOutcome, SaveCopy, Live
  <2>7. ok => applied
    BY <2>2 DEF CallOutcome
  <2> QED BY <2>1, <2>4, <2>5, <2>6, <2>7
<1> QED BY <1>2, <1>3, NumberOther DEF Numbered

\* A step of the one worker.
LEMMA NumberWorker ==
  ASSUME OneWorker, TypeOK, CopyInv, NumberInv, NEW w \in Workers, WorkerNext(w)
  PROVE  NumberInv'
<1> SUFFICES ASSUME faults' = 0 PROVE NumberInv'
  BY DEF NumberInv
<1>1. faults = 0 /\ WorkerEffect(w)
  BY NumberFaults, EffectWorker
<1>2. ASSUME NEW j \in Invoices, row'[j].status = "completed" PROVE row'[j].ext
  <2>1. row[j] \in Row /\ worker[w].copy \in Copy
    BY DEF TypeOK, WorkerState
  <2>2. /\ \A s : /\ WithStatus(row[j], s).status = s
                  /\ WithStatus(row[j], s).ext = row[j].ext
        /\ Overwritten(row[j], worker[w].copy).status = row[j].status
        /\ Overwritten(row[j], worker[w].copy).ext = worker[w].copy.ext
    BY <2>1, RowColumns
  <2>3. /\ row[j].status = "completed" => row[j].ext
        /\ worker[w].pc \in {"complete", "pollComplete"} /\ Live(w) /\ j = worker[w].inv => row[j].ext
        /\ worker[w].pc \in UsesCopy /\ j = worker[w].inv /\ row[j].ext => worker[w].copy.ext
    BY <1>1 DEF NumberInv, CopyInv
  <2> QED BY <1>1, <1>2, <2>2, <2>3 DEF WorkerEffect, RowEffect
<1>3. \A v \in Workers : v = w
  BY DEF OneWorker
<1> QED BY <1>2, <1>3, NumberEffect DEF NumberInv, Live

\* Any other step.
LEMMA NumberKeep ==
  ASSUME TypeOK, RowsGrow, NumberInv, faults' = 0 => faults = 0,
         \A j \in Invoices : row'[j].status = "completed" => row[j].status = "completed",
         \A v \in Workers :
           worker'[v].pc = "idle" \/ (worker'[v] = worker[v] /\ (Live(v)' => Live(v)))
  PROVE  NumberInv'
<1> SUFFICES ASSUME faults' = 0 PROVE NumberInv'
  BY DEF NumberInv
<1>1. \A j \in Invoices : row'[j].status = "completed" => row'[j].ext
  BY DEF NumberInv, RowsGrow
<1>2. ASSUME NEW v \in Workers
      PROVE  /\ worker'[v].pc \in {"saveNumber", "pollConfirm"} => worker'[v].copy.ext
             /\ worker'[v].pc = "complete" => row'[worker'[v].inv].ext
             /\ worker'[v].pc = "pollComplete" /\ Live(v)' => row'[worker'[v].inv].ext
  <2>1. worker[v].pc # "idle" => worker[v].inv \in Invoices
    BY DEF TypeOK
  <2> QED BY <2>1 DEF NumberInv, RowsGrow
<1> QED BY <1>1, <1>2 DEF NumberInv, Live

\* Every step.
LEMMA NumberNext ==
  ASSUME OneWorker, TypeOK, IssuanceInv, CopyInv, NumberInv, [Next]_vars PROVE NumberInv'
<1>1. RowsGrow
  BY CopyNext
<1>2. CASE \E w \in Workers : WorkerNext(w)
  BY <1>2, NumberWorker
<1>3. CASE \E c \in Clients : ClientNext(c)
  <2>1. PICK c \in Clients : ClientNext(c)
    BY <1>3
  <2>2. /\ UNCHANGED <<worker, mode, inflight>> /\ (faults' = 0 => faults = 0)
        /\ \A j \in Invoices : ClientEffect(c, j)
    BY <2>1, EffectClient
  <2>3. ASSUME NEW j \in Invoices, row'[j].status = "completed" PROVE row[j].status = "completed"
    <3>1. row[j] \in Row /\ NoCopy \in Copy
      BY NoRowType DEF TypeOK
    <3>2. /\ \A s : WithStatus(row[j], s).status = s
          /\ \A h : WithHash(row[j], h).status = row[j].status
                    /\ CreatedRow(1, h).status = "draft"
      BY <3>1, RowColumns
    <3> QED BY <2>2, <2>3, <3>2 DEF ClientEffect
  <2> QED BY <1>1, <2>2, <2>3, NumberKeep DEF Live
<1>4. CASE PollerNext \/ (\E i \in Invoices : ViettelNext(i)) \/ UNCHANGED vars
  <2>1. UNCHANGED <<row, worker, mode, inflight>> /\ (faults' = 0 => faults = 0)
    BY <1>4, EffectOthers DEF vars, repoVars, poolVars
  <2> QED BY <1>1, <2>1, NumberKeep DEF Live
<1>5. CASE ProcessNext
  BY <1>1, <1>5, EffectProcess, NumberKeep
<1> QED BY <1>2, <1>3, <1>4, <1>5 DEF Next

\* With one worker, and until a database call fails, a completed invoice
\* carries its invoice number.
THEOREM CompletedIsNumbered == ASSUME OneWorker PROVE Spec => []CompletedHasExternalId
<1>1. Init => NumberInv
  <2>1. NoRow.status = "none" /\ OldRow.status = "processing"
    BY DEF NoRow, OldRow
  <2>2. Init => \A i \in Invoices : row[i].status # "completed"
    BY <2>1 DEF Init, RepoInit
  <2>3. Init => \A w \in Workers : worker[w].pc = "idle"
    BY DEF Init, PoolInit, Idle
  <2> QED BY <2>2, <2>3 DEF NumberInv
<1>2. TypeOK /\ IssuanceInv /\ CopyInv /\ [Next]_vars => CopyInv'
  BY CopyNext
<1>3. TypeOK /\ IssuanceInv /\ CopyInv /\ NumberInv /\ [Next]_vars => NumberInv'
  BY NumberNext
<1>4. NumberInv => CompletedHasExternalId
  BY DEF NumberInv, CompletedHasExternalId
<1> QED BY <1>1, <1>2, <1>3, <1>4, CopyInit, InvCorrect, PTL DEF Spec
=============================================================================
