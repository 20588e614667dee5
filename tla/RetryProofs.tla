----------------------------- MODULE RetryProofs ------------------------------
(***************************************************************************)
(* Proofs of what a submission may cost and of what it may undo, for one   *)
(* worker: how often an invoice is tried, and that a completed one is not  *)
(* reopened.                                                               *)
(***************************************************************************)
EXTENDS CopyProofs, FiniteSetTheorems

USE DEF viettelVars

-----------------------------------------------------------------------------
(* Submissions under way.                                                  *)

\* The requests that have passed the check of a submission of i and have not
\* written its status yet.
Submitting(i) == {c \in Clients : client[c].pc = "submit" /\ client[c].inv = i}

\* They are counted; once i has left draft one more submission is.
SubmitInv ==
  \A i \in Invoices :
    /\ IsFiniteSet(Submitting(i))
    /\ Cardinality(Submitting(i)) <= submits[i]
    /\ Readable(i) /\ Left(i) => Cardinality(Submitting(i)) < submits[i]
    /\ ~Readable(i) => Submitting(i) = {}

\* What the other steps of a request do to it.
LEMMA NoSubmission ==
  ASSUME TypeOK, NEW c \in Clients, ClientNext(c), ~SubmitWrite(c),
         \A i \in Invoices : ~SubmitRead(c, i)
  PROVE  /\ UNCHANGED submits
         /\ \A i \in Invoices : Submitting(i)' = Submitting(i)
<1>1. /\ \A d \in Clients : d # c => client'[d] = client[d]
      /\ client[c].pc # "submit" /\ client'[c].pc # "submit"
  <2>1. CASE \E i \in Invoices : CreateInvoice(c, i)
    BY <2>1 DEF CreateInvoice, Accepting, serviceVars
  <2>2. CASE PayWrite(c)
    BY <2>2 DEF TypeOK, PayWrite, Answered
  <2>3. CASE SubmitRecord(c) \/ SubmitEnqueue(c)
    BY <2>3 DEF TypeOK, ClientState, SubmitRecord, SubmitEnqueue, Answered
  <2>4. CASE \E i \in Invoices, h \in Hashes : PayRead(c, i, h)
    BY <2>4 DEF TypeOK, PayRead, Accepting, Answered
  <2> QED BY <2>1, <2>2, <2>3, <2>4 DEF ClientNext, Request
<1>2. UNCHANGED submits
  BY DEF ClientNext, Request, CreateInvoice, PayRead, PayWrite, SubmitRecord, SubmitEnqueue,
         serviceVars
<1> QED BY <1>1, <1>2 DEF Submitting

\* A submission begins.
LEMMA SubmissionBegins ==
  ASSUME TypeOK, SubmitInv, NEW c \in Clients, NEW i \in Invoices, SubmitRead(c, i)
  PROVE  /\ Readable(i) /\ UNCHANGED row
         /\ submits' = [submits EXCEPT ![i] = @ + 1]
         /\ IsFiniteSet(Submitting(i)')
         /\ Cardinality(Submitting(i)') = Cardinality(Submitting(i)) + 1
         /\ \A j \in Invoices \ {i} : Submitting(j)' = Submitting(j)
<1>1. /\ client[c].pc = "idle" /\ client'[c].pc = "submit" /\ client'[c].inv = i
      /\ \A d \in Clients : d # c => client'[d] = client[d]
  BY DEF TypeOK, SubmitRead, Accepting, Answered
<1>2. Submitting(i)' = Submitting(i) \cup {c} /\ c \notin Submitting(i)
  BY <1>1 DEF Submitting
<1>3. \A j \in Invoices \ {i} : Submitting(j)' = Submitting(j)
  BY <1>1 DEF Submitting
<1>4. IsFiniteSet(Submitting(i))
  BY DEF SubmitInv
<1>5. /\ IsFiniteSet(Submitting(i) \cup {c})
      /\ Cardinality(Submitting(i) \cup {c}) = Cardinality(Submitting(i)) + 1
  BY <1>2, <1>4, FS_AddElement
<1>6. /\ Readable(i) /\ UNCHANGED row
      /\ submits' = [submits EXCEPT ![i] = @ + 1]
  BY DEF SubmitRead, repoVars
<1> QED BY <1>2, <1>3, <1>5, <1>6

\* A submission writes its status.
LEMMA SubmissionWrites ==
  ASSUME TypeOK, SubmitInv, NEW c \in Clients, SubmitWrite(c), NEW i, i = client[c].inv
  PROVE  /\ UNCHANGED submits
         /\ i \in Invoices /\ Readable(i)
         /\ IsFiniteSet(Submitting(i)')
         /\ Cardinality(Submitting(i)') = Cardinality(Submitting(i)) - 1
         /\ \A j \in Invoices \ {i} : Submitting(j)' = Submitting(j)
<1>1. /\ client[c].pc = "submit" /\ client'[c].pc # "submit" /\ UNCHANGED submits
      /\ \A d \in Clients : d # c => client'[d] = client[d]
      /\ i \in Invoices
  BY DEF TypeOK, ClientState, SubmitWrite, Answered
<1>2. Submitting(i)' = Submitting(i) \ {c} /\ c \in Submitting(i)
  BY <1>1 DEF Submitting
<1>3. ASSUME NEW j \in Invoices \ {i} PROVE Submitting(j)' = Submitting(j)
  BY <1>1 DEF Submitting
<1>4. IsFiniteSet(Submitting(i)) /\ Readable(i)
  BY <1>1, <1>2 DEF SubmitInv
<1>5. /\ IsFiniteSet(Submitting(i) \ {c})
      /\ Cardinality(Submitting(i) \ {c}) = Cardinality(Submitting(i)) - 1
  BY <1>2, <1>4, FS_RemoveElement
<1> QED BY <1>1, <1>2, <1>3, <1>4, <1>5

\* The invariant for an invoice whose submissions stay or end.
LEMMA KeepSubmit ==
  ASSUME SubmitInv, TypeOK, UNCHANGED submits, NEW i \in Invoices,
         Submitting(i)' = Submitting(i) \/ Submitting(i)' = {}, Left(i)' => Left(i)
  PROVE  /\ IsFiniteSet(Submitting(i)')
         /\ Cardinality(Submitting(i)') <= submits'[i]
         /\ Readable(i) /\ Left(i)' => Cardinality(Submitting(i)') < submits'[i]
         /\ ~Readable(i) => Submitting(i)' = {}
<1>1. submits[i] \in Nat /\ Cardinality(Submitting(i)) \in Nat
  BY FS_CardinalityType DEF TypeOK, SubmitInv
<1>2. IsFiniteSet({}) /\ Cardinality({}) = 0
  BY FS_EmptySet
<1> QED BY <1>1, <1>2 DEF SubmitInv

\* A request leaves no draft unless it submits it.
LEMMA LeavesDraft ==
  ASSUME TypeOK, NEW c \in Clients, NEW j \in Invoices, ClientEffect(c, j),
         client[c].pc # "submit" \/ j # client[c].inv, Left(j)'
  PROVE  Left(j)
<1>1. row[j] \in Row /\ NoCopy \in Copy
  BY NoRowType DEF TypeOK
<1>2. \A h : WithHash(row[j], h).status = row[j].status /\ CreatedRow(1, h).status = "draft"
  BY <1>1, RowColumns
<1> QED BY <1>2 DEF ClientEffect, Left

\* A worker leaves no draft.
LEMMA WorkerLeavesDraft ==
  ASSUME TypeOK, IssuanceInv, NEW w \in Workers, WorkerNext(w), NEW j \in Invoices, Left(j)'
  PROVE  Left(j)
<1>1. WorkerEffect(w)
  BY EffectWorker
<1>2. worker[w].pc # "idle" => Left(worker[w].inv)
  BY DEF IssuanceInv, WorkersSafe, WorkerSafe
<1>3. "idle" \notin UsesCopy
  BY DEF UsesCopy
<1> QED BY <1>1, <1>2, <1>3 DEF WorkerEffect, RowEffect, Left

\* Every step.
LEMMA SubmitNext ==
  ASSUME TypeOK, IssuanceInv, SubmitInv, [Next]_vars
  PROVE  SubmitInv'
<1>1. CASE \E w \in Workers : WorkerNext(w)
  <2>1. UNCHANGED <<client, submits>> /\ \A j \in Invoices : Left(j)' => Left(j)
    BY <1>1, WorkerLeavesDraft DEF WorkerNext, serviceVars
  <2>2. \A j \in Invoices : Submitting(j)' = Submitting(j)
    BY <2>1 DEF Submitting
  <2> QED BY <2>1, <2>2, KeepSubmit DEF SubmitInv
<1>2. CASE \E c \in Clients : ClientNext(c)
  <2>1. PICK c \in Clients : ClientNext(c)
    BY <1>2
  <2>2. \A j \in Invoices : ClientEffect(c, j)
    BY <2>1, EffectClient
  <2>3. CASE ~SubmitWrite(c) /\ \A i \in Invoices : ~SubmitRead(c, i)
    <3>1. UNCHANGED submits /\ \A j \in Invoices : Submitting(j)' = Submitting(j)
      BY <2>1, <2>3, NoSubmission
    <3>2. client[c].pc # "submit"
      BY <2>1, <2>3
      DEF ClientNext, Request, CreateInvoice, PayRead, PayWrite, SubmitRecord, SubmitEnqueue,
          Accepting
    <3>3. \A j \in Invoices : Left(j)' => Left(j)
      BY <2>2, <3>2, LeavesDraft
    <3> QED BY <3>1, <3>3, KeepSubmit DEF SubmitInv
  <2>4. CASE \E i \in Invoices : SubmitRead(c, i)
    <3>1. PICK i \in Invoices : SubmitRead(c, i)
      BY <2>4
    <3>2. /\ Readable(i) /\ UNCHANGED row
          /\ submits' = [submits EXCEPT ![i] = @ + 1]
          /\ IsFiniteSet(Submitting(i)')
          /\ Cardinality(Submitting(i)') = Cardinality(Submitting(i)) + 1
          /\ \A j \in Invoices \ {i} : Submitting(j)' = Submitting(j)
      BY <3>1, SubmissionBegins
    <3>3. submits'[i] = submits[i] + 1 /\ \A j \in Invoices \ {i} : submits'[j] = submits[j]
      BY <3>2 DEF TypeOK
    <3>4. submits[i] \in Nat /\ Cardinality(Submitting(i)) \in Nat
      BY FS_CardinalityType DEF TypeOK, SubmitInv
    <3> QED BY <3>2, <3>3, <3>4 DEF SubmitInv, Left
  <2>5. CASE SubmitWrite(c)
    <3>0. PICK i : i = client[c].inv
      OBVIOUS
    <3>1. /\ UNCHANGED submits /\ i \in Invoices /\ Readable(i)
          /\ IsFiniteSet(Submitting(i)')
          /\ Cardinality(Submitting(i)') = Cardinality(Submitting(i)) - 1
          /\ \A j \in Invoices \ {i} : Submitting(j)' = Submitting(j)
      BY <2>5, <3>0, SubmissionWrites
    <3>2. \A j \in Invoices \ {i} : Left(j)' => Left(j)
      BY <2>2, <3>0, LeavesDraft
    <3>3. submits[i] \in Nat /\ Cardinality(Submitting(i)) \in Nat
      BY <3>1, FS_CardinalityType DEF TypeOK, SubmitInv
    <3>4. Cardinality(Submitting(i)) <= submits[i]
      BY <3>1 DEF SubmitInv
    <3>5. Cardinality(Submitting(i)') < submits'[i]
      BY <3>1, <3>3, <3>4
    <3> QED BY <3>1, <3>2, <3>3, <3>5 DEF SubmitInv
  <2> QED BY <2>3, <2>4, <2>5
<1>3. CASE \/ PollerNext \/ (\E i \in Invoices : ViettelNext(i)) \/ UNCHANGED vars
  <2>1. UNCHANGED <<row, client, submits>>
    BY <1>3, EffectOthers
    DEF vars, repoVars, serviceVars, PollerNext, ViettelNext
  <2>2. \A j \in Invoices : Submitting(j)' = Submitting(j) /\ (Left(j)' => Left(j))
    BY <2>1 DEF Submitting, Left
  <2> QED BY <2>1, <2>2, KeepSubmit DEF SubmitInv
<1>4. CASE ProcessNext
  <2>1. UNCHANGED <<row, submits>>
    BY <1>4 DEF ProcessNext, Signal, CancelPool, Stopped, ForcedExit, Crash, Gone, Restart,
                repoVars, serviceVars
  <2>2. UNCHANGED client \/ \A c \in Clients : client'[c].pc = "idle"
    BY <1>4 DEF ProcessNext, Signal, CancelPool, Stopped, ForcedExit, Crash, Gone, Restart,
                serviceVars, Answered
  <2>3. \A j \in Invoices :
          (Submitting(j)' = Submitting(j) \/ Submitting(j)' = {}) /\ (Left(j)' => Left(j))
    BY <2>1, <2>2 DEF Submitting, Left
  <2> QED BY <2>1, <2>3, KeepSubmit DEF SubmitInv
<1> QED BY <1>1, <1>2, <1>3, <1>4 DEF Next

\* The initial state.
LEMMA SubmitInit == Init => SubmitInv
<1> SUFFICES ASSUME Init PROVE SubmitInv
  OBVIOUS
<1>1. \A c \in Clients : client[c].pc = "idle"
  BY DEF Init, ServiceInit, Answered
<1>2. ASSUME NEW i \in Invoices
      PROVE  Submitting(i) = {} /\ submits[i] = 0 /\ (Readable(i) => ~Left(i))
  <2>1. Readable(i) => row[i].status = "none"
    BY DEF Init, RepoInit, Readable, NoRow
  <2> QED BY <1>1, <2>1 DEF Init, ServiceInit, Submitting, Left
<1>3. IsFiniteSet({}) /\ Cardinality({}) = 0
  BY FS_EmptySet
<1>4. \A i \in Invoices : /\ IsFiniteSet(Submitting(i)) /\ Submitting(i) = {}
                           /\ Cardinality(Submitting(i)) = 0
  BY <1>2, <1>3
<1>5. ASSUME NEW i \in Invoices
      PROVE  /\ Cardinality(Submitting(i)) <= submits[i]
             /\ Readable(i) /\ Left(i) => Cardinality(Submitting(i)) < submits[i]
             /\ ~Readable(i) => Submitting(i) = {}
  <2>1. Cardinality(Submitting(i)) = 0 /\ submits[i] = 0
    BY <1>2, <1>4
  <2>2. Cardinality(Submitting(i)) <= submits[i]
    BY <2>1
  <2> QED BY <1>2, <1>4, <2>2
<1> QED BY <1>4, <1>5 DEF SubmitInv
-----------------------------------------------------------------------------
(* What the calls of a worker do to status and retry count.                *)

\* The calls of an attempt to publish, from the one that reads the lines to
\* the last that depends on Viettel's answer.
AttemptPc == {"items", "failItems", "create", "createCut", "reject", "saveRetry",
              "saveNumber", "complete"}

\* Those after which the status is not completed.
OpenPc == (AttemptPc \ {"saveNumber", "complete"}) \cup {"toProcessing", "requeue"}

Unit(b) == IF b THEN 1 ELSE 0

\* A row being published is open, and its retry count is the one in the copy,
\* which gets ahead of it while it has still to be saved.
OpenInv ==
  \A w \in Workers :
    LET r == row[worker[w].inv] IN
    /\ worker[w].pc \in OpenPc => r.status # "completed"
    /\ worker[w].pc = "toProcessing" => r.status = "submitted"
    /\ worker[w].pc \in UsesCopy \ {"requeue"} =>
         worker[w].copy.retry <= r.retry + Unit(worker[w].pc = "saveRetry")

(* A call of worker w, about invoice i, is of one of these kinds.          *)

\* It is no part of an attempt, or the load that begins one.
Aside(w, i) ==
  /\ worker[w].pc \notin AttemptPc \cup {"requeue", "toProcessing", "idle"}
  /\ worker'[w].pc \in {"idle", "toProcessing", "query", "pollSave", "pollConfirm",
                        "pollComplete"}
  /\ worker'[w].pc = "toProcessing" => row[i].status = "submitted"
  /\ row'[i].status \in {row[i].status, "completed"}
  /\ \/ row'[i].retry = row[i].retry
     \/ worker[w].pc \in UsesCopy /\ row'[i].retry = worker[w].copy.retry
  /\ worker'[w].pc \in UsesCopy =>
       /\ row'[i] = row[i]
       /\ \/ worker'[w].copy.retry = row[i].retry
          \/ worker[w].pc \in UsesCopy /\ worker'[w].copy.retry = worker[w].copy.retry

\* The status was loaded as processing: the attempt begins at once.
Resumes(w, i) ==
  /\ worker[w].pc = "load" /\ worker'[w].pc = "items"
  /\ row[i].status = "processing" /\ mode # "draining"
  /\ row'[i] = row[i] /\ worker'[w].copy.retry = row[i].retry

\* The status is set to processing.
Begins(w, i) ==
  /\ worker[w].pc = "toProcessing"
  /\ row'[i].retry = row[i].retry
  /\ \/ /\ worker'[w].pc = "items" /\ row'[i].status = "processing"
        /\ worker'[w].copy.retry = worker[w].copy.retry
     \/ worker'[w].pc = "idle" /\ row'[i].status \in {row[i].status, "processing"}

\* The attempt goes on.
Within(w, i) ==
  /\ worker[w].pc \in AttemptPc \ {"saveRetry"} /\ worker'[w].pc \in AttemptPc
  /\ worker'[w].pc \in OpenPc => worker[w].pc \in OpenPc
  /\ row'[i].status = row[i].status
  /\ \/ row'[i].retry = row[i].retry
     \/ worker[w].pc = "saveNumber" /\ row'[i].retry = worker[w].copy.retry
  /\ worker'[w].pc \in UsesCopy =>
       /\ row'[i].retry = row[i].retry /\ worker[w].pc \in UsesCopy
       /\ worker'[w].copy.retry \in Nat
       /\ worker'[w].copy.retry <= worker[w].copy.retry + Unit(worker'[w].pc = "saveRetry")

\* It ends without a retry.
Ends(w, i) ==
  /\ worker[w].pc \in AttemptPc \ {"saveRetry"}
  /\ worker'[w].pc \in {"idle", "record"}
  /\ \/ row'[i].status \in {row[i].status, "completed"}
     \/ row'[i].status = "failed" /\ worker[w].pc \in OpenPc
  /\ \/ row'[i].retry = row[i].retry
     \/ worker[w].pc = "saveNumber" /\ row'[i].retry = worker[w].copy.retry

\* It has failed: the count is saved ...
Counts(w, i) ==
  /\ worker[w].pc = "saveRetry" /\ worker'[w].pc = "requeue"
  /\ row'[i].status = row[i].status
  /\ row'[i].retry \in {row[i].retry, worker[w].copy.retry}

\* ... and the status that follows from it.
Decides(w, i) ==
  /\ worker[w].pc = "requeue" /\ worker'[w].pc = "idle"
  /\ row'[i].retry = row[i].retry
  /\ \/ row'[i].status = StatusAfterError(worker[w].copy)
     \/ row'[i].status = row[i].status /\ (faults' = 0 => mode = "draining")

Kind(w, i) == \/ Aside(w, i) \/ Resumes(w, i) \/ Begins(w, i) \/ Within(w, i) \/ Ends(w, i)
              \/ Counts(w, i) \/ Decides(w, i)

\* Besides, it leaves the queue, the poller, the mode and the other rows alone.
LeavesRest(w, i) ==
  /\ UNCHANGED <<queue, batch, mode, client, submits>>
  /\ worker'[w].pc # "idle" => worker'[w].inv = i
  /\ \A j \in Invoices \ {i} : row'[j] = row[j]

\* The handler goes on.
LEMMA KindContinue ==
  ASSUME TypeOK, NEW w \in Workers, NEW pc, NEW copy, Continue(w, pc, copy)
  PROVE  /\ worker'[w].pc = pc /\ worker'[w].inv = worker[w].inv
         /\ worker'[w].copy = copy
BY DEF TypeOK, Continue

\* Goto goes there, with the copy it had.
LEMMA KindGoto ==
  ASSUME TypeOK, NEW w \in Workers, NEW pc, Goto(w, pc)
  PROVE  /\ worker'[w].pc = pc
         /\ pc # "idle" => worker'[w].inv = worker[w].inv
         /\ pc \in UsesCopy => worker'[w].copy = worker[w].copy
BY DEF TypeOK, Goto, Return, Continue, Idle, UsesCopy

\* A status change.
LEMMA KindSetStatus ==
  ASSUME TypeOK, NEW w \in Workers, worker[w].pc # "idle", NEW s \in Status,
         NEW onOk, NEW onError, SetStatus(w, s, onOk, onError), UNCHANGED <<client, submits>>,
         NEW i, i = worker[w].inv
  PROVE  /\ LeavesRest(w, i)
         /\ row'[i].retry = row[i].retry
         /\ \/ worker'[w].pc = onOk /\ row'[i].status = s
            \/ /\ worker'[w].pc = onError /\ row'[i].status \in {row[i].status, s}
               /\ faults' = 0 => mode = "draining"
         /\ worker'[w].pc \in UsesCopy => worker'[w].copy = worker[w].copy
<1>1. PICK ok \in BOOLEAN, applied \in BOOLEAN :
        /\ CallOutcome(w, ok, applied)
        /\ Write(i, WithStatus(row[i], s), applied)
        /\ Goto(w, IF ok THEN onOk ELSE onError)
        /\ UNCHANGED <<queue, batch, mode>>
  BY DEF SetStatus
<1>2. i \in Invoices /\ row[i] \in Row
  BY DEF TypeOK
<1>3. WithStatus(row[i], s).status = s /\ WithStatus(row[i], s).retry = row[i].retry
  <2>1. NoCopy \in Copy
    BY NoRowType
  <2> QED BY <1>2, <2>1, RowColumns
<1>4. /\ row'[i] = IF applied THEN WithStatus(row[i], s) ELSE row[i]
      /\ \A j \in Invoices \ {i} : row'[j] = row[j]
  BY <1>1, <1>2 DEF Write, TypeOK
<1>5. (ok => applied) /\ (faults' = 0 => ok \/ mode = "draining")
  BY <1>1 DEF CallOutcome, TypeOK
<1>6. /\ worker'[w].pc = IF ok THEN onOk ELSE onError
      /\ worker'[w].pc # "idle" => worker'[w].inv = i
      /\ worker'[w].pc \in UsesCopy => worker'[w].copy = worker[w].copy
  BY <1>1, KindGoto
<1> QED BY <1>1, <1>3, <1>4, <1>5, <1>6 DEF LeavesRest

\* A copy written back.
LEMMA KindSaveCopy ==
  ASSUME TypeOK, NEW w \in Workers, worker[w].pc # "idle",
         NEW onOk, NEW onError, SaveCopy(w, onOk, onError), UNCHANGED <<client, submits>>,
         NEW i, i = worker[w].inv
  PROVE  /\ LeavesRest(w, i)
         /\ row'[i].status = row[i].status
         /\ row'[i].retry \in {row[i].retry, worker[w].copy.retry}
         /\ worker'[w].pc \in {onOk, onError}
         /\ worker'[w].pc \in UsesCopy => worker'[w].copy = worker[w].copy
<1>1. PICK ok \in BOOLEAN, applied \in BOOLEAN :
        /\ Write(i, Overwritten(row[i], worker[w].copy), applied)
        /\ Goto(w, IF ok THEN onOk ELSE onError)
        /\ UNCHANGED <<queue, batch, mode>>
  BY DEF SaveCopy
<1>2. i \in Invoices /\ row[i] \in Row /\ worker[w].copy \in Copy
  BY DEF TypeOK, WorkerState
<1>3. /\ Overwritten(row[i], worker[w].copy).status = row[i].status
      /\ Overwritten(row[i], worker[w].copy).retry = worker[w].copy.retry
  BY <1>2, RowColumns
<1>4. /\ row'[i] = IF applied THEN Overwritten(row[i], worker[w].copy) ELSE row[i]
      /\ \A j \in Invoices \ {i} : row'[j] = row[j]
  BY <1>1, <1>2 DEF Write, TypeOK
<1>5. /\ worker'[w].pc = IF ok THEN onOk ELSE onError
      /\ worker'[w].pc # "idle" => worker'[w].inv = i
      /\ worker'[w].pc \in UsesCopy => worker'[w].copy = worker[w].copy
  BY <1>1, KindGoto
<1> QED BY <1>1, <1>3, <1>4, <1>5 DEF LeavesRest

\* The calls that read the row.
LEMMA KindLoad ==
  ASSUME TypeOK, NEW w \in Workers, Load(w) \/ PollLoad(w), UNCHANGED <<client, submits>>,
         NEW i, i = worker[w].inv
  PROVE  Kind(w, i) /\ LeavesRest(w, i)
<1>1. UNCHANGED <<row, queue, batch, mode>>
  BY DEF Load, PollLoad
<1>2. CopyOf(row[i]).retry = row[i].retry
  BY DEF CopyOf
<1>3. CASE Return(w)
  <2>1. worker'[w].pc = "idle"
    BY <1>3 DEF TypeOK, Return, Idle
  <2>2. Aside(w, i)
    BY <1>1, <2>1 DEF Load, PollLoad, Aside, AttemptPc, UsesCopy
  <2> QED BY <1>1, <2>1, <2>2 DEF Kind, LeavesRest
<1>4. CASE Load(w) /\ ~Return(w)
  <2>1. PICK ok \in BOOLEAN :
          /\ CallOutcome(w, ok, ok) /\ ok /\ Publishable(row[i])
          /\ Continue(w, IF row[i].status = "submitted" THEN "toProcessing" ELSE "items",
                      CopyOf(row[i]))
    BY <1>4 DEF Load
  <2>2. mode # "draining" /\ row[i].status \in {"submitted", "processing"}
    BY <2>1 DEF CallOutcome, Publishable
  <2>3. /\ worker'[w].pc = IF row[i].status = "submitted" THEN "toProcessing" ELSE "items"
        /\ worker'[w].inv = i /\ worker'[w].copy = CopyOf(row[i])
    BY <2>1, KindContinue
  <2>4. worker[w].pc = "load"
    BY <1>4 DEF Load
  <2>5. Aside(w, i) \/ Resumes(w, i)
    BY <1>1, <1>2, <2>2, <2>3, <2>4 DEF Aside, Resumes, AttemptPc
  <2> QED BY <1>1, <2>3, <2>5 DEF Kind, LeavesRest
<1>5. CASE PollLoad(w) /\ ~Return(w)
  <2>1. Continue(w, "query", CopyOf(row[i])) /\ worker[w].pc = "pollLoad"
    BY <1>5 DEF PollLoad
  <2>2. worker'[w].pc = "query" /\ worker'[w].inv = i /\ worker'[w].copy = CopyOf(row[i])
    BY <2>1, KindContinue
  <2>3. Aside(w, i)
    BY <1>1, <1>2, <2>1, <2>2 DEF Aside, AttemptPc
  <2> QED BY <1>1, <2>2, <2>3 DEF Kind, LeavesRest
<1> QED BY <1>3, <1>4, <1>5
\* The calls that only move on.
LEMMA KindCall ==
  ASSUME TypeOK, NEW w \in Workers,
         LoadItems(w) \/ Record(w) \/ QueryErred(w) \/ CreateRejected(w),
         UNCHANGED <<client, submits>>, NEW i, i = worker[w].inv
  PROVE  Kind(w, i) /\ LeavesRest(w, i)
<1>1. UNCHANGED <<row, queue, batch, mode>> /\ row[i].retry = row[i].retry
  BY DEF LoadItems, Record, QueryErred, CreateRejected, repoVars
<1>2. PICK pc \in {"create", "failItems", "createCut", "idle", "reject"} : Goto(w, pc)
           /\ \/ worker[w].pc = "items" /\ pc \in {"create", "failItems", "createCut"}
              \/ worker[w].pc \in {"record", "query"} /\ pc = "idle"
              \/ worker[w].pc \in CreateCall /\ pc = "reject"
  BY DEF LoadItems, AfterItems, Record, QueryErred, CreateRejected
<1>3. /\ worker'[w].pc = pc /\ (pc # "idle" => worker'[w].inv = i)
      /\ pc \in UsesCopy => worker'[w].copy = worker[w].copy
  BY <1>2, KindGoto
<1>4. worker[w].copy.retry \in Nat
  BY DEF TypeOK, WorkerState, Copy
<1>5. CASE worker[w].pc \in {"record", "query"} /\ pc = "idle"
  BY <1>1, <1>3, <1>5 DEF Kind, Aside, AttemptPc, UsesCopy, LeavesRest
<1>6. CASE \/ worker[w].pc = "items" /\ pc \in {"create", "failItems", "createCut"}
           \/ worker[w].pc \in CreateCall /\ pc = "reject"
  <2>1. /\ worker[w].pc \in AttemptPc \ {"saveRetry"} /\ worker[w].pc \in OpenPc
        /\ worker[w].pc \in UsesCopy /\ pc \in AttemptPc
    BY <1>6 DEF AttemptPc, OpenPc, UsesCopy, CreateCall
  <2>2. pc \in UsesCopy => worker[w].copy.retry <= worker[w].copy.retry + Unit(pc = "saveRetry")
    BY <1>4 DEF Unit
  <2>3. Within(w, i)
    BY <1>1, <1>3, <1>4, <2>1, <2>2 DEF Within
  <2> QED BY <1>1, <1>3, <2>3 DEF Kind, LeavesRest
<1> QED BY <1>2, <1>5, <1>6

\* The retry count of the copy a handler makes of its own.
LEMMA CopyRetry ==
  ASSUME NEW c \in Copy, NEW u
  PROVE  /\ c.retry \in Nat
         /\ WithNumber(c).retry = c.retry
         /\ WithNumber(WithUuid(c, u)).retry = c.retry
         /\ WithRetry(c).retry = c.retry + 1
         /\ WithRetry(WithUuid(c, u)).retry = c.retry + 1
<1>1. WithUuid(c, u).retry = c.retry
  BY DEF Copy, WithUuid
<1>2. WithNumber(WithUuid(c, u)).retry = c.retry
  BY DEF Copy, WithNumber, WithUuid
<1>3. WithRetry(WithUuid(c, u)).retry = c.retry + 1
  BY DEF Copy, WithRetry, WithUuid
<1> QED BY <1>2, <1>3 DEF Copy, WithNumber, WithRetry

\* The request to Viettel.
LEMMA KindCreate ==
  ASSUME TypeOK, NEW w \in Workers, CreateAccepted(w) \/ CreateErred(w),
         UNCHANGED <<client, submits>>, NEW i, i = worker[w].inv
  PROVE  Kind(w, i) /\ LeavesRest(w, i)
<1> DEFINE c == worker[w].copy
<1>1. /\ UNCHANGED <<row, queue, batch, mode>>
      /\ worker[w].pc \in CreateCall /\ c \in Copy
  BY DEF CreateAccepted, CreateErred, repoVars, TypeOK, WorkerState
<1>2. /\ worker[w].pc \in AttemptPc \ {"saveRetry"} /\ worker[w].pc \in OpenPc
      /\ worker[w].pc \in UsesCopy
  BY <1>1 DEF AttemptPc, OpenPc, UsesCopy, CreateCall
<1>3. \/ Return(w)
      \/ \E copy : Continue(w, "saveNumber", copy) /\ copy.retry = c.retry
      \/ \E copy : Continue(w, "saveRetry", copy) /\ copy.retry = c.retry + 1
  <2>1. CASE CreateAccepted(w)
    <3>1. PICK u \in Uuids :
            Return(w) \/ Continue(w, "saveNumber", WithNumber(WithUuid(c, u)))
      BY <2>1, AcceptedStep
    <3> QED BY <1>1, <3>1, CopyRetry
  <2>2. CASE CreateErred(w)
    <3>1. \/ Continue(w, "saveRetry", WithRetry(c))
          \/ \E u : Continue(w, "saveRetry", WithRetry(WithUuid(c, u)))
      BY <2>2 DEF CreateErred, RequestErred, RequestRefused
    <3> QED BY <1>1, <3>1, CopyRetry
  <2> QED BY <2>1, <2>2
<1>4. c.retry \in Nat
  BY <1>1, CopyRetry
<1>5. CASE Return(w)
  <2>1. worker'[w].pc = "idle"
    BY <1>5 DEF TypeOK, Return, Idle
  <2>2. Ends(w, i)
    BY <1>1, <1>2, <2>1 DEF Ends
  <2> QED BY <1>1, <2>1, <2>2 DEF Kind, LeavesRest
<1>6. ASSUME NEW pc \in {"saveNumber", "saveRetry"}, NEW copy, Continue(w, pc, copy),
             copy.retry = c.retry + Unit(pc = "saveRetry")
      PROVE  Kind(w, i) /\ LeavesRest(w, i)
  <2>1. worker'[w].pc = pc /\ worker'[w].inv = i /\ worker'[w].copy = copy
    BY <1>6, KindContinue
  <2>2. /\ pc \in AttemptPc /\ pc # "idle"
        /\ copy.retry \in Nat /\ copy.retry <= c.retry + Unit(pc = "saveRetry")
    BY <1>4, <1>6 DEF AttemptPc, Unit
  <2>3. Within(w, i)
    BY <1>1, <1>2, <2>1, <2>2 DEF Within
  <2> QED BY <1>1, <2>1, <2>3 DEF Kind, LeavesRest
<1>7. CASE \E copy : Continue(w, "saveNumber", copy) /\ copy.retry = c.retry
  <2>1. PICK copy : Continue(w, "saveNumber", copy) /\ copy.retry = c.retry
    BY <1>7
  <2>2. copy.retry = c.retry + Unit("saveNumber" = "saveRetry")
    BY <1>4, <2>1 DEF Unit
  <2> QED BY <1>6, <2>1, <2>2
<1>8. CASE \E copy : Continue(w, "saveRetry", copy) /\ copy.retry = c.retry + 1
  <2>1. PICK copy : Continue(w, "saveRetry", copy) /\ copy.retry = c.retry + 1
    BY <1>8
  <2>2. copy.retry = c.retry + Unit("saveRetry" = "saveRetry")
    BY <1>4, <2>1 DEF Unit
  <2> QED BY <1>6, <2>1, <2>2
<1> QED BY <1>3, <1>5, <1>7, <1>8

\* The query.
LEMMA KindQuery ==
  ASSUME TypeOK, NEW w \in Workers, QueryAnswered(w),
         UNCHANGED <<client, submits>>, NEW i, i = worker[w].inv
  PROVE  Kind(w, i) /\ LeavesRest(w, i)
<1> DEFINE c == worker[w].copy
<1>1. /\ UNCHANGED <<row, queue, batch, mode>>
      /\ worker[w].pc = "query" /\ c \in Copy
  BY DEF QueryAnswered, repoVars, TypeOK, WorkerState
<1>2. PICK pc \in {"pollConfirm", "pollSave"}, copy \in {WithNumber(c), c} : Continue(w, pc, copy)
  BY DEF QueryAnswered
<1>3. worker'[w].pc = pc /\ worker'[w].inv = i /\ worker'[w].copy = copy
  BY <1>2, KindContinue
<1>4. copy.retry = c.retry
  BY <1>1, <1>2, CopyRetry
<1>5. Aside(w, i)
  BY <1>1, <1>3, <1>4 DEF Aside, AttemptPc, UsesCopy
<1> QED BY <1>1, <1>3, <1>5 DEF Kind, LeavesRest

\* The calls that change the status.
LEMMA KindStatus ==
  ASSUME TypeOK, NEW w \in Workers,
         \/ ToProcessing(w) \/ FailItems(w) \/ Reject(w) \/ Requeue(w) \/ Complete(w)
         \/ PollComplete(w),
         UNCHANGED <<client, submits>>, NEW i, i = worker[w].inv
  PROVE  Kind(w, i) /\ LeavesRest(w, i)
<1>1. /\ {"processing", "failed", "submitted", "completed"} \subseteq Status
      /\ StatusAfterError(worker[w].copy) \in Status
  BY DEF Status, StatusAfterError
<1>2. CASE ToProcessing(w)
  <2>1. worker[w].pc = "toProcessing" /\ SetStatus(w, "processing", "items", "idle")
    BY <1>2 DEF ToProcessing
  <2>2. /\ LeavesRest(w, i) /\ row'[i].retry = row[i].retry
        /\ \/ worker'[w].pc = "items" /\ row'[i].status = "processing"
           \/ worker'[w].pc = "idle" /\ row'[i].status \in {row[i].status, "processing"}
        /\ worker'[w].pc \in UsesCopy => worker'[w].copy = worker[w].copy
    BY <1>1, <2>1, KindSetStatus
  <2>3. Begins(w, i)
    BY <2>1, <2>2 DEF Begins, UsesCopy
  <2> QED BY <2>2, <2>3 DEF Kind
<1>3. CASE FailItems(w) \/ Reject(w) \/ Complete(w)
  <2>1. PICK s \in {"failed", "completed"}, pc \in {"idle", "record"} :
          SetStatus(w, s, pc, "idle") /\ (s = "failed" => worker[w].pc # "complete")
    BY <1>3 DEF FailItems, Reject, Complete
  <2>2. /\ worker[w].pc \in AttemptPc \ {"saveRetry"} /\ worker[w].pc # "idle"
        /\ s = "failed" => worker[w].pc \in OpenPc
    BY <1>3, <2>1 DEF FailItems, Reject, Complete, AttemptPc, OpenPc
  <2>3. /\ LeavesRest(w, i) /\ row'[i].retry = row[i].retry
        /\ worker'[w].pc \in {"idle", "record"}
        /\ row'[i].status \in {row[i].status, s}
    BY <1>1, <2>1, <2>2, KindSetStatus
  <2>4. Ends(w, i)
    BY <2>1, <2>2, <2>3 DEF Ends
  <2> QED BY <2>3, <2>4 DEF Kind
<1>4. CASE PollComplete(w)
  <2>1. worker[w].pc = "pollComplete" /\ SetStatus(w, "completed", "idle", "idle")
    BY <1>4 DEF PollComplete
  <2>2. /\ LeavesRest(w, i) /\ row'[i].retry = row[i].retry
        /\ worker'[w].pc = "idle"
        /\ row'[i].status \in {row[i].status, "completed"}
    BY <1>1, <2>1, KindSetStatus
  <2>3. Aside(w, i)
    BY <2>1, <2>2 DEF Aside, AttemptPc, UsesCopy
  <2> QED BY <2>2, <2>3 DEF Kind
<1>5. CASE Requeue(w)
  <2> DEFINE s == StatusAfterError(worker[w].copy)
  <2>1. worker[w].pc = "requeue" /\ SetStatus(w, s, "idle", "idle")
    BY <1>5 DEF Requeue
  <2> HIDE DEF s
  <2>2. /\ LeavesRest(w, i) /\ row'[i].retry = row[i].retry
        /\ worker'[w].pc = "idle"
        /\ \/ row'[i].status = s
           \/ row'[i].status \in {row[i].status, s} /\ (faults' = 0 => mode = "draining")
    BY <1>1, <2>1, KindSetStatus DEF s
  <2>3. Decides(w, i)
    BY <2>1, <2>2 DEF Decides, s
  <2> QED BY <2>2, <2>3 DEF Kind
<1> QED BY <1>2, <1>3, <1>4, <1>5

\* The calls that write the copy back.
LEMMA KindSave ==
  ASSUME TypeOK, NEW w \in Workers,
         SaveNumber(w) \/ PollConfirm(w) \/ SaveRetry(w) \/ PollSave(w),
         UNCHANGED <<client, submits>>, NEW i, i = worker[w].inv
  PROVE  Kind(w, i) /\ LeavesRest(w, i)
<1>1. CASE SaveNumber(w)
  <2>1. worker[w].pc = "saveNumber" /\ SaveCopy(w, "complete", "idle")
    BY <1>1 DEF SaveNumber
  <2>2. /\ LeavesRest(w, i) /\ row'[i].status = row[i].status
        /\ row'[i].retry \in {row[i].retry, worker[w].copy.retry}
        /\ worker'[w].pc \in {"complete", "idle"}
    BY <2>1, KindSaveCopy
  <2>3. Within(w, i) \/ Ends(w, i)
    BY <2>1, <2>2 DEF Within, Ends, AttemptPc, OpenPc, UsesCopy
  <2> QED BY <2>2, <2>3 DEF Kind
<1>2. CASE SaveRetry(w)
  <2>1. worker[w].pc = "saveRetry" /\ SaveCopy(w, "requeue", "requeue")
    BY <1>2 DEF SaveRetry
  <2>2. /\ LeavesRest(w, i) /\ row'[i].status = row[i].status
        /\ row'[i].retry \in {row[i].retry, worker[w].copy.retry}
        /\ worker'[w].pc = "requeue"
    BY <2>1, KindSaveCopy
  <2> QED BY <2>1, <2>2 DEF Kind, Counts
<1>3. CASE PollConfirm(w) \/ PollSave(w)
  <2>1. PICK pc \in {"idle", "pollComplete"} : SaveCopy(w, pc, pc)
    BY <1>3 DEF PollConfirm, PollSave
  <2>2. worker[w].pc \in {"pollConfirm", "pollSave"}
    BY <1>3 DEF PollConfirm, PollSave
  <2>3. /\ LeavesRest(w, i) /\ row'[i].status = row[i].status
        /\ row'[i].retry \in {row[i].retry, worker[w].copy.retry}
        /\ worker'[w].pc \in {"idle", "pollComplete"}
    BY <2>1, <2>2, KindSaveCopy
  <2>4. Aside(w, i)
    BY <2>2, <2>3 DEF Aside, AttemptPc, UsesCopy
  <2> QED BY <2>3, <2>4 DEF Kind
<1> QED BY <1>1, <1>2, <1>3

\* Every call of a worker.
LEMMA WorkerKinds ==
  ASSUME TypeOK, NEW w \in Workers, WorkerNext(w), ~Dequeue(w),
         NEW i, i = worker[w].inv
  PROVE  /\ Kind(w, i) /\ LeavesRest(w, i)
         /\ worker[w].pc # "idle" /\ i \in Invoices
<1>1. UNCHANGED <<client, submits>>
  BY DEF WorkerNext, serviceVars
<1>2. Kind(w, i) /\ LeavesRest(w, i)
  BY <1>1, KindLoad, KindCall, KindCreate, KindQuery, KindStatus, KindSave
  DEF WorkerNext, WorkerStep, Publish, Poll
<1>3. worker[w].pc # "idle"
  BY <1>2 DEF Kind, Aside, Resumes, Begins, Within, Ends, Counts, Decides, AttemptPc
<1> QED BY <1>2, <1>3 DEF TypeOK
-----------------------------------------------------------------------------
(* CompletedIsTerminal, for one worker.                                    *)

\* A call of the one worker keeps a row under publication open.
LEMMA OpenWorker ==
  ASSUME OneWorker, TypeOK, TypeOK', OpenInv, NEW w \in Workers, WorkerNext(w)
  PROVE  OpenInv'
<1>1. PICK i : i = worker[w].inv
  OBVIOUS
<1>2. \A v \in Workers : v = w
  BY DEF OneWorker
<1>3. CASE Dequeue(w)
  <2>1. worker'[w].pc = FirstCall(Head(queue).type)
    <3>1. PICK inv, copy :
            worker' = [worker EXCEPT ![w] = [pc |-> FirstCall(Head(queue).type),
                                             inv |-> inv, copy |-> copy]]
      BY <1>3 DEF Dequeue
    <3> QED BY <3>1 DEF TypeOK
  <2>2. worker'[w].pc \in {"load", "pollLoad"}
    BY <2>1 DEF FirstCall
  <2> QED BY <1>2, <2>2 DEF OpenInv, OpenPc, AttemptPc, UsesCopy
<1>4. CASE ~Dequeue(w)
  <2>1. /\ Kind(w, i) /\ LeavesRest(w, i) /\ i \in Invoices
    BY <1>1, <1>4, WorkerKinds
  <2>2. /\ worker[w].pc \in OpenPc => row[i].status # "completed"
        /\ worker[w].pc \in UsesCopy \ {"requeue"} =>
             worker[w].copy.retry <= row[i].retry + Unit(worker[w].pc = "saveRetry")
    BY <1>1 DEF OpenInv
  <2>3. /\ row[i].retry \in Nat /\ row'[i].retry \in Nat
        /\ worker[w].copy.retry \in Nat /\ worker'[w].copy.retry \in Nat
    BY <2>1 DEF TypeOK, Row, WorkerState, Copy
  <2>4. worker'[w].pc # "idle" => worker'[w].inv = i
    BY <2>1 DEF LeavesRest
  <2>5. worker'[w].pc \in OpenPc => row'[i].status # "completed"
    BY <2>1, <2>2
    DEF Kind, Aside, Resumes, Begins, Within, Ends, Counts, Decides, OpenPc, AttemptPc, UsesCopy
  <2>6. worker'[w].pc = "toProcessing" => row'[i].status = "submitted"
    BY <2>1
    DEF Kind, Aside, Resumes, Begins, Within, Ends, Counts, Decides, AttemptPc, UsesCopy
  <2>7. ASSUME worker'[w].pc \in UsesCopy \ {"requeue"}
        PROVE  worker'[w].copy.retry <= row'[i].retry + Unit(worker'[w].pc = "saveRetry")
    <3>1. CASE Aside(w, i) \/ Resumes(w, i) \/ Begins(w, i)
      BY <2>2, <2>3, <2>7, <3>1 DEF Aside, Resumes, Begins, AttemptPc, UsesCopy, Unit
    <3>2. CASE Within(w, i)
      <4>1. /\ worker[w].pc \in UsesCopy \ {"requeue"} /\ worker[w].pc # "saveRetry"
            /\ row'[i].retry = row[i].retry
            /\ worker'[w].copy.retry <= worker[w].copy.retry + Unit(worker'[w].pc = "saveRetry")
        BY <2>7, <3>2 DEF Within, AttemptPc
      <4> QED BY <2>2, <2>3, <4>1 DEF Unit
    <3>3. CASE Ends(w, i) \/ Counts(w, i) \/ Decides(w, i)
      BY <2>7, <3>3 DEF Ends, Counts, Decides, UsesCopy
    <3> QED BY <2>1, <3>1, <3>2, <3>3 DEF Kind
  <2>8. "idle" \notin OpenPc \cup UsesCopy
    BY DEF OpenPc, AttemptPc, UsesCopy
  <2> QED BY <1>2, <2>4, <2>5, <2>6, <2>7, <2>8 DEF OpenInv
<1> QED BY <1>3, <1>4

\* So does a step that leaves the worker alone or ends it, and changes
\* submitted rows to submitted at most.
LEMMA KeepOpen ==
  ASSUME TypeOK, IssuanceInv, OpenInv,
         \A v \in Workers : worker'[v] = worker[v] \/ worker'[v].pc = "idle",
         \A j \in Invoices :
           Left(j) => /\ row'[j].status \in {row[j].status, "submitted"}
                      /\ row'[j].retry = row[j].retry
  PROVE  OpenInv'
<1>1. "idle" \notin OpenPc \cup UsesCopy
  BY DEF OpenPc, AttemptPc, UsesCopy
<1>2. \A v \in Workers : worker[v].pc # "idle" => worker[v].inv \in Invoices /\ Left(worker[v].inv)
  BY DEF TypeOK, IssuanceInv, WorkersSafe, WorkerSafe
<1>3. ASSUME NEW v \in Workers
      PROVE  /\ worker'[v].pc \in OpenPc => row'[worker'[v].inv].status # "completed"
             /\ worker'[v].pc = "toProcessing" => row'[worker'[v].inv].status = "submitted"
             /\ worker'[v].pc \in UsesCopy \ {"requeue"} =>
                  worker'[v].copy.retry <= row'[worker'[v].inv].retry
                                             + Unit(worker'[v].pc = "saveRetry")
  <2>1. CASE worker'[v].pc = "idle"
    BY <1>1, <2>1
  <2>2. CASE worker'[v] = worker[v] /\ worker[v].pc # "idle"
    BY <1>2, <2>2 DEF OpenInv
  <2> QED BY <2>1, <2>2
<1> QED BY <1>3 DEF OpenInv

\* What a request does to a row that has left draft.
LEMMA ClientKeepsLeft ==
  ASSUME TypeOK, NEW c \in Clients, NEW j \in Invoices, ClientEffect(c, j), Left(j)
  PROVE  /\ row'[j].retry = row[j].retry
         /\ \/ row'[j].status = row[j].status
            \/ /\ row'[j].status = "submitted"
               /\ j = client[c].inv /\ client[c].pc = "submit"
<1>1. row[j] \in Row /\ NoCopy \in Copy
  BY NoRowType DEF TypeOK
<1>2. /\ \A h : /\ WithHash(row[j], h).status = row[j].status
                /\ WithHash(row[j], h).retry = row[j].retry
      /\ \A s : /\ WithStatus(row[j], s).status = s
                /\ WithStatus(row[j], s).retry = row[j].retry
  BY <1>1, RowColumns
<1> QED BY <1>2 DEF ClientEffect, Left, Exists

\* Every step.
LEMMA OpenNext ==
  ASSUME OneWorker, TypeOK, IssuanceInv, OpenInv, [Next]_vars
  PROVE  OpenInv'
<1>1. CASE \E w \in Workers : WorkerNext(w)
  <2>1. TypeOK'
    BY NextType
  <2> QED BY <1>1, <2>1, OpenWorker
<1>2. CASE \E c \in Clients : ClientNext(c)
  <2>1. PICK c \in Clients : ClientNext(c)
    BY <1>2
  <2>2. UNCHANGED worker /\ \A j \in Invoices : ClientEffect(c, j)
    BY <2>1, EffectClient
  <2> QED BY <2>2, ClientKeepsLeft, KeepOpen
<1>3. CASE \/ PollerNext \/ \E i \in Invoices : ViettelNext(i)
           \/ ProcessNext \/ UNCHANGED vars
  <2>1. /\ UNCHANGED row
        /\ \A w \in Workers : worker'[w] = worker[w] \/ worker'[w].pc = "idle"
    BY <1>3, EffectOthers, EffectProcess DEF vars, repoVars, poolVars
  <2> QED BY <2>1, KeepOpen
<1> QED BY <1>1, <1>2, <1>3 DEF Next

\* The initial state.
LEMMA OpenInit == Init => OpenInv
BY DEF Init, PoolInit, Idle, OpenInv, OpenPc, AttemptPc, UsesCopy

\* A completed invoice that was submitted once stays completed in every step.
LEMMA TerminalStep ==
  ASSUME OneWorker, TypeOK, IssuanceInv, SubmitInv, OpenInv, [Next]_vars,
         NEW i \in Invoices, row[i].status = "completed", submits[i] = 1
  PROVE  row'[i].status = "completed"
<1>1. Left(i)
  BY DEF Left
<1>2. CASE \E w \in Workers : WorkerNext(w)
  <2>1. PICK w \in Workers : WorkerNext(w)
    BY <1>2
  <2>2. PICK j : j = worker[w].inv
    OBVIOUS
  <2>3. CASE Dequeue(w)
    BY <2>3 DEF Dequeue, repoVars
  <2>4. CASE ~Dequeue(w)
    <3>1. Kind(w, j) /\ LeavesRest(w, j)
      BY <2>1, <2>2, <2>4, WorkerKinds
    <3>2. CASE i # j
      BY <3>1, <3>2 DEF LeavesRest
    <3>3. CASE i = j
      <4>1. worker[w].pc \notin OpenPc
        BY <2>2, <3>3 DEF OpenInv
      <4> QED
        BY <3>1, <3>3, <4>1
        DEF Kind, Aside, Resumes, Begins, Within, Ends, Counts, Decides, OpenPc, AttemptPc
    <3> QED BY <3>2, <3>3
  <2> QED BY <2>3, <2>4
<1>3. CASE \E c \in Clients : ClientNext(c)
  <2>1. PICK c \in Clients : ClientNext(c)
    BY <1>3
  <2>2. ClientEffect(c, i)
    BY <2>1, EffectClient
  <2>3. Submitting(i) = {}
    <3>1. IsFiniteSet(Submitting(i)) /\ Cardinality(Submitting(i)) \in Nat
      BY FS_CardinalityType DEF SubmitInv
    <3>2. Readable(i) => Cardinality(Submitting(i)) = 0
      BY <1>1, <3>1 DEF SubmitInv
    <3> QED BY <3>1, <3>2, FS_EmptySet DEF SubmitInv
  <2>4. ~(i = client[c].inv /\ client[c].pc = "submit")
    BY <2>3 DEF Submitting
  <2> QED BY <1>1, <2>2, <2>4, ClientKeepsLeft
<1>4. CASE \/ PollerNext \/ \E j \in Invoices : ViettelNext(j)
           \/ ProcessNext \/ UNCHANGED vars
  BY <1>4, EffectOthers, EffectProcess DEF vars, repoVars
<1> QED BY <1>2, <1>3, <1>4 DEF Next

\* With one worker, an invoice that was submitted once and is completed stays
\* completed: no job queued twice, no late poll and no failing call reopens it.
THEOREM CompletedStays == ASSUME OneWorker PROVE Spec => CompletedIsTerminal
<1>1. TypeOK /\ IssuanceInv /\ SubmitInv /\ [Next]_vars => SubmitInv'
  BY SubmitNext
<1>2. TypeOK /\ IssuanceInv /\ OpenInv /\ [Next]_vars => OpenInv'
  BY OpenNext
<1>3. TypeOK /\ IssuanceInv /\ SubmitInv /\ OpenInv /\ [Next]_vars =>
        [\A i \in Invoices :
           row[i].status = "completed" /\ submits[i] = 1
             => row'[i].status = "completed"]_vars
  BY TerminalStep
<1> QED BY <1>1, <1>2, <1>3, SubmitInit, OpenInit, InvCorrect, PTL DEF Spec, CompletedIsTerminal
-----------------------------------------------------------------------------
(* RetryBudget, for one worker: what a row may still cost is counted       *)
(* against what its submissions allow.                                     *)

\* The worker is at one of these calls for i.
OnJob(i, pcs) == \E w \in Workers : worker[w].inv = i /\ worker[w].pc \in pcs

\* A publish job for i is queued, held by the poller or by the worker, or
\* about to be queued.
PublishJob(i) == [type |-> "publish", inv |-> i]

Alive(i) ==
  \/ \E k \in 1..Len(queue) : queue[k] = PublishJob(i)
  \/ \E k \in 1..Len(batch) : batch[k] = PublishJob(i)
  \/ OnJob(i, {"load"})
  \/ \E c \in Clients : client[c].inv = i /\ client[c].pc \in {"record", "enqueue"}

\* Such a job will try i again, although the last attempt has left it in
\* processing.
Again(i) ==
  /\ row[i].status = "processing" /\ mode # "draining" /\ Alive(i)
  /\ ~OnJob(i, AttemptPc \cup {"requeue"})

Waits(i) == row[i].status = "submitted"

\* The attempts made, and those that may come without a further submission.
Charge(i) ==
  row[i].retry + Unit(Waits(i)) + Unit(OnJob(i, AttemptPc)) + Unit(Again(i))

Extra(i) == IF submits[i] = 0 THEN 0 ELSE submits[i] - 1

WithinBudget(i) ==
  Charge(i) + Cardinality(Submitting(i)) <= MaxRetries + Extra(i)

BudgetInv ==
  /\ \A i \in Invoices : ~Readable(i) \/ ~Left(i) => row[i].retry = 0
  /\ faults = 0 => \A i \in Invoices : Readable(i) => WithinBudget(i)

\* Of the one worker.
LEMMA OneJob ==
  ASSUME OneWorker, NEW w \in Workers, NEW i, NEW pcs
  PROVE  /\ OnJob(i, pcs) <=> worker[w].inv = i /\ worker[w].pc \in pcs
         /\ OnJob(i, pcs)' <=> worker'[w].inv = i /\ worker'[w].pc \in pcs
BY DEF OneWorker, OnJob

\* A call makes no new job.
LEMMA NoNewJob ==
  ASSUME OneWorker, NEW w \in Workers, NEW i, NEW j, LeavesRest(w, i),
         worker'[w].pc # "load", Alive(j)'
  PROVE  Alive(j)
<1>1. ~OnJob(j, {"load"})'
  BY OneJob
<1> QED BY <1>1 DEF Alive, LeavesRest

\* A row that costs no more.
LEMMA NoCharge ==
  ASSUME TypeOK, TypeOK', NEW i \in Invoices, row'[i].retry <= row[i].retry,
         Waits(i)' => Waits(i),
         OnJob(i, AttemptPc)' => OnJob(i, AttemptPc),
         Again(i)' => Again(i)
  PROVE  Charge(i)' <= Charge(i)
<1>1. row[i].retry \in Nat /\ row'[i].retry \in Nat
  BY DEF TypeOK, Row
<1>2. /\ Unit(Waits(i)') <= Unit(Waits(i))
      /\ Unit(OnJob(i, AttemptPc)') <= Unit(OnJob(i, AttemptPc))
      /\ Unit(Again(i)') <= Unit(Again(i))
  BY DEF Unit
<1>3. \A b : Unit(b) \in Nat
  BY DEF Unit
<1> QED BY <1>1, <1>2, <1>3 DEF Charge

\* A call costs other rows nothing.
LEMMA OthersCharge ==
  ASSUME OneWorker, TypeOK, TypeOK', NEW w \in Workers, NEW i, LeavesRest(w, i),
         i = worker[w].inv, NEW j \in Invoices \ {i}
  PROVE  Charge(j)' <= Charge(j)
<1>1. row'[j] = row[j] /\ row[j].retry \in Nat
  BY DEF LeavesRest, TypeOK, Row
<1>2. NoInvoice \notin Invoices
  BY PoolAssumption
<1>3. \A pcs : "idle" \notin pcs => ~OnJob(j, pcs)' /\ ~OnJob(j, pcs)
  BY OneJob DEF LeavesRest
<1>4. "idle" \notin AttemptPc \cup {"requeue"} \cup {"load"}
  BY DEF AttemptPc
<1>5. Alive(j)' => Alive(j)
  BY <1>3, <1>4 DEF Alive, LeavesRest
<1>6. Again(j)' => Again(j)
  BY <1>1, <1>3, <1>4, <1>5 DEF Again, LeavesRest
<1> QED BY <1>1, <1>3, <1>4, <1>6, NoCharge DEF Waits

\* Taking a job costs nothing.
LEMMA DequeueCharge ==
  ASSUME OneWorker, TypeOK, TypeOK', NEW w \in Workers, WorkerNext(w), Dequeue(w),
         NEW j \in Invoices
  PROVE  Charge(j)' <= Charge(j)
<1> DEFINE job == Head(queue)
<1>1. /\ queue \in Seq(Job) /\ Len(queue) \in Nat /\ queue # <<>> /\ queue' = Tail(queue)
      /\ UNCHANGED <<row, batch, mode>> /\ worker[w].pc = "idle"
  BY DEF TypeOK, Dequeue, repoVars
<1>2. worker'[w].pc = FirstCall(job.type) /\ worker'[w].inv = job.inv
  <2>1. PICK copy : copy = NoCopy
    OBVIOUS
  <2>2. worker' = [worker EXCEPT ![w] = [pc |-> FirstCall(job.type), inv |-> job.inv,
                                         copy |-> copy]]
    BY <2>1 DEF Dequeue
  <2> QED BY <2>2 DEF TypeOK
<1>3. job \in Job /\ job = queue[1] /\ 1 \in 1..Len(queue)
  BY <1>1
<1>4. worker'[w].pc \in {"load", "pollLoad"}
  BY <1>2 DEF FirstCall
<1>5. ~OnJob(j, AttemptPc)' /\ ~OnJob(j, AttemptPc \cup {"requeue"})
  BY <1>1, <1>4, OneJob DEF AttemptPc
<1>6. OnJob(j, {"load"})' => job = PublishJob(j)
  <2>1. OnJob(j, {"load"})' => job.inv = j /\ FirstCall(job.type) = "load"
    BY <1>2, OneJob
  <2>2. FirstCall(job.type) = "load" => job.type = "publish"
    BY DEF FirstCall
  <2> QED BY <1>3, <2>1, <2>2 DEF Job, PublishJob
<1>7. ASSUME NEW k \in 1..Len(queue'), queue'[k] = PublishJob(j)
      PROVE  k + 1 \in 1..Len(queue) /\ queue[k + 1] = PublishJob(j)
  BY <1>1, <1>7
<1>8. UNCHANGED client
  BY DEF WorkerNext, serviceVars
<1>9. Alive(j)' => Alive(j)
  BY <1>1, <1>3, <1>6, <1>7, <1>8 DEF Alive
<1>10. ~Again(j) => ~Again(j)'
  <2>1. ~OnJob(j, AttemptPc \cup {"requeue"})
    BY <1>1, OneJob DEF AttemptPc
  <2> QED BY <1>1, <1>9, <2>1 DEF Again
<1> QED BY <1>1, <1>5, <1>10, NoCharge DEF Waits, TypeOK, Row

\* A call other than the one that decides on a retry: what it costs was
\* reserved before.
LEMMA KindCharge ==
  ASSUME OneWorker, TypeOK, TypeOK', CopyInv, OpenInv, NEW w \in Workers,
         NEW i \in Invoices, i = worker[w].inv,
         LeavesRest(w, i), Kind(w, i), ~Decides(w, i)
  PROVE  Charge(i)' <= Charge(i)
<1> DEFINE c == worker[w].copy
           p == worker[w].pc
           q == worker'[w].pc
<1>1. /\ row[i].retry \in Nat /\ row'[i].retry \in Nat /\ c.retry \in Nat
  BY DEF TypeOK, Row, WorkerState, Copy
<1>2. /\ p \in UsesCopy \ {"requeue"} => c.retry <= row[i].retry + Unit(p = "saveRetry")
      /\ p = "toProcessing" => row[i].status = "submitted"
  BY DEF OpenInv
<1>3. q # "idle" => worker'[w].inv = i
  BY DEF LeavesRest
<1>4. "idle" \notin AttemptPc /\ "requeue" \notin AttemptPc /\ "load" \notin AttemptPc
  BY DEF AttemptPc
<1>5. /\ OnJob(i, AttemptPc) <=> p \in AttemptPc
      /\ OnJob(i, AttemptPc)' <=> q \in AttemptPc
      /\ OnJob(i, AttemptPc \cup {"requeue"}) <=> p \in AttemptPc \cup {"requeue"}
      /\ OnJob(i, AttemptPc \cup {"requeue"})' <=> q \in AttemptPc \cup {"requeue"}
      /\ OnJob(i, {"load"}) <=> p = "load"
  BY <1>3, <1>4, OneJob
<1>6. q # "load" => (Alive(i)' => Alive(i))
  BY NoNewJob
<1>7. UNCHANGED mode
  BY DEF LeavesRest
<1>8. CASE Aside(w, i)
  <2>1. row'[i].retry <= row[i].retry
    BY <1>1, <1>2, <1>8 DEF Aside, AttemptPc, Unit
  <2>2. Waits(i)' => Waits(i)
    BY <1>8 DEF Aside, Waits
  <2>3. ~OnJob(i, AttemptPc)'
    BY <1>5, <1>8 DEF Aside, AttemptPc
  <2>4. Again(i)' => Again(i)
    BY <1>5, <1>6, <1>7, <1>8 DEF Aside, Again
  <2> QED BY <2>1, <2>2, <2>3, <2>4, NoCharge
<1>9. CASE Resumes(w, i)
  <2>1. row'[i].retry = row[i].retry /\ ~Waits(i)' /\ ~Again(i)'
    BY <1>5, <1>9 DEF Resumes, Waits, Again, AttemptPc
  <2>2. Again(i)
    BY <1>5, <1>9 DEF Resumes, Again, Alive, AttemptPc
  <2> QED BY <1>1, <2>1, <2>2 DEF Charge, Unit
<1>10. CASE Begins(w, i)
  <2>1. /\ row'[i].retry = row[i].retry /\ Waits(i)
        /\ ~OnJob(i, AttemptPc) /\ ~Again(i)
    BY <1>2, <1>5, <1>10 DEF Begins, Waits, Again, AttemptPc
  <2>2. \/ OnJob(i, AttemptPc)' /\ ~Waits(i)' /\ ~Again(i)'
        \/ ~OnJob(i, AttemptPc)' /\ ~(Waits(i)' /\ Again(i)')
    BY <1>5, <1>10 DEF Begins, Waits, Again, AttemptPc
  <2> QED BY <1>1, <2>1, <2>2 DEF Charge, Unit
<1>11. CASE Within(w, i)
  <2>1. row'[i].retry <= row[i].retry
    BY <1>1, <1>2, <1>11 DEF Within, AttemptPc, UsesCopy, Unit
  <2>2. /\ Waits(i)' => Waits(i)
        /\ OnJob(i, AttemptPc) /\ ~Again(i)'
    BY <1>5, <1>11 DEF Within, Waits, Again
  <2> QED BY <2>1, <2>2, NoCharge
<1>12. CASE Ends(w, i)
  <2>1. row'[i].retry <= row[i].retry
    BY <1>1, <1>2, <1>12 DEF Ends, AttemptPc, UsesCopy, Unit
  <2>2. /\ Waits(i)' => Waits(i)
        /\ OnJob(i, AttemptPc) /\ ~Again(i) /\ ~OnJob(i, AttemptPc)'
    BY <1>5, <1>12 DEF Ends, Waits, Again, AttemptPc
  <2> QED BY <1>1, <2>1, <2>2 DEF Charge, Unit
<1>13. CASE Counts(w, i)
  <2>1. row'[i].retry <= row[i].retry + 1
    BY <1>1, <1>2, <1>13 DEF Counts, UsesCopy, Unit
  <2>2. /\ Waits(i)' => Waits(i)
        /\ OnJob(i, AttemptPc) /\ ~Again(i) /\ ~OnJob(i, AttemptPc)' /\ ~Again(i)'
    BY <1>5, <1>13 DEF Counts, Waits, Again, AttemptPc
  <2> QED BY <1>1, <2>1, <2>2 DEF Charge, Unit
<1> QED BY <1>8, <1>9, <1>10, <1>11, <1>12, <1>13 DEF Kind

\* The decision: another attempt is allowed only below MaxRetries, and every
\* submission under way has been allowed one of its own.
LEMMA DecidesWithin ==
  ASSUME OneWorker, TypeOK, TypeOK', IssuanceInv, CopyInv, SubmitInv, NEW w \in Workers,
         NEW i \in Invoices, i = worker[w].inv, Readable(i), WithinBudget(i),
         LeavesRest(w, i), Decides(w, i), faults' = 0
  PROVE  WithinBudget(i)'
<1> DEFINE c == worker[w].copy
           n == Cardinality(Submitting(i))
<1>1. /\ worker[w].pc = "requeue" /\ worker'[w].pc = "idle"
      /\ row'[i].retry = row[i].retry
      /\ \/ row'[i].status = StatusAfterError(c)
         \/ row'[i].status = row[i].status /\ mode = "draining"
  BY DEF Decides
<1>2. /\ row[i].retry \in Nat /\ c.retry \in Nat /\ submits[i] \in Nat /\ MaxRetries \in Nat
      /\ UNCHANGED <<client, submits, mode>>
  BY PoolAssumption DEF TypeOK, Row, WorkerState, Copy, LeavesRest
<1>3. row[i].retry <= c.retry
  BY <1>1 DEF CopyInv, UsesCopy
<1>4. Left(i)
  BY <1>1 DEF IssuanceInv, WorkersSafe, WorkerSafe
<1>5. n \in Nat /\ n < submits[i]
  BY <1>4, FS_CardinalityType DEF SubmitInv
<1>6. Submitting(i)' = Submitting(i) /\ Extra(i)' = Extra(i)
  BY <1>2 DEF Submitting, Extra
<1>7. n <= Extra(i) /\ Extra(i) \in Nat
  BY <1>2, <1>5 DEF Extra
<1>8. ~OnJob(i, AttemptPc)' /\ ~OnJob(i, AttemptPc) /\ ~Again(i)
  BY <1>1, OneJob DEF AttemptPc, Again
<1> HIDE DEF n
<1>9. CASE row'[i].status = StatusAfterError(c)
  <2>1. ~Again(i)'
    BY <1>9 DEF Again, StatusAfterError
  <2>2. CASE Waits(i)'
    <3>1. ~(c.retry >= MaxRetries)
      BY <1>9, <2>2 DEF Waits, StatusAfterError
    <3>2. row[i].retry + 1 <= MaxRetries
      BY <1>2, <1>3, <3>1
    <3>3. Charge(i)' = row[i].retry + 1
      BY <1>1, <1>2, <1>8, <2>1, <2>2 DEF Charge, Unit
    <3>4. Charge(i)' + n <= MaxRetries + Extra(i)
      BY <1>2, <1>5, <1>7, <3>2, <3>3
    <3> QED BY <1>6, <3>4 DEF WithinBudget, n
  <2>3. CASE ~Waits(i)'
    <3>1. Charge(i)' <= Charge(i) /\ Charge(i)' = row[i].retry /\ Charge(i) \in Nat
      BY <1>1, <1>2, <1>8, <2>1, <2>3 DEF Charge, Unit
    <3>2. Charge(i) + n <= MaxRetries + Extra(i)
      BY DEF WithinBudget, n
    <3>3. Charge(i)' + n <= MaxRetries + Extra(i)
      BY <1>2, <1>5, <1>7, <3>1, <3>2
    <3> QED BY <1>6, <3>3 DEF WithinBudget, n
  <2> QED BY <2>2, <2>3
<1>10. CASE row'[i].status = row[i].status /\ mode = "draining"
  <2>1. ~Again(i)' /\ (Waits(i)' <=> Waits(i))
    BY <1>2, <1>10 DEF Again, Waits
  <2>2. Charge(i)' = Charge(i)
    BY <1>1, <1>2, <1>8, <2>1 DEF Charge, Unit
  <2> QED BY <1>6, <2>2 DEF WithinBudget
<1> QED BY <1>1, <1>9, <1>10
\* Charges are numbers.
LEMMA ChargeType ==
  ASSUME TypeOK, NEW i \in Invoices
  PROVE  Charge(i) \in Nat /\ Extra(i) \in Nat /\ MaxRetries \in Nat
<1>1. row[i].retry \in Nat /\ submits[i] \in Nat
  BY DEF TypeOK, Row
<1>2. \A b : Unit(b) \in Nat
  BY DEF Unit
<1>3. Charge(i) \in Nat
  BY <1>1, <1>2 DEF Charge
<1>4. Extra(i) \in Nat
  BY <1>1 DEF Extra
<1> QED BY <1>3, <1>4, PoolAssumption

\* A row whose charge does not grow stays within its budget.
LEMMA KeepBudget ==
  ASSUME TypeOK, TypeOK', SubmitInv, SubmitInv', NEW i \in Invoices, WithinBudget(i),
         submits'[i] = submits[i],
         Charge(i)' + Cardinality(Submitting(i)') <= Charge(i) + Cardinality(Submitting(i))
  PROVE  WithinBudget(i)'
<1>1. /\ Charge(i) \in Nat /\ Extra(i) \in Nat /\ MaxRetries \in Nat
      /\ Charge(i)' \in Nat
  <2>1. Charge(i)' \in Nat
    <3>1. row'[i].retry \in Nat
      BY DEF TypeOK, Row
    <3>2. \A b : Unit(b) \in Nat
      BY DEF Unit
    <3> QED BY <3>1, <3>2 DEF Charge
  <2> QED BY <2>1, ChargeType
<1>2. /\ Cardinality(Submitting(i)) \in Nat /\ Cardinality(Submitting(i)') \in Nat
  BY FS_CardinalityType DEF SubmitInv
<1>3. Extra(i)' = Extra(i)
  BY DEF Extra
<1>4. Charge(i) + Cardinality(Submitting(i)) <= MaxRetries + Extra(i)
  BY DEF WithinBudget
<1>5. Charge(i)' + Cardinality(Submitting(i)') <= MaxRetries + Extra(i)'
  BY <1>1, <1>2, <1>3, <1>4
<1> QED BY <1>5 DEF WithinBudget

\* What a call makes of the status.
LEMMA KindStaysLeft ==
  ASSUME NEW w, NEW i, Kind(w, i), Left(i) PROVE Left(i)'
<1>1. row'[i].status \in {row[i].status, "completed", "processing", "failed", "submitted"}
  BY DEF Kind, Aside, Resumes, Begins, Within, Ends, Counts, Decides, StatusAfterError
<1> QED BY <1>1 DEF Left

\* A call of the one worker.
LEMMA BudgetWorker ==
  ASSUME OneWorker, TypeOK, TypeOK', IssuanceInv, CopyInv, OpenInv, SubmitInv, SubmitInv',
         BudgetInv, NEW w \in Workers, WorkerNext(w)
  PROVE  BudgetInv'
<1>1. PICK i : i = worker[w].inv
  OBVIOUS
<1>2. UNCHANGED <<client, submits>>
  BY DEF WorkerNext, serviceVars
<1>3. \A j \in Invoices : Submitting(j)' = Submitting(j)
  BY <1>2 DEF Submitting
<1>4. ASSUME NEW j \in Invoices, WithinBudget(j), Charge(j)' <= Charge(j)
      PROVE  WithinBudget(j)'
  <2>1. Cardinality(Submitting(j)) \in Nat /\ Charge(j) \in Nat
    BY ChargeType, FS_CardinalityType DEF SubmitInv
  <2>2. Charge(j)' \in Nat
    <3>1. row'[j].retry \in Nat
      BY DEF TypeOK, Row
    <3>2. \A b : Unit(b) \in Nat
      BY DEF Unit
    <3> QED BY <3>1, <3>2 DEF Charge
  <2>3. Charge(j)' + Cardinality(Submitting(j)') <= Charge(j) + Cardinality(Submitting(j))
    BY <1>3, <1>4, <2>1, <2>2
  <2> QED BY <1>2, <1>4, <2>3, KeepBudget
<1>5. faults' = 0 => faults = 0
  BY NumberFaults
<1>6. CASE Dequeue(w)
  <2>1. UNCHANGED row
    BY <1>6 DEF Dequeue, repoVars
  <2>2. \A j \in Invoices : Charge(j)' <= Charge(j)
    BY <1>6, DequeueCharge
  <2> QED BY <1>4, <1>5, <2>1, <2>2 DEF BudgetInv, Left
<1>7. CASE ~Dequeue(w)
  <2>1. Kind(w, i) /\ LeavesRest(w, i) /\ worker[w].pc # "idle" /\ i \in Invoices
    BY <1>1, <1>7, WorkerKinds
  <2>2. \A j \in Invoices \ {i} : Charge(j)' <= Charge(j) /\ row'[j] = row[j]
    BY <1>1, <2>1, OthersCharge DEF LeavesRest
  <2>3. Left(i) /\ Left(i)'
    BY <1>1, <2>1, KindStaysLeft DEF IssuanceInv, WorkersSafe, WorkerSafe
  <2>4. ~Readable(i) => row'[i].retry = row[i].retry
    <3>1. worker[w].pc \in UsesCopy => Readable(i)
      BY <1>1, <2>1 DEF IssuanceInv, WorkersSafe, WorkerSafe
    <3> QED
      BY <2>1, <3>1 DEF Kind, Aside, Resumes, Begins, Within, Ends, Counts, Decides, UsesCopy
  <2>5. ASSUME faults' = 0, Readable(i), WithinBudget(i) PROVE WithinBudget(i)'
    <3>1. CASE Decides(w, i)
      BY <1>1, <2>1, <2>5, <3>1, DecidesWithin
    <3>2. CASE ~Decides(w, i)
      BY <1>1, <1>4, <2>1, <2>5, <3>2, KindCharge
    <3> QED BY <3>1, <3>2
  <2>6. ASSUME NEW j \in Invoices, ~Readable(j) \/ ~Left(j)' PROVE row'[j].retry = 0
    BY <2>2, <2>3, <2>4, <2>6 DEF BudgetInv, Left
  <2>7. ASSUME NEW j \in Invoices, faults' = 0, Readable(j) PROVE WithinBudget(j)'
    <3>1. WithinBudget(j)
      BY <1>5, <2>7 DEF BudgetInv
    <3>2. CASE j = i
      BY <2>5, <2>7, <3>1, <3>2
    <3>3. CASE j # i
      BY <1>4, <2>2, <3>1, <3>3
    <3> QED BY <3>2, <3>3
  <2> QED BY <2>6, <2>7 DEF BudgetInv, Readable
<1> QED BY <1>6, <1>7
\* Queueing a job.
LEMMA EnqueueJob ==
  ASSUME TypeOK, NEW job \in Job, Enqueue(job), NEW k \in 1..Len(queue')
  PROVE  queue'[k] = job \/ \E m \in 1..Len(queue) : queue[m] = queue'[k]
<1>1. queue \in Seq(Job) /\ Len(queue) \in Nat
  BY DEF TypeOK
<1>2. CASE queue' = queue
  BY <1>2
<1>3. CASE queue' = Append(queue, job)
  <2>1. /\ Len(queue') = Len(queue) + 1
        /\ \A m \in 1..Len(queue) : queue'[m] = queue[m]
        /\ queue'[Len(queue) + 1] = job
    BY <1>1, <1>3
  <2> QED BY <1>1, <2>1
<1> QED BY <1>2, <1>3 DEF Enqueue

\* The poller makes no publish job for a row in processing.
LEMMA PollerNoNewJob ==
  ASSUME TypeOK, PollerNext, NEW j \in Invoices, row[j].status = "processing", Alive(j)'
  PROVE  Alive(j)
<1>1. UNCHANGED <<row, worker, client>>
  BY EffectOthers
<1>2. CASE PollTick
  <2>1. UNCHANGED queue
    BY <1>2 DEF PollTick
  <2>2. ASSUME NEW k \in 1..Len(batch'), batch'[k] = PublishJob(j) PROVE FALSE
    <3>0. PICK n \in 0..QueueSize :
            \E page \in [1..n -> Invoices] : \E m \in 0..n :
              batch' = IF PageIsRead(page, m) THEN [l \in 1..m |-> PollJob(page[l])] ELSE <<>>
      BY <1>2 DEF PollTick
    <3>1. PICK page \in [1..n -> Invoices], m \in 0..n :
            batch' = IF PageIsRead(page, m) THEN [l \in 1..m |-> PollJob(page[l])] ELSE <<>>
      BY <3>0
    <3>2. QueueSize \in Nat /\ n \in Nat /\ m \in Nat /\ m <= n
      BY <3>1, PoolAssumption
    <3>3. CASE batch' = <<>>
      BY <2>2, <3>3
    <3>4. CASE batch' = [l \in 1..m |-> PollJob(page[l])]
      <4>1. Len(batch') = m
        <5>1. \A x \in 1..m : page[x] \in Invoices
          BY <3>1, <3>2
        <5> DEFINE f(x) == PollJob(page[x])
        <5> HIDE DEF f
        <5>2. batch' = [x \in 1..m |-> f(x)]
          BY <3>4 DEF f
        <5> QED BY <3>2, <5>2
      <4>2. k \in 1..m /\ page[k] \in Invoices
        BY <2>2, <3>1, <3>2, <4>1
      <4>3. batch'[k] = PollJob(page[k])
        BY <3>4, <4>2
      <4>4. PollJob(page[k]).inv = page[k] /\ PublishJob(j).inv = j
            /\ PublishJob(j).type = "publish"
        BY DEF PollJob, PublishJob
      <4>5. page[k] = j /\ PollJob(j).type = "publish"
        BY <2>2, <4>3, <4>4
      <4> QED BY <4>5 DEF PollJob
    <3> QED BY <3>1, <3>3, <3>4
  <2> QED BY <1>1, <2>1, <2>2 DEF Alive, OnJob
<1>3. CASE PollEnqueue
  <2>1. /\ batch \in Seq(Job) /\ batch # <<>> /\ Enqueue(Head(batch))
        /\ batch' \in {Tail(batch), <<>>}
    BY <1>3 DEF PollEnqueue, TypeOK
  <2>2. Head(batch) \in Job /\ Head(batch) = batch[1] /\ 1 \in 1..Len(batch)
    BY <2>1
  <2>3. ASSUME NEW k \in 1..Len(queue'), queue'[k] = PublishJob(j) PROVE Alive(j)
    BY <2>1, <2>2, <2>3, EnqueueJob DEF Alive
  <2>4. ASSUME NEW k \in 1..Len(batch'), batch'[k] = PublishJob(j)
        PROVE  \E m \in 1..Len(batch) : batch[m] = PublishJob(j)
    <3>1. CASE batch' = <<>>
      BY <2>4, <3>1
    <3>2. CASE batch' = Tail(batch)
      <4>1. k + 1 \in 1..Len(batch) /\ batch[k + 1] = PublishJob(j)
        BY <2>1, <2>4, <3>2
      <4> QED BY <4>1
    <3> QED BY <2>1, <3>1, <3>2
  <2> QED BY <1>1, <2>3, <2>4 DEF Alive, OnJob
<1> QED BY <1>2, <1>3 DEF PollerNext, PollerStep

\* The invariant after a step that changes no row and no submission.
LEMMA RowsKeepBudget ==
  ASSUME TypeOK, TypeOK', SubmitInv, SubmitInv', BudgetInv, UNCHANGED <<row, submits>>,
         faults' = 0 => faults = 0,
         \A j \in Invoices : /\ Submitting(j)' = Submitting(j) \/ Submitting(j)' = {}
                             /\ OnJob(j, AttemptPc)' => OnJob(j, AttemptPc)
                             /\ Again(j)' => Again(j)
  PROVE  BudgetInv'
<1>1. ASSUME NEW j \in Invoices, WithinBudget(j) PROVE WithinBudget(j)'
  <2>1. row[j].retry \in Nat /\ row'[j].retry <= row[j].retry
    BY DEF TypeOK, Row
  <2>2. Charge(j)' <= Charge(j)
    BY <2>1, NoCharge DEF Waits
  <2>3. Cardinality(Submitting(j)) \in Nat /\ Cardinality({}) = 0 /\ Charge(j) \in Nat
    BY ChargeType, FS_CardinalityType, FS_EmptySet DEF SubmitInv
  <2>4. Charge(j)' \in Nat
    <3>1. row'[j].retry \in Nat
      BY DEF TypeOK, Row
    <3>2. \A b : Unit(b) \in Nat
      BY DEF Unit
    <3> QED BY <3>1, <3>2 DEF Charge
  <2>5. Cardinality(Submitting(j)') \in Nat
        /\ Cardinality(Submitting(j)') <= Cardinality(Submitting(j))
    <3>1. CASE Submitting(j)' = Submitting(j)
      BY <2>3, <3>1
    <3>2. CASE Submitting(j)' = {}
      BY <2>3, <3>2
    <3> QED BY <3>1, <3>2
  <2>6. Charge(j)' + Cardinality(Submitting(j)') <= Charge(j) + Cardinality(Submitting(j))
    BY <2>2, <2>3, <2>4, <2>5
  <2> QED BY <1>1, <2>6, KeepBudget
<1> QED BY <1>1 DEF BudgetInv, Left

\* The poller, Viettel and the process.
LEMMA BudgetOthers ==
  ASSUME TypeOK, TypeOK', SubmitInv, SubmitInv', BudgetInv,
         \/ PollerNext \/ (\E i \in Invoices : ViettelNext(i)) \/ ProcessNext
         \/ UNCHANGED vars
  PROVE  BudgetInv'
<1>1. CASE PollerNext
  <2>1. UNCHANGED <<row, worker, client, mode>> /\ (faults' = 0 => faults = 0)
    BY <1>1, EffectOthers
  <2>2. UNCHANGED submits
    BY <1>1 DEF PollerNext, serviceVars
  <2>3. ASSUME NEW j \in Invoices
        PROVE  /\ Submitting(j)' = Submitting(j)
               /\ \A pcs : OnJob(j, pcs)' = OnJob(j, pcs)
    BY <2>1 DEF Submitting, OnJob
  <2>4. ASSUME NEW j \in Invoices, Again(j)' PROVE Again(j)
    <3>1. row[j].status = "processing" /\ Alive(j)'
      BY <2>1, <2>4 DEF Again
    <3> QED BY <1>1, <2>1, <2>3, <2>4, <3>1, PollerNoNewJob DEF Again
  <2> QED BY <2>1, <2>2, <2>3, <2>4, RowsKeepBudget
<1>2. CASE (\E i \in Invoices : ViettelNext(i)) \/ UNCHANGED vars
  <2>1. UNCHANGED <<row, worker, client, mode, queue, batch, submits, faults>>
    BY <1>2 DEF ViettelNext, vars, repoVars, poolVars, serviceVars
  <2>2. \A j \in Invoices : /\ Submitting(j)' = Submitting(j)
                            /\ OnJob(j, AttemptPc)' = OnJob(j, AttemptPc)
                            /\ Again(j)' = Again(j)
    BY <2>1 DEF Submitting, OnJob, Again, Alive
  <2> QED BY <2>1, <2>2, RowsKeepBudget
<1>3. CASE Signal \/ CancelPool \/ Restart
  <2>1. /\ UNCHANGED <<row, worker, client, queue, batch, submits, faults>>
        /\ mode' # "draining" => mode # "draining"
    BY <1>3 DEF Signal, CancelPool, Restart, repoVars, poolVars, serviceVars
  <2>2. \A j \in Invoices : /\ Submitting(j)' = Submitting(j)
                            /\ OnJob(j, AttemptPc)' = OnJob(j, AttemptPc)
                            /\ Again(j)' => Again(j)
    BY <2>1 DEF Submitting, OnJob, Again, Alive
  <2> QED BY <2>1, <2>2, RowsKeepBudget
<1>4. CASE Gone
  <2>1. /\ UNCHANGED <<row, submits, faults>> /\ queue' = <<>> /\ batch' = <<>>
        /\ \A w \in Workers : worker'[w].pc = "idle"
        /\ \A c \in Clients : client'[c].pc = "idle"
    BY <1>4 DEF Gone, repoVars, Idle, Answered
  <2>2. ASSUME NEW j \in Invoices
        PROVE  /\ Submitting(j)' = {} /\ ~OnJob(j, AttemptPc)' /\ ~Alive(j)'
    BY <2>1 DEF Submitting, OnJob, Alive, AttemptPc
  <2> QED BY <2>1, <2>2, RowsKeepBudget DEF Again
<1> QED BY <1>1, <1>2, <1>3, <1>4 DEF ProcessNext, Stopped, ForcedExit, Crash
\* A request makes a job only when it has written the status.
LEMMA ClientNoNewJob ==
  ASSUME TypeOK, NEW c \in Clients, ClientNext(c), NEW j \in Invoices,
         ~SubmitWrite(c) \/ j # client[c].inv, Alive(j)'
  PROVE  Alive(j)
<1>1. UNCHANGED <<worker, batch>>
  BY DEF ClientNext, Request, CreateInvoice, PayRead, PayWrite, SubmitRead, SubmitWrite,
         SubmitRecord, SubmitEnqueue, poolVars
<1>2. /\ \A d \in Clients : d # c => client'[d] = client[d]
      /\ \/ client'[c] = client[c] \/ client'[c].pc \notin {"record", "enqueue"}
         \/ client'[c].inv = client[c].inv /\ client[c].pc = "record"
         \/ SubmitWrite(c) /\ client'[c].inv = client[c].inv
  <2>1. CASE \E i \in Invoices : CreateInvoice(c, i)
    BY <2>1 DEF CreateInvoice, serviceVars
  <2>2. CASE \E i \in Invoices : SubmitRead(c, i) \/ \E h \in Hashes : PayRead(c, i, h)
    <3>1. client'[c].pc \in {"submit", "pay"} /\ \A d \in Clients : d # c => client'[d] = client[d]
      <4>1. CASE \E i \in Invoices : SubmitRead(c, i)
        BY <4>1 DEF TypeOK, SubmitRead, Answered
      <4>2. CASE \E i \in Invoices, h \in Hashes : PayRead(c, i, h)
        BY <4>2 DEF TypeOK, PayRead, Answered
      <4> QED BY <2>2, <4>1, <4>2
    <3> QED BY <3>1
  <2>3. CASE PayWrite(c) \/ SubmitEnqueue(c)
    BY <2>3 DEF TypeOK, PayWrite, SubmitEnqueue, Answered
  <2>4. CASE SubmitWrite(c)
    <3>1. PICK ok \in BOOLEAN :
            client' = [client EXCEPT ![c] = IF ok THEN [client[c] EXCEPT !.pc = "record"]
                                                  ELSE Answered("error")]
      BY <2>4 DEF SubmitWrite
    <3>2. /\ \A d \in Clients : d # c => client'[d] = client[d]
          /\ client'[c] = IF ok THEN [client[c] EXCEPT !.pc = "record"] ELSE Answered("error")
      BY <3>1 DEF TypeOK
    <3>3. client[c] \in ClientState /\ Answered("error").pc = "idle"
      BY DEF TypeOK, Answered
    <3>4. client'[c].inv = client[c].inv \/ client'[c].pc = "idle"
      BY <3>2, <3>3 DEF ClientState
    <3> QED BY <2>4, <3>2, <3>4
  <2>5. CASE SubmitRecord(c)
    BY <2>5 DEF TypeOK, ClientState, SubmitRecord
  <2> QED BY <2>1, <2>2, <2>3, <2>4, <2>5 DEF ClientNext, Request
<1>3. ASSUME NEW k \in 1..Len(queue'), queue'[k] = PublishJob(j) PROVE Alive(j)
  <2>1. CASE SubmitEnqueue(c)
    <3> DEFINE job == PublishJob(client[c].inv)
    <3>1. /\ Enqueue(job) /\ client[c].pc = "enqueue" /\ client[c].inv \in Invoices
      BY <2>1 DEF SubmitEnqueue, PublishJob, TypeOK
    <3>2. job \in Job /\ job.inv = client[c].inv /\ PublishJob(j).inv = j
      BY <3>1 DEF Job, JobType, PublishJob
    <3> HIDE DEF job
    <3>3. CASE queue'[k] = job
      <4>1. client[c].inv = j
        BY <1>3, <3>2, <3>3
      <4> QED BY <3>1, <4>1 DEF Alive
    <3>4. CASE \E m \in 1..Len(queue) : queue[m] = queue'[k]
      BY <1>3, <3>4 DEF Alive
    <3> QED BY <3>1, <3>2, <3>3, <3>4, EnqueueJob
  <2>2. CASE ~SubmitEnqueue(c)
    <3>1. UNCHANGED queue
      BY <2>2 DEF ClientNext, Request, CreateInvoice, PayRead, PayWrite, SubmitRead,
                  SubmitWrite, SubmitRecord, poolVars
    <3> QED BY <1>3, <3>1 DEF Alive
  <2> QED BY <2>1, <2>2
<1>4. ASSUME NEW d \in Clients, client'[d].inv = j, client'[d].pc \in {"record", "enqueue"}
      PROVE  Alive(j)
  <2>1. client[d].inv = j /\ client[d].pc \in {"record", "enqueue"}
    BY <1>2, <1>4
  <2> QED BY <2>1 DEF Alive
<1> QED BY <1>1, <1>3, <1>4 DEF Alive, OnJob

\* A row a request leaves where it is, or creates, costs no more.
LEMMA ClientCharge ==
  ASSUME TypeOK, TypeOK', CopyInv, NEW c \in Clients, ClientNext(c), NEW j \in Invoices,
         ~SubmitWrite(c) \/ j # client[c].inv
  PROVE  Charge(j)' <= Charge(j)
<1>1. ClientEffect(c, j) /\ UNCHANGED <<worker, mode>>
  BY EffectClient
<1>2. row[j] \in Row /\ NoCopy \in Copy /\ row[j].retry \in Nat
  BY NoRowType DEF TypeOK, Row
<1>3. /\ \A h : /\ WithHash(row[j], h).status = row[j].status
                /\ WithHash(row[j], h).retry = row[j].retry
                /\ CreatedRow(1, h).status = "draft" /\ CreatedRow(1, h).retry = 0
  BY <1>2, RowColumns
<1>4. ~(j = client[c].inv /\ client[c].pc = "submit")
  BY DEF ClientNext, Request, CreateInvoice, PayRead, PayWrite, SubmitRead, SubmitRecord,
         SubmitEnqueue, Accepting
<1>5. /\ row'[j].retry <= row[j].retry
      /\ row'[j].status = row[j].status \/ row'[j].status = "draft"
  BY <1>1, <1>2, <1>3, <1>4 DEF ClientEffect, CopyInv
<1>6. \A pcs : OnJob(j, pcs)' = OnJob(j, pcs)
  BY <1>1 DEF OnJob
<1>7. Again(j)' => Again(j)
  BY <1>1, <1>5, <1>6, ClientNoNewJob DEF Again
<1> QED BY <1>5, <1>6, <1>7, NoCharge DEF Waits

\* Before its first submission a row costs nothing.
LEMMA DraftCharge ==
  ASSUME OneWorker, TypeOK, IssuanceInv, BudgetInv, NEW i \in Invoices, ~Left(i)
  PROVE  Charge(i) = 0
<1>1. row[i].retry = 0 /\ ~Waits(i) /\ ~Again(i)
  BY DEF BudgetInv, Left, Waits, Again
<1>2. ~OnJob(i, AttemptPc)
  BY DEF OnJob, AttemptPc, IssuanceInv, WorkersSafe, WorkerSafe
<1> QED BY <1>1, <1>2 DEF Charge, Unit

\* A submission that passes its check is allowed one more attempt; the first
\* one, MaxRetries of them.
LEMMA BeginsWithin ==
  ASSUME OneWorker, MaxRetries > 0, TypeOK, TypeOK', IssuanceInv, CopyInv, SubmitInv,
         BudgetInv, NEW c \in Clients, ClientNext(c), NEW i \in Invoices, SubmitRead(c, i),
         WithinBudget(i)
  PROVE  WithinBudget(i)'
<1> DEFINE n == Cardinality(Submitting(i))
<1>1. /\ Readable(i) /\ UNCHANGED row
      /\ submits' = [submits EXCEPT ![i] = @ + 1]
      /\ Cardinality(Submitting(i)') = n + 1
  BY SubmissionBegins
<1>2. submits[i] \in Nat /\ submits'[i] = submits[i] + 1
  BY <1>1 DEF TypeOK
<1>3. n \in Nat /\ n <= submits[i] /\ (Left(i) => n < submits[i])
  BY <1>1, FS_CardinalityType DEF SubmitInv
<1>4. Charge(i) \in Nat /\ MaxRetries \in Nat /\ Extra(i) \in Nat
  BY ChargeType
<1>5. Charge(i)' <= Charge(i)
  <2>1. ~SubmitWrite(c)
    BY DEF SubmitRead, SubmitWrite, Accepting
  <2> QED BY <2>1, ClientCharge
<1>6. Charge(i)' \in Nat
  <2>1. row'[i].retry \in Nat
    BY DEF TypeOK, Row
  <2>2. \A b : Unit(b) \in Nat
    BY DEF Unit
  <2> QED BY <2>1, <2>2 DEF Charge
<1>7. Charge(i) + n <= MaxRetries + Extra(i)
  BY DEF WithinBudget
<1>8. Extra(i)' = submits[i]
  BY <1>2 DEF Extra
<1> HIDE DEF n
<1>9. CASE submits[i] = 0
  <2>1. n = 0 /\ ~Left(i)
    BY <1>3, <1>9
  <2>2. Charge(i) = 0
    BY <2>1, DraftCharge
  <2>3. Charge(i)' + Cardinality(Submitting(i)') <= MaxRetries + Extra(i)'
    BY <1>1, <1>4, <1>5, <1>6, <1>8, <1>9, <2>1, <2>2
  <2> QED BY <2>3 DEF WithinBudget
<1>10. CASE submits[i] # 0
  <2>1. Extra(i) = submits[i] - 1
    BY <1>10 DEF Extra
  <2>2. Charge(i)' + Cardinality(Submitting(i)') <= MaxRetries + Extra(i)'
    BY <1>1, <1>2, <1>3, <1>4, <1>5, <1>6, <1>7, <1>8, <2>1
  <2> QED BY <2>2 DEF WithinBudget
<1> QED BY <1>9, <1>10

\* The submission that writes its status is the attempt it was allowed.
LEMMA WritesWithin ==
  ASSUME TypeOK, TypeOK', CopyInv, SubmitInv, SubmitInv', NEW c \in Clients,
         ClientNext(c), SubmitWrite(c), NEW i, i = client[c].inv, WithinBudget(i), faults' = 0
  PROVE  WithinBudget(i)'
<1> DEFINE n == Cardinality(Submitting(i))
<1>1. /\ UNCHANGED submits /\ i \in Invoices
      /\ Cardinality(Submitting(i)') = n - 1 /\ IsFiniteSet(Submitting(i))
  BY SubmissionWrites DEF SubmitInv
<1>2. n \in Nat
  BY <1>1, FS_CardinalityType
<1>3. /\ row'[i] = WithStatus(row[i], "submitted") /\ UNCHANGED <<worker, mode>>
  <2>1. PICK ok \in BOOLEAN, applied \in BOOLEAN :
          RequestOutcome(ok, applied) /\ Write(i, WithStatus(row[i], "submitted"), applied)
    BY DEF SubmitWrite
  <2>2. ok /\ applied
    BY <2>1 DEF RequestOutcome, TypeOK
  <2> QED BY <1>1, <2>1, <2>2, EffectClient DEF Write, TypeOK
<1>4. row[i] \in Row /\ NoCopy \in Copy /\ row[i].retry \in Nat
  BY <1>1, NoRowType DEF TypeOK, Row
<1>5. row'[i].status = "submitted" /\ row'[i].retry = row[i].retry
  BY <1>3, <1>4, RowColumns
<1>6. OnJob(i, AttemptPc)' = OnJob(i, AttemptPc) /\ ~Again(i)'
  BY <1>3, <1>5 DEF OnJob, Again
<1>7. Charge(i)' <= Charge(i) + 1 /\ Charge(i) \in Nat /\ Charge(i)' \in Nat
  BY <1>4, <1>5, <1>6 DEF Charge, Unit, Waits
<1> HIDE DEF n
<1>8. Charge(i)' + Cardinality(Submitting(i)') <= Charge(i) + n
  BY <1>1, <1>2, <1>7
<1> QED BY <1>1, <1>8, KeepBudget DEF n

\* A step of a request.
LEMMA BudgetClient ==
  ASSUME OneWorker, MaxRetries > 0, TypeOK, TypeOK', IssuanceInv, CopyInv, SubmitInv,
         SubmitInv', BudgetInv, NEW c \in Clients, ClientNext(c)
  PROVE  BudgetInv'
<1>1. (\A j \in Invoices : ClientEffect(c, j)) /\ (faults' = 0 => faults = 0)
  BY EffectClient
<1>2. ASSUME NEW j \in Invoices, ~Readable(j) \/ ~Left(j)' PROVE row'[j].retry = 0
  <2>1. row[j] \in Row /\ NoCopy \in Copy
    BY NoRowType DEF TypeOK
  <2>2. /\ \A h : WithHash(row[j], h).retry = row[j].retry /\ CreatedRow(1, h).retry = 0
        /\ \A s : WithStatus(row[j], s).retry = row[j].retry
    BY <2>1, RowColumns
  <2>3. Left(j) => Left(j)'
    BY <1>1, ClientKeepsLeft DEF Left
  <2>4. row[j].retry = 0
    BY <1>2, <2>3 DEF BudgetInv
  <2> QED BY <1>1, <2>2, <2>4 DEF ClientEffect
<1>3. ASSUME NEW j \in Invoices, WithinBudget(j), Charge(j)' <= Charge(j),
             submits'[j] = submits[j], Submitting(j)' = Submitting(j)
      PROVE  WithinBudget(j)'
  <2>1. Cardinality(Submitting(j)) \in Nat /\ Charge(j) \in Nat
    BY ChargeType, FS_CardinalityType DEF SubmitInv
  <2>2. Charge(j)' \in Nat
    <3>1. row'[j].retry \in Nat
      BY DEF TypeOK, Row
    <3>2. \A b : Unit(b) \in Nat
      BY DEF Unit
    <3> QED BY <3>1, <3>2 DEF Charge
  <2>3. Charge(j)' + Cardinality(Submitting(j)') <= Charge(j) + Cardinality(Submitting(j))
    BY <1>3, <2>1, <2>2
  <2> QED BY <1>3, <2>3, KeepBudget
<1>4. ASSUME NEW j \in Invoices, faults' = 0, Readable(j) PROVE WithinBudget(j)'
  <2>1. WithinBudget(j)
    BY <1>1, <1>4 DEF BudgetInv
  <2>2. CASE SubmitRead(c, j)
    BY <2>1, <2>2, BeginsWithin
  <2>3. CASE SubmitWrite(c) /\ j = client[c].inv
    BY <1>4, <2>1, <2>3, WritesWithin
  <2>4. CASE ~SubmitRead(c, j) /\ ~(SubmitWrite(c) /\ j = client[c].inv)
    <3>1. Charge(j)' <= Charge(j)
      BY <2>4, ClientCharge
    <3>2. submits'[j] = submits[j] /\ Submitting(j)' = Submitting(j)
      <4>1. CASE SubmitWrite(c)
        <5>1. PICK i : i = client[c].inv
          OBVIOUS
        <5> QED BY <2>4, <4>1, <5>1, SubmissionWrites
      <4>2. CASE \E i \in Invoices : SubmitRead(c, i)
        <5>1. PICK i \in Invoices : SubmitRead(c, i)
          BY <4>2
        <5>2. i # j
          BY <2>4, <5>1
        <5>3. /\ submits' = [submits EXCEPT ![i] = @ + 1]
              /\ \A k \in Invoices \ {i} : Submitting(k)' = Submitting(k)
          BY <5>1, SubmissionBegins
        <5> QED BY <5>2, <5>3 DEF TypeOK
      <4>3. CASE ~SubmitWrite(c) /\ \A i \in Invoices : ~SubmitRead(c, i)
        BY <4>3, NoSubmission
      <4> QED BY <4>1, <4>2, <4>3
    <3> QED BY <1>3, <2>1, <3>1, <3>2
  <2> QED BY <2>2, <2>3, <2>4
<1> QED BY <1>2, <1>4 DEF BudgetInv, Readable

\* Every step.
LEMMA BudgetNext ==
  ASSUME OneWorker, MaxRetries > 0, TypeOK, IssuanceInv, CopyInv, OpenInv, SubmitInv,
         BudgetInv, [Next]_vars
  PROVE  BudgetInv'
<1>1. TypeOK' /\ SubmitInv'
  BY NextType, SubmitNext
<1>2. CASE \E w \in Workers : WorkerNext(w)
  BY <1>1, <1>2, BudgetWorker
<1>3. CASE \E c \in Clients : ClientNext(c)
  BY <1>1, <1>3, BudgetClient
<1> QED BY <1>1, <1>2, <1>3, BudgetOthers DEF Next

\* The initial state: nothing has been tried.
LEMMA BudgetInit == Init => BudgetInv
<1> SUFFICES ASSUME Init PROVE BudgetInv
  OBVIOUS
<1>1. OldRow.retry = 0 /\ OldRow.status = "processing" /\ NoRow.retry = 0 /\ NoRow.status = "none"
  BY DEF NoRow, OldRow
<1>2. /\ \A w \in Workers : worker[w].pc = "idle"
      /\ \A c \in Clients : client[c].pc = "idle"
  BY DEF Init, PoolInit, Idle, ServiceInit, Answered
<1>3. ASSUME NEW i \in Invoices
      PROVE  /\ row[i].retry = 0 /\ submits[i] = 0
             /\ Readable(i) => row[i].status = "none"
  BY <1>1 DEF Init, RepoInit, ServiceInit, Readable
<1>4. ASSUME NEW i \in Invoices, Readable(i) PROVE WithinBudget(i)
  <2>1. Submitting(i) = {} /\ ~OnJob(i, AttemptPc) /\ ~Again(i) /\ ~Waits(i)
    BY <1>2, <1>3, <1>4 DEF Submitting, OnJob, AttemptPc, Again, Waits
  <2>2. Charge(i) = 0 /\ Extra(i) = 0
    BY <1>3, <2>1 DEF Charge, Unit, Extra
  <2>3. Cardinality({}) = 0 /\ MaxRetries \in Nat
    BY FS_EmptySet, PoolAssumption
  <2>4. Cardinality(Submitting(i)) = 0
    BY <2>1, <2>3
  <2> QED BY <2>2, <2>3, <2>4 DEF WithinBudget
<1> QED BY <1>3, <1>4 DEF BudgetInv

\* What the count bounds.
LEMMA BudgetBounds ==
  ASSUME TypeOK, SubmitInv, BudgetInv PROVE RetryBudget
<1> SUFFICES ASSUME faults = 0, NEW i \in Invoices, row[i].retry > MaxRetries
             PROVE  row[i].retry < MaxRetries + submits[i]
  BY DEF RetryBudget
<1>1. /\ row[i].retry \in Nat /\ submits[i] \in Nat /\ MaxRetries \in Nat
  BY PoolAssumption DEF TypeOK, Row
<1>2. Readable(i)
  BY <1>1 DEF BudgetInv
<1>3. Cardinality(Submitting(i)) \in Nat
  BY FS_CardinalityType DEF SubmitInv
<1>4. Charge(i) + Cardinality(Submitting(i)) <= MaxRetries + Extra(i)
  BY <1>2 DEF BudgetInv, WithinBudget
<1>5. row[i].retry <= Charge(i) /\ Charge(i) \in Nat
  BY <1>1 DEF Charge, Unit
<1> QED BY <1>1, <1>3, <1>4, <1>5 DEF Extra

\* With one worker that may try at least once, a submission is attempted at
\* most MaxRetries times and each further one once more, whatever is queued
\* twice, accepted without a number or interrupted, until a database call fails.
THEOREM RetriesAreBounded ==
  ASSUME OneWorker, MaxRetries > 0 PROVE Spec => []RetryBudget
<1>1. TypeOK /\ IssuanceInv /\ CopyInv /\ [Next]_vars => CopyInv'
  BY CopyNext
<1>2. TypeOK /\ IssuanceInv /\ SubmitInv /\ [Next]_vars => SubmitInv'
  BY SubmitNext
<1>3. TypeOK /\ IssuanceInv /\ OpenInv /\ [Next]_vars => OpenInv'
  BY OpenNext
<1>4. TypeOK /\ IssuanceInv /\ CopyInv /\ OpenInv /\ SubmitInv /\ BudgetInv /\ [Next]_vars
        => BudgetInv'
  BY BudgetNext
<1>5. TypeOK /\ SubmitInv /\ BudgetInv => RetryBudget
  BY BudgetBounds
<1> QED
  BY <1>1, <1>2, <1>3, <1>4, <1>5, CopyInit, SubmitInit, OpenInit, BudgetInit, InvCorrect, PTL
  DEF Spec
=============================================================================
