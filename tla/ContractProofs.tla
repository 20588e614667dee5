--------------------------- MODULE ContractProofs ----------------------------
(***************************************************************************)
(* TaxModule implements IssuanceContract: under the refinement mapping of  *)
(* TaxModule!Contract every step is one contract step for one invoice, or  *)
(* leaves the contract's variables unchanged.                              *)
(***************************************************************************)
EXTENDS TaxModuleProofs

USE DEF viettelVars

ContractStep == [Contract!Next]_Contract!contractVars

\* A step that changes neither the table nor Viettel.
LEMMA SilentStep ==
  ASSUME UNCHANGED <<row, viettel>> PROVE ContractStep
BY DEF ContractStep, Contract!contractVars, IssuedUuids

\* What is issued under the uuid of its row is issued.
LEMMA IssuedSomehow ==
  \A i \in Invoices : Issued(i) => i \in {j \in Invoices : IssuedUuids(j) # {}}
BY DEF Issued

\* A statement that writes the status of one row.
LEMMA StatusStep ==
  ASSUME TypeOK, NEW i \in Invoices, NEW s \in Status, UNCHANGED viettel,
         NEW applied \in BOOLEAN, Write(i, WithStatus(row[i], s), applied),
         \/ s = "draft" /\ ~Exists(i)
         \/ s = "submitted" /\ Exists(i)
         \/ s \in {"submitted", "processing", "failed"} /\ Left(i)
         \/ s = "completed" /\ Left(i) /\ Issued(i)
  PROVE  ContractStep
<1> DEFINE st  == [j \in Invoices |-> row[j].status]
           rec == {j \in Invoices : row[j].ext}
           iss == {j \in Invoices : IssuedUuids(j) # {}}
<1>1. CASE ~applied
  BY <1>1, SilentStep DEF Write
<1>2. CASE applied
  <2>1. row' = [row EXCEPT ![i] = WithStatus(row[i], s)]
    BY <1>2 DEF Write
  <2>2. \A j \in Invoices : row'[j].ext = row[j].ext
                            /\ row'[j].status = IF j = i THEN s ELSE row[j].status
    BY <2>1 DEF TypeOK, Row, WithStatus
  <2>3. st' = [st EXCEPT ![i] = s] /\ rec' = rec /\ iss' = iss
    BY <2>2 DEF IssuedUuids
  <2>4. Contract!Set(i, s)
    BY <2>3 DEF Contract!Set
  <2>5. Contract!Create(i) \/ Contract!Submit(i) \/ Contract!Handle(i) \/ Contract!Confirm(i)
    BY <2>4, IssuedSomehow
    DEF Exists, Left, Contract!Create, Contract!Submit, Contract!Handle,
        Contract!Confirm, Contract!Left
  <2> QED BY <2>5 DEF ContractStep, Contract!Next
<1> QED BY <1>1, <1>2

\* A write of a copy: the number appears, is kept, or disappears.
LEMMA CopyStep ==
  ASSUME TypeOK, NEW i \in Invoices, NEW copy \in Copy, UNCHANGED viettel, Left(i),
         copy.ext => Issued(i),
         NEW applied \in BOOLEAN, Write(i, Overwritten(row[i], copy), applied)
  PROVE  ContractStep
<1> DEFINE st  == [j \in Invoices |-> row[j].status]
           rec == {j \in Invoices : row[j].ext}
           iss == {j \in Invoices : IssuedUuids(j) # {}}
<1>1. CASE ~applied
  BY <1>1, SilentStep DEF Write
<1>2. CASE applied
  <2>1. row' = [row EXCEPT ![i] = Overwritten(row[i], copy)]
    BY <1>2 DEF Write
  <2>2. \A j \in Invoices : row'[j].status = row[j].status
                            /\ row'[j].ext = IF j = i THEN copy.ext ELSE row[j].ext
    BY <2>1 DEF TypeOK, Row, Overwritten
  <2>3. st' = st /\ iss' = iss
    BY <2>2 DEF IssuedUuids
  <2>4. CASE copy.ext
    <3>1. rec' = rec \cup {i}
      BY <2>2, <2>4
    <3>2. Contract!Record(i)
      BY <2>3, <2>4, <3>1, IssuedSomehow DEF Left, Contract!Record, Contract!Left
    <3> QED BY <3>2 DEF ContractStep, Contract!Next
  <2>5. CASE ~copy.ext
    <3>1. rec' = rec \ {i}
      BY <2>2, <2>5
    <3>2. Contract!Forget(i)
      BY <2>3, <3>1 DEF Contract!Forget
    <3> QED BY <3>2 DEF ContractStep, Contract!Next
  <2> QED BY <2>4, <2>5
<1> QED BY <1>1, <1>2

\* A write of the transaction hash, which the contract does not speak of.
LEMMA HashStep ==
  ASSUME TypeOK, NEW i \in Invoices, NEW h, UNCHANGED viettel,
         NEW applied \in BOOLEAN, Write(i, WithHash(row[i], h), applied)
  PROVE  ContractStep
<1>1. \A j \in Invoices : row'[j].status = row[j].status /\ row'[j].ext = row[j].ext
  BY DEF TypeOK, Row, Write, WithHash
<1>2. {j \in Invoices : IssuedUuids(j) # {}}' = {j \in Invoices : IssuedUuids(j) # {}}
  BY DEF IssuedUuids
<1> QED BY <1>1, <1>2 DEF ContractStep, Contract!contractVars

\* Viettel takes a request for i, or gives it its number.
LEMMA IssueStep ==
  ASSUME TypeOK, NEW i \in Invoices, UNCHANGED row, Left(i), NEW u \in Uuids, NEW v,
         viettel' = [viettel EXCEPT ![i][u] = v], viettel[i][u] = "issued" => v = "issued"
  PROVE  ContractStep
<1> DEFINE iss == {j \in Invoices : IssuedUuids(j) # {}}
<1>0. \A j \in Invoices, n \in Uuids :
        viettel'[j][n] = IF j = i /\ n = u THEN v ELSE viettel[j][n]
  BY DEF TypeOK
<1>1. CASE v = "issued"
  <2>1. iss' = iss \cup {i}
    <3>1. \A j \in Invoices : IssuedUuids(j)' = IF j = i THEN IssuedUuids(j) \cup {u}
                                                        ELSE IssuedUuids(j)
      BY <1>0, <1>1 DEF IssuedUuids
    <3> QED BY <3>1
  <2>2. Contract!Issue(i)
    BY <2>1 DEF Left, Contract!Issue, Contract!Left
  <2> QED BY <2>2 DEF ContractStep, Contract!Next
<1>2. CASE v # "issued"
  <2>1. iss' = iss
    <3>1. \A j \in Invoices : IssuedUuids(j)' = IssuedUuids(j)
      BY <1>0, <1>2 DEF IssuedUuids
    <3> QED BY <3>1
  <2> QED BY <2>1 DEF ContractStep, Contract!contractVars
<1> QED BY <1>1, <1>2

\* Every step of a worker is a contract step.
LEMMA WorkerContract ==
  ASSUME TypeOK, IssuanceInv, NEW w \in Workers, WorkerNext(w) PROVE ContractStep
<1> DEFINE i == worker[w].inv
<1> USE DEF WorkerNext
<1>1. worker[w].pc # "idle" =>
        /\ i \in Invoices /\ worker[w].copy \in Copy /\ Left(i)
        /\ worker[w].copy.ext \/ worker[w].pc \in Confirming => Issued(i)
  BY DEF TypeOK, WorkerState, IssuanceInv, WorkersSafe, WorkerSafe
<1>2. CASE ToProcessing(w) \/ FailItems(w) \/ Reject(w) \/ Requeue(w)
  <2>1. /\ worker[w].pc # "idle" /\ UNCHANGED viettel
        /\ \E s \in {"submitted", "processing", "failed"}, applied \in BOOLEAN :
             Write(i, WithStatus(row[i], s), applied)
    BY <1>2
    DEF ToProcessing, FailItems, Reject, Requeue, SetStatus, StatusAfterError
  <2> QED BY <1>1, <2>1, StatusStep DEF Status
<1>3. CASE Complete(w) \/ PollComplete(w)
  <2>1. /\ worker[w].pc # "idle" /\ worker[w].pc \in Confirming /\ UNCHANGED viettel
        /\ \E applied \in BOOLEAN : Write(i, WithStatus(row[i], "completed"), applied)
    BY <1>3 DEF Complete, PollComplete, SetStatus, Confirming
  <2> QED BY <1>1, <2>1, StatusStep DEF Status
<1>4. CASE SaveNumber(w) \/ SaveRetry(w) \/ PollSave(w) \/ PollConfirm(w)
  <2>1. /\ worker[w].pc # "idle" /\ UNCHANGED viettel
        /\ \E applied \in BOOLEAN : Write(i, Overwritten(row[i], worker[w].copy), applied)
    BY <1>4 DEF SaveNumber, SaveRetry, PollSave, PollConfirm, SaveCopy
  <2> QED BY <1>1, <2>1, CopyStep
<1>5. CASE CreateAccepted(w) \/ CreateErred(w)
  <2>1. /\ worker[w].pc # "idle" /\ UNCHANGED row
        /\ \/ UNCHANGED viettel
           \/ \E u \in Uuids : \E v \in AcceptedAs(i, u) : Sent(w, u, v)
    <3>1. worker[w].pc # "idle" /\ UNCHANGED row
      BY <1>5 DEF CreateAccepted, CreateErred, CreateCall, repoVars
    <3> QED BY <1>5, <3>1, AcceptedStep, ErredStep
  <2>2. ASSUME NEW u \in Uuids, NEW v \in AcceptedAs(i, u), Sent(w, u, v) PROVE ContractStep
    <3>1. viettel' = [viettel EXCEPT ![i][u] = v] /\ (viettel[i][u] = "issued" => v = "issued")
      BY <2>2 DEF Sent, Take, AcceptedAs
    <3> QED BY <1>1, <2>1, <3>1, IssueStep
  <2> QED BY <2>1, <2>2, SilentStep
<1>6. CASE \/ Dequeue(w) \/ Load(w) \/ LoadItems(w) \/ CreateRejected(w) \/ Record(w)
           \/ PollLoad(w) \/ QueryAnswered(w) \/ QueryErred(w)
  <2>1. UNCHANGED <<row, viettel>>
    BY <1>6
    DEF Dequeue, Load, LoadItems, CreateRejected, Record, PollLoad, QueryAnswered,
        QueryErred, repoVars
  <2> QED BY <2>1, SilentStep
<1> QED
  BY <1>2, <1>3, <1>4, <1>5, <1>6 DEF WorkerStep, Publish, Poll

\* Every step of a client is a contract step.
LEMMA ClientContract ==
  ASSUME TypeOK, IssuanceInv, NEW c \in Clients, ClientNext(c) PROVE ContractStep
<1>1. CASE \E i \in Invoices : CreateInvoice(c, i)
  <2>1. PICK i \in Invoices : CreateInvoice(c, i)
    BY <1>1
  <2>2. row[i].status = "none" /\ ~row[i].ext /\ UNCHANGED viettel
    BY <2>1
    DEF CreateInvoice, Exists, TypeOK, Row, IssuanceInv, RowsSafe, Left, Issued,
        IssuedUuids, Known
  <2>3. \A j \in Invoices : row'[j].status = (IF j = i THEN "draft" ELSE row[j].status)
                            /\ row'[j].ext = row[j].ext
    <3>1. PICK h : row' = [row EXCEPT ![i] = CreatedRow(1, h)]
      BY <2>1 DEF CreateInvoice, Write
    <3>2. CreatedRow(1, h).status = "draft" /\ CreatedRow(1, h).ext = FALSE
      BY DEF CreatedRow, NoRow
    <3>3. row[i].ext = FALSE
      BY <2>2 DEF TypeOK, Row
    <3> QED BY <3>1, <3>2, <3>3 DEF TypeOK
  <2> DEFINE st  == [j \in Invoices |-> row[j].status]
             rec == {j \in Invoices : row[j].ext}
             iss == {j \in Invoices : IssuedUuids(j) # {}}
  <2>4. st' = [st EXCEPT ![i] = "draft"] /\ rec' = rec /\ iss' = iss
    BY <2>2, <2>3 DEF IssuedUuids
  <2>5. Contract!Create(i)
    BY <2>2, <2>4 DEF Contract!Create, Contract!Set
  <2> QED BY <2>5 DEF ContractStep, Contract!Next
<1>2. CASE PayWrite(c)
  <2>1. /\ client[c].inv \in Invoices /\ UNCHANGED viettel
        /\ \E applied \in BOOLEAN :
             Write(client[c].inv, WithHash(row[client[c].inv], client[c].hash), applied)
    BY <1>2 DEF TypeOK, PayWrite
  <2> QED BY <2>1, HashStep
<1>3. CASE SubmitWrite(c)
  <2>1. /\ client[c].inv \in Invoices /\ UNCHANGED viettel /\ Exists(client[c].inv)
        /\ \E applied \in BOOLEAN :
             Write(client[c].inv, WithStatus(row[client[c].inv], "submitted"), applied)
    BY <1>3 DEF TypeOK, SubmitWrite, IssuanceInv, ClientsSafe
  <2> QED BY <2>1, StatusStep DEF Status
<1>4. CASE SubmitRecord(c) \/ SubmitEnqueue(c)
           \/ \E i \in Invoices : SubmitRead(c, i) \/ \E h \in Hashes : PayRead(c, i, h)
  <2>1. UNCHANGED <<row, viettel>>
    BY <1>4 DEF SubmitRecord, SubmitEnqueue, SubmitRead, PayRead, repoVars
  <2> QED BY <2>1, SilentStep
<1> QED BY <1>1, <1>2, <1>3, <1>4 DEF ClientNext, Request

\* Every step of the service is a contract step.
LEMMA NextContract ==
  ASSUME TypeOK, IssuanceInv, [Next]_vars PROVE ContractStep
<1>1. CASE PollerNext \/ ProcessNext \/ UNCHANGED vars
  <2>1. UNCHANGED <<row, viettel>>
    BY <1>1
    DEF PollerNext, PollerStep, PollTick, PollEnqueue, ProcessNext, Signal, CancelPool,
        Restart, Stopped, ForcedExit, Crash, Gone, vars, repoVars
  <2> QED BY <2>1, SilentStep
<1>2. ASSUME NEW i \in Invoices, ViettelNext(i) PROVE ContractStep
  <2>1. PICK u \in Uuids :
          /\ UNCHANGED row /\ viettel[i][u] = "pending"
          /\ viettel' = [viettel EXCEPT ![i][u] = "issued"]
    BY <1>2 DEF ViettelNext, AssignNumber, repoVars
  <2>2. Left(i)
    BY <2>1 DEF IssuanceInv, RowsSafe, Known
  <2> QED BY <2>1, <2>2, IssueStep
<1> QED BY <1>1, <1>2, WorkerContract, ClientContract DEF Next

\* However many workers, clients, failures and crashes there are, the service
\* behaves as the contract says.
THEOREM Implementation == Spec => ImplementsContract
<1>1. Init => Contract!Init
  <2>1. ASSUME Init PROVE {i \in Invoices : IssuedUuids(i) # {}} = {}
    BY <2>1 DEF Init, ViettelInit, IssuedUuids
  <2>2. ASSUME Init
        PROVE  /\ [i \in Invoices |-> row[i].status] \in [Invoices -> {"none", "processing"}]
               /\ {i \in Invoices : row[i].ext} = {}
    BY <2>2 DEF Init, RepoInit, NoRow, OldRow
  <2> QED BY <2>1, <2>2 DEF Contract!Init
<1>2. TypeOK /\ IssuanceInv /\ [Next]_vars => [Contract!Next]_Contract!contractVars
  BY NextContract DEF ContractStep
<1> QED BY <1>1, <1>2, InvCorrect, PTL DEF Spec, ImplementsContract, Contract!Spec
=============================================================================
