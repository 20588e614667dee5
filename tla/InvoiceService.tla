--------------------------- MODULE InvoiceService ----------------------------
(***************************************************************************)
(* The invoice service behind the HTTP handlers                            *)
(* (internal/service/invoice_service.go): each client has at most one      *)
(* request in progress, whose database calls are separate steps.  A        *)
(* request that is refused after its first read (not found, wrong status)  *)
(* changes nothing and is not represented.                                 *)
(***************************************************************************)
EXTENDS WorkerPool

CONSTANTS Clients,      \* concurrent HTTP requests
          MaxSubmits    \* bound: submissions started for one invoice

ASSUME ServiceAssumption == MaxSubmits \in Nat

VARIABLES
  client,     \* client[c]: the request's next call and what it has read
  submits     \* submits[i]: submissions of i that have passed their check

serviceVars == <<client, submits>>

\* reply is the answer to the client's last submission.
Reply == {"none", "accepted", "error"}
Answered(reply) == [pc |-> "idle", inv |-> NoInvoice, from |-> "none",
                    hash |-> NoHash, reply |-> reply]

ServiceInit ==
  /\ client = [c \in Clients |-> Answered("none")]
  /\ submits = [i \in Invoices |-> 0]

Accepting(c) == mode = "up" /\ client[c].pc = "idle"

\* A request's database call; its context is not the pool's.
RequestOutcome(ok, applied) ==
  /\ ok => applied
  /\ ok \/ faults < MaxDBFaults
  /\ faults' = IF ok THEN faults ELSE faults + 1

-----------------------------------------------------------------------------
\* CreateInvoice: one transaction stores the draft, its items and its uuid,
\* with the hash of the request if there is one.
CreateInvoice(c, i) ==
  /\ Accepting(c)
  /\ ~Exists(i)
  /\ \E h \in Hashes \cup {NoHash} : Write(i, CreatedRow(1, h), TRUE)
  /\ UNCHANGED <<history, faults, viettelVars, mode, poolVars, serviceVars>>

\* Mutated form: the status is not checked.
PayReadUnchecked(c, i, h) ==
  /\ Accepting(c)
  /\ Exists(i) /\ Readable(i)
  /\ client' = [client EXCEPT ![c] =
       [Answered("none") EXCEPT !.pc = "pay", !.inv = i, !.hash = h]]
  /\ UNCHANGED <<repoVars, viettelVars, mode, poolVars, submits>>

\* UpdateTransactionHash: the status is read and checked ...
PayRead(c, i, h) ==
  /\ Accepting(c)
  /\ row[i].status = "draft" /\ Readable(i)
  /\ client' = [client EXCEPT ![c] =
       [Answered("none") EXCEPT !.pc = "pay", !.inv = i, !.hash = h]]
  /\ UNCHANGED <<repoVars, viettelVars, mode, poolVars, submits>>

\* ... and the hash written by a statement that does not look at it again.
PayWrite(c) ==
  LET i == client[c].inv IN
  /\ client[c].pc = "pay"
  /\ \E ok, applied \in BOOLEAN :
       /\ RequestOutcome(ok, applied)
       /\ Write(i, WithHash(row[i], client[c].hash), applied)
  /\ client' = [client EXCEPT ![c] = Answered("none")]
  /\ UNCHANGED <<history, viettelVars, mode, poolVars, submits>>

\* SubmitInvoice: the status is read and checked ...
SubmitRead(c, i) ==
  /\ Accepting(c)
  /\ CanTransitionTo(row[i].status, "submitted") /\ Readable(i)
  /\ submits[i] < MaxSubmits
  /\ submits' = [submits EXCEPT ![i] = @ + 1]
  /\ client' = [client EXCEPT ![c] =
       [Answered("none") EXCEPT !.pc = "submit", !.inv = i, !.from = row[i].status]]
  /\ UNCHANGED <<repoVars, viettelVars, mode, poolVars>>

\* ... the new status is written, unconditionally ...
SubmitWrite(c) ==
  LET i == client[c].inv IN
  /\ client[c].pc = "submit"
  /\ \E ok, applied \in BOOLEAN :
       /\ RequestOutcome(ok, applied)
       /\ Write(i, WithStatus(row[i], "submitted"), applied)
       /\ client' = [client EXCEPT ![c] = IF ok THEN [@ EXCEPT !.pc = "record"]
                                                ELSE Answered("error")]
  /\ UNCHANGED <<history, viettelVars, mode, poolVars, submits>>

\* ... the transition recorded, from the status read at first ...
SubmitRecord(c) ==
  /\ client[c].pc = "record"
  /\ \E ok, applied \in BOOLEAN :
       /\ RequestOutcome(ok, applied)
       /\ AddHistory(client[c].inv, client[c].from, "submitted", applied)
  /\ client' = [client EXCEPT ![c].pc = "enqueue"]
  /\ UNCHANGED <<row, newer, viettelVars, mode, poolVars, submits>>

\* ... and a publish job queued; a full queue is logged, not returned.
SubmitEnqueue(c) ==
  /\ client[c].pc = "enqueue"
  /\ Enqueue([type |-> "publish", inv |-> client[c].inv])
  /\ client' = [client EXCEPT ![c] = Answered("accepted")]
  /\ UNCHANGED <<repoVars, viettelVars, mode, worker, batch, inflight, submits>>

-----------------------------------------------------------------------------
Request(c) == \/ \E i \in Invoices :
                   \/ CreateInvoice(c, i)
                   \/ SubmitRead(c, i)
                   \/ \E h \in Hashes : PayRead(c, i, h)
              \/ PayWrite(c) \/ SubmitWrite(c) \/ SubmitRecord(c) \/ SubmitEnqueue(c)
=============================================================================
