-------------------------- MODULE IssuanceContract ---------------------------
(***************************************************************************)
(* What the service promises about issuing, however many workers, clients, *)
(* crashes and failed calls there are: only a submitted invoice is issued, *)
(* an invoice number and the status completed are shown only for issued    *)
(* invoices, and a submitted invoice never becomes a draft again.          *)
(*                                                                         *)
(* It does not promise that a completed invoice stays completed or keeps   *)
(* its number: Submit, Handle and Forget may apply to one.                 *)
(***************************************************************************)
EXTENDS Domain

VARIABLES status,     \* the status shown for each invoice
          recorded,   \* the invoices shown with an invoice number
          issued      \* the invoices Viettel has issued

contractVars == <<status, recorded, issued>>

Left(i) == status[i] \notin {"none", "draft"}

\* The rows there may be at first are being processed.
Init == /\ status \in [Invoices -> {"none", "processing"}]
        /\ recorded = {}
        /\ issued = {}

Set(i, s) == /\ status' = [status EXCEPT ![i] = s]
             /\ UNCHANGED <<recorded, issued>>

Create(i) == status[i] = "none" /\ Set(i, "draft")

Submit(i) == status[i] # "none" /\ Set(i, "submitted")

Handle(i) == Left(i) /\ \E s \in {"submitted", "processing", "failed"} : Set(i, s)

Confirm(i) == Left(i) /\ i \in issued /\ Set(i, "completed")

Issue(i) == /\ Left(i)
            /\ issued' = issued \cup {i}
            /\ UNCHANGED <<status, recorded>>

Record(i) == /\ Left(i) /\ i \in issued
             /\ recorded' = recorded \cup {i}
             /\ UNCHANGED <<status, issued>>

Forget(i) == /\ recorded' = recorded \ {i}
             /\ UNCHANGED <<status, issued>>

Next == \E i \in Invoices :
          Create(i) \/ Submit(i) \/ Handle(i) \/ Confirm(i)
            \/ Issue(i) \/ Record(i) \/ Forget(i)

Spec == Init /\ [][Next]_contractVars
=============================================================================
