------------------------------ MODULE SInvoice -------------------------------
(***************************************************************************)
(* Viettel SInvoice, the external service that issues the legal invoice,   *)
(* as the publisher relies on it: a request is identified by its           *)
(* transaction_uuid, repeating it changes nothing of what was taken first  *)
(* and does not issue a second invoice, an accepted request is given an    *)
(* invoice number at once or later, and a number is never taken back.      *)
(***************************************************************************)
EXTENDS Domain

VARIABLES viettel,  \* viettel[i][u]: what Viettel holds under i's u-th uuid
          cut       \* invoices Viettel took from a request that lacked lines

viettelVars == <<viettel, cut>>

ViettelState == {"none", "pending", "issued"}

ViettelInit ==
  /\ viettel = [i \in Invoices |-> [u \in Uuids |-> "none"]]
  /\ cut = {}

\* The uuids of i that Viettel knows, and those it has issued an invoice for.
Known(i) == {u \in Uuids : viettel[i][u] # "none"}
IssuedUuids(i) == {u \in Uuids : viettel[i][u] = "issued"}

\* The states a create request for uuid u may leave behind when it is taken.
AcceptedAs(i, u) ==
  IF viettel[i][u] = "issued" THEN {"issued"} ELSE {"pending", "issued"}

\* A create request for uuid u, with all its lines or not, is taken.
Take(i, u, v, whole) ==
  /\ v \in AcceptedAs(i, u)
  /\ viettel' = [viettel EXCEPT ![i][u] = v]
  /\ cut' = IF u \in Known(i) \/ whole THEN cut ELSE cut \cup {i}

\* An accepted request is given its invoice number.
AssignNumber(i) ==
  \E u \in Uuids :
    /\ viettel[i][u] = "pending"
    /\ viettel' = [viettel EXCEPT ![i][u] = "issued"]
    /\ UNCHANGED cut
=============================================================================
