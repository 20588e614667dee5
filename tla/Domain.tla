-------------------------------- MODULE Domain -------------------------------
(***************************************************************************)
(* The lifecycle states of an invoice and the transitions the domain       *)
(* package declares (internal/domain/invoice.go).                          *)
(***************************************************************************)
EXTENDS Integers

CONSTANTS Invoices,     \* the invoices, one row each
          MaxUuids      \* bound: transaction_uuids minted for one invoice

ASSUME DomainAssumption == MaxUuids \in Nat \ {0}

\* The transaction_uuids of an invoice, in the order they are minted.
Uuids == 1..MaxUuids
NoUuid == 0

Status == {"draft", "submitted", "processing", "completed", "failed", "cancelled"}

ValidTransitions ==
  [s \in Status |->
    CASE s = "draft"      -> {"submitted", "cancelled"}
      [] s = "submitted"  -> {"processing", "failed", "cancelled"}
      [] s = "processing" -> {"completed", "failed", "cancelled"}
      [] s = "failed"     -> {"submitted", "cancelled"}
      [] OTHER            -> {}]

CanTransitionTo(s, target) == s \in Status /\ target \in ValidTransitions[s]
=============================================================================
