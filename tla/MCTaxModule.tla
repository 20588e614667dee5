----------------------------- MODULE MCTaxModule -----------------------------
(* Small instances of TaxModule for TLC. *)
EXTENDS TaxModule, TLC, FiniteSets

\* Workers, and clients, are interchangeable in the safety runs.
Symmetry == Permutations(Workers) \cup Permutations(Clients)
=============================================================================
