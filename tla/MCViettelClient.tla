--------------------------- MODULE MCViettelClient ----------------------------
(* Small instances of ViettelClient for TLC. *)
EXTENDS ViettelClient, TLC

\* The callers are interchangeable in the safety run.
CallerSymmetry == Permutations(Callers)
=============================================================================
