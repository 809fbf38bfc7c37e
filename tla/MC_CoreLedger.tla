--------------------------- MODULE MC_CoreLedger ---------------------------
(* Instances of CoreLedger for TLC. *)
EXTENDS CoreLedger, TLC

\* Threads are interchangeable, and so are idempotency keys.
Symmetry == Permutations(Workers) \cup Permutations(Keys)
=============================================================================
