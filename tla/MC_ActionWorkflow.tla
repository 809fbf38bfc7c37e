-------------------------- MODULE MC_ActionWorkflow --------------------------
(* Small instances of ActionWorkflow for TLC. *)
EXTENDS ActionWorkflow, TLC

CONSTANTS s1

\* Every recommendation of the instance is about the same signal, so that
\* recommendations of repeated scans contend for it.
SameSignal == [r \in Recs |-> s1]

Symmetry == Permutations(Workers)
==============================================================================
