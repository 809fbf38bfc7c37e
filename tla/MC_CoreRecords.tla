--------------------------- MODULE MC_CoreRecords ---------------------------
EXTENDS CoreRecords, TLC

\* Customers C1 and C10: operations about C10 contain the id C1.
MCWithin == {<<"C1", "C1">>, <<"C10", "C10">>, <<"C1", "C10">>}

Symmetry == Permutations(Workers) \cup Permutations(Accounts)
=============================================================================
