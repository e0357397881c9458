---------------------------- MODULE MCRowLocks ----------------------------
\* RowLocks on small sets of ids.  Transactions are interchangeable.
EXTENDS RowLocks, TLC

\* Both Checks are the first Session's.
OfFirst == 1 :> 1 @@ 2 :> 1

Interchangeable == Permutations(Txns)
=============================================================================
