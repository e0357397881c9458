-------------------------- MODULE MCReconciliation --------------------------
\* Reconciliation on two Shifts.  Shifts are named by nothing but the closures' ids,
\* which are chosen, so they are interchangeable.
EXTENDS Reconciliation, TLC

Interchangeable == Permutations(SalesShifts)
=============================================================================
