--------------------------- MODULE MCCheckLedger ---------------------------
\* CheckLedger on small sets.  Payments, Refunds and Checks are interchangeable;
\* Units are not, because their prices differ.
EXTENDS SaleReads, TLC

CONSTANTS cup, cake

TwoUnits == {cup, cake}
Cheap == cup :> 1 @@ cake :> 1
Mixed == cup :> 1 @@ cake :> 2

Interchangeable == Permutations(Payments) \cup Permutations(Refunds) \cup Permutations(Checks)
=============================================================================
