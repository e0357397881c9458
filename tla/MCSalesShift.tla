--------------------------- MODULE MCSalesShift ---------------------------
\* SalesShift on small sets.  Transactions, Sessions and Shifts are
\* interchangeable: none is named by the specification.
EXTENDS SalesShift, TLC

Interchangeable == Permutations(Shifts) \cup Permutations(Sessions) \cup Permutations(Txns)
=============================================================================
