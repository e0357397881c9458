----------------------------- MODULE MCCatalog -----------------------------
\* Catalog with one item, two categories, one group and one Option of it.
EXTENDS Catalog, TLC

\* Row 5 is an Option of group 4.
OptionOfGroup == 5 :> 4

Interchangeable == Permutations(Txns)
=============================================================================
