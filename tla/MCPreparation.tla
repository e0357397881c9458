--------------------------- MODULE MCPreparation ---------------------------
\* Preparation on small sets.  Checks are interchangeable.
EXTENDS QueueReads, TLC

CONSTANTS tea, cake

TwoItems == {tea, cake}
TwoTeas == tea :> 2 @@ cake :> 1
Ones == tea :> 1 @@ cake :> 1
CakeOnce == tea :> 0 @@ cake :> 1
RemadeCake == {<<cake, 2>>}
None == tea :> 0 @@ cake :> 0

Interchangeable == Permutations(Checks)
=============================================================================
