-------------------------------- MODULE Sums --------------------------------
\* The sum of f[x] over the x in a finite set S.
EXTENDS Integers, FiniteSetsExt

Total(f, S) == MapThenSumSet(LAMBDA x : f[x], S)
=============================================================================
