---------------------------- MODULE MCOrderDraft ----------------------------
\* OrderDraft for a tea, and a latte by size that must have a milk, at first a free
\* one.
EXTENDS OrderDraft, TLC

CONSTANTS drinks, tea, latte, juice, small, large, extras, milk, ice, oat, soy, l1, l2

InDrinks == tea :> drinks @@ latte :> drinks @@ juice :> drinks
OfLatte == small :> latte @@ large :> latte
InGroup == ice :> extras @@ oat :> milk @@ soy :> milk
Prices == tea :> 1 @@ latte :> Absent @@ juice :> 1 @@ small :> 1 @@ large :> 2
            @@ ice :> 1 @@ oat :> 0 @@ soy :> 1
NeedsMilk == extras :> [min |-> 0, max |-> 1] @@ milk :> [min |-> 1, max |-> 1]
MilkForLatte == tea :> {} @@ latte :> {milk} @@ juice :> {}
TwoThenOne == <<2, 1>>
Interchangeable == Permutations(Lines)
=============================================================================
