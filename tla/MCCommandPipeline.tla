------------------------- MODULE MCCommandPipeline -------------------------
\* CommandPipeline for two members of staff and three attempts.
EXTENDS CommandPipeline, TLC

CONSTANTS ann, bob, r1, r2, a1, a2, a3, x, y

\* One request of ann's three times: with bob's approval, with her own, and once
\* with another input and no approval.
OneRequest == a1 :> r1 @@ a2 :> r1 @@ a3 :> r1
InputsDiffer == a1 :> x @@ a2 :> x @@ a3 :> y
ApprovalsDiffer == a1 :> bob @@ a2 :> ann @@ a3 :> NoStaff

\* ann and bob name each other as approver, and ann tries twice.
TwoRequests == a1 :> r1 @@ a2 :> r2 @@ a3 :> r1
SameInput == a1 :> x @@ a2 :> x @@ a3 :> x
Crosswise == a1 :> bob @@ a2 :> ann @@ a3 :> bob

ByAnnAndBob == r1 :> ann @@ r2 :> bob
=============================================================================
