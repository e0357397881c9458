\* What assertRefundHeadroom says of a set of Refund intents.
SPECIFICATION Spec
CONSTANTS
    cup = cup
    cake = cake
    Checks = {k1}
    Units <- TwoUnits
    Price <- Cheap
    Payments = {p1, p2}
    Refunds = {r1}
    NoCheck = NoCheck
SYMMETRY Interchangeable
INVARIANTS
    PromisesCovered
CHECK_DEADLOCK FALSE
