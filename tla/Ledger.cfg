\* Two Checks, two Units of different price, three Payments, two Refunds.
SPECIFICATION Spec
CONSTANTS
    cup = cup
    cake = cake
    Checks = {k1, k2}
    Units <- TwoUnits
    Price <- Mixed
    Payments = {p1, p2, p3}
    Refunds = {r1, r2}
    NoCheck = NoCheck
SYMMETRY Interchangeable
INVARIANTS
    EveryReadSucceeds
    NothingReturnedTwice
    ObligationRefundable
PROPERTIES
    ImplementsSaleTab
    SaleReadsTheSame
CHECK_DEADLOCK FALSE
