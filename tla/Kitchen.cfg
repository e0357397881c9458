\* Two teas and a cake over two Checks.
SPECIFICATION Spec
CONSTANTS
    tea = tea
    cake = cake
    Items <- TwoItems
    Quantity <- TwoTeas
    Price <- Ones
    Checks = {k1, k2}
    NoCheck = NoCheck
    MaxRemakes <- CakeOnce
    Acknowledged <- RemadeCake
    MaxInFlight = 1
SYMMETRY Interchangeable
INVARIANTS
    ChargeIsAllocations
    AdjustmentKept
    NeverServedTwice
    ChargedOffNeverServed
    PaidForWhatStands
PROPERTIES
    NothingMadeIsCancelled
    ClosedWorkStands
    QueueKeepsTheWork
CHECK_DEADLOCK FALSE
