\* A third Check, no Remakes: enough to move an allocation past an adjusted one.
SPECIFICATION Spec
CONSTANTS
    tea = tea
    cake = cake
    Items <- TwoItems
    Quantity <- TwoTeas
    Price <- Ones
    Checks = {k1, k2, k3}
    NoCheck = NoCheck
    MaxRemakes <- None
    Acknowledged = {}
    MaxInFlight = 1
SYMMETRY Interchangeable
INVARIANTS
    RemovalWithinCharge
CHECK_DEADLOCK FALSE
