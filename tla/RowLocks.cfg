\* Two Sessions, two Checks on the first, a Table, two staff, two commands in
\* flight.
SPECIFICATION Spec
CONSTANTS
    Txns = {t1, t2}
    Sessions = {1, 2}
    Checks = {1, 2}
    Tables = {1}
    Staff = {1, 2}
    SessionOf <- OfFirst
    Approvers = {2}
    DineIn = {1}
    DraftRowFirst = TRUE
SYMMETRY Interchangeable
INVARIANTS
    ServiceNumbersUnique
    EndedHoldsNoTable
    ManagerRemains
    OrderedNeverDeadlock
