\* The same commands and rows, with the Session row locked before the draft row.
SPECIFICATION Spec
CONSTANTS
    Txns = {t1, t2}
    Sessions = {1, 2}
    Checks = {1, 2}
    Tables = {1}
    Staff = {1, 2}
    SessionOf <- OfFirst
    Approvers = {2}
    DineIn = {1}
    DraftRowFirst = FALSE
SYMMETRY Interchangeable
INVARIANTS
    OnlyRecordedCycles
