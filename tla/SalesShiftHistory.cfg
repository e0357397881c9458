\* Two Shifts one after the other, one Session, two commands in flight.
SPECIFICATION Spec
CONSTANTS
    Shifts = {s1, s2}
    Sessions = {c1}
    Txns = {t1, t2}
    NoShift = NoShift
    NoSession = NoSession
    MaxFacts = 2
    MaxAttempts = 2
SYMMETRY Interchangeable
INVARIANTS
    FrozenTotals
    AtRestUnlessOpen
    LiveWorkInOpenShift
    EndedSessionsOweNothing
    ClosedFromLatestEvidence
PROPERTIES
    ImplementsShiftBook
\* The bounds and the last Shift's closure really end the history.
CHECK_DEADLOCK FALSE
