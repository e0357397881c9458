\* Two Shifts one after the other, which close at the one instant there is.
SPECIFICATION AmountsSpec
CONSTANTS
    SalesShifts = {s1, s2}
    MaxAmount = 1
    Floats = {0}
    Reasons = {"CASH_COUNT_DIFFERENCE", "QR_OBSERVATION_DIFFERENCE"}
    MaxRecorded = 2
    MaxEvidence = 4
    Times = {1}
    MaxWindow = 1
    PageSizes = {1, 2}
SYMMETRY Interchangeable
INVARIANTS
    PreviewTellsTheTruth
    DifferencesExplained
    ClosedAsAnswered
    HistoryComplete
    NeverStranded
\* The bounds and the last Shift's closure really end the history.
CHECK_DEADLOCK FALSE
