--------------------------- MODULE Reconciliation ---------------------------
(***************************************************************************)
(* The amounts of a Sales Shift: what it expects to hold, what was counted *)
(* and observed, and what Final Close makes of the difference.             *)
(*                                                                         *)
(* Start freezes three expectations, staff append counts and observations, *)
(* and a Shift closes exactly or with a reason for every difference.  The  *)
(* same comparison is made three times by different code -- the preview a  *)
(* Cashier sees, the rules of Final Close and the CHECKs of the database   *)
(* -- and a closed Shift is then read back page by page for years.         *)
(*                                                                         *)
(* A command is one step: it holds the Shift's row FOR UPDATE, as          *)
(* SalesShift models, whose closure blockers are left out here.  Facts are *)
(* the sums Start reads; CheckLedger says what they come from.             *)
(***************************************************************************)
EXTENDS Integers, FiniteSets, Sequences, SequencesExt, Sums

CONSTANTS
    SalesShifts,   \* the Sales Shifts of the history, as Shifts are in SalesShift
    MaxAmount,     \* MaxAmountVND
    Floats,        \* opening floats
    Reasons,       \* the reasons clients give, of the catalogue below
    MaxRecorded,   \* bound: sum of all facts ever recorded
    MaxEvidence,   \* bound: attempts of both ledgers of all Shifts
    Times,         \* instants of the database clock at which a Shift closes
    MaxWindow,     \* MaxClosedShiftWindow, in those instants
    PageSizes      \* limits a reader asks for

ASSUME AmountAssumption == MaxAmount \in Nat \ {0} /\ Floats \subseteq 0..MaxAmount
ASSUME TimeAssumption == Times \subseteq Nat /\ PageSizes \subseteq Nat \ {0}
ASSUME ShiftAssumption == IsFiniteSet(SalesShifts)

VARIABLES
    state,         \* sales_shifts.state
    float,         \* sales_shifts.opening_float_vnd
    total,         \* the sum of a Shift's facts of each kind
    frozen,        \* shift_reconciliations
    counts,        \* shift_cash_counts, by sequence
    observations,  \* shift_qr_observations, by sequence
    closed,        \* shift_closures, each with its shift_discrepancies
    answer,        \* what Final Close told its client
    walk           \* a Manager paging through the history

moneyVars == <<float, total>>
evidenceVars == <<frozen, counts, observations>>
closedVars == <<closed, answer>>
amountsVars == <<state, moneyVars, evidenceVars, closedVars, walk>>

\* What a client may enter: ValidateOpeningFloat, validateCountedCash and the like.
Amounts == 0..MaxAmount
Kinds == {"PAY_IN", "PAY_OUT", "CASH_PAYMENT", "CASH_VOID", "CASH_REFUND",
          "QR_PAYMENT", "QR_VOID", "QR_REFUND"}
Dimensions == {"CASH", "MANUAL_QR_RECEIVED", "MANUAL_QR_REFUNDED"}
ReasonsFor(d) ==
    {"UNEXPLAINED", "OTHER",
     IF d = "CASH" THEN "CASH_COUNT_DIFFERENCE" ELSE "QR_OBSERVATION_DIFFERENCE"}
ASSUME ReasonAssumption == Reasons \cap ReasonsFor("CASH") # {}

Nothing == [kind |-> "NOTHING"]
NoFacts == [k \in Kinds |-> 0]
InWindow(n) == -MaxAmount <= n /\ n <= MaxAmount

-----------------------------------------------------------------------------
(* Facts, while the Shift is OPEN.                                         *)

Recorded == Total([s \in SalesShifts |-> Total(total[s], Kinds)], SalesShifts)
Overall(kind) == Total([s \in SalesShifts |-> total[s][kind]], SalesShifts)

OpenSalesShift(s, f) ==
    /\ state[s] = "ABSENT" /\ \A o \in SalesShifts : state[o] \notin {"OPEN", "CLOSING"}
    /\ state' = [state EXCEPT ![s] = "OPEN"]
    /\ float' = [float EXCEPT ![s] = f]
    /\ UNCHANGED <<total, evidenceVars, closedVars, walk>>

RecordFact(s, kind, a) ==
    /\ state[s] = "OPEN" /\ a \in 1..MaxAmount /\ Recorded + a <= MaxRecorded
    /\ total' = [total EXCEPT ![s][kind] = @ + a]
    /\ UNCHANGED <<state, float, evidenceVars, closedVars, walk>>

CashMovement(s, kind, a) == kind \in {"PAY_IN", "PAY_OUT"} /\ RecordFact(s, kind, a)

\* A Void takes a Payment of its own Shift back, a Refund one of any; neither gives
\* back what the other did.  How a total splits into Payments is left open.
Kept(payment, void, refund) == Overall(payment) - Overall(void) - Overall(refund)

Payment(s, payment, a) == RecordFact(s, payment, a)
Void(s, payment, void, refund, a) ==
    /\ total[s][void] + a <= total[s][payment] /\ a <= Kept(payment, void, refund)
    /\ RecordFact(s, void, a)
Refund(s, payment, void, refund, a) ==
    /\ a <= Kept(payment, void, refund)
    /\ RecordFact(s, refund, a)

-----------------------------------------------------------------------------
(* Start and the two ledgers.                                              *)

ExpectedCash(s) ==
    LET t == total[s] IN
    float[s] + t["CASH_PAYMENT"] - t["CASH_VOID"] - t["CASH_REFUND"] + t["PAY_IN"] - t["PAY_OUT"]

Expected(s) ==
    [CASH |-> ExpectedCash(s),
     MANUAL_QR_RECEIVED |-> total[s]["QR_PAYMENT"] - total[s]["QR_VOID"],
     MANUAL_QR_REFUNDED |-> total[s]["QR_REFUND"]]

\* What the snapshot cannot hold, only of the drawer.
FreezableDrawer(s) == InWindow(Expected(s)["CASH"])

\* freezeReconciliationSnapshot: two of the three expectations are range-checked.
Freezable(s) ==
    InWindow(Expected(s)["CASH"]) /\ InWindow(Expected(s)["MANUAL_QR_RECEIVED"])

\* Start: the count crosses the boundary before the expectations do.
StartReconciliation(s, counted) ==
    /\ state[s] = "OPEN" /\ Freezable(s)
    /\ frozen' = [frozen EXCEPT
                       ![s] = [float |-> float[s], source |-> total[s], expected |-> Expected(s)]]
    /\ counts' = [counts EXCEPT ![s] = <<counted>>]
    /\ state' = [state EXCEPT ![s] = "CLOSING"]
    /\ UNCHANGED <<moneyVars, observations, closedVars, walk>>

Attempts == Total([s \in SalesShifts |-> Len(counts[s]) + Len(observations[s])], SalesShifts)

\* The next sequence is one more than the last, which the Shift's lock keeps true.
Attempt(ledger, attempt) == Append(ledger, attempt)

\* A recount is taken as long as there is a reconciliation.
RecordCashCountAnytime(s, counted) ==
    /\ frozen[s] # Nothing /\ Attempts < MaxEvidence
    /\ counts' = [counts EXCEPT ![s] = Attempt(@, counted)]
    /\ UNCHANGED <<state, moneyVars, frozen, observations, closedVars, walk>>

RecordCashCount(s, counted) ==
    /\ state[s] = "CLOSING" /\ Attempts < MaxEvidence
    /\ counts' = [counts EXCEPT ![s] = Attempt(@, counted)]
    /\ UNCHANGED <<state, moneyVars, frozen, observations, closedVars, walk>>

RecordQRObservation(s, received, refunded) ==
    /\ state[s] = "CLOSING" /\ Attempts < MaxEvidence
    /\ observations' = [observations EXCEPT
                           ![s] = Attempt(@, [received |-> received, refunded |-> refunded])]
    /\ UNCHANGED <<state, moneyVars, frozen, counts, closedVars, walk>>

\* Both ledgers as the queries list them, by sequence.
Evidence(s) == [counts |-> counts[s], observations |-> observations[s]]

-----------------------------------------------------------------------------
(* Evidence against expectation.                                           *)

Observed(count, observation) ==
    [CASH |-> count, MANUAL_QR_RECEIVED |-> observation.received,
     MANUAL_QR_REFUNDED |-> observation.refunded]

Differences(expected, observed) == [d \in Dimensions |-> observed[d] - expected[d]]
Nonzero(differences) == {d \in Dimensions : differences[d] # 0}

\* What was refunded is shown but decides nothing.
RechecksOfReceipts(s) ==
    LET expected == frozen[s].expected
    IN  {d \in {"CASH"} : Last(counts[s]) # expected["CASH"]}
        \cup (IF observations[s] = <<>> THEN {}
              ELSE {d \in {"MANUAL_QR_RECEIVED"} : Last(observations[s]).received # expected[d]})

\* buildReconciliationPreview: the dimensions marked recheck_required, of which the
\* two of Manual QR are not judged before the first observation.
Rechecks(s) ==
    LET expected == frozen[s].expected
    IN  IF observations[s] = <<>>
        THEN {d \in {"CASH"} : Last(counts[s]) # expected["CASH"]}
        ELSE Nonzero(Differences(expected, Observed(Last(counts[s]), Last(observations[s]))))

CanClose(s) == observations[s] # <<>> /\ Rechecks(s) = {}

\* The snapshot and its ledgers, which a Cashier reads and Final Close verifies.
Reconciliation(s) == [frozen |-> frozen[s], evidence |-> Evidence(s)]

\* What a Cashier reads while the Shift is CLOSING, and nothing of it while OPEN.
CurrentShift(s) ==
    IF state[s] = "OPEN" THEN [state |-> "OPEN"]
    ELSE [state |-> "CLOSING", reconciliation |-> Reconciliation(s),
          rechecks |-> Rechecks(s), canClose |-> CanClose(s)]

\* The reasons of a request: one entry for each of the dimensions it explains.
Explanations == UNION {[D -> Reasons] : D \in SUBSET Dimensions}

\* Nothing was recorded since the snapshot.
SourceVerified(s) == total[s] = frozen[s].source

\* The attempt a client names is the last of its ledger.
Final(ledger, i) == i = Len(ledger)

\* The recheck of the QR ledger follows the recount of the drawer.
LookedAtTwiceOnRecount(nonzero, i, j) == nonzero # {} => i >= 2
LookedAtTwice(nonzero, i, j) ==
    /\ "CASH" \in nonzero => i >= 2
    /\ nonzero \ {"CASH"} # {} => j >= 2

\* One reason for each difference and none besides, of a kind that fits it.
ReasonsMatch(nonzero, why) ==
    /\ DOMAIN why = nonzero
    /\ \A d \in nonzero : why[d] \in ReasonsFor(d)

\* verifyClose, over the ledgers C and O; then the CHECK of shift_discrepancies.
Accepted(s, C, O, i, j, why) ==
    LET nonzero == Nonzero(Differences(frozen[s].expected, Observed(C[i], O[j])))
    IN  /\ SourceVerified(s)
        /\ Final(C, i) /\ Final(O, j)
        /\ LookedAtTwice(nonzero, i, j)
        /\ ReasonsMatch(nonzero, why)
        /\ \A d \in nonzero : InWindow(frozen[s].expected[d])

\* A row of shift_discrepancies, and the rows of a closure.
DiscrepancyRow(expected, observed, reason) ==
    [expected |-> expected, observed |-> observed, difference |-> observed - expected,
     reason |-> reason]
Explained(expected, observed, why) ==
    [d \in DOMAIN why |-> DiscrepancyRow(expected[d], observed[d], why[d])]

\* A row of shift_closures with its discrepancies: the database picks instant and id.
ClosureRow(id, at, recon, observed, why) ==
    [id |-> id, at |-> at, float |-> recon.float, source |-> recon.source,
     expected |-> recon.expected, observed |-> observed,
     difference |-> Differences(recon.expected, observed),
     rows |-> Explained(recon.expected, observed, why),
     approved |-> DOMAIN why # {}]

\* The response, of what the command holds in memory.
Told(row, recon) ==
    [closure |-> row, flagged |-> Nonzero(row.difference) # {}, evidence |-> recon.evidence]

Closed == {s \in SalesShifts : closed[s] # Nothing}

\* Final Close.  A request with reasons is one a Manager approved, which the pipeline
\* verified.
FinalClose(s, i, j, why) ==
    /\ state[s] = "CLOSING"
    /\ Accepted(s, counts[s], observations[s], i, j, why)
    /\ state' = [state EXCEPT ![s] = "CLOSED"]
    /\ \E at \in Times, id \in 1..Cardinality(SalesShifts) :
          LET recon == Reconciliation(s)
              row == ClosureRow(id, at, recon.frozen,
                                Observed(counts[s][i], observations[s][j]), why)
          IN  /\ \A o \in Closed : closed[o].at <= at /\ closed[o].id # id
              /\ closed' = [closed EXCEPT ![s] = row]
              /\ answer' = [answer EXCEPT ![s] = Told(row, recon)]
    /\ UNCHANGED <<moneyVars, evidenceVars, walk>>

-----------------------------------------------------------------------------
(* The history of closed Shifts.                                           *)

\* has_discrepancy of the list, and of the detail.
FlaggedInList(s) ==
    \/ closed[s].difference["CASH"] # 0
    \/ closed[s].difference["MANUAL_QR_RECEIVED"] # 0
    \/ closed[s].difference["MANUAL_QR_REFUNDED"] # 0
Flagged(s) == \E d \in Dimensions : closed[s].difference[d] # 0

\* GetClosedShift, long after: the attempts come from the ledgers, which the closure
\* does not repeat.
Detail(s) == [closure |-> closed[s], flagged |-> Flagged(s), evidence |-> Evidence(s)]

InRange(s, from, to) == from <= closed[s].at /\ closed[s].at < to

\* The cursor is the instant alone.
AfterInstant(cursor, s) == closed[s].at < cursor.at

\* The row comparison (closed_at, id) < (cursor's).
After(cursor, s) ==
    \/ closed[s].at < cursor.at
    \/ closed[s].at = cursor.at /\ closed[s].id < cursor.id

Position(s) == [at |-> closed[s].at, id |-> closed[s].id]

\* ORDER BY closed_at DESC, id DESC.
Newer(s, o) ==
    \/ closed[s].at > closed[o].at
    \/ closed[s].at = closed[o].at /\ closed[s].id > closed[o].id

\* How many of the rows come before one of them.
Rank(rows, s) == Cardinality({o \in rows : Newer(o, s)})

Rest(from, to, cursor) ==
    {s \in Closed : InRange(s, from, to) /\ (cursor = Nothing \/ After(cursor, s))}

\* ListClosedShiftSummaries: the first rows beyond the cursor, newest first.
FirstRows(rows, limit) ==
    [n \in 1..(IF Cardinality(rows) < limit THEN Cardinality(rows) ELSE limit) |->
        CHOOSE s \in rows : Rank(rows, s) = n - 1]
Page(from, to, cursor, limit) == FirstRows(Rest(from, to, cursor), limit)

Window(from, to) == from <= to /\ to - from <= MaxWindow

\* A row of the list.
Summary(s) ==
    [shift |-> s, at |-> closed[s].at, difference |-> closed[s].difference,
     flagged |-> FlaggedInList(s)]

StartWalk(from, to) ==
    /\ walk = Nothing /\ Window(from, to)
    /\ walk' = [from |-> from, to |-> to, cursor |-> Nothing, seen |-> <<>>, ended |-> FALSE,
                due |-> {s \in Closed : InRange(s, from, to)}]
    /\ UNCHANGED <<state, moneyVars, evidenceVars, closedVars>>

\* A full page carries a cursor, any other is the last one.
NextPage(limit) ==
    /\ walk # Nothing /\ ~walk.ended
    /\ LET page == Page(walk.from, walk.to, walk.cursor, limit) IN
       walk' = [walk EXCEPT
                   !.seen = @ \o [n \in DOMAIN page |-> Summary(page[n])],
                   !.ended = Len(page) < limit,
                   !.cursor = IF Len(page) < limit THEN @ ELSE Position(Last(page))]
    /\ UNCHANGED <<state, moneyVars, evidenceVars, closedVars>>

-----------------------------------------------------------------------------
AmountsInit ==
    /\ state = [s \in SalesShifts |-> "ABSENT"]
    /\ float = [s \in SalesShifts |-> 0]
    /\ total = [s \in SalesShifts |-> NoFacts]
    /\ frozen = [s \in SalesShifts |-> Nothing]
    /\ counts = [s \in SalesShifts |-> <<>>]
    /\ observations = [s \in SalesShifts |-> <<>>]
    /\ closed = [s \in SalesShifts |-> Nothing]
    /\ answer = [s \in SalesShifts |-> Nothing]
    /\ walk = Nothing

Instants == Times \cup {t + 1 : t \in Times}

AmountsNext ==
    \/ \E s \in SalesShifts :
          \/ \E f \in Floats : OpenSalesShift(s, f)
          \/ \E a \in Amounts :
                \/ \E kind \in Kinds : CashMovement(s, kind, a)
                \/ \E kind \in {"CASH_PAYMENT", "QR_PAYMENT"} : Payment(s, kind, a)
                \/ Void(s, "CASH_PAYMENT", "CASH_VOID", "CASH_REFUND", a)
                \/ Void(s, "QR_PAYMENT", "QR_VOID", "QR_REFUND", a)
                \/ Refund(s, "CASH_PAYMENT", "CASH_VOID", "CASH_REFUND", a)
                \/ Refund(s, "QR_PAYMENT", "QR_VOID", "QR_REFUND", a)
                \/ StartReconciliation(s, a)
                \/ RecordCashCount(s, a)
                \/ \E b \in Amounts : RecordQRObservation(s, a, b)
          \/ \E i \in 1..Len(counts[s]), j \in 1..Len(observations[s]), why \in Explanations :
                FinalClose(s, i, j, why)
    \/ \E from, to \in Instants : StartWalk(from, to)
    \/ \E limit \in PageSizes : NextPage(limit)

AmountsSpec == AmountsInit /\ [][AmountsNext]_amountsVars

-----------------------------------------------------------------------------
\* While a Shift is CLOSING, what its Cashier is shown is what Final Close will say
\* of the latest attempts: it may close exactly just when the preview says so, and
\* a close with reasons needs one for each dimension marked for a recheck and no
\* other.  Two pieces of code compare the evidence, buildReconciliationPreview
\* and verifyClose.
PreviewTellsTheTruth ==
    \A s \in SalesShifts : state[s] = "CLOSING" =>
        LET shown == CurrentShift(s)
            Passes(why) == Accepted(s, counts[s], observations[s],
                                    Len(counts[s]), Len(observations[s]), why)
        IN  /\ shown.canClose <=> observations[s] # <<>> /\ Passes(<<>>)
            /\ observations[s] # <<>> =>
                  \A why \in Explanations : Passes(why) => DOMAIN why = shown.rechecks

\* Whatever was entered, and when, on the way: the money of a closed Shift, summed
\* again from its facts and set against the last attempt of each ledger, differs
\* exactly where a reason of the right kind is on file; a Manager approved if
\* anything differs, and whoever counted it looked twice.
DifferencesExplained ==
    \A s \in Closed :
        LET off == Nonzero(Differences(Expected(s), Observed(Last(counts[s]), Last(observations[s]))))
            rows == closed[s].rows
        IN  /\ DOMAIN rows = off
            /\ \A d \in off : rows[d].reason \in ReasonsFor(d) /\ InWindow(rows[d].expected)
            /\ closed[s].approved <=> off # {}
            /\ "CASH" \in off => Len(counts[s]) >= 2
            /\ off \ {"CASH"} # {} => Len(observations[s]) >= 2

\* What a Manager reads of a closed Shift, at any later time, in the list or in the
\* detail, is what the one who closed it was told.  The readings are put together
\* from rows of five tables, the answer from what the command held in memory, and
\* each of the three has its own idea of what a discrepancy is.
ClosedAsAnswered ==
    /\ \A s \in Closed : Detail(s) = answer[s]
    /\ walk # Nothing => \A n \in DOMAIN walk.seen :
          LET row == walk.seen[n]  told == answer[row.shift]
          IN  /\ row.flagged = told.flagged /\ row.at = told.closure.at
              /\ row.difference = told.closure.difference

\* Paging to the end of a window returns every closure it held when the walk began,
\* once, newest first, whatever the page sizes, whichever closures share an
\* instant and whatever closes meanwhile.
HistoryComplete ==
    walk # Nothing /\ walk.ended =>
        /\ \A m, n \in DOMAIN walk.seen :
              m < n => Newer(walk.seen[m].shift, walk.seen[n].shift)
        /\ \A s \in walk.due : \E n \in DOMAIN walk.seen : walk.seen[n].shift = s

\* A Shift that is CLOSING can still be closed: some further counts and observations,
\* within the amounts the ledgers take, let a Final Close through, with or without
\* reasons.  Nothing leads back to OPEN, and no other Shift opens meanwhile.  The code
\* keeps this promise unless the completed QR Refunds of the Shift outgrow MaxAmount:
\* freezeReconciliationSnapshot range-checks the other two expectations only.
NeverStranded ==
    \A s \in SalesShifts :
        state[s] = "CLOSING" /\ InWindow(frozen[s].expected["MANUAL_QR_REFUNDED"]) =>
            \E c, received, refunded \in Amounts, why \in Explanations :
                LET C == Append(counts[s], c)
                    seen == [received |-> received, refunded |-> refunded]
                    O == observations[s] \o <<seen, seen>>
                IN  Accepted(s, C, O, Len(C), Len(O), why)
=============================================================================
