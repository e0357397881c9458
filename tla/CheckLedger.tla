---------------------------- MODULE CheckLedger ----------------------------
(***************************************************************************)
(* The money of one Service Session: its Checks, the Preparation Units     *)
(* charged to them, the Payments that cover them and the corrections --    *)
(* Void, Cancellation, Comp, Withdrawal, Refund -- that take money back.   *)
(*                                                                         *)
(* Every row is append-only except two denormalised columns, checks.state  *)
(* and checks.charge_vnd, that each command must keep in step with the     *)
(* facts it appends.  A Refund spends two sources at once, Payments and    *)
(* Charge Adjustments, and a Manual QR Refund is an intent that reserves   *)
(* both until somebody confirms it, while other commands go on changing    *)
(* what it was recorded against.                                           *)
(*                                                                         *)
(* Commands are single steps: they all hold the Session's row locks and    *)
(* the OPEN Sales Shift, the protocol SalesShift models.  By its theorems  *)
(* a Session's Payments and pending Refunds all belong to the Shift that   *)
(* is OPEN, so the Shift conditions of Void and Confirm always hold here.  *)
(***************************************************************************)
EXTENDS Integers, FiniteSets, Sums

CONSTANTS
    Checks,        \* Checks the Session may come to have
    Units,         \* Preparation Units, each a charged quantity of one
    Price,         \* Unit -> its frozen unit price
    Payments,      \* bound: Payment rows
    Refunds,       \* bound: Refund rows
    NoCheck        \* "no Check"

ASSUME PriceAssumption == Price \in [Units -> Nat \ {0}]
ASSUME NoCheckAssumption == NoCheck \notin Checks
ASSUME FiniteAssumption ==
    IsFiniteSet(Checks) /\ IsFiniteSet(Units) /\ IsFiniteSet(Payments) /\ IsFiniteSet(Refunds)

VARIABLES
    mode,       \* service_sessions.service_mode, fixed at Start
    session,    \* service_sessions.state
    check,      \* Check -> its state and its stored charge
    unit,       \* Unit -> the Check it is charged to, its work, its adjustment
    payment,    \* Payment -> the fact, with its Void
    refund      \* Refund -> the intent, its allocations and its completion

vars == <<mode, session, check, unit, payment, refund>>

Methods == {"CASH", "MANUAL_QR"}
Ordered == {"QUEUED", "MAKING", "FULFILLED", "WASTED", "CANCELLED"}

CheckRow == [state : {"ABSENT", "OPEN", "SETTLED", "ABANDONED"}, charge : Nat]
\* "MAKING" stands for IN_PREPARATION and READY; "NEW" is a draft item not yet
\* committed.  adjusted is the scope of the Unit's one Charge Adjustment, and a
\* Refund's scope is whether it names a Completed Sale.
Scopes == {"LIVE_CHECK", "POST_SALE"}
UnitRow ==
    [at : Checks \cup {NoCheck},
     work : {"NEW", "COMMITTED", "WITHDRAWN"} \cup Ordered,
     adjusted : {"NONE"} \cup Scopes]
PaymentRow ==
    [on : Checks \cup {NoCheck}, method : Methods, amount : Nat, voided : BOOLEAN]
RefundRow ==
    [on : Checks \cup {NoCheck}, method : Methods, scope : Scopes, completed : BOOLEAN,
     from : [Payments -> Nat], against : [Units -> Nat]]

NoPayment == [on |-> NoCheck, method |-> "CASH", amount |-> 0, voided |-> FALSE]
NoRefund == [on |-> NoCheck, method |-> "CASH", scope |-> "LIVE_CHECK", completed |-> FALSE,
             from |-> [p \in Payments |-> 0], against |-> [u \in Units |-> 0]]

Init ==
    /\ mode \in {"DINE_IN", "TAKEAWAY"}
    /\ session = "ACTIVE"
    /\ check = [k \in Checks |-> [state |-> "ABSENT", charge |-> 0]]
    /\ unit = [u \in Units |-> [at |-> NoCheck, work |-> "NEW", adjusted |-> "NONE"]]
    /\ payment = [p \in Payments |-> NoPayment]
    /\ refund = [r \in Refunds |-> NoRefund]

-----------------------------------------------------------------------------
(* Derived money.                                                          *)

Prices(S) == Total(Price, S)

ChargedTo(k) == {u \in Units : unit[u].at = k}
Adjusted(k, scope) == {u \in ChargedTo(k) : unit[u].adjusted = scope}
PaidOn(k) == {p \in Payments : payment[p].on = k /\ ~payment[p].voided}
RefundAmount == [r \in Refunds |-> Total(refund[r].from, Payments)]
RefundsOn(k, scope) == {r \in Refunds : refund[r].on = k /\ refund[r].scope = scope}

Returned(k, scope) ==
    Total(RefundAmount, {r \in RefundsOn(k, scope) : refund[r].completed})
\* A pending Manual QR intent: it reserves, but no money has moved.
Reserved(k, scope) ==
    Total(RefundAmount, {r \in RefundsOn(k, scope) : ~refund[r].completed})

PaidAmount == [p \in Payments |-> payment[p].amount]
ValidPaid(k) == Total(PaidAmount, PaidOn(k))

\* ComputeCheckFinancials: the receipt left after Voids and completed live Refunds.
EffectiveReceived(k) == ValidPaid(k) - Returned(k, "LIVE_CHECK")
Monus(a, b) == IF a > b THEN a - b ELSE 0
BalanceAt(charge, k) == Monus(charge, EffectiveReceived(k))
Balance(k) == BalanceAt(check[k].charge, k)
Obligation(k) == Monus(EffectiveReceived(k), check[k].charge)

\* loadOutstandingPostSaleRefundVND: per Completed Sale, over all its Checks.
PostSaleOutstanding ==
    Total([k \in Checks |-> Prices(Adjusted(k, "POST_SALE"))], Checks)
        - Total([k \in Checks |-> Returned(k, "POST_SALE")], Checks)

\* What a source has left, every allocation counted, pending ones included.
DrawnFrom(p) == Total([r \in Refunds |-> refund[r].from[p]], Refunds)
DrawnAgainst(u) == Total([r \in Refunds |-> refund[r].against[u]], Refunds)
PaymentCapacity == [p \in Payments |-> payment[p].amount - DrawnFrom(p)]
AdjustmentCapacity == [u \in Units |-> Price[u] - DrawnAgainst(u)]

HasOrder == \E u \in Units : unit[u].work \in Ordered

-----------------------------------------------------------------------------
(* Orders and preparation.                                                 *)

\* Commit Order Draft: one draft at a time, none awaiting Submit or CANCELLED;
\* its charge joins an OPEN Check or a new one.  Which OPEN Check is the most
\* recent is abstracted.
CommitDraft(D, k) ==
    /\ session = "ACTIVE" /\ D # {}
    /\ \A u \in D : unit[u].work = "NEW"
    /\ \A u \in Units : unit[u].work \notin {"COMMITTED", "WITHDRAWN"}
    /\ check[k].state \in {"ABSENT", "OPEN"}
    /\ unit' = [u \in Units |->
                   IF u \in D THEN [unit[u] EXCEPT !.at = k, !.work = "COMMITTED"] ELSE unit[u]]
    /\ check' = [check EXCEPT ![k] = [state |-> "OPEN", charge |-> @.charge + Prices(D)]]
    /\ UNCHANGED <<mode, session, payment, refund>>

\* Submit: the committed draft becomes an Order of QUEUED units.  Takeaway work
\* is not sent to the bar before its Checks are SETTLED.
SubmitOrder ==
    LET D == {u \in Units : unit[u].work = "COMMITTED"} IN
    /\ session = "ACTIVE" /\ D # {}
    /\ mode = "TAKEAWAY" => \A u \in D : check[unit[u].at].state = "SETTLED"
    /\ unit' = [u \in Units |-> IF u \in D THEN [unit[u] EXCEPT !.work = "QUEUED"] ELSE unit[u]]
    /\ UNCHANGED <<mode, session, check, payment, refund>>

\* Advance, one step of the chain; it takes no lock but the unit's.
AdvanceUnit(u) ==
    /\ unit[u].work \in {"QUEUED", "MAKING"}
    /\ unit' = [unit EXCEPT ![u].work = IF @ = "QUEUED" THEN "MAKING" ELSE "FULFILLED"]
    /\ UNCHANGED <<mode, session, check, payment, refund>>

\* Waste a unit that is being made.
WasteUnit(u) ==
    /\ unit[u].work = "MAKING"
    /\ unit' = [unit EXCEPT ![u].work = "WASTED"]
    /\ UNCHANGED <<mode, session, check, payment, refund>>

\* Correct Preparation State: back one step, and only in an ACTIVE Session.
CorrectState(u) ==
    /\ session = "ACTIVE" /\ unit[u].work \in {"MAKING", "FULFILLED"}
    /\ unit' = [unit EXCEPT ![u].work = IF @ = "FULFILLED" THEN "MAKING" ELSE "QUEUED"]
    /\ UNCHANGED <<mode, session, check, payment, refund>>

-----------------------------------------------------------------------------
(* Payments.                                                               *)

PayWithoutBalance(k, p, method, amount) ==
    /\ session = "ACTIVE" /\ check[k].state = "OPEN"
    /\ payment[p] = NoPayment /\ amount > 0
    /\ payment' = [payment EXCEPT
                      ![p] = [on |-> k, method |-> method, amount |-> amount, voided |-> FALSE]]
    /\ check' = [check EXCEPT ![k].state = IF amount >= Balance(k) THEN "SETTLED" ELSE "OPEN"]
    /\ UNCHANGED <<mode, session, unit, refund>>
\* Cash and Manual QR Payment: never above the balance; it settles at zero.
RecordPayment(k, p, method, amount) ==
    /\ session = "ACTIVE" /\ check[k].state = "OPEN"
    /\ payment[p] = NoPayment
    /\ amount > 0 /\ amount <= Balance(k)
    /\ payment' = [payment EXCEPT
                      ![p] = [on |-> k, method |-> method, amount |-> amount, voided |-> FALSE]]
    /\ check' = [check EXCEPT ![k].state = IF amount = Balance(k) THEN "SETTLED" ELSE "OPEN"]
    /\ UNCHANGED <<mode, session, unit, refund>>

\* Mutant: only completed Refunds stand in the way of a Void.
UndrawnByCompleted(p) == \A r \in Refunds : refund[r].completed => refund[r].from[p] = 0
\* A Payment no Refund, pending or completed, has drawn on.
Unallocated(p) == \A r \in Refunds : refund[r].from[p] = 0

\* Void Payment: the whole amount; a SETTLED Check it uncovers reopens.
VoidPayment(p) ==
    LET k == payment[p].on
        receipt == EffectiveReceived(k) - payment[p].amount IN
    /\ payment[p] # NoPayment /\ ~payment[p].voided /\ Unallocated(p)
    /\ session = "ACTIVE" /\ check[k].state \in {"OPEN", "SETTLED"}
    /\ payment' = [payment EXCEPT ![p].voided = TRUE]
    /\ check' = [check EXCEPT ![k].state = IF check[k].charge > receipt THEN "OPEN" ELSE @]
    /\ UNCHANGED <<mode, session, unit, refund>>

-----------------------------------------------------------------------------
(* Charge corrections.                                                     *)

\* Mutant: the settlement that follows a lower charge forgotten.
LowerWithoutSettling(D) ==
    check' = [k \in Checks |->
                 [check[k] EXCEPT !.charge = @ - Prices(D \cap ChargedTo(k))]]
\* The charge falls by the prices of D; an OPEN Check it leaves covered settles.
LowerCharges(D) ==
    check' = [k \in Checks |->
                 LET cut == D \cap ChargedTo(k)
                     charge == check[k].charge - Prices(cut) IN
                 IF cut = {} THEN check[k]
                 ELSE [state |-> IF BalanceAt(charge, k) = 0 /\ check[k].state = "OPEN"
                                 THEN "SETTLED" ELSE check[k].state,
                       charge |-> charge]]

\* Cancel Preparation Units: one batch, all QUEUED, one adjustment each.
CancelUnits(D) ==
    /\ session = "ACTIVE" /\ D # {}
    /\ \A u \in D : unit[u].work = "QUEUED"
    /\ unit' = [u \in Units |->
                   IF u \in D THEN [unit[u] EXCEPT !.work = "CANCELLED", !.adjusted = "LIVE_CHECK"]
                   ELSE unit[u]]
    /\ LowerCharges(D)
    /\ UNCHANGED <<mode, session, payment, refund>>

\* Comp a Waste: once per Waste.  An ACTIVE Session's charge falls; a CLOSED
\* one keeps its Completed Sale and gains an additive correction.
CompWaste(u) ==
    /\ unit[u].work = "WASTED" /\ unit[u].adjusted = "NONE"
    /\ \/ /\ session = "ACTIVE" /\ check[unit[u].at].state \in {"OPEN", "SETTLED"}
          /\ unit' = [unit EXCEPT ![u].adjusted = "LIVE_CHECK"]
          /\ LowerCharges({u})
       \/ /\ session = "CLOSED"
          /\ unit' = [unit EXCEPT ![u].adjusted = "POST_SALE"]
          /\ UNCHANGED check
    /\ UNCHANGED <<mode, session, payment, refund>>

\* Cancel Awaiting Submission: money held on the draft's Checks, no Order; the
\* whole draft is withdrawn.
CancelAwaitingSubmission ==
    LET D == {u \in Units : unit[u].work = "COMMITTED"} IN
    /\ session = "ACTIVE" /\ ~HasOrder
    /\ \E u \in D : EffectiveReceived(unit[u].at) > 0
    /\ unit' = [u \in Units |->
                   IF u \in D THEN [unit[u] EXCEPT !.work = "WITHDRAWN", !.adjusted = "LIVE_CHECK"]
                   ELSE unit[u]]
    /\ LowerCharges(D)
    /\ UNCHANGED <<mode, session, payment, refund>>

-----------------------------------------------------------------------------
(* Refunds.                                                                *)

\* loadPendingRefundHeadroom: what is owed less what is already promised.  A
\* negative headroom is a stored invariant failure and refuses the command too.
Headroom(k) ==
    IF session = "CLOSED"
    THEN Monus(PostSaleOutstanding, Total([j \in Checks |-> Reserved(j, "POST_SALE")], Checks))
    ELSE Monus(Obligation(k), Reserved(k, "LIVE_CHECK"))

\* The Payments and Charge Adjustments a Refund of Check k may draw on: one
\* method, none voided, and only adjustments of the scope the Session selects.
RefundablePayments(k, method) == {p \in PaidOn(k) : payment[p].method = method}
RefundScope == IF session = "CLOSED" THEN "POST_SALE" ELSE "LIVE_CHECK"
RefundableUnits(k) == Adjusted(k, RefundScope)

\* Both selections, with equal totals, each within what its source has left.
Allocations(k, method) ==
    LET P == RefundablePayments(k, method)
        U == RefundableUnits(k)
        room == Headroom(k)
    IN  {a \in [from : [Payments -> 0 .. room], against : [Units -> 0 .. room]] :
            /\ \A p \in Payments : a.from[p] > 0 => p \in P /\ a.from[p] <= PaymentCapacity[p]
            /\ \A u \in Units : a.against[u] > 0 => u \in U /\ a.against[u] <= AdjustmentCapacity[u]
            /\ Total(a.from, Payments) = Total(a.against, Units)
            /\ Total(a.from, Payments) \in 1 .. room}

\* Record Refund: Cash completes at once, Manual QR waits for confirmation.
RecordRefund(k, r, method) ==
    /\ session \in {"ACTIVE", "CLOSED"} /\ check[k].state \in {"OPEN", "SETTLED"}
    /\ refund[r] = NoRefund
    /\ \E a \in Allocations(k, method) :
          refund' = [refund EXCEPT
                        ![r] = [on |-> k, method |-> method, scope |-> RefundScope,
                                completed |-> method = "CASH",
                                from |-> a.from, against |-> a.against]]
    /\ UNCHANGED <<mode, session, check, unit, payment>>

\* Confirm Manual QR Refund: whatever the Session's state, within what is owed
\* now; the scope is the one the intent was recorded in.
ConfirmRefund(r) ==
    /\ refund[r].on # NoCheck /\ refund[r].method = "MANUAL_QR" /\ ~refund[r].completed
    /\ RefundAmount[r] <= IF refund[r].scope = "POST_SALE" THEN PostSaleOutstanding
                          ELSE Obligation(refund[r].on)
    /\ refund' = [refund EXCEPT ![r].completed = TRUE]
    /\ UNCHANGED <<mode, session, check, unit, payment>>

-----------------------------------------------------------------------------
(* The Session's end.                                                      *)

\* EvaluateClosureReadiness, without the obligations.
SettledIsReady ==
    /\ HasOrder
    /\ \A u \in Units : unit[u].work \in {"NEW", "FULFILLED", "CANCELLED", "WASTED"}
    /\ \A k \in Checks : check[k].state \in {"ABSENT", "SETTLED"}
\* EvaluateClosureReadiness: submitted and finished work, every Check SETTLED, no
\* derived obligation.
ClosureReady ==
    /\ HasOrder
    /\ \A u \in Units : unit[u].work \in {"NEW", "FULFILLED", "CANCELLED", "WASTED"}
    /\ \A k \in Checks : check[k].state \in {"ABSENT", "SETTLED"} /\ Obligation(k) = 0

CloseSession ==
    /\ session = "ACTIVE" /\ ClosureReady
    /\ session' = "CLOSED"
    /\ UNCHANGED <<mode, check, unit, payment, refund>>

\* Abandon Checkout: no Order, no money held over the whole Session, no Refund
\* pending on any Check.
AbandonCheckout ==
    /\ session = "ACTIVE" /\ ~HasOrder
    /\ Total([k \in Checks |-> EffectiveReceived(k)], Checks) = 0
    /\ \A r \in Refunds : refund[r].on # NoCheck => refund[r].completed
    /\ session' = "ABANDONED"
    /\ check' = [k \in Checks |->
                    IF check[k].state = "ABSENT" THEN check[k]
                    ELSE [check[k] EXCEPT !.state = "ABANDONED"]]
    /\ UNCHANGED <<mode, unit, payment, refund>>

-----------------------------------------------------------------------------
WorkStep ==
    \/ \E D \in SUBSET Units, k \in Checks : CommitDraft(D, k)
    \/ SubmitOrder
    \/ \E u \in Units : AdvanceUnit(u) \/ WasteUnit(u) \/ CorrectState(u)

MoneyStep ==
    \/ \E k \in Checks, p \in Payments, m \in Methods, a \in 1 .. Prices(Units) :
          RecordPayment(k, p, m, a)
    \/ \E p \in Payments : VoidPayment(p)
    \/ \E D \in SUBSET Units : CancelUnits(D)
    \/ \E u \in Units : CompWaste(u)
    \/ CancelAwaitingSubmission
    \/ \E k \in Checks, r \in Refunds, m \in Methods : RecordRefund(k, r, m)
    \/ \E r \in Refunds : ConfirmRefund(r)

Next == WorkStep \/ MoneyStep \/ CloseSession \/ AbandonCheckout

Spec == Init /\ [][Next]_vars

-----------------------------------------------------------------------------
(* Properties.                                                             *)

\* Every row has its columns, and what has moved never exceeds what came in, so
\* no derived amount is negative (ErrFinancialInvariantViolated, financials.go).
TypeOK ==
    /\ mode \in {"DINE_IN", "TAKEAWAY"}
    /\ session \in {"ACTIVE", "CLOSED", "ABANDONED"}
    /\ check \in [Checks -> CheckRow]
    /\ unit \in [Units -> UnitRow]
    /\ payment \in [Payments -> PaymentRow]
    /\ refund \in [Refunds -> RefundRow]
    /\ \A k \in Checks : Returned(k, "LIVE_CHECK") + Returned(k, "POST_SALE") <= ValidPaid(k)

\* The stored charge is the denormalised sum every reader re-derives: base
\* charge less live adjustments (assertChargeMatchesAllocations, payments.go).
ChargeMatchesFacts ==
    \A k \in Checks :
        check[k].charge + Prices(Adjusted(k, "LIVE_CHECK")) = Prices(ChargedTo(k))

\* Check state records debt and nothing else (ADR-044): whatever sequence of
\* Payments, Voids, corrections and Refunds led here, a live Check is SETTLED
\* exactly when it is covered.
SettledIffCovered ==
    \A k \in Checks :
        /\ check[k].state = "OPEN" => Balance(k) > 0
        /\ check[k].state = "SETTLED" => Balance(k) = 0

\* No đồng is given back twice: over all Refunds, live and post-sale, pending and
\* completed, no Payment and no Charge Adjustment is overdrawn, and what was drawn
\* came from a Payment that is not voided and an adjustment that exists.
NothingReturnedTwice ==
    /\ \A p \in Payments :
          DrawnFrom(p) <= payment[p].amount /\ (DrawnFrom(p) > 0 => ~payment[p].voided)
    /\ \A u \in Units :
          DrawnAgainst(u) <= Price[u] /\ (DrawnAgainst(u) > 0 => unit[u].adjusted # "NONE")

\* What is owed can always be given back: the obligation left over by pending
\* intents fits in the unspent Payments and in the unspent adjustments, although
\* the three are bounded by different checks.  After closure it holds of the
\* post-sale corrections unless a live intent was left behind.
ObligationRefundable ==
    \A k \in Checks :
        LET unspentPaid == Total(PaymentCapacity, PaidOn(k))
            unspentLive == Total(AdjustmentCapacity, Adjusted(k, "LIVE_CHECK"))
            unspentPost == Total(AdjustmentCapacity, Adjusted(k, "POST_SALE"))
        IN  /\ Monus(Obligation(k), Reserved(k, "LIVE_CHECK")) <= unspentPaid
            /\ Monus(Obligation(k), Reserved(k, "LIVE_CHECK")) <= unspentLive
            /\ Reserved(k, "LIVE_CHECK") = 0 => unspentPost <= unspentPaid

\* A Session ends square: a Completed Sale holds exactly what it charged, Check by
\* Check, and an Abandoned Checkout holds nothing.
EndsSquare ==
    /\ session = "CLOSED" =>
          \A k \in Checks : EffectiveReceived(k) = check[k].charge
    /\ session = "ABANDONED" =>
          \A k \in Checks : EffectiveReceived(k) = 0 /\ Reserved(k, "LIVE_CHECK") = 0

\* The Session as one tab.
Due == Total([k \in Checks |-> Balance(k)], Checks)
Owed == Total([k \in Checks |-> Obligation(k)], Checks)
Kept == Total([k \in Checks |-> EffectiveReceived(k)], Checks)
Promised == Total([k \in Checks |-> Reserved(k, "LIVE_CHECK")], Checks)
Tab == INSTANCE SaleTab WITH
           phase <- session, due <- Due, owed <- Owed, kept <- Kept, promised <- Promised
\* Over all its Checks, the Session is one tab, whatever moves between them: a
\* command takes no more than is due and gives no more than is owed, it ends
\* square, and after its end not even the confirmation of an old promise moves it.
ImplementsSaleTab == Tab!TabSpec

\* A Completed Sale is an immutable record: after closure no command changes a
\* Check, a Payment or a live Refund, not even the confirmation of an intent that
\* was recorded before; corrections only add to it (ADR-041).
CompletedSaleIsFrozen ==
    [][session # "ACTIVE" =>
          /\ session' = session /\ check' = check /\ payment' = payment
          /\ \A r \in Refunds :
                refund[r].on # NoCheck /\ refund[r].scope = "LIVE_CHECK" => refund'[r] = refund[r]
          /\ \A u \in Units :
                unit'[u] # unit[u] =>
                    unit[u].adjusted = "NONE" /\ unit'[u] = [unit[u] EXCEPT !.adjusted = "POST_SALE"]
      ]_vars

\* "Already-recorded pending intents promise more than the source owes, which no
\* client request can cause" (refund.go, subtractPendingReservation): the pending
\* Refunds of a live Check never exceed what it owes.
PromisesCovered ==
    session = "ACTIVE" => \A k \in Checks : Reserved(k, "LIVE_CHECK") <= Obligation(k)
=============================================================================
