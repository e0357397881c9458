----------------------------- MODULE SaleReads -----------------------------
(***************************************************************************)
(* What the reads derive from the rows of CheckLedger: the projection of a *)
(* Service Session, which every command returns too, and the Completed     *)
(* Sale, which is never stored as a document but put together again, from  *)
(* the same append-only rows, each time somebody asks.                     *)
(*                                                                         *)
(* A read re-derives every amount and refuses to answer when a stored      *)
(* value disagrees (ErrChargeInvariantViolated, ErrSettlementInvariant-    *)
(* Violated, ErrFinancialInvariantViolated): one bad Check makes its       *)
(* Session unreadable, and every command on it fail, since each ends with  *)
(* this read.  What separates a Completed Sale from its later corrections  *)
(* is completed_sale_id on the row, never a clock: the core snapshot skips *)
(* the rows that carry one.                                                *)
(***************************************************************************)
EXTENDS CheckLedger

Snapshots == {"LIVE", "COMPLETED_SALE_CORE"}

-----------------------------------------------------------------------------
(* The rows a read finds.                                                  *)

ListSessionChecks == {k \in Checks : check[k].state # "ABSENT"}
ListCheckPayments(k) == {p \in Payments : payment[p].on = k}
\* Neither list has the POST_SALE rows of a closed Session.
ListCheckChargeAdjustments(k) == Adjusted(k, "LIVE_CHECK")
ListCheckRefunds(k) == RefundsOn(k, "LIVE_CHECK")
ListSessionPreparationUnits == {u \in Units : unit[u].work \in Ordered}

\* Mutant: the snapshot rule forgotten.
ConsumingAlike(snapshot) == Refunds
\* Which Refunds consume their sources: every one from the moment it is
\* recorded, but in the core snapshot no post-sale Refund does.
Consuming(snapshot) ==
    {r \in Refunds : snapshot = "LIVE" \/ refund[r].scope # "POST_SALE"}

\* The allocations against a Payment and against a Charge Adjustment.
PaymentConsumed(p, snapshot) ==
    Total([r \in Refunds |-> refund[r].from[p]], Consuming(snapshot))
AdjustmentConsumed(u, snapshot) ==
    Total([r \in Refunds |-> refund[r].against[u]], Consuming(snapshot))

\* remainingRefundableVND refuses a source drawn on beyond its amount, and
\* assertRefundAllocationSums a Refund whose two sources differ.
SourcesHold(k, snapshot) ==
    /\ \A p \in ListCheckPayments(k) : PaymentConsumed(p, snapshot) <= payment[p].amount
    /\ \A u \in ListCheckChargeAdjustments(k) : AdjustmentConsumed(u, snapshot) <= Price[u]
    /\ \A r \in ListCheckRefunds(k) :
          Total(refund[r].from, Payments) = Total(refund[r].against, Units)

-----------------------------------------------------------------------------
(* The financial equation.                                                 *)

Inputs(k) ==
    [base |-> Prices(ChargedTo(k)),
     live |-> Prices(ListCheckChargeAdjustments(k)),
     original |-> Total(PaidAmount, ListCheckPayments(k)),
     voided |-> Total(PaidAmount, {p \in ListCheckPayments(k) : payment[p].voided}),
     completed |-> Total(RefundAmount, {r \in ListCheckRefunds(k) : refund[r].completed})]

Acceptable(in) ==
    /\ in.live <= in.base
    /\ in.voided <= in.original
    /\ in.completed <= in.original - in.voided

ComputeCheckFinancials(in) ==
    LET charge == in.base - in.live
        received == in.original - in.voided - in.completed
    IN  [charge |-> charge, received |-> received,
         balance |-> Monus(charge, received), pending |-> Monus(received, charge)]

\* loadCheckForSnapshot, its refusals in the order it meets them; an ABANDONED
\* Check has no settlement to verify.
CheckError(k, snapshot) ==
    LET money == ComputeCheckFinancials(Inputs(k)) IN
    IF ~SourcesHold(k, snapshot) \/ ~Acceptable(Inputs(k)) THEN "FINANCIAL"
    ELSE IF money.charge # check[k].charge THEN "CHARGE"
    ELSE IF /\ check[k].state # "ABANDONED"
            /\ ~(check[k].state = "SETTLED" <=> money.balance = 0) THEN "SETTLEMENT"
    ELSE "NONE"

-----------------------------------------------------------------------------
(* The projections.                                                        *)

\* A voided Payment advertises nothing to refund.
PaymentRead(p, snapshot) ==
    [fact |-> payment[p],
     remaining |-> IF payment[p].voided THEN 0
                   ELSE payment[p].amount - PaymentConsumed(p, snapshot)]
AdjustmentRead(u, snapshot) ==
    [amount |-> Price[u], remaining |-> Price[u] - AdjustmentConsumed(u, snapshot)]
\* submitted and withdrawn are how a client tells what still awaits Submit.
AllocationRead(u) ==
    [amount |-> Price[u],
     submitted |-> unit[u].work \in Ordered,
     withdrawn |-> unit[u].work = "WITHDRAWN"]

CheckRead(k, snapshot) ==
    [state |-> check[k].state,
     money |-> ComputeCheckFinancials(Inputs(k)),
     payments |-> [p \in ListCheckPayments(k) |-> PaymentRead(p, snapshot)],
     allocations |-> [u \in ChargedTo(k) |-> AllocationRead(u)],
     adjustments |-> [u \in ListCheckChargeAdjustments(k) |-> AdjustmentRead(u, snapshot)],
     refunds |-> [r \in ListCheckRefunds(k) |-> refund[r]]]

LoadChecks(snapshot) == [k \in ListSessionChecks |-> CheckRead(k, snapshot)]
LoadPreparationUnits == [u \in ListSessionPreparationUnits |-> unit[u].work]

\* DeriveAwaitingSubmission: charged on a Check that holds money, and neither sent
\* to the bar nor withdrawn.
AwaitingSubmission ==
    {u \in Units : \E k \in ListSessionChecks :
        /\ u \in ChargedTo(k)
        /\ ComputeCheckFinancials(Inputs(k)).received > 0
        /\ ~AllocationRead(u).submitted /\ ~AllocationRead(u).withdrawn}

LoadServiceSession ==
    [mode |-> mode, state |-> session, checks |-> LoadChecks("LIVE"),
     awaiting |-> AwaitingSubmission, units |-> LoadPreparationUnits,
     abandoned |-> session = "ABANDONED"]

\* GET one Session, whatever its state.
SessionReadable == \A k \in ListSessionChecks : CheckError(k, "LIVE") = "NONE"
\* The cashier's open Sessions.  One whose stored charge is wrong is left out of
\* the list, so that the others are served; any other refusal is the list's.
ListActiveSessions ==
    IF session = "ACTIVE" /\ SessionReadable THEN {LoadServiceSession} ELSE {}

-----------------------------------------------------------------------------
(* The Completed Sale.                                                     *)

\* ListCompletedSalePostSaleCorrections: the Comps and Refunds that name the sale.
PostSaleComps == {u \in Units : unit[u].adjusted = "POST_SALE"}
PostSaleRefunds == {r \in Refunds : refund[r].on # NoCheck /\ refund[r].scope = "POST_SALE"}

\* indexPostSaleRefunds: each Refund under every adjustment it draws on; what it
\* allocates counts at once, what it returned when it is completed.
CompRefunds(u) == {r \in PostSaleRefunds : refund[r].against[u] > 0}
CorrectionRead(u) ==
    LET against == [r \in Refunds |-> refund[r].against[u]] IN
    [amount |-> Price[u],
     refunds |-> CompRefunds(u),
     remaining |-> Price[u] - Total(against, CompRefunds(u)),
     outstanding |-> Price[u] - Total(against, {r \in CompRefunds(u) : refund[r].completed})]

CompletedSaleCore ==
    [mode |-> mode, checks |-> LoadChecks("COMPLETED_SALE_CORE"), units |-> LoadPreparationUnits]

\* Found by its Session, which has one only when it is CLOSED, or by its id.
FindCompletedSale == session = "CLOSED"
SaleReadable ==
    /\ \A k \in ListSessionChecks : CheckError(k, "COMPLETED_SALE_CORE") = "NONE"
    /\ \A u \in PostSaleComps :
          CorrectionRead(u).remaining >= 0 /\ CorrectionRead(u).outstanding >= 0

-----------------------------------------------------------------------------
(* Properties.                                                             *)

\* Whatever happened to it, a Session can be read, and once it is CLOSED its
\* Completed Sale can: no stored charge, state or allocation ever disagrees with
\* the append-only rows it is re-derived from, live or in the core snapshot
\* (loadCheckForSnapshot, projection.go; postSaleCorrectionFromRow).
EveryReadSucceeds ==
    /\ SessionReadable
    /\ FindCompletedSale => SaleReadable

\* A Completed Sale reads the same for ever: its Checks, down to what each
\* Payment and adjustment had left to refund, and its units are those of the
\* closure, whatever is comped, refunded or confirmed afterwards, and its
\* corrections only grow: a Comp stays, keeps its Refunds, and what is left of it
\* or owed for it only falls (LoadCompletedSale, completed_sale_reads.go).
SaleReadsTheSame ==
    [][FindCompletedSale =>
          /\ FindCompletedSale'
          /\ CompletedSaleCore' = CompletedSaleCore
          /\ \A u \in PostSaleComps :
                /\ u \in PostSaleComps'
                /\ CompRefunds(u) \subseteq CompRefunds(u)'
                /\ CorrectionRead(u).remaining' <= CorrectionRead(u).remaining
                /\ CorrectionRead(u).outstanding' <= CorrectionRead(u).outstanding
      ]_vars
=============================================================================
