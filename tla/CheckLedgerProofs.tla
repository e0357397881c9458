------------------------- MODULE CheckLedgerProofs -------------------------
(***************************************************************************)
(* CheckLedger for any finite number of Checks, Units, Payments and        *)
(* Refunds, and any prices.                                                *)
(*                                                                         *)
(* The argument is double counting.  The allocations of a Check's Refunds  *)
(* are a table whose rows are Refunds and whose columns are Payments: it   *)
(* is summed by rows into what the Refunds promise and by columns into     *)
(* what each Payment gave up (DrawnOnPayments), and the same against the   *)
(* adjusted Units (DrawnOnAdjustments).  Every bound between the amounts   *)
(* of one Check follows (Account), although each command checks another.   *)
(***************************************************************************)
EXTENDS SaleReads, SumTheorems

\* Every row has its columns.
Types ==
    /\ mode \in {"DINE_IN", "TAKEAWAY"}
    /\ session \in {"ACTIVE", "CLOSED", "ABANDONED"}
    /\ check \in [Checks -> CheckRow]
    /\ unit \in [Units -> UnitRow]
    /\ payment \in [Payments -> PaymentRow]
    /\ refund \in [Refunds -> RefundRow]

UnitGood(u) ==
    /\ unit[u].work = "NEW" <=> unit[u].at = NoCheck
    /\ unit[u].adjusted = "LIVE_CHECK" => unit[u].work \in {"CANCELLED", "WASTED", "WITHDRAWN"}
    /\ unit[u].adjusted = "POST_SALE" => unit[u].work = "WASTED" /\ session = "CLOSED"

PaymentGood(p) == payment[p].on = NoCheck => payment[p] = NoPayment

\* A Refund draws equal totals on Payments of its Check that stand, and on
\* adjustments of its Check and scope.
RefundGood(r) ==
    /\ refund[r].on = NoCheck => refund[r] = NoRefund
    /\ refund[r].on # NoCheck =>
          /\ RefundAmount[r] > 0
          /\ RefundAmount[r] = Total(refund[r].against, Units)
          /\ refund[r].scope = "POST_SALE" => session = "CLOSED"
    /\ \A p \in Payments : refund[r].from[p] > 0 =>
          payment[p].on = refund[r].on /\ ~payment[p].voided
    /\ \A u \in Units : refund[r].against[u] > 0 =>
          unit[u].at = refund[r].on /\ unit[u].adjusted = refund[r].scope

\* Nothing concerns a Check before there is one.
AbsentGood(k) ==
    check[k].state = "ABSENT" =>
        /\ check[k].charge = 0
        /\ \A u \in Units : unit[u].at # k
        /\ \A p \in Payments : payment[p].on # k
        /\ \A r \in Refunds : refund[r].on # k

Rows ==
    /\ \A u \in Units : UnitGood(u)
    /\ \A p \in Payments : PaymentGood(p)
    /\ \A r \in Refunds : RefundGood(r)
    /\ \A k \in Checks : AbsentGood(k)

\* No source is overdrawn.
Sources ==
    /\ \A p \in Payments : DrawnFrom(p) <= payment[p].amount
    /\ \A u \in Units : DrawnAgainst(u) <= Price[u]

\* A Check never took more than it ever charged, adjustments or not.
Bounded == \A k \in Checks : ValidPaid(k) <= Prices(ChargedTo(k))

Ended ==
    /\ session = "CLOSED" =>
          /\ \A k \in Checks : /\ EffectiveReceived(k) = check[k].charge
                               /\ check[k].state \in {"ABSENT", "SETTLED"}
          /\ \A u \in Units : unit[u].work \in {"NEW", "FULFILLED", "CANCELLED", "WASTED"}
    /\ session = "ABANDONED" =>
          /\ \A k \in Checks : EffectiveReceived(k) = 0
          /\ \A r \in Refunds : refund[r].on # NoCheck => refund[r].completed
          /\ \A u \in Units : unit[u].work \notin Ordered

IInv ==
    /\ Types /\ Rows /\ Sources
    /\ ChargeMatchesFacts /\ Bounded /\ SettledIffCovered /\ Ended

-----------------------------------------------------------------------------
(* The sums of one state.                                                  *)

\* The sets that are summed over are finite.
LEMMA Finite ==
  /\ IsFiniteSet(Checks) /\ IsFiniteSet(Units) /\ IsFiniteSet(Payments) /\ IsFiniteSet(Refunds)
  /\ \A S \in SUBSET Units : IsFiniteSet(S)
  /\ \A S \in SUBSET Payments : IsFiniteSet(S)
  /\ \A S \in SUBSET Refunds : IsFiniteSet(S)
BY FiniteAssumption, FS_Subset

\* Prices add up to a natural number.
LEMMA PricesType ==
  ASSUME NEW S \in SUBSET Units
  PROVE  Prices(S) \in Nat
<1>1. \A u \in S : Price[u] \in Nat
  BY PriceAssumption
<1> QED BY <1>1, Finite, TotalNat DEF Prices

\* Amounts are natural numbers.
LEMMA AmountTypes ==
  ASSUME Types
  PROVE  /\ RefundAmount \in [Refunds -> Nat]
         /\ PaidAmount \in [Payments -> Nat]
         /\ \A p \in Payments : DrawnFrom(p) \in Nat
         /\ \A u \in Units : DrawnAgainst(u) \in Nat
         /\ \A k \in Checks, s \in Scopes :
               Returned(k, s) \in Nat /\ Reserved(k, s) \in Nat
         /\ \A k \in Checks : ValidPaid(k) \in Nat
<1>0. /\ \A r \in Refunds, p \in Payments : refund[r].from[p] \in Nat
      /\ \A r \in Refunds, u \in Units : refund[r].against[u] \in Nat
      /\ \A p \in Payments : payment[p].amount \in Nat
  BY DEF Types, RefundRow, PaymentRow
<1>1. RefundAmount \in [Refunds -> Nat]
  <2>1. ASSUME NEW r \in Refunds
        PROVE  Total(refund[r].from, Payments) \in Nat
    <3>1. \A p \in Payments : refund[r].from[p] \in Nat
      BY <1>0
    <3> QED BY <3>1, Finite, TotalNat
  <2> QED BY <2>1 DEF RefundAmount
<1>2. PaidAmount \in [Payments -> Nat]
  BY <1>0 DEF PaidAmount
<1>3. ASSUME NEW p \in Payments
      PROVE  DrawnFrom(p) \in Nat
  <2> DEFINE f == [r \in Refunds |-> refund[r].from[p]]
  <2>1. \A r \in Refunds : f[r] \in Nat
    BY <1>0
  <2> HIDE DEF f
  <2>2. Total(f, Refunds) \in Nat
    BY <2>1, Finite, TotalNat
  <2> QED BY <2>2 DEF f, DrawnFrom
<1>4. ASSUME NEW u \in Units
      PROVE  DrawnAgainst(u) \in Nat
  <2> DEFINE f == [r \in Refunds |-> refund[r].against[u]]
  <2>1. \A r \in Refunds : f[r] \in Nat
    BY <1>0
  <2> HIDE DEF f
  <2>2. Total(f, Refunds) \in Nat
    BY <2>1, Finite, TotalNat
  <2> QED BY <2>2 DEF f, DrawnAgainst
<1>5. \A S \in SUBSET Refunds : Total(RefundAmount, S) \in Nat
  BY <1>1, Finite, TotalNat
<1>6. \A S \in SUBSET Payments : Total(PaidAmount, S) \in Nat
  BY <1>2, Finite, TotalNat
<1> QED
  BY <1>1, <1>2, <1>3, <1>4, <1>5, <1>6
  DEF Returned, Reserved, RefundsOn, ValidPaid, PaidOn

RefundsOf(k) == {r \in Refunds : refund[r].on = k}

\* What is drawn on each Payment and against each Unit, as functions.
Drawn == [p \in Payments |-> DrawnFrom(p)]
DrawnUnits == [u \in Units |-> DrawnAgainst(u)]

\* What the Refunds of a Check draw is drawn on its Payments that stand.
LEMMA DrawnOnPayments ==
  ASSUME Types, Rows, NEW k \in Checks
  PROVE  Total(RefundAmount, RefundsOf(k)) = Total(Drawn, PaidOn(k))
<1> DEFINE F == [r \in Refunds |-> refund[r].from]
           G == [p \in Payments |-> [r \in Refunds |-> refund[r].from[p]]]
<1>1. \A r \in Refunds, p \in Payments : F[r][p] \in Int /\ G[p][r] = F[r][p]
  BY DEF Types, RefundRow
<1>2. RefundsOf(k) \in SUBSET Refunds /\ PaidOn(k) \in SUBSET Payments
  BY DEF RefundsOf, PaidOn
<1>3. \A r \in Refunds, p \in Payments : F[r][p] # 0 => (r \in RefundsOf(k) <=> p \in PaidOn(k))
  BY DEF Types, RefundRow, Rows, RefundGood, RefundsOf, PaidOn
<1>4. \A r \in RefundsOf(k) : RefundAmount[r] = Total(F[r], Payments)
  BY <1>2 DEF RefundAmount
<1>5. \A p \in PaidOn(k) : Drawn[p] = Total(G[p], Refunds)
  BY <1>2 DEF Drawn, DrawnFrom
<1> HIDE DEF F, G
<1>6. Rectangle(Refunds, Payments, F, G, RefundsOf(k), PaidOn(k), RefundAmount, Drawn)
  BY <1>1, <1>2, <1>3, <1>4, <1>5 DEF Rectangle
<1> QED BY <1>6, FiniteAssumption, TotalRectangle

\* And against its adjustments of the Refunds' scope.
LEMMA DrawnOnAdjustments ==
  ASSUME Types, Rows, NEW k \in Checks, NEW s \in Scopes
  PROVE  Total(RefundAmount, RefundsOn(k, s)) = Total(DrawnUnits, Adjusted(k, s))
<1> DEFINE F == [r \in Refunds |-> refund[r].against]
           G == [u \in Units |-> [r \in Refunds |-> refund[r].against[u]]]
<1>1. \A r \in Refunds, u \in Units : F[r][u] \in Int /\ G[u][r] = F[r][u]
  BY DEF Types, RefundRow
<1>2. RefundsOn(k, s) \in SUBSET Refunds /\ Adjusted(k, s) \in SUBSET Units
  BY DEF RefundsOn, Adjusted, ChargedTo
<1>3. \A r \in Refunds, u \in Units :
         F[r][u] # 0 => (r \in RefundsOn(k, s) <=> u \in Adjusted(k, s))
  BY DEF Types, RefundRow, Rows, RefundGood, RefundsOn, Adjusted, ChargedTo
<1>4. \A r \in RefundsOn(k, s) : RefundAmount[r] = Total(F[r], Units)
  BY NoCheckAssumption DEF Rows, RefundGood, RefundsOn
<1>5. \A u \in Adjusted(k, s) : DrawnUnits[u] = Total(G[u], Refunds)
  BY <1>2 DEF DrawnUnits, DrawnAgainst
<1> HIDE DEF F, G
<1>6. Rectangle(Refunds, Units, F, G, RefundsOn(k, s), Adjusted(k, s),
                RefundAmount, DrawnUnits)
  BY <1>1, <1>2, <1>3, <1>4, <1>5 DEF Rectangle
<1> QED BY <1>6, FiniteAssumption, TotalRectangle

\* The Refunds of a Check are live or post-sale, pending or completed.
LEMMA RefundsDivide ==
  ASSUME Types, NEW k \in Checks
  PROVE  /\ \A s \in Scopes :
               Total(RefundAmount, RefundsOn(k, s)) = Returned(k, s) + Reserved(k, s)
         /\ Total(RefundAmount, RefundsOf(k))
              = Returned(k, "LIVE_CHECK") + Reserved(k, "LIVE_CHECK")
                  + Returned(k, "POST_SALE") + Reserved(k, "POST_SALE")
<1>0. \A r \in Refunds : RefundAmount[r] \in Int /\ refund[r].scope \in Scopes
  BY AmountTypes DEF Types, RefundRow
<1>1. ASSUME NEW s \in Scopes
      PROVE  Total(RefundAmount, RefundsOn(k, s)) = Returned(k, s) + Reserved(k, s)
  <2> DEFINE S == RefundsOn(k, s)
             T == {r \in S : refund[r].completed}
  <2>1. S \ T = {r \in S : ~refund[r].completed}
    OBVIOUS
  <2>2. S \in SUBSET Refunds /\ T \in SUBSET S
    BY DEF RefundsOn
  <2>3. Total(RefundAmount, S) = Total(RefundAmount, T) + Total(RefundAmount, S \ T)
    <3> HIDE DEF S, T
    <3> QED BY <1>0, <2>2, Finite, TotalSplit
  <2> QED BY <2>1, <2>3 DEF Returned, Reserved
<1>2. Total(RefundAmount, RefundsOf(k))
        = Total(RefundAmount, RefundsOn(k, "LIVE_CHECK"))
            + Total(RefundAmount, RefundsOn(k, "POST_SALE"))
  <2> DEFINE S == RefundsOf(k)
             T == RefundsOn(k, "LIVE_CHECK")
  <2>1. S \ T = RefundsOn(k, "POST_SALE")
    BY <1>0 DEF RefundsOf, RefundsOn, Scopes
  <2>2. S \in SUBSET Refunds /\ T \in SUBSET S
    BY DEF RefundsOn, RefundsOf
  <2>3. Total(RefundAmount, S) = Total(RefundAmount, T) + Total(RefundAmount, S \ T)
    <3> HIDE DEF S, T
    <3> QED BY <1>0, <2>2, Finite, TotalSplit
  <2> QED BY <2>1, <2>3
<1>3. /\ Total(RefundAmount, RefundsOn(k, "LIVE_CHECK"))
           = Returned(k, "LIVE_CHECK") + Reserved(k, "LIVE_CHECK")
      /\ Total(RefundAmount, RefundsOn(k, "POST_SALE"))
           = Returned(k, "POST_SALE") + Reserved(k, "POST_SALE")
  BY <1>1 DEF Scopes
<1>4. /\ Returned(k, "LIVE_CHECK") \in Nat /\ Reserved(k, "LIVE_CHECK") \in Nat
      /\ Returned(k, "POST_SALE") \in Nat /\ Reserved(k, "POST_SALE") \in Nat
  BY AmountTypes DEF Scopes
<1>5. Total(RefundAmount, RefundsOf(k))
        = Returned(k, "LIVE_CHECK") + Reserved(k, "LIVE_CHECK")
            + Returned(k, "POST_SALE") + Reserved(k, "POST_SALE")
  BY <1>2, <1>3, <1>4
<1> QED BY <1>1, <1>5

\* One Check's account: what its Refunds draw fits in its Payments that stand and
\* in its adjustments, those fit in what it charged, and the rest is unspent.
LEMMA Account ==
  ASSUME Types, Rows, Sources, NEW k \in Checks
  PROVE  LET drawn == Total(RefundAmount, RefundsOf(k)) IN
         /\ drawn = Returned(k, "LIVE_CHECK") + Reserved(k, "LIVE_CHECK")
                      + Returned(k, "POST_SALE") + Reserved(k, "POST_SALE")
         /\ drawn <= ValidPaid(k)
         /\ Total(PaymentCapacity, PaidOn(k)) = ValidPaid(k) - drawn
         /\ \A s \in Scopes :
               /\ Returned(k, s) + Reserved(k, s) <= Prices(Adjusted(k, s))
               /\ Total(AdjustmentCapacity, Adjusted(k, s))
                    = Prices(Adjusted(k, s)) - (Returned(k, s) + Reserved(k, s))
         /\ Prices(Adjusted(k, "LIVE_CHECK")) + Prices(Adjusted(k, "POST_SALE"))
              <= Prices(ChargedTo(k))
<1>1. /\ Total(Drawn, PaidOn(k)) <= ValidPaid(k)
      /\ Total(PaymentCapacity, PaidOn(k)) = ValidPaid(k) - Total(Drawn, PaidOn(k))
  <2> DEFINE S == PaidOn(k)
  <2>1. IsFiniteSet(S) /\ \A p \in S : p \in Payments
    BY Finite DEF PaidOn
  <2>2. \A p \in S : /\ Drawn[p] \in Int /\ PaidAmount[p] \in Int /\ PaymentCapacity[p] \in Int
                     /\ Drawn[p] <= PaidAmount[p]
                     /\ PaidAmount[p] = PaymentCapacity[p] + Drawn[p]
    BY <2>1, AmountTypes DEF Sources, Drawn, PaidAmount, PaymentCapacity
  <2> HIDE DEF S
  <2>3. Total(Drawn, S) <= Total(PaidAmount, S)
    BY <2>1, <2>2, TotalMonotone
  <2>4. Total(PaidAmount, S) = Total(PaymentCapacity, S) + Total(Drawn, S)
    BY <2>1, <2>2, TotalPlus
  <2>5. Total(PaymentCapacity, S) \in Int /\ Total(Drawn, S) \in Int
    BY <2>1, <2>2, TotalInt
  <2>6. Total(PaymentCapacity, S) = Total(PaidAmount, S) - Total(Drawn, S)
    BY <2>4, <2>5
  <2> QED BY <2>3, <2>6 DEF S, ValidPaid
<1>2. ASSUME NEW s \in Scopes
      PROVE  /\ Total(DrawnUnits, Adjusted(k, s)) <= Prices(Adjusted(k, s))
             /\ Total(AdjustmentCapacity, Adjusted(k, s))
                  = Prices(Adjusted(k, s)) - Total(DrawnUnits, Adjusted(k, s))
  <2> DEFINE S == Adjusted(k, s)
  <2>1. IsFiniteSet(S) /\ \A u \in S : u \in Units
    BY Finite DEF Adjusted, ChargedTo
  <2>2. \A u \in S : /\ DrawnUnits[u] \in Int /\ Price[u] \in Int /\ AdjustmentCapacity[u] \in Int
                     /\ DrawnUnits[u] <= Price[u]
                     /\ Price[u] = AdjustmentCapacity[u] + DrawnUnits[u]
    BY <2>1, AmountTypes, PriceAssumption DEF Sources, DrawnUnits, AdjustmentCapacity
  <2> HIDE DEF S
  <2>3. Total(DrawnUnits, S) <= Total(Price, S)
    BY <2>1, <2>2, TotalMonotone
  <2>4. Total(Price, S) = Total(AdjustmentCapacity, S) + Total(DrawnUnits, S)
    BY <2>1, <2>2, TotalPlus
  <2>5. Total(AdjustmentCapacity, S) \in Int /\ Total(DrawnUnits, S) \in Int
    BY <2>1, <2>2, TotalInt
  <2>6. Total(AdjustmentCapacity, S) = Total(Price, S) - Total(DrawnUnits, S)
    BY <2>4, <2>5
  <2> QED BY <2>3, <2>6 DEF S, Prices
<1>3. \A s \in Scopes :
         /\ Returned(k, s) + Reserved(k, s) <= Prices(Adjusted(k, s))
         /\ Total(AdjustmentCapacity, Adjusted(k, s))
              = Prices(Adjusted(k, s)) - (Returned(k, s) + Reserved(k, s))
  <2>1. ASSUME NEW s \in Scopes
        PROVE  Total(DrawnUnits, Adjusted(k, s)) = Returned(k, s) + Reserved(k, s)
    <3>1. Total(RefundAmount, RefundsOn(k, s)) = Total(DrawnUnits, Adjusted(k, s))
      BY DrawnOnAdjustments
    <3>2. Total(RefundAmount, RefundsOn(k, s)) = Returned(k, s) + Reserved(k, s)
      BY RefundsDivide
    <3> QED BY <3>1, <3>2
  <2> QED BY <1>2, <2>1
<1>4. Prices(Adjusted(k, "LIVE_CHECK")) + Prices(Adjusted(k, "POST_SALE")) <= Prices(ChargedTo(k))
  <2> DEFINE S == Adjusted(k, "LIVE_CHECK")
             T == Adjusted(k, "POST_SALE")
  <2>1. /\ IsFiniteSet(S) /\ IsFiniteSet(T) /\ S \cap T = {}
        /\ IsFiniteSet(ChargedTo(k)) /\ S \cup T \in SUBSET ChargedTo(k)
        /\ \A u \in ChargedTo(k) : u \in Units
    BY Finite DEF Adjusted, ChargedTo
  <2>2. \A u \in ChargedTo(k) : Price[u] \in Nat
    BY <2>1, PriceAssumption
  <2>3. \A u \in S \cup T : Price[u] \in Int
    BY <2>1, <2>2
  <2> HIDE DEF S, T
  <2>4. Total(Price, S \cup T) = Total(Price, S) + Total(Price, T)
    BY <2>1, <2>3, TotalUnion
  <2>5. Total(Price, S \cup T) <= Total(Price, ChargedTo(k))
    BY <2>1, <2>2, TotalPart
  <2> QED BY <2>4, <2>5 DEF S, T, Prices
<1>5. Total(Drawn, PaidOn(k)) = Total(RefundAmount, RefundsOf(k))
  BY DrawnOnPayments
<1>6. Total(RefundAmount, RefundsOf(k))
        = Returned(k, "LIVE_CHECK") + Reserved(k, "LIVE_CHECK")
            + Returned(k, "POST_SALE") + Reserved(k, "POST_SALE")
  BY RefundsDivide
<1> QED BY <1>1, <1>3, <1>4, <1>5, <1>6

\* The amounts of one Check are numbers, its receipt is not negative, and without
\* a Completed Sale there is no post-sale adjustment.
LEMMA Receipt ==
  ASSUME Types, Rows, Sources, NEW k \in Checks
  PROVE  /\ check[k].charge \in Nat /\ ValidPaid(k) \in Nat
         /\ \A s \in Scopes :
               Returned(k, s) \in Nat /\ Reserved(k, s) \in Nat /\ Prices(Adjusted(k, s)) \in Nat
         /\ Prices(ChargedTo(k)) \in Nat
         /\ EffectiveReceived(k) \in Nat
         /\ session # "CLOSED" => Prices(Adjusted(k, "POST_SALE")) = 0
<1>1. check[k].charge \in Nat /\ ValidPaid(k) \in Nat
  BY AmountTypes DEF Types, CheckRow
<1>2. \A s \in Scopes :
         Returned(k, s) \in Nat /\ Reserved(k, s) \in Nat /\ Prices(Adjusted(k, s)) \in Nat
  BY AmountTypes, PricesType DEF Adjusted, ChargedTo
<1>3. Prices(ChargedTo(k)) \in Nat
  BY PricesType DEF ChargedTo
<1>4. EffectiveReceived(k) \in Nat
  <2>1. /\ Returned(k, "LIVE_CHECK") \in Nat /\ Reserved(k, "LIVE_CHECK") \in Nat
        /\ Returned(k, "POST_SALE") \in Nat /\ Reserved(k, "POST_SALE") \in Nat
    BY <1>2 DEF Scopes
  <2>2. Returned(k, "LIVE_CHECK") + Reserved(k, "LIVE_CHECK")
          + Returned(k, "POST_SALE") + Reserved(k, "POST_SALE") <= ValidPaid(k)
    BY Account
  <2> QED BY <1>1, <2>1, <2>2 DEF EffectiveReceived
<1>5. ASSUME session # "CLOSED"
      PROVE  Prices(Adjusted(k, "POST_SALE")) = 0
  <2>1. Adjusted(k, "POST_SALE") = {}
    BY <1>5 DEF Rows, UnitGood, Adjusted, ChargedTo
  <2> QED BY <2>1, TotalEmpty DEF Prices
<1> QED BY <1>1, <1>2, <1>3, <1>4, <1>5

-----------------------------------------------------------------------------
(* What the inductive invariant implies.                                   *)

\* What is owed fits in what is left of both sources.
LEMMA RefundableFollows ==
  ASSUME IInv
  PROVE  ObligationRefundable
<1> SUFFICES ASSUME NEW k \in Checks
             PROVE  /\ Monus(Obligation(k), Reserved(k, "LIVE_CHECK"))
                         <= Total(PaymentCapacity, PaidOn(k))
                    /\ Monus(Obligation(k), Reserved(k, "LIVE_CHECK"))
                         <= Total(AdjustmentCapacity, Adjusted(k, "LIVE_CHECK"))
                    /\ Reserved(k, "LIVE_CHECK") = 0 =>
                         Total(AdjustmentCapacity, Adjusted(k, "POST_SALE"))
                           <= Total(PaymentCapacity, PaidOn(k))
  BY DEF ObligationRefundable
<1> DEFINE charge == check[k].charge
           paid == ValidPaid(k)
           base == Prices(ChargedTo(k))
           live == Prices(Adjusted(k, "LIVE_CHECK"))
           post == Prices(Adjusted(k, "POST_SALE"))
           rl == Returned(k, "LIVE_CHECK")
           vl == Reserved(k, "LIVE_CHECK")
           rp == Returned(k, "POST_SALE")
           vp == Reserved(k, "POST_SALE")
           unspentPaid == Total(PaymentCapacity, PaidOn(k))
           unspentLive == Total(AdjustmentCapacity, Adjusted(k, "LIVE_CHECK"))
           unspentPost == Total(AdjustmentCapacity, Adjusted(k, "POST_SALE"))
           E == EffectiveReceived(k)
<1>1. /\ charge \in Nat /\ paid \in Nat /\ base \in Nat
      /\ rl \in Nat /\ vl \in Nat /\ rp \in Nat /\ vp \in Nat /\ live \in Nat /\ post \in Nat
      /\ E = paid - rl /\ E \in Nat
      /\ session # "CLOSED" => post = 0
  BY Receipt DEF IInv, EffectiveReceived, Scopes
<1>2. /\ rl + vl + rp + vp <= paid
      /\ unspentPaid = paid - (rl + vl + rp + vp)
      /\ live + post <= base
  BY Account DEF IInv
<1>3. /\ rl + vl <= live /\ rp + vp <= post
      /\ unspentLive = live - (rl + vl) /\ unspentPost = post - (rp + vp)
  BY Account DEF IInv, Scopes
<1>4. charge + live = base /\ paid <= base
  BY DEF IInv, ChargeMatchesFacts, Bounded
<1>5. session = "CLOSED" => E = charge
  BY DEF IInv, Ended
<1>6. Obligation(k) = Monus(E, charge)
  BY DEF Obligation
<1> HIDE DEF charge, paid, base, live, post, rl, vl, rp, vp, unspentPaid, unspentLive,
            unspentPost, E
<1>7. Monus(Obligation(k), vl) <= unspentPaid
  BY <1>1, <1>2, <1>3, <1>4, <1>6 DEF Monus
<1>8. Monus(Obligation(k), vl) <= unspentLive
  BY <1>1, <1>2, <1>3, <1>4, <1>6 DEF Monus
<1>9. vl = 0 => unspentPost <= unspentPaid
  BY <1>1, <1>2, <1>3, <1>4, <1>5
<1> QED BY <1>7, <1>8, <1>9 DEF vl, unspentPaid, unspentLive, unspentPost

\* No source is overdrawn, and nothing is drawn on one that does not stand.
LEMMA NotTwiceFollows ==
  ASSUME IInv
  PROVE  NothingReturnedTwice
<1>1. ASSUME NEW p \in Payments
      PROVE  DrawnFrom(p) <= payment[p].amount /\ (DrawnFrom(p) > 0 => ~payment[p].voided)
  <2>1. DrawnFrom(p) <= payment[p].amount
    BY DEF IInv, Sources
  <2>2. ASSUME payment[p].voided
        PROVE  DrawnFrom(p) = 0
    <3> DEFINE f == [r \in Refunds |-> refund[r].from[p]]
    <3>1. \A r \in Refunds : f[r] = 0
      BY <2>2 DEF IInv, Types, RefundRow, Rows, RefundGood
    <3> HIDE DEF f
    <3>2. Total(f, Refunds) = 0
      BY <3>1, Finite, TotalZero
    <3> QED BY <3>2 DEF f, DrawnFrom
  <2> QED BY <2>1, <2>2
<1>2. ASSUME NEW u \in Units
      PROVE  DrawnAgainst(u) <= Price[u] /\ (DrawnAgainst(u) > 0 => unit[u].adjusted # "NONE")
  <2>1. DrawnAgainst(u) <= Price[u]
    BY DEF IInv, Sources
  <2>2. ASSUME unit[u].adjusted = "NONE"
        PROVE  DrawnAgainst(u) = 0
    <3> DEFINE f == [r \in Refunds |-> refund[r].against[u]]
    <3>1. \A r \in Refunds : f[r] = 0
      BY <2>2 DEF IInv, Types, RefundRow, Rows, RefundGood, Scopes
    <3> HIDE DEF f
    <3>2. Total(f, Refunds) = 0
      BY <3>1, Finite, TotalZero
    <3> QED BY <3>2 DEF f, DrawnAgainst
  <2> QED BY <2>1, <2>2
<1> QED BY <1>1, <1>2 DEF NothingReturnedTwice

\* An ended Session is square.
LEMMA SquareFollows ==
  ASSUME IInv
  PROVE  EndsSquare
<1>1. session = "CLOSED" => \A k \in Checks : EffectiveReceived(k) = check[k].charge
  BY DEF IInv, Ended
<1>2. ASSUME session = "ABANDONED", NEW k \in Checks
      PROVE  EffectiveReceived(k) = 0 /\ Reserved(k, "LIVE_CHECK") = 0
  <2>1. {r \in RefundsOn(k, "LIVE_CHECK") : ~refund[r].completed} = {}
    BY <1>2, NoCheckAssumption DEF IInv, Ended, RefundsOn
  <2> QED BY <1>2, <2>1, TotalEmpty DEF IInv, Ended, Reserved
<1> QED BY <1>1, <1>2 DEF EndsSquare

\* What was returned never exceeds what came in.
LEMMA TypeFollows ==
  ASSUME IInv
  PROVE  TypeOK
<1>1. ASSUME NEW k \in Checks
      PROVE  Returned(k, "LIVE_CHECK") + Returned(k, "POST_SALE") <= ValidPaid(k)
  <2>1. /\ Returned(k, "LIVE_CHECK") \in Nat /\ Reserved(k, "LIVE_CHECK") \in Nat
        /\ Returned(k, "POST_SALE") \in Nat /\ Reserved(k, "POST_SALE") \in Nat
        /\ ValidPaid(k) \in Nat
    BY Receipt DEF IInv, Scopes
  <2>2. Returned(k, "LIVE_CHECK") + Reserved(k, "LIVE_CHECK")
          + Returned(k, "POST_SALE") + Reserved(k, "POST_SALE") <= ValidPaid(k)
    BY Account DEF IInv
  <2> QED BY <2>1, <2>2
<1> QED BY <1>1 DEF IInv, Types, TypeOK

-----------------------------------------------------------------------------
(* The inductive invariant holds initially.                                *)

\* A Session starts with nothing charged, paid or owed.
LEMMA InitInv == Init => IInv
<1> SUFFICES ASSUME Init
             PROVE  IInv
  OBVIOUS
<1>1. Types
  BY DEF Init, Types, CheckRow, UnitRow, PaymentRow, RefundRow, NoPayment, NoRefund, Methods, Scopes
<1>2. Rows
  BY NoCheckAssumption
  DEF Init, Rows, UnitGood, PaymentGood, RefundGood, AbsentGood, NoPayment, NoRefund
<1>3. Sources
  <2>1. ASSUME NEW p \in Payments
        PROVE  DrawnFrom(p) <= payment[p].amount
    <3> DEFINE f == [r \in Refunds |-> refund[r].from[p]]
    <3>1. \A r \in Refunds : f[r] = 0
      BY DEF Init, NoRefund
    <3> HIDE DEF f
    <3>2. Total(f, Refunds) = 0
      BY <3>1, Finite, TotalZero
    <3>3. DrawnFrom(p) = 0
      BY <3>2 DEF f, DrawnFrom
    <3> QED BY <3>3 DEF Init, NoPayment
  <2>2. ASSUME NEW u \in Units
        PROVE  DrawnAgainst(u) <= Price[u]
    <3> DEFINE f == [r \in Refunds |-> refund[r].against[u]]
    <3>1. \A r \in Refunds : f[r] = 0
      BY DEF Init, NoRefund
    <3> HIDE DEF f
    <3>2. Total(f, Refunds) = 0
      BY <3>1, Finite, TotalZero
    <3>3. DrawnAgainst(u) = 0
      BY <3>2 DEF f, DrawnAgainst
    <3> QED BY <3>3, PriceAssumption
  <2> QED BY <2>1, <2>2 DEF Sources
<1>4. ASSUME NEW k \in Checks
      PROVE  /\ Prices(Adjusted(k, "LIVE_CHECK")) = 0 /\ Prices(ChargedTo(k)) = 0
             /\ ValidPaid(k) = 0 /\ check[k].charge = 0
  <2>1. ChargedTo(k) = {} /\ Adjusted(k, "LIVE_CHECK") = {} /\ PaidOn(k) = {}
    BY NoCheckAssumption DEF Init, ChargedTo, Adjusted, PaidOn, NoPayment
  <2> QED BY <2>1, TotalEmpty DEF Prices, ValidPaid, Init
<1>5. ChargeMatchesFacts /\ Bounded
  BY <1>4 DEF ChargeMatchesFacts, Bounded
<1>6. SettledIffCovered /\ Ended
  BY DEF Init, SettledIffCovered, Ended
<1> QED BY <1>1, <1>2, <1>3, <1>5, <1>6 DEF IInv

-----------------------------------------------------------------------------
(* What a step leaves alone.                                               *)

\* The same Refunds return, reserve and draw the same.
LEMMA SameRefunds ==
  ASSUME refund' = refund
  PROVE  /\ \A k \in Checks, s \in Scopes :
               Returned(k, s)' = Returned(k, s) /\ Reserved(k, s)' = Reserved(k, s)
         /\ \A p \in Payments : DrawnFrom(p)' = DrawnFrom(p)
         /\ \A u \in Units : DrawnAgainst(u)' = DrawnAgainst(u)
         /\ RefundAmount' = RefundAmount
BY DEF Returned, Reserved, RefundsOn, RefundAmount, DrawnFrom, DrawnAgainst

\* The same Payments cover the same.
LEMMA SamePayments ==
  ASSUME payment' = payment
  PROVE  \A k \in Checks : ValidPaid(k)' = ValidPaid(k)
BY DEF ValidPaid, PaidOn, PaidAmount

\* Units charged and adjusted alike make the same sums.
LEMMA SameUnits ==
  ASSUME \A u \in Units : unit'[u].at = unit[u].at /\ unit'[u].adjusted = unit[u].adjusted
  PROVE  \A k \in Checks : /\ ChargedTo(k)' = ChargedTo(k)
                           /\ \A s \in Scopes : Adjusted(k, s)' = Adjusted(k, s)
BY DEF ChargedTo, Adjusted

\* With the same Payments and Refunds a Check's receipt is the same.
LEMMA SameReceipt ==
  ASSUME payment' = payment, refund' = refund
  PROVE  \A k \in Checks : EffectiveReceived(k)' = EffectiveReceived(k)
BY SamePayments, SameRefunds DEF EffectiveReceived, Scopes

\* A step that changes, on one Check alone, its charge, what it received and what
\* it promised.
MovesMoney(k, charge, received, promised) ==
    /\ session = "ACTIVE" /\ session' = "ACTIVE"
    /\ check'[k].charge = check[k].charge + charge
    /\ EffectiveReceived(k)' = EffectiveReceived(k) + received
    /\ Reserved(k, "LIVE_CHECK")' = Reserved(k, "LIVE_CHECK") + promised
    /\ \A j \in Checks \ {k} :
          /\ check'[j].charge = check[j].charge
          /\ EffectiveReceived(j)' = EffectiveReceived(j)
          /\ Reserved(j, "LIVE_CHECK")' = Reserved(j, "LIVE_CHECK")

\* A step that changes none of the three.
MoneyStays ==
    \A k \in Checks : /\ check'[k].charge = check[k].charge
                      /\ EffectiveReceived(k)' = EffectiveReceived(k)
                      /\ Reserved(k, "LIVE_CHECK")' = Reserved(k, "LIVE_CHECK")

-----------------------------------------------------------------------------
(* Preparation.                                                            *)

\* A step of the work on Units of an ACTIVE Session moves no money.
LEMMA WorkKeeps ==
  ASSUME IInv, session = "ACTIVE", UNCHANGED <<mode, session, check, payment, refund>>,
         unit' \in [Units -> UnitRow],
         \A u \in Units :
            \/ unit'[u] = unit[u]
            \/ /\ unit[u].work \in {"COMMITTED", "QUEUED", "MAKING", "FULFILLED"}
               /\ unit'[u].work \in {"QUEUED", "MAKING", "FULFILLED", "WASTED"}
               /\ unit'[u].at = unit[u].at /\ unit'[u].adjusted = unit[u].adjusted
  PROVE  IInv'
<1>1. \A u \in Units : unit'[u].at = unit[u].at /\ unit'[u].adjusted = unit[u].adjusted
  OBVIOUS
<1>2. Types'
  BY DEF IInv, Types
<1>3. Rows'
  <2>1. ASSUME NEW u \in Units
        PROVE  UnitGood(u)'
    BY DEF IInv, Rows, UnitGood
  <2>2. \A p \in Payments : PaymentGood(p)'
    BY DEF IInv, Rows, PaymentGood
  <2>3. ASSUME NEW r \in Refunds
        PROVE  RefundGood(r)'
    <3>1. RefundGood(r) /\ RefundAmount'[r] = RefundAmount[r]
      BY SameRefunds DEF IInv, Rows
    <3> QED BY <1>1, <3>1 DEF RefundGood
  <2>4. \A k \in Checks : AbsentGood(k)'
    BY <1>1 DEF IInv, Rows, AbsentGood
  <2> QED BY <2>1, <2>2, <2>3, <2>4 DEF Rows
<1>4. Sources'
  BY SameRefunds DEF IInv, Sources
<1>5. ChargeMatchesFacts' /\ Bounded'
  BY <1>1, SameUnits, SamePayments DEF IInv, ChargeMatchesFacts, Bounded, Scopes, Prices
<1>6. SettledIffCovered'
  BY SameReceipt DEF IInv, SettledIffCovered, Balance, BalanceAt
<1>7. Ended'
  BY DEF Ended
<1> QED BY <1>2, <1>3, <1>4, <1>5, <1>6, <1>7 DEF IInv

\* A Session that has ended has no work in hand.
LEMMA EndedHasNoWork ==
  ASSUME IInv, NEW u \in Units, unit[u].work \in {"QUEUED", "MAKING"}
  PROVE  session = "ACTIVE"
BY DEF IInv, Types, Ended, Ordered

\* Submit and the steps of the work keep the invariant.
LEMMA WorkStepKeeps ==
  ASSUME IInv
  PROVE  /\ SubmitOrder => IInv'
         /\ \A u \in Units : AdvanceUnit(u) \/ WasteUnit(u) \/ CorrectState(u) => IInv'
<1>0. unit \in [Units -> UnitRow]
  BY DEF IInv, Types
<1>1. ASSUME SubmitOrder
      PROVE  IInv'
  <2>1. /\ session = "ACTIVE" /\ UNCHANGED <<mode, session, check, payment, refund>>
        /\ unit' \in [Units -> UnitRow]
        /\ \A u \in Units :
              \/ unit'[u] = unit[u]
              \/ /\ unit[u].work \in {"COMMITTED", "QUEUED", "MAKING", "FULFILLED"}
                 /\ unit'[u].work \in {"QUEUED", "MAKING", "FULFILLED", "WASTED"}
                 /\ unit'[u].at = unit[u].at /\ unit'[u].adjusted = unit[u].adjusted
    BY <1>0, <1>1 DEF SubmitOrder, UnitRow, Ordered
  <2> QED BY <2>1, WorkKeeps
<1>2. ASSUME NEW u \in Units, AdvanceUnit(u) \/ WasteUnit(u) \/ CorrectState(u)
      PROVE  IInv'
  <2>1. session = "ACTIVE"
    BY <1>2, EndedHasNoWork DEF AdvanceUnit, WasteUnit, CorrectState
  <2>2. /\ UNCHANGED <<mode, session, check, payment, refund>>
        /\ unit' \in [Units -> UnitRow]
        /\ \A v \in Units :
              \/ unit'[v] = unit[v]
              \/ /\ unit[v].work \in {"COMMITTED", "QUEUED", "MAKING", "FULFILLED"}
                 /\ unit'[v].work \in {"QUEUED", "MAKING", "FULFILLED", "WASTED"}
                 /\ unit'[v].at = unit[v].at /\ unit'[v].adjusted = unit[v].adjusted
    <3>1. CASE AdvanceUnit(u)
      BY <1>0, <3>1 DEF AdvanceUnit, UnitRow, Ordered
    <3>2. CASE WasteUnit(u)
      BY <1>0, <3>2 DEF WasteUnit, UnitRow, Ordered
    <3>3. CASE CorrectState(u)
      BY <1>0, <3>3 DEF CorrectState, UnitRow, Ordered
    <3> QED BY <1>2, <3>1, <3>2, <3>3
  <2> QED BY <2>1, <2>2, WorkKeeps
<1> QED BY <1>1, <1>2

\* A commit adds the draft's prices to one Check's charge and to its base.
LEMMA CommitKeeps ==
  ASSUME IInv, NEW D \in SUBSET Units, NEW k \in Checks, CommitDraft(D, k)
  PROVE  /\ IInv'
         /\ MovesMoney(k, Prices(D), 0, 0)
         /\ Prices(D) > 0 /\ check[k].charge >= EffectiveReceived(k)
<1>0. /\ unit \in [Units -> UnitRow] /\ check \in [Checks -> CheckRow]
      /\ Prices(D) \in Nat /\ k # NoCheck
      /\ \A u \in D : unit[u].at = NoCheck /\ unit[u].adjusted = "NONE"
  BY PricesType, NoCheckAssumption DEF CommitDraft, IInv, Types, Rows, UnitGood, UnitRow, Scopes
<1>u. /\ unit' \in [Units -> UnitRow]
      /\ \A u \in D : /\ unit'[u].at = k /\ unit'[u].work = "COMMITTED"
                       /\ unit'[u].adjusted = "NONE"
      /\ \A u \in Units \ D : unit'[u] = unit[u]
  <2>1. ASSUME NEW u \in D
        PROVE  unit'[u] = [at |-> k, work |-> "COMMITTED", adjusted |-> unit[u].adjusted]
    BY <1>0 DEF CommitDraft, UnitRow
  <2>2. ASSUME NEW u \in Units \ D
        PROVE  unit'[u] = unit[u]
    BY DEF CommitDraft
  <2>3. DOMAIN unit' = Units /\ unit' = [u \in Units |-> unit'[u]]
    BY DEF CommitDraft
  <2>4. ASSUME NEW u \in Units
        PROVE  unit'[u] \in UnitRow
    <3>1. CASE u \in D
      <4>1. unit[u].adjusted \in {"NONE"} \cup Scopes
        BY <1>0 DEF UnitRow
      <4>2. unit'[u] = [at |-> k, work |-> "COMMITTED", adjusted |-> unit[u].adjusted]
        BY <2>1, <3>1
      <4>3. [at |-> k, work |-> "COMMITTED", adjusted |-> unit[u].adjusted] \in UnitRow
        BY <4>1 DEF UnitRow
      <4> QED BY <4>2, <4>3
    <3>2. CASE u \notin D
      BY <1>0, <2>2, <3>2
    <3> QED BY <3>1, <3>2
  <2>5. unit' \in [Units -> UnitRow]
    BY <2>3, <2>4
  <2>6. \A u \in D : /\ unit'[u].at = k /\ unit'[u].work = "COMMITTED"
                    /\ unit'[u].adjusted = "NONE"
    <3> TAKE u \in D
    <3>1. unit'[u] = [at |-> k, work |-> "COMMITTED", adjusted |-> unit[u].adjusted]
      BY <2>1
    <3> QED BY <1>0, <3>1
  <2> QED BY <2>2, <2>5, <2>6
<1>c. /\ check' \in [Checks -> CheckRow]
      /\ check'[k].state = "OPEN" /\ check'[k].charge = check[k].charge + Prices(D)
      /\ \A j \in Checks \ {k} : check'[j] = check[j]
      /\ check[k].state \in {"ABSENT", "OPEN"}
  <2> DEFINE row == [state |-> "OPEN", charge |-> check[k].charge + Prices(D)]
  <2>1. check' = [check EXCEPT ![k] = row] /\ check[k].state \in {"ABSENT", "OPEN"}
    BY DEF CommitDraft
  <2>2. row \in CheckRow
    BY <1>0 DEF CheckRow
  <2>3. check'[k] = row /\ \A j \in Checks \ {k} : check'[j] = check[j]
    BY <1>0, <2>1
  <2> QED BY <1>0, <2>1, <2>2, <2>3
<1>s. /\ session = "ACTIVE" /\ UNCHANGED <<mode, session, payment, refund>>
      /\ \A u \in D : unit[u].work = "NEW"
  BY DEF CommitDraft
<1>1. Types'
  BY <1>u, <1>c, <1>s DEF IInv, Types
<1>2. Rows'
  <2>1. ASSUME NEW u \in Units
        PROVE  UnitGood(u)'
    BY <1>0, <1>u, <1>s DEF IInv, Rows, UnitGood
  <2>2. \A p \in Payments : PaymentGood(p)'
    BY <1>s DEF IInv, Rows, PaymentGood
  <2>3. ASSUME NEW r \in Refunds
        PROVE  RefundGood(r)'
    <3>1. RefundGood(r) /\ RefundAmount'[r] = RefundAmount[r]
      BY <1>s, SameRefunds DEF IInv, Rows
    <3>2. refund[r].scope # "NONE"
      BY DEF IInv, Types, RefundRow, Scopes
    <3>3. \A u \in Units : refund[r].against[u] > 0 =>
             unit'[u].at = refund'[r].on /\ unit'[u].adjusted = refund'[r].scope
      BY <1>0, <1>u, <1>s, <3>1, <3>2 DEF RefundGood
    <3> QED BY <1>s, <3>1, <3>3 DEF RefundGood
  <2>4. ASSUME NEW j \in Checks
        PROVE  AbsentGood(j)'
    BY <1>0, <1>u, <1>c, <1>s DEF IInv, Rows, AbsentGood
  <2> QED BY <2>1, <2>2, <2>3, <2>4 DEF Rows
<1>3. Sources'
  BY <1>s, SameRefunds DEF IInv, Sources
<1>4. ASSUME NEW j \in Checks
      PROVE  /\ check'[j].charge = check[j].charge + IF j = k THEN Prices(D) ELSE 0
             /\ Prices(ChargedTo(j))' = Prices(ChargedTo(j)) + IF j = k THEN Prices(D) ELSE 0
             /\ Adjusted(j, "LIVE_CHECK")' = Adjusted(j, "LIVE_CHECK")
             /\ EffectiveReceived(j)' = EffectiveReceived(j) /\ ValidPaid(j)' = ValidPaid(j)
  <2>0. check[j].charge \in Nat /\ Prices(ChargedTo(j)) \in Nat
    BY Receipt DEF IInv
  <2>1. check'[j].charge = check[j].charge + IF j = k THEN Prices(D) ELSE 0
    BY <1>c, <2>0
  <2>2. Adjusted(j, "LIVE_CHECK")' = Adjusted(j, "LIVE_CHECK")
    BY <1>0, <1>u DEF Adjusted, ChargedTo
  <2>3. CASE j = k
    <3>1. /\ ChargedTo(k)' = ChargedTo(k) \cup D /\ ChargedTo(k) \cap D = {}
          /\ ChargedTo(k) \in SUBSET Units
      BY <1>0, <1>u DEF ChargedTo
    <3>2. \A u \in ChargedTo(k) \cup D : Price[u] \in Int
      BY <3>1, PriceAssumption
    <3>3. Total(Price, ChargedTo(k) \cup D) = Total(Price, ChargedTo(k)) + Total(Price, D)
      <4> DEFINE S == ChargedTo(k)
      <4>1. IsFiniteSet(S) /\ IsFiniteSet(D)
        BY <3>1, Finite
      <4> HIDE DEF S
      <4>2. S \cap D = {} /\ \A u \in S \cup D : Price[u] \in Int
        BY <3>1, <3>2 DEF S
      <4>3. Total(Price, S \cup D) = Total(Price, S) + Total(Price, D)
        BY <4>1, <4>2, TotalUnion
      <4> QED BY <4>3 DEF S
    <3>4. Prices(ChargedTo(k))' = Prices(ChargedTo(k)) + Prices(D)
      BY <3>1, <3>3 DEF Prices
    <3> QED BY <2>1, <2>2, <2>3, <3>4, <1>s, SameReceipt, SamePayments
  <2>4. CASE j # k
    <3>1. ChargedTo(j)' = ChargedTo(j)
      BY <1>0, <1>u, <2>4, NoCheckAssumption DEF ChargedTo
    <3>2. Prices(ChargedTo(j))' = Prices(ChargedTo(j))
      BY <3>1 DEF Prices
    <3> QED BY <2>0, <2>1, <2>2, <2>4, <3>2, <1>s, SameReceipt, SamePayments
  <2> QED BY <2>3, <2>4
<1>5. ASSUME NEW j \in Checks
      PROVE  /\ check[j].charge \in Nat /\ Prices(Adjusted(j, "LIVE_CHECK")) \in Nat
             /\ Prices(Adjusted(j, "LIVE_CHECK"))' = Prices(Adjusted(j, "LIVE_CHECK"))
             /\ Prices(ChargedTo(j)) \in Nat /\ ValidPaid(j) \in Nat
             /\ EffectiveReceived(j) \in Nat
  BY <1>4, Receipt DEF IInv, Prices, Scopes
<1>6. ChargeMatchesFacts'
  BY <1>0, <1>4, <1>5 DEF IInv, ChargeMatchesFacts
<1>7. Bounded'
  BY <1>0, <1>4, <1>5 DEF IInv, Bounded
<1>8. Prices(D) > 0
  <2>1. PICK u \in D : TRUE
    BY DEF CommitDraft
  <2>2. Price[u] > 0 /\ \A v \in D : Price[v] \in Nat
    BY PriceAssumption
  <2>3. Price[u] <= Total(Price, D)
    BY <2>2, Finite, TotalTerm
  <2> QED BY <1>0, <2>2, <2>3, PriceAssumption DEF Prices
<1>9. check[k].charge >= EffectiveReceived(k)
  <2>1. CASE check[k].state = "OPEN"
    BY <1>5, <2>1 DEF IInv, SettledIffCovered, Balance, BalanceAt, Monus
  <2>2. CASE check[k].state = "ABSENT"
    <3>1. ChargedTo(k) = {}
      BY <2>2 DEF IInv, Rows, AbsentGood, ChargedTo
    <3>2. ValidPaid(k) <= 0
      BY <3>1, TotalEmpty DEF IInv, Bounded, Prices
    <3>3. Returned(k, "LIVE_CHECK") \in Nat /\ check[k].charge \in Nat
      BY Receipt DEF IInv, Scopes
    <3> QED BY <1>5, <3>2, <3>3 DEF EffectiveReceived
  <2> QED BY <1>c, <2>1, <2>2
<1>10. SettledIffCovered'
  <2>1. check'[k].charge > EffectiveReceived(k)'
    BY <1>0, <1>4, <1>5, <1>8, <1>9
  <2>2. Balance(k)' > 0
    BY <1>0, <1>c, <1>4, <1>5, <2>1 DEF Balance, BalanceAt, Monus
  <2>3. \A j \in Checks \ {k} : Balance(j)' = Balance(j)
    BY <1>c, <1>4 DEF Balance, BalanceAt
  <2> QED BY <1>c, <2>2, <2>3 DEF IInv, SettledIffCovered
<1>11. Ended'
  BY <1>s DEF Ended
<1>12. MovesMoney(k, Prices(D), 0, 0)
  <2>1. \A j \in Checks :
           /\ Reserved(j, "LIVE_CHECK")' = Reserved(j, "LIVE_CHECK")
           /\ Reserved(j, "LIVE_CHECK") \in Nat
    BY <1>s, SameRefunds, Receipt DEF IInv, Scopes
  <2> QED BY <1>c, <1>s, <1>4, <1>5, <2>1 DEF MovesMoney
<1>13. IInv'
  BY <1>1, <1>2, <1>3, <1>6, <1>7, <1>10, <1>11 DEF IInv
<1> QED BY <1>8, <1>9, <1>12, <1>13

-----------------------------------------------------------------------------
(* Charge corrections.                                                     *)

\* Live adjustments lower the charges by what they adjust, and settle what they
\* leave covered.
LEMMA LowerChargesKeeps ==
  ASSUME IInv, NEW D \in SUBSET Units, LowerCharges(D),
         session = "ACTIVE", UNCHANGED <<mode, session, payment, refund>>,
         unit' \in [Units -> UnitRow],
         \A u \in D : /\ unit[u].adjusted = "NONE" /\ unit[u].work # "NEW"
                      /\ unit'[u].at = unit[u].at /\ unit'[u].adjusted = "LIVE_CHECK"
                      /\ unit'[u].work \in {"CANCELLED", "WASTED", "WITHDRAWN"},
         \A u \in Units \ D : unit'[u] = unit[u]
  PROVE  IInv'
<1> DEFINE cut(k) == D \cap ChargedTo(k)
<1>0. check \in [Checks -> CheckRow] /\ \A k \in Checks : cut(k) \in SUBSET Units
  BY DEF IInv, Types, ChargedTo
<1>1. ASSUME NEW k \in Checks
      PROVE  /\ Prices(Adjusted(k, "LIVE_CHECK"))'
                  = Prices(Adjusted(k, "LIVE_CHECK")) + Prices(cut(k))
             /\ ChargedTo(k)' = ChargedTo(k)
             /\ Prices(cut(k)) \in Nat /\ Prices(cut(k)) <= check[k].charge
  <2> DEFINE S == Adjusted(k, "LIVE_CHECK")
             T == cut(k)
             B == ChargedTo(k)
  <2>1. /\ Adjusted(k, "LIVE_CHECK")' = S \cup T /\ S \cap T = {}
        /\ S \cup T \in SUBSET B /\ B \in SUBSET Units /\ B' = B
    BY DEF Adjusted, ChargedTo
  <2>2. /\ IsFiniteSet(S) /\ IsFiniteSet(T) /\ IsFiniteSet(B)
        /\ \A u \in B : Price[u] \in Nat
        /\ \A u \in S \cup T : Price[u] \in Int
    BY <2>1, Finite, PriceAssumption
  <2>3. Prices(S) \in Nat /\ Prices(T) \in Nat /\ Prices(B) \in Nat
    BY <2>1, PricesType
  <2>4. check[k].charge \in Nat /\ check[k].charge + Prices(S) = Prices(B)
    BY <1>0 DEF CheckRow, IInv, ChargeMatchesFacts
  <2>5. Adjusted(k, "LIVE_CHECK")' = S \cup T
    BY <2>1
  <2>6. ChargedTo(k)' = ChargedTo(k)
    BY <2>1
  <2> HIDE DEF S, T, B
  <2>7. Total(Price, S \cup T) = Total(Price, S) + Total(Price, T)
    BY <2>1, <2>2, TotalUnion
  <2>8. Total(Price, S \cup T) <= Total(Price, B)
    BY <2>1, <2>2, TotalPart
  <2>9. Prices(T) <= check[k].charge
    BY <2>3, <2>4, <2>7, <2>8 DEF Prices
  <2>10. Prices(Adjusted(k, "LIVE_CHECK"))' = Prices(S) + Prices(T)
    BY <2>5, <2>7 DEF Prices
  <2> QED BY <2>3, <2>6, <2>9, <2>10 DEF S, T
<1>2. ASSUME NEW k \in Checks
      PROVE  LET charge == check[k].charge - Prices(cut(k)) IN
             /\ check'[k].charge = charge /\ charge \in Nat
             /\ check'[k].state =
                   IF cut(k) # {} /\ BalanceAt(charge, k) = 0 /\ check[k].state = "OPEN"
                   THEN "SETTLED" ELSE check[k].state
             /\ check'[k] \in CheckRow
             /\ cut(k) = {} => check'[k] = check[k]
  <2> DEFINE charge == check[k].charge - Prices(cut(k))
  <2>1. check[k] \in CheckRow /\ check[k].charge \in Nat
    BY <1>0 DEF CheckRow
  <2>2. charge \in Nat
    BY <1>1, <2>1
  <2>3. CASE cut(k) = {}
    <3>1. check'[k] = check[k]
      BY <2>3 DEF LowerCharges
    <3>2. Prices(cut(k)) = 0
      BY <2>3, TotalEmpty DEF Prices
    <3> QED BY <2>1, <2>3, <3>1, <3>2
  <2>4. CASE cut(k) # {}
    <3> DEFINE row == [state |-> IF BalanceAt(charge, k) = 0 /\ check[k].state = "OPEN"
                                 THEN "SETTLED" ELSE check[k].state,
                       charge |-> charge]
    <3>1. check'[k] = row
      BY <2>4 DEF LowerCharges
    <3>2. row \in CheckRow
      BY <2>1, <2>2 DEF CheckRow
    <3> QED BY <2>2, <2>4, <3>1, <3>2
  <2> QED BY <2>3, <2>4
<1>3. check' \in [Checks -> CheckRow]
  <2>1. check' = [k \in Checks |-> check'[k]]
    BY DEF LowerCharges
  <2>2. \A k \in Checks : check'[k] \in CheckRow
    BY <1>2
  <2> QED BY <2>1, <2>2
<1> HIDE DEF cut
<1>4. Types'
  BY <1>3 DEF IInv, Types
<1>5. Rows'
  <2>1. ASSUME NEW u \in Units
        PROVE  UnitGood(u)'
    BY DEF IInv, Rows, UnitGood
  <2>2. \A p \in Payments : PaymentGood(p)'
    BY DEF IInv, Rows, PaymentGood
  <2>3. ASSUME NEW r \in Refunds
        PROVE  RefundGood(r)'
    <3>1. RefundGood(r) /\ RefundAmount'[r] = RefundAmount[r]
      BY SameRefunds DEF IInv, Rows
    <3>2. refund[r].scope # "NONE"
      BY DEF IInv, Types, RefundRow, Scopes
    <3>3. \A u \in Units : refund[r].against[u] > 0 =>
             unit'[u].at = refund'[r].on /\ unit'[u].adjusted = refund'[r].scope
      BY <3>1, <3>2 DEF RefundGood
    <3> QED BY <3>1, <3>3 DEF RefundGood
  <2>4. ASSUME NEW k \in Checks
        PROVE  AbsentGood(k)'
    <3>1. check'[k].state = "ABSENT" => check[k].state = "ABSENT"
      BY <1>2
    <3>2. check[k].state = "ABSENT" => cut(k) = {}
      BY DEF IInv, Rows, AbsentGood, ChargedTo, cut
    <3>3. \A u \in Units : unit'[u].at = unit[u].at
      OBVIOUS
    <3> QED BY <1>2, <3>1, <3>2, <3>3 DEF IInv, Rows, AbsentGood
  <2> QED BY <2>1, <2>2, <2>3, <2>4 DEF Rows
<1>6. Sources'
  BY SameRefunds DEF IInv, Sources
<1>7. ChargeMatchesFacts'
  <2>1. ASSUME NEW k \in Checks
        PROVE  (check[k].charge + Prices(Adjusted(k, "LIVE_CHECK")) = Prices(ChargedTo(k)))'
    <3>1. /\ check[k].charge \in Nat /\ Prices(Adjusted(k, "LIVE_CHECK")) \in Nat
          /\ check[k].charge + Prices(Adjusted(k, "LIVE_CHECK")) = Prices(ChargedTo(k))
      BY Receipt DEF IInv, ChargeMatchesFacts, Scopes
    <3>2. Prices(ChargedTo(k))' = Prices(ChargedTo(k))
      BY <1>1 DEF Prices
    <3> QED BY <1>1, <1>2, <3>1, <3>2
  <2> QED BY <2>1 DEF ChargeMatchesFacts
<1>8. Bounded'
  BY <1>1, SamePayments DEF IInv, Bounded, Prices
<1>9. SettledIffCovered'
  <2>1. ASSUME NEW k \in Checks
        PROVE  /\ check'[k].state = "OPEN" => Balance(k)' > 0
               /\ check'[k].state = "SETTLED" => Balance(k)' = 0
    <3>1. EffectiveReceived(k)' = EffectiveReceived(k) /\ EffectiveReceived(k) \in Nat
      BY SameReceipt, Receipt DEF IInv
    <3>2. Balance(k)' = BalanceAt(check[k].charge - Prices(cut(k)), k)
      BY <1>2, <3>1 DEF Balance, BalanceAt
    <3>3. check[k].charge \in Nat /\ check[k].charge - Prices(cut(k)) \in Nat
      BY <1>0, <1>2 DEF CheckRow
    <3>4. BalanceAt(check[k].charge - Prices(cut(k)), k) \in Nat
      BY <3>1, <3>3 DEF BalanceAt, Monus
    <3>5. CASE check[k].state = "OPEN"
      <4>1. cut(k) = {} => Balance(k)' > 0
        <5>1. cut(k) = {} => check'[k].charge = check[k].charge
          BY <1>2
        <5>2. Balance(k) > 0
          BY <3>5 DEF IInv, SettledIffCovered
        <5> QED BY <3>1, <5>1, <5>2 DEF Balance, BalanceAt
      <4> QED BY <1>2, <3>2, <3>4, <3>5, <4>1
    <3>6. CASE check[k].state # "OPEN"
      <4>1. check'[k].state = check[k].state
        BY <1>2, <3>6
      <4>2. check[k].state = "SETTLED" => check[k].charge <= EffectiveReceived(k)
        BY <3>1, <3>3 DEF IInv, SettledIffCovered, Balance, BalanceAt, Monus
      <4>3. check[k].state = "SETTLED" => Balance(k)' = 0
        BY <1>1, <3>1, <3>2, <3>3, <4>2 DEF BalanceAt, Monus
      <4> QED BY <3>6, <4>1, <4>3
    <3> QED BY <3>5, <3>6
  <2> QED BY <2>1 DEF SettledIffCovered
<1>10. Ended'
  BY DEF Ended
<1> QED BY <1>4, <1>5, <1>6, <1>7, <1>8, <1>9, <1>10 DEF IInv

\* Cancellation and withdrawal adjust work that was never adjusted before.
LEMMA CancelKeeps ==
  ASSUME IInv
  PROVE  /\ \A D \in SUBSET Units : CancelUnits(D) => IInv'
         /\ CancelAwaitingSubmission => IInv'
<1>0. unit \in [Units -> UnitRow]
  BY DEF IInv, Types
<1>1. ASSUME NEW D \in SUBSET Units, NEW w \in {"CANCELLED", "WITHDRAWN"},
             session = "ACTIVE", UNCHANGED <<mode, session, payment, refund>>, LowerCharges(D),
             \A u \in D : unit[u].work \in {"QUEUED", "COMMITTED"},
             unit' = [u \in Units |->
                IF u \in D THEN [unit[u] EXCEPT !.work = w, !.adjusted = "LIVE_CHECK"] ELSE unit[u]]
      PROVE  IInv'
  <2>1. ASSUME NEW u \in D
        PROVE  /\ unit'[u] = [at |-> unit[u].at, work |-> w, adjusted |-> "LIVE_CHECK"]
               /\ unit'[u] \in UnitRow
               /\ unit[u].adjusted = "NONE" /\ unit[u].work # "NEW"
    <3>1. unit'[u] = [at |-> unit[u].at, work |-> w, adjusted |-> "LIVE_CHECK"]
      BY <1>0, <1>1 DEF UnitRow
    <3>2. unit[u].at \in Checks \cup {NoCheck} /\ unit[u].adjusted \in {"NONE"} \cup Scopes
      BY <1>0 DEF UnitRow
    <3>3. [at |-> unit[u].at, work |-> w, adjusted |-> "LIVE_CHECK"] \in UnitRow
      BY <3>2 DEF UnitRow, Scopes, Ordered
    <3>4. unit[u].adjusted = "NONE" /\ unit[u].work # "NEW"
      BY <1>1, <3>2 DEF IInv, Rows, UnitGood, Scopes
    <3> QED BY <3>1, <3>3, <3>4
  <2>2. \A u \in Units \ D : unit'[u] = unit[u]
    BY <1>1
  <2>3. \A u \in D : /\ unit[u].adjusted = "NONE" /\ unit[u].work # "NEW"
                     /\ unit'[u].at = unit[u].at /\ unit'[u].adjusted = "LIVE_CHECK"
                     /\ unit'[u].work \in {"CANCELLED", "WASTED", "WITHDRAWN"}
    <3> TAKE u \in D
    <3>1. unit'[u] = [at |-> unit[u].at, work |-> w, adjusted |-> "LIVE_CHECK"]
      BY <2>1
    <3> QED BY <2>1, <3>1
  <2>4. unit' \in [Units -> UnitRow]
    <3>1. \A u \in Units : unit'[u] \in UnitRow
      BY <1>0, <2>1, <2>2
    <3>2. unit' = [u \in Units |-> unit'[u]]
      BY <1>1
    <3> QED BY <3>1, <3>2
  <2> QED BY <1>1, <2>2, <2>3, <2>4, LowerChargesKeeps
<1>2. ASSUME NEW D \in SUBSET Units, CancelUnits(D)
      PROVE  IInv'
  BY <1>1, <1>2 DEF CancelUnits
<1>3. ASSUME CancelAwaitingSubmission
      PROVE  IInv'
  <2> DEFINE D == {u \in Units : unit[u].work = "COMMITTED"}
  <2>1. /\ D \in SUBSET Units /\ \A u \in D : unit[u].work \in {"QUEUED", "COMMITTED"}
        /\ session = "ACTIVE" /\ LowerCharges(D) /\ UNCHANGED <<mode, session, payment, refund>>
        /\ unit' = [u \in Units |->
              IF u \in D THEN [unit[u] EXCEPT !.work = "WITHDRAWN", !.adjusted = "LIVE_CHECK"]
              ELSE unit[u]]
    BY <1>3 DEF CancelAwaitingSubmission
  <2> HIDE DEF D
  <2> QED BY <1>1, <2>1
<1> QED BY <1>2, <1>3

\* A Comp lowers a live charge, or corrects a Completed Sale and moves nothing.
LEMMA CompKeeps ==
  ASSUME IInv, NEW u \in Units, CompWaste(u)
  PROVE  IInv'
<1>0. /\ unit \in [Units -> UnitRow] /\ unit[u].work = "WASTED" /\ unit[u].adjusted = "NONE"
      /\ UNCHANGED <<mode, session, payment, refund>>
  BY DEF IInv, Types, CompWaste
<1>1. CASE session = "ACTIVE"
  <2>1. unit' = [unit EXCEPT ![u].adjusted = "LIVE_CHECK"] /\ LowerCharges({u})
    BY <1>1 DEF CompWaste
  <2>2. unit' \in [Units -> UnitRow]
    BY <1>0, <2>1 DEF UnitRow, Scopes
  <2>3. /\ unit'[u].at = unit[u].at /\ unit'[u].adjusted = "LIVE_CHECK"
        /\ unit'[u].work = "WASTED"
        /\ \A v \in Units \ {u} : unit'[v] = unit[v]
    BY <1>0, <2>1 DEF UnitRow
  <2>4. \A v \in {u} :
           /\ unit[v].adjusted = "NONE" /\ unit[v].work # "NEW"
           /\ unit'[v].at = unit[v].at /\ unit'[v].adjusted = "LIVE_CHECK"
           /\ unit'[v].work \in {"CANCELLED", "WASTED", "WITHDRAWN"}
    BY <1>0, <2>3
  <2>5. {u} \in SUBSET Units
    OBVIOUS
  <2> QED BY <1>0, <1>1, <2>1, <2>2, <2>3, <2>4, <2>5, LowerChargesKeeps
<1>2. CASE session # "ACTIVE"
  <2>1. /\ unit' = [unit EXCEPT ![u].adjusted = "POST_SALE"] /\ check' = check
        /\ session = "CLOSED"
    BY <1>2 DEF CompWaste
  <2>2. /\ unit' \in [Units -> UnitRow]
        /\ unit'[u].at = unit[u].at /\ unit'[u].adjusted = "POST_SALE"
        /\ unit'[u].work = "WASTED"
        /\ \A v \in Units \ {u} : unit'[v] = unit[v]
    BY <1>0, <2>1 DEF UnitRow, Scopes
  <2>3. Types'
    BY <1>0, <2>1, <2>2 DEF IInv, Types
  <2>4. Rows'
    <3>1. ASSUME NEW v \in Units
          PROVE  UnitGood(v)'
      BY <1>0, <2>1, <2>2 DEF IInv, Rows, UnitGood
    <3>2. \A p \in Payments : PaymentGood(p)'
      BY <1>0 DEF IInv, Rows, PaymentGood
    <3>3. ASSUME NEW r \in Refunds
          PROVE  RefundGood(r)'
      <4>1. RefundGood(r) /\ RefundAmount'[r] = RefundAmount[r]
        BY <1>0, SameRefunds DEF IInv, Rows
      <4>2. refund[r].scope # "NONE"
        BY DEF IInv, Types, RefundRow, Scopes
      <4>3. \A v \in Units : refund[r].against[v] > 0 =>
               unit'[v].at = refund'[r].on /\ unit'[v].adjusted = refund'[r].scope
        BY <1>0, <2>2, <4>1, <4>2 DEF RefundGood
      <4> QED BY <1>0, <4>1, <4>3 DEF RefundGood
    <3>4. \A k \in Checks : AbsentGood(k)'
      BY <1>0, <2>1, <2>2 DEF IInv, Rows, AbsentGood
    <3> QED BY <3>1, <3>2, <3>3, <3>4 DEF Rows
  <2>5. Sources'
    BY <1>0, SameRefunds DEF IInv, Sources
  <2>6. \A k \in Checks : /\ ChargedTo(k)' = ChargedTo(k)
                          /\ Adjusted(k, "LIVE_CHECK")' = Adjusted(k, "LIVE_CHECK")
    BY <1>0, <2>2 DEF ChargedTo, Adjusted
  <2>7. ChargeMatchesFacts'
    BY <2>1, <2>6 DEF IInv, ChargeMatchesFacts, Prices
  <2>8. Bounded'
    BY <1>0, <2>6, SamePayments DEF IInv, Bounded, Prices
  <2>9. SettledIffCovered'
    BY <1>0, <2>1, SameReceipt DEF IInv, SettledIffCovered, Balance, BalanceAt
  <2>10. Ended'
    BY <1>0, <2>1, <2>2, SameReceipt DEF IInv, Ended
  <2> QED BY <2>3, <2>4, <2>5, <2>7, <2>8, <2>9, <2>10 DEF IInv
<1> QED BY <1>1, <1>2

-----------------------------------------------------------------------------
(* Payments.                                                               *)

\* A Payment within the balance never takes a Check beyond its charges.
LEMMA PaymentKeeps ==
  ASSUME IInv, NEW k \in Checks, NEW p \in Payments, NEW m \in Methods, NEW a \in Nat,
         RecordPayment(k, p, m, a)
  PROVE  IInv' /\ MovesMoney(k, 0, a, 0)
<1> DEFINE row == [on |-> k, method |-> m, amount |-> a, voided |-> FALSE]
<1>0. /\ payment \in [Payments -> PaymentRow] /\ check \in [Checks -> CheckRow]
      /\ session = "ACTIVE" /\ check[k].state = "OPEN" /\ payment[p] = NoPayment
      /\ a > 0 /\ a <= Balance(k) /\ k # NoCheck
      /\ UNCHANGED <<mode, session, unit, refund>>
  BY NoCheckAssumption DEF IInv, Types, RecordPayment
<1>p. /\ payment' \in [Payments -> PaymentRow] /\ payment'[p] = row
      /\ \A q \in Payments \ {p} : payment'[q] = payment[q]
  <2>1. payment' = [payment EXCEPT ![p] = row]
    BY DEF RecordPayment
  <2>2. row \in PaymentRow
    BY DEF PaymentRow
  <2> QED BY <1>0, <2>1, <2>2
<1>c. /\ check' \in [Checks -> CheckRow]
      /\ check'[k].charge = check[k].charge
      /\ check'[k].state = IF a = Balance(k) THEN "SETTLED" ELSE "OPEN"
      /\ \A j \in Checks \ {k} : check'[j] = check[j]
  <2>1. check' = [check EXCEPT ![k].state = IF a = Balance(k) THEN "SETTLED" ELSE "OPEN"]
    BY DEF RecordPayment
  <2> QED BY <1>0, <2>1 DEF CheckRow
<1>1. Types'
  BY <1>0, <1>p, <1>c DEF IInv, Types
<1>2. Rows'
  <2>1. \A u \in Units : UnitGood(u)'
    BY <1>0 DEF IInv, Rows, UnitGood
  <2>2. ASSUME NEW q \in Payments
        PROVE  PaymentGood(q)'
    BY <1>0, <1>p DEF IInv, Rows, PaymentGood
  <2>3. ASSUME NEW r \in Refunds
        PROVE  RefundGood(r)'
    <3>1. RefundGood(r) /\ RefundAmount'[r] = RefundAmount[r]
      BY <1>0, SameRefunds DEF IInv, Rows
    <3>2. refund[r].from[p] \in Nat /\ ~(refund[r].from[p] > 0)
      <4>1. refund[r].from[p] \in Nat
        BY DEF IInv, Types, RefundRow
      <4>2. refund[r].from[p] > 0 => refund[r] = NoRefund
        BY <1>0, <3>1 DEF RefundGood, NoPayment
      <4> QED BY <4>1, <4>2 DEF NoRefund
    <3>3. \A q \in Payments : refund[r].from[q] > 0 =>
             payment'[q].on = refund[r].on /\ ~payment'[q].voided
      BY <1>p, <3>1, <3>2 DEF RefundGood
    <3> QED BY <1>0, <3>1, <3>3 DEF RefundGood
  <2>4. ASSUME NEW j \in Checks
        PROVE  AbsentGood(j)'
    BY <1>0, <1>p, <1>c DEF IInv, Rows, AbsentGood
  <2> QED BY <2>1, <2>2, <2>3, <2>4 DEF Rows
<1>3. Sources'
  <2>1. \A q \in Payments : payment[q].amount <= payment'[q].amount /\ payment[q].amount \in Nat
                              /\ payment'[q].amount \in Nat
    BY <1>0, <1>p DEF NoPayment, PaymentRow
  <2>2. \A q \in Payments : DrawnFrom(q) \in Nat /\ DrawnFrom(q)' = DrawnFrom(q)
    BY <1>0, AmountTypes, SameRefunds DEF IInv
  <2>3. \A u \in Units : DrawnAgainst(u)' = DrawnAgainst(u)
    BY <1>0, SameRefunds
  <2> QED BY <2>1, <2>2, <2>3 DEF IInv, Sources
<1>4. ValidPaid(k)' = ValidPaid(k) + a
  <2> DEFINE S == PaidOn(k)
             f == PaidAmount
             g == PaidAmount'
  <2>1. PaidOn(k)' = S \cup {p} /\ p \notin S /\ IsFiniteSet(S) /\ S \in SUBSET Payments
    BY <1>0, <1>p, Finite DEF PaidOn, NoPayment
  <2>2. \A q \in S : f[q] = g[q]
    BY <1>p, <2>1 DEF PaidAmount
  <2>3. g[p] = a /\ \A q \in S \cup {p} : g[q] \in Int
    BY <1>p, <2>1 DEF PaidAmount, PaymentRow
  <2>4. ValidPaid(k)' = Total(g, PaidOn(k)') /\ ValidPaid(k) = Total(f, S)
    BY DEF ValidPaid
  <2>5. ValidPaid(k) \in Nat
    BY Receipt DEF IInv
  <2> HIDE DEF S, f, g
  <2>6. Total(g, S \cup {p}) = g[p] + Total(g, S)
    BY <2>1, <2>3, TotalAdd
  <2>7. Total(f, S) = Total(g, S)
    BY <2>1, <2>2, TotalCongruence
  <2> QED BY <2>1, <2>3, <2>4, <2>5, <2>6, <2>7
<1>5. ASSUME NEW j \in Checks \ {k}
      PROVE  ValidPaid(j)' = ValidPaid(j)
  <2> DEFINE S == PaidOn(j)
             f == PaidAmount
             g == PaidAmount'
  <2>1. PaidOn(j)' = S /\ IsFiniteSet(S) /\ \A q \in S : f[q] = g[q]
    BY <1>0, <1>p, Finite, NoCheckAssumption DEF PaidOn, NoPayment, PaidAmount
  <2>2. ValidPaid(j)' = Total(g, PaidOn(j)') /\ ValidPaid(j) = Total(f, S)
    BY DEF ValidPaid
  <2> HIDE DEF S, f, g
  <2> QED BY <2>1, <2>2, TotalCongruence
<1>6. ASSUME NEW j \in Checks
      PROVE  /\ ChargedTo(j)' = ChargedTo(j)
             /\ Adjusted(j, "LIVE_CHECK")' = Adjusted(j, "LIVE_CHECK")
             /\ Returned(j, "LIVE_CHECK")' = Returned(j, "LIVE_CHECK")
             /\ check'[j].charge = check[j].charge
  BY <1>0, <1>c, SameRefunds DEF ChargedTo, Adjusted, Scopes
<1>7. ChargeMatchesFacts'
  BY <1>6 DEF IInv, ChargeMatchesFacts, Prices
<1>8. /\ ValidPaid(k) \in Nat /\ check[k].charge \in Nat /\ EffectiveReceived(k) \in Nat
      /\ EffectiveReceived(k) = ValidPaid(k) - Returned(k, "LIVE_CHECK")
      /\ Returned(k, "LIVE_CHECK") \in Nat /\ Reserved(k, "LIVE_CHECK") \in Nat
      /\ Prices(Adjusted(k, "LIVE_CHECK")) \in Nat /\ Prices(ChargedTo(k)) \in Nat
      /\ Returned(k, "LIVE_CHECK") + Reserved(k, "LIVE_CHECK") <= Prices(Adjusted(k, "LIVE_CHECK"))
      /\ check[k].charge + Prices(Adjusted(k, "LIVE_CHECK")) = Prices(ChargedTo(k))
      /\ Balance(k) = check[k].charge - EffectiveReceived(k)
      /\ Balance(k) > 0
  <2>1. /\ ValidPaid(k) \in Nat /\ check[k].charge \in Nat /\ EffectiveReceived(k) \in Nat
        /\ Returned(k, "LIVE_CHECK") \in Nat /\ Reserved(k, "LIVE_CHECK") \in Nat
        /\ Prices(Adjusted(k, "LIVE_CHECK")) \in Nat /\ Prices(ChargedTo(k)) \in Nat
    BY Receipt DEF IInv, Scopes
  <2>2. Returned(k, "LIVE_CHECK") + Reserved(k, "LIVE_CHECK") <= Prices(Adjusted(k, "LIVE_CHECK"))
    BY Account DEF IInv, Scopes
  <2>3. Balance(k) > 0
    BY <1>0 DEF IInv, SettledIffCovered
  <2>4. Balance(k) = check[k].charge - EffectiveReceived(k)
    BY <2>1, <2>3 DEF Balance, BalanceAt, Monus
  <2>5. check[k].charge + Prices(Adjusted(k, "LIVE_CHECK")) = Prices(ChargedTo(k))
    BY DEF IInv, ChargeMatchesFacts
  <2> QED BY <2>1, <2>2, <2>3, <2>4, <2>5 DEF EffectiveReceived
<1>9. Bounded'
  <2>1. ValidPaid(k)' <= Prices(ChargedTo(k))
    BY <1>0, <1>4, <1>8
  <2> QED BY <1>5, <1>6, <2>1 DEF IInv, Bounded, Prices
<1>e. EffectiveReceived(k)' = EffectiveReceived(k) + a
  BY <1>4, <1>6, <1>8 DEF EffectiveReceived
<1>10. SettledIffCovered'
  <2>2. Balance(k)' = Monus(check[k].charge, EffectiveReceived(k) + a)
    BY <1>6, <1>e DEF Balance, BalanceAt
  <2>3. Balance(k)' = Balance(k) - a
    BY <1>0, <1>8, <2>2 DEF Monus
  <2>4. \A j \in Checks \ {k} : Balance(j)' = Balance(j)
    BY <1>5, <1>6 DEF Balance, BalanceAt, EffectiveReceived
  <2>5. /\ check'[k].state = "OPEN" => Balance(k)' > 0
        /\ check'[k].state = "SETTLED" => Balance(k)' = 0
    BY <1>0, <1>8, <1>c, <2>3
  <2> QED BY <1>c, <2>4, <2>5 DEF IInv, SettledIffCovered
<1>11. Ended'
  BY <1>0 DEF Ended
<1>12. MovesMoney(k, 0, a, 0)
  <2>1. \A j \in Checks :
           /\ Reserved(j, "LIVE_CHECK")' = Reserved(j, "LIVE_CHECK")
           /\ Reserved(j, "LIVE_CHECK") \in Nat
    BY <1>0, SameRefunds, Receipt DEF IInv, Scopes
  <2>2. \A j \in Checks \ {k} : EffectiveReceived(j)' = EffectiveReceived(j)
    BY <1>5, <1>6 DEF EffectiveReceived
  <2> QED BY <1>0, <1>6, <1>8, <1>e, <2>1, <2>2 DEF MovesMoney
<1>13. IInv'
  BY <1>1, <1>2, <1>3, <1>7, <1>9, <1>10, <1>11 DEF IInv
<1> QED BY <1>12, <1>13

\* A Void takes away one Payment no Refund draws on, and reopens what it uncovers.
LEMMA VoidKeeps ==
  ASSUME IInv, NEW p \in Payments, VoidPayment(p)
  PROVE  IInv' /\ \E k \in Checks, a \in Nat : MovesMoney(k, 0, 0 - a, 0)
<1>k. PICK k \in Checks, a \in Nat : k = payment[p].on /\ a = payment[p].amount
  <2>1. payment \in [Payments -> PaymentRow] /\ payment[p] # NoPayment
    BY DEF IInv, Types, VoidPayment
  <2> QED BY <2>1 DEF PaymentRow, IInv, Rows, PaymentGood
<1> DEFINE receipt == EffectiveReceived(k) - a
<1>0. /\ payment \in [Payments -> PaymentRow] /\ check \in [Checks -> CheckRow]
      /\ session = "ACTIVE"
      /\ check[k].state \in {"OPEN", "SETTLED"} /\ ~payment[p].voided
      /\ \A r \in Refunds : refund[r].from[p] = 0
      /\ UNCHANGED <<mode, session, unit, refund>>
  BY <1>k DEF IInv, Types, VoidPayment, Unallocated
<1>p. /\ payment' \in [Payments -> PaymentRow]
      /\ payment'[p].on = k /\ payment'[p].amount = a /\ payment'[p].voided
      /\ \A q \in Payments \ {p} : payment'[q] = payment[q]
  <2>1. payment' = [payment EXCEPT ![p].voided = TRUE]
    BY DEF VoidPayment
  <2> QED BY <1>0, <1>k, <2>1 DEF PaymentRow
<1>c. /\ check' \in [Checks -> CheckRow]
      /\ check'[k].charge = check[k].charge
      /\ check'[k].state = IF check[k].charge > receipt THEN "OPEN" ELSE check[k].state
      /\ \A j \in Checks \ {k} : check'[j] = check[j]
  <2>1. check' = [check EXCEPT ![k].state = IF check[k].charge > receipt THEN "OPEN" ELSE @]
    BY <1>k DEF VoidPayment
  <2> QED BY <1>0, <2>1 DEF CheckRow
<1> HIDE DEF receipt
<1>1. Types'
  BY <1>0, <1>p, <1>c DEF IInv, Types
<1>2. Rows'
  <2>1. \A u \in Units : UnitGood(u)'
    BY <1>0 DEF IInv, Rows, UnitGood
  <2>2. ASSUME NEW q \in Payments
        PROVE  PaymentGood(q)'
    BY <1>0, <1>p, NoCheckAssumption DEF IInv, Rows, PaymentGood
  <2>3. ASSUME NEW r \in Refunds
        PROVE  RefundGood(r)'
    <3>1. RefundGood(r) /\ RefundAmount'[r] = RefundAmount[r]
      BY <1>0, SameRefunds DEF IInv, Rows
    <3>2. \A q \in Payments : refund[r].from[q] > 0 =>
             payment'[q].on = refund[r].on /\ ~payment'[q].voided
      BY <1>0, <1>p, <3>1 DEF RefundGood
    <3> QED BY <1>0, <3>1, <3>2 DEF RefundGood
  <2>4. ASSUME NEW j \in Checks
        PROVE  AbsentGood(j)'
    <3>1. \A q \in Payments : payment'[q].on = payment[q].on
      BY <1>k, <1>p
    <3> QED BY <1>0, <1>c, <3>1 DEF IInv, Rows, AbsentGood
  <2> QED BY <2>1, <2>2, <2>3, <2>4 DEF Rows
<1>3. Sources'
  <2>1. \A q \in Payments : payment'[q].amount = payment[q].amount
    BY <1>k, <1>p
  <2> QED BY <1>0, <2>1, SameRefunds DEF IInv, Sources
<1>4. ValidPaid(k)' = ValidPaid(k) - a
  <2> DEFINE S == PaidOn(k)
             f == PaidAmount
             g == PaidAmount'
  <2>1. PaidOn(k)' = S \ {p} /\ p \in S /\ S \in SUBSET Payments
    BY <1>0, <1>k, <1>p DEF PaidOn
  <2>2. IsFiniteSet(S) /\ IsFiniteSet(S \ {p})
    BY <2>1, Finite
  <2>3. \A q \in S \ {p} : f[q] = g[q]
    BY <1>p, <2>1 DEF PaidAmount
  <2>4. f[p] = a /\ \A q \in S : f[q] \in Int
    BY <1>0, <1>k, <2>1 DEF PaidAmount, PaymentRow
  <2>5. ValidPaid(k)' = Total(g, PaidOn(k)') /\ ValidPaid(k) = Total(f, S)
    BY DEF ValidPaid
  <2> HIDE DEF S, f, g
  <2>6. Total(f, S) = f[p] + Total(f, S \ {p})
    BY <2>1, <2>2, <2>4, TotalRemove
  <2>7. Total(f, S \ {p}) = Total(g, S \ {p}) /\ Total(f, S \ {p}) \in Int
    BY <2>2, <2>3, <2>4, TotalCongruence, TotalInt
  <2> QED BY <1>0, <2>1, <2>4, <2>5, <2>6, <2>7
<1>5. ASSUME NEW j \in Checks \ {k}
      PROVE  ValidPaid(j)' = ValidPaid(j)
  <2> DEFINE S == PaidOn(j)
             f == PaidAmount
             g == PaidAmount'
  <2>1. PaidOn(j)' = S /\ IsFiniteSet(S) /\ \A q \in S : f[q] = g[q]
    BY <1>0, <1>k, <1>p, Finite DEF PaidOn, PaidAmount
  <2>2. ValidPaid(j)' = Total(g, PaidOn(j)') /\ ValidPaid(j) = Total(f, S)
    BY DEF ValidPaid
  <2> HIDE DEF S, f, g
  <2> QED BY <2>1, <2>2, TotalCongruence
<1>6. ASSUME NEW j \in Checks
      PROVE  /\ ChargedTo(j)' = ChargedTo(j)
             /\ Adjusted(j, "LIVE_CHECK")' = Adjusted(j, "LIVE_CHECK")
             /\ Returned(j, "LIVE_CHECK")' = Returned(j, "LIVE_CHECK")
             /\ check'[j].charge = check[j].charge
  BY <1>0, <1>c, SameRefunds DEF ChargedTo, Adjusted, Scopes
<1>7. ChargeMatchesFacts'
  BY <1>6 DEF IInv, ChargeMatchesFacts, Prices
<1>8. /\ ValidPaid(k) \in Nat /\ check[k].charge \in Nat /\ EffectiveReceived(k) \in Nat
      /\ Returned(k, "LIVE_CHECK") \in Nat /\ Prices(ChargedTo(k)) \in Nat
      /\ ValidPaid(k) <= Prices(ChargedTo(k))
  BY <1>0, Receipt DEF IInv, Bounded, Scopes
<1>9. Bounded'
  <2>1. ValidPaid(k)' <= Prices(ChargedTo(k))
    BY <1>0, <1>4, <1>8
  <2> QED BY <1>5, <1>6, <2>1 DEF IInv, Bounded, Prices
<1>e. EffectiveReceived(k)' = receipt
  BY <1>0, <1>4, <1>6, <1>8 DEF EffectiveReceived, receipt
<1>10. SettledIffCovered'
  <2>2. Balance(k)' = Monus(check[k].charge, receipt)
    BY <1>0, <1>6, <1>e DEF Balance, BalanceAt
  <2>3. /\ receipt \in Int /\ receipt <= EffectiveReceived(k)
        /\ check[k].state = "OPEN" => check[k].charge > EffectiveReceived(k)
    BY <1>0, <1>8 DEF receipt, IInv, SettledIffCovered, Balance, BalanceAt, Monus
  <2>4. \A j \in Checks \ {k} : Balance(j)' = Balance(j)
    BY <1>5, <1>6 DEF Balance, BalanceAt, EffectiveReceived
  <2>5. /\ check'[k].state = "OPEN" => Balance(k)' > 0
        /\ check'[k].state = "SETTLED" => Balance(k)' = 0
    BY <1>0, <1>8, <1>c, <2>2, <2>3 DEF Monus
  <2> QED BY <1>c, <2>4, <2>5 DEF IInv, SettledIffCovered
<1>11. Ended'
  BY <1>0 DEF Ended
<1>12. MovesMoney(k, 0, 0 - a, 0)
  <2>1. \A j \in Checks :
           /\ Reserved(j, "LIVE_CHECK")' = Reserved(j, "LIVE_CHECK")
           /\ Reserved(j, "LIVE_CHECK") \in Nat
    BY <1>0, SameRefunds, Receipt DEF IInv, Scopes
  <2>2. \A j \in Checks \ {k} : EffectiveReceived(j)' = EffectiveReceived(j)
    BY <1>5, <1>6 DEF EffectiveReceived
  <2>3. EffectiveReceived(k)' = EffectiveReceived(k) + (0 - a)
    BY <1>8, <1>e DEF receipt
  <2> QED BY <1>0, <1>6, <1>8, <2>1, <2>2, <2>3 DEF MovesMoney
<1>13. IInv'
  BY <1>1, <1>2, <1>3, <1>7, <1>9, <1>10, <1>11 DEF IInv
<1> QED BY <1>12, <1>13

-----------------------------------------------------------------------------
(* The Session's end.                                                      *)

\* A Session closes only square.
LEMMA CloseKeeps ==
  ASSUME IInv, CloseSession
  PROVE  IInv'
<1>0. /\ session = "ACTIVE" /\ session' = "CLOSED"
      /\ UNCHANGED <<mode, check, unit, payment, refund>>
  BY DEF CloseSession
<1>1. Types'
  BY <1>0 DEF IInv, Types
<1>2. Rows'
  <2>1. \A r \in Refunds : RefundGood(r)'
    <3>1. RefundAmount' = RefundAmount
      BY <1>0, SameRefunds
    <3> QED BY <1>0, <3>1 DEF IInv, Rows, RefundGood
  <2> QED BY <1>0, <2>1 DEF IInv, Rows, UnitGood, PaymentGood, AbsentGood
<1>3. Sources'
  BY <1>0, SameRefunds DEF IInv, Sources
<1>4. ChargeMatchesFacts' /\ Bounded'
  BY <1>0, SameUnits, SamePayments DEF IInv, ChargeMatchesFacts, Bounded, Prices, Scopes
<1>5. SettledIffCovered'
  BY <1>0, SameReceipt DEF IInv, SettledIffCovered, Balance, BalanceAt
<1>6. Ended'
  <2>1. ASSUME NEW k \in Checks
        PROVE  /\ EffectiveReceived(k) = check[k].charge
               /\ check[k].state \in {"ABSENT", "SETTLED"}
    <3>1. check[k].state \in {"ABSENT", "SETTLED"} /\ Obligation(k) = 0
      BY DEF CloseSession, ClosureReady
    <3>2. EffectiveReceived(k) \in Nat /\ check[k].charge \in Nat
      BY Receipt DEF IInv
    <3>3. EffectiveReceived(k) <= check[k].charge
      BY <3>1, <3>2 DEF Obligation, Monus
    <3>4. check[k].charge <= EffectiveReceived(k)
      <4>1. CASE check[k].state = "ABSENT"
        BY <3>2, <4>1 DEF IInv, Rows, AbsentGood
      <4>2. CASE check[k].state = "SETTLED"
        BY <3>2, <4>2 DEF IInv, SettledIffCovered, Balance, BalanceAt, Monus
      <4> QED BY <3>1, <4>1, <4>2
    <3> QED BY <3>1, <3>2, <3>3, <3>4
  <2>2. \A u \in Units : unit[u].work \in {"NEW", "FULFILLED", "CANCELLED", "WASTED"}
    BY DEF CloseSession, ClosureReady
  <2> QED BY <1>0, <2>1, <2>2, SameReceipt DEF Ended
<1> QED BY <1>1, <1>2, <1>3, <1>4, <1>5, <1>6 DEF IInv

\* A Session is abandoned only empty: receipts that are not negative and add up
\* to zero are all zero.
LEMMA AbandonKeeps ==
  ASSUME IInv, AbandonCheckout
  PROVE  IInv'
<1>0. /\ session = "ACTIVE" /\ session' = "ABANDONED"
      /\ UNCHANGED <<mode, unit, payment, refund>>
      /\ check \in [Checks -> CheckRow]
  BY DEF AbandonCheckout, IInv, Types
<1>c. /\ check' \in [Checks -> CheckRow]
      /\ \A k \in Checks : /\ check'[k].charge = check[k].charge
                           /\ check'[k].state \in {"ABSENT", "ABANDONED"}
                           /\ check'[k].state = "ABSENT" => check[k].state = "ABSENT"
  <2>1. check' = [k \in Checks |-> IF check[k].state = "ABSENT" THEN check[k]
                                   ELSE [check[k] EXCEPT !.state = "ABANDONED"]]
    BY DEF AbandonCheckout
  <2> QED BY <1>0, <2>1 DEF CheckRow
<1>1. Types'
  BY <1>0, <1>c DEF IInv, Types
<1>2. Rows'
  <2>1. \A r \in Refunds : RefundGood(r)'
    <3>1. RefundAmount' = RefundAmount
      BY <1>0, SameRefunds
    <3> QED BY <1>0, <3>1 DEF IInv, Rows, RefundGood
  <2>2. \A u \in Units : UnitGood(u)'
    BY <1>0 DEF IInv, Rows, UnitGood
  <2>3. \A k \in Checks : AbsentGood(k)'
    BY <1>0, <1>c DEF IInv, Rows, AbsentGood
  <2> QED BY <1>0, <2>1, <2>2, <2>3 DEF IInv, Rows, PaymentGood
<1>3. Sources'
  BY <1>0, SameRefunds DEF IInv, Sources
<1>4. ChargeMatchesFacts' /\ Bounded'
  BY <1>0, <1>c, SameUnits, SamePayments DEF IInv, ChargeMatchesFacts, Bounded, Prices, Scopes
<1>5. SettledIffCovered'
  BY <1>c DEF SettledIffCovered
<1>6. Ended'
  <2>1. ASSUME NEW k \in Checks
        PROVE  EffectiveReceived(k) = 0
    <3> DEFINE f == [j \in Checks |-> EffectiveReceived(j)]
    <3>1. \A j \in Checks : f[j] \in Nat
      BY Receipt DEF IInv
    <3>2. Total(f, Checks) = 0
      BY DEF AbandonCheckout
    <3>3. f[k] = EffectiveReceived(k)
      OBVIOUS
    <3> HIDE DEF f
    <3>4. f[k] <= Total(f, Checks)
      BY <3>1, FiniteAssumption, TotalTerm
    <3> QED BY <3>1, <3>2, <3>3, <3>4
  <2>2. /\ \A r \in Refunds : refund[r].on # NoCheck => refund[r].completed
        /\ \A u \in Units : unit[u].work \notin Ordered
    BY DEF AbandonCheckout, HasOrder
  <2> QED BY <1>0, <2>1, <2>2, SameReceipt DEF Ended
<1> QED BY <1>1, <1>2, <1>3, <1>4, <1>5, <1>6 DEF IInv

-----------------------------------------------------------------------------
(* Refunds.                                                                *)

\* A Refund that completes adds its amount to what its Check returned, live, and
\* nothing else changes there.
LEMMA ReturnedStep ==
  ASSUME Types, Types', NEW r \in Refunds, NEW k \in Checks,
         refund[r].on = NoCheck \/ ~refund[r].completed,
         \A q \in Refunds \ {r} : refund'[q] = refund[q]
  PROVE  Returned(k, "LIVE_CHECK")'
           = Returned(k, "LIVE_CHECK")
               + (IF /\ refund'[r].on = k /\ refund'[r].scope = "LIVE_CHECK"
                     /\ refund'[r].completed
                  THEN RefundAmount'[r] ELSE 0)
<1> DEFINE S == {q \in RefundsOn(k, "LIVE_CHECK") : refund[q].completed}
           f == RefundAmount
           g == RefundAmount'
           counts == /\ refund'[r].on = k /\ refund'[r].scope = "LIVE_CHECK"
                     /\ refund'[r].completed
<1>0. k # NoCheck
  BY NoCheckAssumption
<1>1. r \notin S /\ S \in SUBSET Refunds /\ IsFiniteSet(S)
  BY <1>0, Finite DEF RefundsOn
<1>2. {q \in RefundsOn(k, "LIVE_CHECK") : refund[q].completed}' = IF counts THEN S \cup {r} ELSE S
  BY <1>1 DEF RefundsOn
<1>3. f \in [Refunds -> Nat] /\ g \in [Refunds -> Nat]
  <2>1. f \in [Refunds -> Nat]
    BY AmountTypes
  <2>2. \A q \in Refunds, p \in Payments : refund'[q].from[p] \in Nat
    BY DEF Types, RefundRow
  <2>3. \A q \in Refunds : Total(refund'[q].from, Payments) \in Nat
    <3> TAKE q \in Refunds
    <3>1. \A p \in Payments : refund'[q].from[p] \in Nat
      BY <2>2
    <3> QED BY <3>1, Finite, TotalNat
  <2> QED BY <2>1, <2>3 DEF RefundAmount
<1>4. \A q \in S : f[q] = g[q]
  BY <1>1 DEF RefundAmount
<1>5. /\ Returned(k, "LIVE_CHECK") = Total(f, S)
      /\ Returned(k, "LIVE_CHECK")' = Total(g, IF counts THEN S \cup {r} ELSE S)
  BY <1>2 DEF Returned
<1> HIDE DEF S, f, g, counts
<1>6. Total(f, S) = Total(g, S)
  BY <1>1, <1>4, TotalCongruence
<1>7. \A q \in S \cup {r} : g[q] \in Int
  BY <1>1, <1>3
<1>8. Total(g, S \cup {r}) = g[r] + Total(g, S)
  BY <1>1, <1>7, TotalAdd
<1>9. Total(g, S) \in Int /\ g[r] \in Int
  BY <1>1, <1>7, TotalInt
<1>10. Returned(k, "LIVE_CHECK")' = Returned(k, "LIVE_CHECK") + IF counts THEN g[r] ELSE 0
  BY <1>5, <1>6, <1>8, <1>9
<1> QED BY <1>10 DEF counts, g

Pending(k) == {r \in RefundsOn(k, "LIVE_CHECK") : ~refund[r].completed}

\* A Refund reserves its amount on its Check from when it is recorded until it is
\* confirmed.
LEMMA ReservedStep ==
  ASSUME Types, Types', NEW r \in Refunds, NEW k \in Checks,
         \A q \in Refunds \ {r} : refund'[q] = refund[q]
  PROVE  Reserved(k, "LIVE_CHECK")'
           = Reserved(k, "LIVE_CHECK") - (IF r \in Pending(k) THEN RefundAmount[r] ELSE 0)
               + (IF r \in Pending(k)' THEN RefundAmount'[r] ELSE 0)
<1> DEFINE S == Pending(k)
           T == Pending(k)'
           f == RefundAmount
           g == RefundAmount'
<1>1. S \in SUBSET Refunds /\ T \in SUBSET Refunds /\ S \ {r} = T \ {r}
  BY DEF Pending, RefundsOn
<1>2. IsFiniteSet(S) /\ IsFiniteSet(T) /\ IsFiniteSet(S \ {r})
  BY <1>1, Finite
<1>3. \A q \in Refunds : f[q] \in Int /\ g[q] \in Int
  <2>1. f \in [Refunds -> Nat]
    BY AmountTypes
  <2>2. \A q \in Refunds, p \in Payments : refund'[q].from[p] \in Nat
    BY DEF Types, RefundRow
  <2>3. \A q \in Refunds : Total(refund'[q].from, Payments) \in Nat
    <3> TAKE q \in Refunds
    <3>1. \A p \in Payments : refund'[q].from[p] \in Nat
      BY <2>2
    <3> QED BY <3>1, Finite, TotalNat
  <2> QED BY <2>1, <2>3 DEF RefundAmount
<1>4. \A q \in S \ {r} : f[q] = g[q]
  BY <1>1 DEF RefundAmount
<1>5. Reserved(k, "LIVE_CHECK") = Total(f, S) /\ Reserved(k, "LIVE_CHECK")' = Total(g, T)
  BY DEF Reserved, Pending
<1> HIDE DEF S, T, f, g
<1>6. Total(f, S \ {r}) = Total(g, T \ {r}) /\ Total(f, S \ {r}) \in Int
  <2>1. Total(f, S \ {r}) = Total(g, S \ {r})
    BY <1>2, <1>4, TotalCongruence
  <2>2. \A q \in S \ {r} : f[q] \in Int
    BY <1>1, <1>3
  <2>3. Total(f, S \ {r}) \in Int
    BY <1>2, <2>2, TotalInt
  <2> QED BY <1>1, <2>1, <2>3
<1>7. Total(f, S) = Total(f, S \ {r}) + (IF r \in S THEN f[r] ELSE 0)
  <2>1. CASE r \in S
    <3>1. \A q \in S : f[q] \in Int
      BY <1>1, <1>3
    <3>2. Total(f, S) = f[r] + Total(f, S \ {r})
      BY <1>2, <2>1, <3>1, TotalRemove
    <3>3. Total(f, S \ {r}) \in Int /\ f[r] \in Int
      BY <1>3, <1>6
    <3> QED BY <2>1, <3>2, <3>3
  <2>2. CASE r \notin S
    <3>1. S \ {r} = S
      BY <2>2
    <3>2. Total(f, S \ {r}) = Total(f, S)
      BY <3>1
    <3> QED BY <1>6, <2>2, <3>2
  <2> QED BY <2>1, <2>2
<1>8. Total(g, T) = Total(g, T \ {r}) + (IF r \in T THEN g[r] ELSE 0)
  <2>1. CASE r \in T
    <3>1. \A q \in T : g[q] \in Int
      BY <1>1, <1>3
    <3>2. Total(g, T) = g[r] + Total(g, T \ {r})
      BY <1>2, <2>1, <3>1, TotalRemove
    <3>3. Total(g, T \ {r}) \in Int /\ g[r] \in Int
      BY <1>3, <1>6
    <3> QED BY <2>1, <3>2, <3>3
  <2>2. CASE r \notin T
    <3>1. T \ {r} = T
      BY <2>2
    <3>2. Total(g, T \ {r}) = Total(g, T)
      BY <3>1
    <3> QED BY <1>6, <2>2, <3>2
  <2> QED BY <2>1, <2>2
<1>9. f[r] \in Int /\ g[r] \in Int
  BY <1>3
<1>10. Reserved(k, "LIVE_CHECK")'
         = Reserved(k, "LIVE_CHECK") - (IF r \in S THEN f[r] ELSE 0)
             + (IF r \in T THEN g[r] ELSE 0)
  BY <1>5, <1>6, <1>7, <1>8, <1>9
<1> QED BY <1>10 DEF S, T, f, g

\* Money that goes back out of a live Check's surplus changes nothing but the
\* receipt of that Check, which still covers it.
LEMMA RefundStepKeeps ==
  ASSUME IInv, Types', Rows', Sources', session # "ABANDONED",
         UNCHANGED <<mode, session, check, unit, payment>>,
         \A k \in Checks :
            \/ EffectiveReceived(k)' = EffectiveReceived(k)
            \/ /\ session = "ACTIVE" /\ EffectiveReceived(k)' \in Int
               /\ EffectiveReceived(k) >= check[k].charge
               /\ EffectiveReceived(k)' >= check[k].charge
  PROVE  IInv'
<1>1. ChargeMatchesFacts' /\ Bounded'
  BY SameUnits, SamePayments DEF IInv, ChargeMatchesFacts, Bounded, Prices, Scopes
<1>2. SettledIffCovered'
  <2>1. ASSUME NEW k \in Checks
        PROVE  /\ check'[k].state = "OPEN" => Balance(k)' > 0
               /\ check'[k].state = "SETTLED" => Balance(k)' = 0
    <3>1. /\ check[k].state = "OPEN" => Balance(k) > 0
          /\ check[k].state = "SETTLED" => Balance(k) = 0
      BY DEF IInv, SettledIffCovered
    <3>2. check[k].charge \in Nat /\ EffectiveReceived(k) \in Nat
      BY Receipt DEF IInv
    <3>3. CASE EffectiveReceived(k)' = EffectiveReceived(k)
      BY <3>1, <3>3 DEF Balance, BalanceAt
    <3>4. CASE /\ EffectiveReceived(k)' \in Int
               /\ EffectiveReceived(k) >= check[k].charge
               /\ EffectiveReceived(k)' >= check[k].charge
      <4>1. Balance(k) = 0 /\ Balance(k)' = 0
        BY <3>2, <3>4 DEF Balance, BalanceAt, Monus
      <4> QED BY <3>1, <4>1
    <3> QED BY <3>3, <3>4
  <2> QED BY <2>1 DEF SettledIffCovered
<1>3. Ended'
  BY DEF IInv, Ended
<1> QED BY <1>1, <1>2, <1>3 DEF IInv

\* Within the headroom, a source keeps what it promised and a Check its cover.
LEMMA RefundKeeps ==
  ASSUME IInv, NEW k \in Checks, NEW r \in Refunds, NEW m \in Methods, RecordRefund(k, r, m)
  PROVE  /\ IInv'
         /\ session = "ACTIVE" =>
               \E a \in Nat \ {0} :
                  /\ a <= Obligation(k)
                  /\ MovesMoney(k, 0, 0 - a, 0) \/ MovesMoney(k, 0, 0, a)
         /\ session # "ACTIVE" => MoneyStays
<1>1. PICK a \in Allocations(k, m) :
         refund' = [refund EXCEPT
                       ![r] = [on |-> k, method |-> m, scope |-> RefundScope,
                               completed |-> m = "CASH",
                               from |-> a.from, against |-> a.against]]
  BY DEF RecordRefund
<1>0. /\ session \in {"ACTIVE", "CLOSED"} /\ check[k].state \in {"OPEN", "SETTLED"}
      /\ refund[r] = NoRefund /\ refund \in [Refunds -> RefundRow]
      /\ UNCHANGED <<mode, session, check, unit, payment>>
      /\ k # NoCheck /\ RefundScope \in Scopes
      /\ session = "ACTIVE" => RefundScope = "LIVE_CHECK"
      /\ session = "CLOSED" => RefundScope = "POST_SALE"
  BY NoCheckAssumption DEF RecordRefund, IInv, Types, RefundScope, Scopes
<1> DEFINE amount == Total(a.from, Payments)
<1>2. /\ a.from \in [Payments -> Nat] /\ a.against \in [Units -> Nat]
      /\ \A p \in Payments : a.from[p] > 0 =>
            p \in RefundablePayments(k, m) /\ a.from[p] <= PaymentCapacity[p]
      /\ \A u \in Units : a.against[u] > 0 =>
            u \in RefundableUnits(k) /\ a.against[u] <= AdjustmentCapacity[u]
      /\ amount = Total(a.against, Units)
      /\ amount \in Int /\ amount > 0 /\ amount <= Headroom(k)
  <2> DEFINE room == Headroom(k)
  <2>1. /\ a.from \in [Payments -> 0 .. room] /\ a.against \in [Units -> 0 .. room]
        /\ \A p \in Payments : a.from[p] > 0 =>
              p \in RefundablePayments(k, m) /\ a.from[p] <= PaymentCapacity[p]
        /\ \A u \in Units : a.against[u] > 0 =>
              u \in RefundableUnits(k) /\ a.against[u] <= AdjustmentCapacity[u]
        /\ amount = Total(a.against, Units)
        /\ amount \in 1 .. room
    BY DEF Allocations
  <2> HIDE DEF room
  <2>2. \A i \in 0 .. room : i \in Nat
    OBVIOUS
  <2>3. a.from \in [Payments -> Nat] /\ a.against \in [Units -> Nat]
    BY <2>1, <2>2
  <2> HIDE DEF amount
  <2>4. amount \in Int /\ amount > 0 /\ amount <= room
    BY <2>1
  <2> QED BY <2>1, <2>3, <2>4 DEF room, amount
<1>r. /\ refund' \in [Refunds -> RefundRow]
      /\ refund'[r].on = k /\ refund'[r].scope = RefundScope /\ refund'[r].completed = (m = "CASH")
      /\ refund'[r].from = a.from /\ refund'[r].against = a.against
      /\ \A q \in Refunds \ {r} : refund'[q] = refund[q]
  <2> DEFINE row == [on |-> k, method |-> m, scope |-> RefundScope, completed |-> m = "CASH",
                     from |-> a.from, against |-> a.against]
  <2>1. row \in RefundRow
    BY <1>0, <1>2 DEF RefundRow
  <2>2. refund' = [refund EXCEPT ![r] = row]
    BY <1>1
  <2>3. refund'[r] = row
    BY <1>0, <2>2
  <2> QED BY <1>0, <2>1, <2>2, <2>3
<1>3. Types'
  BY <1>0, <1>r DEF IInv, Types
<1>4. RefundAmount'[r] = amount /\ \A q \in Refunds \ {r} : RefundAmount'[q] = RefundAmount[q]
  BY <1>r DEF RefundAmount
<1>5. Rows'
  <2>1. ASSUME NEW q \in Refunds
        PROVE  RefundGood(q)'
    <3>1. CASE q # r
      BY <1>0, <1>r, <1>4, <3>1 DEF IInv, Rows, RefundGood
    <3>2. CASE q = r
      <4>1. \A p \in Payments : a.from[p] > 0 => payment[p].on = k /\ ~payment[p].voided
        BY <1>2 DEF RefundablePayments, PaidOn
      <4>2. \A u \in Units : a.against[u] > 0 => unit[u].at = k /\ unit[u].adjusted = RefundScope
        BY <1>2 DEF RefundableUnits, Adjusted, ChargedTo
      <4>3. refund'[r].scope = "POST_SALE" => session = "CLOSED"
        BY <1>0, <1>r
      <4> QED BY <1>0, <1>2, <1>4, <1>r, <3>2, <4>1, <4>2, <4>3 DEF RefundGood
    <3> QED BY <3>1, <3>2
  <2>2. \A j \in Checks : AbsentGood(j)'
    BY <1>0, <1>r DEF IInv, Rows, AbsentGood
  <2> QED BY <1>0, <2>1, <2>2 DEF IInv, Rows, UnitGood, PaymentGood
<1>6. Sources'
  <2>1. ASSUME NEW p \in Payments
        PROVE  DrawnFrom(p)' <= payment'[p].amount
    <3> DEFINE f == [q \in Refunds |-> refund[q].from[p]]
               g == [q \in Refunds |-> refund'[q].from[p]]
    <3>1. \A q \in Refunds : f[q] \in Int /\ g[q] \in Int
      BY <1>0, <1>r DEF RefundRow
    <3>2. \A q \in Refunds \ {r} : g[q] = f[q]
      BY <1>r
    <3>3. f[r] = 0 /\ g[r] = a.from[p] /\ a.from[p] \in Nat
      BY <1>0, <1>r, <1>2 DEF NoRefund
    <3>4. DrawnFrom(p) = Total(f, Refunds) /\ DrawnFrom(p)' = Total(g, Refunds)
      BY DEF DrawnFrom
    <3> HIDE DEF f, g
    <3>5. Total(g, Refunds) = Total(f, Refunds) + (g[r] - f[r])
      BY <3>1, <3>2, FiniteAssumption, TotalUpdate
    <3>6. /\ DrawnFrom(p) \in Nat /\ payment[p].amount \in Nat /\ payment' = payment
          /\ DrawnFrom(p) <= payment[p].amount
          /\ PaymentCapacity[p] = payment[p].amount - DrawnFrom(p)
      BY <1>0, AmountTypes DEF IInv, Types, PaymentRow, Sources, PaymentCapacity
    <3>7. a.from[p] > 0 => a.from[p] <= PaymentCapacity[p]
      BY <1>2
    <3>8. DrawnFrom(p)' = DrawnFrom(p) + a.from[p]
      BY <3>3, <3>4, <3>5, <3>6
    <3>9. DrawnFrom(p)' <= payment[p].amount
      BY <3>3, <3>6, <3>7, <3>8
    <3> QED BY <3>6, <3>9
  <2>2. ASSUME NEW u \in Units
        PROVE  DrawnAgainst(u)' <= Price[u]
    <3> DEFINE f == [q \in Refunds |-> refund[q].against[u]]
               g == [q \in Refunds |-> refund'[q].against[u]]
    <3>1. \A q \in Refunds : f[q] \in Int /\ g[q] \in Int
      BY <1>0, <1>r DEF RefundRow
    <3>2. \A q \in Refunds \ {r} : g[q] = f[q]
      BY <1>r
    <3>3. f[r] = 0 /\ g[r] = a.against[u] /\ a.against[u] \in Nat
      BY <1>0, <1>r, <1>2 DEF NoRefund
    <3>4. DrawnAgainst(u) = Total(f, Refunds) /\ DrawnAgainst(u)' = Total(g, Refunds)
      BY DEF DrawnAgainst
    <3> HIDE DEF f, g
    <3>5. Total(g, Refunds) = Total(f, Refunds) + (g[r] - f[r])
      BY <3>1, <3>2, FiniteAssumption, TotalUpdate
    <3>6. /\ DrawnAgainst(u) \in Nat /\ Price[u] \in Nat
          /\ DrawnAgainst(u) <= Price[u]
          /\ AdjustmentCapacity[u] = Price[u] - DrawnAgainst(u)
      BY PriceAssumption, AmountTypes DEF IInv, Sources, AdjustmentCapacity
    <3>7. a.against[u] > 0 => a.against[u] <= AdjustmentCapacity[u]
      BY <1>2
    <3>8. DrawnAgainst(u)' = DrawnAgainst(u) + a.against[u]
      BY <3>3, <3>4, <3>5, <3>6
    <3> QED BY <3>3, <3>6, <3>7, <3>8
  <2> QED BY <2>1, <2>2 DEF Sources
<1> HIDE DEF amount
<1>7. ASSUME NEW j \in Checks
      PROVE  \/ EffectiveReceived(j)' = EffectiveReceived(j)
             \/ /\ session = "ACTIVE" /\ EffectiveReceived(j)' \in Int
                /\ EffectiveReceived(j) >= check[j].charge
                /\ EffectiveReceived(j)' >= check[j].charge
  <2>1. Returned(j, "LIVE_CHECK")'
          = Returned(j, "LIVE_CHECK")
              + (IF k = j /\ RefundScope = "LIVE_CHECK" /\ m = "CASH" THEN amount ELSE 0)
    <3>1. refund[r].on = NoCheck /\ Types
      BY <1>0 DEF NoRefund, IInv
    <3> QED BY <1>3, <1>4, <1>r, <3>1, ReturnedStep
  <2>2. /\ ValidPaid(j)' = ValidPaid(j) /\ ValidPaid(j) \in Nat
        /\ Returned(j, "LIVE_CHECK") \in Nat /\ Reserved(j, "LIVE_CHECK") \in Nat
        /\ check[j].charge \in Nat /\ EffectiveReceived(j) \in Nat
        /\ EffectiveReceived(j) = ValidPaid(j) - Returned(j, "LIVE_CHECK")
        /\ EffectiveReceived(j)' = ValidPaid(j)' - Returned(j, "LIVE_CHECK")'
    BY <1>0, SamePayments, Receipt DEF IInv, EffectiveReceived, Scopes
  <2>3. CASE k = j /\ RefundScope = "LIVE_CHECK" /\ m = "CASH"
    <3>1. session = "ACTIVE"
      BY <1>0, <2>3
    <3>2. Headroom(j) = Monus(Monus(EffectiveReceived(j), check[j].charge),
                              Reserved(j, "LIVE_CHECK"))
      BY <3>1 DEF Headroom, Obligation
    <3>3. EffectiveReceived(j)' = EffectiveReceived(j) - amount
      BY <1>2, <2>1, <2>2, <2>3 DEF amount
    <3>4. amount \in Int /\ amount > 0 /\ amount <= Headroom(j)
      BY <1>2, <2>3 DEF amount
    <3> QED BY <2>2, <3>1, <3>2, <3>3, <3>4 DEF Monus
  <2>4. CASE ~(k = j /\ RefundScope = "LIVE_CHECK" /\ m = "CASH")
    BY <2>1, <2>2, <2>4
  <2> QED BY <2>3, <2>4
<1>8. session # "ABANDONED" /\ UNCHANGED <<mode, session, check, unit, payment>>
  BY <1>0
<1>9. IInv'
  BY <1>3, <1>5, <1>6, <1>7, <1>8, RefundStepKeeps
<1>10. ASSUME NEW j \in Checks
       PROVE  /\ Returned(j, "LIVE_CHECK")'
                   = Returned(j, "LIVE_CHECK")
                       + (IF k = j /\ RefundScope = "LIVE_CHECK" /\ m = "CASH" THEN amount ELSE 0)
              /\ Reserved(j, "LIVE_CHECK")'
                   = Reserved(j, "LIVE_CHECK")
                       + (IF k = j /\ RefundScope = "LIVE_CHECK" /\ m # "CASH" THEN amount ELSE 0)
              /\ ValidPaid(j)' = ValidPaid(j) /\ ValidPaid(j) \in Nat
              /\ Returned(j, "LIVE_CHECK") \in Nat /\ Reserved(j, "LIVE_CHECK") \in Nat
              /\ EffectiveReceived(j) \in Nat /\ check[j].charge \in Nat
  <2>1. refund[r].on = NoCheck /\ Types /\ j # NoCheck
    BY <1>0, NoCheckAssumption DEF NoRefund, IInv
  <2>2. Returned(j, "LIVE_CHECK")'
          = Returned(j, "LIVE_CHECK")
              + (IF k = j /\ RefundScope = "LIVE_CHECK" /\ m = "CASH" THEN amount ELSE 0)
    BY <1>3, <1>4, <1>r, <2>1, ReturnedStep
  <2>3. r \notin Pending(j)
    BY <2>1 DEF Pending, RefundsOn
  <2>4. r \in Pending(j)' <=> k = j /\ RefundScope = "LIVE_CHECK" /\ m # "CASH"
    BY <1>r DEF Pending, RefundsOn
  <2>5. Reserved(j, "LIVE_CHECK")'
          = Reserved(j, "LIVE_CHECK") - (IF r \in Pending(j) THEN RefundAmount[r] ELSE 0)
              + (IF r \in Pending(j)' THEN RefundAmount'[r] ELSE 0)
    BY <1>3, <1>r, <2>1, ReservedStep
  <2>6. /\ ValidPaid(j)' = ValidPaid(j) /\ ValidPaid(j) \in Nat
        /\ Returned(j, "LIVE_CHECK") \in Nat /\ Reserved(j, "LIVE_CHECK") \in Nat
        /\ EffectiveReceived(j) \in Nat /\ check[j].charge \in Nat
    BY <1>0, SamePayments, Receipt DEF IInv, Scopes
  <2> QED BY <1>4, <2>2, <2>3, <2>4, <2>5, <2>6
<1>11. amount \in Nat \ {0} /\ amount <= Headroom(k)
  BY <1>2 DEF amount
<1>12. ASSUME session = "ACTIVE"
       PROVE  /\ amount <= Obligation(k)
              /\ MovesMoney(k, 0, 0 - amount, 0) \/ MovesMoney(k, 0, 0, amount)
  <2>1. RefundScope = "LIVE_CHECK" /\ Headroom(k) = Monus(Obligation(k), Reserved(k, "LIVE_CHECK"))
    BY <1>0, <1>12 DEF Headroom
  <2>2. Obligation(k) \in Nat /\ Reserved(k, "LIVE_CHECK") \in Nat
    BY <1>10 DEF Obligation, Monus
  <2>3. amount <= Obligation(k)
    BY <1>11, <2>1, <2>2 DEF Monus
  <2>4. session' = "ACTIVE" /\ \A j \in Checks : check'[j].charge = check[j].charge
    BY <1>0, <1>12
  <2>5. CASE m = "CASH"
    <3>1. ASSUME NEW j \in Checks
          PROVE  /\ EffectiveReceived(j)'
                      = EffectiveReceived(j) + (IF j = k THEN 0 - amount ELSE 0)
                 /\ Reserved(j, "LIVE_CHECK")' = Reserved(j, "LIVE_CHECK") + 0
                 /\ check'[j].charge = check[j].charge + 0
                 /\ Reserved(j, "LIVE_CHECK")' = Reserved(j, "LIVE_CHECK")
                 /\ j # k => EffectiveReceived(j)' = EffectiveReceived(j)
      BY <1>10, <1>11, <2>1, <2>4, <2>5 DEF EffectiveReceived
    <3>2. /\ EffectiveReceived(k)' = EffectiveReceived(k) + (0 - amount)
          /\ Reserved(k, "LIVE_CHECK")' = Reserved(k, "LIVE_CHECK") + 0
          /\ check'[k].charge = check[k].charge + 0
      BY <3>1
    <3>3. MovesMoney(k, 0, 0 - amount, 0)
      BY <1>12, <2>4, <3>1, <3>2 DEF MovesMoney
    <3> QED BY <2>3, <3>3
  <2>6. CASE m # "CASH"
    <3>1. ASSUME NEW j \in Checks
          PROVE  /\ EffectiveReceived(j)' = EffectiveReceived(j) + 0
                 /\ Reserved(j, "LIVE_CHECK")'
                      = Reserved(j, "LIVE_CHECK") + (IF j = k THEN amount ELSE 0)
                 /\ check'[j].charge = check[j].charge + 0
                 /\ EffectiveReceived(j)' = EffectiveReceived(j)
                 /\ j # k => Reserved(j, "LIVE_CHECK")' = Reserved(j, "LIVE_CHECK")
      BY <1>10, <1>11, <2>1, <2>4, <2>6 DEF EffectiveReceived
    <3>2. /\ EffectiveReceived(k)' = EffectiveReceived(k) + 0
          /\ Reserved(k, "LIVE_CHECK")' = Reserved(k, "LIVE_CHECK") + amount
          /\ check'[k].charge = check[k].charge + 0
      BY <3>1
    <3>3. MovesMoney(k, 0, 0, amount)
      BY <1>12, <2>4, <3>1, <3>2 DEF MovesMoney
    <3> QED BY <2>3, <3>3
  <2> QED BY <2>5, <2>6
<1>13. ASSUME session # "ACTIVE"
       PROVE  MoneyStays
  <2>1. RefundScope # "LIVE_CHECK"
    BY <1>0, <1>13
  <2> QED BY <1>0, <1>10, <2>1 DEF MoneyStays, EffectiveReceived
<1> QED BY <1>9, <1>11, <1>12, <1>13

\* A confirmation within what is owed, in whichever scope it was recorded.
LEMMA ConfirmKeeps ==
  ASSUME IInv, NEW r \in Refunds, ConfirmRefund(r)
  PROVE  /\ IInv'
         /\ session # "ACTIVE" => session = "CLOSED" /\ refund[r].scope = "POST_SALE"
         /\ \/ MoneyStays
            \/ \E k \in Checks, a \in Nat \ {0} :
                  a <= Obligation(k) /\ MovesMoney(k, 0, 0 - a, 0 - a)
<1>0. /\ refund[r].on # NoCheck /\ ~refund[r].completed
      /\ refund \in [Refunds -> RefundRow]
      /\ UNCHANGED <<mode, session, check, unit, payment>>
  BY DEF ConfirmRefund, IInv, Types
<1>k. PICK k \in Checks : k = refund[r].on
  BY <1>0 DEF RefundRow
<1>r. /\ refund' \in [Refunds -> RefundRow]
      /\ refund'[r].on = k /\ refund'[r].scope = refund[r].scope /\ refund'[r].completed
      /\ refund'[r].from = refund[r].from /\ refund'[r].against = refund[r].against
      /\ \A q \in Refunds \ {r} : refund'[q] = refund[q]
  <2>1. refund' = [refund EXCEPT ![r].completed = TRUE]
    BY DEF ConfirmRefund
  <2> QED BY <1>0, <1>k, <2>1 DEF RefundRow
<1>1. session # "ABANDONED"
  BY <1>0 DEF IInv, Ended
<1>2. RefundAmount[r] \in Nat /\ RefundAmount[r] > 0
  BY <1>0, AmountTypes DEF IInv, Rows, RefundGood
<1>3. refund[r].scope = "LIVE_CHECK" =>
         session = "ACTIVE" /\ EffectiveReceived(k) - RefundAmount[r] >= check[k].charge
  <2>1. EffectiveReceived(k) \in Nat /\ check[k].charge \in Nat
    BY Receipt DEF IInv
  <2>2. refund[r].scope = "LIVE_CHECK" =>
           RefundAmount[r] <= Monus(EffectiveReceived(k), check[k].charge)
    BY <1>k DEF ConfirmRefund, Obligation
  <2>3. session = "CLOSED" => EffectiveReceived(k) = check[k].charge
    BY DEF IInv, Ended
  <2>4. session \in {"ACTIVE", "CLOSED", "ABANDONED"}
    BY DEF IInv, Types
  <2> QED BY <1>1, <1>2, <2>1, <2>2, <2>3, <2>4 DEF Monus
<1>4. Types'
  BY <1>0, <1>r DEF IInv, Types
<1>5. RefundAmount' = RefundAmount
  <2>1. \A q \in Refunds : refund'[q].from = refund[q].from
    BY <1>r
  <2> QED BY <2>1 DEF RefundAmount
<1>6. Rows'
  <2>1. \A q \in Refunds : /\ refund'[q].from = refund[q].from
                           /\ refund'[q].against = refund[q].against
                           /\ refund'[q].on = refund[q].on /\ refund'[q].scope = refund[q].scope
                           /\ refund'[q].on = NoCheck => refund'[q] = refund[q]
    BY <1>0, <1>k, <1>r
  <2>2. ASSUME NEW q \in Refunds
        PROVE  RefundGood(q)'
    <3>1. RefundGood(q)
      BY DEF IInv, Rows
    <3> QED BY <1>0, <1>5, <2>1, <3>1 DEF RefundGood
  <2>3. \A j \in Checks : AbsentGood(j)'
    BY <1>0, <2>1 DEF IInv, Rows, AbsentGood
  <2> QED BY <1>0, <2>2, <2>3 DEF IInv, Rows, UnitGood, PaymentGood
<1>7. Sources'
  <2>1. \A q \in Refunds : /\ refund'[q].from = refund[q].from
                           /\ refund'[q].against = refund[q].against
    BY <1>r
  <2>2. \A p \in Payments : DrawnFrom(p)' = DrawnFrom(p)
    BY <2>1 DEF DrawnFrom
  <2>3. \A u \in Units : DrawnAgainst(u)' = DrawnAgainst(u)
    BY <2>1 DEF DrawnAgainst
  <2> QED BY <1>0, <2>2, <2>3 DEF IInv, Sources
<1>8. ASSUME NEW j \in Checks
      PROVE  \/ EffectiveReceived(j)' = EffectiveReceived(j)
             \/ /\ session = "ACTIVE" /\ EffectiveReceived(j)' \in Int
                /\ EffectiveReceived(j) >= check[j].charge
                /\ EffectiveReceived(j)' >= check[j].charge
  <2>1. Returned(j, "LIVE_CHECK")'
          = Returned(j, "LIVE_CHECK")
              + (IF k = j /\ refund[r].scope = "LIVE_CHECK" THEN RefundAmount[r] ELSE 0)
    <3>1. Types
      BY DEF IInv
    <3>2. Returned(j, "LIVE_CHECK")'
            = Returned(j, "LIVE_CHECK")
                + (IF /\ refund'[r].on = j /\ refund'[r].scope = "LIVE_CHECK"
                      /\ refund'[r].completed
                   THEN RefundAmount'[r] ELSE 0)
      BY <1>0, <1>4, <1>r, <3>1, ReturnedStep
    <3> QED BY <1>5, <1>r, <3>2
  <2>2. /\ ValidPaid(j)' = ValidPaid(j) /\ ValidPaid(j) \in Nat
        /\ Returned(j, "LIVE_CHECK") \in Nat
        /\ check[j].charge \in Nat /\ EffectiveReceived(j) \in Nat
        /\ EffectiveReceived(j) = ValidPaid(j) - Returned(j, "LIVE_CHECK")
        /\ EffectiveReceived(j)' = ValidPaid(j)' - Returned(j, "LIVE_CHECK")'
    BY <1>0, SamePayments, Receipt DEF IInv, EffectiveReceived, Scopes
  <2>3. CASE k = j /\ refund[r].scope = "LIVE_CHECK"
    BY <1>2, <1>3, <2>1, <2>2, <2>3
  <2>4. CASE ~(k = j /\ refund[r].scope = "LIVE_CHECK")
    BY <2>1, <2>2, <2>4
  <2> QED BY <2>3, <2>4
<1>9. IInv'
  BY <1>0, <1>1, <1>4, <1>6, <1>7, <1>8, RefundStepKeeps
<1>10. session # "ACTIVE" => session = "CLOSED" /\ refund[r].scope = "POST_SALE"
  <2>1. session \in {"ACTIVE", "CLOSED", "ABANDONED"} /\ refund[r].scope \in Scopes
    BY <1>0 DEF IInv, Types, RefundRow
  <2> QED BY <1>1, <1>3, <2>1 DEF Scopes
<1>11. ASSUME NEW j \in Checks
       PROVE  /\ Returned(j, "LIVE_CHECK")'
                   = Returned(j, "LIVE_CHECK")
                       + (IF k = j /\ refund[r].scope = "LIVE_CHECK" THEN RefundAmount[r] ELSE 0)
              /\ Reserved(j, "LIVE_CHECK")'
                   = Reserved(j, "LIVE_CHECK")
                       - (IF k = j /\ refund[r].scope = "LIVE_CHECK" THEN RefundAmount[r] ELSE 0)
              /\ ValidPaid(j)' = ValidPaid(j) /\ ValidPaid(j) \in Nat
              /\ Returned(j, "LIVE_CHECK") \in Nat /\ Reserved(j, "LIVE_CHECK") \in Nat
              /\ EffectiveReceived(j) \in Nat /\ check[j].charge \in Nat
  <2>1. Types
    BY DEF IInv
  <2>2. Returned(j, "LIVE_CHECK")'
          = Returned(j, "LIVE_CHECK")
              + (IF /\ refund'[r].on = j /\ refund'[r].scope = "LIVE_CHECK"
                    /\ refund'[r].completed
                 THEN RefundAmount'[r] ELSE 0)
    BY <1>0, <1>4, <1>r, <2>1, ReturnedStep
  <2>3. r \in Pending(j) <=> k = j /\ refund[r].scope = "LIVE_CHECK"
    BY <1>0, <1>k DEF Pending, RefundsOn
  <2>4. r \notin Pending(j)'
    BY <1>r DEF Pending, RefundsOn
  <2>5. Reserved(j, "LIVE_CHECK")'
          = Reserved(j, "LIVE_CHECK") - (IF r \in Pending(j) THEN RefundAmount[r] ELSE 0)
              + (IF r \in Pending(j)' THEN RefundAmount'[r] ELSE 0)
    BY <1>4, <1>r, <2>1, ReservedStep
  <2>6. /\ ValidPaid(j)' = ValidPaid(j) /\ ValidPaid(j) \in Nat
        /\ Returned(j, "LIVE_CHECK") \in Nat /\ Reserved(j, "LIVE_CHECK") \in Nat
        /\ EffectiveReceived(j) \in Nat /\ check[j].charge \in Nat
    BY <1>0, SamePayments, Receipt DEF IInv, Scopes
  <2>7. Returned(j, "LIVE_CHECK")'
          = Returned(j, "LIVE_CHECK")
              + (IF k = j /\ refund[r].scope = "LIVE_CHECK" THEN RefundAmount[r] ELSE 0)
    BY <1>5, <1>r, <2>2
  <2> QED BY <1>2, <2>3, <2>4, <2>5, <2>6, <2>7
<1>12. CASE refund[r].scope = "LIVE_CHECK"
  <2>1. session = "ACTIVE" /\ session' = "ACTIVE"
    BY <1>0, <1>3, <1>12
  <2>2. RefundAmount[r] \in Nat \ {0} /\ RefundAmount[r] <= Obligation(k)
    BY <1>2, <1>k, <1>12 DEF ConfirmRefund
  <2>3. MovesMoney(k, 0, 0 - RefundAmount[r], 0 - RefundAmount[r])
    BY <1>0, <1>11, <1>12, <2>1, <2>2 DEF MovesMoney, EffectiveReceived
  <2> QED BY <1>9, <1>10, <2>2, <2>3
<1>13. CASE refund[r].scope # "LIVE_CHECK"
  <2>1. MoneyStays
    BY <1>0, <1>11, <1>13 DEF MoneyStays, EffectiveReceived
  <2> QED BY <1>9, <1>10, <2>1
<1> QED BY <1>12, <1>13

-----------------------------------------------------------------------------
(* Every step, and the theorems.                                           *)

\* Every command keeps the invariant.
LEMMA NextKeeps ==
  ASSUME IInv, [Next]_vars
  PROVE  IInv'
<1>1. CASE WorkStep
  <2>1. ASSUME NEW D \in SUBSET Units, NEW k \in Checks, CommitDraft(D, k)
        PROVE  IInv'
    BY <2>1, CommitKeeps
  <2> QED BY <1>1, <2>1, WorkStepKeeps DEF WorkStep
<1>2. CASE MoneyStep
  <2>1. ASSUME NEW k \in Checks, NEW p \in Payments, NEW m \in Methods,
               NEW a \in 1 .. Prices(Units), RecordPayment(k, p, m, a)
        PROVE  IInv'
    <3>1. a \in Nat
      BY PricesType
    <3> QED BY <2>1, <3>1, PaymentKeeps
  <2>2. ASSUME NEW p \in Payments, VoidPayment(p)
        PROVE  IInv'
    BY <2>2, VoidKeeps
  <2>3. ASSUME NEW u \in Units, CompWaste(u)
        PROVE  IInv'
    BY <2>3, CompKeeps
  <2>4. ASSUME NEW k \in Checks, NEW r \in Refunds, NEW m \in Methods, RecordRefund(k, r, m)
        PROVE  IInv'
    BY <2>4, RefundKeeps
  <2>5. ASSUME NEW r \in Refunds, ConfirmRefund(r)
        PROVE  IInv'
    BY <2>5, ConfirmKeeps
  <2> QED BY <1>2, <2>1, <2>2, <2>3, <2>4, <2>5, CancelKeeps DEF MoneyStep
<1>3. CASE CloseSession
  BY <1>3, CloseKeeps
<1>4. CASE AbandonCheckout
  BY <1>4, AbandonKeeps
<1>5. CASE UNCHANGED vars
  <2>1. UNCHANGED <<mode, session, check, unit, payment, refund>>
    BY <1>5 DEF vars
  <2>2. Types' /\ Rows' /\ Sources'
    <3>1. RefundAmount' = RefundAmount
      BY <2>1, SameRefunds
    <3> QED BY <2>1, <3>1, SameRefunds
        DEF IInv, Types, Rows, UnitGood, PaymentGood, RefundGood, AbsentGood, Sources
  <2>3. ChargeMatchesFacts' /\ Bounded'
    BY <2>1, SameUnits, SamePayments DEF IInv, ChargeMatchesFacts, Bounded, Prices, Scopes
  <2>4. SettledIffCovered' /\ Ended'
    BY <2>1, SameReceipt DEF IInv, SettledIffCovered, Balance, BalanceAt, Ended
  <2> QED BY <2>2, <2>3, <2>4 DEF IInv
<1> QED BY <1>1, <1>2, <1>3, <1>4, <1>5 DEF Next

\* What the command sequence preserves, for any number of Checks, Units, Payments
\* and Refunds and any prices.
THEOREM Inductive == Spec => []IInv
<1>1. IInv /\ [Next]_vars => IInv'
  BY NextKeeps
<1> QED BY InitInv, <1>1, PTL DEF Spec

\* Rows have their columns and no Check gave back more than it took, so no
\* derived amount is ever negative.
THEOREM TypeCorrect == Spec => []TypeOK
BY Inductive, TypeFollows, PTL

\* The stored charge is always the sum the readers derive again.
THEOREM ChargeAlwaysMatches == Spec => []ChargeMatchesFacts
<1>1. IInv => ChargeMatchesFacts
  BY DEF IInv
<1> QED BY Inductive, <1>1, PTL

\* A live Check is SETTLED exactly when it is covered, after any sequence of
\* commands.
THEOREM StateRecordsDebt == Spec => []SettledIffCovered
<1>1. IInv => SettledIffCovered
  BY DEF IInv
<1> QED BY Inductive, <1>1, PTL

\* No Payment and no Charge Adjustment is ever given back twice.
THEOREM NeverReturnedTwice == Spec => []NothingReturnedTwice
BY Inductive, NotTwiceFollows, PTL

\* What is owed can always be given back.
THEOREM AlwaysRefundable == Spec => []ObligationRefundable
BY Inductive, RefundableFollows, PTL

\* A closed Session holds what it charged, an abandoned one nothing.
THEOREM AlwaysEndsSquare == Spec => []EndsSquare
BY Inductive, SquareFollows, PTL

\* A step of an ended Session: only a Comp of a closed one, or a Refund of a closed
\* one, recorded or confirmed, and nothing else moves.
LEMMA AfterEnd ==
  ASSUME IInv, Next, session # "ACTIVE"
  PROVE  /\ UNCHANGED <<mode, session, check, payment>>
         /\ \A u \in Units : \/ unit'[u] = unit[u]
                             \/ /\ unit[u].adjusted = "NONE"
                                /\ unit'[u] = [unit[u] EXCEPT !.adjusted = "POST_SALE"]
         /\ \A r \in Refunds :
               \/ refund'[r] = refund[r]
               \/ refund[r] = NoRefund /\ refund'[r].on # NoCheck /\ refund'[r].scope = "POST_SALE"
               \/ /\ refund[r].on # NoCheck /\ refund[r].scope = "POST_SALE"
                  /\ refund'[r] = [refund[r] EXCEPT !.completed = TRUE]
<1> DEFINE Adds ==
      /\ UNCHANGED <<mode, session, check, payment>>
      /\ \A u \in Units : \/ unit'[u] = unit[u]
                          \/ /\ unit[u].adjusted = "NONE"
                             /\ unit'[u] = [unit[u] EXCEPT !.adjusted = "POST_SALE"]
      /\ \A r \in Refunds :
            \/ refund'[r] = refund[r]
            \/ refund[r] = NoRefund /\ refund'[r].on # NoCheck /\ refund'[r].scope = "POST_SALE"
            \/ /\ refund[r].on # NoCheck /\ refund[r].scope = "POST_SALE"
               /\ refund'[r] = [refund[r] EXCEPT !.completed = TRUE]
<1>0. unit \in [Units -> UnitRow] /\ refund \in [Refunds -> RefundRow]
  BY DEF IInv, Types
<1>1. ASSUME NEW u \in Units, AdvanceUnit(u) \/ WasteUnit(u) \/ CorrectState(u)
      PROVE  FALSE
  BY <1>1, EndedHasNoWork DEF AdvanceUnit, WasteUnit, CorrectState
<1>2. ASSUME NEW u \in Units, CompWaste(u)
      PROVE  Adds
  <2>1. /\ unit' = [unit EXCEPT ![u].adjusted = "POST_SALE"] /\ unit[u].adjusted = "NONE"
        /\ UNCHANGED <<mode, session, check, payment, refund>>
    BY <1>2 DEF CompWaste
  <2>2. /\ unit'[u] = [unit[u] EXCEPT !.adjusted = "POST_SALE"]
        /\ \A v \in Units \ {u} : unit'[v] = unit[v]
    BY <1>0, <2>1
  <2> QED BY <2>1, <2>2
<1>3. ASSUME NEW k \in Checks, NEW r \in Refunds, NEW m \in Methods, RecordRefund(k, r, m)
      PROVE  Adds
  <2>1. /\ refund[r] = NoRefund /\ UNCHANGED <<mode, session, check, unit, payment>>
        /\ RefundScope = "POST_SALE" /\ k # NoCheck
    BY <1>3, NoCheckAssumption DEF RecordRefund, RefundScope
  <2>2. PICK a \in Allocations(k, m) :
           refund' = [refund EXCEPT
                         ![r] = [on |-> k, method |-> m, scope |-> RefundScope,
                                 completed |-> m = "CASH",
                                 from |-> a.from, against |-> a.against]]
    BY <1>3 DEF RecordRefund
  <2>3. refund'[r].on = k /\ refund'[r].scope = "POST_SALE"
    BY <1>0, <2>1, <2>2
  <2>4. \A q \in Refunds \ {r} : refund'[q] = refund[q]
    BY <1>0, <2>2
  <2> QED BY <2>1, <2>3, <2>4
<1>4. ASSUME NEW r \in Refunds, ConfirmRefund(r)
      PROVE  Adds
  <2>1. refund[r].scope = "POST_SALE" /\ refund[r].on # NoCheck
    BY <1>4, ConfirmKeeps DEF ConfirmRefund
  <2>2. /\ UNCHANGED <<mode, session, check, unit, payment>>
        /\ refund'[r] = [refund[r] EXCEPT !.completed = TRUE]
        /\ \A q \in Refunds \ {r} : refund'[q] = refund[q]
    BY <1>0, <1>4 DEF ConfirmRefund
  <2> QED BY <2>1, <2>2
<1>5. /\ \A D \in SUBSET Units, k \in Checks : ~CommitDraft(D, k)
      /\ ~SubmitOrder /\ ~CancelAwaitingSubmission /\ ~CloseSession /\ ~AbandonCheckout
      /\ \A k \in Checks, p \in Payments, m \in Methods, a \in 1 .. Prices(Units) :
            ~RecordPayment(k, p, m, a)
      /\ \A p \in Payments : ~VoidPayment(p)
      /\ \A D \in SUBSET Units : ~CancelUnits(D)
  BY DEF CommitDraft, SubmitOrder, CancelAwaitingSubmission, CloseSession,
         AbandonCheckout, RecordPayment, VoidPayment, CancelUnits
<1>6. WorkStep => Adds
  BY <1>1, <1>5 DEF WorkStep
<1>7. MoneyStep => Adds
  BY <1>2, <1>3, <1>4, <1>5 DEF MoneyStep
<1> QED BY <1>5, <1>6, <1>7 DEF Next

\* After closure no command changes what the Completed Sale recorded.
THEOREM SaleStaysFrozen == Spec => CompletedSaleIsFrozen
<1> DEFINE Frozen ==
      session # "ACTIVE" =>
          /\ session' = session /\ check' = check /\ payment' = payment
          /\ \A r \in Refunds :
                refund[r].on # NoCheck /\ refund[r].scope = "LIVE_CHECK" => refund'[r] = refund[r]
          /\ \A u \in Units :
                unit'[u] # unit[u] =>
                    unit[u].adjusted = "NONE" /\ unit'[u] = [unit[u] EXCEPT !.adjusted = "POST_SALE"]
<1>1. ASSUME IInv, Next, session # "ACTIVE"
      PROVE  Frozen
  <2>1. \A r \in Refunds : refund[r] = NoRefund => refund[r].on = NoCheck
    BY DEF NoRefund
  <2>2. /\ session' = session /\ check' = check /\ payment' = payment
        /\ \A r \in Refunds :
              refund[r].on # NoCheck /\ refund[r].scope = "LIVE_CHECK" => refund'[r] = refund[r]
    BY <1>1, <2>1, AfterEnd
  <2>3. \A u \in Units :
           unit'[u] # unit[u] =>
               unit[u].adjusted = "NONE" /\ unit'[u] = [unit[u] EXCEPT !.adjusted = "POST_SALE"]
    BY <1>1, AfterEnd
  <2> QED BY <2>2, <2>3
<1>2. IInv /\ [Next]_vars => [Frozen]_vars
  BY <1>1
<1> QED BY Inductive, <1>2, PTL DEF Spec, CompletedSaleIsFrozen

-----------------------------------------------------------------------------
(* The reads.                                                              *)

\* What a Refund consumes of one source, in either snapshot, is part of all that
\* was drawn on it.
LEMMA ConsumedFits ==
  ASSUME IInv, NEW R \in SUBSET Refunds
  PROVE  /\ \A p \in Payments :
              Total([r \in Refunds |-> refund[r].from[p]], R) <= payment[p].amount
         /\ \A u \in Units :
              Total([r \in Refunds |-> refund[r].against[u]], R) <= Price[u]
<1>1. ASSUME NEW p \in Payments
      PROVE  Total([r \in Refunds |-> refund[r].from[p]], R) <= payment[p].amount
  <2> DEFINE f == [r \in Refunds |-> refund[r].from[p]]
  <2>1. \A r \in Refunds : f[r] \in Nat
    BY DEF IInv, Types, RefundRow
  <2>2. DrawnFrom(p) = Total(f, Refunds) /\ DrawnFrom(p) <= payment[p].amount
    BY DEF DrawnFrom, IInv, Sources
  <2>3. payment[p].amount \in Nat
    BY DEF IInv, Types, PaymentRow
  <2> HIDE DEF f
  <2>4. Total(f, R) <= Total(f, Refunds) /\ Total(f, R) \in Nat /\ Total(f, Refunds) \in Nat
    BY <2>1, Finite, TotalPart, TotalNat
  <2>5. Total(f, R) <= payment[p].amount
    BY <2>2, <2>3, <2>4
  <2> QED BY <2>5 DEF f
<1>2. ASSUME NEW u \in Units
      PROVE  Total([r \in Refunds |-> refund[r].against[u]], R) <= Price[u]
  <2> DEFINE f == [r \in Refunds |-> refund[r].against[u]]
  <2>1. \A r \in Refunds : f[r] \in Nat
    BY DEF IInv, Types, RefundRow
  <2>2. DrawnAgainst(u) = Total(f, Refunds) /\ DrawnAgainst(u) <= Price[u]
    BY DEF DrawnAgainst, IInv, Sources
  <2>3. Price[u] \in Nat
    BY PriceAssumption
  <2> HIDE DEF f
  <2>4. Total(f, R) <= Total(f, Refunds) /\ Total(f, R) \in Nat /\ Total(f, Refunds) \in Nat
    BY <2>1, Finite, TotalPart, TotalNat
  <2>5. Total(f, R) <= Price[u]
    BY <2>2, <2>3, <2>4
  <2> QED BY <2>5 DEF f
<1> QED BY <1>1, <1>2

\* The amounts a read re-derives are those the commands computed with.
LEMMA InputsAgree ==
  ASSUME IInv, NEW k \in Checks
  PROVE  /\ Acceptable(Inputs(k))
         /\ ComputeCheckFinancials(Inputs(k)).charge = check[k].charge
         /\ ComputeCheckFinancials(Inputs(k)).balance = Balance(k)
<1> DEFINE S == ListCheckPayments(k)
           V == {p \in S : payment[p].voided}
           in == Inputs(k)
<1>1. S \ V = PaidOn(k) /\ S \in SUBSET Payments /\ V \in SUBSET S
  BY DEF ListCheckPayments, PaidOn
<1>2. \A p \in Payments : PaidAmount[p] \in Nat
  BY AmountTypes DEF IInv
<1>3. /\ Total(PaidAmount, S) = Total(PaidAmount, V) + Total(PaidAmount, S \ V)
      /\ Total(PaidAmount, S) \in Nat /\ Total(PaidAmount, V) \in Nat
  <2> HIDE DEF S, V
  <2>1. IsFiniteSet(S) /\ IsFiniteSet(V) /\ \A p \in S : PaidAmount[p] \in Nat
    BY <1>1, <1>2, Finite, FS_Subset
  <2> QED BY <1>1, <2>1, TotalSplit, TotalNat
<1>4. /\ in.base = Prices(ChargedTo(k)) /\ in.live = Prices(Adjusted(k, "LIVE_CHECK"))
      /\ in.original = Total(PaidAmount, S) /\ in.voided = Total(PaidAmount, V)
      /\ in.completed = Returned(k, "LIVE_CHECK")
  BY DEF Inputs, ListCheckChargeAdjustments, ListCheckRefunds, Returned
<1>5. /\ check[k].charge \in Nat /\ ValidPaid(k) \in Nat /\ Returned(k, "LIVE_CHECK") \in Nat
      /\ Prices(ChargedTo(k)) \in Nat /\ Prices(Adjusted(k, "LIVE_CHECK")) \in Nat
      /\ EffectiveReceived(k) \in Nat
      /\ EffectiveReceived(k) = ValidPaid(k) - Returned(k, "LIVE_CHECK")
  BY Receipt DEF IInv, Scopes, EffectiveReceived
<1>6. check[k].charge + in.live = in.base
  BY <1>4 DEF IInv, ChargeMatchesFacts
<1>7. in.original = in.voided + ValidPaid(k)
  BY <1>1, <1>3, <1>4 DEF ValidPaid
<1> HIDE DEF in, S, V
<1>8. /\ in.live <= in.base /\ in.voided <= in.original
      /\ in.completed <= in.original - in.voided
      /\ in.base - in.live = check[k].charge
      /\ in.original - in.voided - in.completed = EffectiveReceived(k)
  BY <1>3, <1>4, <1>5, <1>6, <1>7
<1> QED BY <1>8 DEF in, Acceptable, ComputeCheckFinancials, Balance, BalanceAt

\* No row a command leaves behind makes a read refuse to answer.
LEMMA ReadsFollow ==
  ASSUME IInv
  PROVE  EveryReadSucceeds
<1>1. ASSUME NEW k \in ListSessionChecks, NEW s \in Snapshots
      PROVE  CheckError(k, s) = "NONE"
  <2>1. k \in Checks /\ check[k].state \in {"OPEN", "SETTLED", "ABANDONED"}
    BY DEF ListSessionChecks, IInv, Types, CheckRow
  <2>2. Consuming(s) \in SUBSET Refunds
    BY DEF Consuming
  <2>3. SourcesHold(k, s)
    <3>1. \A r \in ListCheckRefunds(k) :
             Total(refund[r].from, Payments) = Total(refund[r].against, Units)
      BY <2>1, NoCheckAssumption
      DEF IInv, Rows, RefundGood, RefundAmount, ListCheckRefunds, RefundsOn
    <3> QED BY <2>2, <3>1, ConsumedFits
        DEF SourcesHold, PaymentConsumed, AdjustmentConsumed, ListCheckPayments,
            ListCheckChargeAdjustments, Adjusted, ChargedTo
  <2>4. check[k].state # "ABANDONED" => (check[k].state = "SETTLED" <=> Balance(k) = 0)
    BY <2>1, Receipt DEF IInv, SettledIffCovered, Balance, BalanceAt, Monus
  <2> QED BY <2>1, <2>3, <2>4, InputsAgree DEF CheckError
<1>2. ASSUME NEW u \in PostSaleComps
      PROVE  CorrectionRead(u).remaining >= 0 /\ CorrectionRead(u).outstanding >= 0
  <2> DEFINE f == [r \in Refunds |-> refund[r].against[u]]
             all == CompRefunds(u)
             done == {r \in all : refund[r].completed}
  <2>1. u \in Units /\ all \in SUBSET Refunds /\ done \in SUBSET Refunds
    BY DEF PostSaleComps, CompRefunds, PostSaleRefunds
  <2>2. Total(f, all) <= Price[u] /\ Total(f, done) <= Price[u]
    BY <2>1, ConsumedFits
  <2>3. \A r \in Refunds : f[r] \in Nat
    BY <2>1 DEF IInv, Types, RefundRow
  <2>4. Total(f, all) \in Nat /\ Total(f, done) \in Nat /\ Price[u] \in Nat
    <3> HIDE DEF f, all, done
    <3> QED BY <2>1, <2>3, Finite, TotalNat, PriceAssumption
  <2>5. /\ CorrectionRead(u).remaining = Price[u] - Total(f, all)
        /\ CorrectionRead(u).outstanding = Price[u] - Total(f, done)
    BY DEF CorrectionRead
  <2> HIDE DEF f, all, done
  <2> QED BY <2>2, <2>4, <2>5
<1> QED BY <1>1, <1>2 DEF EveryReadSucceeds, SessionReadable, SaleReadable, Snapshots

\* Any sequence of commands leaves a Session, and its Completed Sale, that every
\* read can answer.
THEOREM AlwaysReadable == Spec => []EveryReadSucceeds
BY Inductive, ReadsFollow, PTL

\* What a step of a closed Session leaves alone, row by row: where a Unit is
\* charged, its work and its live adjustment, and every live Refund.
LEMMA RowsStay ==
  ASSUME IInv, Next, session = "CLOSED"
  PROVE  /\ \A u \in Units : /\ unit'[u].at = unit[u].at /\ unit'[u].work = unit[u].work
                             /\ unit'[u].adjusted = "LIVE_CHECK" <=> unit[u].adjusted = "LIVE_CHECK"
                             /\ unit[u].adjusted = "POST_SALE" => unit'[u].adjusted = "POST_SALE"
         /\ \A r \in Refunds :
               /\ refund[r].on # NoCheck =>
                     /\ refund'[r].on = refund[r].on /\ refund'[r].scope = refund[r].scope
                     /\ refund'[r].from = refund[r].from /\ refund'[r].against = refund[r].against
                     /\ refund[r].completed => refund'[r].completed
                     /\ refund[r].scope = "LIVE_CHECK" => refund'[r] = refund[r]
               /\ refund[r].on = NoCheck =>
                     /\ refund[r] = NoRefund
                     /\ \/ refund'[r] = NoRefund
                        \/ refund'[r].on # NoCheck /\ refund'[r].scope = "POST_SALE"
<1>0. unit \in [Units -> UnitRow] /\ refund \in [Refunds -> RefundRow]
  BY DEF IInv, Types
<1>1. ASSUME NEW u \in Units
      PROVE  /\ unit'[u].at = unit[u].at /\ unit'[u].work = unit[u].work
             /\ unit'[u].adjusted = "LIVE_CHECK" <=> unit[u].adjusted = "LIVE_CHECK"
             /\ unit[u].adjusted = "POST_SALE" => unit'[u].adjusted = "POST_SALE"
  <2>1. CASE unit'[u] = unit[u]
    BY <2>1
  <2>2. CASE unit[u].adjusted = "NONE" /\ unit'[u] = [unit[u] EXCEPT !.adjusted = "POST_SALE"]
    BY <1>0, <2>2 DEF UnitRow
  <2> QED BY <2>1, <2>2, AfterEnd
<1>2. \A r \in Refunds : refund[r].on = NoCheck => refund[r] = NoRefund
  BY DEF IInv, Rows, RefundGood
<1>3. \A r \in Refunds : refund[r] = NoRefund => refund[r].on = NoCheck
  BY DEF NoRefund
<1>4. ASSUME NEW r \in Refunds, refund[r].on # NoCheck
      PROVE  /\ refund'[r].on = refund[r].on /\ refund'[r].scope = refund[r].scope
             /\ refund'[r].from = refund[r].from /\ refund'[r].against = refund[r].against
             /\ refund[r].completed => refund'[r].completed
             /\ refund[r].scope = "LIVE_CHECK" => refund'[r] = refund[r]
  <2>1. CASE refund'[r] = refund[r]
    BY <2>1
  <2>2. CASE refund[r].scope = "POST_SALE" /\ refund'[r] = [refund[r] EXCEPT !.completed = TRUE]
    BY <1>0, <2>2 DEF RefundRow
  <2> QED BY <1>3, <1>4, <2>1, <2>2, AfterEnd
<1>5. ASSUME NEW r \in Refunds, refund[r].on = NoCheck
      PROVE  \/ refund'[r] = NoRefund
             \/ refund'[r].on # NoCheck /\ refund'[r].scope = "POST_SALE"
  BY <1>2, <1>5, AfterEnd
<1> QED BY <1>1, <1>2, <1>4, <1>5

\* So every list the core snapshot reads stays, and every sum over it.
LEMMA ListsStay ==
  ASSUME IInv, Next, session = "CLOSED", NEW k \in Checks
  PROVE  /\ ChargedTo(k)' = ChargedTo(k)
         /\ ListCheckChargeAdjustments(k)' = ListCheckChargeAdjustments(k)
         /\ ListCheckPayments(k)' = ListCheckPayments(k)
         /\ ListCheckRefunds(k)' = ListCheckRefunds(k)
         /\ Inputs(k)' = Inputs(k)
<1> USE RowsStay
<1>1. ChargedTo(k)' = ChargedTo(k)
  BY DEF ChargedTo
<1>2. ListCheckChargeAdjustments(k)' = ListCheckChargeAdjustments(k)
  BY DEF ListCheckChargeAdjustments, Adjusted, ChargedTo
<1>3. payment' = payment
  BY AfterEnd
<1>4. ListCheckRefunds(k)' = ListCheckRefunds(k)
  BY NoCheckAssumption DEF ListCheckRefunds, RefundsOn, NoRefund
<1>5. \A r \in ListCheckRefunds(k) : r \in Refunds /\ refund'[r] = refund[r]
  BY NoCheckAssumption DEF ListCheckRefunds, RefundsOn
<1>6. Total(RefundAmount, {r \in ListCheckRefunds(k) : refund[r].completed})'
        = Total(RefundAmount, {r \in ListCheckRefunds(k) : refund[r].completed})
  <2> DEFINE R == {r \in ListCheckRefunds(k) : refund[r].completed}
  <2>1. R' = R
    BY <1>4, <1>5
  <2>2. R \in SUBSET Refunds
    BY <1>5
  <2>3. \A r \in R : RefundAmount'[r] = RefundAmount[r]
    BY <1>5, <2>1 DEF RefundAmount
  <2>4. Total(RefundAmount', R) = Total(RefundAmount, R)
    <3> HIDE DEF R
    <3> QED BY <2>2, <2>3, Finite, TotalCongruence
  <2> QED BY <2>1, <2>4
<1>7. Inputs(k)' = Inputs(k)
  BY <1>1, <1>2, <1>3, <1>6 DEF Inputs, ListCheckPayments, PaidAmount
<1> QED BY <1>1, <1>2, <1>3, <1>4, <1>7 DEF ListCheckPayments

\* A post-sale Refund consumes nothing in the core snapshot.
LEMMA CoreConsumptionStays ==
  ASSUME IInv, Next, session = "CLOSED"
  PROVE  /\ \A p \in Payments :
              PaymentConsumed(p, "COMPLETED_SALE_CORE")' = PaymentConsumed(p, "COMPLETED_SALE_CORE")
         /\ \A u \in Units :
              AdjustmentConsumed(u, "COMPLETED_SALE_CORE")'
                = AdjustmentConsumed(u, "COMPLETED_SALE_CORE")
<1> DEFINE R == Consuming("COMPLETED_SALE_CORE")
<1>1. R \in SUBSET Refunds /\ R' \in SUBSET Refunds
  BY DEF Consuming
<1>2. \A r \in Refunds :
         \/ /\ refund'[r].from = refund[r].from /\ refund'[r].against = refund[r].against
            /\ (r \in R <=> r \in R')
         \/ refund[r] = NoRefund /\ r \notin R'
  <2>1. SUFFICES ASSUME NEW r \in Refunds
                 PROVE  \/ /\ refund'[r].from = refund[r].from /\ refund'[r].against = refund[r].against
                           /\ (r \in R <=> r \in R')
                        \/ refund[r] = NoRefund /\ r \notin R'
    OBVIOUS
  <2>2. /\ r \in R <=> refund[r].scope # "POST_SALE"
        /\ r \in R' <=> refund'[r].scope # "POST_SALE"
    BY ONLY <2>1 DEF Consuming
  <2>3. CASE refund[r].on # NoCheck
    <3>1. /\ refund'[r].scope = refund[r].scope
          /\ refund'[r].from = refund[r].from /\ refund'[r].against = refund[r].against
      BY ONLY IInv, Next, session = "CLOSED", <2>1, <2>3, RowsStay
    <3> QED BY ONLY <2>2, <3>1
  <2>4. CASE refund[r].on = NoCheck
    <3>1. refund[r] = NoRefund /\ (refund'[r] = NoRefund \/ refund'[r].scope = "POST_SALE")
      BY ONLY IInv, Next, session = "CLOSED", <2>1, <2>4, RowsStay
    <3>2. CASE refund'[r] = NoRefund
      BY ONLY <2>2, <3>1, <3>2
    <3> QED BY ONLY <2>2, <3>1, <3>2
  <2> QED BY ONLY <2>3, <2>4
<1>3. \A r \in Refunds :
         /\ \A p \in Payments : refund[r].from[p] \in Nat
         /\ \A u \in Units : refund[r].against[u] \in Nat
  BY DEF IInv, Types, RefundRow
<1>4. /\ \A p \in Payments : NoRefund.from[p] = 0
      /\ \A u \in Units : NoRefund.against[u] = 0
  BY DEF NoRefund
<1> HIDE DEF R
<1>5. ASSUME NEW p \in Payments
      PROVE  PaymentConsumed(p, "COMPLETED_SALE_CORE")' = PaymentConsumed(p, "COMPLETED_SALE_CORE")
  <2> DEFINE f == [r \in Refunds |-> refund[r].from[p]]
             g == [r \in Refunds |-> refund'[r].from[p]]
  <2>1. \A r \in Refunds : /\ f[r] \in Int
                           /\ r \in R' => g[r] = f[r] /\ r \in R
                           /\ r \in R /\ r \notin R' => f[r] = 0
    BY <1>2, <1>3, <1>4
  <2> HIDE DEF f, g
  <2>2. Total(f, R) = Total(g, R')
    BY <1>1, <2>1, FiniteAssumption, TotalAgree
  <2> QED BY <2>2 DEF f, g, R, PaymentConsumed
<1>6. ASSUME NEW u \in Units
      PROVE  AdjustmentConsumed(u, "COMPLETED_SALE_CORE")'
               = AdjustmentConsumed(u, "COMPLETED_SALE_CORE")
  <2> DEFINE f == [r \in Refunds |-> refund[r].against[u]]
             g == [r \in Refunds |-> refund'[r].against[u]]
  <2>1. \A r \in Refunds : /\ f[r] \in Int
                           /\ r \in R' => g[r] = f[r] /\ r \in R
                           /\ r \in R /\ r \notin R' => f[r] = 0
    BY <1>2, <1>3, <1>4
  <2> HIDE DEF f, g
  <2>2. Total(f, R) = Total(g, R')
    BY <1>1, <2>1, FiniteAssumption, TotalAgree
  <2> QED BY <2>2 DEF f, g, R, AdjustmentConsumed
<1> QED BY <1>5, <1>6

\* A Check reads the same in the core snapshot.
LEMMA CoreCheckStays ==
  ASSUME IInv, Next, session = "CLOSED", NEW k \in Checks
  PROVE  CheckRead(k, "COMPLETED_SALE_CORE")' = CheckRead(k, "COMPLETED_SALE_CORE")
<1> DEFINE core == "COMPLETED_SALE_CORE"
<1>1. check' = check /\ payment' = payment
  BY AfterEnd
<1>2. ComputeCheckFinancials(Inputs(k))' = ComputeCheckFinancials(Inputs(k))
  BY ListsStay DEF ComputeCheckFinancials
<1>3. [p \in ListCheckPayments(k) |-> PaymentRead(p, core)]'
        = [p \in ListCheckPayments(k) |-> PaymentRead(p, core)]
  BY <1>1, ListsStay, CoreConsumptionStays DEF PaymentRead, ListCheckPayments
<1>4. [u \in ChargedTo(k) |-> AllocationRead(u)]' = [u \in ChargedTo(k) |-> AllocationRead(u)]
  BY RowsStay, ListsStay DEF AllocationRead, ChargedTo
<1>5. [u \in ListCheckChargeAdjustments(k) |-> AdjustmentRead(u, core)]'
        = [u \in ListCheckChargeAdjustments(k) |-> AdjustmentRead(u, core)]
  <2>1. ListCheckChargeAdjustments(k) \in SUBSET Units
    BY DEF ListCheckChargeAdjustments, Adjusted, ChargedTo
  <2>2. \A u \in ListCheckChargeAdjustments(k) : AdjustmentRead(u, core)' = AdjustmentRead(u, core)
    BY <2>1, CoreConsumptionStays DEF AdjustmentRead
  <2> QED BY <2>2, ListsStay
<1>6. [r \in ListCheckRefunds(k) |-> refund[r]]' = [r \in ListCheckRefunds(k) |-> refund[r]]
  <2>1. \A r \in ListCheckRefunds(k) : refund'[r] = refund[r]
    BY RowsStay, NoCheckAssumption DEF ListCheckRefunds, RefundsOn
  <2> QED BY <2>1, ListsStay
<1> QED BY <1>1, <1>2, <1>3, <1>4, <1>5, <1>6 DEF CheckRead

\* A correction stays, and what it leaves to allocate or owe only falls.
LEMMA CorrectionsGrow ==
  ASSUME IInv, Next, session = "CLOSED", NEW u \in PostSaleComps
  PROVE  /\ u \in PostSaleComps'
         /\ CompRefunds(u) \subseteq CompRefunds(u)'
         /\ CorrectionRead(u).remaining' <= CorrectionRead(u).remaining
         /\ CorrectionRead(u).outstanding' <= CorrectionRead(u).outstanding
<1> DEFINE f == [r \in Refunds |-> refund[r].against[u]]
           g == [r \in Refunds |-> refund'[r].against[u]]
           all == CompRefunds(u)
           done == {r \in all : refund[r].completed}
<1>1. u \in Units /\ u \in PostSaleComps'
  BY RowsStay DEF PostSaleComps
<1>2. all \subseteq all'
  BY RowsStay DEF CompRefunds, PostSaleRefunds
<1>3. done \subseteq done'
  BY <1>2, RowsStay DEF CompRefunds, PostSaleRefunds
<1>4. /\ all \in SUBSET Refunds /\ all' \in SUBSET Refunds
      /\ done \in SUBSET all /\ done' \in SUBSET all'
  BY DEF CompRefunds, PostSaleRefunds
<1>5. \A r \in all : g[r] = f[r]
  BY RowsStay DEF CompRefunds, PostSaleRefunds
<1>6. refund' \in [Refunds -> RefundRow] /\ refund \in [Refunds -> RefundRow]
  BY NextKeeps DEF IInv, Types
<1>7. \A r \in Refunds : f[r] \in Nat /\ g[r] \in Nat
  BY <1>1, <1>6 DEF RefundRow
<1>8. /\ CorrectionRead(u).remaining = Price[u] - Total(f, all)
      /\ CorrectionRead(u).remaining' = Price[u] - Total(g, all')
      /\ CorrectionRead(u).outstanding = Price[u] - Total(f, done)
      /\ CorrectionRead(u).outstanding' = Price[u] - Total(g, done')
  BY DEF CorrectionRead
<1> HIDE DEF f, g, all, done
<1>9. ASSUME NEW A \in SUBSET Refunds, NEW B \in SUBSET Refunds, A \subseteq B, A \subseteq all
      PROVE  Price[u] - Total(g, B) <= Price[u] - Total(f, A)
  <2>1. Total(f, A) = Total(g, A)
    BY <1>5, <1>9, Finite, TotalCongruence
  <2>2. Total(g, A) <= Total(g, B) /\ Total(g, A) \in Nat /\ Total(g, B) \in Nat
    BY <1>7, <1>9, Finite, TotalPart, TotalNat
  <2>3. Price[u] \in Nat
    BY <1>1, PriceAssumption
  <2> QED BY <2>1, <2>2, <2>3
<1>10. /\ CorrectionRead(u).remaining' <= CorrectionRead(u).remaining
       /\ CorrectionRead(u).outstanding' <= CorrectionRead(u).outstanding
  BY <1>2, <1>3, <1>4, <1>8, <1>9
<1> QED BY <1>1, <1>2, <1>10 DEF all

\* A Completed Sale reads the same for ever, and its corrections only grow.
THEOREM SaleStaysReadable == Spec => SaleReadsTheSame
<1> DEFINE Grows ==
      FindCompletedSale =>
          /\ FindCompletedSale'
          /\ CompletedSaleCore' = CompletedSaleCore
          /\ \A u \in PostSaleComps :
                /\ u \in PostSaleComps'
                /\ CompRefunds(u) \subseteq CompRefunds(u)'
                /\ CorrectionRead(u).remaining' <= CorrectionRead(u).remaining
                /\ CorrectionRead(u).outstanding' <= CorrectionRead(u).outstanding
<1>1. ASSUME IInv, Next, session = "CLOSED"
      PROVE  Grows
  <2>1. FindCompletedSale' /\ mode' = mode /\ check' = check
    BY <1>1, AfterEnd DEF FindCompletedSale
  <2>2. ListSessionChecks' = ListSessionChecks /\ ListSessionChecks \in SUBSET Checks
    BY <2>1 DEF ListSessionChecks
  <2>3. LoadChecks("COMPLETED_SALE_CORE")' = LoadChecks("COMPLETED_SALE_CORE")
    BY <1>1, <2>2, CoreCheckStays DEF LoadChecks
  <2>4. LoadPreparationUnits' = LoadPreparationUnits
    BY <1>1, RowsStay DEF LoadPreparationUnits, ListSessionPreparationUnits
  <2>5. CompletedSaleCore' = CompletedSaleCore
    BY <2>1, <2>3, <2>4 DEF CompletedSaleCore
  <2> QED BY <1>1, <2>1, <2>5, CorrectionsGrow
<1>2. IInv /\ [Next]_vars => [Grows]_vars
  BY <1>1 DEF FindCompletedSale
<1> QED BY Inductive, <1>2, PTL DEF Spec, SaleReadsTheSame

-----------------------------------------------------------------------------
(* The Session's tab.                                                      *)

\* What is due, owed, kept and promised are sums of natural numbers.
LEMMA TabNumbers ==
  ASSUME IInv
  PROVE  /\ \A k \in Checks :
               /\ Balance(k) \in Nat /\ Obligation(k) \in Nat
               /\ EffectiveReceived(k) \in Nat /\ Reserved(k, "LIVE_CHECK") \in Nat
               /\ Balance(k) <= Due /\ Obligation(k) <= Owed
         /\ Due \in Nat /\ Owed \in Nat /\ Kept \in Nat /\ Promised \in Nat
<1> DEFINE due == [k \in Checks |-> Balance(k)]
           owed == [k \in Checks |-> Obligation(k)]
           kept == [k \in Checks |-> EffectiveReceived(k)]
           promised == [k \in Checks |-> Reserved(k, "LIVE_CHECK")]
<1>1. ASSUME NEW k \in Checks
      PROVE  /\ Balance(k) \in Nat /\ Obligation(k) \in Nat
             /\ EffectiveReceived(k) \in Nat /\ Reserved(k, "LIVE_CHECK") \in Nat
  <2>1. /\ check[k].charge \in Nat /\ EffectiveReceived(k) \in Nat
        /\ Reserved(k, "LIVE_CHECK") \in Nat
    BY Receipt DEF IInv, Scopes
  <2> QED BY <2>1 DEF Balance, BalanceAt, Obligation, Monus
<1>2. \A k \in Checks : /\ due[k] \in Nat /\ owed[k] \in Nat
                        /\ kept[k] \in Nat /\ promised[k] \in Nat
                        /\ due[k] = Balance(k) /\ owed[k] = Obligation(k)
  BY <1>1
<1>3. /\ Due = Total(due, Checks) /\ Owed = Total(owed, Checks)
      /\ Kept = Total(kept, Checks) /\ Promised = Total(promised, Checks)
  BY DEF Due, Owed, Kept, Promised
<1> HIDE DEF due, owed, kept, promised
<1>4. /\ Total(due, Checks) \in Nat /\ Total(owed, Checks) \in Nat
      /\ Total(kept, Checks) \in Nat /\ Total(promised, Checks) \in Nat
  BY <1>2, FiniteAssumption, TotalNat
<1>5. \A k \in Checks : due[k] <= Total(due, Checks) /\ owed[k] <= Total(owed, Checks)
  BY <1>2, FiniteAssumption, TotalTerm
<1> QED BY <1>1, <1>2, <1>3, <1>4, <1>5

\* A step that moves no Check's money does not move the tab.
LEMMA TabStays ==
  ASSUME IInv, MoneyStays
  PROVE  UNCHANGED <<Due, Owed, Kept, Promised>>
<1>1. \A k \in Checks : /\ Balance(k)' = Balance(k) /\ Obligation(k)' = Obligation(k)
                        /\ EffectiveReceived(k)' = EffectiveReceived(k)
                        /\ Reserved(k, "LIVE_CHECK")' = Reserved(k, "LIVE_CHECK")
  BY DEF MoneyStays, Balance, BalanceAt, Obligation
<1> QED BY <1>1 DEF Due, Owed, Kept, Promised

\* The tab moves by as much as the one Check that does.
LEMMA TabMoves ==
  ASSUME IInv, NEW k \in Checks, NEW charge \in Int, NEW received \in Int, NEW promised \in Int,
         MovesMoney(k, charge, received, promised)
  PROVE  LET c == check[k].charge
             e == EffectiveReceived(k)
         IN  /\ c \in Nat /\ e \in Nat
             /\ Due' = Due + (Monus(c + charge, e + received) - Monus(c, e))
             /\ Owed' = Owed + (Monus(e + received, c + charge) - Monus(e, c))
             /\ Kept' = Kept + received
             /\ Promised' = Promised + promised
<1> DEFINE c == check[k].charge
           e == EffectiveReceived(k)
<1>1. /\ c \in Nat /\ e \in Nat /\ Reserved(k, "LIVE_CHECK") \in Nat
      /\ Balance(k) = Monus(c, e) /\ Obligation(k) = Monus(e, c)
  BY Receipt DEF IInv, Scopes, Balance, BalanceAt, Obligation
<1>2. /\ Balance(k)' = Monus(c + charge, e + received)
      /\ Obligation(k)' = Monus(e + received, c + charge)
      /\ EffectiveReceived(k)' = e + received
      /\ Reserved(k, "LIVE_CHECK")' = Reserved(k, "LIVE_CHECK") + promised
  BY DEF MovesMoney, Balance, BalanceAt, Obligation
<1>3. \A j \in Checks \ {k} :
         /\ Balance(j)' = Balance(j) /\ Obligation(j)' = Obligation(j)
         /\ EffectiveReceived(j)' = EffectiveReceived(j)
         /\ Reserved(j, "LIVE_CHECK")' = Reserved(j, "LIVE_CHECK")
  BY DEF MovesMoney, Balance, BalanceAt, Obligation
<1> HIDE DEF c, e
<1>4. /\ Monus(c + charge, e + received) \in Int /\ Monus(c, e) \in Int
      /\ Monus(e + received, c + charge) \in Int /\ Monus(e, c) \in Int
  BY <1>1 DEF Monus
<1>5. \A j \in Checks :
         /\ Balance(j) \in Int /\ Obligation(j) \in Int
         /\ EffectiveReceived(j) \in Int /\ Reserved(j, "LIVE_CHECK") \in Int
         /\ Balance(j)' \in Int /\ Obligation(j)' \in Int
         /\ EffectiveReceived(j)' \in Int /\ Reserved(j, "LIVE_CHECK")' \in Int
  <2> TAKE j \in Checks
  <2>1. /\ Balance(j) \in Int /\ Obligation(j) \in Int
        /\ EffectiveReceived(j) \in Int /\ Reserved(j, "LIVE_CHECK") \in Int
    BY TabNumbers
  <2>2. CASE j = k
    BY <1>1, <1>2, <1>4, <2>1, <2>2
  <2>3. CASE j # k
    BY <1>3, <2>1, <2>3
  <2> QED BY <2>2, <2>3
<1>6. Due' = Due + (Balance(k)' - Balance(k))
  <2> DEFINE f == [j \in Checks |-> Balance(j)]
             g == [j \in Checks |-> Balance(j)']
  <2>1. Due = Total(f, Checks) /\ Due' = Total(g, Checks)
    BY DEF Due
  <2>2. /\ \A j \in Checks : f[j] \in Int /\ g[j] \in Int
        /\ \A j \in Checks \ {k} : g[j] = f[j]
        /\ f[k] = Balance(k) /\ g[k] = Balance(k)'
    BY <1>3, <1>5
  <2> HIDE DEF f, g
  <2> QED BY <2>1, <2>2, FiniteAssumption, TotalUpdate
<1>7. Owed' = Owed + (Obligation(k)' - Obligation(k))
  <2> DEFINE f == [j \in Checks |-> Obligation(j)]
             g == [j \in Checks |-> Obligation(j)']
  <2>1. Owed = Total(f, Checks) /\ Owed' = Total(g, Checks)
    BY DEF Owed
  <2>2. /\ \A j \in Checks : f[j] \in Int /\ g[j] \in Int
        /\ \A j \in Checks \ {k} : g[j] = f[j]
        /\ f[k] = Obligation(k) /\ g[k] = Obligation(k)'
    BY <1>3, <1>5
  <2> HIDE DEF f, g
  <2> QED BY <2>1, <2>2, FiniteAssumption, TotalUpdate
<1>8. Kept' = Kept + received
  <2> DEFINE f == [j \in Checks |-> EffectiveReceived(j)]
             g == [j \in Checks |-> EffectiveReceived(j)']
  <2>1. Kept = Total(f, Checks) /\ Kept' = Total(g, Checks)
    BY DEF Kept
  <2>2. /\ \A j \in Checks : f[j] \in Int /\ g[j] \in Int
        /\ \A j \in Checks \ {k} : g[j] = f[j]
        /\ f[k] = e /\ g[k] = e + received
    BY <1>2, <1>3, <1>5 DEF e
  <2> HIDE DEF f, g
  <2>3. Total(g, Checks) = Total(f, Checks) + (g[k] - f[k])
    BY <2>2, FiniteAssumption, TotalUpdate
  <2> QED BY <1>1, <2>1, <2>2, <2>3
<1>9. Promised' = Promised + promised
  <2> DEFINE f == [j \in Checks |-> Reserved(j, "LIVE_CHECK")]
             g == [j \in Checks |-> Reserved(j, "LIVE_CHECK")']
  <2>1. Promised = Total(f, Checks) /\ Promised' = Total(g, Checks)
    BY DEF Promised
  <2>2. /\ \A j \in Checks : f[j] \in Int /\ g[j] \in Int
        /\ \A j \in Checks \ {k} : g[j] = f[j]
        /\ f[k] = Reserved(k, "LIVE_CHECK") /\ g[k] = Reserved(k, "LIVE_CHECK") + promised
    BY <1>2, <1>3, <1>5
  <2> HIDE DEF f, g
  <2>3. Total(g, Checks) = Total(f, Checks) + (g[k] - f[k])
    BY <2>2, FiniteAssumption, TotalUpdate
  <2> QED BY <1>1, <2>1, <2>2, <2>3
<1> QED BY <1>1, <1>2, <1>6, <1>7, <1>8, <1>9 DEF c, e

\* Charges that fall take off what is due, or leave it owed back.
LEMMA LowerIsTakeOff ==
  ASSUME IInv, IInv', NEW D \in SUBSET Units, LowerCharges(D), session = "ACTIVE",
         UNCHANGED <<session, payment, refund>>
  PROVE  Tab!TakeOff
<1>1. ASSUME NEW k \in Checks
      PROVE  /\ EffectiveReceived(k)' = EffectiveReceived(k)
             /\ Reserved(k, "LIVE_CHECK")' = Reserved(k, "LIVE_CHECK")
             /\ Balance(k)' <= Balance(k) /\ Obligation(k)' >= Obligation(k)
             /\ Balance(k)' \in Int /\ Obligation(k)' \in Int
  <2>1. /\ EffectiveReceived(k)' = EffectiveReceived(k)
        /\ Reserved(k, "LIVE_CHECK")' = Reserved(k, "LIVE_CHECK")
    BY SameReceipt, SameRefunds DEF Scopes
  <2>2. EffectiveReceived(k) \in Nat /\ check[k].charge \in Nat
    BY Receipt DEF IInv
  <2>3. check'[k].charge \in Nat /\ check'[k].charge <= check[k].charge
    <3>1. check'[k].charge \in Nat
      BY DEF IInv, Types, CheckRow
    <3>2. Prices(D \cap ChargedTo(k)) \in Nat
      BY PricesType
    <3>3. \/ check'[k] = check[k]
          \/ check'[k].charge = check[k].charge - Prices(D \cap ChargedTo(k))
      BY DEF LowerCharges
    <3> QED BY <2>2, <3>1, <3>2, <3>3
  <2> QED BY <2>1, <2>2, <2>3 DEF Balance, BalanceAt, Obligation, Monus
<1>2. Kept' = Kept /\ Promised' = Promised
  BY <1>1 DEF Kept, Promised
<1>3. Due' <= Due
  <2> DEFINE f == [j \in Checks |-> Balance(j)']
             g == [j \in Checks |-> Balance(j)]
  <2>1. Due' = Total(f, Checks) /\ Due = Total(g, Checks)
    BY DEF Due
  <2>2. \A j \in Checks : f[j] \in Int /\ g[j] \in Int /\ f[j] <= g[j]
    BY <1>1, TabNumbers
  <2> HIDE DEF f, g
  <2> QED BY <2>1, <2>2, FiniteAssumption, TotalMonotone
<1>4. Owed' >= Owed
  <2> DEFINE f == [j \in Checks |-> Obligation(j)]
             g == [j \in Checks |-> Obligation(j)']
  <2>1. Owed = Total(f, Checks) /\ Owed' = Total(g, Checks)
    BY DEF Owed
  <2>2. \A j \in Checks : f[j] \in Int /\ g[j] \in Int /\ f[j] <= g[j]
    BY <1>1, TabNumbers
  <2> HIDE DEF f, g
  <2>3. Total(f, Checks) <= Total(g, Checks)
    BY <2>2, FiniteAssumption, TotalMonotone
  <2>4. Total(f, Checks) \in Int /\ Total(g, Checks) \in Int
    BY <2>2, FiniteAssumption, TotalInt
  <2> QED BY <2>1, <2>3, <2>4
<1> QED BY <1>2, <1>3, <1>4 DEF Tab!TakeOff

KeptGood == Kept \in Nat

\* What the Session holds is never negative: stated apart, to be had of the next
\* state too.
LEMMA KeptNumber == IInv => KeptGood
BY TabNumbers DEF KeptGood

\* The same Payments, Refunds and charges leave the tab as it was.
LEMMA SameMoney ==
  ASSUME IInv, UNCHANGED <<session, payment, refund>>,
         \A k \in Checks : check'[k].charge = check[k].charge
  PROVE  UNCHANGED Tab!tabVars
<1>1. MoneyStays
  BY SameReceipt, SameRefunds DEF MoneyStays, Scopes
<1> QED BY <1>1, TabStays DEF Tab!tabVars

\* A draft goes on a Check that owes nothing back: it is wholly due.
LEMMA CommitIsCharge ==
  ASSUME IInv, NEW D \in SUBSET Units, NEW k \in Checks, CommitDraft(D, k)
  PROVE  Tab!Charge
<1> DEFINE c == check[k].charge
           e == EffectiveReceived(k)
           a == Prices(D)
<1>1. MovesMoney(k, a, 0, 0) /\ a > 0 /\ c >= e /\ a \in Nat
  BY CommitKeeps, PricesType
<1>2. session = "ACTIVE" /\ session' = "ACTIVE"
  BY <1>1 DEF MovesMoney
<1>3. /\ c \in Nat /\ e \in Nat
      /\ Due' = Due + (Monus(c + a, e + 0) - Monus(c, e))
      /\ Owed' = Owed + (Monus(e + 0, c + a) - Monus(e, c))
      /\ Kept' = Kept + 0 /\ Promised' = Promised + 0
  BY <1>1, TabMoves
<1>4. Due \in Nat /\ Owed \in Nat /\ Kept \in Nat /\ Promised \in Nat
  BY TabNumbers
<1> HIDE DEF a, c, e
<1>5. Due' > Due /\ Owed' = Owed /\ Kept' = Kept /\ Promised' = Promised
  BY <1>1, <1>3, <1>4 DEF Monus
<1> QED BY <1>2, <1>5 DEF Tab!Charge

\* A Payment is no larger than the balance of its Check, hence than what is due.
LEMMA PaymentIsReceive ==
  ASSUME IInv, NEW k \in Checks, NEW p \in Payments, NEW m \in Methods, NEW a \in Nat,
         RecordPayment(k, p, m, a)
  PROVE  Tab!Receive
<1> DEFINE c == check[k].charge
           e == EffectiveReceived(k)
<1>1. MovesMoney(k, 0, a, 0) /\ a > 0 /\ a <= Balance(k)
  BY PaymentKeeps DEF RecordPayment
<1>2. session = "ACTIVE" /\ session' = "ACTIVE"
  BY <1>1 DEF MovesMoney
<1>3. /\ c \in Nat /\ e \in Nat
      /\ Due' = Due + (Monus(c + 0, e + a) - Monus(c, e))
      /\ Owed' = Owed + (Monus(e + a, c + 0) - Monus(e, c))
      /\ Kept' = Kept + a /\ Promised' = Promised + 0
  BY <1>1, TabMoves
<1>4. /\ Due \in Nat /\ Owed \in Nat /\ Kept \in Nat /\ Promised \in Nat
      /\ Balance(k) <= Due /\ Balance(k) \in Nat
  BY TabNumbers
<1>5. a <= Monus(c, e)
  BY <1>1 DEF Balance, BalanceAt
<1> HIDE DEF c, e
<1>6. Due' = Due - a /\ Owed' = Owed /\ Promised' = Promised
  BY <1>1, <1>3, <1>4, <1>5 DEF Monus
<1>7. a \in 1 .. Due
  BY <1>1, <1>4
<1> QED BY <1>2, <1>3, <1>6, <1>7 DEF Tab!Receive

\* A Void makes what it uncovers due again, after what was owed back for it.
LEMMA VoidIsTakeBack ==
  ASSUME IInv, IInv', NEW p \in Payments, VoidPayment(p)
  PROVE  Tab!TakeBack \/ UNCHANGED Tab!tabVars
<1>1. PICK k \in Checks, a \in Nat : MovesMoney(k, 0, 0 - a, 0)
  BY VoidKeeps
<1> DEFINE c == check[k].charge
           e == EffectiveReceived(k)
<1>2. session = "ACTIVE" /\ session' = "ACTIVE"
  BY <1>1 DEF MovesMoney
<1>3. /\ c \in Nat /\ e \in Nat
      /\ Due' = Due + (Monus(c + 0, e + (0 - a)) - Monus(c, e))
      /\ Owed' = Owed + (Monus(e + (0 - a), c + 0) - Monus(e, c))
      /\ Kept' = Kept + (0 - a) /\ Promised' = Promised + 0
  BY <1>1, TabMoves
<1>4. Due \in Nat /\ Owed \in Nat /\ Kept \in Nat /\ Promised \in Nat
  BY TabNumbers
<1>5. Kept' \in Nat
  <2>1. IInv' => KeptGood'
    BY KeptNumber, PTL
  <2> QED BY <2>1 DEF KeptGood
<1> HIDE DEF c, e
<1>6. /\ Due' >= Due /\ Owed' <= Owed /\ Promised' = Promised
      /\ Kept' = Kept - (Due' - Due) - (Owed - Owed')
  BY <1>3, <1>4 DEF Monus
<1>7. CASE a = 0
  <2>1. Due' = Due /\ Owed' = Owed /\ Kept' = Kept
    BY <1>3, <1>4, <1>7 DEF Monus
  <2> QED BY <1>2, <1>6, <2>1 DEF Tab!tabVars
<1>8. CASE a # 0
  <2>1. 0 <= Kept' /\ Kept' < Kept
    BY <1>3, <1>4, <1>5, <1>8
  <2> QED BY <1>2, <1>6, <2>1 DEF Tab!TakeBack
<1> QED BY <1>7, <1>8

\* Money given back, promised before or not, is no more than was owed.
LEMMA ReturnIsGiveBack ==
  ASSUME IInv, NEW k \in Checks, NEW a \in Nat \ {0}, a <= Obligation(k),
         NEW promised \in {0, 0 - a}, MovesMoney(k, 0, 0 - a, promised)
  PROVE  Tab!GiveBack
<1> DEFINE c == check[k].charge
           e == EffectiveReceived(k)
<1>1. session = "ACTIVE" /\ session' = "ACTIVE"
  BY DEF MovesMoney
<1>2. 0 \in Int /\ 0 - a \in Int /\ promised \in Int
  OBVIOUS
<1> DEFINE b == 0 - a
<1> HIDE DEF b
<1>b. b \in Int /\ b = 0 - a /\ MovesMoney(k, 0, b, promised)
  BY <1>2 DEF b
<1>3. /\ c \in Nat /\ e \in Nat
      /\ Due' = Due + (Monus(c + 0, e + b) - Monus(c, e))
      /\ Owed' = Owed + (Monus(e + b, c + 0) - Monus(e, c))
      /\ Kept' = Kept + b /\ Promised' = Promised + promised
  BY <1>2, <1>b, TabMoves
<1>4. /\ Due \in Nat /\ Owed \in Nat /\ Kept \in Nat /\ Promised \in Nat
      /\ Obligation(k) <= Owed /\ Obligation(k) \in Nat
  BY TabNumbers
<1>5. a <= Monus(e, c)
  BY DEF Obligation
<1> HIDE DEF c, e
<1>6. Due' = Due /\ Owed' = Owed - a /\ Kept' = Kept - a
  BY <1>b, <1>3, <1>4, <1>5 DEF Monus
<1>7. Promised' = Promised \/ Promised' = Promised - a
  BY <1>3, <1>4
<1>8. a \in 1 .. Owed
  BY <1>4
<1> QED BY <1>1, <1>6, <1>7, <1>8 DEF Tab!GiveBack

\* A Manual QR intent promises no more than is owed, and moves no money.
LEMMA IntentIsPromise ==
  ASSUME IInv, NEW k \in Checks, NEW a \in Nat \ {0}, a <= Obligation(k),
         MovesMoney(k, 0, 0, a)
  PROVE  Tab!Promise
<1> DEFINE c == check[k].charge
           e == EffectiveReceived(k)
<1>1. session = "ACTIVE" /\ session' = "ACTIVE"
  BY DEF MovesMoney
<1>2. /\ c \in Nat /\ e \in Nat
      /\ Due' = Due + (Monus(c + 0, e + 0) - Monus(c, e))
      /\ Owed' = Owed + (Monus(e + 0, c + 0) - Monus(e, c))
      /\ Kept' = Kept + 0 /\ Promised' = Promised + a
  BY TabMoves
<1>3. /\ Due \in Nat /\ Owed \in Nat /\ Kept \in Nat /\ Promised \in Nat
      /\ Obligation(k) <= Owed /\ Obligation(k) \in Nat
  BY TabNumbers
<1> HIDE DEF c, e
<1>4. Due' = Due /\ Owed' = Owed /\ Kept' = Kept
  BY <1>2, <1>3 DEF Monus
<1>5. a \in 1 .. Owed
  BY <1>3
<1> QED BY <1>1, <1>2, <1>4, <1>5 DEF Tab!Promise

\* A Refund gives back or promises; a Completed Sale's Refund is not on the tab.
LEMMA RefundKeepsTab ==
  ASSUME IInv
  PROVE  /\ \A k \in Checks, r \in Refunds, m \in Methods :
               RecordRefund(k, r, m) => [Tab!TabNext]_(Tab!tabVars)
         /\ \A r \in Refunds : ConfirmRefund(r) => [Tab!TabNext]_(Tab!tabVars)
<1>1. ASSUME NEW k \in Checks, NEW r \in Refunds, NEW m \in Methods, RecordRefund(k, r, m)
      PROVE  [Tab!TabNext]_(Tab!tabVars)
  <2>1. CASE session = "ACTIVE"
    <3>1. PICK a \in Nat \ {0} :
             /\ a <= Obligation(k)
             /\ MovesMoney(k, 0, 0 - a, 0) \/ MovesMoney(k, 0, 0, a)
      BY <1>1, <2>1, RefundKeeps
    <3>2. Tab!GiveBack \/ Tab!Promise
      BY <3>1, ReturnIsGiveBack, IntentIsPromise
    <3> QED BY <3>2 DEF Tab!TabNext
  <2>2. CASE session # "ACTIVE"
    <3>1. MoneyStays
      BY <1>1, <2>2, RefundKeeps
    <3>2. session' = session
      BY <1>1 DEF RecordRefund
    <3> QED BY <3>1, <3>2, TabStays DEF Tab!tabVars
  <2> QED BY <2>1, <2>2
<1>2. ASSUME NEW r \in Refunds, ConfirmRefund(r)
      PROVE  [Tab!TabNext]_(Tab!tabVars)
  <2>1. CASE MoneyStays
    <3>1. session' = session
      BY <1>2 DEF ConfirmRefund
    <3> QED BY <2>1, <3>1, TabStays DEF Tab!tabVars
  <2>2. CASE \E k \in Checks, a \in Nat \ {0} :
                a <= Obligation(k) /\ MovesMoney(k, 0, 0 - a, 0 - a)
    <3>1. Tab!GiveBack
      BY <2>2, ReturnIsGiveBack
    <3> QED BY <3>1 DEF Tab!TabNext
  <2> QED BY <1>2, <2>1, <2>2, ConfirmKeeps
<1> QED BY <1>1, <1>2

\* A Session closes when every Check is covered and nothing is owed back: sums of
\* zeros.
LEMMA CloseIsClose ==
  ASSUME IInv, IInv', CloseSession
  PROVE  Tab!Close
<1>1. /\ session = "ACTIVE" /\ session' = "CLOSED"
      /\ UNCHANGED <<check, unit, payment, refund>>
  BY DEF CloseSession
<1>2. UNCHANGED <<Due, Owed, Kept, Promised>>
  <2>1. MoneyStays
    BY <1>1, SameReceipt, SameRefunds DEF MoneyStays, Scopes
  <2> QED BY <2>1, TabStays
<1>3. \A k \in Checks : Balance(k) = 0 /\ Obligation(k) = 0
  <2> TAKE k \in Checks
  <2>1. EffectiveReceived(k)' = check'[k].charge
    BY <1>1 DEF IInv, Ended
  <2>2. EffectiveReceived(k) = check[k].charge
    BY <1>1, <2>1, SameReceipt
  <2>3. check[k].charge \in Nat
    BY Receipt DEF IInv
  <2> QED BY <2>2, <2>3 DEF Balance, BalanceAt, Obligation, Monus
<1>4. Due = 0
  <2> DEFINE f == [k \in Checks |-> Balance(k)]
  <2>1. \A k \in Checks : f[k] = 0
    BY <1>3
  <2>2. Due = Total(f, Checks)
    BY DEF Due
  <2> HIDE DEF f
  <2> QED BY <2>1, <2>2, FiniteAssumption, TotalZero
<1>5. Owed = 0
  <2> DEFINE f == [k \in Checks |-> Obligation(k)]
  <2>1. \A k \in Checks : f[k] = 0
    BY <1>3
  <2>2. Owed = Total(f, Checks)
    BY DEF Owed
  <2> HIDE DEF f
  <2> QED BY <2>1, <2>2, FiniteAssumption, TotalZero
<1> QED BY <1>1, <1>2, <1>4, <1>5 DEF Tab!Close

\* A Session is abandoned with nothing kept and no intent pending.
LEMMA AbandonIsAbandon ==
  ASSUME IInv, AbandonCheckout
  PROVE  Tab!Abandon
<1>1. /\ session = "ACTIVE" /\ session' = "ABANDONED" /\ Kept = 0
      /\ UNCHANGED <<payment, refund>>
      /\ \A r \in Refunds : refund[r].on # NoCheck => refund[r].completed
  BY DEF AbandonCheckout, Kept
<1>2. UNCHANGED <<Due, Owed, Kept, Promised>>
  <2>1. check \in [Checks -> CheckRow]
    BY DEF IInv, Types
  <2>2. \A k \in Checks : check'[k].charge = check[k].charge
    BY <2>1 DEF AbandonCheckout, CheckRow
  <2>3. MoneyStays
    BY <1>1, <2>2, SameReceipt, SameRefunds DEF MoneyStays, Scopes
  <2> QED BY <2>3, TabStays
<1>3. Promised = 0
  <2> DEFINE f == [k \in Checks |-> Reserved(k, "LIVE_CHECK")]
  <2>1. \A k \in Checks : f[k] = 0
    <3> TAKE k \in Checks
    <3>1. {r \in RefundsOn(k, "LIVE_CHECK") : ~refund[r].completed} = {}
      BY <1>1, NoCheckAssumption DEF RefundsOn
    <3>2. Reserved(k, "LIVE_CHECK") = 0
      BY <3>1, TotalEmpty DEF Reserved
    <3> QED BY <3>2
  <2>2. Promised = Total(f, Checks)
    BY DEF Promised
  <2> HIDE DEF f
  <2> QED BY <2>1, <2>2, FiniteAssumption, TotalZero
<1> QED BY <1>1, <1>2, <1>3 DEF Tab!Abandon

\* Every command is a step of the tab, or leaves it alone.
LEMMA StepKeepsTab ==
  ASSUME IInv, [Next]_vars
  PROVE  [Tab!TabNext]_(Tab!tabVars)
<1>0. IInv'
  BY NextKeeps
<1>1. CASE WorkStep
  <2>1. ASSUME NEW D \in SUBSET Units, NEW k \in Checks, CommitDraft(D, k)
        PROVE  Tab!TabNext
    BY <2>1, CommitIsCharge DEF Tab!TabNext
  <2>2. ASSUME SubmitOrder \/ \E u \in Units : AdvanceUnit(u) \/ WasteUnit(u) \/ CorrectState(u)
        PROVE  UNCHANGED Tab!tabVars
    <3>1. UNCHANGED <<session, check, payment, refund>>
      BY <2>2 DEF SubmitOrder, AdvanceUnit, WasteUnit, CorrectState
    <3> QED BY <3>1, SameMoney
  <2> QED BY <1>1, <2>1, <2>2 DEF WorkStep
<1>2. CASE MoneyStep
  <2>1. ASSUME NEW k \in Checks, NEW p \in Payments, NEW m \in Methods,
               NEW a \in 1 .. Prices(Units), RecordPayment(k, p, m, a)
        PROVE  Tab!TabNext
    <3>1. a \in Nat
      BY PricesType
    <3> QED BY <2>1, <3>1, PaymentIsReceive DEF Tab!TabNext
  <2>2. ASSUME NEW p \in Payments, VoidPayment(p)
        PROVE  [Tab!TabNext]_(Tab!tabVars)
    BY <1>0, <2>2, VoidIsTakeBack DEF Tab!TabNext
  <2>3. ASSUME NEW D \in SUBSET Units, session = "ACTIVE", LowerCharges(D),
               UNCHANGED <<session, payment, refund>>
        PROVE  Tab!TabNext
    BY <1>0, <2>3, LowerIsTakeOff DEF Tab!TabNext
  <2>4. ASSUME NEW D \in SUBSET Units, CancelUnits(D)
        PROVE  Tab!TabNext
    BY <2>3, <2>4 DEF CancelUnits
  <2>5. ASSUME CancelAwaitingSubmission
        PROVE  Tab!TabNext
    BY <2>3, <2>5 DEF CancelAwaitingSubmission
  <2>6. ASSUME NEW u \in Units, CompWaste(u)
        PROVE  [Tab!TabNext]_(Tab!tabVars)
    <3>1. CASE session = "ACTIVE"
      <4>1. {u} \in SUBSET Units /\ LowerCharges({u}) /\ UNCHANGED <<session, payment, refund>>
        BY <2>6, <3>1 DEF CompWaste
      <4> QED BY <2>3, <3>1, <4>1
    <3>2. CASE session # "ACTIVE"
      <4>1. UNCHANGED <<session, check, payment, refund>>
        BY <2>6, <3>2 DEF CompWaste
      <4> QED BY <4>1, SameMoney
    <3> QED BY <3>1, <3>2
  <2> QED BY <1>2, <2>1, <2>2, <2>4, <2>5, <2>6, RefundKeepsTab DEF MoneyStep
<1>3. CASE CloseSession
  BY <1>0, <1>3, CloseIsClose DEF Tab!TabNext
<1>4. CASE AbandonCheckout
  BY <1>4, AbandonIsAbandon DEF Tab!TabNext
<1>5. CASE UNCHANGED vars
  <2>1. UNCHANGED <<session, check, payment, refund>>
    BY <1>5 DEF vars
  <2> QED BY <2>1, SameMoney
<1> QED BY <1>1, <1>2, <1>3, <1>4, <1>5 DEF Next

\* Before anything is ordered the tab is empty.
LEMMA InitTab == Init => Tab!TabInit
<1> SUFFICES ASSUME Init
             PROVE  Tab!TabInit
  OBVIOUS
<1>1. session = "ACTIVE"
  BY DEF Init
<1>2. ASSUME NEW k \in Checks
      PROVE  /\ check[k].charge = 0 /\ EffectiveReceived(k) = 0
             /\ Reserved(k, "LIVE_CHECK") = 0
             /\ Balance(k) = 0 /\ Obligation(k) = 0
  <2>1. check[k].charge = 0
    BY DEF Init
  <2>2. PaidOn(k) = {}
    BY NoCheckAssumption DEF Init, PaidOn, NoPayment
  <2>3. RefundsOn(k, "LIVE_CHECK") = {}
    BY NoCheckAssumption DEF Init, RefundsOn, NoRefund
  <2>4. /\ {r \in RefundsOn(k, "LIVE_CHECK") : refund[r].completed} = {}
        /\ {r \in RefundsOn(k, "LIVE_CHECK") : ~refund[r].completed} = {}
    BY <2>3
  <2>5. ValidPaid(k) = 0
    BY <2>2, TotalEmpty DEF ValidPaid
  <2>6. Returned(k, "LIVE_CHECK") = 0 /\ Reserved(k, "LIVE_CHECK") = 0
    BY <2>4, TotalEmpty DEF Returned, Reserved
  <2>7. EffectiveReceived(k) = 0
    BY <2>5, <2>6 DEF EffectiveReceived
  <2> QED BY <2>1, <2>6, <2>7 DEF Balance, BalanceAt, Obligation, Monus
<1>3. ASSUME NEW f, \A k \in Checks : f[k] = 0
      PROVE  Total(f, Checks) = 0
  BY <1>3, FiniteAssumption, TotalZero
<1>4. Due = 0 /\ Owed = 0
  BY <1>2, <1>3 DEF Due, Owed
<1>5. Kept = 0 /\ Promised = 0
  BY <1>2, <1>3 DEF Kept, Promised
<1> QED BY <1>1, <1>4, <1>5 DEF Tab!TabInit

\* Payments, Voids, Cancellations, Comps and Refunds in any order, over any number
\* of Checks: together they are one tab, closed square or abandoned empty.
THEOREM LedgerKeepsTab == Spec => ImplementsSaleTab
<1>1. IInv /\ [Next]_vars => [Tab!TabNext]_(Tab!tabVars)
  BY StepKeepsTab
<1> QED BY InitTab, Inductive, <1>1, PTL DEF Spec, ImplementsSaleTab, Tab!TabSpec
=============================================================================
