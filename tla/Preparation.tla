---------------------------- MODULE Preparation ----------------------------
(***************************************************************************)
(* The bar's work for one dine-in Service Session, and what it is charged  *)
(* to: Order Items split into numbered Preparation Units, the Charge       *)
(* Allocations that spread an item's quantity over Checks, the Split and   *)
(* Merge that rearrange them, and the corrections -- Cancellation, Comp,   *)
(* Waste, Remake, State Correction -- that read one to change the other.   *)
(*                                                                         *)
(* A unit holds no reference to its allocation: unit n of an item belongs  *)
(* to the allocation whose range of the item's running total, in order of  *)
(* creation, covers n.  Cancellation and Comp resolve that mapping before  *)
(* they hold a lock, so each is two steps; every other command reads only  *)
(* what its own locks protect and is one.  Which locks, and that they are  *)
(* held until commit, is RowLocks and SalesShift. Money is CheckLedger:  *)
(* here a Check has a charge, a receipt and whether it ever took money.    *)
(***************************************************************************)
EXTENDS Integers, FiniteSets, Sequences, SequencesExt, Sums

CONSTANTS
    Items,         \* Committed Items the Session may come to have
    Quantity,      \* Item -> its ordered quantity
    Price,         \* Item -> its frozen unit price
    Checks,        \* Checks the Session may come to have
    NoCheck,       \* "no Check"
    MaxRemakes,    \* bound: Item -> its Remakes
    Acknowledged,  \* bound: units whose alert is ever acknowledged
    MaxInFlight    \* bound: Cancellations and Comps between their two steps

ASSUME QuantityAssumption == Quantity \in [Items -> Nat \ {0}]
ASSUME PriceAssumption == Price \in [Items -> Nat \ {0}]
ASSUME BoundAssumption == MaxRemakes \in [Items -> Nat]
ASSUME NoCheckAssumption == NoCheck \notin Checks
ASSUME FiniteAssumption == IsFiniteSet(Items) /\ IsFiniteSet(Checks)

VARIABLES
    session,    \* service_sessions.state
    check,      \* Check -> state, stored charge, effective receipt, ever paid
    alloc,      \* Item -> its Charge Allocations in order of creation
    unit,       \* <<item, unit_number>> -> the Preparation Unit and its facts
    resolved    \* Cancellations and Comps that resolved their mapping

vars == <<session, check, alloc, unit, resolved>>

Numbers(i) == 1 .. Quantity[i] + MaxRemakes[i]
Units == UNION {{i} \X Numbers(i) : i \in Items}
Standard == UNION {{i} \X (1 .. Quantity[i]) : i \in Items}

States == {"QUEUED", "IN_PREPARATION", "READY", "FULFILLED", "CANCELLED", "WASTED"}
Terminal == {"FULFILLED", "CANCELLED", "WASTED"}

CheckRow ==
    [state : {"ABSENT", "OPEN", "SETTLED", "MERGED"}, charge : Nat, received : Nat, paid : BOOLEAN]
Allocation == [on : Checks, quantity : Nat \ {0}]
\* adjusted is the scope of the unit's one Charge Adjustment and on its Check;
\* of is remake_of, the number of the wasted unit this one replaces, or 0.
UnitRow ==
    [state : States \cup {"NONE"}, of : Nat, alert : {"NONE", "RAISED", "ACKNOWLEDGED"},
     adjusted : {"NONE", "LIVE_CHECK", "POST_SALE"}, on : Checks \cup {NoCheck}]
Request(kind, at) == [kind |-> kind, at |-> at]

NoUnit == [state |-> "NONE", of |-> 0, alert |-> "NONE", adjusted |-> "NONE", on |-> NoCheck]
Queued(n) == [NoUnit EXCEPT !.state = "QUEUED", !.of = n]

Init ==
    /\ session = "ACTIVE"
    /\ check = [k \in Checks |->
                   [state |-> "ABSENT", charge |-> 0, received |-> 0, paid |-> FALSE]]
    /\ alloc = [i \in Items |-> <<>>]
    /\ unit = [u \in Units |-> NoUnit]
    /\ resolved = {}

-----------------------------------------------------------------------------
(* What is derived from the rows.                                          *)

Existing == {u \in Units : unit[u].state # "NONE"}
Active == {u \in Existing : unit[u].state \notin Terminal}
Committed == {i \in Items : alloc[i] # <<>>}
Submitted == {i \in Items : unit[<<i, 1>>].state # "NONE"}

Pieces(s) == [r \in DOMAIN s |-> s[r].quantity]
RunningTotal(i, r) == Total(Pieces(alloc[i]), 1 .. r)
Covering(u) ==
    {r \in DOMAIN alloc[u[1]] : RunningTotal(u[1], r - 1) < u[2] /\ u[2] <= RunningTotal(u[1], r)}
\* ResolveCancellationUnits: a Remake was never charged.
ChargedTo(u) ==
    IF unit[u].of = 0 /\ Covering(u) # {} THEN alloc[u[1]][CHOOSE r \in Covering(u) : TRUE].on
    ELSE NoCheck
\* An ordered unit beyond every allocation is refused, never left uncharged.
Charged(S) == \A u \in S : unit[u].of = 0 => ChargedTo(u) # NoCheck

On(s, k) == {r \in DOMAIN s : s[r].on = k}
QuantityOn(s, k) == Total(Pieces(s), On(s, k))
BaseCharge(k) == Total([i \in Items |-> Price[i] * QuantityOn(alloc[i], k)], Items)
AdjustedOn(k, scope) == {u \in Units : unit[u].adjusted = scope /\ unit[u].on = k}
Prices(S) == Total([u \in S |-> Price[u[1]]], S)

Balance(k) ==
    IF check[k].charge > check[k].received THEN check[k].charge - check[k].received ELSE 0
Obligation(k) ==
    IF check[k].received > check[k].charge THEN check[k].received - check[k].charge ELSE 0

-----------------------------------------------------------------------------
(* Orders.                                                                 *)

\* Commit Order Draft: one draft at a time; its items are allocated to an OPEN
\* Check or a new one.  Which OPEN Check is the most recent is abstracted.
CommitOrderDraft(D, k) ==
    /\ session = "ACTIVE" /\ D # {}
    /\ Committed = Submitted /\ D \cap Committed = {}
    /\ check[k].state \in {"ABSENT", "OPEN"}
    /\ check' = [check EXCEPT ![k].state = "OPEN",
                              ![k].charge = @ + Total([i \in D |-> Price[i] * Quantity[i]], D)]
    /\ alloc' = [i \in Items |-> IF i \in D THEN <<[on |-> k, quantity |-> Quantity[i]]>>
                                            ELSE alloc[i]]
    /\ UNCHANGED <<session, unit, resolved>>

\* Submit Order: one Preparation Unit per ordered piece.
SubmitOrder ==
    /\ session = "ACTIVE" /\ Committed # Submitted
    /\ unit' = [u \in Units |-> IF u \in Standard /\ u[1] \in Committed \ Submitted
                                THEN Queued(0) ELSE unit[u]]
    /\ UNCHANGED <<session, check, alloc, resolved>>

-----------------------------------------------------------------------------
(* Check restructuring.                                                    *)

\* Looking only at the money.
UnpaidIsRestructurable(k) == check[k].state = "OPEN" /\ ~check[k].paid
\* A Check that has ever taken money or carries a live adjustment is evidence.
Restructurable(k) ==
    /\ check[k].state = "OPEN" /\ ~check[k].paid
    /\ AdjustedOn(k, "LIVE_CHECK") = {}

\* A second allocation for the same Check.
RaiseByAppending(s, k, m) == IF m = 0 THEN s ELSE Append(s, [on |-> k, quantity |-> m])
\* An allocation emptied by a move is deleted; one that receives keeps its
\* place in the order of creation, and a new one goes last.
Lower(s, k, m) ==
    LET source == CHOOSE r \in On(s, k) : TRUE
    IN  IF m = 0 THEN s
        ELSE IF m = s[source].quantity THEN RemoveAt(s, source)
        ELSE [s EXCEPT ![source].quantity = @ - m]
Raise(s, k, m) ==
    IF m = 0 THEN s
    ELSE IF QuantityOn(s, k) = 0 THEN Append(s, [on |-> k, quantity |-> m])
    ELSE [r \in DOMAIN s |-> IF s[r].on = k THEN [s[r] EXCEPT !.quantity = @ + m] ELSE s[r]]
Redirect(s, from, to) == [r \in DOMAIN s |-> IF s[r].on = from THEN [s[r] EXCEPT !.on = to] ELSE s[r]]

\* A request that resolved to a deleted allocation cannot resolve to it again,
\* not even when a later move allocates the item to the same Check.
Forget(emptied, k) ==
    {[r EXCEPT !.at = [u \in DOMAIN r.at |->
        IF u[1] \in emptied /\ r.at[u] = k THEN NoCheck ELSE r.at[u]]] : r \in resolved}

\* Split Check: move[i] pieces of each item go from one Check to another,
\* which may be a new one; the source may not be left empty.
SplitCheck(from, to, move) ==
    LET moved == Total([i \in Items |-> Price[i] * move[i]], Items)
        emptied == {i \in Items : move[i] # 0 /\ move[i] = QuantityOn(alloc[i], from)}
    IN  /\ session = "ACTIVE" /\ from # to
        /\ Restructurable(from)
        /\ check[to].state = "ABSENT" \/ Restructurable(to)
        /\ \A i \in Items : move[i] <= QuantityOn(alloc[i], from)
        /\ 0 < moved /\ moved < check[from].charge
        /\ alloc' = [i \in Items |-> Raise(Lower(alloc[i], from, move[i]), to, move[i])]
        /\ check' = [check EXCEPT ![from].charge = @ - moved,
                                  ![to].state = "OPEN", ![to].charge = @ + moved]
        /\ resolved' = Forget(emptied, from)
        /\ UNCHANGED <<session, unit>>

\* Merge Checks: an allocation of an item both Checks hold is combined into the
\* survivor's; any other keeps its place and changes Check.
MergeAllocations(s, surviving, absorbed) ==
    IF QuantityOn(s, surviving) = 0 THEN Redirect(s, absorbed, surviving)
    ELSE Raise(Lower(s, absorbed, QuantityOn(s, absorbed)), surviving, QuantityOn(s, absorbed))
MergeChecks(surviving, absorbed) ==
    /\ session = "ACTIVE" /\ surviving # absorbed
    /\ Restructurable(surviving) /\ Restructurable(absorbed)
    /\ alloc' = [i \in Items |-> MergeAllocations(alloc[i], surviving, absorbed)]
    /\ check' = [check EXCEPT ![surviving].charge = @ + check[absorbed].charge,
                              ![absorbed].state = "MERGED", ![absorbed].charge = 0]
    /\ UNCHANGED <<session, unit, resolved>>

-----------------------------------------------------------------------------
(* Money, as much of it as the rest depends on.                            *)

\* Record Payment: up to the balance, which settles the Check.
RecordPayment(k, amount) ==
    /\ session = "ACTIVE" /\ check[k].state = "OPEN"
    /\ amount # 0 /\ check[k].received + amount <= check[k].charge
    /\ check' = [check EXCEPT
           ![k].received = @ + amount, ![k].paid = TRUE,
           ![k].state = IF check[k].received + amount = check[k].charge THEN "SETTLED" ELSE @]
    /\ UNCHANGED <<session, alloc, unit, resolved>>

\* Record Refund, in cash: up to the obligation.
RecordRefund(k, amount) ==
    /\ session = "ACTIVE" /\ amount \in 1 .. Obligation(k)
    /\ check' = [check EXCEPT ![k].received = @ - amount]
    /\ UNCHANGED <<session, alloc, unit, resolved>>

\* The stored charge of each Check falls by its part of the removal, and an
\* OPEN Check that what was received now covers is settled.
RemovedFrom(at, k) == Prices({u \in DOMAIN at : at[u] = k})
ChargesAfter(at) ==
    [k \in Checks |->
        IF k \notin {at[u] : u \in DOMAIN at} THEN check[k]
        ELSE [check[k] EXCEPT
                !.charge = @ - RemovedFrom(at, k),
                !.state = IF @ = "OPEN" /\ check[k].charge - RemovedFrom(at, k) <= check[k].received
                          THEN "SETTLED" ELSE @]]
Covered(at) == \A k \in Checks : RemovedFrom(at, k) <= check[k].charge

-----------------------------------------------------------------------------
(* The bar.                                                                *)

Successor == [QUEUED |-> "IN_PREPARATION", IN_PREPARATION |-> "READY", READY |-> "FULFILLED"]
Targets == {"IN_PREPARATION", "READY", "FULFILLED"}
LegalAdvance(u, target) ==
    unit[u].state \in DOMAIN Successor /\ Successor[unit[u].state] = target
SetStates(S, state) == [u \in Units |-> IF u \in S THEN [unit[u] EXCEPT !.state = state] ELSE unit[u]]

\* Bulk Advance, and Advance on one unit.  Each unit has a savepoint: those the
\* transition is legal for advance, the others are reported, all in one
\* transaction.  No Session lock, no Session state.
AdvanceUnits(S, target) ==
    /\ \E u \in S : LegalAdvance(u, target)
    /\ unit' = SetStates({u \in S : LegalAdvance(u, target)}, target)
    /\ UNCHANGED <<session, check, alloc, resolved>>

\* Waste Unit, under the unit's lock alone.
WasteUnit(u) ==
    /\ unit[u].state \in {"IN_PREPARATION", "READY"}
    /\ unit' = [unit EXCEPT ![u].state = "WASTED", ![u].alert = "RAISED"]
    /\ UNCHANGED <<session, check, alloc, resolved>>

\* Acknowledge Alert, under the alert's lock alone.
AcknowledgeAlert(u) ==
    /\ unit[u].alert = "RAISED"
    /\ u \in Acknowledged
    /\ unit' = [unit EXCEPT ![u].alert = "ACKNOWLEDGED"]
    /\ UNCHANGED <<session, check, alloc, resolved>>

\* Remake: the item's next number, of an ACTIVE Session; one per Waste.
NextNumber(i) == 1 + Cardinality({u \in Existing : u[1] = i})
RemadeFrom(u) == {v \in Existing : v[1] = u[1] /\ unit[v].of = u[2]}
Unremade(u) == RemadeFrom(u) = {}
RemakeInAnySession(u) ==
    /\ unit[u].state = "WASTED" /\ Unremade(u)
    /\ NextNumber(u[1]) \in Numbers(u[1])
    /\ unit' = [unit EXCEPT ![<<u[1], NextNumber(u[1])>>] = Queued(u[2])]
    /\ UNCHANGED <<session, check, alloc, resolved>>
\* A Remake of whatever is finished, served or not.
RemakeFinished(u) ==
    /\ session = "ACTIVE"
    /\ unit[u].state \in Terminal /\ Unremade(u)
    /\ NextNumber(u[1]) \in Numbers(u[1])
    /\ unit' = [unit EXCEPT ![<<u[1], NextNumber(u[1])>>] = Queued(u[2])]
    /\ UNCHANGED <<session, check, alloc, resolved>>
RemakeUnit(u) ==
    /\ session = "ACTIVE"
    /\ unit[u].state = "WASTED" /\ Unremade(u)
    /\ NextNumber(u[1]) \in Numbers(u[1])
    /\ unit' = [unit EXCEPT ![<<u[1], NextNumber(u[1])>>] = Queued(u[2])]
    /\ UNCHANGED <<session, check, alloc, resolved>>

\* State Correction: all the units are one step past the target, or none moves.
CorrectState(S, target) ==
    /\ session = "ACTIVE" /\ S # {} /\ target \in DOMAIN Successor
    /\ \A u \in S : unit[u].state = Successor[target]
    /\ unit' = SetStates(S, target)
    /\ UNCHANGED <<session, check, alloc, resolved>>

-----------------------------------------------------------------------------
(* Cancellation and Comp.                                                  *)

Mapping(S) == [u \in S |-> ChargedTo(u)]
Resolve(kind, S) ==
    /\ Cardinality(resolved) < MaxInFlight
    /\ resolved' = resolved \cup {Request(kind, Mapping(S))}
    /\ UNCHANGED <<session, check, alloc, unit>>

ResolveCancellation(S) ==
    /\ S # {} /\ \A u \in S : unit[u].state = "QUEUED"
    /\ Charged(S) /\ Resolve("CANCEL", S)
ResolveComp(u) ==
    /\ unit[u].state = "WASTED" /\ unit[u].of = 0
    /\ Charged({u}) /\ Resolve("COMP", {u})

\* A request that trusts what it resolved.
TakenAsUnmoved(at) == TRUE
TakenAsQueued(at) == TRUE
\* What a request finds again under the locks of its Checks, its Session, the
\* Shift and its units.
Unmoved(at) == Mapping(DOMAIN at) = at /\ Charged(DOMAIN at)
StillQueued(at) == \A u \in DOMAIN at : unit[u].state = "QUEUED"

\* Cancel Units: the units, their alerts, one adjustment per charged unit, and
\* the charges, in one transaction.
Adjust(row, scope, k) == [row EXCEPT !.adjusted = scope, !.on = k]
\* The bar is not told.
CancelledSilently(u, k) ==
    LET row == [unit[u] EXCEPT !.state = "CANCELLED"]
    IN  IF k = NoCheck THEN row ELSE Adjust(row, "LIVE_CHECK", k)
Cancelled(u, k) ==
    LET row == [unit[u] EXCEPT !.state = "CANCELLED", !.alert = "RAISED"]
    IN  IF k = NoCheck THEN row ELSE Adjust(row, "LIVE_CHECK", k)
CancelUnits(r) ==
    /\ r \in resolved /\ r.kind = "CANCEL"
    /\ session = "ACTIVE"
    /\ StillQueued(r.at) /\ Unmoved(r.at) /\ Covered(r.at)
    /\ unit' = [u \in Units |-> IF u \in DOMAIN r.at THEN Cancelled(u, r.at[u]) ELSE unit[u]]
    /\ check' = ChargesAfter(r.at)
    /\ resolved' = resolved \ {r}
    /\ UNCHANGED <<session, alloc>>

\* Comp a Waste: the charge of an ACTIVE Session falls; a closed sale gets an
\* adjustment and nothing else of it changes.
Uncomped(at) == \A u \in DOMAIN at : unit[u].adjusted = "NONE"
CompWaste(r) ==
    /\ r \in resolved /\ r.kind = "COMP"
    /\ Unmoved(r.at) /\ Uncomped(r.at)
    /\ \/ /\ session = "ACTIVE"
          /\ \A u \in DOMAIN r.at : check[r.at[u]].state \in {"OPEN", "SETTLED"}
          /\ Covered(r.at)
          /\ unit' = [u \in Units |->
                         IF u \in DOMAIN r.at THEN Adjust(unit[u], "LIVE_CHECK", r.at[u]) ELSE unit[u]]
          /\ check' = ChargesAfter(r.at)
       \/ /\ session = "CLOSED"
          /\ unit' = [u \in Units |->
                         IF u \in DOMAIN r.at THEN Adjust(unit[u], "POST_SALE", r.at[u]) ELSE unit[u]]
          /\ UNCHANGED check
    /\ resolved' = resolved \ {r}
    /\ UNCHANGED <<session, alloc>>

\* A request refused, or whose connection or process is gone.
Abandon(r) ==
    /\ r \in resolved
    /\ resolved' = resolved \ {r}
    /\ UNCHANGED <<session, check, alloc, unit>>

-----------------------------------------------------------------------------
SettledIsReady ==
    /\ {check[k].state : k \in Checks} \subseteq {"ABSENT", "MERGED", "SETTLED"}
    /\ Committed # {} /\ Committed = Submitted
    /\ \A u \in Existing : unit[u].state \in Terminal
\* Close Service Session: settled, square, all of it submitted and done.
ClosureReady ==
    /\ {check[k].state : k \in Checks} \subseteq {"ABSENT", "MERGED", "SETTLED"}
    /\ \A k \in Checks : Obligation(k) = 0
    /\ Committed # {} /\ Committed = Submitted
    /\ \A u \in Existing : unit[u].state \in Terminal
CloseServiceSession ==
    /\ session = "ACTIVE" /\ ClosureReady
    /\ session' = "CLOSED"
    /\ UNCHANGED <<check, alloc, unit, resolved>>

-----------------------------------------------------------------------------
Moves == [Items -> 0 .. Max({Quantity[i] : i \in Items})]
Order ==
    \/ \E D \in SUBSET Items, k \in Checks : CommitOrderDraft(D, k)
    \/ SubmitOrder
Restructure ==
    \/ \E from, to \in Checks, move \in Moves : SplitCheck(from, to, move)
    \/ \E surviving, absorbed \in Checks : MergeChecks(surviving, absorbed)
Pay ==
    \/ \E k \in Checks : \E amount \in 1 .. check[k].charge : RecordPayment(k, amount)
    \/ \E k \in Checks : \E amount \in 1 .. check[k].received : RecordRefund(k, amount)
Prepare ==
    \/ \E S \in SUBSET Active, target \in Targets : AdvanceUnits(S, target)
    \/ \E u \in Existing : WasteUnit(u) \/ AcknowledgeAlert(u) \/ RemakeUnit(u)
    \/ \E target \in DOMAIN Successor :
          \E S \in SUBSET {u \in Existing : unit[u].state = Successor[target]} :
              CorrectState(S, target)
Correct ==
    \/ \E S \in SUBSET Active : ResolveCancellation(S)
    \/ \E u \in Existing : ResolveComp(u)
    \/ \E r \in resolved : CancelUnits(r) \/ CompWaste(r) \/ Abandon(r)
Next == Order \/ Restructure \/ Pay \/ Prepare \/ Correct \/ CloseServiceSession

Spec == Init /\ [][Next]_vars

-----------------------------------------------------------------------------
(* Properties.                                                             *)

\* Every row has its type; a stored charge never goes below zero.
TypeOK ==
    /\ session \in {"ACTIVE", "CLOSED"}
    /\ check \in [Checks -> CheckRow]
    /\ \A i \in Items : alloc[i] \in Seq(Allocation)
    /\ unit \in [Units -> UnitRow]
    /\ \A r \in resolved : r.kind \in {"CANCEL", "COMP"} /\ DOMAIN r.at \subseteq Existing

\* However Checks are split and merged, an item's allocations add up to its
\* quantity on live Checks, one per Check, and a stored charge is what is
\* allocated less the live adjustments: the equation Cancellation and Comp
\* refuse to work without.
ChargeIsAllocations ==
    /\ \A i \in Committed :
          /\ RunningTotal(i, Len(alloc[i])) = Quantity[i]
          /\ \A q, r \in DOMAIN alloc[i] : alloc[i][q].on = alloc[i][r].on => q = r
          /\ \A r \in DOMAIN alloc[i] : check[alloc[i][r].on].state \in {"OPEN", "SETTLED"}
    /\ \A k \in Checks : check[k].charge + Prices(AdjustedOn(k, "LIVE_CHECK")) = BaseCharge(k)

\* No adjustment is stranded: its Check still holds an allocation of its item,
\* whatever was split or merged between resolving it and writing it, or since.
AdjustmentKept ==
    \A u \in Units :
        unit[u].adjusted # "NONE" => QuantityOn(alloc[u[1]], unit[u].on) # 0

\* Through wastes, remakes, remakes of remakes and corrections, an item never
\* has more units alive or served than were ordered.
NeverServedTwice ==
    \A i \in Items :
        Cardinality({u \in Existing : u[1] = i /\ unit[u].state # "WASTED"}) <= Quantity[i]

\* A unit whose charge was taken off is never made or served, only ordered units
\* have charges to take off, and an ordered unit is not cancelled without it.
ChargedOffNeverServed ==
    \A u \in Existing :
        /\ unit[u].adjusted # "NONE" => unit[u].state \in {"CANCELLED", "WASTED"} /\ unit[u].of = 0
        /\ unit[u].state = "CANCELLED" /\ unit[u].of = 0 => unit[u].adjusted = "LIVE_CHECK"

\* Work the bar has begun is wasted, corrected or served, never cancelled, and
\* neither a cancelled nor a wasted unit comes back: a Cancellation decides on
\* the state it locks, not on the one it resolved.
NothingMadeIsCancelled ==
    [][\A u \in Units :
        /\ unit[u].state \in {"IN_PREPARATION", "READY", "FULFILLED"} => unit'[u].state # "CANCELLED"
        /\ unit[u].state \in {"CANCELLED", "WASTED"} => unit'[u].state = unit[u].state]_vars

\* A closed sale was paid exactly for the ordered units whose charge stands, no
\* matter how they moved between Checks.
PaidForWhatStands ==
    session = "CLOSED" =>
        Total([k \in Checks |-> check[k].received], Checks) =
            Prices({u \in Standard : u \in Existing /\ unit[u].adjusted # "LIVE_CHECK"})

\* A closed sale is history: no unit moves or appears, no allocation, charge or
\* receipt changes.  Alerts are still acknowledged and Wastes still comped.
ClosedWorkStands ==
    [][session = "CLOSED" =>
        /\ session' = "CLOSED" /\ check' = check /\ alloc' = alloc
        /\ \A u \in Units : unit'[u].state = unit[u].state /\ unit'[u].of = unit[u].of]_vars

\* The Session as one tab.
Due == Total([k \in Checks |-> Balance(k)], Checks)
Owed == Total([k \in Checks |-> Obligation(k)], Checks)
Kept == Total([k \in Checks |-> check[k].received], Checks)
Tab == INSTANCE SaleTab WITH
           phase <- session, due <- Due, owed <- Owed, kept <- Kept, promised <- 0
\* Splits and merges leave the Session's tab alone, and every other command moves
\* it as CheckLedger's do, although their states have little in common.  Manual QR
\* Refunds and Voids are CheckLedger's alone.
ImplementsSaleTab == Tab!TabSpec

\* "A removal larger than the stored charge means the stored charge never
\* covered the units, which is an invariant" (cancel_charges.go): the Check a
\* queued ordered unit resolves to covers its price.
RemovalWithinCharge ==
    session = "ACTIVE" =>
        \A u \in Existing : unit[u].of = 0 /\ unit[u].state = "QUEUED" =>
            Price[u[1]] <= check[ChargedTo(u)].charge
=============================================================================
