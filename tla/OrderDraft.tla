----------------------------- MODULE OrderDraft -----------------------------
(***************************************************************************)
(* The rounds of one Service Session: the lines of an Order Draft, their   *)
(* Commit at the menu's prices and their Submit to the bar.                *)
(*                                                                         *)
(* Two lines of one composition are one line.  The commands keep that true *)
(* between a denormalised key, modifier_key, and the rows it is derived    *)
(* from, order_draft_item_modifier_options: an edit may make the edited    *)
(* line vanish into another, whose quantity grows.  Meanwhile the menu     *)
(* changes, and Commit judges the draft by the menu of that moment, not by *)
(* the one it was composed from.                                           *)
(*                                                                         *)
(* A command is one step.  Every command on a draft first locks the draft  *)
(* and its Session (LockEditableDraft, LockSubmittableDraft, StartNew's    *)
(* Session lock) and reads the lines in later statements, so two commands  *)
(* of one Session run one after the other.  RowLocks models those locks,   *)
(* SalesShift the end of the Session and of its Shift, Catalog the rows a  *)
(* Commit locks one by one, CheckLedger all other money.  Here the Session *)
(* is ACTIVE, its Shift OPEN and a Check is paid whole.                    *)
(***************************************************************************)
EXTENDS Menu, Sums

CONSTANTS
    Notes,        \* Preparation Notes
    Lines,        \* bound: rows of order_draft_items
    RoundLines,   \* bound: how many of them a round may have, by its number
    MaxQuantity,  \* domain.go's MaxQuantity
    MaxRounds     \* bound: drafts of the Session

ASSUME BoundAssumption ==
    /\ MaxQuantity \in Nat \ {0} /\ MaxRounds \in Nat \ {0}
    /\ RoundLines \in [1..MaxRounds -> Nat]
ASSUME NoteAssumption == Absent \notin Items \cup Notes
ASSUME FiniteAssumption ==
    /\ IsFiniteSet(Items) /\ IsFiniteSet(Sizes) /\ IsFiniteSet(Notes)
    /\ IsFiniteSet(Options) /\ IsFiniteSet(Lines)

VARIABLES
    mode,      \* service_sessions.service_mode
    round,     \* the latest draft of the Session
    target,    \* check_target of that draft
    earlier,   \* the drafts before it
    line,      \* order_draft_items of the latest draft; a quantity of 0 is no row
    chosen,    \* order_draft_item_modifier_options, by line
    sold,      \* committed_items with their Charge Allocation, by source line
    units,     \* preparation_units of its Order, by Committed Item
    checks     \* checks, in the order of their creation

saleVars == <<mode, round, target, earlier, line, chosen, sold, units, checks>>
vars == <<menuVars, saleVars>>

CheckIds == 1..MaxRounds
Targets == {"CURRENT_UNPAID", "NEW_CHECK"}
Configs == [item : Items, size : Sizes \cup {Absent}, note : Notes \cup {Absent},
            options : SUBSET Options]

NoLine == [item |-> Absent, size |-> Absent, note |-> Absent, key |-> {}, quantity |-> 0]
NotSold == [config |-> Absent, quantity |-> 0, price |-> 0, check |-> 0]
NewRound(n) == [number |-> n, state |-> "EDITABLE", ordered |-> FALSE]

Present(l) == line[l].quantity > 0
ConfigOf(l) == [item |-> line[l].item, size |-> line[l].size, note |-> line[l].note,
                options |-> chosen[l]]
Editing == round.state = "EDITABLE"
HasOrder == round.ordered \/ \E d \in earlier : d.ordered

-----------------------------------------------------------------------------
\* The rules of the draft commands and of Commit.

SellableSize(i, s) == s # Absent => ItemOf[s] = i /\ Orderable(s)

Selectable(i, O) ==
    \A o \in O : GroupOf[o] \in offered[i] /\ Active(GroupOf[o]) /\ Orderable(o)

DefaultsOf(i) ==
    {o \in UNION {defaults[g] : g \in offered[i]} : Active(GroupOf[o]) /\ Orderable(o)}

SizeRule(i, s) ==
    IF price[i] = Absent THEN s # Absent /\ SellableSize(i, s) ELSE s = Absent

\* A retired Group that requires nothing is skipped; one that requires a
\* selection can no longer be satisfied.
GroupRules(i, O) ==
    \A g \in offered[i] :
        IF Active(g) THEN Chosen(rule[g], Cardinality({o \in O : GroupOf[o] = g}))
                     ELSE rule[g].min = 0

Committable(c) ==
    /\ Orderable(c.item) /\ SizeRule(c.item, c.size)
    /\ Selectable(c.item, c.options) /\ GroupRules(c.item, c.options)

UnitPrice(c) ==
    (IF price[c.item] # Absent THEN price[c.item]
     ELSE IF c.size # Absent THEN price[c.size] ELSE 0) + Total(price, c.options)

-----------------------------------------------------------------------------
\* The lines of the draft.

\* Mutant: A NULL Size or note equals nothing.
TwinsByEquality(i, s, n, k) ==
    {l \in Lines : Present(l) /\ line[l].item = i /\ line[l].key = k
                              /\ Absent \notin {s, n} /\ line[l].size = s /\ line[l].note = n}

Twins(i, s, n, k) ==
    {l \in Lines : Present(l) /\ line[l].item = i /\ line[l].size = s
                              /\ line[l].note = n /\ line[l].key = k}

DraftKept == UNCHANGED <<menuVars, mode, earlier, sold, units, checks>>

\* One more of the line that has this composition, or a line of its own.  No list
\* of Options means the defaults, an empty one that all were declined.
AddDraftItem(i, s, n, list) ==
    LET O == IF list = Absent THEN DefaultsOf(i) ELSE list
    IN  /\ Editing /\ Orderable(i) /\ SellableSize(i, s) /\ Selectable(i, O)
        /\ \/ \E l \in Twins(i, s, n, O) :
                /\ line[l].quantity < MaxQuantity
                /\ line' = [line EXCEPT ![l].quantity = @ + 1]
                /\ UNCHANGED chosen
           \/ /\ Twins(i, s, n, O) = {}
              /\ Cardinality({l \in Lines : Present(l)}) < RoundLines[round.number]
              /\ \E l \in Lines :
                    /\ ~ Present(l)
                    /\ line' = [line EXCEPT ![l] = [item |-> i, size |-> s, note |-> n,
                                                    key |-> O, quantity |-> 1]]
                    /\ chosen' = [chosen EXCEPT ![l] = O]
        /\ UNCHANGED <<round, target>> /\ DraftKept

SetDraftItemQuantity(l, q) ==
    /\ Editing /\ Present(l)
    /\ line' = [line EXCEPT ![l].quantity = q]
    /\ UNCHANGED <<round, target, chosen>> /\ DraftKept

\* Mutant: The line it vanishes into keeps its quantity.
ApplyWithoutAdding(l, s, n, k, O) ==
    LET twins == Twins(line[l].item, s, n, k) \ {l}
    IN  /\ IF twins # {}
           THEN /\ line' = [line EXCEPT ![l] = NoLine]
                /\ chosen' = [chosen EXCEPT ![l] = {}]
           ELSE /\ line' = [line EXCEPT ![l].size = s, ![l].note = n, ![l].key = k]
                /\ chosen' = IF k = line[l].key THEN chosen ELSE [chosen EXCEPT ![l] = O]
        /\ UNCHANGED <<round, target>> /\ DraftKept

\* The edited line moves into the one that already has the composition, within the
\* limit, and takes its Options with it; or it changes in place, its Options being
\* rewritten when its key changes.
ApplyCompositionChange(l, s, n, k, O) ==
    LET twins == Twins(line[l].item, s, n, k) \ {l}
    IN  /\ \/ \E m \in twins :
                /\ line[m].quantity + line[l].quantity <= MaxQuantity
                /\ line' = [line EXCEPT ![m].quantity = @ + line[l].quantity, ![l] = NoLine]
                /\ chosen' = [chosen EXCEPT ![l] = {}]
           \/ /\ twins = {}
              /\ line' = [line EXCEPT ![l].size = s, ![l].note = n, ![l].key = k]
              /\ chosen' = IF k = line[l].key THEN chosen ELSE [chosen EXCEPT ![l] = O]
        /\ UNCHANGED <<round, target>> /\ DraftKept

SetDraftItemSize(l, s) ==
    /\ Editing /\ Present(l) /\ SellableSize(line[l].item, s)
    /\ ApplyCompositionChange(l, s, line[l].note, line[l].key, chosen[l])

SetDraftItemNote(l, n) ==
    /\ Editing /\ Present(l)
    /\ ApplyCompositionChange(l, line[l].size, n, line[l].key, chosen[l])

SetDraftItemModifiers(l, O) ==
    /\ Editing /\ Present(l) /\ Selectable(line[l].item, O)
    /\ ApplyCompositionChange(l, line[l].size, line[l].note, O, O)

RemoveDraftItem(l) ==
    /\ Editing /\ Present(l)
    /\ line' = [line EXCEPT ![l] = NoLine]
    /\ chosen' = [chosen EXCEPT ![l] = {}]
    /\ UNCHANGED <<round, target>> /\ DraftKept

SetCheckTarget(t) ==
    /\ Editing
    /\ target' = t
    /\ UNCHANGED <<round, line, chosen>> /\ DraftKept

-----------------------------------------------------------------------------
\* From draft to bar.

OpenChecks == {k \in CheckIds : checks[k].state = "OPEN"}

\* The newest OPEN Check, or else a new one.
TargetCheck(k) ==
    IF target = "CURRENT_UNPAID" /\ OpenChecks # {}
    THEN k \in OpenChecks /\ \A j \in OpenChecks : j <= k
    ELSE checks[k].state = "NONE" /\ \A j \in 1..(k - 1) : checks[j].state # "NONE"

LineTotals == [l \in Lines |-> IF Present(l) THEN line[l].quantity * UnitPrice(ConfigOf(l)) ELSE 0]

CommitOrderDraft ==
    /\ Editing /\ \E l \in Lines : Present(l)
    /\ \A l \in Lines : Present(l) => Committable(ConfigOf(l))
    /\ \E k \in CheckIds :
        /\ TargetCheck(k)
        /\ sold' = [l \in Lines |->
                        IF Present(l)
                        THEN [config |-> ConfigOf(l), quantity |-> line[l].quantity,
                              price |-> UnitPrice(ConfigOf(l)), check |-> k]
                        ELSE NotSold]
        /\ checks' = [checks EXCEPT ![k] = [state |-> "OPEN",
                                            charge |-> @.charge + Total(LineTotals, Lines)]]
    /\ round' = [round EXCEPT !.state = "COMMITTED"]
    /\ UNCHANGED <<menuVars, mode, target, earlier, line, chosen, units>>

\* Its Checks, which a Takeaway must have paid.
Awaiting == round.state = "COMMITTED" /\ ~ round.ordered
ChecksOfRound == {sold[l].check : l \in {l \in Lines : sold[l].quantity > 0}}

SubmitOrder ==
    /\ Awaiting /\ ChecksOfRound # {}
    /\ mode = "TAKEAWAY" => \A k \in ChecksOfRound : checks[k].state = "SETTLED"
    /\ round' = [round EXCEPT !.ordered = TRUE]
    /\ units' = [l \in Lines |-> sold[l].quantity]
    /\ UNCHANGED <<menuVars, mode, target, earlier, line, chosen, sold, checks>>

\* Mutant: The charge is taken back at the prices of now.
WithdrawnAtMenuPrice(k) ==
    [l \in Lines |-> IF sold[l].check = k THEN sold[l].quantity * UnitPrice(sold[l].config) ELSE 0]

Withdrawn(k) == [l \in Lines |-> IF sold[l].check = k THEN sold[l].quantity * sold[l].price ELSE 0]

\* Paid, and the bar never got it: the charge is withdrawn, so that a Refund can follow.
CancelAwaitingSubmission ==
    /\ Awaiting /\ ~ HasOrder
    /\ \E k \in ChecksOfRound : checks[k].state = "SETTLED"
    /\ checks' = [k \in CheckIds |-> [checks[k] EXCEPT !.charge = @ - Total(Withdrawn(k), Lines)]]
    /\ round' = [round EXCEPT !.state = "CANCELLED"]
    /\ UNCHANGED <<menuVars, mode, target, earlier, line, chosen, sold, units>>

PayCheck(k) ==
    /\ checks[k].state = "OPEN"
    /\ checks' = [checks EXCEPT ![k].state = "SETTLED"]
    /\ UNCHANGED <<menuVars, mode, round, target, earlier, line, chosen, sold, units>>

\* Mutant: A cancelled draft stands in nobody's way.
BlocksUnlessCancelled(d) == d.state = "EDITABLE" \/ (d.state = "COMMITTED" /\ ~ d.ordered)

\* A draft that stands in the way of another.
Blocks(d) == d.state \in {"EDITABLE", "CANCELLED"} \/ (d.state = "COMMITTED" /\ ~ d.ordered)

\* The rows of a draft that has its Order never change again; only its state is kept.
StartNewOrderDraft ==
    /\ round.number < MaxRounds
    /\ \A d \in earlier \cup {round} : ~ Blocks(d)
    /\ earlier' = earlier \cup {round}
    /\ round' = NewRound(round.number + 1)
    /\ target' = "CURRENT_UNPAID"
    /\ line' = [l \in Lines |-> NoLine]
    /\ chosen' = [l \in Lines |-> {}]
    /\ sold' = [l \in Lines |-> NotSold]
    /\ units' = [l \in Lines |-> 0]
    /\ UNCHANGED <<menuVars, mode, checks>>

-----------------------------------------------------------------------------
Init ==
    /\ MenuInit
    /\ mode \in {"DINE_IN", "TAKEAWAY"}
    /\ round = NewRound(1)
    /\ target = "CURRENT_UNPAID"
    /\ earlier = {}
    /\ line = [l \in Lines |-> NoLine]
    /\ chosen = [l \in Lines |-> {}]
    /\ sold = [l \in Lines |-> NotSold]
    /\ units = [l \in Lines |-> 0]
    /\ checks = [k \in CheckIds |-> [state |-> "NONE", charge |-> 0]]

ChangeMenu == MenuNext /\ UNCHANGED saleVars

Next ==
    \/ ChangeMenu
    \/ \E i \in Items, s \in Sizes \cup {Absent}, n \in Notes \cup {Absent},
          list \in {Absent} \cup SUBSET Options : AddDraftItem(i, s, n, list)
    \/ \E l \in Lines :
        \/ \E q \in 1..MaxQuantity : SetDraftItemQuantity(l, q)
        \/ \E s \in Sizes \cup {Absent} : SetDraftItemSize(l, s)
        \/ \E n \in Notes \cup {Absent} : SetDraftItemNote(l, n)
        \/ \E O \in SUBSET Options : SetDraftItemModifiers(l, O)
        \/ RemoveDraftItem(l)
    \/ \E t \in Targets : SetCheckTarget(t)
    \/ CommitOrderDraft \/ SubmitOrder \/ CancelAwaitingSubmission
    \/ \E k \in CheckIds : PayCheck(k)
    \/ StartNewOrderDraft

Spec == Init /\ [][Next]_vars

-----------------------------------------------------------------------------
\* The rows of the menu, of the Session's drafts and of its Checks.
TypeOK ==
    /\ MenuTypeOK
    /\ mode \in {"DINE_IN", "TAKEAWAY"}
    /\ round \in [number : 1..MaxRounds, state : {"EDITABLE", "COMMITTED", "CANCELLED"},
                  ordered : BOOLEAN]
    /\ target \in Targets
    /\ earlier \subseteq [number : 1..MaxRounds, state : {"COMMITTED"}, ordered : {TRUE}]
    /\ line \in [Lines -> [item : Items, size : Sizes \cup {Absent}, note : Notes \cup {Absent},
                           key : SUBSET Options, quantity : 1..MaxQuantity] \cup {NoLine}]
    /\ chosen \in [Lines -> SUBSET Options]
    /\ sold \in [Lines -> [config : Configs, quantity : 1..MaxQuantity, price : Nat,
                           check : CheckIds] \cup {NotSold}]
    /\ units \in [Lines -> 0..MaxQuantity]
    /\ checks \in [CheckIds -> [state : {"NONE", "OPEN", "SETTLED"}, charge : Int]]

\* One drink, one line: no two lines of a draft have the Item, Size, note and Options
\* rows of each other.  The commands compare keys, not rows, and three of them merge
\* (applyCompositionChange, upsertDraftItem).
OneLinePerDrink ==
    \A l, m \in Lines : Present(l) /\ Present(m) /\ ConfigOf(l) = ConfigOf(m) => l = m

\* A Session whose paid draft was cancelled can be refunded and abandoned, which takes
\* a Session without an Order: no later round may be sent to the bar (FindBlockingDraft).
CancelledIsTheLast ==
    (\E d \in earlier \cup {round} : d.state = "CANCELLED") => ~ HasOrder

\* What the Sellable Menu shows can be ordered: some Size and Options make a line that
\* the draft takes and Commit accepts, unless the item still offers a retired Group
\* that requires a selection (projection_sellable.go against commit.go).
Obtainable(i) == \E s \in Sizes \cup {Absent}, O \in SUBSET Options :
    Committable([item |-> i, size |-> s, note |-> Absent, options |-> O])
Unfillable(i) == \E g \in offered[i] : standing[g] = "RETIRED" /\ rule[g].min > 0
ShownCanBeOrdered == \A i \in Items : Shown(i) /\ ~ Unfillable(i) => Obtainable(i)

\* An edit of a Size, a note or the Options never changes how many pieces a draft asks
\* for, whether its line vanishes into another or not (applyCompositionChange).
Recomposition ==
    \E l \in Lines :
        \/ \E s \in Sizes \cup {Absent} : SetDraftItemSize(l, s)
        \/ \E n \in Notes \cup {Absent} : SetDraftItemNote(l, n)
        \/ \E O \in SUBSET Options : SetDraftItemModifiers(l, O)
PiecesAsked == Total([l \in Lines |-> line[l].quantity], Lines)
EditsLoseNothing == [][Recomposition => PiecesAsked' = PiecesAsked]_vars

\* The rounds keep RoundBook's promises: every command moves whole lines between
\* drinks, Commit charges them at the prices of its moment, and exactly they are made.
Wanted == [c \in {ConfigOf(l) : l \in {l \in Lines : Present(l)}} |->
    Total([l \in Lines |-> IF ConfigOf(l) = c THEN line[l].quantity ELSE 0], Lines)]
Made == [c \in {sold[l].config : l \in {l \in Lines : units[l] > 0}} |->
    Total([l \in Lines |-> IF sold[l].config = c THEN units[l] ELSE 0], Lines)]
Phase == IF round.ordered THEN "SUBMITTED" ELSE round.state
Charged == Total([l \in Lines |-> sold[l].quantity * sold[l].price], Lines)
Owed == Total([k \in CheckIds |-> checks[k].charge], CheckIds)
Book == INSTANCE RoundBook WITH phase <- Phase, wanted <- Wanted, made <- Made,
                                charged <- Charged, owed <- Owed
ImplementsRoundBook == Book!BookSpec
=============================================================================
