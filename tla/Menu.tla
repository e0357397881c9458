-------------------------------- MODULE Menu --------------------------------
(***************************************************************************)
(* The menu's records: what exists, what is for sale and at what price,    *)
(* and which choices a Modifier Group demands.  Each command is one step:  *)
(* it locks the row it changes and that row's parent before it reads them. *)
(* The commands that attach groups to items and categories, and the steps  *)
(* of every command, are module Catalog's; here an item's effective groups *)
(* may become any set.                                                     *)
(*                                                                         *)
(* Two readers judge these records by rules of their own: the Sellable     *)
(* Menu, which staff order from, and the draft commands of OrderDraft.     *)
(***************************************************************************)
EXTENDS Integers, FiniteSets

CONSTANTS
    Categories, Items, Sizes, Groups, Options,
    CategoryOf,   \* Item -> its category
    ItemOf,       \* Size -> its Menu Item
    GroupOf,      \* Option -> its Modifier Group
    Unmade,       \* rows not created at first
    FirstPrice,   \* Item, Size, Option -> its first price; a sized Item has none
    FirstRule,    \* Group -> its first selection rule
    FirstOffered, \* Item -> the Groups it offers at first
    Absent,       \* "no price", "no Size", "no note", "no list"
    Amounts,      \* bound: prices and surcharges a command may set
    MaxChosen,    \* bound: the largest selection rule
    MaxChanges    \* bound: commands on the menu

Parts == Sizes \cup Options
Priced == Items \cup Parts
Things == Categories \cup Groups \cup Priced

ASSUME KindAssumption ==
    /\ Categories \cap Groups = {} /\ (Categories \cup Groups) \cap Priced = {}
    /\ Items \cap Parts = {} /\ Sizes \cap Options = {} /\ Absent \notin Sizes
ASSUME ParentAssumption ==
    /\ CategoryOf \in [Items -> Categories]
    /\ ItemOf \in [Sizes -> Items] /\ GroupOf \in [Options -> Groups]
ASSUME PriceAssumption ==
    /\ Amounts \subseteq Nat /\ Absent \notin Nat
    /\ FirstPrice \in [Priced -> Amounts \cup {Absent}]
    /\ \A t \in Priced : FirstPrice[t] = Absent => t \in Items
    /\ \A t \in Priced : FirstPrice[t] = 0 => t \in Options
ASSUME FirstAssumption ==
    /\ FirstRule \in [Groups -> {r \in [min : 0..MaxChosen, max : 1..MaxChosen] : r.min <= r.max}]
    /\ FirstOffered \in [Items -> SUBSET (Groups \ Unmade)]
ASSUME MenuBounds == MaxChosen \in Nat /\ MaxChanges \in Nat

VARIABLES
    standing,   \* of every row: not created, available, unavailable or retired
    price,      \* price_vnd and surcharge_vnd
    rule,       \* Group -> min_selections and max_selections
    defaults,   \* Group -> modifier_group_default_options
    offered,    \* Item -> its effective Modifier Groups
    changes     \* commands so far

menuVars == <<standing, price, rule, defaults, offered, changes>>

Rules == {r \in [min : 0..MaxChosen, max : 1..MaxChosen] : r.min <= r.max}

Active(t) == standing[t] \in {"AVAILABLE", "UNAVAILABLE"}
Orderable(t) == standing[t] = "AVAILABLE"
OptionsOf(g) == {o \in Options : GroupOf[o] = g}
SizesOf(i) == {s \in Sizes : ItemOf[s] = i}
New(T) == T # {} /\ \A t \in T : standing[t] = "UNMADE"

\* A Size or an Option is changed under its parent, and neither may be retired.
Live(t) ==
    /\ Active(t)
    /\ t \in Sizes => Active(ItemOf[t])
    /\ t \in Options => Active(GroupOf[t])

\* Only an Option may come for nothing.
ValidPrices == Amounts \ {0}
ValidSurcharges == Amounts

Chosen(r, n) == r.min <= n /\ n <= r.max

\* What the command writes; the rest of the menu stays.
Writes(st, pr, ru, de) ==
    /\ changes < MaxChanges /\ changes' = changes + 1
    /\ standing' = st /\ price' = pr /\ rule' = ru /\ defaults' = de

Becomes(T, st) == [t \in Things |-> IF t \in T THEN st ELSE standing[t]]
Costs(T, p) == [t \in Priced |-> IF t \in T THEN p ELSE price[t]]

-----------------------------------------------------------------------------
\* A single price, or Sizes that share none with it.
CreateItem(i, S, p) ==
    /\ New(S \cup {i}) /\ S \subseteq SizesOf(i) /\ Active(CategoryOf[i])
    /\ Writes(Becomes(S \cup {i}, "AVAILABLE"),
              [Costs(S \cup {i}, p) EXCEPT ![i] = IF S = {} THEN p ELSE Absent], rule, defaults)
    /\ UNCHANGED offered

AddSize(s, p) ==
    /\ New({s}) /\ Active(ItemOf[s]) /\ price[ItemOf[s]] = Absent
    /\ Writes(Becomes({s}, "AVAILABLE"), Costs({s}, p), rule, defaults)
    /\ UNCHANGED offered

CreateModifierGroup(g, O, D, r, p) ==
    /\ New(O) /\ New({g}) /\ O \subseteq OptionsOf(g) /\ D \subseteq O
    /\ r.max <= Cardinality(O)
    /\ D # {} => Chosen(r, Cardinality(D))
    /\ Writes(Becomes(O \cup {g}, "AVAILABLE"), Costs(O, p),
              [rule EXCEPT ![g] = r], [defaults EXCEPT ![g] = D])
    /\ UNCHANGED offered

AddModifierOption(o, p) ==
    /\ New({o}) /\ Active(GroupOf[o])
    /\ Writes(Becomes({o}, "AVAILABLE"), Costs({o}, p), rule, defaults)
    /\ UNCHANGED offered

Reprice(t, p) ==
    /\ Live(t)
    /\ Writes(standing, Costs({t}, p), rule, defaults)
    /\ UNCHANGED offered

\* A sized Item has no price of its own to change.
RepriceItem(i, p) == price[i] # Absent /\ Reprice(i, p)
RepriceSize(s, p) == Reprice(s, p)
RepriceModifierOption(o, p) == Reprice(o, p)

SetAvailability(T, st) ==
    /\ \A t \in T : Live(t)
    /\ Writes(Becomes(T, st), price, rule, defaults)
    /\ UNCHANGED offered

SetItemAvailability(i, st) == SetAvailability({i}, st)
SetSizeAvailability(s, st) == SetAvailability({s}, st)
SetModifierOptionAvailability(o, st) == SetAvailability({o}, st)

\* All of the batch or, when one row is retired, none of it.
SetAvailabilityBatch(T, U) ==
    /\ T \cap U = {} /\ \A t \in T \cup U : Live(t)
    /\ Writes([t \in Things |-> IF t \in T THEN "AVAILABLE" ELSE
                                IF t \in U THEN "UNAVAILABLE" ELSE standing[t]],
              price, rule, defaults)
    /\ UNCHANGED offered

\* Only the row itself: its rule, its defaults and its attachments stay behind.
Retire(t) ==
    /\ Live(t)
    /\ Writes(Becomes({t}, "RETIRED"), price, rule, defaults)
    /\ UNCHANGED offered

RetireCategory(c) == Retire(c)
RetireItem(i) == Retire(i)
RetireSize(s) == Retire(s)
RetireModifierGroup(g) == Retire(g)
RetireModifierOption(o) == Retire(o)

\* Against the Options not retired, with Defaults among those available.
SetSelectionRule(g, r, D) ==
    /\ Active(g) /\ D \subseteq {o \in OptionsOf(g) : Orderable(o)}
    /\ r.max <= Cardinality({o \in OptionsOf(g) : Active(o)})
    /\ Chosen(r, Cardinality(D))
    /\ Writes(standing, price, [rule EXCEPT ![g] = r], [defaults EXCEPT ![g] = D])
    /\ UNCHANGED offered

SetModifierGroupDefaults(g, D) ==
    /\ Active(g) /\ D \subseteq {o \in OptionsOf(g) : Orderable(o)}
    /\ Chosen(rule[g], Cardinality(D))
    /\ Writes(standing, price, rule, [defaults EXCEPT ![g] = D])
    /\ UNCHANGED offered

\* The commands of Catalog, by what they do to one item's effective groups.
Reattach(i, G) ==
    /\ Active(i) /\ G # offered[i] /\ \A g \in G : standing[g] # "UNMADE"
    /\ offered' = [offered EXCEPT ![i] = G]
    /\ Writes(standing, price, rule, defaults)

-----------------------------------------------------------------------------
MenuInit ==
    /\ standing = [t \in Things |-> IF t \in Unmade THEN "UNMADE" ELSE "AVAILABLE"]
    /\ price = FirstPrice
    /\ rule = FirstRule
    /\ defaults = [g \in Groups |-> {}]
    /\ offered = FirstOffered
    /\ changes = 0

MenuNext ==
    \/ \E p \in ValidPrices :
        \/ \E i \in Items : RepriceItem(i, p) \/ (\E S \in SUBSET SizesOf(i) : CreateItem(i, S, p))
        \/ \E s \in Sizes : AddSize(s, p) \/ RepriceSize(s, p)
    \/ \E p \in ValidSurcharges :
        \/ \E o \in Options : AddModifierOption(o, p) \/ RepriceModifierOption(o, p)
        \/ \E g \in Groups, r \in Rules : \E O \in SUBSET OptionsOf(g) : \E D \in SUBSET O :
            CreateModifierGroup(g, O, D, r, p)
    \/ \E st \in {"AVAILABLE", "UNAVAILABLE"} :
        \/ \E i \in Items : SetItemAvailability(i, st)
        \/ \E s \in Sizes : SetSizeAvailability(s, st)
        \/ \E o \in Options : SetModifierOptionAvailability(o, st)
    \/ \E t, u \in Priced : SetAvailabilityBatch({t}, {u})
    \/ \E c \in Categories : RetireCategory(c)
    \/ \E i \in Items : RetireItem(i) \/ (\E G \in SUBSET Groups : Reattach(i, G))
    \/ \E s \in Sizes : RetireSize(s)
    \/ \E o \in Options : RetireModifierOption(o)
    \/ \E g \in Groups :
        \/ RetireModifierGroup(g)
        \/ \E D \in SUBSET OptionsOf(g) :
            SetModifierGroupDefaults(g, D) \/ (\E r \in Rules : SetSelectionRule(g, r, D))

-----------------------------------------------------------------------------
\* Mutant: Options that are sold out count towards the minimum.
ShownByActiveOptions(i) ==
    /\ Active(CategoryOf[i]) /\ Orderable(i)
    /\ (price[i] = Absent) = (\E s \in SizesOf(i) : Orderable(s))
    /\ \A g \in offered[i] :
        Active(g) => rule[g].min <= Cardinality({o \in OptionsOf(g) : Active(o)})

\* The Sellable Menu: IsSellable over what sellableProjection collects.  It passes
\* over a retired Group.
Shown(i) ==
    /\ Active(CategoryOf[i]) /\ Orderable(i)
    /\ (price[i] = Absent) = (\E s \in SizesOf(i) : Orderable(s))
    /\ \A g \in offered[i] :
        Active(g) => rule[g].min <= Cardinality({o \in OptionsOf(g) : Orderable(o)})

\* The rows of the menu.
MenuTypeOK ==
    /\ standing \in [Things -> {"UNMADE", "AVAILABLE", "UNAVAILABLE", "RETIRED"}]
    /\ price \in [Priced -> Amounts \cup {Absent}]
    /\ \A t \in Parts : price[t] # Absent
    /\ \A t \in Items \cup Sizes : price[t] # 0
    /\ rule \in [Groups -> Rules]
    /\ defaults \in [Groups -> SUBSET Options]
    /\ offered \in [Items -> SUBSET Groups]
    /\ changes \in 0..MaxChanges
=============================================================================
