-------------------------- MODULE OrderDraftProofs --------------------------
(***************************************************************************)
(* That a draft never holds one drink twice, that a cancelled round is the *)
(* last, that edits lose nothing and that the rounds keep RoundBook's      *)
(* promises, for any menu, any number of lines and rounds and any prices.  *)
(*                                                                         *)
(* The keys the commands compare tell the rows they stand for (KeysTell),  *)
(* so lines that are apart by key are apart as drinks, and a drink's       *)
(* pieces are one line's quantity: what a command does to lines it does to *)
(* drinks.                                                                 *)
(***************************************************************************)
EXTENDS OrderDraft, SumTheorems

\* A line's key is its rows.
KeysTell == \A l \in Lines : Present(l) => line[l].key = chosen[l]

\* No two lines have one composition, as the commands compare it.
Apart ==
    \A l, m \in Lines :
        /\ Present(l) /\ Present(m) /\ line[l].item = line[m].item
        /\ line[l].size = line[m].size /\ line[l].note = line[m].note /\ line[l].key = line[m].key
        => l = m

\* A round and what became of it.
RoundsInOrder ==
    /\ round.ordered => round.state = "COMMITTED"
    /\ round.state = "CANCELLED" => ~ HasOrder

\* What was sold is the draft as it stands, and what was sent is what was sold.
SoldAsAsked ==
    \A l \in Lines :
        IF round.state = "EDITABLE" \/ ~ Present(l) THEN sold[l] = NotSold
        ELSE /\ sold[l].config = ConfigOf(l) /\ sold[l].quantity = line[l].quantity
             /\ sold[l].check \in CheckIds

SentAsSold == \A l \in Lines : units[l] = IF round.ordered THEN sold[l].quantity ELSE 0

IInv == TypeOK /\ KeysTell /\ Apart /\ RoundsInOrder /\ SoldAsAsked /\ SentAsSold

-----------------------------------------------------------------------------
(* Types.                                                                  *)

\* A command on the menu leaves rows of the menu.
LEMMA MenuTyped ==
  ASSUME MenuTypeOK, MenuNext
  PROVE  MenuTypeOK'
<1> USE KindAssumption, PriceAssumption, ParentAssumption DEF MenuTypeOK
<1>1. ASSUME NEW T, NEW st \in {"AVAILABLE", "UNAVAILABLE", "RETIRED"}
      PROVE  Becomes(T, st) \in [Things -> {"UNMADE", "AVAILABLE", "UNAVAILABLE", "RETIRED"}]
  BY DEF Becomes
<1>2. ASSUME NEW T, NEW p \in Amounts, p # 0 \/ T \subseteq Options
      PROVE  /\ Costs(T, p) \in [Priced -> Amounts \cup {Absent}]
             /\ \A t \in Parts : Costs(T, p)[t] # Absent
             /\ \A t \in Items \cup Sizes : Costs(T, p)[t] # 0
  <2>1. \A t \in Priced : Costs(T, p)[t] = IF t \in T THEN p ELSE price[t]
    BY DEF Costs
  <2>2. Costs(T, p) \in [Priced -> Amounts \cup {Absent}]
    BY DEF Costs
  <2>3. \A t \in Parts : Costs(T, p)[t] # Absent
    BY <2>1 DEF Priced
  <2>4. \A t \in Items \cup Sizes : t \in Priced /\ t \notin Options
    BY DEF Priced, Parts
  <2>5. \A t \in Items \cup Sizes : Costs(T, p)[t] # 0
    BY <1>2, <2>1, <2>4
  <2> QED BY <2>2, <2>3, <2>5
<1>3. ASSUME NEW st, NEW pr, NEW ru, NEW de, Writes(st, pr, ru, de)
      PROVE  changes' \in 0..MaxChanges /\ standing' = st /\ price' = pr /\ rule' = ru /\ defaults' = de
  BY <1>3, MenuBounds DEF Writes
<1>4. ASSUME NEW i \in Items, NEW S \in SUBSET SizesOf(i), NEW p \in ValidPrices, CreateItem(i, S, p)
      PROVE  MenuTypeOK'
  <2> DEFINE pr == [Costs(S \cup {i}, p) EXCEPT ![i] = IF S = {} THEN p ELSE Absent]
  <2>1. /\ pr \in [Priced -> Amounts \cup {Absent}]
        /\ \A t \in Parts : pr[t] # Absent
        /\ \A t \in Items \cup Sizes : pr[t] # 0
    <3> DEFINE q == Costs(S \cup {i}, p)
    <3>p. p \in Amounts /\ p # 0 /\ Absent # 0
      BY DEF ValidPrices
    <3>1. /\ q \in [Priced -> Amounts \cup {Absent}]
          /\ \A t \in Parts : q[t] # Absent
          /\ \A t \in Items \cup Sizes : q[t] # 0
      BY <1>2, <3>p
    <3>2. i \notin Parts
      OBVIOUS
    <3> HIDE DEF q
    <3>3. [q EXCEPT ![i] = IF S = {} THEN p ELSE Absent] \in [Priced -> Amounts \cup {Absent}]
      BY <3>1, <3>p
    <3>4. \A t \in Parts : [q EXCEPT ![i] = IF S = {} THEN p ELSE Absent][t] # Absent
      BY <3>1, <3>2 DEF Priced
    <3>5. \A t \in Items \cup Sizes : [q EXCEPT ![i] = IF S = {} THEN p ELSE Absent][t] # 0
      BY <3>p, <3>1 DEF Priced, Parts
    <3> QED BY <3>3, <3>4, <3>5 DEF q
  <2> HIDE DEF pr
  <2>2. Writes(Becomes(S \cup {i}, "AVAILABLE"), pr, rule, defaults) /\ UNCHANGED offered
    BY <1>4 DEF CreateItem, pr
  <2> QED BY <1>1, <1>3, <2>1, <2>2
<1>5. ASSUME NEW s \in Sizes, NEW p \in ValidPrices, AddSize(s, p) \/ RepriceSize(s, p)
      PROVE  MenuTypeOK'
  BY <1>1, <1>2, <1>3, <1>5 DEF AddSize, RepriceSize, Reprice, ValidPrices
<1>6. ASSUME NEW o \in Options, NEW p \in ValidSurcharges, AddModifierOption(o, p) \/ RepriceModifierOption(o, p)
      PROVE  MenuTypeOK'
  BY <1>1, <1>2, <1>3, <1>6 DEF AddModifierOption, RepriceModifierOption, Reprice, ValidSurcharges
<1>7. ASSUME NEW i \in Items, NEW p \in ValidPrices, RepriceItem(i, p)
      PROVE  MenuTypeOK'
  BY <1>2, <1>3, <1>7 DEF RepriceItem, Reprice, ValidPrices
<1>8. ASSUME NEW g \in Groups, NEW r \in Rules, NEW p \in ValidSurcharges,
             NEW O \in SUBSET OptionsOf(g), NEW D \in SUBSET O, CreateModifierGroup(g, O, D, r, p)
      PROVE  MenuTypeOK'
  <2>1. D \in SUBSET Options /\ O \subseteq Options /\ p \in Amounts
    BY DEF OptionsOf, ValidSurcharges
  <2>2. [rule EXCEPT ![g] = r] \in [Groups -> Rules]
    OBVIOUS
  <2>3. [defaults EXCEPT ![g] = D] \in [Groups -> SUBSET Options]
    BY <2>1
  <2>4. /\ Writes(Becomes(O \cup {g}, "AVAILABLE"), Costs(O, p),
                   [rule EXCEPT ![g] = r], [defaults EXCEPT ![g] = D])
        /\ UNCHANGED offered
    BY <1>8 DEF CreateModifierGroup
  <2> DEFINE ru == [rule EXCEPT ![g] = r]
             de == [defaults EXCEPT ![g] = D]
  <2>5. ru \in [Groups -> Rules] /\ de \in [Groups -> SUBSET Options]
    BY <2>2, <2>3
  <2>6. Writes(Becomes(O \cup {g}, "AVAILABLE"), Costs(O, p), ru, de) /\ UNCHANGED offered
    BY <2>4
  <2> HIDE DEF ru, de
  <2> QED BY <1>1, <1>2, <1>3, <2>1, <2>5, <2>6
<1>9. ASSUME NEW T, NEW st \in {"AVAILABLE", "UNAVAILABLE"}, SetAvailability(T, st)
      PROVE  MenuTypeOK'
  BY <1>1, <1>3, <1>9 DEF SetAvailability
<1>10. ASSUME NEW T, NEW U, SetAvailabilityBatch(T, U)
       PROVE  MenuTypeOK'
  BY <1>3, <1>10 DEF SetAvailabilityBatch
<1>11. ASSUME NEW t, Retire(t)
       PROVE  MenuTypeOK'
  BY <1>1, <1>3, <1>11 DEF Retire
<1>12. ASSUME NEW i \in Items, NEW G \in SUBSET Groups, Reattach(i, G)
       PROVE  MenuTypeOK'
  BY <1>3, <1>12 DEF Reattach
<1>13. ASSUME NEW g \in Groups, NEW D \in SUBSET OptionsOf(g),
              \/ SetModifierGroupDefaults(g, D)
              \/ \E r \in Rules : SetSelectionRule(g, r, D)
       PROVE  MenuTypeOK'
  <2>1. [defaults EXCEPT ![g] = D] \in [Groups -> SUBSET Options]
    BY DEF OptionsOf
  <2>2. CASE SetModifierGroupDefaults(g, D)
    BY <1>3, <2>1, <2>2 DEF SetModifierGroupDefaults
  <2>3. ASSUME NEW r \in Rules, SetSelectionRule(g, r, D)
        PROVE  MenuTypeOK'
    <3>1. [rule EXCEPT ![g] = r] \in [Groups -> Rules]
      OBVIOUS
    <3>2. Writes(standing, price, [rule EXCEPT ![g] = r], [defaults EXCEPT ![g] = D]) /\ UNCHANGED offered
      BY <2>3 DEF SetSelectionRule
    <3> QED BY <1>3, <2>1, <3>1, <3>2
  <2> QED BY <1>13, <2>2, <2>3
<1> HIDE DEF MenuTypeOK
<1>14. ASSUME NEW p \in ValidPrices,
              \/ \E i \in Items : RepriceItem(i, p) \/ (\E S \in SUBSET SizesOf(i) : CreateItem(i, S, p))
              \/ \E s \in Sizes : AddSize(s, p) \/ RepriceSize(s, p)
       PROVE  MenuTypeOK'
  BY <1>4, <1>5, <1>7, <1>14
<1>15. ASSUME NEW p \in ValidSurcharges,
              \/ \E o \in Options : AddModifierOption(o, p) \/ RepriceModifierOption(o, p)
              \/ \E g \in Groups, r \in Rules : \E O \in SUBSET OptionsOf(g) : \E D \in SUBSET O :
                  CreateModifierGroup(g, O, D, r, p)
       PROVE  MenuTypeOK'
  BY <1>6, <1>8, <1>15
<1>16. ASSUME NEW st \in {"AVAILABLE", "UNAVAILABLE"},
              \/ \E i \in Items : SetItemAvailability(i, st)
              \/ \E s \in Sizes : SetSizeAvailability(s, st)
              \/ \E o \in Options : SetModifierOptionAvailability(o, st)
       PROVE  MenuTypeOK'
  <2>1. ASSUME NEW i \in Items, SetItemAvailability(i, st) PROVE MenuTypeOK'
    BY <1>9, <2>1 DEF SetItemAvailability
  <2>2. ASSUME NEW s \in Sizes, SetSizeAvailability(s, st) PROVE MenuTypeOK'
    BY <1>9, <2>2 DEF SetSizeAvailability
  <2>3. ASSUME NEW o \in Options, SetModifierOptionAvailability(o, st) PROVE MenuTypeOK'
    BY <1>9, <2>3 DEF SetModifierOptionAvailability
  <2> QED BY ONLY <1>16, <2>1, <2>2, <2>3
<1>17. ASSUME \/ \E c \in Categories : RetireCategory(c)
              \/ \E i \in Items : RetireItem(i) \/ (\E G \in SUBSET Groups : Reattach(i, G))
              \/ \E s \in Sizes : RetireSize(s)
              \/ \E o \in Options : RetireModifierOption(o)
              \/ \E g \in Groups :
                  \/ RetireModifierGroup(g)
                  \/ \E D \in SUBSET OptionsOf(g) :
                      SetModifierGroupDefaults(g, D) \/ (\E r \in Rules : SetSelectionRule(g, r, D))
       PROVE  MenuTypeOK'
  BY <1>11, <1>12, <1>13, <1>17
  DEF RetireCategory, RetireItem, RetireSize, RetireModifierGroup, RetireModifierOption
<1> QED BY <1>10, <1>14, <1>15, <1>16, <1>17 DEF MenuNext

\* A unit price is a price.
LEMMA PriceIsNatural ==
  ASSUME MenuTypeOK, NEW c \in Configs
  PROVE  UnitPrice(c) \in Nat
<1> USE KindAssumption, PriceAssumption DEF MenuTypeOK
<1>1. c.item \in Items /\ c.size \in Sizes \cup {Absent} /\ c.options \in SUBSET Options
  BY DEF Configs
<1>2. \A o \in c.options : price[o] \in Nat
  BY <1>1 DEF Priced, Parts
<1>3. IsFiniteSet(c.options)
  BY <1>1, FiniteAssumption, FS_Subset
<1>4. Total(price, c.options) \in Nat
  BY <1>2, <1>3, TotalNat
<1>5. (IF price[c.item] # Absent THEN price[c.item]
       ELSE IF c.size # Absent THEN price[c.size] ELSE 0) \in Nat
  BY <1>1 DEF Priced, Parts
<1> QED BY <1>4, <1>5 DEF UnitPrice

\* What order_draft_items may hold.
LineRows == [item : Items, size : Sizes \cup {Absent}, note : Notes \cup {Absent},
             key : SUBSET Options, quantity : 1..MaxQuantity]

\* A line that is there is a row, and a drink.
LEMMA LineIsRow ==
  ASSUME TypeOK, NEW l \in Lines
  PROVE  /\ Present(l) => line[l] \in LineRows /\ ConfigOf(l) \in Configs
         /\ ~ Present(l) => line[l] = NoLine /\ line[l].quantity = 0
         /\ line[l].quantity \in 0..MaxQuantity
<1>1. line[l] \in LineRows \cup {NoLine} /\ chosen[l] \in SUBSET Options
  BY DEF TypeOK, LineRows
<1>2. NoLine.quantity = 0
  BY DEF NoLine
<1>3. ASSUME line[l] \in LineRows
      PROVE  /\ Present(l) /\ line[l].quantity \in 0..MaxQuantity
             /\ ConfigOf(l) \in Configs
  <2>1. line[l].item \in Items /\ line[l].size \in Sizes \cup {Absent}
        /\ line[l].note \in Notes \cup {Absent} /\ line[l].quantity \in 1..MaxQuantity
    BY <1>3 DEF LineRows
  <2>2. ConfigOf(l) \in Configs
    BY <1>1, <2>1 DEF ConfigOf, Configs
  <2> QED BY <2>1, <2>2, BoundAssumption DEF Present
<1>4. 0 \in 0..MaxQuantity
  BY BoundAssumption
<1> QED BY <1>1, <1>2, <1>3, <1>4 DEF Present

-----------------------------------------------------------------------------
(* The commands on the draft.                                              *)

\* They change lines and nothing else.
LEMMA LinesOnly ==
  ASSUME IInv, Editing, UNCHANGED round, DraftKept, target' \in Targets,
         line' \in [Lines -> LineRows \cup {NoLine}],
         chosen' \in [Lines -> SUBSET Options],
         KeysTell', Apart'
  PROVE  IInv'
<1>1. UNCHANGED <<mode, round, earlier, sold, units, checks>> /\ UNCHANGED menuVars
  BY DEF DraftKept
<1>2. MenuTypeOK'
  BY <1>1 DEF IInv, TypeOK, MenuTypeOK, menuVars
<1>3. TypeOK'
  BY <1>1, <1>2 DEF IInv, TypeOK, LineRows
<1>4. RoundsInOrder'
  BY <1>1 DEF IInv, RoundsInOrder, HasOrder
<1>5. SoldAsAsked'
  BY <1>1 DEF IInv, SoldAsAsked, Editing
<1>6. SentAsSold'
  BY <1>1 DEF IInv, SentAsSold
<1> QED BY <1>3, <1>4, <1>5, <1>6 DEF IInv

\* One row is written, or deleted.
LEMMA OneRow ==
  ASSUME IInv, Editing, UNCHANGED round, DraftKept, target' \in Targets,
         NEW l \in Lines, NEW r \in LineRows \cup {NoLine},
         line' = [line EXCEPT ![l] = r],
         chosen' = [chosen EXCEPT ![l] = r.key],
         \A m \in Twins(r.item, r.size, r.note, r.key) : m = l
  PROVE  IInv'
<1>1. line \in [Lines -> LineRows \cup {NoLine}] /\ chosen \in [Lines -> SUBSET Options]
  BY DEF IInv, TypeOK, LineRows
<1>2. r.key \in SUBSET Options
  BY DEF LineRows, NoLine
<1>3. line' \in [Lines -> LineRows \cup {NoLine}] /\ chosen' \in [Lines -> SUBSET Options]
  BY <1>1, <1>2
<1>4. /\ line'[l] = r /\ chosen'[l] = r.key
      /\ \A m \in Lines \ {l} : line'[m] = line[m] /\ chosen'[m] = chosen[m]
  BY <1>1
<1>5. KeysTell'
  BY <1>4 DEF IInv, KeysTell, Present
<1>6. Apart'
  BY <1>4 DEF IInv, Apart, Present, Twins
<1> QED BY <1>3, <1>5, <1>6, LinesOnly

\* A quantity changes.
LEMMA Recounts ==
  ASSUME IInv, Editing, UNCHANGED <<round, target, chosen>>, DraftKept,
         NEW l \in Lines, Present(l), NEW q \in 1..MaxQuantity,
         line' = [line EXCEPT ![l].quantity = q]
  PROVE  IInv'
<1> DEFINE r == [line[l] EXCEPT !.quantity = q]
<1>1. line[l] \in LineRows /\ line \in [Lines -> LineRows \cup {NoLine}]
      /\ chosen \in [Lines -> SUBSET Options] /\ line[l].key = chosen[l]
  BY LineIsRow DEF IInv, TypeOK, LineRows, KeysTell
<1>2. r \in LineRows /\ r.item = line[l].item /\ r.size = line[l].size
      /\ r.note = line[l].note /\ r.key = line[l].key
  BY <1>1 DEF LineRows
<1>3. \A m \in Twins(r.item, r.size, r.note, r.key) : m = l
  BY <1>2 DEF IInv, Apart, Twins
<1>4. line' = [line EXCEPT ![l] = r] /\ chosen' = [chosen EXCEPT ![l] = r.key]
  BY <1>1, <1>2
<1>5. target' \in Targets
  BY DEF IInv, TypeOK
<1> HIDE DEF r
<1> QED BY <1>2, <1>3, <1>4, <1>5, OneRow

\* One more of a drink, or a new line, keeps every line apart and its key true.
LEMMA AddKeeps ==
  ASSUME IInv, NEW i \in Items, NEW s \in Sizes \cup {Absent}, NEW n \in Notes \cup {Absent},
         NEW list \in {Absent} \cup SUBSET Options, AddDraftItem(i, s, n, list)
  PROVE  IInv'
<1> DEFINE O == IF list = Absent THEN DefaultsOf(i) ELSE list
<1>1. Editing /\ UNCHANGED <<round, target>> /\ DraftKept /\ target' \in Targets
  BY DEF AddDraftItem, IInv, TypeOK
<1>2. O \in SUBSET Options
  <2>1. offered[i] \subseteq Groups /\ \A g \in Groups : defaults[g] \subseteq Options
    BY DEF IInv, TypeOK, MenuTypeOK
  <2>2. DefaultsOf(i) \subseteq Options
    BY <2>1 DEF DefaultsOf
  <2> QED BY <2>2
<1>3. ASSUME NEW l \in Twins(i, s, n, O), line[l].quantity < MaxQuantity,
             line' = [line EXCEPT ![l].quantity = @ + 1], UNCHANGED chosen
      PROVE  IInv'
  <2>1. l \in Lines /\ Present(l) /\ line[l].quantity + 1 \in 1..MaxQuantity
    BY <1>3, LineIsRow, BoundAssumption DEF Twins, IInv, Present
  <2>2. line' = [line EXCEPT ![l].quantity = line[l].quantity + 1]
    BY <1>3
  <2> QED BY <1>1, <1>3, <2>1, <2>2, Recounts
<1>4. ASSUME Twins(i, s, n, O) = {}, NEW l \in Lines, ~ Present(l),
             line' = [line EXCEPT ![l] = [item |-> i, size |-> s, note |-> n,
                                          key |-> O, quantity |-> 1]],
             chosen' = [chosen EXCEPT ![l] = O]
      PROVE  IInv'
  <2> DEFINE r == [item |-> i, size |-> s, note |-> n, key |-> O, quantity |-> 1]
  <2>1. r \in LineRows /\ r.key = O
    BY <1>2, BoundAssumption DEF LineRows
  <2>2. \A m \in Twins(r.item, r.size, r.note, r.key) : m = l
    BY <1>4
  <2>3. line' = [line EXCEPT ![l] = r] /\ chosen' = [chosen EXCEPT ![l] = r.key]
    BY <1>4
  <2> HIDE DEF r
  <2> QED BY <1>1, <2>1, <2>2, <2>3, OneRow
<1> QED BY <1>3, <1>4 DEF AddDraftItem

\* Deleting a line takes its key and its Options with it.
LEMMA RemoveKeeps ==
  ASSUME IInv, NEW l \in Lines, RemoveDraftItem(l)
  PROVE  IInv'
<1>1. /\ Editing /\ UNCHANGED <<round, target>> /\ DraftKept /\ target' \in Targets
      /\ line' = [line EXCEPT ![l] = NoLine] /\ chosen' = [chosen EXCEPT ![l] = NoLine.key]
  BY DEF RemoveDraftItem, IInv, TypeOK, NoLine
<1>2. Twins(NoLine.item, NoLine.size, NoLine.note, NoLine.key) = {}
  <2> SUFFICES ASSUME NEW m \in Lines, Present(m), line[m].item = Absent
               PROVE  FALSE
    BY DEF Twins, NoLine
  <2> QED BY LineIsRow, NoteAssumption DEF IInv, LineRows
<1> QED BY <1>1, <1>2, OneRow

\* Two lines become one, or a line takes a composition that no other has.
LEMMA ApplyKeeps ==
  ASSUME IInv, Editing, NEW l \in Lines, Present(l),
         NEW s \in Sizes \cup {Absent}, NEW n \in Notes \cup {Absent}, NEW k \in SUBSET Options,
         ApplyCompositionChange(l, s, n, k, k)
  PROVE  IInv'
<1> DEFINE twins == Twins(line[l].item, s, n, k) \ {l}
<1>1. UNCHANGED <<round, target>> /\ DraftKept /\ target' \in Targets
  BY DEF ApplyCompositionChange, IInv, TypeOK
<1>2. line[l] \in LineRows /\ line \in [Lines -> LineRows \cup {NoLine}]
      /\ chosen \in [Lines -> SUBSET Options] /\ line[l].key = chosen[l]
  BY LineIsRow DEF IInv, TypeOK, LineRows, KeysTell
<1>3. ASSUME NEW m \in twins, line[m].quantity + line[l].quantity <= MaxQuantity,
             line' = [line EXCEPT ![m].quantity = @ + line[l].quantity, ![l] = NoLine],
             chosen' = [chosen EXCEPT ![l] = {}]
      PROVE  IInv'
  <2> DEFINE r == [line[m] EXCEPT !.quantity = @ + line[l].quantity]
  <2>1. m \in Lines /\ m # l /\ Present(m) /\ line[m] \in LineRows /\ line[m].key = chosen[m]
    BY <1>3, LineIsRow DEF Twins, IInv, KeysTell
  <2>2. r \in LineRows /\ r.quantity > 0 /\ r.item = line[m].item /\ r.size = line[m].size
        /\ r.note = line[m].note /\ r.key = line[m].key
    <3>1. line[m].quantity + line[l].quantity \in 1..MaxQuantity
      BY <1>2, <1>3, <2>1, BoundAssumption DEF LineRows
    <3>2. r.quantity = line[m].quantity + line[l].quantity
      BY <2>1 DEF LineRows
    <3> QED BY <2>1, <3>1, <3>2 DEF LineRows
  <2>3. line' = [line EXCEPT ![m] = r, ![l] = NoLine]
    BY <1>2, <1>3, <2>1
  <2> HIDE DEF r
  <2>4. /\ line'[m] = r /\ line'[l] = NoLine /\ chosen'[m] = chosen[m]
        /\ \A x \in Lines \ {l} : chosen'[x] = chosen[x]
        /\ \A x \in Lines \ {l, m} : line'[x] = line[x]
    BY <1>2, <1>3, <2>1, <2>3
  <2>5. line' \in [Lines -> LineRows \cup {NoLine}] /\ chosen' \in [Lines -> SUBSET Options]
    BY <1>2, <1>3, <2>2, <2>3
  <2>6. \A x \in Lines : Present(x)' => x # l /\ Present(x) /\ line'[x].key = line[x].key
                            /\ line'[x].item = line[x].item /\ line'[x].size = line[x].size
                            /\ line'[x].note = line[x].note /\ chosen'[x] = chosen[x]
    <3>1. NoLine.quantity = 0
      BY DEF NoLine
    <3> QED BY <2>1, <2>2, <2>4, <3>1 DEF Present
  <2>7. KeysTell' /\ Apart'
    BY <2>6 DEF IInv, KeysTell, Apart
  <2> QED BY <1>1, <2>5, <2>7, LinesOnly
<1>4. ASSUME twins = {},
             line' = [line EXCEPT ![l].size = s, ![l].note = n, ![l].key = k],
             chosen' = IF k = line[l].key THEN chosen ELSE [chosen EXCEPT ![l] = k]
      PROVE  IInv'
  <2> DEFINE r == [line[l] EXCEPT !.size = s, !.note = n, !.key = k]
  <2>1. r \in LineRows /\ r.item = line[l].item /\ r.size = s /\ r.note = n /\ r.key = k
    BY <1>2 DEF LineRows
  <2>2. line' = [line EXCEPT ![l] = r]
    BY <1>2, <1>4
  <2> HIDE DEF r
  <2>3. chosen' = [chosen EXCEPT ![l] = r.key]
    BY <1>2, <1>4, <2>1
  <2>4. \A m \in Twins(r.item, r.size, r.note, r.key) : m = l
    BY <1>4, <2>1
  <2> QED BY <1>1, <2>1, <2>2, <2>3, <2>4, OneRow
<1> QED BY <1>3, <1>4 DEF ApplyCompositionChange

\* The three commands that recompose a line call it with what they leave alone.
LEMMA Recomposes ==
  ASSUME IInv, NEW l \in Lines,
         \/ \E s \in Sizes \cup {Absent} : SetDraftItemSize(l, s)
         \/ \E n \in Notes \cup {Absent} : SetDraftItemNote(l, n)
         \/ \E O \in SUBSET Options : SetDraftItemModifiers(l, O)
  PROVE  /\ Editing /\ Present(l)
         /\ \E s \in Sizes \cup {Absent}, n \in Notes \cup {Absent}, k \in SUBSET Options :
              ApplyCompositionChange(l, s, n, k, k)
<1>1. Editing /\ Present(l)
  BY DEF SetDraftItemSize, SetDraftItemNote, SetDraftItemModifiers
<1>2. /\ line[l].size \in Sizes \cup {Absent} /\ line[l].note \in Notes \cup {Absent}
      /\ line[l].key \in SUBSET Options /\ line[l].key = chosen[l]
  BY <1>1, LineIsRow DEF IInv, KeysTell, LineRows
<1> QED BY <1>1, <1>2 DEF SetDraftItemSize, SetDraftItemNote, SetDraftItemModifiers

\* The choice of a Check is kept beside the lines.
LEMMA TargetKeeps ==
  ASSUME IInv, NEW t \in Targets, SetCheckTarget(t)
  PROVE  IInv'
<1>1. /\ Editing /\ UNCHANGED <<round, line, chosen>> /\ DraftKept /\ target' \in Targets
  BY DEF SetCheckTarget
<1>2. KeysTell' /\ Apart'
  BY <1>1 DEF IInv, KeysTell, Apart, Present
<1>3. line' \in [Lines -> LineRows \cup {NoLine}] /\ chosen' \in [Lines -> SUBSET Options]
  BY <1>1 DEF IInv, TypeOK, LineRows
<1> QED BY <1>1, <1>2, <1>3, LinesOnly

-----------------------------------------------------------------------------
(* From draft to bar.                                                      *)

\* The lines stay, and so does what is said of them.
LEMMA LinesStay ==
  ASSUME IInv, UNCHANGED <<line, chosen>>
  PROVE  KeysTell' /\ Apart'
BY DEF IInv, KeysTell, Apart, Present

\* A commit sells each line as it stands, at the price of the moment.
LEMMA CommitKeeps ==
  ASSUME IInv, CommitOrderDraft
  PROVE  IInv'
<1>1. PICK k \in CheckIds :
        /\ sold' = [l \in Lines |->
                        IF Present(l)
                        THEN [config |-> ConfigOf(l), quantity |-> line[l].quantity,
                              price |-> UnitPrice(ConfigOf(l)), check |-> k]
                        ELSE NotSold]
        /\ checks' = [checks EXCEPT ![k] = [state |-> "OPEN",
                                            charge |-> @.charge + Total(LineTotals, Lines)]]
  BY DEF CommitOrderDraft
<1>2. /\ Editing /\ round' = [round EXCEPT !.state = "COMMITTED"]
      /\ UNCHANGED <<menuVars, mode, target, earlier, line, chosen, units>>
  BY DEF CommitOrderDraft
<1>3. MenuTypeOK /\ MenuTypeOK'
  BY <1>2 DEF IInv, TypeOK, MenuTypeOK, menuVars
<1>4. \A l \in Lines : Present(l) => /\ ConfigOf(l) \in Configs /\ UnitPrice(ConfigOf(l)) \in Nat
                                     /\ line[l].quantity \in 1..MaxQuantity
  BY <1>3, LineIsRow, PriceIsNatural DEF IInv, LineRows
<1>5. \A l \in Lines : LineTotals[l] \in Int
  BY <1>4 DEF LineTotals
<1>6. Total(LineTotals, Lines) \in Int
  BY <1>5, FiniteAssumption, TotalInt
<1>7. checks' \in [CheckIds -> [state : {"NONE", "OPEN", "SETTLED"}, charge : Int]]
  BY <1>1, <1>6 DEF IInv, TypeOK
<1>8. sold' \in [Lines -> [config : Configs, quantity : 1..MaxQuantity, price : Nat,
                           check : CheckIds] \cup {NotSold}]
  BY <1>1, <1>4
<1>9. round' \in [number : 1..MaxRounds, state : {"EDITABLE", "COMMITTED", "CANCELLED"},
                  ordered : BOOLEAN]
      /\ round'.state = "COMMITTED" /\ round'.ordered = round.ordered
  BY <1>2 DEF IInv, TypeOK
<1>10. TypeOK'
  BY <1>2, <1>3, <1>7, <1>8, <1>9 DEF IInv, TypeOK
<1>11. ~ round.ordered
  BY <1>2 DEF IInv, RoundsInOrder, Editing
<1>12. RoundsInOrder' /\ SentAsSold'
  BY <1>2, <1>9, <1>11 DEF IInv, RoundsInOrder, SentAsSold
<1>13. SoldAsAsked'
  BY <1>1, <1>2, <1>9 DEF SoldAsAsked, Present, ConfigOf
<1> QED BY <1>2, <1>10, <1>12, <1>13, LinesStay DEF IInv

\* A submission sends as many pieces of a line as were sold.
LEMMA SubmitKeeps ==
  ASSUME IInv, SubmitOrder
  PROVE  IInv'
<1>1. /\ Awaiting /\ round' = [round EXCEPT !.ordered = TRUE]
      /\ units' = [l \in Lines |-> sold[l].quantity]
      /\ UNCHANGED <<menuVars, mode, target, earlier, line, chosen, sold, checks>>
  BY DEF SubmitOrder
<1>2. MenuTypeOK'
  BY <1>1 DEF IInv, TypeOK, MenuTypeOK, menuVars
<1>3. \A l \in Lines : sold[l].quantity \in 0..MaxQuantity
  BY BoundAssumption DEF IInv, TypeOK, NotSold
<1>4. round'.state = "COMMITTED" /\ round'.ordered
      /\ round' \in [number : 1..MaxRounds, state : {"EDITABLE", "COMMITTED", "CANCELLED"},
                     ordered : BOOLEAN]
  BY <1>1 DEF Awaiting, IInv, TypeOK
<1>5. TypeOK'
  BY <1>1, <1>2, <1>3, <1>4 DEF IInv, TypeOK
<1>6. RoundsInOrder' /\ SentAsSold'
  BY <1>1, <1>4 DEF RoundsInOrder, SentAsSold
<1>7. SoldAsAsked'
  BY <1>1, <1>4 DEF IInv, SoldAsAsked, Awaiting, Present, ConfigOf
<1> QED BY <1>1, <1>5, <1>6, <1>7, LinesStay DEF IInv

\* A cancelled round has no Order and never gets one.
LEMMA CancelKeeps ==
  ASSUME IInv, CancelAwaitingSubmission
  PROVE  IInv'
<1>1. /\ Awaiting /\ ~ HasOrder /\ round' = [round EXCEPT !.state = "CANCELLED"]
      /\ checks' = [k \in CheckIds |-> [checks[k] EXCEPT !.charge = @ - Total(Withdrawn(k), Lines)]]
      /\ UNCHANGED <<menuVars, mode, target, earlier, line, chosen, sold, units>>
  BY DEF CancelAwaitingSubmission
<1>2. MenuTypeOK'
  BY <1>1 DEF IInv, TypeOK, MenuTypeOK, menuVars
<1>3. \A k \in CheckIds : Total(Withdrawn(k), Lines) \in Int
  <2> TAKE k \in CheckIds
  <2>1. \A l \in Lines : Withdrawn(k)[l] \in Int
    BY DEF Withdrawn, IInv, TypeOK, NotSold
  <2> QED BY <2>1, FiniteAssumption, TotalInt
<1>4. checks' \in [CheckIds -> [state : {"NONE", "OPEN", "SETTLED"}, charge : Int]]
  BY <1>1, <1>3 DEF IInv, TypeOK
<1>5. round'.state = "CANCELLED" /\ round'.ordered = FALSE
      /\ round' \in [number : 1..MaxRounds, state : {"EDITABLE", "COMMITTED", "CANCELLED"},
                     ordered : BOOLEAN]
  BY <1>1 DEF Awaiting, IInv, TypeOK
<1>6. TypeOK'
  BY <1>1, <1>2, <1>4, <1>5 DEF IInv, TypeOK
<1>7. RoundsInOrder'
  BY <1>1, <1>5 DEF RoundsInOrder, HasOrder
<1>8. SoldAsAsked' /\ SentAsSold'
  BY <1>1, <1>5 DEF IInv, SoldAsAsked, SentAsSold, Awaiting, Present, ConfigOf
<1> QED BY <1>1, <1>6, <1>7, <1>8, LinesStay DEF IInv

\* Paying touches a Check and nothing of a round.
LEMMA PayKeeps ==
  ASSUME IInv, NEW k \in CheckIds, PayCheck(k)
  PROVE  IInv'
<1>1. /\ checks' = [checks EXCEPT ![k].state = "SETTLED"]
      /\ UNCHANGED <<menuVars, mode, round, target, earlier, line, chosen, sold, units>>
  BY DEF PayCheck
<1>2. MenuTypeOK'
  BY <1>1 DEF IInv, TypeOK, MenuTypeOK, menuVars
<1>3. TypeOK'
  BY <1>1, <1>2 DEF IInv, TypeOK
<1>4. RoundsInOrder' /\ SoldAsAsked' /\ SentAsSold'
  BY <1>1 DEF IInv, RoundsInOrder, HasOrder, SoldAsAsked, SentAsSold, Present, ConfigOf
<1> QED BY <1>1, <1>3, <1>4, LinesStay DEF IInv

\* A new round starts with no line, nothing sold and nothing sent.
LEMMA StartNewKeeps ==
  ASSUME IInv, StartNewOrderDraft
  PROVE  IInv'
<1>1. /\ round.number < MaxRounds /\ ~ Blocks(round)
      /\ earlier' = earlier \cup {round} /\ round' = NewRound(round.number + 1)
      /\ target' = "CURRENT_UNPAID" /\ UNCHANGED <<menuVars, mode, checks>>
      /\ line' = [l \in Lines |-> NoLine] /\ chosen' = [l \in Lines |-> {}]
      /\ sold' = [l \in Lines |-> NotSold] /\ units' = [l \in Lines |-> 0]
  BY DEF StartNewOrderDraft
<1>2. MenuTypeOK'
  BY <1>1 DEF IInv, TypeOK, MenuTypeOK, menuVars
<1>3. round'.state = "EDITABLE" /\ round'.ordered = FALSE
      /\ round' \in [number : 1..MaxRounds, state : {"EDITABLE", "COMMITTED", "CANCELLED"},
                     ordered : BOOLEAN]
  BY <1>1, BoundAssumption DEF NewRound, IInv, TypeOK
<1>4. round \in [number : 1..MaxRounds, state : {"COMMITTED"}, ordered : {TRUE}]
  BY <1>1 DEF Blocks, IInv, TypeOK
<1>5. TypeOK'
  <2>1. earlier' \subseteq [number : 1..MaxRounds, state : {"COMMITTED"}, ordered : {TRUE}]
    BY <1>1, <1>4 DEF IInv, TypeOK
  <2>2. units' \in [Lines -> 0..MaxQuantity] /\ target' \in Targets
    BY <1>1, BoundAssumption DEF Targets
  <2>3. mode' \in {"DINE_IN", "TAKEAWAY"}
        /\ checks' \in [CheckIds -> [state : {"NONE", "OPEN", "SETTLED"}, charge : Int]]
    BY <1>1 DEF IInv, TypeOK
  <2> QED BY <1>1, <1>2, <1>3, <2>1, <2>2, <2>3 DEF TypeOK
<1>6. \A l \in Lines : ~ Present(l)'
  BY <1>1 DEF Present, NoLine
<1>7. KeysTell' /\ Apart' /\ SoldAsAsked'
  BY <1>1, <1>6 DEF KeysTell, Apart, SoldAsAsked
<1>8. RoundsInOrder' /\ SentAsSold'
  BY <1>1, <1>3 DEF RoundsInOrder, SentAsSold
<1> QED BY <1>5, <1>7, <1>8 DEF IInv

\* The menu moves, and the rounds stand.
LEMMA MenuKeeps ==
  ASSUME IInv, ChangeMenu
  PROVE  IInv'
<1>1. UNCHANGED saleVars /\ MenuTypeOK'
  BY MenuTyped DEF IInv, TypeOK, ChangeMenu
<1>2. TypeOK'
  BY <1>1 DEF IInv, TypeOK, saleVars
<1>3. RoundsInOrder' /\ SoldAsAsked' /\ SentAsSold'
  BY <1>1 DEF saleVars, IInv, RoundsInOrder, HasOrder, SoldAsAsked, SentAsSold, Present, ConfigOf
<1> QED BY <1>1, <1>2, <1>3, LinesStay DEF IInv, saleVars

\* What Next is made of.
LEMMA NextSplits ==
  ASSUME IInv, Next
  PROVE  \/ ChangeMenu
         \/ \E i \in Items, s \in Sizes \cup {Absent}, n \in Notes \cup {Absent},
               list \in {Absent} \cup SUBSET Options : AddDraftItem(i, s, n, list)
         \/ \E l \in Lines, q \in 1..MaxQuantity : SetDraftItemQuantity(l, q)
         \/ \E l \in Lines : /\ Editing /\ Present(l)
                             /\ \E s \in Sizes \cup {Absent}, n \in Notes \cup {Absent}, k \in SUBSET Options :
                                  ApplyCompositionChange(l, s, n, k, k)
         \/ \E l \in Lines : RemoveDraftItem(l)
         \/ \E t \in Targets : SetCheckTarget(t)
         \/ CommitOrderDraft \/ SubmitOrder \/ CancelAwaitingSubmission
         \/ \E k \in CheckIds : PayCheck(k)
         \/ StartNewOrderDraft
<1>1. ASSUME NEW l \in Lines,
             \/ \E s \in Sizes \cup {Absent} : SetDraftItemSize(l, s)
             \/ \E n \in Notes \cup {Absent} : SetDraftItemNote(l, n)
             \/ \E O \in SUBSET Options : SetDraftItemModifiers(l, O)
      PROVE  \E m \in Lines : /\ Editing /\ Present(m)
                              /\ \E s \in Sizes \cup {Absent}, n \in Notes \cup {Absent}, k \in SUBSET Options :
                                   ApplyCompositionChange(m, s, n, k, k)
  BY <1>1, Recomposes
<1>2. CASE \E l \in Lines :
        \/ \E q \in 1..MaxQuantity : SetDraftItemQuantity(l, q)
        \/ \E s \in Sizes \cup {Absent} : SetDraftItemSize(l, s)
        \/ \E n \in Notes \cup {Absent} : SetDraftItemNote(l, n)
        \/ \E O \in SUBSET Options : SetDraftItemModifiers(l, O)
        \/ RemoveDraftItem(l)
  BY <1>1, <1>2
<1>3. CASE ~ \E l \in Lines :
        \/ \E q \in 1..MaxQuantity : SetDraftItemQuantity(l, q)
        \/ \E s \in Sizes \cup {Absent} : SetDraftItemSize(l, s)
        \/ \E n \in Notes \cup {Absent} : SetDraftItemNote(l, n)
        \/ \E O \in SUBSET Options : SetDraftItemModifiers(l, O)
        \/ RemoveDraftItem(l)
  BY <1>3 DEF Next
<1> QED BY <1>2, <1>3

\* Every step keeps the inductive invariant.
LEMMA NextKeeps ==
  ASSUME IInv, [Next]_vars
  PROVE  IInv'
<1>1. CASE UNCHANGED vars
  <2>1. MenuTypeOK'
    BY <1>1 DEF IInv, TypeOK, MenuTypeOK, vars, menuVars
  <2>2. TypeOK'
    BY <1>1, <2>1 DEF IInv, TypeOK, vars, saleVars
  <2>3. RoundsInOrder' /\ SoldAsAsked' /\ SentAsSold'
    BY <1>1 DEF vars, saleVars, IInv, RoundsInOrder, HasOrder, SoldAsAsked, SentAsSold, Present, ConfigOf
  <2> QED BY <1>1, <2>2, <2>3, LinesStay DEF IInv, vars, saleVars
<1>2. ASSUME NEW l \in Lines, NEW q \in 1..MaxQuantity, SetDraftItemQuantity(l, q)
      PROVE  IInv'
  BY <1>2, Recounts DEF SetDraftItemQuantity
<1>3. CASE Next
  BY <1>2, <1>3, NextSplits, MenuKeeps, AddKeeps, ApplyKeeps, RemoveKeeps, TargetKeeps,
     CommitKeeps, SubmitKeeps, CancelKeeps, PayKeeps, StartNewKeeps
<1> QED BY <1>1, <1>3

\* It holds of a Session's first round.
LEMMA InitKeeps ==
  ASSUME Init
  PROVE  IInv
<1> USE DEF Init
<1>1. MenuTypeOK
  <2>1. standing \in [Things -> {"UNMADE", "AVAILABLE", "UNAVAILABLE", "RETIRED"}]
    BY DEF MenuInit
  <2>2. /\ price \in [Priced -> Amounts \cup {Absent}]
        /\ \A t \in Parts : price[t] # Absent
        /\ \A t \in Items \cup Sizes : price[t] # 0
    <3>1. price = FirstPrice
      BY DEF MenuInit
    <3>2. \A t \in Parts : t \in Priced /\ t \notin Items
      BY KindAssumption DEF Priced
    <3>3. \A t \in Items \cup Sizes : t \in Priced /\ t \notin Options
      BY KindAssumption DEF Priced, Parts
    <3>4. /\ FirstPrice \in [Priced -> Amounts \cup {Absent}]
          /\ \A t \in Priced : FirstPrice[t] = Absent => t \in Items
          /\ \A t \in Priced : FirstPrice[t] = 0 => t \in Options
      BY PriceAssumption
    <3>5. \A t \in Parts : FirstPrice[t] # Absent
      BY <3>2, <3>4
    <3>6. \A t \in Items \cup Sizes : FirstPrice[t] # 0
      BY <3>3, <3>4
    <3> QED BY <3>1, <3>4, <3>5, <3>6
  <2>3. rule \in [Groups -> Rules] /\ offered \in [Items -> SUBSET Groups] /\ changes \in 0..MaxChanges
    BY FirstAssumption, MenuBounds DEF MenuInit, Rules
  <2> QED BY <2>1, <2>2, <2>3 DEF MenuInit, MenuTypeOK
<1>2. TypeOK
  <2>1. round \in [number : 1..MaxRounds, state : {"EDITABLE", "COMMITTED", "CANCELLED"},
                   ordered : BOOLEAN]
    BY BoundAssumption DEF NewRound
  <2>2. units \in [Lines -> 0..MaxQuantity] /\ target \in Targets
    BY BoundAssumption DEF Targets
  <2> QED BY <1>1, <2>1, <2>2 DEF TypeOK
<1>3. \A l \in Lines : ~ Present(l)
  BY DEF Present, NoLine
<1> QED BY <1>2, <1>3 DEF IInv, KeysTell, Apart, RoundsInOrder, SoldAsAsked, SentAsSold, NewRound

\* The inductive invariant.
THEOREM Invariance == Spec => []IInv
BY InitKeeps, NextKeeps, PTL DEF Spec

\* Type correctness of the rounds, for any menu.
THEOREM TypeCorrect == Spec => []TypeOK
<1>1. IInv => TypeOK
  BY DEF IInv
<1> QED BY <1>1, Invariance, PTL

\* No draft holds one drink twice, whatever edits led to it.
LEMMA ApartIsOne ==
  ASSUME IInv
  PROVE  OneLinePerDrink
<1> SUFFICES ASSUME NEW l \in Lines, NEW m \in Lines, Present(l), Present(m), ConfigOf(l) = ConfigOf(m)
             PROVE  l = m
  BY DEF OneLinePerDrink
<1>1. /\ line[l].item = line[m].item /\ line[l].size = line[m].size
      /\ line[l].note = line[m].note /\ chosen[l] = chosen[m]
  BY DEF ConfigOf
<1> QED BY <1>1 DEF IInv, KeysTell, Apart

\* No two lines of a draft are one drink, though the commands compare a derived key.
THEOREM OneLineEach == Spec => []OneLinePerDrink
BY ApartIsOne, Invariance, PTL

\* A Session one of whose drafts was cancelled has no Order and gets none.
THEOREM NothingAfterCancelled == Spec => []CancelledIsTheLast
<1>1. IInv => CancelledIsTheLast
  BY DEF IInv, TypeOK, RoundsInOrder, CancelledIsTheLast
<1> QED BY <1>1, Invariance, PTL

-----------------------------------------------------------------------------
(* Edits lose nothing.                                                     *)

\* Merged into another line or rewritten in place, a line loses none of its pieces.
LEMMA ApplyMovesPieces ==
  ASSUME IInv, NEW l \in Lines, Present(l),
         NEW s \in Sizes \cup {Absent}, NEW n \in Notes \cup {Absent}, NEW k \in SUBSET Options,
         ApplyCompositionChange(l, s, n, k, k)
  PROVE  PiecesAsked' = PiecesAsked
<1> DEFINE q == [x \in Lines |-> line[x].quantity]
           p == [x \in Lines |-> line'[x].quantity]
<1>1. \A x \in Lines : q[x] \in Int
  BY LineIsRow DEF IInv
<1>2. \A x \in Lines : line[x] \in LineRows \cup {NoLine}
  BY DEF IInv, TypeOK, LineRows
<1>3. line = [x \in Lines |-> line[x]]
  BY DEF IInv, TypeOK
<1>4. ASSUME NEW m \in Twins(line[l].item, s, n, k) \ {l},
             line' = [line EXCEPT ![m].quantity = @ + line[l].quantity, ![l] = NoLine]
      PROVE  Total(p, Lines) = Total(q, Lines)
  <2> DEFINE r == [q EXCEPT ![m] = q[m] + q[l]]
  <2>1. m \in Lines /\ m # l /\ Present(m) /\ line[m] \in LineRows
    BY <1>4, LineIsRow DEF Twins, IInv
  <2>2. /\ p[m] = q[m] + q[l] /\ p[l] = 0
        /\ \A x \in Lines \ {l, m} : p[x] = q[x]
    BY <1>3, <1>4, <2>1 DEF NoLine, LineRows
  <2>3. \A x \in Lines : p[x] \in Int /\ r[x] \in Int
    BY <1>1, <2>1, <2>2
  <2>4. r[m] = q[m] + q[l] /\ (\A x \in Lines \ {m} : r[x] = q[x]) /\ (\A x \in Lines \ {l} : p[x] = r[x])
        /\ r[l] = q[l]
    BY <2>1, <2>2
  <2> HIDE DEF p, q, r
  <2>5. Total(r, Lines) = Total(q, Lines) + (r[m] - q[m])
    BY <1>1, <2>1, <2>3, <2>4, FiniteAssumption, TotalUpdate
  <2>6. Total(p, Lines) = Total(r, Lines) + (p[l] - r[l])
    BY <2>3, <2>4, FiniteAssumption, TotalUpdate
  <2>7. Total(q, Lines) \in Int
    BY <1>1, FiniteAssumption, TotalInt
  <2> QED BY <1>1, <2>1, <2>2, <2>4, <2>5, <2>6, <2>7
<1>5. ASSUME line' = [line EXCEPT ![l].size = s, ![l].note = n, ![l].key = k]
      PROVE  Total(p, Lines) = Total(q, Lines)
  <2>1. line[l] \in LineRows
    BY LineIsRow DEF IInv
  <2>2. \A x \in Lines : p[x] = q[x]
    BY <1>3, <1>5, <2>1 DEF LineRows
  <2> HIDE DEF p, q
  <2> QED BY <2>2, FiniteAssumption, TotalCongruence
<1>6. Total(p, Lines) = Total(q, Lines)
  BY <1>4, <1>5 DEF ApplyCompositionChange
<1> QED BY <1>6 DEF PiecesAsked

\* An edit of a Size, a note or Options asks for as many pieces as before.
THEOREM NoPieceLost == Spec => EditsLoseNothing
<1>1. IInv /\ [Next]_vars => [Recomposition => PiecesAsked' = PiecesAsked]_vars
  <2> SUFFICES ASSUME IInv, Recomposition
               PROVE  PiecesAsked' = PiecesAsked
    OBVIOUS
  <2>1. PICK l \in Lines :
          \/ \E s \in Sizes \cup {Absent} : SetDraftItemSize(l, s)
          \/ \E n \in Notes \cup {Absent} : SetDraftItemNote(l, n)
          \/ \E O \in SUBSET Options : SetDraftItemModifiers(l, O)
    BY DEF Recomposition
  <2> QED BY <2>1, Recomposes, ApplyMovesPieces
<1> QED BY <1>1, Invariance, PTL DEF Spec, EditsLoseNothing

-----------------------------------------------------------------------------
(* What is shown is for sale.                                              *)

\* A finite set has a part of any smaller size.
LEMMA PartOfSize ==
  ASSUME NEW S, IsFiniteSet(S), NEW n \in Nat, n <= Cardinality(S)
  PROVE  \E T \in SUBSET S : Cardinality(T) = n
<1> DEFINE P == {s \in SUBSET S : n <= Cardinality(s) => \E T \in SUBSET s : Cardinality(T) = n}
<1>1. ASSUME NEW s \in SUBSET S, \A x \in s : s \ {x} \in P
      PROVE  s \in P
  <2> SUFFICES ASSUME n <= Cardinality(s), n # Cardinality(s)
               PROVE  \E T \in SUBSET s : Cardinality(T) = n
    OBVIOUS
  <2>1. IsFiniteSet(s)
    BY FS_Subset
  <2>2. Cardinality(s) \in Nat
    BY <2>1, FS_CardinalityType
  <2>3. s # {}
    BY <2>2, FS_EmptySet
  <2>4. PICK x \in s : TRUE
    BY <2>3
  <2>5. Cardinality(s \ {x}) = Cardinality(s) - 1
    BY <2>1, <2>4, FS_RemoveElement
  <2>6. n <= Cardinality(s \ {x})
    BY <2>2, <2>5
  <2> QED BY <1>1, <2>4, <2>6
<1>2. \A s \in SUBSET S : s \in P
  <2> HIDE DEF P
  <2> QED BY <1>1, SetInduction
<1> QED BY <1>2

\* What an item offers has been created.
OfferedMade == \A i \in Items : \A g \in offered[i] : standing[g] # "UNMADE"

\* No row is uncreated, and groups are offered once created.
LEMMA MadeStays ==
  ASSUME MenuTypeOK, OfferedMade, MenuNext
  PROVE  OfferedMade'
<1> DEFINE Kept == /\ \A t \in Things : standing[t] # "UNMADE" => standing'[t] # "UNMADE"
                   /\ UNCHANGED offered
<1>0. \A i \in Items : offered[i] \subseteq Things
  BY DEF MenuTypeOK, Things
<1>1. ASSUME Kept PROVE OfferedMade'
  BY <1>0, <1>1 DEF OfferedMade
<1>2. ASSUME NEW T, NEW st \in {"AVAILABLE", "UNAVAILABLE", "RETIRED"}, NEW pr, NEW ru, NEW de,
             Writes(Becomes(T, st), pr, ru, de), UNCHANGED offered
      PROVE  OfferedMade'
  BY <1>1, <1>2 DEF Writes, Becomes
<1>3. ASSUME NEW pr, NEW ru, NEW de, Writes(standing, pr, ru, de), UNCHANGED offered
      PROVE  OfferedMade'
  BY <1>1, <1>3 DEF Writes
<1>4. ASSUME NEW T, NEW st \in {"AVAILABLE", "UNAVAILABLE"}, SetAvailability(T, st)
      PROVE  OfferedMade'
  BY <1>2, <1>4 DEF SetAvailability
<1>5. ASSUME NEW t, Retire(t) PROVE OfferedMade'
  BY <1>2, <1>5 DEF Retire
<1>6. ASSUME NEW t, NEW p, Reprice(t, p) PROVE OfferedMade'
  BY <1>3, <1>6 DEF Reprice
<1>7. ASSUME NEW T, NEW U, SetAvailabilityBatch(T, U) PROVE OfferedMade'
  BY <1>1, <1>7 DEF SetAvailabilityBatch, Writes
<1>8. ASSUME NEW i \in Items, NEW G, Reattach(i, G) PROVE OfferedMade'
  <2>1. /\ \A g \in G : standing[g] # "UNMADE"
        /\ offered' = [offered EXCEPT ![i] = G] /\ standing' = standing
    BY <1>8 DEF Reattach, Writes
  <2>2. offered = [j \in Items |-> offered[j]]
    BY DEF MenuTypeOK
  <2> QED BY <2>1, <2>2 DEF OfferedMade
<1>9. ASSUME NEW i, NEW S, NEW p, CreateItem(i, S, p) PROVE OfferedMade'
  BY <1>2, <1>9 DEF CreateItem
<1>10. ASSUME NEW t, NEW p, AddSize(t, p) \/ AddModifierOption(t, p) PROVE OfferedMade'
  BY <1>2, <1>10 DEF AddSize, AddModifierOption
<1>11. ASSUME NEW g, NEW O, NEW D, NEW r, NEW p, CreateModifierGroup(g, O, D, r, p) PROVE OfferedMade'
  BY <1>2, <1>11 DEF CreateModifierGroup
<1>12. ASSUME NEW g, NEW r, NEW D, SetSelectionRule(g, r, D) \/ SetModifierGroupDefaults(g, D)
       PROVE  OfferedMade'
  BY <1>3, <1>12 DEF SetSelectionRule, SetModifierGroupDefaults
<1> HIDE DEF Kept
<1> QED
  BY <1>4, <1>5, <1>6, <1>7, <1>8, <1>9, <1>10, <1>11, <1>12
  DEF MenuNext, RepriceItem, RepriceSize, RepriceModifierOption, SetItemAvailability,
      SetSizeAvailability, SetModifierOptionAvailability, RetireCategory, RetireItem, RetireSize,
      RetireModifierOption, RetireModifierGroup

\* From every group that asks for Options the minimum can be taken of those on sale.
LEMMA ShownIsObtainable ==
  ASSUME MenuTypeOK, OfferedMade
  PROVE  ShownCanBeOrdered
<1> SUFFICES ASSUME NEW i \in Items, Shown(i), ~ Unfillable(i)
             PROVE  Obtainable(i)
  BY DEF ShownCanBeOrdered
<1> DEFINE OnSale(g) == {o \in OptionsOf(g) : Orderable(o)}
<1>1. \A g \in offered[i] : g \in Groups /\ rule[g] \in Rules
  BY DEF MenuTypeOK
<1>2. \A g \in Groups : IsFiniteSet(OnSale(g)) /\ OnSale(g) \in SUBSET Options
  BY FiniteAssumption, FS_Subset DEF OptionsOf
<1>3. ASSUME NEW g \in offered[i], Active(g)
      PROVE  \E T \in SUBSET OnSale(g) : Cardinality(T) = rule[g].min
  <2>1. rule[g].min \in Nat /\ rule[g].min <= Cardinality(OnSale(g))
    BY <1>1, <1>3, MenuBounds DEF Shown, Rules
  <2> HIDE DEF OnSale
  <2> QED BY <1>1, <1>2, <2>1, PartOfSize
<1> DEFINE Wanting == {g \in offered[i] : Active(g)}
           Taken == [g \in Wanting |-> CHOOSE T \in SUBSET OnSale(g) : Cardinality(T) = rule[g].min]
           O == UNION {Taken[g] : g \in Wanting}
<1>4. ASSUME NEW g \in Wanting
      PROVE  Taken[g] \in SUBSET OnSale(g) /\ Cardinality(Taken[g]) = rule[g].min
  <2> HIDE DEF OnSale
  <2> QED BY <1>3, <1>4
<1> HIDE DEF Taken
<1>5. \A o \in O : o \in Options /\ GroupOf[o] \in Wanting /\ o \in Taken[GroupOf[o]] /\ Orderable(o)
  BY <1>4 DEF OptionsOf
<1>6. ASSUME NEW g \in Wanting PROVE {o \in O : GroupOf[o] = g} = Taken[g]
  BY <1>4, <1>5, <1>6 DEF OptionsOf
<1> HIDE DEF O
<1>7. Selectable(i, O) /\ O \in SUBSET Options
  BY <1>5 DEF Selectable
<1>8. GroupRules(i, O)
  <2> SUFFICES ASSUME NEW g \in offered[i]
               PROVE  IF Active(g) THEN Chosen(rule[g], Cardinality({o \in O : GroupOf[o] = g}))
                                   ELSE rule[g].min = 0
    BY DEF GroupRules
  <2>1. CASE Active(g)
    <3>1. Cardinality({o \in O : GroupOf[o] = g}) = rule[g].min
      BY <1>4, <1>6, <2>1
    <3>2. rule[g].min <= rule[g].min /\ rule[g].min <= rule[g].max
      BY <1>1, MenuBounds DEF Rules
    <3> QED BY <2>1, <3>1, <3>2 DEF Chosen
  <2>2. CASE ~ Active(g)
    <3>1. standing[g] = "RETIRED"
      BY <1>1, <2>2 DEF Active, OfferedMade, MenuTypeOK, Things
    <3>2. rule[g].min \in Nat /\ ~ (rule[g].min > 0)
      BY <1>1, <3>1, MenuBounds DEF Unfillable, Rules
    <3> QED BY <2>2, <3>2
  <2> QED BY <2>1, <2>2
<1>9. PICK s \in Sizes \cup {Absent} : SizeRule(i, s)
  <2>1. CASE price[i] = Absent
    <3>1. PICK s \in SizesOf(i) : Orderable(s)
      BY <2>1 DEF Shown
    <3> QED BY <2>1, <3>1, KindAssumption DEF SizeRule, SellableSize, SizesOf
  <2>2. CASE price[i] # Absent
    BY <2>2 DEF SizeRule
  <2> QED BY <2>1, <2>2
<1>10. Committable([item |-> i, size |-> s, note |-> Absent, options |-> O])
  BY <1>7, <1>8, <1>9 DEF Committable, Shown
<1> QED BY <1>7, <1>10 DEF Obtainable

\* What the Sellable Menu shows can be ordered, whatever Groups are attached, sold out
\* or retired, but for the item that still offers a retired Group it must choose from.
THEOREM ShownIsForSale == Spec => []ShownCanBeOrdered
<1>1. Init => IInv /\ OfferedMade
  <2>1. Init => OfferedMade
    BY FirstAssumption DEF Init, MenuInit, OfferedMade, Things
  <2> QED BY <2>1, InitKeeps
<1>2. (IInv /\ OfferedMade) /\ [Next]_vars => (IInv /\ OfferedMade)'
  <2> SUFFICES ASSUME IInv, OfferedMade, [Next]_vars PROVE OfferedMade'
    BY NextKeeps
  <2>1. MenuTypeOK
    BY DEF IInv, TypeOK
  <2>2. CASE ChangeMenu
    BY <2>1, <2>2, MadeStays DEF ChangeMenu
  <2>3. ASSUME UNCHANGED menuVars PROVE OfferedMade'
    BY <2>3 DEF menuVars, OfferedMade
  <2>4. CASE ~ ChangeMenu
    <3>1. UNCHANGED menuVars
      <4>1. ASSUME NEW i, NEW s, NEW n, NEW list, AddDraftItem(i, s, n, list) PROVE UNCHANGED menuVars
        BY ONLY <4>1 DEF AddDraftItem, DraftKept
      <4>2. ASSUME NEW l, \/ \E q \in 1..MaxQuantity : SetDraftItemQuantity(l, q)
                         \/ \E s \in Sizes \cup {Absent} : SetDraftItemSize(l, s)
                         \/ \E n \in Notes \cup {Absent} : SetDraftItemNote(l, n)
                         \/ \E O \in SUBSET Options : SetDraftItemModifiers(l, O)
                         \/ RemoveDraftItem(l)
            PROVE  UNCHANGED menuVars
        BY ONLY <4>2 DEF SetDraftItemQuantity, SetDraftItemSize, SetDraftItemNote,
           SetDraftItemModifiers, ApplyCompositionChange, RemoveDraftItem, DraftKept
      <4>3. ASSUME NEW t, SetCheckTarget(t) PROVE UNCHANGED menuVars
        BY ONLY <4>3 DEF SetCheckTarget, DraftKept
      <4>4. ASSUME CommitOrderDraft \/ SubmitOrder \/ CancelAwaitingSubmission PROVE UNCHANGED menuVars
        BY ONLY <4>4 DEF CommitOrderDraft, SubmitOrder, CancelAwaitingSubmission
      <4>5. ASSUME NEW k, PayCheck(k) PROVE UNCHANGED menuVars
        BY ONLY <4>5 DEF PayCheck
      <4>6. ASSUME StartNewOrderDraft PROVE UNCHANGED menuVars
        BY ONLY <4>6 DEF StartNewOrderDraft
      <4>7. CASE UNCHANGED vars
        BY ONLY <4>7 DEF vars
      <4>8. [Next]_vars
        OBVIOUS
      <4> HIDE DEF menuVars
      <4> QED BY ONLY <2>4, <4>1, <4>2, <4>3, <4>4, <4>5, <4>6, <4>7, <4>8 DEF Next
    <3> QED BY <2>3, <3>1
  <2> QED BY <2>2, <2>4
<1>3. IInv /\ OfferedMade => ShownCanBeOrdered
  BY ShownIsObtainable DEF IInv, TypeOK
<1> QED BY <1>1, <1>2, <1>3, PTL DEF Spec

-----------------------------------------------------------------------------
(* The rounds keep RoundBook's promises.                                   *)

Drinks == {ConfigOf(l) : l \in {l \in Lines : Present(l)}}

\* A drink is one line, so what is asked of it is that line's quantity.
WantedIsLines ==
    /\ Wanted = [c \in Drinks |-> Wanted[c]]
    /\ \A l \in Lines : Present(l) => Wanted[ConfigOf(l)] = line[l].quantity

\* What is wanted of a drink is what its only line asks for.
LEMMA OneLineCounts == IInv => WantedIsLines
<1> SUFFICES ASSUME IInv PROVE WantedIsLines
  OBVIOUS
<1>1. Wanted = [c \in Drinks |-> Wanted[c]]
  BY DEF Wanted, Drinks
<1>2. ASSUME NEW l \in Lines, Present(l) PROVE Wanted[ConfigOf(l)] = line[l].quantity
  <2> DEFINE f == [x \in Lines |-> IF ConfigOf(x) = ConfigOf(l) THEN line[x].quantity ELSE 0]
  <2>1. Wanted[ConfigOf(l)] = Total(f, Lines)
    BY <1>2 DEF Wanted
  <2>2. ASSUME NEW x \in Lines \ {l} PROVE f[x] = 0
    <3>1. CASE Present(x)
      BY <1>2, <3>1, ApartIsOne DEF OneLinePerDrink
    <3>2. CASE ~ Present(x)
      BY <3>2, LineIsRow DEF IInv
    <3> QED BY <3>1, <3>2
  <2>3. f[l] = line[l].quantity /\ f[l] \in Int
    BY LineIsRow DEF IInv
  <2> HIDE DEF f
  <2>4. Total(f, Lines) = f[l]
    BY <2>2, <2>3, FiniteAssumption, TotalSingle
  <2> QED BY <2>1, <2>3, <2>4
<1> QED BY <1>1, <1>2 DEF WantedIsLines

\* What a command on the draft leaves alone.
RoundKept == UNCHANGED <<Phase, Made, Charged, Owed, price>>
\* A command on the draft sells, sends and charges nothing.
LEMMA DraftCommandKeeps ==
  ASSUME DraftKept, UNCHANGED round
  PROVE  RoundKept
BY DEF DraftKept, menuVars, RoundKept, Phase, Made, Charged, Owed

\* Written, counted again or deleted, one line of one drink is a Recount.
LEMMA OneLineRecounts ==
  ASSUME IInv, IInv', Editing, RoundKept, NEW l \in Lines, NEW c,
         \A m \in Lines \ {l} : line'[m] = line[m] /\ chosen'[m] = chosen[m],
         Present(l) => ConfigOf(l) = c,
         Present(l)' => ConfigOf(l)' = c,
         Present(l) \/ Present(l)'
  PROVE  Book!BookNext
<1>1. WantedIsLines /\ WantedIsLines'
  <2>1. IInv' => WantedIsLines'
    BY OneLineCounts, PTL
  <2> QED BY <2>1, OneLineCounts
<1>2. DOMAIN Wanted = Drinks /\ DOMAIN Wanted' = Drinks'
  BY <1>1 DEF WantedIsLines
<1>3. c \in Drinks \cup Drinks'
  BY DEF Drinks
<1>4. ASSUME NEW m \in Lines \ {l}
      PROVE  /\ Present(m)' <=> Present(m)
             /\ ConfigOf(m)' = ConfigOf(m) /\ line'[m].quantity = line[m].quantity
  BY <1>4 DEF Present, ConfigOf
<1>5. ASSUME NEW d \in (Drinks \cup Drinks') \ {c}
      PROVE  d \in Drinks \cap Drinks' /\ Wanted'[d] = Wanted[d]
  <2>1. PICK m \in Lines \ {l} : Present(m) /\ ConfigOf(m) = d
    <3>1. CASE d \in Drinks
      BY <3>1 DEF Drinks
    <3>2. CASE d \in Drinks'
      <4>1. PICK m \in Lines : Present(m)' /\ ConfigOf(m)' = d
        BY <3>2 DEF Drinks
      <4> QED BY <1>4, <4>1
    <3> QED BY <3>1, <3>2
  <2>2. Present(m)' /\ ConfigOf(m)' = d /\ line'[m].quantity = line[m].quantity
    BY <1>4, <2>1
  <2>3. d \in Drinks /\ d \in Drinks'
    BY <2>1, <2>2 DEF Drinks
  <2>4. Wanted[d] = line[m].quantity
    BY <1>1, <2>1 DEF WantedIsLines
  <2>5. Wanted'[d] = line'[m].quantity
    BY <1>1, <2>2 DEF WantedIsLines
  <2> QED BY <2>2, <2>3, <2>4, <2>5
<1>6. Phase = "EDITABLE"
  BY DEF Phase, Editing, IInv, RoundsInOrder
<1>7. Book!Recount(c)
  BY <1>2, <1>5, <1>6 DEF Book!Recount, RoundKept
<1> QED BY <1>2, <1>3, <1>7 DEF Book!BookNext

\* A line that moves into another, or takes a composition no line has, takes its
\* pieces from one drink to another.
LEMMA ApplyReconfigures ==
  ASSUME IInv, IInv', Editing, NEW l \in Lines, Present(l),
         NEW s \in Sizes \cup {Absent}, NEW n \in Notes \cup {Absent}, NEW k \in SUBSET Options,
         ApplyCompositionChange(l, s, n, k, k)
  PROVE  Book!BookNext
<1> DEFINE c == ConfigOf(l)
           d == [item |-> line[l].item, size |-> s, note |-> n, options |-> k]
           twins == Twins(line[l].item, s, n, k) \ {l}
           after == (Drinks \ {c}) \cup {d}
<1>1. WantedIsLines /\ WantedIsLines'
  <2>1. IInv' => WantedIsLines'
    BY OneLineCounts, PTL
  <2> QED BY <2>1, OneLineCounts
<1>2. DOMAIN Wanted = Drinks /\ DOMAIN Wanted' = Drinks' /\ c \in Drinks
  BY <1>1 DEF WantedIsLines, Drinks
<1>3. RoundKept /\ Phase = "EDITABLE"
  <2>1. RoundKept
    BY DraftCommandKeeps DEF ApplyCompositionChange
  <2> QED BY <2>1 DEF Phase, Editing, IInv, RoundsInOrder
<1>4. /\ line[l] \in LineRows /\ line = [x \in Lines |-> line[x]] /\ chosen = [x \in Lines |-> chosen[x]]
      /\ line[l].key = chosen[l] /\ \A x \in Lines : line[x] \in LineRows \cup {NoLine}
  BY LineIsRow DEF IInv, TypeOK, LineRows, KeysTell
<1>5. ASSUME NEW m \in Lines, Present(m), ConfigOf(m) = d
      PROVE  m = l \/ m \in twins
  <2>1. /\ line[m].item = line[l].item /\ line[m].size = s /\ line[m].note = n /\ chosen[m] = k
        /\ line[m].key = chosen[m]
    BY <1>5 DEF ConfigOf, IInv, KeysTell
  <2> QED BY <1>5, <2>1 DEF Twins
<1>6. ASSUME NEW m \in twins PROVE m \in Lines /\ m # l /\ Present(m) /\ ConfigOf(m) = d
  BY <1>6 DEF Twins, ConfigOf, IInv, KeysTell
<1>7. d = c => twins = {}
  BY <1>6, ApartIsOne DEF OneLinePerDrink
\* What is left to show of a move: the drinks there are, and their pieces.
<1>8. ASSUME c # d, Drinks' = after, Wanted'[d] = Book!Asked(c) + Book!Asked(d),
             \A x \in after \ {d} : Wanted'[x] = Wanted[x]
      PROVE  Book!BookNext
  <2>1. Wanted' = [x \in (DOMAIN Wanted \ {c}) \cup {d} |->
                     IF x = d THEN Book!Asked(c) + Book!Asked(d) ELSE Wanted[x]]
    <3> HIDE DEF c, d
    <3>1. Wanted' = [x \in after |-> Wanted'[x]]
      BY <1>1, <1>8 DEF WantedIsLines
    <3> QED BY <1>2, <1>8, <3>1
  <2>2. Book!Reconfigure(c, d)
    BY <1>3, <1>8, <2>1 DEF Book!Reconfigure, RoundKept
  <2>3. d \in DOMAIN Wanted'
    BY <1>2, <1>8
  <2> QED BY <1>2, <2>2, <2>3 DEF Book!BookNext
<1>9. ASSUME NEW m \in Lines, m # l, m \notin twins, NEW x, Present(m), ConfigOf(m) = x
      PROVE  x # c /\ x # d
  BY <1>5, <1>9, ApartIsOne DEF OneLinePerDrink
<1>10. ASSUME NEW m \in twins,
              line' = [line EXCEPT ![m].quantity = @ + line[l].quantity, ![l] = NoLine],
              chosen' = [chosen EXCEPT ![l] = {}]
       PROVE  Book!BookNext
  <2>1. m \in Lines /\ m # l /\ Present(m) /\ ConfigOf(m) = d /\ c # d /\ line[m] \in LineRows
    BY <1>6, <1>7, <1>10, LineIsRow DEF IInv
  <2>2. PICK q : q = line[m].quantity + line[l].quantity
    OBVIOUS
  <2>3. q \in Int /\ q > 0
    BY <1>4, <2>1, <2>2, BoundAssumption DEF LineRows
  <2>4. PICK r : r = [line[m] EXCEPT !.quantity = q]
    OBVIOUS
  <2>5. line' = [line EXCEPT ![m] = r, ![l] = NoLine]
    BY <1>4, <1>10, <2>1, <2>2, <2>4
  <2>6. r.quantity = q /\ r.item = line[m].item /\ r.size = line[m].size /\ r.note = line[m].note
    BY <2>1, <2>4 DEF LineRows
  <2>7. /\ line'[m] = r /\ line'[l] = NoLine /\ chosen'[m] = chosen[m]
        /\ \A x \in Lines \ {l} : chosen'[x] = chosen[x]
        /\ \A x \in Lines \ {l, m} : line'[x] = line[x]
    BY <1>4, <1>10, <2>1, <2>5
  <2>8. ~ Present(l)' /\ Present(m)' /\ ConfigOf(m)' = d
    BY <2>1, <2>3, <2>6, <2>7 DEF Present, ConfigOf, NoLine
  <2>9. \A x \in Lines \ {l, m} : /\ Present(x)' <=> Present(x)
                                  /\ ConfigOf(x)' = ConfigOf(x) /\ line'[x].quantity = line[x].quantity
    BY <2>7 DEF Present, ConfigOf
  <2>10. twins = {m}
    BY <1>6, <2>1, ApartIsOne DEF OneLinePerDrink
  <2> HIDE DEF c, d, twins
  <2>11. Drinks' = after
    <3>1. ASSUME NEW x \in Drinks' PROVE x \in after
      <4>1. PICK y \in Lines : Present(y)' /\ ConfigOf(y)' = x
        BY DEF Drinks
      <4> QED BY <1>9, <2>8, <2>9, <2>10, <4>1 DEF Drinks
    <3>2. ASSUME NEW x \in after PROVE x \in Drinks'
      <4>1. CASE x = d
        BY <2>1, <2>8, <4>1 DEF Drinks
      <4>2. CASE x # d
        <5>1. PICK y \in Lines : Present(y) /\ ConfigOf(y) = x
          BY <4>2 DEF Drinks
        <5>2. y # l /\ y # m
          BY <2>1, <4>2, <5>1 DEF c
        <5>3. Present(y)' /\ ConfigOf(y)' = x
          BY <2>9, <5>1, <5>2
        <5> QED BY <5>3 DEF Drinks
      <4> QED BY <4>1, <4>2
    <3> QED BY <3>1, <3>2
  <2>12. ASSUME NEW x \in after \ {d} PROVE Wanted'[x] = Wanted[x]
    <3>1. PICK y \in Lines : Present(y) /\ ConfigOf(y) = x
      BY DEF Drinks
    <3>2. y # l /\ y # m
      BY <2>1, <3>1 DEF c
    <3>3. Present(y)' /\ ConfigOf(y)' = x /\ line'[y].quantity = line[y].quantity
      BY <2>9, <3>1, <3>2
    <3> QED BY <1>1, <3>1, <3>3 DEF WantedIsLines
  <2>13. Wanted'[d] = q
    <3>1. Wanted'[ConfigOf(m)'] = line'[m].quantity
      BY <1>1, <2>1, <2>8 DEF WantedIsLines
    <3> QED BY <2>6, <2>7, <2>8, <3>1
  <2>14. Book!Asked(c) = line[l].quantity /\ Book!Asked(d) = line[m].quantity
    BY <1>1, <1>2, <2>1 DEF WantedIsLines, Book!Asked, c, Drinks
  <2>15. Book!Asked(c) + Book!Asked(d) = q
    BY <1>4, <2>1, <2>2, <2>14 DEF LineRows
  <2> QED BY <1>8, <2>1, <2>11, <2>12, <2>13, <2>15
<1>11. ASSUME twins = {},
              line' = [line EXCEPT ![l].size = s, ![l].note = n, ![l].key = k],
              chosen' = IF k = line[l].key THEN chosen ELSE [chosen EXCEPT ![l] = k]
       PROVE  Book!BookNext
  <2>1. PICK r : r = [line[l] EXCEPT !.size = s, !.note = n, !.key = k]
    OBVIOUS
  <2>2. r.item = line[l].item /\ r.size = s /\ r.note = n /\ r.quantity = line[l].quantity
    BY <1>4, <2>1 DEF LineRows
  <2>3. line' = [line EXCEPT ![l] = r]
    BY <1>4, <1>11, <2>1
  <2>4. chosen' = [chosen EXCEPT ![l] = k]
    BY <1>4, <1>11
  <2>5. /\ line'[l] = r /\ chosen'[l] = k
        /\ \A x \in Lines \ {l} : line'[x] = line[x] /\ chosen'[x] = chosen[x]
    BY <1>4, <2>3, <2>4
  <2>6. Present(l)' /\ ConfigOf(l)' = d /\ line'[l].quantity = line[l].quantity
    BY <2>2, <2>5 DEF Present, ConfigOf
  <2>7. CASE c = d
    <3> HIDE DEF c, d
    <3>1. PICK e : e = c
      OBVIOUS
    <3>2. ConfigOf(l) = e /\ ConfigOf(l)' = e
      BY <2>6, <2>7, <3>1 DEF c
    <3> QED BY <1>3, <2>5, <3>2, OneLineRecounts
  <2>8. CASE c # d
    <3>1. \A x \in Lines \ {l} : /\ Present(x)' <=> Present(x)
                                 /\ ConfigOf(x)' = ConfigOf(x) /\ line'[x].quantity = line[x].quantity
      BY <2>5 DEF Present, ConfigOf
    <3>2. d \notin Drinks
      BY <1>5, <1>11, <2>8 DEF Drinks
    <3>3. Drinks' = after
      <4>1. ASSUME NEW x \in Drinks' PROVE x \in after
        <5>1. PICK y \in Lines : Present(y)' /\ ConfigOf(y)' = x
          BY DEF Drinks
        <5> HIDE DEF c, d
        <5> QED BY <1>9, <1>11, <2>6, <3>1, <5>1 DEF Drinks
      <4>2. ASSUME NEW x \in after PROVE x \in Drinks'
        <5> HIDE DEF d
        <5>1. CASE x = d
          BY <2>6, <5>1 DEF Drinks
        <5>2. CASE x # d
          <6>1. PICK y \in Lines : Present(y) /\ ConfigOf(y) = x /\ y # l
            BY <5>2 DEF Drinks
          <6>2. Present(y)' /\ ConfigOf(y)' = x
            BY <3>1, <6>1
          <6> QED BY <6>2 DEF Drinks
        <5> QED BY <5>1, <5>2
      <4> QED BY <4>1, <4>2
    <3> HIDE DEF d
    <3>4. ASSUME NEW x \in after \ {d} PROVE Wanted'[x] = Wanted[x]
      <4>1. PICK y \in Lines : Present(y) /\ ConfigOf(y) = x /\ y # l
        BY DEF Drinks
      <4>2. Present(y)' /\ ConfigOf(y)' = x /\ line'[y].quantity = line[y].quantity
        BY <3>1, <4>1
      <4> QED BY <1>1, <4>1, <4>2 DEF WantedIsLines
    <3>5. Wanted'[d] = line[l].quantity
      BY <1>1, <2>6 DEF WantedIsLines
    <3>6. Book!Asked(c) = line[l].quantity /\ Book!Asked(d) = 0
      BY <1>1, <1>2, <3>2 DEF WantedIsLines, Book!Asked
    <3>7. Book!Asked(c) + Book!Asked(d) = line[l].quantity
      BY <1>4, <3>6 DEF LineRows
    <3> QED BY <1>8, <2>8, <3>3, <3>4, <3>5, <3>7
  <2> QED BY <2>7, <2>8
<1> QED BY <1>10, <1>11 DEF ApplyCompositionChange

\* One more of a drink, a first one, another number of one, or none of it any more.
LEMMA AddRecounts ==
  ASSUME IInv, IInv', NEW i, NEW s, NEW n, NEW list, AddDraftItem(i, s, n, list)
  PROVE  Book!BookNext
<1>1. Editing /\ RoundKept
  BY DraftCommandKeeps DEF AddDraftItem
<1>2. line = [x \in Lines |-> line[x]] /\ chosen = [x \in Lines |-> chosen[x]]
  BY DEF IInv, TypeOK
<1> DEFINE O == IF list = Absent THEN DefaultsOf(i) ELSE list
<1>3. ASSUME NEW l \in Twins(i, s, n, O), line' = [line EXCEPT ![l].quantity = @ + 1], UNCHANGED chosen
      PROVE  Book!BookNext
  <2>1. l \in Lines /\ Present(l) /\ line[l] \in LineRows
    BY <1>3, LineIsRow DEF Twins, IInv
  <2>2. ConfigOf(l)' = ConfigOf(l) /\ \A m \in Lines \ {l} : line'[m] = line[m] /\ chosen'[m] = chosen[m]
    BY <1>2, <1>3, <2>1 DEF ConfigOf, LineRows
  <2>3. PICK c : c = ConfigOf(l)
    OBVIOUS
  <2> QED BY <1>1, <2>1, <2>2, <2>3, OneLineRecounts
<1>4. ASSUME NEW l \in Lines, ~ Present(l),
             line' = [line EXCEPT ![l] = [item |-> i, size |-> s, note |-> n, key |-> O, quantity |-> 1]],
             chosen' = [chosen EXCEPT ![l] = O]
      PROVE  Book!BookNext
  <2>1. line'[l].quantity = 1 /\ \A m \in Lines \ {l} : line'[m] = line[m] /\ chosen'[m] = chosen[m]
    BY <1>2, <1>4
  <2>2. Present(l)'
    BY <2>1 DEF Present
  <2>3. PICK c : c = ConfigOf(l)'
    OBVIOUS
  <2> QED BY <1>1, <1>4, <2>1, <2>2, <2>3, OneLineRecounts
<1> QED BY <1>3, <1>4 DEF AddDraftItem

\* Another quantity is another number of one drink.
LEMMA SetQuantityRecounts ==
  ASSUME IInv, IInv', NEW l \in Lines, NEW q \in 1..MaxQuantity, SetDraftItemQuantity(l, q)
  PROVE  Book!BookNext
<1>1. /\ Editing /\ RoundKept /\ Present(l) /\ line[l] \in LineRows
      /\ line' = [line EXCEPT ![l].quantity = q] /\ UNCHANGED chosen
  BY DraftCommandKeeps, LineIsRow DEF SetDraftItemQuantity, IInv
<1>2. line = [x \in Lines |-> line[x]]
  BY DEF IInv, TypeOK
<1>3. ConfigOf(l)' = ConfigOf(l) /\ \A m \in Lines \ {l} : line'[m] = line[m] /\ chosen'[m] = chosen[m]
  BY <1>1, <1>2 DEF ConfigOf, LineRows
<1>4. PICK c : c = ConfigOf(l)
  OBVIOUS
<1> QED BY <1>1, <1>3, <1>4, OneLineRecounts

\* A deleted line leaves none of its drink.
LEMMA RemoveRecounts ==
  ASSUME IInv, IInv', NEW l \in Lines, RemoveDraftItem(l)
  PROVE  Book!BookNext
<1>1. /\ Editing /\ RoundKept /\ Present(l)
      /\ line' = [line EXCEPT ![l] = NoLine] /\ chosen' = [chosen EXCEPT ![l] = {}]
  BY DraftCommandKeeps DEF RemoveDraftItem
<1>2. line = [x \in Lines |-> line[x]] /\ chosen = [x \in Lines |-> chosen[x]]
  BY DEF IInv, TypeOK
<1>3. line'[l] = NoLine /\ \A m \in Lines \ {l} : line'[m] = line[m] /\ chosen'[m] = chosen[m]
  BY <1>1, <1>2
<1>4. ~ Present(l)'
  BY <1>3 DEF Present, NoLine
<1>5. PICK c : c = ConfigOf(l)
  OBVIOUS
<1> QED BY <1>1, <1>3, <1>4, <1>5, OneLineRecounts

\* The book adds up as the rounds do.
LEMMA SameTotal == \A f, S : Book!Total(f, S) = Total(f, S)
BY DEF Total, Book!Total, MapThenSumSet, Book!MapThenSumSet,
       MapThenFoldSet, Book!MapThenFoldSet

\* What a line that will be accepted costs, the book's way.
LEMMA CostIsPrice ==
  ASSUME NEW c, Committable(c)
  PROVE  Book!Cost(c) = UnitPrice(c)
BY SameTotal DEF Committable, SizeRule, Book!Cost, UnitPrice

\* The lines' amounts are the drinks' amounts.
LEMMA AmountIsTotal ==
  ASSUME IInv, \A l \in Lines : Present(l) => Committable(ConfigOf(l))
  PROVE  Book!Amount = Total(LineTotals, Lines) /\ \A l \in Lines : LineTotals[l] \in Int
<1> DEFINE P == {l \in Lines : Present(l)}
           h == [l \in P |-> ConfigOf(l)]
           f == [c \in Drinks |-> Wanted[c] * Book!Cost(c)]
           g == [l \in P |-> line[l].quantity * UnitPrice(ConfigOf(l))]
<1>1. WantedIsLines /\ DOMAIN Wanted = Drinks
  BY OneLineCounts DEF WantedIsLines
<1>2. Book!Amount = Total(f, Drinks)
  BY <1>1, SameTotal DEF Book!Amount
<1>3. ASSUME NEW l \in P
      PROVE  /\ h[l] = ConfigOf(l) /\ f[h[l]] = g[l] /\ g[l] \in Int /\ g[l] = LineTotals[l]
  <2>1. ConfigOf(l) \in Drinks /\ Wanted[ConfigOf(l)] = line[l].quantity
    BY <1>1 DEF WantedIsLines, Drinks
  <2>2. Book!Cost(ConfigOf(l)) = UnitPrice(ConfigOf(l))
    BY CostIsPrice
  <2>3. UnitPrice(ConfigOf(l)) \in Nat /\ line[l].quantity \in Int
    <3>1. TypeOK /\ MenuTypeOK
      BY DEF IInv, TypeOK
    <3>2. ConfigOf(l) \in Configs /\ line[l].quantity \in Int
      BY <3>1, LineIsRow, BoundAssumption
    <3> QED BY <3>1, <3>2, PriceIsNatural
  <2> QED BY <2>1, <2>2, <2>3 DEF LineTotals
<1>4. ASSUME NEW l \in Lines \ P PROVE LineTotals[l] = 0
  BY DEF LineTotals
<1>5. \A x, y \in P : h[x] = h[y] => x = y
  BY ApartIsOne DEF OneLinePerDrink
<1>6. {h[l] : l \in P} = Drinks
  BY DEF Drinks
<1>7. IsFiniteSet(P) /\ P \in SUBSET Lines /\ IsFiniteSet(Lines \ P)
  BY FiniteAssumption, FS_Subset
<1> HIDE DEF f, g, h, P
<1>8. Total(f, Drinks) = Total(g, P)
  <2>1. Total(f, {h[l] : l \in P}) = Total(g, P)
    BY <1>3, <1>5, <1>7, TotalImage
  <2> QED BY <1>6, <2>1
<1>9. \A l \in Lines : LineTotals[l] \in Int
  BY <1>3, <1>4
<1>10. Total(LineTotals, Lines) = Total(LineTotals, P) + Total(LineTotals, Lines \ P)
  BY <1>7, <1>9, FiniteAssumption, TotalSplit
<1>11. Total(LineTotals, P) = Total(g, P)
  BY <1>3, <1>7, TotalCongruence
<1>12. Total(LineTotals, Lines \ P) = 0
  BY <1>4, <1>7, TotalZero
<1>13. Total(g, P) \in Int
  BY <1>3, <1>7, TotalInt
<1> QED BY <1>2, <1>8, <1>9, <1>10, <1>11, <1>12, <1>13

\* The Checks' charges are numbers.
LEMMA ChargesCount ==
  ASSUME IInv
  PROVE  /\ checks = [k \in CheckIds |-> checks[k]] /\ IsFiniteSet(CheckIds)
         /\ \A k \in CheckIds : checks[k] = [state |-> checks[k].state, charge |-> checks[k].charge]
                                /\ checks[k].charge \in Int
<1>1. IsFiniteSet(CheckIds)
  <2>1. PICK n \in Nat : n = MaxRounds
    BY BoundAssumption
  <2> QED BY <2>1, FS_Interval DEF CheckIds
<1>2. checks \in [CheckIds -> [state : {"NONE", "OPEN", "SETTLED"}, charge : Int]]
  BY DEF IInv, TypeOK
<1> QED BY <1>1, <1>2

\* A commit charges one Check, and so the Session, what the drinks asked for cost now.
LEMMA CommitCommits ==
  ASSUME IInv, IInv', CommitOrderDraft
  PROVE  Book!BookNext
<1> DEFINE before == [k \in CheckIds |-> checks[k].charge]
           after == [k \in CheckIds |-> checks'[k].charge]
           amounts == [l \in Lines |-> sold'[l].quantity * sold'[l].price]
<1>1. PICK k \in CheckIds :
        /\ sold' = [l \in Lines |->
                        IF Present(l)
                        THEN [config |-> ConfigOf(l), quantity |-> line[l].quantity,
                              price |-> UnitPrice(ConfigOf(l)), check |-> k]
                        ELSE NotSold]
        /\ checks' = [checks EXCEPT ![k] = [state |-> "OPEN",
                                            charge |-> @.charge + Total(LineTotals, Lines)]]
  BY DEF CommitOrderDraft
<1>2. /\ Editing /\ round' = [round EXCEPT !.state = "COMMITTED"]
      /\ UNCHANGED <<price, line, chosen, units>> /\ \E l \in Lines : Present(l)
      /\ \A l \in Lines : Present(l) => Committable(ConfigOf(l))
  BY DEF CommitOrderDraft, menuVars
<1>3. Book!Amount = Total(LineTotals, Lines) /\ \A l \in Lines : LineTotals[l] \in Int
  BY <1>2, AmountIsTotal
<1>4. Total(LineTotals, Lines) \in Int
  BY <1>3, FiniteAssumption, TotalInt
<1>5. Phase = "EDITABLE" /\ Phase' = "COMMITTED"
  BY <1>2 DEF Phase, Editing, IInv, RoundsInOrder, TypeOK
<1>6. Wanted # Book!Nothing
  <2>1. DOMAIN Wanted # {}
    BY <1>2 DEF Wanted
  <2> QED BY <2>1 DEF Book!Nothing
<1>7. UNCHANGED <<Wanted, price>>
  BY <1>2 DEF Wanted, Present, ConfigOf
<1>8. Charged' = Total(LineTotals, Lines)
  <2>1. \A l \in Lines : amounts[l] = LineTotals[l]
    BY <1>1 DEF LineTotals, NotSold
  <2> HIDE DEF amounts
  <2>2. Total(amounts, Lines) = Total(LineTotals, Lines)
    BY <2>1, FiniteAssumption, TotalCongruence
  <2> QED BY <2>2 DEF Charged, amounts
<1>9. Owed' = Owed + Total(LineTotals, Lines)
  <2>1. PICK m : m = Total(LineTotals, Lines)
    OBVIOUS
  <2>2. checks'[k].charge = checks[k].charge + m /\ \A j \in CheckIds \ {k} : checks'[j] = checks[j]
    BY <1>1, <2>1, ChargesCount
  <2>3. /\ IsFiniteSet(CheckIds) /\ after[k] = before[k] + m
        /\ \A j \in CheckIds : before[j] \in Int /\ after[j] \in Int
        /\ \A j \in CheckIds \ {k} : after[j] = before[j]
    BY <1>4, <2>1, <2>2, ChargesCount
  <2>4. Owed = Total(before, CheckIds) /\ Owed' = Total(after, CheckIds)
    BY DEF Owed, CheckIds
  <2> HIDE DEF before, after
  <2>5. Total(after, CheckIds) = Total(before, CheckIds) + (after[k] - before[k])
    BY <2>3, TotalUpdate
  <2>6. after[k] - before[k] = m
    BY <1>4, <2>1, <2>3
  <2> QED BY <2>1, <2>4, <2>5, <2>6
<1>10. UNCHANGED Made
  <2>1. \A l \in Lines : units[l] = 0
    BY <1>2 DEF IInv, SentAsSold, RoundsInOrder, Editing
  <2>2. Made = Book!Nothing /\ Made' = Book!Nothing
    BY <1>2, <2>1 DEF Made, Book!Nothing
  <2> QED BY <2>2
<1>11. Book!Commit
  BY <1>3, <1>5, <1>6, <1>7, <1>8, <1>9, <1>10 DEF Book!Commit
<1> QED BY <1>11 DEF Book!BookNext

\* What is sent to the bar is what was asked for, drink by drink.
LEMMA SubmitSubmits ==
  ASSUME IInv, SubmitOrder
  PROVE  Book!BookNext
<1>1. /\ round.state = "COMMITTED" /\ ~ round.ordered /\ round' = [round EXCEPT !.ordered = TRUE]
      /\ units' = [l \in Lines |-> sold[l].quantity]
      /\ UNCHANGED <<price, line, chosen, sold, checks>>
  BY DEF SubmitOrder, Awaiting, menuVars
<1>2. Phase = "COMMITTED" /\ Phase' = "SUBMITTED"
  BY <1>1 DEF Phase, IInv, TypeOK
<1>3. UNCHANGED <<Wanted, Charged, Owed, price>>
  BY <1>1 DEF Wanted, Present, ConfigOf, Charged, Owed
<1>4. ASSUME NEW l \in Lines
      PROVE  /\ units'[l] = line[l].quantity
             /\ Present(l) => sold[l].config = ConfigOf(l)
             /\ (units'[l] > 0) <=> Present(l)
  <2>1. CASE Present(l)
    BY <1>1, <2>1 DEF IInv, SoldAsAsked, Present
  <2>2. CASE ~ Present(l)
    BY <1>1, <2>2, LineIsRow DEF IInv, SoldAsAsked, NotSold
  <2> QED BY <2>1, <2>2
<1>5. {sold[l].config : l \in {l \in Lines : units'[l] > 0}} = Drinks
  BY <1>4 DEF Drinks
<1>6. ASSUME NEW c
      PROVE  [l \in Lines |-> IF sold[l].config = c THEN units'[l] ELSE 0]
                = [l \in Lines |-> IF ConfigOf(l) = c THEN line[l].quantity ELSE 0]
  <2>1. ASSUME NEW l \in Lines
        PROVE  (IF sold[l].config = c THEN units'[l] ELSE 0) = (IF ConfigOf(l) = c THEN line[l].quantity ELSE 0)
    <3>1. CASE Present(l)
      BY <1>4, <3>1
    <3>2. CASE ~ Present(l)
      BY <1>4, <3>2, LineIsRow DEF IInv
    <3> QED BY <3>1, <3>2
  <2> QED BY <2>1
<1>7. Made' = Wanted
  <2>1. Made' = [c \in Drinks |-> Total([l \in Lines |-> IF sold[l].config = c THEN units'[l] ELSE 0], Lines)]
    BY <1>1, <1>5 DEF Made
  <2>2. Wanted = [c \in Drinks |-> Total([l \in Lines |-> IF ConfigOf(l) = c THEN line[l].quantity ELSE 0], Lines)]
    BY DEF Wanted, Drinks
  <2>3. \A c \in Drinks : Total([l \in Lines |-> IF sold[l].config = c THEN units'[l] ELSE 0], Lines)
                            = Total([l \in Lines |-> IF ConfigOf(l) = c THEN line[l].quantity ELSE 0], Lines)
    BY ONLY <1>6
  <2> QED BY ONLY <2>1, <2>2, <2>3
<1>8. Book!Submit
  BY <1>2, <1>3, <1>7 DEF Book!Submit
<1> QED BY <1>8 DEF Book!BookNext

\* What a round's Checks give back is what the round was charged: each of its items
\* is allocated to one of them.
LEMMA CancelWithdraws ==
  ASSUME IInv, CancelAwaitingSubmission
  PROVE  Book!BookNext
<1> DEFINE F == [k \in CheckIds |-> Withdrawn(k)]
           before == [k \in CheckIds |-> checks[k].charge]
           after == [k \in CheckIds |-> checks'[k].charge]
           back == [k \in CheckIds |-> Total(F[k], Lines)]
           amounts == [l \in Lines |-> sold[l].quantity * sold[l].price]
           across == [l \in Lines |-> Total([k \in CheckIds |-> F[k][l]], CheckIds)]
<1>1. /\ round.state = "COMMITTED" /\ ~ round.ordered /\ round' = [round EXCEPT !.state = "CANCELLED"]
      /\ checks' = [k \in CheckIds |-> [checks[k] EXCEPT !.charge = @ - Total(Withdrawn(k), Lines)]]
      /\ UNCHANGED <<price, line, chosen, sold, units>>
  BY DEF CancelAwaitingSubmission, Awaiting, menuVars
<1>2. Phase = "COMMITTED" /\ Phase' = "CANCELLED"
  BY <1>1 DEF Phase, IInv, TypeOK
<1>3. UNCHANGED <<Wanted, Made, Charged, price>>
  BY <1>1 DEF Wanted, Present, ConfigOf, Made, Charged
<1>4. \A l \in Lines : /\ sold[l] # NotSold => sold[l].check \in CheckIds
                       /\ sold[l].quantity * sold[l].price \in Int
                       /\ sold[l] = NotSold => sold[l].quantity * sold[l].price = 0
  BY DEF IInv, TypeOK, NotSold
<1>5. \A k \in CheckIds, l \in Lines : /\ F[k][l] = IF sold[l].check = k THEN amounts[l] ELSE 0
                                       /\ F[k][l] \in Int /\ amounts[l] \in Int
  BY <1>4 DEF Withdrawn
<1>6. ASSUME NEW l \in Lines PROVE across[l] = amounts[l]
  <2> DEFINE g == [k \in CheckIds |-> F[k][l]]
  <2>1. \A k \in CheckIds : g[k] = IF sold[l].check = k THEN amounts[l] ELSE 0
    BY <1>5
  <2>2. amounts[l] \in Int /\ (sold[l] = NotSold => amounts[l] = 0)
    BY <1>4
  <2>3. across[l] = Total(g, CheckIds)
    OBVIOUS
  <2> HIDE DEF g, amounts, F, across
  <2>4. CASE sold[l] = NotSold
    <3>1. \A k \in CheckIds : g[k] = 0
      BY <2>1, <2>2, <2>4
    <3> QED BY <2>2, <2>3, <2>4, <3>1, ChargesCount, TotalZero
  <2>5. CASE sold[l] # NotSold
    <3>1. PICK j \in CheckIds : j = sold[l].check
      BY <1>4, <2>5
    <3>2. g[j] = amounts[l] /\ \A k \in CheckIds \ {j} : g[k] = 0
      BY <2>1, <3>1
    <3> QED BY <2>2, <2>3, <3>2, ChargesCount, TotalSingle
  <2> QED BY <2>4, <2>5
<1>7. Total(back, CheckIds) = Total(across, Lines)
  <2>1. \A x \in CheckIds, y \in Lines : F[x][y] \in Int
    BY <1>5
  <2>2. IsFiniteSet(CheckIds) /\ IsFiniteSet(Lines)
    BY ChargesCount, FiniteAssumption
  <2> HIDE DEF F
  <2>3. Total([k \in CheckIds |-> Total(F[k], Lines)], CheckIds)
          = Total([l \in Lines |-> Total([k \in CheckIds |-> F[k][l]], CheckIds)], Lines)
    BY <2>1, <2>2, TotalExchange
  <2> QED BY <2>3 DEF back, across
<1>8. \A k \in CheckIds : back[k] \in Int
  <2>1. \A k \in CheckIds : \A l \in Lines : F[k][l] \in Int
    BY <1>5
  <2> HIDE DEF F
  <2> QED BY <2>1, FiniteAssumption, TotalInt
<1>9. \A k \in CheckIds : after[k] \in Int /\ back[k] \in Int /\ before[k] = after[k] + back[k] /\ before[k] \in Int
  <2> SUFFICES ASSUME NEW k \in CheckIds
               PROVE  after[k] \in Int /\ back[k] \in Int /\ before[k] = after[k] + back[k] /\ before[k] \in Int
    OBVIOUS
  <2>1. PICK m : m = Total(Withdrawn(k), Lines)
    OBVIOUS
  <2>2. m \in Int /\ back[k] = m
    BY <1>8, <2>1
  <2>3. checks'[k].charge = checks[k].charge - m /\ checks[k].charge \in Int
    BY <1>1, <2>1, ChargesCount
  <2> QED BY <2>2, <2>3
<1>10. Owed = Total(before, CheckIds) /\ Owed' = Total(after, CheckIds) /\ Charged = Total(amounts, Lines)
  BY DEF Owed, CheckIds, Charged
<1> HIDE DEF before, after, back, amounts, across, F
<1>11. Total(before, CheckIds) = Total(after, CheckIds) + Total(back, CheckIds)
  BY <1>9, ChargesCount, TotalPlus
<1>12. Total(across, Lines) = Total(amounts, Lines)
  BY <1>6, FiniteAssumption, TotalCongruence
<1>13. Total(after, CheckIds) \in Int /\ Total(back, CheckIds) \in Int
  BY <1>9, ChargesCount, TotalInt
<1>14. Owed' = Owed - Charged
  BY <1>7, <1>10, <1>11, <1>12, <1>13
<1>15. Book!Withdraw
  BY <1>2, <1>3, <1>14 DEF Book!Withdraw
<1> QED BY <1>15 DEF Book!BookNext

\* A new round asks for nothing and leaves what is owed.
LEMMA StartNewTurnsThePage ==
  ASSUME IInv, StartNewOrderDraft
  PROVE  Book!BookNext
<1>1. /\ ~ Blocks(round) /\ round' = NewRound(round.number + 1)
      /\ line' = [l \in Lines |-> NoLine] /\ sold' = [l \in Lines |-> NotSold]
      /\ units' = [l \in Lines |-> 0] /\ UNCHANGED <<price, checks>>
  BY DEF StartNewOrderDraft, menuVars
<1>2. Phase = "SUBMITTED"
  BY <1>1 DEF Phase, Blocks, IInv, TypeOK
<1>3. Phase' = "EDITABLE"
  BY <1>1 DEF Phase, NewRound
<1>4. Wanted' = Book!Nothing
  <2>1. \A l \in Lines : ~ Present(l)'
    BY <1>1 DEF Present, NoLine
  <2> QED BY <2>1 DEF Wanted, Book!Nothing
<1>5. Made' = Book!Nothing
  BY <1>1 DEF Made, Book!Nothing
<1>6. Charged' = 0
  <2> DEFINE f == [l \in Lines |-> sold'[l].quantity * sold'[l].price]
  <2>1. \A l \in Lines : f[l] = 0
    BY <1>1 DEF NotSold
  <2> HIDE DEF f
  <2>2. Total(f, Lines) = 0
    BY <2>1, FiniteAssumption, TotalZero
  <2> QED BY <2>2 DEF f, Charged
<1>7. UNCHANGED <<Owed, price>>
  BY <1>1 DEF Owed
<1>8. Book!NextRound
  BY <1>2, <1>3, <1>4, <1>5, <1>6, <1>7 DEF Book!NextRound
<1> QED BY <1>8 DEF Book!BookNext

\* Paying, choosing a Check and changing the menu are nothing to the book.
LEMMA OthersReprice ==
  ASSUME IInv, \/ ChangeMenu
               \/ \E t \in Targets : SetCheckTarget(t)
               \/ \E k \in CheckIds : PayCheck(k)
  PROVE  Book!BookNext
<1>1. UNCHANGED <<round, line, chosen, sold, units>>
  BY DEF ChangeMenu, saleVars, SetCheckTarget, DraftKept, PayCheck
<1>2. UNCHANGED <<Phase, Wanted, Made, Charged>>
  BY <1>1 DEF Phase, Wanted, Present, ConfigOf, Made, Charged
<1>3. UNCHANGED Owed
  <2> DEFINE before == [k \in CheckIds |-> checks[k].charge]
             after == [k \in CheckIds |-> checks'[k].charge]
  <2>1. \A k \in CheckIds : after[k] = before[k]
    BY ChargesCount DEF ChangeMenu, saleVars, SetCheckTarget, DraftKept, PayCheck
  <2>2. Owed = Total(before, CheckIds) /\ Owed' = Total(after, CheckIds)
    BY DEF Owed, CheckIds
  <2> HIDE DEF before, after
  <2>3. Total(after, CheckIds) = Total(before, CheckIds)
    BY <2>1, ChargesCount, TotalCongruence
  <2> QED BY <2>2, <2>3
<1>4. Book!Reprice
  BY <1>2, <1>3 DEF Book!Reprice
<1> QED BY <1>4 DEF Book!BookNext

\* Every command is a step of the book, or none.
LEMMA NextImplements ==
  ASSUME IInv, IInv', [Next]_vars
  PROVE  [Book!BookNext]_(Book!bookVars)
<1>1. CASE UNCHANGED vars
  BY <1>1 DEF vars, menuVars, saleVars, Book!bookVars, Phase, Wanted, Present, ConfigOf, Made, Charged, Owed
<1>2. CASE Next
  <2>1. Book!BookNext
    BY <1>2, NextSplits, AddRecounts, SetQuantityRecounts, ApplyReconfigures, RemoveRecounts,
       CommitCommits, SubmitSubmits, CancelWithdraws, StartNewTurnsThePage, OthersReprice
  <2> QED BY <2>1
<1> QED BY <1>1, <1>2

\* OrderDraft implements RoundBook: whatever lines merge and whatever the menu does
\* meanwhile, a round is charged once, for the pieces asked for, at the prices of its
\* commit, exactly these are made, and a withdrawn round is withdrawn for its charge.
THEOREM Refinement == Spec => ImplementsRoundBook
<1>1. Init => Book!BookInit
  <2> SUFFICES ASSUME Init PROVE Book!BookInit
    OBVIOUS
  <2>1. \A l \in Lines : ~ Present(l)
    BY DEF Init, Present, NoLine
  <2>2. Wanted = Book!Nothing /\ Made = Book!Nothing
    BY <2>1 DEF Init, Wanted, Made, Book!Nothing
  <2>3. Phase = "EDITABLE"
    BY DEF Init, Phase, NewRound
  <2>4. Charged = 0
    <3> DEFINE f == [l \in Lines |-> sold[l].quantity * sold[l].price]
    <3>1. \A l \in Lines : f[l] = 0
      BY DEF Init, NotSold
    <3> HIDE DEF f
    <3>2. Total(f, Lines) = 0
      BY <3>1, FiniteAssumption, TotalZero
    <3> QED BY <3>2 DEF f, Charged
  <2>5. Owed = 0
    <3> DEFINE f == [k \in CheckIds |-> checks[k].charge]
    <3>1. \A k \in CheckIds : f[k] = 0
      BY DEF Init
    <3> HIDE DEF f
    <3>2. Total(f, CheckIds) = 0
      BY <3>1, InitKeeps, ChargesCount, TotalZero
    <3> QED BY <3>2 DEF f, Owed
  <2> QED BY <2>2, <2>3, <2>4, <2>5 DEF Book!BookInit
<1>2. IInv /\ IInv' /\ [Next]_vars => [Book!BookNext]_(Book!bookVars)
  BY NextImplements
<1> QED BY <1>1, <1>2, Invariance, PTL DEF Spec, ImplementsRoundBook, Book!BookSpec
=============================================================================
