------------------------- MODULE PreparationProofs -------------------------
(***************************************************************************)
(* Preparation for any Items, quantities, Checks and Remakes.              *)
(*                                                                         *)
(* What the units alone decide is proved first: that a Session is never    *)
(* served more than it ordered, that work charged off is never served,     *)
(* that work begun is never cancelled, that a closed sale's work stands,   *)
(* and that the bar's screen keeps its work until it is done.  Then what   *)
(* they are charged to: that charges are what is allocated less what was   *)
(* adjusted, that no adjustment is stranded, and that a closed sale was    *)
(* paid for exactly what stands.                                           *)
(*                                                                         *)
(* The first two are not inductive.  An item is not served twice because   *)
(* its units are numbered without gaps from 1 (Numbered), every number     *)
(* past the ordered quantity is a Remake of a lower-numbered wasted unit,  *)
(* and no two Remakes share one (Sourced): the units past the quantity map *)
(* one to one to wasted units, so what is not wasted is no more than was   *)
(* ordered (ServedBound).  A Comp charges off a unit it read before it     *)
(* held a lock, so the requests in flight are part of the invariant        *)
(* (RequestsGood).                                                         *)
(*                                                                         *)
(* Most commands only mark units that exist: they keep number, source and  *)
(* existence, and leave a wasted unit wasted (Marks).  Submission and      *)
(* Remake add units, and are proved on their own.                          *)
(*                                                                         *)
(* The charges are inductive once every item has one allocation a Check    *)
(* (Fits) and all of it or none is allocated (Whole).  What a command does *)
(* to an item's sequence of allocations is stated by what each Check has   *)
(* of it before and after (Shifted), so that the order of creation, which  *)
(* decides which unit is charged where, plays no part in the sums.         *)
(***************************************************************************)
EXTENDS QueueReads, SumTheorems

Fields == {"state", "of", "alert", "adjusted", "on"}

\* A row with the rules it obeys alone.
RowGood(row) ==
    /\ DOMAIN row = Fields
    /\ row.state \in States \cup {"NONE"} /\ row.of \in Nat
    /\ row.adjusted # "NONE" => row.state \in {"CANCELLED", "WASTED"} /\ row.of = 0
    /\ row.state = "CANCELLED" /\ row.of = 0 => row.adjusted = "LIVE_CHECK"
    /\ row.alert = "RAISED" => row.state \in {"CANCELLED", "WASTED"}

UnitsGood == unit = [u \in Units |-> unit[u]] /\ \A u \in Units : RowGood(unit[u])

\* m is the highest number of the item in use.
UpTo(i, m) ==
    /\ m = 0 \/ (Quantity[i] <= m /\ m <= Quantity[i] + MaxRemakes[i])
    /\ \A n \in Numbers(i) : unit[<<i, n>>].state # "NONE" <=> n <= m
Numbered == \A i \in Items : \E m \in Nat : UpTo(i, m)

\* Units past the ordered quantity replace wasted units, one each.
Sourced ==
    /\ \A u \in Existing : u[2] <= Quantity[u[1]] => unit[u].of = 0
    /\ \A u \in Existing : u[2] > Quantity[u[1]] =>
          /\ unit[u].of \in 1 .. u[2] - 1
          /\ unit[<<u[1], unit[u].of>>].state = "WASTED"
    /\ \A u, v \in Existing :
          u[1] = v[1] /\ unit[u].of = unit[v].of /\ unit[u].of # 0 => u = v

RequestsGood ==
    \A r \in resolved :
        /\ r = Request(r.kind, r.at) /\ r.kind \in {"CANCEL", "COMP"}
        /\ DOMAIN r.at \subseteq Units
        /\ r.kind = "COMP" => \A u \in DOMAIN r.at : unit[u].state = "WASTED" /\ unit[u].of = 0

DoneWhenClosed ==
    /\ session \in {"ACTIVE", "CLOSED"}
    /\ session = "CLOSED" => \A u \in Existing : unit[u].state \in Terminal

IInv == UnitsGood /\ Numbered /\ Sourced /\ RequestsGood /\ DoneWhenClosed

\* A step that keeps every unit's number, source and existence.
Marks ==
    /\ unit' = [u \in Units |-> unit'[u]]
    /\ \A u \in Units :
          /\ RowGood(unit'[u])
          /\ unit'[u].of = unit[u].of
          /\ unit'[u].state = "NONE" <=> unit[u].state = "NONE"
          /\ unit[u].state = "WASTED" => unit'[u].state = "WASTED"

-----------------------------------------------------------------------------
(* Units.                                                                  *)

\* Committing a draft, restructuring the Checks and taking or refunding money
\* leave the units and the Session alone, and every request but for the Checks
\* it has in mind.
LEMMA TillKeepsUnits ==
  ASSUME Restructure \/ Pay \/ (\E D \in SUBSET Items, k \in Checks : CommitOrderDraft(D, k))
  PROVE  /\ UNCHANGED <<session, unit>>
         /\ resolved' = resolved \/ \E D, k : resolved' = Forget(D, k)
<1>1. ASSUME NEW D, NEW k, CommitOrderDraft(D, k) PROVE UNCHANGED <<session, unit, resolved>>
  BY ONLY <1>1 DEF CommitOrderDraft
<1>2. ASSUME NEW from, NEW to, NEW move, SplitCheck(from, to, move)
      PROVE  UNCHANGED <<session, unit>> /\ \E D, k : resolved' = Forget(D, k)
  BY ONLY <1>2 DEF SplitCheck
<1>3. ASSUME NEW surviving, NEW absorbed, MergeChecks(surviving, absorbed)
      PROVE  UNCHANGED <<session, unit, resolved>>
  BY ONLY <1>3 DEF MergeChecks
<1>4. ASSUME NEW k, NEW amount, RecordPayment(k, amount) \/ RecordRefund(k, amount)
      PROVE  UNCHANGED <<session, unit, resolved>>
  BY ONLY <1>4 DEF RecordPayment, RecordRefund
<1> QED BY <1>1, <1>2, <1>3, <1>4 DEF Restructure, Pay

\* A unit is an item and one of its numbers.
LEMMA UnitParts ==
  /\ \A u \in Units : u[1] \in Items /\ u[2] \in Numbers(u[1]) /\ u = <<u[1], u[2]>>
  /\ \A i \in Items : \A n \in Numbers(i) : <<i, n>> \in Units
BY DEF Units

\* Quantities and unit numbers are positive.
LEMMA NumbersInNat == \A i \in Items : Quantity[i] \in Nat \ {0} /\ MaxRemakes[i] \in Nat /\ Numbers(i) \subseteq Nat \ {0}
BY QuantityAssumption, BoundAssumption DEF Numbers

\* Units in work exist, and existing units are units.
LEMMA ExistingPart == Existing \subseteq Units /\ Active \subseteq Existing
BY DEF Existing, Active

\* A step that only marks units keeps what is said of their numbers.
LEMMA MarksKeep ==
  ASSUME IInv, Marks
  PROVE  UnitsGood' /\ Numbered' /\ Sourced' /\ Existing' = Existing
<1>1. UnitsGood'
  BY DEF Marks, UnitsGood, Units, Numbers
<1>2. Existing' = Existing
  BY DEF Marks, Existing, Units, Numbers
<1>3. Numbered'
  <2> SUFFICES ASSUME NEW i \in Items PROVE \E m \in Nat : UpTo(i, m)'
    BY DEF Numbered
  <2>1. PICK m \in Nat : UpTo(i, m)
    BY DEF IInv, Numbered
  <2>2. \A n \in Numbers(i) : unit'[<<i, n>>].state = "NONE" <=> unit[<<i, n>>].state = "NONE"
    BY UnitParts DEF Marks
  <2>3. UpTo(i, m)'
    BY <2>1, <2>2 DEF UpTo, Numbers
  <2> QED BY <2>3
<1>4. ASSUME NEW u \in Existing, u[2] > Quantity[u[1]], unit[u].of \in 1 .. u[2] - 1
      PROVE  <<u[1], unit[u].of>> \in Units
  <2>1. unit[u].of \in Numbers(u[1]) /\ u[1] \in Items
    BY <1>4, UnitParts, ExistingPart, NumbersInNat DEF Numbers
  <2> QED BY <2>1, UnitParts
<1>5. Sourced'
  <2>1. Sourced /\ \A u \in Existing : unit'[u].of = unit[u].of
    BY ExistingPart DEF Marks, IInv
  <2>2. \A u \in Existing : u[2] > Quantity[u[1]] => unit'[<<u[1], unit'[u].of>>].state = "WASTED"
    <3>1. SUFFICES ASSUME NEW u \in Existing, u[2] > Quantity[u[1]]
                   PROVE  unit'[<<u[1], unit'[u].of>>].state = "WASTED"
      OBVIOUS
    <3>2. unit[u].of \in 1 .. u[2] - 1 /\ unit[<<u[1], unit[u].of>>].state = "WASTED"
      <4>1. Sourced
        BY ONLY <2>1
      <4> QED BY ONLY <3>1, <4>1 DEF Sourced
    <3>3. <<u[1], unit[u].of>> \in Units /\ unit'[u].of = unit[u].of
      BY ONLY <1>4, <2>1, <3>1, <3>2
    <3>4. \A v \in Units : unit[v].state = "WASTED" => unit'[v].state = "WASTED"
      BY DEF Marks
    <3> QED BY ONLY <3>2, <3>3, <3>4
  <2> QED BY ONLY <1>2, <2>1, <2>2 DEF Sourced
<1> QED BY <1>1, <1>2, <1>3, <1>5

\* A step that leaves the units and the Session alone, and resolves nothing new
\* about them.
LEMMA UnitsSame ==
  ASSUME IInv, UNCHANGED unit
  PROVE  UnitsGood' /\ Numbered' /\ Sourced' /\ Existing' = Existing
BY DEF IInv, UnitsGood, Numbered, UpTo, Sourced, Existing, Units, Numbers

\* Marking units keeps what is known of the requests in flight.
LEMMA RequestsKept ==
  ASSUME IInv, Marks, resolved' \subseteq resolved
  PROVE  RequestsGood'
BY DEF IInv, RequestsGood, Marks, Request, Units, Numbers

-----------------------------------------------------------------------------
(* The commands that mark units.                                           *)

\* Moving live units to another live state marks them.
LEMMA SetStatesMarks ==
  ASSUME UnitsGood, NEW S \in SUBSET Units, NEW state \in States \ {"CANCELLED", "WASTED"},
         \A u \in S : unit[u].state \in States \ {"CANCELLED", "WASTED"},
         unit' = SetStates(S, state)
  PROVE  Marks
<1>1. ASSUME NEW u \in S
      PROVE  /\ RowGood([unit[u] EXCEPT !.state = state])
             /\ [unit[u] EXCEPT !.state = state].of = unit[u].of
             /\ [unit[u] EXCEPT !.state = state].state = state
  <2>1. RowGood(unit[u]) /\ unit[u].state \in States \ {"CANCELLED", "WASTED"}
    BY <1>1 DEF UnitsGood
  <2>2. PICK row : row = unit[u]
    OBVIOUS
  <2>3. RowGood(row) /\ row.state \in States \ {"CANCELLED", "WASTED"}
    BY ONLY <2>1, <2>2
  <2>4. /\ [row EXCEPT !.state = state].of = row.of
        /\ [row EXCEPT !.state = state].state = state
    BY ONLY <2>3 DEF RowGood, Fields
  <2>5. RowGood([row EXCEPT !.state = state])
    BY ONLY <2>3, state \in States \ {"CANCELLED", "WASTED"} DEF RowGood, Fields, States
  <2> QED BY ONLY <2>2, <2>4, <2>5
<1>2. \A u \in Units : unit'[u] = IF u \in S THEN [unit[u] EXCEPT !.state = state] ELSE unit[u]
  BY DEF SetStates
<1>3. unit' = [u \in Units |-> unit'[u]]
  BY DEF SetStates
<1>4. ASSUME NEW u \in Units
      PROVE  /\ RowGood(unit'[u])
             /\ unit'[u].of = unit[u].of
             /\ unit'[u].state = "NONE" <=> unit[u].state = "NONE"
             /\ unit[u].state = "WASTED" => unit'[u].state = "WASTED"
  <2>1. CASE u \notin S
    <3>1. unit'[u] = unit[u] /\ RowGood(unit[u])
      BY <1>2, <2>1 DEF UnitsGood
    <3> QED BY ONLY <3>1
  <2>2. CASE u \in S
    <3>1. PICK row : row = [unit[u] EXCEPT !.state = state]
      OBVIOUS
    <3>2. unit'[u] = row /\ RowGood(row) /\ row.of = unit[u].of /\ row.state = state
      BY ONLY <1>1, <1>2, <1>4, <2>2, <3>1
    <3>3. state # "NONE" /\ state # "WASTED" /\ unit[u].state # "NONE" /\ unit[u].state # "WASTED"
      BY <2>2 DEF States
    <3> QED BY ONLY <3>2, <3>3
  <2> QED BY ONLY <2>1, <2>2
<1> QED BY ONLY <1>3, <1>4 DEF Marks

\* An advance only marks units, and calls none off.
LEMMA AdvanceMarks ==
  ASSUME UnitsGood, NEW S \in SUBSET Active, NEW target \in Targets, AdvanceUnits(S, target)
  PROVE  Marks
<1> DEFINE T == {u \in S : LegalAdvance(u, target)}
<1>1. T \in SUBSET Units /\ target \in States \ {"CANCELLED", "WASTED"}
  BY ExistingPart DEF Targets, States
<1>2. \A u \in T : unit[u].state \in States \ {"CANCELLED", "WASTED"}
  BY DEF LegalAdvance, Successor, States
<1>3. unit' = SetStates(T, target)
  BY DEF AdvanceUnits
<1> QED
  <2> HIDE DEF T
  <2> QED BY <1>1, <1>2, <1>3, SetStatesMarks

\* A State Correction moves units one state back and no further.
LEMMA CorrectMarks ==
  ASSUME UnitsGood, NEW target \in DOMAIN Successor, NEW S \in SUBSET Units, CorrectState(S, target)
  PROVE  Marks
<1>1. target \in States \ {"CANCELLED", "WASTED"} /\ Successor[target] \in States \ {"CANCELLED", "WASTED"}
  BY DEF Successor, States
<1> QED BY <1>1, SetStatesMarks DEF CorrectState

\* A Waste calls off a unit and raises its alert.
LEMMA WasteMarks ==
  ASSUME UnitsGood, NEW u \in Units, WasteUnit(u)
  PROVE  Marks
<1>1. RowGood([unit[u] EXCEPT !.state = "WASTED", !.alert = "RAISED"])
  BY DEF UnitsGood, RowGood, Fields, WasteUnit, States
<1>2. unit' = [unit EXCEPT ![u] = [unit[u] EXCEPT !.state = "WASTED", !.alert = "RAISED"]]
  BY DEF WasteUnit, UnitsGood
<1> QED BY <1>1, <1>2 DEF Marks, UnitsGood, WasteUnit, RowGood, Fields

\* An acknowledgement changes the alert alone.
LEMMA AcknowledgeMarks ==
  ASSUME UnitsGood, NEW u \in Units, AcknowledgeAlert(u)
  PROVE  Marks
<1>1. RowGood([unit[u] EXCEPT !.alert = "ACKNOWLEDGED"])
  BY DEF UnitsGood, RowGood, Fields
<1>2. unit' = [unit EXCEPT ![u] = [unit[u] EXCEPT !.alert = "ACKNOWLEDGED"]]
  BY DEF AcknowledgeAlert, UnitsGood
<1> QED BY <1>1, <1>2 DEF Marks, UnitsGood, RowGood, Fields

\* A Cancellation takes off the charge of every ordered unit it cancels, because
\* it finds the mapping it resolved again, and every ordered unit in it.
LEMMA CancelMarks ==
  ASSUME UnitsGood, RequestsGood, NEW r \in resolved, CancelUnits(r)
  PROVE  Marks
<1>1. DOMAIN r.at \in SUBSET Units
  BY DEF RequestsGood
<1>2. ASSUME NEW u \in DOMAIN r.at
      PROVE  /\ RowGood(Cancelled(u, r.at[u]))
             /\ Cancelled(u, r.at[u]).of = unit[u].of
             /\ Cancelled(u, r.at[u]).state = "CANCELLED"
             /\ unit[u].state = "QUEUED"
  <2>1. unit[u].state = "QUEUED" /\ RowGood(unit[u])
    BY <1>1, <1>2 DEF CancelUnits, StillQueued, UnitsGood
  <2>2. r.at[u] = ChargedTo(u) /\ (unit[u].of = 0 => ChargedTo(u) # NoCheck)
    BY <1>2 DEF CancelUnits, Unmoved, Mapping, Charged
  <2>3. unit[u].of # 0 => r.at[u] = NoCheck
    BY <2>2 DEF ChargedTo
  <2>4. unit[u].adjusted = "NONE"
    BY <2>1 DEF RowGood
  <2> DEFINE row == [unit[u] EXCEPT !.state = "CANCELLED", !.alert = "RAISED"]
  <2>5. /\ DOMAIN row = Fields /\ row.state = "CANCELLED" /\ row.of = unit[u].of
        /\ row.of \in Nat /\ row.adjusted = "NONE"
    BY <2>1, <2>4 DEF RowGood, Fields
  <2>6. CASE r.at[u] = NoCheck
    <3>1. Cancelled(u, r.at[u]) = row
      BY <2>6 DEF Cancelled
    <3> QED BY <3>1, <2>1, <2>2, <2>5, <2>6 DEF RowGood, States
  <2>7. CASE r.at[u] # NoCheck
    <3>1. Cancelled(u, r.at[u]) = [row EXCEPT !.adjusted = "LIVE_CHECK", !.on = r.at[u]]
      BY <2>7 DEF Cancelled, Adjust
    <3> HIDE DEF row
    <3>2. RowGood([row EXCEPT !.adjusted = "LIVE_CHECK", !.on = r.at[u]])
      BY <2>3, <2>5, <2>7 DEF RowGood, Fields, States
    <3> QED BY <3>1, <3>2, <2>1, <2>5 DEF Fields
  <2> QED BY <2>6, <2>7
<1>3. unit' = [u \in Units |-> IF u \in DOMAIN r.at THEN Cancelled(u, r.at[u]) ELSE unit[u]]
  BY DEF CancelUnits
<1> QED BY <1>1, <1>2, <1>3 DEF Marks, UnitsGood

\* A Comp adjusts units that were wasted and ordered, and moves none.
LEMMA CompRows ==
  ASSUME UnitsGood, RequestsGood, NEW r \in resolved, CompWaste(r)
  PROVE  /\ unit' = [u \in Units |-> unit'[u]]
         /\ \A u \in Units : /\ RowGood(unit'[u]) /\ unit'[u].of = unit[u].of
                             /\ unit'[u].state = unit[u].state
<1>1. DOMAIN r.at \in SUBSET Units
  BY DEF RequestsGood
<1>2. PICK scope \in {"LIVE_CHECK", "POST_SALE"} :
        unit' = [u \in Units |->
                    IF u \in DOMAIN r.at THEN Adjust(unit[u], scope, r.at[u]) ELSE unit[u]]
  BY DEF CompWaste
<1>3. ASSUME NEW u \in DOMAIN r.at
      PROVE  /\ RowGood(Adjust(unit[u], scope, r.at[u]))
             /\ Adjust(unit[u], scope, r.at[u]).of = unit[u].of
             /\ Adjust(unit[u], scope, r.at[u]).state = unit[u].state
  <2>1. unit[u].state = "WASTED" /\ unit[u].of = 0 /\ RowGood(unit[u])
    BY <1>1, <1>3 DEF RequestsGood, CompWaste, UnitsGood
  <2> QED BY <2>1 DEF Adjust, RowGood, Fields
<1> QED BY <1>1, <1>2, <1>3 DEF UnitsGood

\* Every command that marks units keeps the invariant, when it resolves nothing,
\* leaves the Session as it is and moves no unit of a closed one.
LEMMA MarksInductive ==
  ASSUME IInv, Marks, resolved' \subseteq resolved, session' = session,
         session = "CLOSED" => \A u \in Existing : unit'[u].state \in Terminal
  PROVE  IInv'
<1>1. UnitsGood' /\ Numbered' /\ Sourced' /\ Existing' = Existing
  BY MarksKeep
<1>2. RequestsGood'
  BY RequestsKept
<1>3. DoneWhenClosed'
  BY <1>1 DEF IInv, DoneWhenClosed
<1> QED BY <1>1, <1>2, <1>3 DEF IInv

\* So does every command that leaves units and Session alone.
LEMMA SameInductive ==
  ASSUME IInv, UNCHANGED <<unit, session>>, RequestsGood'
  PROVE  IInv'
<1>1. UnitsGood' /\ Numbered' /\ Sourced' /\ Existing' = Existing
  BY UnitsSame
<1>2. DoneWhenClosed'
  BY <1>1 DEF IInv, DoneWhenClosed
<1> QED BY <1>1, <1>2 DEF IInv

\* Forgetting the ids of a deleted allocation keeps what is known of the requests.
LEMMA ForgetGood ==
  ASSUME RequestsGood, UNCHANGED unit, NEW D, NEW k, resolved' = Forget(D, k)
  PROVE  RequestsGood'
<1> SUFFICES ASSUME NEW q \in resolved'
             PROVE  /\ q = Request(q.kind, q.at) /\ q.kind \in {"CANCEL", "COMP"}
                    /\ DOMAIN q.at \subseteq Units
                    /\ q.kind = "COMP" => \A u \in DOMAIN q.at : unit[u].state = "WASTED" /\ unit[u].of = 0
  BY DEF RequestsGood, Units, Numbers
<1>1. PICK r \in resolved :
        q = [r EXCEPT !.at = [u \in DOMAIN r.at |-> IF u[1] \in D /\ r.at[u] = k THEN NoCheck ELSE r.at[u]]]
  BY DEF Forget
<1> DEFINE at == [u \in DOMAIN r.at |-> IF u[1] \in D /\ r.at[u] = k THEN NoCheck ELSE r.at[u]]
<1>2. r = Request(r.kind, r.at)
  BY DEF RequestsGood
<1>3. DOMAIN at = DOMAIN r.at
  OBVIOUS
<1>4. q = Request(r.kind, at)
  <2> HIDE DEF at
  <2> QED BY <1>1, <1>2 DEF Request, at
<1>5. q.kind = r.kind /\ q.at = at /\ q = Request(q.kind, q.at)
  <2> HIDE DEF at
  <2> QED BY <1>4 DEF Request
<1> HIDE DEF at
<1> QED BY <1>3, <1>5 DEF RequestsGood

\* A request that resolves names existing units; a Comp names wasted, ordered ones.
LEMMA ResolveGood ==
  ASSUME RequestsGood, UNCHANGED unit, NEW kind \in {"CANCEL", "COMP"}, NEW S \in SUBSET Units,
         kind = "COMP" => \A u \in S : unit[u].state = "WASTED" /\ unit[u].of = 0,
         Resolve(kind, S)
  PROVE  RequestsGood'
<1> DEFINE q == Request(kind, Mapping(S))
<1>1. q = Request(q.kind, q.at) /\ q.kind = kind /\ DOMAIN q.at = S
  BY DEF Request, Mapping
<1> HIDE DEF q
<1>2. resolved' = resolved \cup {q}
  BY DEF Resolve, q
<1> QED BY <1>1, <1>2 DEF RequestsGood, Units, Numbers

-----------------------------------------------------------------------------
(* The commands that add units.                                            *)

\* An item is submitted when its first unit exists, and then all it ordered do.
LEMMA SubmittedUpTo ==
  ASSUME NEW i \in Items, NEW m \in Nat, UpTo(i, m)
  PROVE  i \in Submitted <=> m # 0
<1>1. 1 \in Numbers(i)
  BY NumbersInNat DEF Numbers
<1> QED BY <1>1, NumbersInNat DEF UpTo, Submitted

\* A new unit obeys the rules of a row.
LEMMA QueuedRow ==
  ASSUME NEW n \in Nat
  PROVE  RowGood(Queued(n)) /\ Queued(n).state = "QUEUED" /\ Queued(n).of = n
BY DEF Queued, NoUnit, RowGood, Fields, States

\* What a Submission inserts was not there.
LEMMA SubmitsNew ==
  ASSUME Numbered, NEW u \in Standard, u[1] \notin Submitted
  PROVE  u \in Units /\ unit[u].state = "NONE"
<1>1. u[1] \in Items /\ u[2] \in 1 .. Quantity[u[1]] /\ u = <<u[1], u[2]>>
  BY DEF Standard
<1>2. u[2] \in Numbers(u[1]) /\ u \in Units
  BY <1>1, NumbersInNat, UnitParts DEF Numbers
<1>3. PICK m \in Nat : UpTo(u[1], m)
  BY <1>1 DEF Numbered
<1>4. m = 0
  BY <1>1, <1>3, SubmittedUpTo
<1>5. ~(u[2] <= m)
  BY <1>1, <1>4
<1> QED BY <1>1, <1>2, <1>3, <1>5 DEF UpTo

\* Submitting numbers the units of each item from 1 to its quantity.
LEMMA SubmitInductive ==
  ASSUME IInv, SubmitOrder
  PROVE  IInv'
<1> DEFINE N == {u \in Standard : u[1] \in Committed \ Submitted}
<1>1. \A u \in N : u \in Units /\ u[2] \in 1 .. Quantity[u[1]] /\ unit[u].state = "NONE"
  BY SubmitsNew DEF IInv, Standard
<1>2. unit' = [u \in Units |-> IF u \in N THEN Queued(0) ELSE unit[u]]
  BY DEF SubmitOrder
<1>3. \A u \in Units : u \in Standard /\ u[1] \in Committed \ Submitted <=> u \in N
  OBVIOUS
<1>4. UnitsGood'
  BY <1>2, QueuedRow DEF IInv, UnitsGood, Units, Numbers
<1>5. Existing' = Existing \cup N /\ Existing \cap N = {}
  <2> HIDE DEF N
  <2> QED BY <1>1, <1>2, QueuedRow DEF Existing, Units, Numbers
<1>6. Numbered'
  <2> SUFFICES ASSUME NEW i \in Items PROVE \E m \in Nat : UpTo(i, m)'
    BY DEF Numbered
  <2>1. PICK m \in Nat : UpTo(i, m)
    BY DEF IInv, Numbered
  <2>2. CASE i \in Committed \ Submitted
    <3>1. m = 0
      BY <2>1, <2>2, SubmittedUpTo
    <3>2. ASSUME NEW n \in Numbers(i)
          PROVE  /\ <<i, n>> \in Units /\ (<<i, n>> \in N <=> n <= Quantity[i])
                 /\ unit[<<i, n>>].state = "NONE"
      <4>1. n \in Nat \ {0} /\ Quantity[i] \in Nat /\ <<i, n>> \in Units
        BY <3>2, NumbersInNat, UnitParts
      <4>2. <<i, n>> \in Standard <=> n \in 1 .. Quantity[i]
        BY DEF Standard
      <4>3. unit[<<i, n>>].state = "NONE"
        BY <2>1, <3>1, <4>1, <3>2 DEF UpTo
      <4> QED BY <4>1, <4>2, <4>3, <2>2
    <3>3. \A n \in Numbers(i) : unit'[<<i, n>>].state # "NONE" <=> n <= Quantity[i]
      <4> HIDE DEF N
      <4> QED BY <3>2, <1>2, QueuedRow
    <3>4. UpTo(i, Quantity[i])'
      BY <3>3, NumbersInNat DEF UpTo, Numbers
    <3> QED BY <3>4, NumbersInNat
  <2>3. CASE i \notin Committed \ Submitted
    <3>1. \A n \in Numbers(i) : unit'[<<i, n>>] = unit[<<i, n>>]
      BY <1>2, <2>3, UnitParts
    <3>2. UpTo(i, m)'
      BY <2>1, <3>1 DEF UpTo, Numbers
    <3> QED BY <3>2
  <2> QED BY <2>2, <2>3
<1>7. \A u \in Existing : unit'[u] = unit[u]
  <2> HIDE DEF N
  <2> QED BY <1>2, <1>5, ExistingPart
<1>8. \A u \in N : unit'[u] = Queued(0)
  <2> HIDE DEF N
  <2> QED BY <1>1, <1>2
<1>9. \A w \in Units : unit[w].state = "WASTED" => unit'[w].state = "WASTED"
  <2> HIDE DEF N
  <2> QED BY <1>1, <1>2
<1>10. ASSUME NEW u \in Existing, u[2] > Quantity[u[1]]
       PROVE  <<u[1], unit[u].of>> \in Units
  <2>1. unit[u].of \in 1 .. u[2] - 1 /\ u \in Units
    BY <1>10, ExistingPart DEF IInv, Sourced
  <2>2. unit[u].of \in Numbers(u[1]) /\ u[1] \in Items
    BY <2>1, UnitParts, NumbersInNat DEF Numbers
  <2> QED BY <2>2, UnitParts
<1>11. Sourced'
  <2>1. \A u \in N : ~(u[2] > Quantity[u[1]])
    BY <1>1, NumbersInNat, UnitParts
  <2>2. \A u \in N : unit'[u].of = 0
    BY <1>8, QueuedRow
  <2> HIDE DEF N
  <2> QED BY <2>1, <2>2, <1>5, <1>7, <1>9, <1>10 DEF Sourced, IInv
<1>12. RequestsGood'
  <2>1. \A u \in Units : unit[u].state = "WASTED" => unit'[u] = unit[u]
    <3> HIDE DEF N
    <3> QED BY <1>1, <1>2
  <2>2. resolved' = resolved
    BY DEF SubmitOrder
  <2> QED BY <2>1, <2>2 DEF IInv, RequestsGood, Units, Numbers
<1>13. DoneWhenClosed'
  BY DEF SubmitOrder, DoneWhenClosed
<1> QED BY <1>4, <1>6, <1>11, <1>12, <1>13 DEF IInv

\* The units of an item whose highest number is m.
LEMMA NumberedUnits ==
  ASSUME NEW i \in Items, NEW m \in Nat, UpTo(i, m)
  PROVE  {u \in Existing : u[1] = i} = {i} \X (1 .. m)
<1>1. ASSUME NEW n \in 1 .. m
      PROVE  n \in Numbers(i) /\ <<i, n>> \in Existing
  <2>1. n \in Numbers(i)
    BY NumbersInNat DEF UpTo, Numbers
  <2>2. <<i, n>> \in Units /\ unit[<<i, n>>].state # "NONE"
    BY <2>1, UnitParts DEF UpTo
  <2> QED BY <2>1, <2>2 DEF Existing
<1>2. ASSUME NEW u \in Existing, u[1] = i
      PROVE  u = <<i, u[2]>> /\ u[2] \in 1 .. m
  <2>1. u \in Units /\ unit[u].state # "NONE"
    BY DEF Existing
  <2>2. u[2] \in Numbers(i) /\ u = <<i, u[2]>>
    BY <2>1, <1>2, UnitParts
  <2>3. u[2] <= m
    BY <2>1, <2>2 DEF UpTo
  <2> QED BY <2>2, <2>3, NumbersInNat
<1> QED BY <1>1, <1>2

\* One set of numbers of an item is as large as the set of its units.
LEMMA PairsCardinality ==
  ASSUME NEW i, NEW D, IsFiniteSet(D)
  PROVE  IsFiniteSet({i} \X D) /\ Cardinality({i} \X D) = Cardinality(D)
<1> DEFINE f == [d \in D |-> <<i, d>>]
<1>1. f \in [D -> {i} \X D]
  OBVIOUS
<1>2. \A c, d \in D : f[c] = f[d] => c = d
  OBVIOUS
<1>3. \A p \in {i} \X D : \E d \in D : f[d] = p
  OBVIOUS
<1> HIDE DEF f
<1>4. f \in Bijection(D, {i} \X D)
  BY <1>1, <1>2, <1>3 DEF Bijection, Injection, Surjection, IsInjective
<1>5. ExistsBijection(D, {i} \X D)
  BY <1>4 DEF ExistsBijection
<1> QED BY <1>5, FS_Bijection

\* So the next number is the first one free.
LEMMA NextNumberFree ==
  ASSUME NEW i \in Items, NEW m \in Nat, UpTo(i, m)
  PROVE  NextNumber(i) = m + 1
<1>1. Cardinality(1 .. m) = m /\ IsFiniteSet(1 .. m)
  BY FS_Interval
<1>2. Cardinality({i} \X (1 .. m)) = m
  BY <1>1, PairsCardinality
<1>3. {u \in Existing : u[1] = i} = {i} \X (1 .. m)
  BY NumberedUnits
<1>4. NextNumber(i) = 1 + Cardinality({i} \X (1 .. m))
  BY <1>3, Zenon DEF NextNumber
<1> QED BY <1>2, <1>4

\* A Remake takes the next number and replaces a wasted unit nobody replaced.
LEMMA RemakeInductive ==
  ASSUME IInv, NEW w \in Existing, RemakeUnit(w)
  PROVE  IInv'
<1> DEFINE i == w[1]
<1>1. /\ w \in Units /\ i \in Items /\ w[2] \in Numbers(i) /\ w = <<i, w[2]>>
      /\ unit[w].state = "WASTED" /\ Unremade(w) /\ session = "ACTIVE"
  BY UnitParts, ExistingPart DEF RemakeUnit
<1>2. PICK m \in Nat : UpTo(i, m)
  BY <1>1 DEF IInv, Numbered
<1> DEFINE n == m + 1
           v == <<i, n>>
<1>3. /\ n \in Numbers(i) /\ w[2] <= m /\ Quantity[i] <= m
      /\ unit' = [unit EXCEPT ![v] = Queued(w[2])]
  <2>1. NextNumber(i) = n
    BY <1>1, <1>2, NextNumberFree
  <2>2. w[2] <= m
    BY <1>1, <1>2 DEF UpTo
  <2>3. Quantity[i] <= m
    BY <2>2, <1>1, <1>2, NumbersInNat DEF UpTo
  <2> QED BY <2>1, <2>2, <2>3 DEF RemakeUnit
<1> HIDE DEF v
<1>4. v \in Units /\ unit[v].state = "NONE" /\ v = <<i, n>> /\ v[1] = i /\ v[2] = n
  <2>1. v = <<i, n>> /\ v[1] = i /\ v[2] = n
    BY DEF v
  <2> QED BY <2>1, <1>1, <1>2, <1>3, UnitParts DEF UpTo
<1>5. w[2] \in 1 .. n - 1 /\ w[2] \in Nat /\ n > Quantity[i] /\ Quantity[i] \in Nat
  BY <1>1, <1>3, NumbersInNat
<1>6. /\ RowGood(unit'[v]) /\ unit'[v].state = "QUEUED" /\ unit'[v].of = w[2]
      /\ \A u \in Units : u # v => unit'[u] = unit[u]
      /\ unit' = [u \in Units |-> unit'[u]]
  BY <1>3, <1>4, <1>5, QueuedRow DEF IInv, UnitsGood
<1>7. Existing' = Existing \cup {v} /\ v \notin Existing
  BY <1>4, <1>6 DEF Existing, Units, Numbers
<1>8. UnitsGood'
  BY <1>6 DEF IInv, UnitsGood, Units, Numbers
<1>9. Numbered'
  <2> SUFFICES ASSUME NEW j \in Items PROVE \E k \in Nat : UpTo(j, k)'
    BY DEF Numbered
  <2>1. CASE j = i
    <3>1. \A k \in Numbers(i) : unit'[<<i, k>>].state # "NONE" <=> k <= n
      <4> SUFFICES ASSUME NEW k \in Numbers(i)
                   PROVE  unit'[<<i, k>>].state # "NONE" <=> k <= n
        OBVIOUS
      <4>1. k \in Nat /\ <<i, k>> \in Units
        BY <1>1, UnitParts, NumbersInNat
      <4>2. CASE k = n
        BY <4>1, <4>2, <1>4, <1>6
      <4>3. CASE k # n
        BY <4>1, <4>3, <1>2, <1>3, <1>4, <1>6 DEF UpTo
      <4> QED BY <4>2, <4>3
    <3>2. Quantity[i] <= n /\ n <= Quantity[i] + MaxRemakes[i] /\ n \in Nat
      BY <1>1, <1>3, <1>5, NumbersInNat DEF Numbers
    <3>3. UpTo(i, n)'
      BY <3>1, <3>2 DEF UpTo, Numbers
    <3> QED BY <2>1, <3>2, <3>3
  <2>2. CASE j # i
    <3>1. PICK k \in Nat : UpTo(j, k)
      BY DEF IInv, Numbered
    <3>2. \A l \in Numbers(j) : unit'[<<j, l>>] = unit[<<j, l>>]
      BY <1>4, <1>6, <2>2, UnitParts
    <3>3. UpTo(j, k)'
      BY <3>1, <3>2 DEF UpTo, Numbers
    <3> QED BY <3>3
  <2> QED BY <2>1, <2>2
<1>10. \A u \in Existing : u \in Units /\ unit'[u] = unit[u]
  BY <1>6, <1>7, ExistingPart
<1>11. \A u \in Units : unit[u].state = "WASTED" => unit'[u].state = "WASTED"
  BY <1>4, <1>6
<1>12. Sourced'
  <2>1. \A u \in Existing : u[1] = i => unit[u].of # w[2]
    <3>1. RemadeFrom(w) = {}
      BY <1>1 DEF Unremade
    <3> QED BY <3>1 DEF RemadeFrom
  <2>2. \A u \in Existing' : u[2] <= Quantity[u[1]] => unit'[u].of = 0
    BY <1>4, <1>5, <1>7, <1>10 DEF IInv, Sourced
  <2>3. \A u \in Existing' : u[2] > Quantity[u[1]] =>
           unit'[u].of \in 1 .. u[2] - 1 /\ unit'[<<u[1], unit'[u].of>>].state = "WASTED"
    <3> SUFFICES ASSUME NEW u \in Existing', u[2] > Quantity[u[1]]
                 PROVE  unit'[u].of \in 1 .. u[2] - 1 /\ unit'[<<u[1], unit'[u].of>>].state = "WASTED"
      OBVIOUS
    <3>1. CASE u = v
      BY <3>1, <1>1, <1>4, <1>5, <1>6, <1>11
    <3>2. CASE u # v
      <4>1. u \in Existing /\ unit'[u] = unit[u] /\ u \in Units
        BY <3>2, <1>7, <1>10
      <4>2. unit[u].of \in 1 .. u[2] - 1 /\ unit[<<u[1], unit[u].of>>].state = "WASTED"
        BY <4>1 DEF IInv, Sourced
      <4>3. <<u[1], unit[u].of>> \in Units
        <5>1. unit[u].of \in Numbers(u[1]) /\ u[1] \in Items
          BY <4>1, <4>2, UnitParts, NumbersInNat DEF Numbers
        <5> QED BY <5>1, UnitParts
      <4> QED BY <4>1, <4>2, <4>3, <1>11
    <3> QED BY <3>1, <3>2
  <2>4. \A x, y \in Existing' :
           x[1] = y[1] /\ unit'[x].of = unit'[y].of /\ unit'[x].of # 0 => x = y
    <3> SUFFICES ASSUME NEW x \in Existing', NEW y \in Existing',
                        x[1] = y[1], unit'[x].of = unit'[y].of, unit'[x].of # 0
                 PROVE  x = y
      OBVIOUS
    <3>1. CASE x \in Existing /\ y \in Existing
      BY <3>1, <1>10 DEF IInv, Sourced
    <3>2. CASE x = v /\ y \in Existing
      BY <3>2, <2>1, <1>4, <1>6, <1>10
    <3>3. CASE y = v /\ x \in Existing
      BY <3>3, <2>1, <1>4, <1>6, <1>10
    <3> QED BY <3>1, <3>2, <3>3, <1>7
  <2> QED BY <2>2, <2>3, <2>4 DEF Sourced
<1>13. RequestsGood'
  <2>1. resolved' = resolved
    BY DEF RemakeUnit
  <2>2. \A u \in Units : unit[u].state = "WASTED" => unit'[u] = unit[u]
    BY <1>4, <1>6
  <2> QED BY <2>1, <2>2 DEF IInv, RequestsGood, Units, Numbers
<1>14. DoneWhenClosed'
  BY <1>1 DEF RemakeUnit, DoneWhenClosed
<1> QED BY <1>8, <1>9, <1>12, <1>13, <1>14 DEF IInv

\* What a Remake inserts was not there.
LEMMA RemakesNew ==
  ASSUME IInv, NEW w \in Existing, RemakeUnit(w)
  PROVE  unit[<<w[1], NextNumber(w[1])>>].state = "NONE"
<1>1. w[1] \in Items /\ NextNumber(w[1]) \in Numbers(w[1])
  BY UnitParts, ExistingPart DEF RemakeUnit
<1>2. PICK m \in Nat : UpTo(w[1], m)
  BY <1>1 DEF IInv, Numbered
<1>3. NextNumber(w[1]) = m + 1
  BY <1>1, <1>2, NextNumberFree
<1> HIDE DEF NextNumber
<1> QED BY <1>1, <1>2, <1>3 DEF UpTo

-----------------------------------------------------------------------------
(* The invariant.                                                          *)

\* A new Session has no units and no requests.
LEMMA InitIInv == Init => IInv
<1> SUFFICES ASSUME Init PROVE IInv
  OBVIOUS
<1>1. Existing = {} /\ resolved = {} /\ session = "ACTIVE"
  BY DEF Init, Existing, NoUnit
<1>2. UnitsGood
  BY DEF Init, UnitsGood, NoUnit, RowGood, Fields
<1>3. Numbered
  <2> SUFFICES ASSUME NEW i \in Items PROVE UpTo(i, 0)
    BY DEF Numbered
  <2>1. \A n \in Numbers(i) : unit[<<i, n>>].state = "NONE" /\ ~(n <= 0)
    BY UnitParts, NumbersInNat DEF Init, NoUnit
  <2> QED BY <2>1 DEF UpTo
<1> QED BY <1>1, <1>2, <1>3 DEF IInv, Sourced, RequestsGood, DoneWhenClosed

\* No unit of a closed Session is at the bar.
LEMMA NoneActive == ASSUME DoneWhenClosed, session = "CLOSED" PROVE Active = {}
BY DEF DoneWhenClosed, Active, Existing

\* Every command, run to its commit, keeps the invariant.
LEMMA NextIInv == IInv /\ [Next]_vars => IInv'
<1> SUFFICES ASSUME IInv, [Next]_vars PROVE IInv'
  OBVIOUS
<1>1. UnitsGood /\ RequestsGood /\ DoneWhenClosed
  BY DEF IInv
<1> DEFINE Quiet == UNCHANGED <<unit, session>> /\ resolved' \subseteq resolved
<1>2. ASSUME Quiet PROVE IInv'
  <2>1. RequestsGood'
    BY <1>1, <1>2 DEF RequestsGood, Units, Numbers
  <2> QED BY <1>2, <2>1, SameInductive
<1>3. ASSUME NEW D \in SUBSET Items, NEW k \in Checks, CommitOrderDraft(D, k) PROVE IInv'
  BY <1>2, <1>3 DEF CommitOrderDraft
<1>4. CASE SubmitOrder
  BY <1>4, SubmitInductive
<1>5. ASSUME NEW from \in Checks, NEW to \in Checks, NEW move \in Moves, SplitCheck(from, to, move)
      PROVE  IInv'
  <2>1. UNCHANGED <<unit, session>> /\ \E D : resolved' = Forget(D, from)
    BY <1>5 DEF SplitCheck
  <2>2. RequestsGood'
    BY <1>1, <2>1, ForgetGood
  <2> QED BY <2>1, <2>2, SameInductive
<1>6. ASSUME NEW surviving \in Checks, NEW absorbed \in Checks, MergeChecks(surviving, absorbed)
      PROVE  IInv'
  BY <1>2, <1>6 DEF MergeChecks
<1>7. ASSUME NEW k \in Checks, NEW amount, RecordPayment(k, amount) \/ RecordRefund(k, amount)
      PROVE  IInv'
  BY <1>2, <1>7 DEF RecordPayment, RecordRefund
<1>8. ASSUME NEW S \in SUBSET Active, NEW target \in Targets, AdvanceUnits(S, target)
      PROVE  IInv'
  <2>1. Marks
    BY <1>1, <1>8, AdvanceMarks
  <2>2. session # "CLOSED"
    BY <1>1, <1>8, NoneActive DEF AdvanceUnits
  <2> QED BY <1>8, <2>1, <2>2, MarksInductive DEF AdvanceUnits
<1>9. ASSUME NEW u \in Existing, WasteUnit(u) PROVE IInv'
  <2>1. Marks
    BY <1>1, <1>9, WasteMarks, ExistingPart
  <2>2. session # "CLOSED"
    BY <1>1, <1>9 DEF DoneWhenClosed, WasteUnit, Terminal
  <2> QED BY <1>9, <2>1, <2>2, MarksInductive DEF WasteUnit
<1>10. ASSUME NEW u \in Existing, AcknowledgeAlert(u) PROVE IInv'
  <2>1. Marks
    BY <1>1, <1>10, AcknowledgeMarks, ExistingPart
  <2>2. \A v \in Existing : unit'[v].state = unit[v].state
    BY <1>1, <1>10, ExistingPart DEF AcknowledgeAlert, UnitsGood, RowGood, Fields
  <2>3. session = "CLOSED" => \A v \in Existing : unit'[v].state \in Terminal
    BY <1>1, <2>2 DEF DoneWhenClosed
  <2> QED BY <1>10, <2>1, <2>3, MarksInductive DEF AcknowledgeAlert
<1>11. ASSUME NEW u \in Existing, RemakeUnit(u) PROVE IInv'
  BY <1>11, RemakeInductive
<1>12. ASSUME NEW target \in DOMAIN Successor,
              NEW S \in SUBSET {u \in Existing : unit[u].state = Successor[target]},
              CorrectState(S, target)
       PROVE  IInv'
  <2>1. Marks
    BY <1>1, <1>12, CorrectMarks, ExistingPart
  <2> QED BY <1>12, <2>1, MarksInductive DEF CorrectState
<1>13. ASSUME NEW S \in SUBSET Active, ResolveCancellation(S) PROVE IInv'
  <2>1. RequestsGood'
    BY <1>1, <1>13, ExistingPart, ResolveGood DEF ResolveCancellation, Resolve
  <2> QED BY <1>13, <2>1, SameInductive DEF ResolveCancellation, Resolve
<1>14. ASSUME NEW u \in Existing, ResolveComp(u) PROVE IInv'
  <2>1. RequestsGood'
    BY <1>1, <1>14, ExistingPart, ResolveGood DEF ResolveComp, Resolve
  <2> QED BY <1>14, <2>1, SameInductive DEF ResolveComp, Resolve
<1>15. ASSUME NEW r \in resolved, CancelUnits(r) PROVE IInv'
  <2>1. Marks
    BY <1>1, <1>15, CancelMarks
  <2> QED BY <1>15, <2>1, MarksInductive DEF CancelUnits
<1>16. ASSUME NEW r \in resolved, CompWaste(r) PROVE IInv'
  <2>1. Marks
    BY <1>1, <1>16, CompRows DEF Marks
  <2>2. session = "CLOSED" => \A v \in Existing : unit'[v].state \in Terminal
    BY <1>1, <1>16, ExistingPart, CompRows DEF DoneWhenClosed
  <2> QED BY <1>16, <2>1, <2>2, MarksInductive DEF CompWaste
<1>17. ASSUME NEW r \in resolved, Abandon(r) PROVE IInv'
  BY <1>2, <1>17 DEF Abandon
<1>18. CASE CloseServiceSession
  <2>1. UnitsGood' /\ Numbered' /\ Sourced' /\ Existing' = Existing
    BY <1>18, UnitsSame DEF CloseServiceSession
  <2>2. RequestsGood'
    BY <1>1, <1>18 DEF CloseServiceSession, RequestsGood, Units, Numbers
  <2>3. DoneWhenClosed'
    BY <1>18, <2>1 DEF CloseServiceSession, ClosureReady, DoneWhenClosed
  <2> QED BY <2>1, <2>2, <2>3 DEF IInv
<1>19. CASE UNCHANGED vars
  BY <1>2, <1>19 DEF vars
<1> HIDE DEF Quiet
<1> QED
  <2>1. CASE Order
    BY <2>1, <1>3, <1>4 DEF Order
  <2>2. CASE Restructure
    BY <2>2, <1>5, <1>6 DEF Restructure
  <2>3. CASE Pay
    BY <2>3, <1>7 DEF Pay
  <2>4. CASE Prepare
    BY <2>4, <1>8, <1>9, <1>10, <1>11, <1>12 DEF Prepare
  <2>5. CASE Correct
    BY <2>5, <1>13, <1>14, <1>15, <1>16, <1>17 DEF Correct
  <2> QED BY <2>1, <2>2, <2>3, <2>4, <2>5, <1>18, <1>19 DEF Next

-----------------------------------------------------------------------------
(* What follows from it.                                                   *)

\* The Remakes of an item, which are its units past the ordered quantity, map
\* one to one to its wasted units.
LEMMA RemakesAreWastes ==
  ASSUME IInv, NEW i \in Items, NEW m \in Nat, UpTo(i, m)
  PROVE  /\ IsFiniteSet({n \in 1 .. m : unit[<<i, n>>].state = "WASTED"})
         /\ m - Quantity[i] <= Cardinality({n \in 1 .. m : unit[<<i, n>>].state = "WASTED"})
<1> DEFINE W == {n \in 1 .. m : unit[<<i, n>>].state = "WASTED"}
           R == Quantity[i] + 1 .. m
           f == [n \in R |-> unit[<<i, n>>].of]
<1>1. Quantity[i] \in Nat /\ IsFiniteSet(1 .. m)
  BY NumbersInNat, FS_Interval
<1>2. IsFiniteSet(W) /\ Cardinality(W) \in Nat
  <2>1. W \in SUBSET (1 .. m)
    OBVIOUS
  <2> HIDE DEF W
  <2> QED BY <1>1, <2>1, FS_Subset, FS_CardinalityType
<1>3. Cardinality(R) = IF Quantity[i] + 1 > m THEN 0 ELSE m - Quantity[i]
  <2> DEFINE q == Quantity[i] + 1
  <2>1. q \in Int /\ m \in Int /\ R = q .. m
    BY <1>1
  <2> HIDE DEF q, R
  <2>2. Cardinality(R) = IF q > m THEN 0 ELSE m - q + 1
    BY <2>1, FS_Interval
  <2> QED BY <1>1, <2>2 DEF q
<1>4. ASSUME NEW n \in R
      PROVE  /\ <<i, n>> \in Existing /\ n > Quantity[i] /\ n \in 1 .. m
             /\ unit[<<i, n>>].of \in 1 .. n - 1
             /\ unit[<<i, unit[<<i, n>>].of>>].state = "WASTED"
  <2>1. n \in 1 .. m /\ n > Quantity[i]
    BY <1>1
  <2>2. <<i, n>> \in {u \in Existing : u[1] = i}
    BY <2>1, NumberedUnits
  <2>3. <<i, n>> \in Existing /\ <<i, n>>[1] = i /\ <<i, n>>[2] = n
    BY <2>2
  <2> QED BY <2>1, <2>3 DEF IInv, Sourced
<1>5. f \in [R -> W]
  BY <1>4, <1>1
<1>6. \A n, l \in R : f[n] = f[l] => n = l
  <2> SUFFICES ASSUME NEW n \in R, NEW l \in R, f[n] = f[l] PROVE n = l
    OBVIOUS
  <2>1. unit[<<i, n>>].of = unit[<<i, l>>].of
    OBVIOUS
  <2>2. /\ <<i, n>> \in Existing /\ <<i, l>> \in Existing
        /\ unit[<<i, n>>].of \in 1 .. n - 1 /\ n \in 1 .. m
    BY <1>4
  <2>3. unit[<<i, n>>].of # 0
    BY <2>2
  <2>4. <<i, n>> = <<i, l>>
    BY <2>1, <2>2, <2>3 DEF IInv, Sourced
  <2> QED BY <2>4
<1> HIDE DEF f, R, W
<1>7. f \in Injection(R, W)
  BY <1>5, <1>6 DEF Injection, IsInjective
<1>8. Cardinality(R) <= Cardinality(W)
  BY <1>2, <1>7, FS_Injection
<1>9. IsFiniteSet(W) /\ m - Quantity[i] <= Cardinality(W)
  BY <1>1, <1>2, <1>3, <1>8
<1> QED BY <1>9 DEF W

\* So no more units are alive or served than were ordered.
LEMMA ServedBound == IInv => NeverServedTwice
<1> SUFFICES ASSUME IInv, NEW i \in Items
             PROVE  Cardinality({u \in Existing : u[1] = i /\ unit[u].state # "WASTED"}) <= Quantity[i]
  BY DEF NeverServedTwice
<1>1. PICK m \in Nat : UpTo(i, m)
  BY DEF IInv, Numbered
<1> DEFINE W == {n \in 1 .. m : unit[<<i, n>>].state = "WASTED"}
           L == (1 .. m) \ W
<1>2. /\ Quantity[i] \in Nat /\ IsFiniteSet(1 .. m) /\ Cardinality(1 .. m) = m
      /\ IsFiniteSet(W) /\ m - Quantity[i] <= Cardinality(W) /\ (1 .. m) \cap W = W
  <2>1. Quantity[i] \in Nat /\ (1 .. m) \cap W = W
    BY NumbersInNat
  <2>2. IsFiniteSet(1 .. m) /\ Cardinality(1 .. m) = m
    BY FS_Interval
  <2>3. IsFiniteSet(W) /\ m - Quantity[i] <= Cardinality(W)
    BY <1>1, RemakesAreWastes
  <2> QED BY <2>1, <2>2, <2>3
<1>3. {u \in Existing : u[1] = i /\ unit[u].state # "WASTED"} = {i} \X L
  <2>1. {u \in Existing : u[1] = i} = {i} \X (1 .. m)
    BY <1>1, NumberedUnits
  <2>2. {u \in Existing : u[1] = i /\ unit[u].state # "WASTED"}
          = {u \in {u \in Existing : u[1] = i} : unit[u].state # "WASTED"}
    OBVIOUS
  <2>3. {u \in {i} \X (1 .. m) : unit[u].state # "WASTED"} = {i} \X L
    OBVIOUS
  <2> HIDE DEF L
  <2> QED BY <2>1, <2>2, <2>3
<1> HIDE DEF W
<1>4. Cardinality(W) \in Nat
  BY <1>2, FS_CardinalityType
<1>5. IsFiniteSet(L) /\ Cardinality(L) = m - Cardinality(W)
  <2>1. PICK M : M = 1 .. m
    OBVIOUS
  <2>2. IsFiniteSet(M) /\ Cardinality(M) = m /\ M \cap W = W /\ L = M \ W
    BY ONLY <1>2, <2>1 DEF L
  <2> HIDE DEF L
  <2> QED BY ONLY <2>2, FS_Difference
<1> HIDE DEF L
<1>6. Cardinality({i} \X L) = Cardinality(L)
  BY <1>5, PairsCardinality
<1>7. Cardinality({i} \X L) <= Quantity[i]
  BY <1>2, <1>4, <1>5, <1>6
<1> QED BY <1>3, <1>7

\* No unit that was charged off is made or served, and no ordered unit is
\* cancelled at its price: the rules a row obeys alone.
LEMMA ChargedOffBound == IInv => ChargedOffNeverServed
BY ExistingPart DEF IInv, UnitsGood, RowGood, ChargedOffNeverServed

\* A command marks units, leaves them alone, or adds some that were not there.
\* Work begun is not cancelled: the one command that cancels finds its units
\* queued.
LEMMA CancelsOnlyQueued ==
  ASSUME IInv, [Next]_vars
  PROVE  \A u \in Units :
            /\ unit[u].state \in {"IN_PREPARATION", "READY", "FULFILLED"} => unit'[u].state # "CANCELLED"
            /\ unit[u].state \in {"CANCELLED", "WASTED"} => unit'[u].state = unit[u].state
<1> DEFINE StateKept(u) ==
      /\ unit[u].state \in {"IN_PREPARATION", "READY", "FULFILLED"} => unit'[u].state # "CANCELLED"
      /\ unit[u].state \in {"CANCELLED", "WASTED"} => unit'[u].state = unit[u].state
<1> SUFFICES ASSUME NEW u \in Units PROVE StateKept(u)
  OBVIOUS
<1>1. RowGood(unit[u]) /\ UnitsGood /\ RequestsGood
  BY DEF IInv, UnitsGood
<1>2. ASSUME unit'[u] = unit[u] PROVE StateKept(u)
  BY <1>2
<1>3. ASSUME NEW S, NEW state \in {"QUEUED", "IN_PREPARATION", "READY", "FULFILLED"},
             \A v \in S : unit[v].state \in {"QUEUED", "IN_PREPARATION", "READY", "FULFILLED"},
             unit' = SetStates(S, state)
      PROVE  StateKept(u)
  <2>1. unit'[u] = IF u \in S THEN [unit[u] EXCEPT !.state = state] ELSE unit[u]
    BY <1>3 DEF SetStates
  <2>2. [unit[u] EXCEPT !.state = state].state = state
    BY <1>1 DEF RowGood, Fields
  <2> QED BY <1>3, <2>1, <2>2
<1>4. CASE Order
  <2>1. CASE SubmitOrder
    <3>1. unit'[u] = unit[u] \/ unit[u].state = "NONE"
      <4>1. \A v \in Standard : v[1] \in Committed \ Submitted => unit[v].state = "NONE"
        BY SubmitsNew DEF IInv
      <4> QED BY <2>1, <4>1 DEF SubmitOrder
    <3> QED BY <3>1, <1>2
  <2>2. CASE \E D \in SUBSET Items, k \in Checks : CommitOrderDraft(D, k)
    BY ONLY <2>2, <1>2, TillKeepsUnits
  <2> QED BY <1>4, <2>1, <2>2 DEF Order
<1>5. CASE Restructure \/ Pay
  BY ONLY <1>5, <1>2, TillKeepsUnits
<1>6. CASE Prepare
  <2>1. ASSUME NEW S \in SUBSET Active, NEW target \in Targets, AdvanceUnits(S, target)
        PROVE  StateKept(u)
    <3>1. \A v \in {v \in S : LegalAdvance(v, target)} :
            unit[v].state \in {"QUEUED", "IN_PREPARATION", "READY", "FULFILLED"}
      BY DEF LegalAdvance, Successor
    <3> QED BY <2>1, <3>1, <1>3 DEF AdvanceUnits, Targets
  <2>2. ASSUME NEW target \in DOMAIN Successor, NEW S, CorrectState(S, target)
        PROVE  StateKept(u)
    <3>1. /\ target \in {"QUEUED", "IN_PREPARATION", "READY", "FULFILLED"}
          /\ \A v \in S : unit[v].state \in {"QUEUED", "IN_PREPARATION", "READY", "FULFILLED"}
      BY <2>2 DEF CorrectState, Successor
    <3> QED BY <2>2, <3>1, <1>3 DEF CorrectState
  <2>3. ASSUME NEW v \in Existing, WasteUnit(v)
        PROVE  StateKept(u)
    <3>1. CASE u # v
      BY <3>1, <2>3, <1>2, <1>1 DEF WasteUnit, UnitsGood
    <3>2. CASE u = v
      <4>1. unit'[u] = [unit[u] EXCEPT !.state = "WASTED", !.alert = "RAISED"]
        BY <3>2, <2>3, <1>1 DEF WasteUnit, UnitsGood
      <4> QED BY <4>1, <3>2, <2>3, <1>1 DEF WasteUnit, RowGood, Fields
    <3> QED BY <3>1, <3>2
  <2>4. ASSUME NEW v \in Existing, AcknowledgeAlert(v)
        PROVE  StateKept(u)
    <3>1. unit'[u].state = unit[u].state
      BY <2>4, <1>1 DEF AcknowledgeAlert, UnitsGood, RowGood, Fields
    <3> QED BY <3>1
  <2>5. ASSUME NEW v \in Existing, RemakeUnit(v)
        PROVE  StateKept(u)
    <3>1. unit'[u] = unit[u] \/ unit[u].state = "NONE"
      BY <2>5, <1>1, RemakesNew DEF RemakeUnit, UnitsGood
    <3> QED BY <3>1, <1>2
  <2> QED BY <1>6, <2>1, <2>2, <2>3, <2>4, <2>5 DEF Prepare
<1>7. CASE Correct
  <2>1. ASSUME NEW r \in resolved, CancelUnits(r)
        PROVE  StateKept(u)
    <3>1. CASE u \in DOMAIN r.at
      BY <3>1, <2>1 DEF CancelUnits, StillQueued
    <3>2. CASE u \notin DOMAIN r.at
      BY <3>2, <2>1, <1>2 DEF CancelUnits
    <3> QED BY <3>1, <3>2
  <2>2. ASSUME NEW r \in resolved, CompWaste(r)
        PROVE  StateKept(u)
    BY <2>2, <1>1, CompRows
  <2>3. ASSUME UNCHANGED unit PROVE StateKept(u)
    BY <2>3, <1>2
  <2> QED BY <1>7, <2>1, <2>2, <2>3
          DEF Correct, ResolveCancellation, ResolveComp, Resolve, Abandon
<1>8. CASE CloseServiceSession \/ UNCHANGED vars
  BY <1>8, <1>2 DEF CloseServiceSession, vars
<1> QED BY <1>4, <1>5, <1>6, <1>7, <1>8 DEF Next

\* Nothing of a closed Session moves but its alerts, and the adjustments of its
\* wasted units: every other command asks for an ACTIVE one, and what asks for
\* none finds no unit it may move.
LEMMA ClosedStays ==
  ASSUME IInv, [Next]_vars, session = "CLOSED"
  PROVE  /\ session' = "CLOSED" /\ check' = check /\ alloc' = alloc
         /\ \A u \in Units : unit'[u].state = unit[u].state /\ unit'[u].of = unit[u].of
<1>1. UnitsGood /\ RequestsGood /\ DoneWhenClosed /\ Active = {}
  BY NoneActive DEF IInv
<1>2. CASE Order \/ Restructure \/ Pay \/ CloseServiceSession
  BY <1>2 DEF Order, Restructure, Pay, CommitOrderDraft, SubmitOrder, SplitCheck, MergeChecks,
              RecordPayment, RecordRefund, CloseServiceSession
<1>3. CASE Prepare
  <2>1. ASSUME NEW u \in Existing PROVE ~WasteUnit(u) /\ ~RemakeUnit(u)
    BY <2>1, <1>1 DEF WasteUnit, RemakeUnit, DoneWhenClosed, Terminal
  <2>2. ASSUME NEW S \in SUBSET Active, NEW target \in Targets PROVE ~AdvanceUnits(S, target)
    BY <2>2, <1>1 DEF AdvanceUnits
  <2>3. ASSUME NEW S, NEW target PROVE ~CorrectState(S, target)
    BY DEF CorrectState
  <2>4. PICK u \in Existing : AcknowledgeAlert(u)
    BY <1>3, <2>1, <2>2, <2>3 DEF Prepare
  <2> QED BY <2>4, <1>1 DEF AcknowledgeAlert, UnitsGood, RowGood, Fields
<1>4. CASE Correct
  <2>1. ASSUME NEW r \in resolved, CompWaste(r)
        PROVE  /\ session' = "CLOSED" /\ check' = check /\ alloc' = alloc
               /\ \A u \in Units : unit'[u].state = unit[u].state /\ unit'[u].of = unit[u].of
    BY <2>1, <1>1, CompRows DEF CompWaste
  <2>2. ASSUME NEW r PROVE ~CancelUnits(r)
    BY DEF CancelUnits
  <2> QED BY <1>4, <2>1, <2>2 DEF Correct, ResolveCancellation, ResolveComp, Resolve, Abandon
<1>5. CASE UNCHANGED vars
  BY <1>5 DEF vars
<1> QED BY <1>2, <1>3, <1>4, <1>5 DEF Next

-----------------------------------------------------------------------------
(* The bar's screen.                                                       *)

\* What the read counts of an item is its highest number in use.
LEMMA CountIsHighest ==
  ASSUME NEW u \in Units, NEW m \in Nat, UpTo(u[1], m)
  PROVE  OrderItemUnitCount(u) = m
<1> DEFINE used == {n \in Numbers(u[1]) : unit[<<u[1], n>>].state # "NONE"}
<1>1. u[1] \in Items
  BY UnitParts
<1>2. used = 1 .. m
  <2>1. \A n \in Numbers(u[1]) : n \in used <=> n <= m
    BY DEF UpTo
  <2>2. m <= Quantity[u[1]] + MaxRemakes[u[1]]
    BY <1>1, NumbersInNat DEF UpTo
  <2>3. 1 .. m \subseteq Numbers(u[1]) /\ \A n \in Numbers(u[1]) : n \in Nat \ {0}
    BY <1>1, <2>2, NumbersInNat DEF Numbers
  <2>4. \A n \in 1 .. m : n <= m
    OBVIOUS
  <2>5. \A n \in Nat \ {0} : n <= m => n \in 1 .. m
    OBVIOUS
  <2> QED BY <2>1, <2>3, <2>4, <2>5
<1>3. Cardinality(1 .. m) = m
  BY FS_Interval
<1> HIDE DEF used
<1>4. OrderItemUnitCount(u) = Cardinality(used)
  BY DEF OrderItemUnitCount, used
<1> QED BY <1>2, <1>3, <1>4

\* The rows alone make the screen coherent.
LEMMA InvariantIsCoherent == IInv => Coherent
<1> SUFFICES ASSUME IInv PROVE Coherent
  OBVIOUS
<1>1. ListActivePreparationUnits \subseteq Existing
  BY DEF ListActivePreparationUnits, AtTheBar, Existing
<1>2. ListActivePreparationAlerts \subseteq ListActivePreparationUnits
  BY DEF ListActivePreparationAlerts, ListActivePreparationUnits, Existing, IInv, UnitsGood, RowGood
<1>3. ASSUME NEW u \in ListActivePreparationUnits
      PROVE  /\ u[2] <= OrderItemUnitCount(u)
             /\ \A source \in Link(u) : unit[source].state = "WASTED"
             /\ session = "CLOSED" => Lane(u) = 3
  <2>1. u \in Existing /\ u \in Units /\ u[1] \in Items /\ u[2] \in Numbers(u[1]) /\ u = <<u[1], u[2]>>
    BY <1>1, <1>3, ExistingPart, UnitParts
  <2>2. PICK m \in Nat : UpTo(u[1], m)
    BY <2>1 DEF IInv, Numbered
  <2>3. u[2] <= m
    BY <2>1, <2>2 DEF UpTo, Existing
  <2>4. u[2] <= OrderItemUnitCount(u)
    BY <2>1, <2>2, <2>3, CountIsHighest
  <2>5. \A source \in Link(u) : unit[source].state = "WASTED"
    <3>1. unit[u].of # 0 => u[2] > Quantity[u[1]]
      BY <2>1, NumbersInNat DEF IInv, Sourced
    <3> QED BY <3>1, <2>1 DEF IInv, Sourced, Link
  <2>6. session = "CLOSED" => Lane(u) = 3
    BY <2>1 DEF IInv, DoneWhenClosed, Lane, AtTheBar, Terminal
  <2> QED BY <2>4, <2>5, <2>6
<1> QED BY <1>2, <1>3 DEF Coherent

\* What a step may do to a row on the screen: a unit to be made is made, served or
\* called off with its alert raised, an alert is left alone or acknowledged, and
\* a closed Session raises none.
RowStep(row, next) ==
    /\ row.state \in AtTheBar =>
          next.state \in AtTheBar \cup {"FULFILLED"}
          \/ (next.state \in {"CANCELLED", "WASTED"} /\ next.alert = "RAISED")
    /\ row.alert = "RAISED" => next.alert \in {"RAISED", "ACKNOWLEDGED"}
    /\ session = "CLOSED" /\ next.alert = "RAISED" => row.alert = "RAISED"

\* Every command keeps to it.
LEMMA RowsStep ==
  ASSUME IInv, [Next]_vars
  PROVE  \A u \in Units : RowStep(unit[u], unit'[u])
<1> SUFFICES ASSUME NEW u \in Units PROVE RowStep(unit[u], unit'[u])
  OBVIOUS
<1>1. RowGood(unit[u]) /\ UnitsGood /\ RequestsGood /\ DoneWhenClosed
  BY DEF IInv, UnitsGood
<1>2. ASSUME unit'[u] = unit[u] PROVE RowStep(unit[u], unit'[u])
  BY <1>2 DEF RowStep
<1>3. ASSUME NEW S, NEW state \in {"QUEUED", "IN_PREPARATION", "READY", "FULFILLED"},
             unit' = SetStates(S, state)
      PROVE  RowStep(unit[u], unit'[u])
  <2>1. unit'[u] = IF u \in S THEN [unit[u] EXCEPT !.state = state] ELSE unit[u]
    BY <1>3 DEF SetStates
  <2>2. /\ [unit[u] EXCEPT !.state = state].state = state
        /\ [unit[u] EXCEPT !.state = state].alert = unit[u].alert
    BY <1>1 DEF RowGood, Fields
  <2> QED BY <1>3, <2>1, <2>2 DEF RowStep, AtTheBar
<1>4. ASSUME unit[u].state = "NONE", unit'[u].alert = "NONE"
      PROVE  RowStep(unit[u], unit'[u])
  BY <1>1, <1>4 DEF RowStep, RowGood, AtTheBar
<1>5. CASE Order
  <2>1. CASE SubmitOrder
    <3>1. \A v \in Standard : v[1] \in Committed \ Submitted => unit[v].state = "NONE"
      BY SubmitsNew DEF IInv
    <3>2. unit'[u] = unit[u] \/ (unit[u].state = "NONE" /\ unit'[u] = Queued(0))
      BY <2>1, <3>1 DEF SubmitOrder
    <3>3. Queued(0).alert = "NONE"
      BY DEF Queued, NoUnit
    <3> QED BY <3>2, <3>3, <1>2, <1>4
  <2>2. CASE \E D \in SUBSET Items, k \in Checks : CommitOrderDraft(D, k)
    BY ONLY <2>2, <1>2, TillKeepsUnits
  <2> QED BY <1>5, <2>1, <2>2 DEF Order
<1>6. CASE Restructure \/ Pay
  BY ONLY <1>6, <1>2, TillKeepsUnits
<1>7. CASE Prepare
  <2>1. ASSUME NEW S \in SUBSET Active, NEW target \in Targets, AdvanceUnits(S, target)
        PROVE  RowStep(unit[u], unit'[u])
    BY <2>1, <1>3 DEF AdvanceUnits, Targets
  <2>2. ASSUME NEW target \in DOMAIN Successor, NEW S, CorrectState(S, target)
        PROVE  RowStep(unit[u], unit'[u])
    BY <2>2, <1>3 DEF CorrectState, Successor
  <2>3. ASSUME NEW v \in Existing, WasteUnit(v)
        PROVE  RowStep(unit[u], unit'[u])
    <3>1. CASE u # v
      BY <3>1, <2>3, <1>2, <1>1 DEF WasteUnit, UnitsGood
    <3>2. CASE u = v
      <4>1. unit'[u] = [unit[u] EXCEPT !.state = "WASTED", !.alert = "RAISED"]
        BY <3>2, <2>3, <1>1 DEF WasteUnit, UnitsGood
      <4>2. session # "CLOSED"
        BY <2>3, <1>1 DEF WasteUnit, DoneWhenClosed, Terminal
      <4> QED BY <4>1, <4>2, <1>1 DEF RowStep, RowGood, Fields
    <3> QED BY <3>1, <3>2
  <2>4. ASSUME NEW v \in Existing, AcknowledgeAlert(v)
        PROVE  RowStep(unit[u], unit'[u])
    <3>1. CASE u # v
      BY <3>1, <2>4, <1>2, <1>1 DEF AcknowledgeAlert, UnitsGood
    <3>2. CASE u = v
      <4>1. unit'[u] = [unit[u] EXCEPT !.alert = "ACKNOWLEDGED"]
        BY <3>2, <2>4, <1>1 DEF AcknowledgeAlert, UnitsGood
      <4> QED BY <4>1, <1>1 DEF RowStep, RowGood, Fields, AtTheBar
    <3> QED BY <3>1, <3>2
  <2>5. ASSUME NEW v \in Existing, RemakeUnit(v)
        PROVE  RowStep(unit[u], unit'[u])
    <3>1. unit'[u] = unit[u] \/ (unit[u].state = "NONE" /\ unit'[u] = Queued(v[2]))
      BY <2>5, <1>1, RemakesNew DEF RemakeUnit, UnitsGood
    <3>2. Queued(v[2]).alert = "NONE"
      BY DEF Queued, NoUnit
    <3> QED BY <3>1, <3>2, <1>2, <1>4
  <2> QED BY <1>7, <2>1, <2>2, <2>3, <2>4, <2>5 DEF Prepare
<1>8. CASE Correct
  <2>1. ASSUME NEW r \in resolved, CancelUnits(r)
        PROVE  RowStep(unit[u], unit'[u])
    <3>1. CASE u \in DOMAIN r.at
      <4>1. unit'[u] = Cancelled(u, r.at[u]) /\ session # "CLOSED"
        BY <3>1, <2>1 DEF CancelUnits
      <4>2. Cancelled(u, r.at[u]).state = "CANCELLED" /\ Cancelled(u, r.at[u]).alert = "RAISED"
        BY <1>1 DEF Cancelled, Adjust, RowGood, Fields
      <4> QED BY <4>1, <4>2 DEF RowStep
    <3>2. CASE u \notin DOMAIN r.at
      BY <3>2, <2>1, <1>2 DEF CancelUnits
    <3> QED BY <3>1, <3>2
  <2>2. ASSUME NEW r \in resolved, CompWaste(r)
        PROVE  RowStep(unit[u], unit'[u])
    <3>1. \A scope, k : /\ Adjust(unit[u], scope, k).alert = unit[u].alert
                        /\ Adjust(unit[u], scope, k).state = unit[u].state
      BY <1>1 DEF Adjust, RowGood, Fields
    <3>2. unit'[u] = unit[u] \/ \E scope, k : unit'[u] = Adjust(unit[u], scope, k)
      BY <2>2 DEF CompWaste
    <3> QED BY <3>1, <3>2 DEF RowStep
  <2>3. ASSUME UNCHANGED unit PROVE RowStep(unit[u], unit'[u])
    BY <2>3, <1>2
  <2> QED BY <1>8, <2>1, <2>2, <2>3
          DEF Correct, ResolveCancellation, ResolveComp, Resolve, Abandon
<1>9. CASE CloseServiceSession \/ UNCHANGED vars
  BY <1>9, <1>2 DEF CloseServiceSession, vars
<1> QED BY <1>5, <1>6, <1>7, <1>8, <1>9 DEF Next

\* So nothing falls off the screen unserved or unseen, and a closed Session puts
\* nothing on it.
LEMMA NothingFallsOff ==
  ASSUME IInv, [Next]_vars
  PROVE  /\ \A u \in ListActivePreparationUnits \ ListActivePreparationUnits' :
               \/ unit'[u].state = "FULFILLED"
               \/ unit[u].alert = "RAISED" /\ unit'[u].alert = "ACKNOWLEDGED"
         /\ session = "CLOSED" =>
               ListActivePreparationUnits' \subseteq ListActivePreparationUnits
<1>1. /\ \A u \in Units : RowStep(unit[u], unit'[u])
      /\ \A u \in Units : unit[u].state \in {"CANCELLED", "WASTED"} => unit'[u].state = unit[u].state
  BY RowsStep, CancelsOnlyQueued
<1>2. /\ \A u \in Units : u \in ListActivePreparationUnits <=>
            (unit[u].state \in AtTheBar
             \/ (unit[u].state \in {"CANCELLED", "WASTED"} /\ unit[u].alert = "RAISED"))
      /\ \A u \in Units : u \in ListActivePreparationUnits' <=>
            (unit'[u].state \in AtTheBar
             \/ (unit'[u].state \in {"CANCELLED", "WASTED"} /\ unit'[u].alert = "RAISED"))
      /\ ListActivePreparationUnits \subseteq Units /\ ListActivePreparationUnits' \subseteq Units
  BY DEF ListActivePreparationUnits, Units, Numbers, AtTheBar
<1>3. ASSUME NEW u \in ListActivePreparationUnits \ ListActivePreparationUnits'
      PROVE  \/ unit'[u].state = "FULFILLED"
             \/ unit[u].alert = "RAISED" /\ unit'[u].alert = "ACKNOWLEDGED"
  BY <1>1, <1>2, <1>3 DEF RowStep
<1>4. ASSUME session = "CLOSED"
      PROVE  ListActivePreparationUnits' \subseteq ListActivePreparationUnits
  <2>1. \A u \in Units : unit'[u].state = unit[u].state
    BY <1>4, ClosedStays
  <2> QED BY <1>1, <1>2, <1>4, <2>1 DEF RowStep
<1> QED BY <1>3, <1>4

-----------------------------------------------------------------------------
(* The theorems.                                                           *)

\* The invariant holds of every reachable state.
THEOREM Invariance == Spec => []IInv
BY InitIInv, NextIInv, PTL DEF Spec

\* Through wastes, remakes of remakes and corrections, an item never has more
\* units alive or served than were ordered.
THEOREM ServedOnce == Spec => []NeverServedTwice
BY Invariance, ServedBound, PTL

\* A unit whose charge was taken off is never made or served, only ordered units
\* have a charge to take off, and an ordered unit is not cancelled at its price,
\* although a Cancellation resolves what a unit is charged to before it locks it.
THEOREM ChargedOffOnce == Spec => []ChargedOffNeverServed
BY Invariance, ChargedOffBound, PTL

\* Work the bar has begun is never cancelled, and no cancelled or wasted unit
\* comes back, whatever moved between resolving a Cancellation and running it.
THEOREM BegunIsKept == Spec => NothingMadeIsCancelled
<1>1. IInv /\ [Next]_vars =>
        [\A u \in Units :
           /\ unit[u].state \in {"IN_PREPARATION", "READY", "FULFILLED"} => unit'[u].state # "CANCELLED"
           /\ unit[u].state \in {"CANCELLED", "WASTED"} => unit'[u].state = unit[u].state]_vars
  BY CancelsOnlyQueued
<1> QED BY <1>1, Invariance, PTL DEF Spec, NothingMadeIsCancelled

\* A closed sale is history: its units, allocations, charges and receipts stand.
THEOREM ClosedIsHistory == Spec => ClosedWorkStands
<1>1. IInv /\ [Next]_vars =>
        [session = "CLOSED" =>
           /\ session' = "CLOSED" /\ check' = check /\ alloc' = alloc
           /\ \A u \in Units : unit'[u].state = unit[u].state /\ unit'[u].of = unit[u].of]_vars
  BY ClosedStays
<1> QED BY <1>1, Invariance, PTL DEF Spec, ClosedWorkStands

\* Work leaves the bar's screen only when it is served or its alert acknowledged, a
\* closed Session adds nothing to it, and every step leaves the screen coherent.
THEOREM ScreenKeepsTheWork == Spec => QueueKeepsTheWork
<1>1. IInv' => Coherent'
  BY InvariantIsCoherent, PTL
<1>2. IInv /\ [Next]_vars =>
        [LET before == ListActivePreparationUnits
             after == ListActivePreparationUnits'
         IN  /\ \A u \in before \ after :
                   \/ unit'[u].state = "FULFILLED"
                   \/ unit[u].alert = "RAISED" /\ unit'[u].alert = "ACKNOWLEDGED"
             /\ session = "CLOSED" => after \subseteq before
             /\ Coherent'
        ]_<<unit, session>>
  BY <1>1, NextIInv, NothingFallsOff
<1> QED BY <1>2, Invariance, PTL DEF Spec, QueueKeepsTheWork

-----------------------------------------------------------------------------
(* The allocations of one item.                                            *)

\* One allocation for each Check.
Fits(s) == s \in Seq(Allocation) /\ \A q, r \in DOMAIN s : s[q].on = s[r].on => q = r

\* With one allocation a Check, a row is all its item has on that Check.
LEMMA RowOn ==
  ASSUME NEW s, Fits(s), NEW r \in DOMAIN s
  PROVE  /\ s[r].on \in Checks /\ s[r].quantity \in Nat \ {0}
         /\ On(s, s[r].on) = {r} /\ QuantityOn(s, s[r].on) = s[r].quantity
<1>1. s[r] \in Allocation
  BY DEF Fits
<1>2. s[r].on \in Checks /\ s[r].quantity \in Nat \ {0}
  BY <1>1 DEF Allocation
<1>3. On(s, s[r].on) = {r}
  BY DEF Fits, On
<1>4. Pieces(s)[r] = s[r].quantity
  BY DEF Pieces
<1>5. Total(Pieces(s), {r}) = Pieces(s)[r]
  <2> DEFINE p == Pieces(s)
  <2>1. p[r] \in Int /\ IsFiniteSet({r}) /\ \A x \in {r} \ {r} : p[x] = 0
    BY <1>2, <1>4, FS_Singleton
  <2> HIDE DEF p
  <2>2. Total(p, {r}) = p[r]
    BY <2>1, TotalSingle
  <2> QED BY <2>2 DEF p
<1> QED BY <1>2, <1>3, <1>4, <1>5 DEF QuantityOn

\* Without a row for a Check the item has nothing on it.
LEMMA NoRowOn ==
  ASSUME NEW s, NEW k, \A r \in DOMAIN s : s[r].on # k
  PROVE  QuantityOn(s, k) = 0
<1>1. On(s, k) = {}
  BY DEF On
<1> QED BY <1>1, TotalEmpty DEF QuantityOn

\* What an item has on a Check is read off its allocation there.
LEMMA QuantityIs ==
  ASSUME NEW s, Fits(s), NEW k
  PROVE  /\ QuantityOn(s, k) \in Nat
         /\ QuantityOn(s, k) # 0 <=> \E r \in DOMAIN s : s[r].on = k
         /\ \A r \in On(s, k) : r \in DOMAIN s /\ s[r].on = k /\ s[r].quantity = QuantityOn(s, k)
BY RowOn, NoRowOn DEF On

\* Two sequences with the same allocation for a Check, or none.
LEMMA SameOn ==
  ASSUME NEW s, Fits(s), NEW t, Fits(t), NEW k,
         \A r \in DOMAIN s : s[r].on = k => \E q \in DOMAIN t : t[q] = s[r],
         \A q \in DOMAIN t : t[q].on = k => \E r \in DOMAIN s : s[r].on = k
  PROVE  QuantityOn(t, k) = QuantityOn(s, k)
<1>1. CASE \E r \in DOMAIN s : s[r].on = k
  <2>1. PICK r \in DOMAIN s : s[r].on = k
    BY <1>1
  <2>2. PICK q \in DOMAIN t : t[q] = s[r]
    BY <2>1
  <2>3. t[q].on = k
    BY <2>1, <2>2
  <2>4. QuantityOn(s, s[r].on) = s[r].quantity
    BY RowOn
  <2>5. QuantityOn(t, t[q].on) = t[q].quantity
    BY RowOn
  <2> QED BY <2>1, <2>2, <2>3, <2>4, <2>5
<1>2. CASE ~ \E r \in DOMAIN s : s[r].on = k
  <2>1. \A q \in DOMAIN t : t[q].on # k
    BY <1>2
  <2> QED BY <1>2, <2>1, NoRowOn
<1> QED BY <1>1, <1>2

\* Deleting an allocation closes the gap and moves no other.
LEMMA RemoveRow ==
  ASSUME NEW s, Fits(s), NEW at \in DOMAIN s, NEW t, t = RemoveAt(s, at)
  PROVE  /\ Fits(t) /\ QuantityOn(t, s[at].on) = 0
         /\ \A k : k # s[at].on => QuantityOn(t, k) = QuantityOn(s, k)
<1>1. s \in Seq(Allocation) /\ at \in 1 .. Len(s) /\ Len(s) \in Nat /\ DOMAIN s = 1 .. Len(s)
  BY DEF Fits
<1> DEFINE p == SubSeq(s, 1, at - 1)
           q == SubSeq(s, at + 1, Len(s))
<1>2. /\ p \in Seq(Allocation) /\ Len(p) = at - 1 /\ \A n \in 1 .. at - 1 : p[n] = s[n]
  BY <1>1
<1>3. /\ q \in Seq(Allocation) /\ Len(q) = Len(s) - at
      /\ \A n \in 1 .. Len(s) - at : q[n] = s[n + at]
  BY <1>1
<1>0. PICK a \in Seq(Allocation) : a = p
  BY <1>2
<1>00. PICK b \in Seq(Allocation) : b = q
  BY <1>3
<1>4. t = a \o b
  BY <1>0, <1>00 DEF RemoveAt
<1>14. /\ Len(a) = at - 1 /\ \A n \in 1 .. at - 1 : a[n] = s[n]
       /\ Len(b) = Len(s) - at /\ \A n \in 1 .. Len(s) - at : b[n] = s[n + at]
  BY <1>0, <1>00, <1>2, <1>3
<1> HIDE DEF p, q
<1>13. /\ t \in Seq(Allocation) /\ DOMAIN t = 1..(Len(a) + Len(b))
       /\ \A n \in 1..Len(a) : t[n] = a[n]
       /\ \A n \in 1..(Len(a) + Len(b)) :
             n \notin 1..Len(a) => n - Len(a) \in 1..Len(b) /\ t[n] = b[n - Len(a)]
  BY <1>4, JoinParts
<1>5. t \in Seq(Allocation) /\ DOMAIN t = 1 .. Len(s) - 1
  BY <1>1, <1>13, <1>14
<1>6. \A n \in 1 .. Len(s) - 1 : t[n] = IF n < at THEN s[n] ELSE s[n + 1]
  <2> SUFFICES ASSUME NEW n \in 1 .. Len(s) - 1
               PROVE  t[n] = IF n < at THEN s[n] ELSE s[n + 1]
    OBVIOUS
  <2>1. CASE n < at
    <3>1. n \in 1 .. Len(a) /\ n \in 1 .. at - 1
      BY <1>1, <1>14, <2>1
    <3> QED BY <1>13, <1>14, <2>1, <3>1
  <2>2. CASE ~ (n < at)
    <3>1. n \in 1 .. Len(a) + Len(b) /\ n \notin 1 .. Len(a)
      BY <1>1, <1>14, <2>2
    <3>2. n - Len(a) \in 1 .. Len(b) /\ t[n] = b[n - Len(a)]
      BY <1>13, <3>1
    <3>3. n - Len(a) \in 1 .. Len(s) - at /\ (n - Len(a)) + at = n + 1
      BY <1>1, <1>14, <3>2
    <3>4. b[n - Len(a)] = s[(n - Len(a)) + at]
      BY <1>14, <3>3
    <3> QED BY <2>2, <3>2, <3>3, <3>4
  <2> QED BY <2>1, <2>2
<1>7. \A n \in DOMAIN t : \E r \in DOMAIN s \ {at} : t[n] = s[r] /\ r = IF n < at THEN n ELSE n + 1
  BY <1>1, <1>5, <1>6
<1>8. \A r \in DOMAIN s \ {at} : \E n \in DOMAIN t : t[n] = s[r]
  <2> SUFFICES ASSUME NEW r \in DOMAIN s \ {at} PROVE \E n \in DOMAIN t : t[n] = s[r]
    OBVIOUS
  <2>1. CASE r < at
    <3>1. r \in DOMAIN t /\ r \in 1 .. Len(s) - 1
      BY <1>1, <1>5, <2>1
    <3> QED BY <1>6, <2>1, <3>1
  <2>2. CASE ~ (r < at)
    <3>1. r - 1 \in DOMAIN t /\ ~ (r - 1 < at) /\ (r - 1) + 1 = r
      BY <1>1, <1>5, <2>2
    <3> QED BY <1>5, <1>6, <3>1
  <2> QED BY <2>1, <2>2
<1>9. Fits(t)
  <2> SUFFICES ASSUME NEW m \in DOMAIN t, NEW n \in DOMAIN t, t[m].on = t[n].on PROVE m = n
    BY <1>5 DEF Fits
  <2>1. PICK r \in DOMAIN s \ {at} : t[m] = s[r] /\ r = IF m < at THEN m ELSE m + 1
    BY <1>7
  <2>2. PICK o \in DOMAIN s \ {at} : t[n] = s[o] /\ o = IF n < at THEN n ELSE n + 1
    BY <1>7
  <2>3. r = o
    BY <2>1, <2>2 DEF Fits
  <2> QED BY <1>1, <1>5, <2>1, <2>2, <2>3
<1>10. \A n \in DOMAIN t : t[n].on # s[at].on
  BY <1>7 DEF Fits
<1>11. ASSUME NEW k, k # s[at].on PROVE QuantityOn(t, k) = QuantityOn(s, k)
  <2>1. \A r \in DOMAIN s : s[r].on = k => \E n \in DOMAIN t : t[n] = s[r]
    BY <1>8, <1>11
  <2>2. \A n \in DOMAIN t : t[n].on = k => \E r \in DOMAIN s : s[r].on = k
    BY <1>7
  <2> QED BY <1>9, <2>1, <2>2, SameOn
<1> QED BY <1>9, <1>10, <1>11, NoRowOn

\* Rewriting the quantity of one changes nothing else.
LEMMA SetRow ==
  ASSUME NEW s, Fits(s), NEW at \in DOMAIN s, NEW m \in Nat \ {0}, NEW t \in Seq(Allocation),
         DOMAIN t = DOMAIN s, \A r \in DOMAIN s \ {at} : t[r] = s[r],
         t[at].on = s[at].on /\ t[at].quantity = m
  PROVE  /\ Fits(t) /\ QuantityOn(t, s[at].on) = m
         /\ \A k : k # s[at].on => QuantityOn(t, k) = QuantityOn(s, k)
<1>1. \A r \in DOMAIN s : t[r].on = s[r].on
  OBVIOUS
<1>2. Fits(t)
  BY <1>1 DEF Fits
<1>3. QuantityOn(t, t[at].on) = t[at].quantity
  BY <1>2, RowOn
<1>4. ASSUME NEW k, k # s[at].on PROVE QuantityOn(t, k) = QuantityOn(s, k)
  <2>1. \A r \in DOMAIN s : s[r].on = k => t[r] = s[r]
    BY <1>4
  <2>2. \A q \in DOMAIN t : t[q].on = k => s[q].on = k
    BY <1>1
  <2> QED BY <1>2, <2>1, <2>2, SameOn
<1> QED BY <1>2, <1>3, <1>4

\* A new allocation goes last.
LEMMA AddRow ==
  ASSUME NEW s, Fits(s), NEW k, QuantityOn(s, k) = 0, NEW t \in Seq(Allocation), NEW last,
         last \notin DOMAIN s, DOMAIN t = DOMAIN s \cup {last}, \A r \in DOMAIN s : t[r] = s[r],
         t[last].on = k
  PROVE  /\ Fits(t) /\ QuantityOn(t, k) = t[last].quantity
         /\ \A j : j # k => QuantityOn(t, j) = QuantityOn(s, j)
<1>1. \A n \in DOMAIN s : s[n].on # k
  BY QuantityIs
<1>2. Fits(t)
  BY <1>1 DEF Fits
<1>3. QuantityOn(t, t[last].on) = t[last].quantity
  BY <1>2, RowOn
<1>4. ASSUME NEW j, j # k PROVE QuantityOn(t, j) = QuantityOn(s, j)
  <2>1. \A r \in DOMAIN s : s[r].on = j => \E q \in DOMAIN t : t[q] = s[r]
    OBVIOUS
  <2>2. \A q \in DOMAIN t : t[q].on = j => \E r \in DOMAIN s : s[r].on = j
    BY <1>4
  <2> QED BY <1>2, <2>1, <2>2, SameOn
<1> QED BY <1>2, <1>3, <1>4

\* Lowering an allocation, or deleting it when emptied, takes the pieces from one
\* Check and leaves the rest, though it moves the later rows one place down.
LEMMA LowerFits ==
  ASSUME NEW s, Fits(s), NEW k \in Checks, NEW m \in Nat, m <= QuantityOn(s, k),
         NEW t, t = Lower(s, k, m)
  PROVE  /\ Fits(t) /\ QuantityOn(t, k) = QuantityOn(s, k) - m
         /\ \A j : j # k => QuantityOn(t, j) = QuantityOn(s, j)
<1>0. QuantityOn(s, k) \in Nat
  BY QuantityIs
<1>1. CASE m = 0
  <2>1. t = s
    BY <1>1 DEF Lower
  <2> QED BY <1>0, <1>1, <2>1
<1>2. CASE m # 0
  <2> DEFINE source == CHOOSE r \in On(s, k) : TRUE
  <2>1. source \in On(s, k)
    <3>1. QuantityOn(s, k) # 0
      BY <1>0, <1>2
    <3> QED BY <3>1, QuantityIs DEF On
  <2>2. source \in DOMAIN s /\ s[source].on = k /\ s[source].quantity = QuantityOn(s, k)
    BY <2>1, QuantityIs
  <2>3. t = IF m = s[source].quantity THEN RemoveAt(s, source)
            ELSE [s EXCEPT ![source].quantity = @ - m]
    BY <1>2 DEF Lower
  <2>4. PICK at \in DOMAIN s : at = source
    BY <2>2
  <2> HIDE DEF source
  <2>5. CASE m = s[at].quantity
    <3>1. t = RemoveAt(s, at)
      BY <2>3, <2>4, <2>5
    <3> QED BY <1>0, <2>2, <2>4, <2>5, <3>1, RemoveRow
  <2>6. CASE m # s[at].quantity
    <3> DEFINE n == QuantityOn(s, k) - m
    <3>1. n \in Nat \ {0}
      BY <1>0, <2>2, <2>4, <2>6
    <3>2. s[at] \in Allocation /\ s \in Seq(Allocation)
      BY DEF Fits
    <3>3. t = [s EXCEPT ![at] = [s[at] EXCEPT !.quantity = n]]
      BY <2>2, <2>3, <2>4, <2>6
    <3> HIDE DEF n
    <3>4. PICK row : row = [s[at] EXCEPT !.quantity = n]
      OBVIOUS
    <3>5. row \in Allocation /\ row.on = k /\ row.quantity = n
      BY <2>2, <2>4, <3>1, <3>2, <3>4 DEF Allocation
    <3>6. t \in Seq(Allocation) /\ DOMAIN t = DOMAIN s /\ t[at] = row
          /\ \A r \in DOMAIN s \ {at} : t[r] = s[r]
      BY <3>2, <3>3, <3>4, <3>5
    <3>7. /\ Fits(t) /\ QuantityOn(t, s[at].on) = n
          /\ \A j : j # s[at].on => QuantityOn(t, j) = QuantityOn(s, j)
      BY <2>2, <2>4, <3>1, <3>5, <3>6, SetRow
    <3> QED BY <2>2, <2>4, <3>7 DEF n
  <2> QED BY <2>5, <2>6
<1> QED BY <1>1, <1>2

\* Raising an allocation, or creating it, adds the pieces to one Check.
LEMMA RaiseFits ==
  ASSUME NEW s, Fits(s), NEW k \in Checks, NEW m \in Nat, NEW t, t = Raise(s, k, m)
  PROVE  /\ Fits(t) /\ QuantityOn(t, k) = QuantityOn(s, k) + m
         /\ \A j : j # k => QuantityOn(t, j) = QuantityOn(s, j)
<1>0. QuantityOn(s, k) \in Nat
  BY QuantityIs
<1>1. CASE m = 0
  <2>1. t = s
    BY <1>1 DEF Raise
  <2> QED BY <1>0, <1>1, <2>1
<1>2. CASE m # 0 /\ QuantityOn(s, k) = 0
  <2>1. PICK row : row = [on |-> k, quantity |-> m]
    OBVIOUS
  <2>2. row \in Allocation /\ row.on = k /\ row.quantity = m /\ QuantityOn(s, k) + m = m
    BY <1>2, <2>1 DEF Allocation
  <2>3. t = Append(s, row)
    BY <1>2, <2>1 DEF Raise
  <2>4. s \in Seq(Allocation) /\ Len(s) \in Nat /\ DOMAIN s = 1 .. Len(s)
    BY DEF Fits
  <2>5. /\ t \in Seq(Allocation) /\ Len(t) = Len(s) + 1
        /\ \A n \in 1 .. Len(s) : t[n] = s[n]
        /\ t[Len(s) + 1] = row
    BY <2>2, <2>3, <2>4
  <2>6. DOMAIN t = 1 .. Len(s) + 1
    BY <2>5
  <2>7. DOMAIN t = DOMAIN s \cup {Len(s) + 1} /\ Len(s) + 1 \notin DOMAIN s
    BY <2>4, <2>6
  <2>8. /\ Fits(t) /\ QuantityOn(t, k) = t[Len(s) + 1].quantity
        /\ \A j : j # k => QuantityOn(t, j) = QuantityOn(s, j)
    BY <1>2, <2>2, <2>4, <2>5, <2>7, AddRow
  <2> QED BY <2>2, <2>5, <2>8
<1>3. CASE m # 0 /\ QuantityOn(s, k) # 0
  <2>1. PICK at \in DOMAIN s : s[at].on = k /\ s[at].quantity = QuantityOn(s, k)
    BY <1>3, QuantityIs DEF On
  <2>2. t = [r \in DOMAIN s |-> IF s[r].on = k THEN [s[r] EXCEPT !.quantity = @ + m] ELSE s[r]]
    BY <1>3 DEF Raise
  <2> DEFINE n == QuantityOn(s, k) + m
  <2>3. n \in Nat \ {0}
    BY <1>0, <1>3
  <2>4. s \in Seq(Allocation) /\ s[at] \in Allocation /\ DOMAIN s = 1 .. Len(s) /\ Len(s) \in Nat
    BY DEF Fits
  <2>5. PICK row : row = [s[at] EXCEPT !.quantity = n]
    OBVIOUS
  <2>6. t[at] = row
    BY <2>1, <2>2, <2>5
  <2> HIDE DEF n
  <2>7. row \in Allocation /\ row.on = k /\ row.quantity = n
    BY <2>1, <2>3, <2>4, <2>5 DEF Allocation
  <2>8. \A r \in DOMAIN s \ {at} : t[r] = s[r]
    BY <2>1, <2>2 DEF Fits
  <2>9. t \in Seq(Allocation) /\ DOMAIN t = DOMAIN s
    <3>1. t = [r \in 1 .. Len(s) |-> t[r]]
      BY <2>2, <2>4
    <3>2. \A r \in 1 .. Len(s) : t[r] \in Allocation
      BY <2>4, <2>6, <2>7, <2>8
    <3>3. [r \in 1 .. Len(s) |-> t[r]] \in Seq(Allocation)
      BY <2>4, <3>2
    <3> QED BY <2>4, <3>1, <3>3
  <2>10. /\ Fits(t) /\ QuantityOn(t, s[at].on) = n
         /\ \A j : j # s[at].on => QuantityOn(t, j) = QuantityOn(s, j)
    BY <2>1, <2>3, <2>6, <2>7, <2>8, <2>9, SetRow
  <2> QED BY <2>1, <2>10 DEF n
<1> QED BY <1>1, <1>2, <1>3

\* Pointed at a Check that had none, the allocation keeps its place.
LEMMA RedirectFits ==
  ASSUME NEW s, Fits(s), NEW from \in Checks, NEW to \in Checks, from # to,
         QuantityOn(s, to) = 0, NEW t, t = Redirect(s, from, to)
  PROVE  /\ Fits(t) /\ QuantityOn(t, to) = QuantityOn(s, from) /\ QuantityOn(t, from) = 0
         /\ \A j : j # from /\ j # to => QuantityOn(t, j) = QuantityOn(s, j)
<1>1. s \in Seq(Allocation) /\ DOMAIN s = 1 .. Len(s) /\ Len(s) \in Nat
  BY DEF Fits
<1>2. t = [r \in DOMAIN s |-> IF s[r].on = from THEN [s[r] EXCEPT !.on = to] ELSE s[r]]
  BY DEF Redirect
<1>3. \A r \in DOMAIN s : s[r] \in Allocation /\ s[r].on # to
  BY <1>1, QuantityIs
<1>4. ASSUME NEW r \in DOMAIN s
      PROVE  /\ t[r] \in Allocation /\ t[r].quantity = s[r].quantity
             /\ t[r].on = IF s[r].on = from THEN to ELSE s[r].on
             /\ s[r].on # from => t[r] = s[r]
  <2>1. PICK row : row = s[r]
    OBVIOUS
  <2>2. t[r] = IF row.on = from THEN [row EXCEPT !.on = to] ELSE row
    BY <1>2, <2>1
  <2>3. row \in Allocation
    BY <1>3, <2>1
  <2>4. PICK next : next = [row EXCEPT !.on = to]
    OBVIOUS
  <2>5. next \in Allocation /\ next.quantity = row.quantity /\ next.on = to
    BY <2>3, <2>4 DEF Allocation
  <2> QED BY <2>1, <2>2, <2>3, <2>4, <2>5
<1>5. DOMAIN t = DOMAIN s
  BY <1>2
<1>6. t \in Seq(Allocation)
  <2>1. t = [r \in 1 .. Len(s) |-> t[r]]
    BY <1>1, <1>2
  <2>2. [r \in 1 .. Len(s) |-> t[r]] \in Seq(Allocation)
    BY <1>1, <1>4
  <2> QED BY <2>1, <2>2
<1>7. Fits(t)
  <2> SUFFICES ASSUME NEW q \in DOMAIN s, NEW r \in DOMAIN s, t[q].on = t[r].on PROVE q = r
    BY <1>5, <1>6 DEF Fits
  <2>1. s[q].on = s[r].on
    BY <1>3, <1>4
  <2> QED BY <2>1 DEF Fits
<1>8. ASSUME NEW j, j # from, j # to PROVE QuantityOn(t, j) = QuantityOn(s, j)
  <2>1. \A r \in DOMAIN s : s[r].on = j => \E q \in DOMAIN t : t[q] = s[r]
    BY <1>4, <1>5, <1>8
  <2>2. \A q \in DOMAIN t : t[q].on = j => \E r \in DOMAIN s : s[r].on = j
    BY <1>4, <1>5, <1>8
  <2> QED BY <1>7, <2>1, <2>2, SameOn
<1>9. QuantityOn(t, from) = 0
  <2>1. \A q \in DOMAIN t : t[q].on # from
    BY <1>4, <1>5
  <2> QED BY <2>1, NoRowOn
<1>10. QuantityOn(t, to) = QuantityOn(s, from)
  <2>1. CASE \E r \in DOMAIN s : s[r].on = from
    <3>1. PICK r \in DOMAIN s : s[r].on = from
      BY <2>1
    <3>2. QuantityOn(s, s[r].on) = s[r].quantity
      BY RowOn
    <3>3. QuantityOn(t, t[r].on) = t[r].quantity
      BY <1>5, <1>7, RowOn
    <3> QED BY <1>4, <3>1, <3>2, <3>3
  <2>2. CASE ~ \E r \in DOMAIN s : s[r].on = from
    <3>1. \A q \in DOMAIN t : t[q].on # to
      BY <1>3, <1>4, <1>5, <2>2
    <3> QED BY <2>2, <3>1, NoRowOn
  <2> QED BY <2>1, <2>2
<1> QED BY <1>7, <1>8, <1>9, <1>10

\* m pieces of an item changed Check.
Shifted(s, t, from, to, m) ==
    /\ Fits(t)
    /\ QuantityOn(t, from) = QuantityOn(s, from) - m
    /\ QuantityOn(t, to) = QuantityOn(s, to) + m
    /\ \A j : j # from /\ j # to => QuantityOn(t, j) = QuantityOn(s, j)

\* A Split moves the pieces it names and no other.
LEMMA MoveShifts ==
  ASSUME NEW s, Fits(s), NEW from \in Checks, NEW to \in Checks, from # to,
         NEW m \in Nat, m <= QuantityOn(s, from)
  PROVE  Shifted(s, Raise(Lower(s, from, m), to, m), from, to, m)
<1>1. PICK t : t = Lower(s, from, m)
  OBVIOUS
<1>2. /\ Fits(t) /\ QuantityOn(t, from) = QuantityOn(s, from) - m
      /\ \A j : j # from => QuantityOn(t, j) = QuantityOn(s, j)
  BY <1>1, LowerFits
<1>3. PICK v : v = Raise(t, to, m)
  OBVIOUS
<1>4. /\ Fits(v) /\ QuantityOn(v, to) = QuantityOn(t, to) + m
      /\ \A j : j # to => QuantityOn(v, j) = QuantityOn(t, j)
  BY <1>2, <1>3, RaiseFits
<1>5. Shifted(s, v, from, to, m)
  BY <1>2, <1>4 DEF Shifted
<1> QED BY <1>1, <1>3, <1>5

\* A Merge moves all the absorbed Check has of an item, whether its row is
\* redirected or added to the row of the surviving Check.
LEMMA MergeShifts ==
  ASSUME NEW s, Fits(s), NEW surviving \in Checks, NEW absorbed \in Checks, surviving # absorbed
  PROVE  Shifted(s, MergeAllocations(s, surviving, absorbed), absorbed, surviving, QuantityOn(s, absorbed))
<1>1. QuantityOn(s, absorbed) \in Nat
  BY QuantityIs
<1>2. CASE QuantityOn(s, surviving) = 0
  <2>1. PICK t : t = Redirect(s, absorbed, surviving)
    OBVIOUS
  <2>2. /\ Fits(t) /\ QuantityOn(t, surviving) = QuantityOn(s, absorbed) /\ QuantityOn(t, absorbed) = 0
        /\ \A j : j # absorbed /\ j # surviving => QuantityOn(t, j) = QuantityOn(s, j)
    BY <1>2, <2>1, RedirectFits
  <2>3. Shifted(s, t, absorbed, surviving, QuantityOn(s, absorbed))
    BY <1>1, <1>2, <2>2 DEF Shifted
  <2> QED BY <1>2, <2>1, <2>3 DEF MergeAllocations
<1>3. CASE QuantityOn(s, surviving) # 0
  BY <1>1, <1>3, MoveShifts DEF MergeAllocations
<1> QED BY <1>2, <1>3

-----------------------------------------------------------------------------
(* What an item has on all the Checks.                                     *)

Whole(s) == Total([k \in Checks |-> QuantityOn(s, k)], Checks)

\* The pieces of the rows in order of creation and by Check have the same total.
LEMMA WholeIsParts ==
  ASSUME NEW s, Fits(s)
  PROVE  Total(Pieces(s), DOMAIN s) = Whole(s)
<1> DEFINE f == Pieces(s)
           S == DOMAIN s
           h == [r \in S |-> s[r].on]
<1>1. /\ IsFiniteSet(S) /\ IsFiniteSet(Checks)
      /\ \A r \in S : h[r] \in Checks /\ f[r] \in Int
  <2>1. s \in Seq(Allocation) /\ S = 1 .. Len(s) /\ Len(s) \in Nat
    BY DEF Fits
  <2>2. \A r \in S : h[r] \in Checks /\ f[r] \in Int
    BY RowOn DEF Pieces
  <2> QED BY <2>1, <2>2, FS_Interval, FiniteAssumption
<1>2. \A k : On(s, k) = {r \in S : h[r] = k}
  BY DEF On
<1>3. [k \in Checks |-> QuantityOn(s, k)] = [k \in Checks |-> Total(f, {r \in S : h[r] = k})]
  BY <1>2 DEF QuantityOn
<1> HIDE DEF f, S, h
<1>4. Total(f, S) = Total([k \in Checks |-> Total(f, {r \in S : h[r] = k})], Checks)
  BY <1>1, TotalPartition
<1> QED BY <1>3, <1>4 DEF Whole, f, S

\* Nothing on any Check is no allocation.
LEMMA WholeIsNat ==
  ASSUME NEW s, Fits(s)
  PROVE  /\ Whole(s) \in Nat
         /\ Whole(s) = 0 <=> s = <<>>
         /\ \A k \in Checks : QuantityOn(s, k) <= Whole(s)
<1> DEFINE f == [k \in Checks |-> QuantityOn(s, k)]
<1>1. \A k \in Checks : f[k] \in Nat /\ f[k] = QuantityOn(s, k)
  BY QuantityIs
<1>2. Whole(s) = Total(f, Checks)
  BY DEF Whole
<1> HIDE DEF f
<1>3. Total(f, Checks) \in Nat /\ \A k \in Checks : f[k] <= Total(f, Checks)
  BY <1>1, FiniteAssumption, TotalNat, TotalTerm
<1>4. ASSUME s # <<>> PROVE Whole(s) # 0
  <2>1. 1 \in DOMAIN s
    BY <1>4 DEF Fits
  <2>2. s[1].on \in Checks /\ QuantityOn(s, s[1].on) \in Nat \ {0}
    BY <2>1, RowOn
  <2> QED BY <1>1, <1>2, <1>3, <2>2
<1>5. ASSUME s = <<>> PROVE Whole(s) = 0
  <2>1. \A k \in Checks : f[k] = 0
    BY <1>1, <1>5, NoRowOn
  <2> QED BY <1>2, <2>1, FiniteAssumption, TotalZero
<1> QED BY <1>1, <1>2, <1>3, <1>4, <1>5

\* Moving pieces between Checks keeps their number.
LEMMA ShiftKeepsWhole ==
  ASSUME NEW s, Fits(s), NEW from \in Checks, NEW to \in Checks, from # to, NEW m \in Nat,
         NEW t, Shifted(s, t, from, to, m)
  PROVE  Whole(t) = Whole(s) /\ (t = <<>> <=> s = <<>>)
<1> DEFINE f == [k \in Checks |-> QuantityOn(s, k)]
           g == [k \in Checks |-> IF k = from THEN QuantityOn(t, k) ELSE QuantityOn(s, k)]
           h == [k \in Checks |-> QuantityOn(t, k)]
<1>1. Fits(t)
  BY DEF Shifted
<1>2. \A k \in Checks : QuantityOn(s, k) \in Nat /\ QuantityOn(t, k) \in Nat
  BY <1>1, QuantityIs
<1>3. /\ \A k \in Checks : f[k] \in Int /\ g[k] \in Int /\ h[k] \in Int
      /\ \A k \in Checks \ {from} : g[k] = f[k]
      /\ \A k \in Checks \ {to} : h[k] = g[k]
      /\ g[from] - f[from] = 0 - m /\ h[to] - g[to] = m
  BY <1>2 DEF Shifted
<1>4. Whole(s) = Total(f, Checks) /\ Whole(t) = Total(h, Checks)
  BY DEF Whole
<1> HIDE DEF f, g, h
<1>5. Total(g, Checks) = Total(f, Checks) + (g[from] - f[from])
  BY <1>3, FiniteAssumption, TotalUpdate
<1>6. Total(h, Checks) = Total(g, Checks) + (h[to] - g[to])
  BY <1>3, FiniteAssumption, TotalUpdate
<1>7. Total(f, Checks) \in Int
  BY <1>3, FiniteAssumption, TotalInt
<1>8. Whole(t) = Whole(s)
  BY <1>3, <1>4, <1>5, <1>6, <1>7
<1> QED BY <1>1, <1>8, WholeIsNat

-----------------------------------------------------------------------------
(* What a Check is charged.                                                *)

\* An item has finitely many units.
LEMMA UnitsFinite == IsFiniteSet(Units)
<1> DEFINE F == {{i} \X Numbers(i) : i \in Items}
<1>1. \A i \in Items : IsFiniteSet(Numbers(i))
  BY NumbersInNat, FS_Interval DEF Numbers
<1>2. \A i \in Items : IsFiniteSet({i} \X Numbers(i))
  BY <1>1, FS_Singleton, FS_Product
<1>3. IsFiniteSet(F)
  <2> DEFINE h == [i \in Items |-> {i} \X Numbers(i)]
  <2>1. h \in Surjection(Items, F)
    BY DEF Surjection
  <2> HIDE DEF h, F
  <2> QED BY <2>1, FiniteAssumption, FS_Surjection
<1>4. \A S \in F : IsFiniteSet(S)
  BY <1>2
<1> HIDE DEF F
<1>5. IsFiniteSet(UNION F)
  BY <1>3, <1>4, FS_UNION
<1> QED BY <1>5 DEF Units, F

Cost == [u \in Units |-> Price[u[1]]]

\* The price of some units is a sum of one fixed cost per unit.
LEMMA PricesAreCosts ==
  ASSUME NEW S \in SUBSET Units
  PROVE  /\ IsFiniteSet(S) /\ Prices(S) = Total(Cost, S) /\ Prices(S) \in Nat
         /\ \A u \in S : Cost[u] \in Nat
<1> DEFINE f == [u \in S |-> Price[u[1]]]
<1>1. IsFiniteSet(S)
  BY UnitsFinite, FS_Subset
<1>2. \A u \in S : f[u] = Cost[u] /\ Cost[u] \in Nat
  BY UnitParts, PriceAssumption DEF Cost
<1>3. Prices(S) = Total(f, S)
  BY DEF Prices
<1> HIDE DEF f
<1>4. Total(f, S) = Total(Cost, S) /\ Total(Cost, S) \in Nat
  BY <1>1, <1>2, TotalCongruence, TotalNat
<1> QED BY <1>1, <1>2, <1>3, <1>4

\* The prices of disjoint units add up.
LEMMA PricesAdd ==
  ASSUME NEW S \in SUBSET Units, NEW T \in SUBSET Units, S \cap T = {}
  PROVE  Prices(S \cup T) = Prices(S) + Prices(T)
<1>1. Total(Cost, S \cup T) = Total(Cost, S) + Total(Cost, T)
  BY PricesAreCosts, TotalUnion
<1>2. S \cup T \in SUBSET Units
  OBVIOUS
<1> QED BY <1>1, <1>2, PricesAreCosts

\* No units cost nothing.
LEMMA PricesOfNone == Prices({}) = 0
BY TotalEmpty DEF Prices

\* What a table of allocations charges one Check.
Base(A, k) == Total([i \in Items |-> Price[i] * QuantityOn(A[i], k)], Items)

\* What a Check is charged before adjustments is a natural number.
LEMMA BaseIsNat ==
  ASSUME NEW A, \A i \in Items : Fits(A[i]), NEW k
  PROVE  /\ Base(A, k) \in Nat
         /\ \A i \in Items : Price[i] * QuantityOn(A[i], k) \in Nat
<1> DEFINE f == [i \in Items |-> Price[i] * QuantityOn(A[i], k)]
<1>1. ASSUME NEW i \in Items PROVE Price[i] * QuantityOn(A[i], k) \in Nat
  <2>1. Price[i] \in Nat /\ QuantityOn(A[i], k) \in Nat
    BY PriceAssumption, QuantityIs
  <2>2. PICK p \in Nat : p = Price[i]
    BY <2>1
  <2>3. PICK q \in Nat : q = QuantityOn(A[i], k)
    BY <2>1
  <2>4. p * q \in Nat
    OBVIOUS
  <2> QED BY <2>2, <2>3, <2>4
<1>2. \A i \in Items : f[i] \in Nat
  BY <1>1
<1> HIDE DEF f
<1>3. Total(f, Items) \in Nat
  BY <1>2, FiniteAssumption, TotalNat
<1> QED BY <1>1, <1>3 DEF Base, f

\* A Check that keeps its pieces keeps its base charge.
LEMMA SameBase ==
  ASSUME NEW A, NEW B, NEW k, \A i \in Items : QuantityOn(B[i], k) = QuantityOn(A[i], k)
  PROVE  Base(B, k) = Base(A, k)
BY DEF Base

\* more[i] pieces of each item come to one Check, at their prices.
Grows(A, B, k, more, prices) ==
    \A i \in Items :
        /\ Fits(A[i]) /\ Fits(B[i]) /\ more[i] \in Nat
        /\ QuantityOn(B[i], k) = QuantityOn(A[i], k) + more[i]
        /\ prices[i] = Price[i] * more[i]

\* A Check that gains pieces is charged their prices.
LEMMA BaseGrows ==
  ASSUME NEW A, NEW B, NEW k, NEW more, NEW prices, Grows(A, B, k, more, prices)
  PROVE  Base(B, k) = Base(A, k) + Total(prices, Items) /\ Total(prices, Items) \in Nat
<1> DEFINE f == [i \in Items |-> Price[i] * QuantityOn(A[i], k)]
           h == [i \in Items |-> Price[i] * QuantityOn(B[i], k)]
<1>1. ASSUME NEW i \in Items PROVE f[i] \in Int /\ prices[i] \in Nat /\ h[i] = f[i] + prices[i]
  <2>0. /\ Fits(A[i]) /\ more[i] \in Nat /\ prices[i] = Price[i] * more[i]
        /\ QuantityOn(B[i], k) = QuantityOn(A[i], k) + more[i]
    BY DEF Grows
  <2>1. PICK p \in Nat : p = Price[i]
    BY PriceAssumption
  <2>2. PICK q \in Nat : q = QuantityOn(A[i], k)
    BY <2>0, QuantityIs
  <2>3. PICK m \in Nat : m = more[i]
    BY <2>0
  <2>4. p * q \in Nat /\ p * m \in Nat /\ p * (q + m) = p * q + p * m
    OBVIOUS
  <2>5. f[i] = p * q /\ prices[i] = p * m /\ h[i] = p * (q + m)
    BY <2>0, <2>1, <2>2, <2>3
  <2> HIDE DEF f, h
  <2> QED BY <2>4, <2>5
<1>2. Base(A, k) = Total(f, Items) /\ Base(B, k) = Total(h, Items)
  BY DEF Base
<1>3. /\ Total(h, Items) = Total(f, Items) + Total(prices, Items)
      /\ Total(prices, Items) \in Nat
  <2> HIDE DEF f, h
  <2>1. \A i \in Items : f[i] \in Int /\ prices[i] \in Int /\ h[i] = f[i] + prices[i]
    BY <1>1
  <2>2. \A i \in Items : prices[i] \in Nat
    BY <1>1
  <2>3. Total(prices, Items) \in Nat
    BY <2>2, FiniteAssumption, TotalNat
  <2> QED BY <2>1, <2>3, FiniteAssumption, TotalPlus
<1> QED BY <1>2, <1>3

\* What is shifted leaves the one Check's charge for the other's.
LEMMA ShiftedBase ==
  ASSUME NEW A, NEW B, NEW from \in Checks, NEW to \in Checks, from # to, NEW move,
         \A i \in Items : move[i] \in Nat /\ Fits(A[i]) /\ Shifted(A[i], B[i], from, to, move[i]),
         NEW prices, prices = [i \in Items |-> Price[i] * move[i]]
  PROVE  /\ Total(prices, Items) \in Nat
         /\ Base(A, from) = Base(B, from) + Total(prices, Items)
         /\ Base(B, to) = Base(A, to) + Total(prices, Items)
<1>1. \A i \in Items : /\ Fits(A[i]) /\ Fits(B[i]) /\ move[i] \in Nat
                       /\ QuantityOn(B[i], from) = QuantityOn(A[i], from) - move[i]
                       /\ QuantityOn(B[i], to) = QuantityOn(A[i], to) + move[i]
                       /\ \A k : k # from /\ k # to => QuantityOn(B[i], k) = QuantityOn(A[i], k)
  BY DEF Shifted
<1>2. \A i \in Items : QuantityOn(A[i], from) \in Nat /\ QuantityOn(B[i], from) \in Nat
  BY <1>1, QuantityIs
<1>3. \A i \in Items : QuantityOn(A[i], from) = QuantityOn(B[i], from) + move[i]
  BY <1>1, <1>2
<1>4. Grows(B, A, from, move, prices) /\ Grows(A, B, to, move, prices)
  BY <1>1, <1>3 DEF Grows
<1>5. Base(A, from) = Base(B, from) + Total(prices, Items) /\ Total(prices, Items) \in Nat
  BY <1>4, BaseGrows
<1>6. Base(B, to) = Base(A, to) + Total(prices, Items)
  BY <1>4, BaseGrows
<1> QED BY <1>5, <1>6

-----------------------------------------------------------------------------
(* Allocations, charges and adjustments, together.                         *)

AllocationsGood ==
    /\ alloc = [i \in Items |-> alloc[i]]
    /\ \A i \in Items : Fits(alloc[i]) /\ Whole(alloc[i]) \in {0, Quantity[i]}
    /\ \A i \in Items : \A k \in Checks :
          QuantityOn(alloc[i], k) # 0 => check[k].state \in {"OPEN", "SETTLED"}

\* A Check with the rules it obeys alone.
CheckGood(row) ==
    /\ row \in CheckRow
    /\ row.state \in {"ABSENT", "MERGED"} => row.charge = 0 /\ row.received = 0
    /\ ~row.paid => row.received = 0
    /\ row.state = "OPEN" => row.received <= row.charge
    /\ row.state = "SETTLED" => row.charge <= row.received

LiveOn(k) == AdjustedOn(k, "LIVE_CHECK")
ChargesGood ==
    /\ check = [k \in Checks |-> check[k]]
    /\ \A k \in Checks :
          /\ CheckGood(check[k])
          /\ check[k].charge + Prices(LiveOn(k)) = Base(alloc, k)

\* Only a closed sale has adjustments that are not live.
AdjustmentsGood ==
    \A u \in Units : unit[u].adjusted # "NONE" =>
        /\ unit[u].on \in Checks
        /\ QuantityOn(alloc[u[1]], unit[u].on) # 0
        /\ unit[u].adjusted = "LIVE_CHECK" \/ session = "CLOSED"

SquareWhenClosed ==
    session = "CLOSED" =>
        Committed = Submitted /\ \A k \in Checks : check[k].received = check[k].charge

MoneyGood == AllocationsGood /\ ChargesGood /\ AdjustmentsGood /\ SquareWhenClosed

\* The live adjustments of a Check are of units.
LEMMA LivePart == \A k : LiveOn(k) \in SUBSET Units
BY DEF LiveOn, AdjustedOn

\* A step that changes no allocation, no charge and no adjustment.
LEMMA MoneyStands ==
  ASSUME MoneyGood, UNCHANGED <<session, check, alloc>>,
         \A u \in Units : /\ unit'[u].adjusted = unit[u].adjusted
                          /\ unit[u].adjusted # "NONE" => unit'[u].on = unit[u].on,
         session = "CLOSED" => \A u \in Units : unit'[u].state = "NONE" <=> unit[u].state = "NONE"
  PROVE  MoneyGood'
<1>1. AllocationsGood'
  BY DEF MoneyGood, AllocationsGood
<1>0. Units' = Units
  BY DEF Units, Numbers
<1>00. PICK after : after = unit'
  OBVIOUS
<1>6. \A u \in Units : /\ after[u].adjusted = unit[u].adjusted
                       /\ unit[u].adjusted # "NONE" => after[u].on = unit[u].on
  BY <1>00
<1>2. \A k : LiveOn(k)' = LiveOn(k)
  <2> SUFFICES ASSUME NEW k PROVE LiveOn(k)' = LiveOn(k)
    OBVIOUS
  <2>1. LiveOn(k)' = {u \in Units : after[u].adjusted = "LIVE_CHECK" /\ after[u].on = k}
    BY <1>0, <1>00 DEF LiveOn, AdjustedOn
  <2>2. LiveOn(k) = {u \in Units : unit[u].adjusted = "LIVE_CHECK" /\ unit[u].on = k}
    BY DEF LiveOn, AdjustedOn
  <2> QED BY <1>6, <2>1, <2>2
<1>3. ChargesGood'
  BY <1>2 DEF MoneyGood, ChargesGood
<1>4. AdjustmentsGood'
  <2> SUFFICES ASSUME NEW u \in Units, after[u].adjusted # "NONE"
               PROVE  /\ after[u].on \in Checks
                      /\ QuantityOn(alloc[u[1]], after[u].on) # 0
                      /\ after[u].adjusted = "LIVE_CHECK" \/ session = "CLOSED"
    BY <1>0, <1>00 DEF AdjustmentsGood
  <2> QED BY <1>6 DEF MoneyGood, AdjustmentsGood
<1>5. SquareWhenClosed'
  <2> SUFFICES ASSUME session = "CLOSED"
               PROVE  Committed' = Submitted' /\ \A k \in Checks : check[k].received = check[k].charge
    BY DEF SquareWhenClosed
  <2>1. \A i \in Items : <<i, 1>> \in Units
    BY UnitParts, NumbersInNat DEF Numbers
  <2>2. Submitted' = Submitted
    BY <2>1 DEF Submitted
  <2>3. Committed' = Committed
    BY DEF Committed
  <2> QED BY <2>2, <2>3 DEF MoneyGood, SquareWhenClosed
<1> QED BY <1>1, <1>3, <1>4, <1>5 DEF MoneyGood

\* Before the first Order nothing is allocated or charged.
LEMMA InitMoney == Init => MoneyGood
<1> SUFFICES ASSUME Init PROVE MoneyGood
  OBVIOUS
<1>1. \A i \in Items : alloc[i] = <<>>
  BY DEF Init
<1>2. Fits(<<>>)
  BY DEF Fits
<1>3. Whole(<<>>) = 0 /\ \A k : QuantityOn(<<>>, k) = 0
  BY <1>2, WholeIsNat, QuantityIs
<1>4. AllocationsGood
  BY <1>1, <1>2, <1>3 DEF AllocationsGood, Init
<1>5. \A k : Base(alloc, k) = 0
  <2> SUFFICES ASSUME NEW k PROVE Base(alloc, k) = 0
    OBVIOUS
  <2> DEFINE f == [i \in Items |-> Price[i] * QuantityOn(alloc[i], k)]
  <2>1. \A i \in Items : f[i] = 0
    BY <1>1, <1>3, PriceAssumption
  <2> HIDE DEF f
  <2>2. Total(f, Items) = 0
    BY <2>1, FiniteAssumption, TotalZero
  <2> QED BY <2>2 DEF Base, f
<1>6. \A u \in Units : unit[u].adjusted = "NONE"
  BY DEF Init, NoUnit
<1>7. \A k : LiveOn(k) = {}
  BY <1>6 DEF LiveOn, AdjustedOn
<1>8. ChargesGood
  <2> DEFINE row == [state |-> "ABSENT", charge |-> 0, received |-> 0, paid |-> FALSE]
  <2>1. \A k \in Checks : check[k] = row
    BY DEF Init
  <2>4. CheckGood(row) /\ row.charge = 0
    BY DEF CheckGood, CheckRow
  <2> HIDE DEF row
  <2>2. \A k \in Checks : CheckGood(check[k]) /\ check[k].charge = 0
    BY <2>1, <2>4
  <2>3. check = [k \in Checks |-> check[k]]
    BY DEF Init
  <2> QED BY <1>5, <1>7, <2>2, <2>3, PricesOfNone DEF ChargesGood
<1>9. AdjustmentsGood /\ SquareWhenClosed
  BY <1>6 DEF AdjustmentsGood, SquareWhenClosed, Init
<1> QED BY <1>4, <1>8, <1>9 DEF MoneyGood

-----------------------------------------------------------------------------
(* The bar's commands touch no money.                                      *)

\* A row that changes neither its adjustment nor its Check.
LEMMA SetStatesMoney ==
  ASSUME IInv, MoneyGood, NEW S \in SUBSET Units, NEW state, unit' = SetStates(S, state),
         UNCHANGED <<session, check, alloc>>, session # "CLOSED"
  PROVE  MoneyGood'
<1>1. ASSUME NEW u \in Units
      PROVE  unit'[u].adjusted = unit[u].adjusted /\ unit'[u].on = unit[u].on
  <2>1. PICK row : row = unit[u]
    OBVIOUS
  <2>2. DOMAIN row = Fields
    BY <2>1 DEF IInv, UnitsGood, RowGood
  <2>3. unit'[u] = IF u \in S THEN [row EXCEPT !.state = state] ELSE row
    BY <2>1 DEF SetStates
  <2> QED BY <2>1, <2>2, <2>3 DEF Fields
<1> QED BY <1>1, MoneyStands

\* A new row is one of no adjustment, in the place of none.
LEMMA QueuedMoney ==
  ASSUME IInv, MoneyGood, NEW T \in SUBSET Units, \A u \in T : unit[u].state = "NONE",
         \A u \in Units \ T : unit'[u] = unit[u],
         \A u \in T : \E n : unit'[u] = Queued(n),
         UNCHANGED <<session, check, alloc>>, session # "CLOSED"
  PROVE  MoneyGood'
<1>1. \A u \in T : unit[u].adjusted = "NONE"
  BY DEF IInv, UnitsGood, RowGood
<1>2. \A n : Queued(n).adjusted = "NONE"
  BY DEF Queued, NoUnit
<1>3. \A u \in Units : unit'[u].adjusted = unit[u].adjusted
  BY <1>1, <1>2
<1>4. \A u \in Units : unit[u].adjusted # "NONE" => unit'[u].on = unit[u].on
  BY <1>1
<1> QED BY <1>3, <1>4, MoneyStands

\* Submitting creates units and charges nothing.
LEMMA SubmitMoney ==
  ASSUME IInv, MoneyGood, SubmitOrder
  PROVE  MoneyGood'
<1> DEFINE T == {u \in Standard : u[1] \in Committed \ Submitted}
<1>1. T \in SUBSET Units /\ \A u \in T : unit[u].state = "NONE"
  BY SubmitsNew DEF IInv
<1>2. \A u \in Units : unit'[u] = IF u \in T THEN Queued(0) ELSE unit[u]
  BY DEF SubmitOrder
<1>3. UNCHANGED <<session, check, alloc>> /\ session # "CLOSED"
  BY DEF SubmitOrder
<1> HIDE DEF T
<1>4. (\A u \in Units \ T : unit'[u] = unit[u]) /\ (\A u \in T : unit'[u] = Queued(0))
  BY <1>1, <1>2
<1> QED BY <1>1, <1>3, <1>4, QueuedMoney

\* A Remake is never charged.
LEMMA RemakeMoney ==
  ASSUME IInv, MoneyGood, NEW w \in Existing, RemakeUnit(w)
  PROVE  MoneyGood'
<1>1. PICK v : v = <<w[1], NextNumber(w[1])>>
  OBVIOUS
<1>2. v \in Units /\ unit[v].state = "NONE"
  <2>1. w[1] \in Items /\ NextNumber(w[1]) \in Numbers(w[1])
    BY UnitParts, ExistingPart DEF RemakeUnit
  <2> QED BY <1>1, <2>1, UnitParts, RemakesNew
<1>3. unit' = [unit EXCEPT ![v] = Queued(w[2])]
  BY <1>1 DEF RemakeUnit
<1>4. unit = [u \in Units |-> unit[u]]
  BY DEF IInv, UnitsGood
<1>5. (\A u \in Units \ {v} : unit'[u] = unit[u]) /\ unit'[v] = Queued(w[2])
  BY <1>2, <1>3, <1>4
<1>6. UNCHANGED <<session, check, alloc>> /\ session # "CLOSED"
  BY DEF RemakeUnit
<1> DEFINE T == {v}
<1>7. /\ T \in SUBSET Units /\ \A u \in T : unit[u].state = "NONE"
      /\ \A u \in Units \ T : unit'[u] = unit[u]
      /\ \A u \in T : unit'[u] = Queued(w[2])
  BY <1>2, <1>5
<1> HIDE DEF T
<1> QED BY <1>6, <1>7, QueuedMoney

\* A Waste leaves the charge until it is comped.
LEMMA WasteMoney ==
  ASSUME IInv, MoneyGood, NEW w \in Existing, WasteUnit(w)
  PROVE  MoneyGood'
<1>0. w \in Units /\ unit = [u \in Units |-> unit[u]] /\ DOMAIN unit[w] = Fields
  BY ExistingPart DEF IInv, UnitsGood, RowGood
<1>1. PICK row : row = unit[w]
  OBVIOUS
<1>2. unit' = [unit EXCEPT ![w] = [row EXCEPT !.state = "WASTED", !.alert = "RAISED"]]
  BY <1>0, <1>1 DEF WasteUnit
<1>3. PICK next : next = [row EXCEPT !.state = "WASTED", !.alert = "RAISED"]
  OBVIOUS
<1>4. next.adjusted = row.adjusted /\ next.on = row.on
  BY <1>0, <1>1, <1>3 DEF Fields
<1>5. (\A u \in Units \ {w} : unit'[u] = unit[u]) /\ unit'[w] = next
  BY <1>0, <1>2, <1>3
<1>6. UNCHANGED <<session, check, alloc>> /\ session # "CLOSED"
  BY <1>1 DEF WasteUnit, IInv, DoneWhenClosed, Terminal
<1>7. \A u \in Units : unit'[u].adjusted = unit[u].adjusted /\ unit'[u].on = unit[u].on
  BY <1>1, <1>4, <1>5
<1> QED BY <1>6, <1>7, MoneyStands

\* Acknowledging an alert touches no charge.
LEMMA AcknowledgeMoney ==
  ASSUME IInv, MoneyGood, NEW w \in Existing, AcknowledgeAlert(w)
  PROVE  MoneyGood'
<1>0. w \in Units /\ unit = [u \in Units |-> unit[u]] /\ DOMAIN unit[w] = Fields
  BY ExistingPart DEF IInv, UnitsGood, RowGood
<1>1. PICK row : row = unit[w]
  OBVIOUS
<1>2. unit' = [unit EXCEPT ![w] = [row EXCEPT !.alert = "ACKNOWLEDGED"]]
  BY <1>0, <1>1 DEF AcknowledgeAlert
<1>3. PICK next : next = [row EXCEPT !.alert = "ACKNOWLEDGED"]
  OBVIOUS
<1>4. next.adjusted = row.adjusted /\ next.on = row.on /\ next.state = row.state
  BY <1>0, <1>1, <1>3 DEF Fields
<1>5. (\A u \in Units \ {w} : unit'[u] = unit[u]) /\ unit'[w] = next
  BY <1>0, <1>2, <1>3
<1>6. UNCHANGED <<session, check, alloc>>
  BY DEF AcknowledgeAlert
<1>7. \A u \in Units : /\ unit'[u].adjusted = unit[u].adjusted /\ unit'[u].on = unit[u].on
                       /\ unit'[u].state = unit[u].state
  BY <1>1, <1>4, <1>5
<1> QED BY <1>6, <1>7, MoneyStands

-----------------------------------------------------------------------------
(* Payments and refunds.                                                   *)

\* One Check's row changes, its charge does not.
LEMMA ReceiptMoney ==
  ASSUME MoneyGood, NEW k \in Checks, NEW row, CheckGood(row), row.charge = check[k].charge,
         check[k].state \in {"OPEN", "SETTLED"} => row.state \in {"OPEN", "SETTLED"},
         check' = [check EXCEPT ![k] = row], UNCHANGED <<session, alloc, unit>>, session # "CLOSED"
  PROVE  MoneyGood'
<1>1. check = [j \in Checks |-> check[j]]
  BY DEF MoneyGood, ChargesGood
<1>2. PICK after : after = check'
  OBVIOUS
<1>3. after = [j \in Checks |-> after[j]] /\ after[k] = row /\ \A j \in Checks \ {k} : after[j] = check[j]
  BY <1>1, <1>2
<1>4. \A j : LiveOn(j)' = LiveOn(j)
  BY DEF LiveOn, AdjustedOn, Units, Numbers
<1>5. \A j \in Checks : CheckGood(after[j]) /\ after[j].charge = check[j].charge
  BY <1>3 DEF MoneyGood, ChargesGood
<1>6. ChargesGood'
  BY <1>2, <1>3, <1>4, <1>5 DEF MoneyGood, ChargesGood
<1>7. AllocationsGood'
  BY <1>2, <1>3 DEF MoneyGood, AllocationsGood
<1>8. AdjustmentsGood'
  BY DEF MoneyGood, AdjustmentsGood, Units, Numbers
<1>9. SquareWhenClosed'
  BY DEF SquareWhenClosed
<1> QED BY <1>6, <1>7, <1>8, <1>9 DEF MoneyGood

\* A Payment is received up to the charge of its Check.
LEMMA PaymentMoney ==
  ASSUME MoneyGood, NEW k \in Checks, NEW amount \in Nat, RecordPayment(k, amount)
  PROVE  MoneyGood'
<1>1. PICK row : row = check[k]
  OBVIOUS
<1>2. CheckGood(row) /\ row.state = "OPEN" /\ amount # 0 /\ row.received + amount <= row.charge
  BY <1>1 DEF MoneyGood, ChargesGood, RecordPayment
<1>3. PICK next : next = [row EXCEPT
          !.received = @ + amount, !.paid = TRUE,
          !.state = IF row.received + amount = row.charge THEN "SETTLED" ELSE @]
  OBVIOUS
<1>4. CheckGood(next) /\ next.charge = row.charge /\ next.state \in {"OPEN", "SETTLED"}
  <2> DEFINE received == row.received + amount
             state == IF received = row.charge THEN "SETTLED" ELSE "OPEN"
  <2>1. row \in CheckRow
    BY <1>2 DEF CheckGood
  <2>2. next = [row EXCEPT !.received = received, !.paid = TRUE, !.state = state]
    BY <1>2, <1>3
  <2>3. /\ received \in Nat /\ state \in {"OPEN", "SETTLED"} /\ row.charge \in Nat
        /\ state = "SETTLED" => row.charge <= received
        /\ received <= row.charge
    BY <1>2, <2>1 DEF CheckRow
  <2> HIDE DEF received, state
  <2>4. PICK first : first = [row EXCEPT !.received = received]
    OBVIOUS
  <2>5. PICK second : second = [first EXCEPT !.paid = TRUE]
    OBVIOUS
  <2>6. next = [second EXCEPT !.state = state]
    BY <2>2, <2>4, <2>5
  <2>7. first \in CheckRow /\ first.received = received /\ first.charge = row.charge
    BY <2>1, <2>3, <2>4 DEF CheckRow
  <2>8. second \in CheckRow /\ second.received = received /\ second.charge = row.charge /\ second.paid
    BY <2>5, <2>7 DEF CheckRow
  <2>9. /\ next \in CheckRow /\ next.received = received /\ next.charge = row.charge /\ next.paid
        /\ next.state = state
    BY <2>3, <2>6, <2>8 DEF CheckRow
  <2> QED BY <2>3, <2>9 DEF CheckGood
<1>5. check = [j \in Checks |-> check[j]]
  BY DEF MoneyGood, ChargesGood
<1>6. check' = [check EXCEPT ![k] = next]
  BY <1>1, <1>3, <1>5 DEF RecordPayment
<1>7. UNCHANGED <<session, alloc, unit>> /\ session # "CLOSED"
  BY DEF RecordPayment
<1> QED BY <1>1, <1>4, <1>6, <1>7, ReceiptMoney

\* A Refund returns no more than was received beyond the charge.
LEMMA RefundMoney ==
  ASSUME MoneyGood, NEW k \in Checks, NEW amount, RecordRefund(k, amount)
  PROVE  MoneyGood'
<1>1. PICK row : row = check[k]
  OBVIOUS
<1>0. CheckGood(row)
  BY <1>1 DEF MoneyGood, ChargesGood
<1>2. row.charge < row.received /\ amount \in 1 .. row.received - row.charge
  <2>1. row.charge \in Nat /\ row.received \in Nat
    BY <1>0 DEF CheckGood, CheckRow
  <2>2. amount \in 1 .. (IF row.received > row.charge THEN row.received - row.charge ELSE 0)
    BY <1>1 DEF RecordRefund, Obligation
  <2> QED BY <2>1, <2>2
<1>3. PICK next : next = [row EXCEPT !.received = @ - amount]
  OBVIOUS
<1>4. CheckGood(next) /\ next.charge = row.charge /\ next.state = row.state
  <2>1. /\ row.charge \in Nat /\ row.received \in Nat /\ row.paid
        /\ row.state = "SETTLED"
    BY <1>0, <1>2 DEF CheckGood, CheckRow
  <2>2. row.received - amount \in Nat /\ row.charge <= row.received - amount
    BY <1>2, <2>1
  <2>3. /\ next \in CheckRow /\ next.charge = row.charge /\ next.state = row.state
        /\ next.paid = row.paid /\ next.received = row.received - amount
    BY <1>0, <1>3, <2>2 DEF CheckGood, CheckRow
  <2> QED BY <2>1, <2>2, <2>3 DEF CheckGood
<1>5. check = [j \in Checks |-> check[j]]
  BY DEF MoneyGood, ChargesGood
<1>6. check' = [check EXCEPT ![k] = next]
  BY <1>1, <1>3, <1>5 DEF RecordRefund
<1>7. UNCHANGED <<session, alloc, unit>> /\ session # "CLOSED"
  BY DEF RecordRefund
<1> QED BY <1>1, <1>4, <1>6, <1>7, ReceiptMoney

-----------------------------------------------------------------------------
(* Split and Merge.                                                        *)

\* Pieces of items go from one Check to another, and their prices with them;
\* the one they leave has no live adjustment to strand.
LEMMA RestructureMoney ==
  ASSUME MoneyGood, UNCHANGED <<session, unit>>, session # "CLOSED",
         NEW from \in Checks, NEW to \in Checks, from # to, LiveOn(from) = {}, NEW move,
         NEW A, alloc' = A, A = [i \in Items |-> A[i]],
         \A i \in Items : move[i] \in Nat /\ Shifted(alloc[i], A[i], from, to, move[i]),
         NEW moved, moved = Total([i \in Items |-> Price[i] * move[i]], Items),
         NEW a, CheckGood(a), a.charge = check[from].charge - moved,
         a.state \in {"OPEN", "SETTLED"} \/ \A i \in Items : QuantityOn(A[i], from) = 0,
         NEW b, CheckGood(b), b.charge = check[to].charge + moved, b.state \in {"OPEN", "SETTLED"},
         NEW C, check' = C, C = [k \in Checks |-> C[k]],
         C[from] = a, C[to] = b, \A k \in Checks : k # from /\ k # to => C[k] = check[k]
  PROVE  MoneyGood'
<1>1. \A i \in Items : Fits(alloc[i]) /\ Fits(A[i])
  BY DEF MoneyGood, AllocationsGood, Shifted
<1>2. \A i \in Items : /\ Whole(A[i]) = Whole(alloc[i])
                       /\ QuantityOn(A[i], to) = QuantityOn(alloc[i], to) + move[i]
                       /\ \A k : k # from /\ k # to => QuantityOn(A[i], k) = QuantityOn(alloc[i], k)
  BY <1>1, ShiftKeepsWhole DEF Shifted
<1>3. AllocationsGood'
  <2>1. \A i \in Items : Fits(A[i]) /\ Whole(A[i]) \in {0, Quantity[i]}
    BY <1>1, <1>2 DEF MoneyGood, AllocationsGood
  <2>2. ASSUME NEW i \in Items, NEW k \in Checks, QuantityOn(A[i], k) # 0
        PROVE  C[k].state \in {"OPEN", "SETTLED"}
    <3>1. CASE k = from
      BY <2>2, <3>1
    <3>2. CASE k = to
      BY <3>2
    <3>3. CASE k # from /\ k # to
      BY <1>2, <2>2, <3>3 DEF MoneyGood, AllocationsGood
    <3> QED BY <3>1, <3>2, <3>3
  <2> QED BY <2>1, <2>2 DEF AllocationsGood
<1>4. /\ moved \in Nat
      /\ Base(alloc, from) = Base(A, from) + moved
      /\ Base(A, to) = Base(alloc, to) + moved
      /\ \A k : k # from /\ k # to => Base(A, k) = Base(alloc, k)
  <2>1. PICK before : before = alloc
    OBVIOUS
  <2>2. \A i \in Items : /\ move[i] \in Nat /\ Fits(before[i])
                         /\ Shifted(before[i], A[i], from, to, move[i])
    BY <1>1, <2>1
  <2>3. PICK prices : prices = [i \in Items |-> Price[i] * move[i]]
    OBVIOUS
  <2>4. /\ Total(prices, Items) \in Nat
        /\ Base(before, from) = Base(A, from) + Total(prices, Items)
        /\ Base(A, to) = Base(before, to) + Total(prices, Items)
    BY <2>2, <2>3, ShiftedBase
  <2>5. \A k : k # from /\ k # to => Base(A, k) = Base(alloc, k)
    BY <1>2, SameBase
  <2> QED BY <2>1, <2>3, <2>4, <2>5
<1>5. \A k : LiveOn(k)' = LiveOn(k)
  BY DEF LiveOn, AdjustedOn, Units, Numbers
<1>6. ChargesGood'
  <2>1. \A k \in Checks : CheckGood(C[k])
    BY DEF MoneyGood, ChargesGood
  <2>2. ASSUME NEW k \in Checks PROVE C[k].charge + Prices(LiveOn(k)) = Base(A, k)
    <3>1. /\ check[k].charge + Prices(LiveOn(k)) = Base(alloc, k)
          /\ check[k].charge \in Nat /\ Prices(LiveOn(k)) \in Nat
          /\ Base(alloc, k) \in Nat /\ Base(A, k) \in Nat
      BY <1>1, LivePart, PricesAreCosts, BaseIsNat DEF MoneyGood, ChargesGood, CheckGood, CheckRow
    <3>2. CASE k = from
      BY <1>4, <3>1, <3>2
    <3>3. CASE k = to
      BY <1>4, <3>1, <3>3
    <3>4. CASE k # from /\ k # to
      BY <1>4, <3>1, <3>4
    <3> QED BY <3>2, <3>3, <3>4
  <2> QED BY <1>5, <2>1, <2>2 DEF ChargesGood
<1>7. AdjustmentsGood'
  <2>1. ASSUME NEW u \in Units, unit[u].adjusted # "NONE"
        PROVE  QuantityOn(A[u[1]], unit[u].on) # 0
    <3>1. /\ u[1] \in Items /\ unit[u].on \in Checks /\ QuantityOn(alloc[u[1]], unit[u].on) # 0
          /\ unit[u].adjusted = "LIVE_CHECK"
      BY <2>1, UnitParts DEF MoneyGood, AdjustmentsGood
    <3>2. unit[u].on # from
      BY <3>1 DEF LiveOn, AdjustedOn
    <3>3. CASE unit[u].on = to
      <4>1. move[u[1]] \in Nat /\ QuantityOn(alloc[u[1]], to) \in Nat
        BY <1>1, <3>1, QuantityIs
      <4> QED BY <1>2, <3>1, <3>3, <4>1
    <3>4. CASE unit[u].on # to
      BY <1>2, <3>1, <3>2, <3>4
    <3> QED BY <3>3, <3>4
  <2>2. Units' = Units
    BY DEF Units, Numbers
  <2> QED BY <2>1, <2>2 DEF MoneyGood, AdjustmentsGood
<1>8. SquareWhenClosed'
  BY DEF SquareWhenClosed
<1> QED BY <1>3, <1>6, <1>7, <1>8 DEF MoneyGood

\* What a Split moves costs a natural number.
LEMMA MoveCosts ==
  ASSUME NEW move \in Moves
  PROVE  /\ \A i \in Items : move[i] \in Nat
         /\ Total([i \in Items |-> Price[i] * move[i]], Items) \in Nat
<1>1. \A i \in Items : move[i] \in Nat
  <2>1. \A n \in 0 .. Max({Quantity[i] : i \in Items}) : n \in Nat
    OBVIOUS
  <2>2. \A i \in Items : move[i] \in 0 .. Max({Quantity[j] : j \in Items})
    BY DEF Moves
  <2> QED BY <2>1, <2>2
<1>2. PICK prices : prices = [i \in Items |-> Price[i] * move[i]]
  OBVIOUS
<1>3. ASSUME NEW i \in Items PROVE prices[i] \in Nat
  <2>1. Price[i] \in Nat /\ move[i] \in Nat
    BY <1>1, PriceAssumption
  <2>2. Price[i] * move[i] \in Nat
    BY ONLY <2>1
  <2> QED BY <1>2, <2>2
<1>4. Total(prices, Items) \in Nat
  BY <1>3, FiniteAssumption, TotalNat
<1> QED BY <1>1, <1>2, <1>4

\* A Split moves pieces with their prices, between Checks without live adjustments.
LEMMA SplitMoney ==
  ASSUME MoneyGood, NEW from \in Checks, NEW to \in Checks, NEW move \in Moves,
         SplitCheck(from, to, move)
  PROVE  MoneyGood'
<1> DEFINE moved == Total([i \in Items |-> Price[i] * move[i]], Items)
<1>1. /\ from # to /\ session # "CLOSED" /\ UNCHANGED <<session, unit>>
      /\ LiveOn(from) = {} /\ check[from].state = "OPEN" /\ ~check[from].paid
      /\ check[to].state = "ABSENT" \/ ~check[to].paid
      /\ \A i \in Items : move[i] <= QuantityOn(alloc[i], from)
      /\ 0 < moved /\ moved < check[from].charge
      /\ check' = [check EXCEPT ![from].charge = @ - moved,
                                ![to].state = "OPEN", ![to].charge = @ + moved]
  BY DEF SplitCheck, Restructurable, LiveOn
<1>2. PICK A : A = alloc'
  OBVIOUS
<1>3. A = [i \in Items |-> Raise(Lower(alloc[i], from, move[i]), to, move[i])]
  BY <1>2 DEF SplitCheck
<1>4. \A i \in Items : Fits(alloc[i]) /\ move[i] \in Nat
  BY MoveCosts DEF MoneyGood, AllocationsGood
<1>5. \A i \in Items : A[i] = Raise(Lower(alloc[i], from, move[i]), to, move[i])
  BY <1>3
<1>6. \A i \in Items : Shifted(alloc[i], A[i], from, to, move[i])
  BY <1>1, <1>4, <1>5, MoveShifts
<1>7. moved \in Nat
  BY MoveCosts
<1>8. A = [i \in Items |-> A[i]]
  BY <1>3
<1> HIDE DEF moved
<1>9. PICK a : a = [check[from] EXCEPT !.charge = @ - moved]
  OBVIOUS
<1>10. PICK b : b = [check[to] EXCEPT !.state = "OPEN", !.charge = @ + moved]
  OBVIOUS
<1>11. check = [k \in Checks |-> check[k]] /\ CheckGood(check[from]) /\ CheckGood(check[to])
  BY DEF MoneyGood, ChargesGood
<1>12. CheckGood(a) /\ a.charge = check[from].charge - moved /\ a.state = "OPEN"
  <2>1. PICK row : row = check[from]
    OBVIOUS
  <2>2. /\ CheckGood(row) /\ row.state = "OPEN" /\ moved < row.charge /\ row.charge \in Nat
        /\ row.received = 0
    BY <1>1, <1>11, <2>1 DEF CheckGood, CheckRow
  <2>3. row.charge - moved \in Nat
    BY <1>7, <2>2
  <2>4. a = [row EXCEPT !.charge = row.charge - moved]
    BY <1>9, <2>1
  <2>5. /\ a \in CheckRow /\ a.charge = row.charge - moved /\ a.state = row.state
        /\ a.received = 0
    BY <2>2, <2>3, <2>4 DEF CheckGood, CheckRow
  <2>6. CheckGood(a)
    BY <2>2, <2>3, <2>5 DEF CheckGood
  <2> QED BY <2>1, <2>2, <2>5, <2>6
<1>13. CheckGood(b) /\ b.charge = check[to].charge + moved /\ b.state = "OPEN"
  <2>1. PICK row : row = check[to]
    OBVIOUS
  <2>2. CheckGood(row) /\ row.charge \in Nat /\ row.received = 0
    BY <1>1, <1>11, <2>1 DEF CheckGood, CheckRow
  <2>3. PICK first : first = [row EXCEPT !.state = "OPEN"]
    OBVIOUS
  <2>4. row.charge + moved \in Nat /\ b = [first EXCEPT !.charge = row.charge + moved]
    BY <1>7, <1>10, <2>1, <2>2, <2>3
  <2>5. /\ first \in CheckRow /\ first.state = "OPEN" /\ first.received = row.received
        /\ first.paid = row.paid
    BY <2>2, <2>3 DEF CheckGood, CheckRow
  <2>6. /\ b \in CheckRow /\ b.state = "OPEN" /\ b.received = row.received /\ b.paid = row.paid
        /\ b.charge = row.charge + moved
    BY <2>4, <2>5 DEF CheckRow
  <2> QED BY <2>1, <2>2, <2>4, <2>6 DEF CheckGood
<1>14. PICK C : C = check'
  OBVIOUS
<1>15. /\ C = [k \in Checks |-> C[k]] /\ C[from] = a /\ C[to] = b
       /\ \A k \in Checks : k # from /\ k # to => C[k] = check[k]
  <2>1. C = [check EXCEPT ![from].charge = @ - moved,
                          ![to].state = "OPEN", ![to].charge = @ + moved]
    BY <1>1, <1>14 DEF moved
  <2>2. from # to
    BY <1>1
  <2>3. C[to] = b
    BY <1>10, <1>11, <2>1, <2>2
  <2>4. \A k \in Checks : k # to => C[k] = IF k = from THEN a ELSE check[k]
    BY <1>9, <1>11, <2>1
  <2>5. C = [k \in Checks |-> C[k]]
    BY <1>11, <2>1
  <2> QED BY <2>2, <2>3, <2>4, <2>5
<1>16. moved = Total([i \in Items |-> Price[i] * move[i]], Items)
  BY DEF moved
<1>17. /\ from # to /\ session # "CLOSED" /\ UNCHANGED <<session, unit>> /\ LiveOn(from) = {}
       /\ \A i \in Items : move[i] \in Nat /\ Shifted(alloc[i], A[i], from, to, move[i])
       /\ a.state \in {"OPEN", "SETTLED"} /\ b.state \in {"OPEN", "SETTLED"}
       /\ alloc' = A /\ check' = C
  BY <1>1, <1>2, <1>4, <1>6, <1>12, <1>13, <1>14
<1> QED BY <1>8, <1>12, <1>13, <1>15, <1>16, <1>17, RestructureMoney

\* A Merge leaves nothing on the absorbed Check, and neither has live adjustments.
LEMMA MergeMoney ==
  ASSUME MoneyGood, NEW surviving \in Checks, NEW absorbed \in Checks,
         MergeChecks(surviving, absorbed)
  PROVE  MoneyGood'
<1>1. /\ surviving # absorbed /\ session # "CLOSED" /\ UNCHANGED <<session, unit>>
      /\ LiveOn(absorbed) = {} /\ check[surviving].state = "OPEN" /\ ~check[absorbed].paid
      /\ check' = [check EXCEPT ![surviving].charge = @ + check[absorbed].charge,
                                ![absorbed].state = "MERGED", ![absorbed].charge = 0]
  BY DEF MergeChecks, Restructurable, LiveOn
<1>2. PICK A : A = alloc'
  OBVIOUS
<1>3. A = [i \in Items |-> MergeAllocations(alloc[i], surviving, absorbed)]
  BY <1>2 DEF MergeChecks
<1>4. PICK move : move = [i \in Items |-> QuantityOn(alloc[i], absorbed)]
  OBVIOUS
<1>5. \A i \in Items : /\ Fits(alloc[i]) /\ move[i] = QuantityOn(alloc[i], absorbed)
                       /\ QuantityOn(alloc[i], absorbed) \in Nat
  BY <1>4, QuantityIs DEF MoneyGood, AllocationsGood
<1>6. \A i \in Items : A[i] = MergeAllocations(alloc[i], surviving, absorbed)
  BY <1>3
<1>7. \A i \in Items : Shifted(alloc[i], A[i], absorbed, surviving, move[i])
  BY <1>1, <1>5, <1>6, MergeShifts
<1>8. A = [i \in Items |-> A[i]]
  BY <1>3
<1>9. PICK moved : moved = check[absorbed].charge
  OBVIOUS
<1>10. moved = Total([i \in Items |-> Price[i] * move[i]], Items)
  <2>1. check[absorbed].charge + Prices(LiveOn(absorbed)) = Base(alloc, absorbed)
    BY DEF MoneyGood, ChargesGood
  <2>2. check[absorbed].charge \in Nat
    BY DEF MoneyGood, ChargesGood, CheckGood, CheckRow
  <2>3. moved = Base(alloc, absorbed)
    BY <1>1, <1>9, <2>1, <2>2, PricesOfNone
  <2>4. [i \in Items |-> Price[i] * move[i]] = [i \in Items |-> Price[i] * QuantityOn(alloc[i], absorbed)]
    BY <1>5
  <2> QED BY <2>3, <2>4 DEF Base
<1>11. check = [k \in Checks |-> check[k]] /\ CheckGood(check[surviving]) /\ CheckGood(check[absorbed])
  BY DEF MoneyGood, ChargesGood
<1>12. PICK a : a = [check[absorbed] EXCEPT !.state = "MERGED", !.charge = 0]
  OBVIOUS
<1>13. PICK b : b = [check[surviving] EXCEPT !.charge = @ + moved]
  OBVIOUS
<1>14. CheckGood(a) /\ a.charge = check[absorbed].charge - moved
  <2>1. PICK row : row = check[absorbed]
    OBVIOUS
  <2>2. CheckGood(row) /\ row.charge \in Nat /\ moved = row.charge /\ row.received = 0
    BY <1>1, <1>9, <1>11, <2>1 DEF CheckGood, CheckRow
  <2>3. PICK first : first = [row EXCEPT !.state = "MERGED"]
    OBVIOUS
  <2>4. a = [first EXCEPT !.charge = 0]
    BY <1>12, <2>1, <2>3
  <2>5. first \in CheckRow /\ first.received = row.received /\ first.paid = row.paid /\ first.state = "MERGED"
    BY <2>2, <2>3 DEF CheckGood, CheckRow
  <2>6. a \in CheckRow /\ a.received = 0 /\ a.state = "MERGED" /\ a.charge = 0
    BY <2>2, <2>4, <2>5 DEF CheckRow
  <2>7. CheckGood(a)
    BY <2>6 DEF CheckGood
  <2> QED BY <2>1, <2>2, <2>6, <2>7
<1>15. CheckGood(b) /\ b.charge = check[surviving].charge + moved /\ b.state = "OPEN"
  <2>1. PICK row : row = check[surviving]
    OBVIOUS
  <2>2. CheckGood(row) /\ row.charge \in Nat /\ moved \in Nat /\ row.state = "OPEN"
    BY <1>1, <1>9, <1>11, <2>1 DEF CheckGood, CheckRow
  <2>3. row.charge + moved \in Nat /\ b = [row EXCEPT !.charge = row.charge + moved]
    BY <1>13, <2>1, <2>2
  <2>4. /\ b \in CheckRow /\ b.state = "OPEN" /\ b.received = row.received /\ b.paid = row.paid
        /\ b.charge = row.charge + moved
    BY <2>2, <2>3 DEF CheckGood, CheckRow
  <2>5. row.received \in Nat /\ row.received <= row.charge
    BY <2>2 DEF CheckGood, CheckRow
  <2>6. b.received <= b.charge
    BY <2>2, <2>4, <2>5
  <2> QED BY <2>1, <2>2, <2>4, <2>6 DEF CheckGood
<1>16. PICK C : C = check'
  OBVIOUS
<1>17. /\ C = [k \in Checks |-> C[k]] /\ C[absorbed] = a /\ C[surviving] = b
       /\ \A k \in Checks : k # absorbed /\ k # surviving => C[k] = check[k]
  BY <1>1, <1>9, <1>11, <1>12, <1>13, <1>16
<1>18. \A i \in Items : QuantityOn(A[i], absorbed) = 0
  BY <1>5, <1>7 DEF Shifted
<1>19. /\ absorbed # surviving /\ session # "CLOSED" /\ UNCHANGED <<session, unit>> /\ LiveOn(absorbed) = {}
       /\ \A i \in Items : move[i] \in Nat /\ Shifted(alloc[i], A[i], absorbed, surviving, move[i])
       /\ alloc' = A /\ check' = C
  BY <1>1, <1>2, <1>5, <1>7, <1>16
<1> QED BY <1>8, <1>10, <1>14, <1>15, <1>17, <1>18, <1>19, RestructureMoney

-----------------------------------------------------------------------------
(* Commit.                                                                 *)

\* An item allocated whole to one Check.
LEMMA FirstAllocation ==
  ASSUME NEW i \in Items, NEW k \in Checks, NEW t, t = <<[on |-> k, quantity |-> Quantity[i]]>>
  PROVE  /\ Fits(t) /\ QuantityOn(t, k) = Quantity[i] /\ Whole(t) = Quantity[i]
         /\ \A j : j # k => QuantityOn(t, j) = 0
<1>1. PICK row : row = [on |-> k, quantity |-> Quantity[i]]
  OBVIOUS
<1>2. row \in Allocation /\ row.on = k /\ row.quantity = Quantity[i] /\ Quantity[i] \in Nat
  BY <1>1, QuantityAssumption DEF Allocation
<1>3. t = <<row>>
  BY <1>1
<1>4. t \in Seq(Allocation) /\ DOMAIN t = {1} /\ t[1] = row
  BY <1>2, <1>3
<1>5. Fits(t)
  BY <1>4 DEF Fits
<1>6. QuantityOn(t, t[1].on) = t[1].quantity
  BY <1>4, <1>5, RowOn
<1>7. \A j : j # k => QuantityOn(t, j) = 0
  BY <1>2, <1>4, NoRowOn
<1>8. Whole(t) = Quantity[i]
  <2> DEFINE f == [j \in Checks |-> QuantityOn(t, j)]
  <2>1. f[k] = Quantity[i] /\ f[k] \in Int /\ \A j \in Checks \ {k} : f[j] = 0
    BY <1>2, <1>4, <1>6, <1>7
  <2> HIDE DEF f
  <2>2. Total(f, Checks) = f[k]
    BY <2>1, FiniteAssumption, TotalSingle
  <2> QED BY <2>1, <2>2 DEF Whole, f
<1> QED BY <1>2, <1>4, <1>5, <1>6, <1>7, <1>8

\* Commit charges one Check for every new item, allocated whole.
LEMMA CommitMoney ==
  ASSUME MoneyGood, NEW D \in SUBSET Items, NEW k \in Checks, CommitOrderDraft(D, k)
  PROVE  MoneyGood'
<1> DEFINE more == [i \in Items |-> IF i \in D THEN Quantity[i] ELSE 0]
           sum == Total([i \in D |-> Price[i] * Quantity[i]], D)
<1>1. /\ session # "CLOSED" /\ UNCHANGED <<session, unit>>
      /\ check[k].state \in {"ABSENT", "OPEN"} /\ \A i \in D : alloc[i] = <<>>
      /\ check' = [check EXCEPT ![k].state = "OPEN", ![k].charge = @ + sum]
  BY DEF CommitOrderDraft, Committed
<1>2. PICK A : A = alloc'
  OBVIOUS
<1>3. A = [i \in Items |-> IF i \in D THEN <<[on |-> k, quantity |-> Quantity[i]]>> ELSE alloc[i]]
  BY <1>2 DEF CommitOrderDraft
<1>4. A = [i \in Items |-> A[i]] /\ \A i \in Items \ D : A[i] = alloc[i]
  BY <1>3
<1>5. \A i \in Items : Fits(alloc[i])
  BY DEF MoneyGood, AllocationsGood
<1>6. ASSUME NEW i \in D
      PROVE  /\ Fits(A[i]) /\ QuantityOn(A[i], k) = Quantity[i] /\ Whole(A[i]) = Quantity[i]
             /\ \A j : j # k => QuantityOn(A[i], j) = 0
             /\ \A j : QuantityOn(alloc[i], j) = 0
  <2>1. PICK t : t = <<[on |-> k, quantity |-> Quantity[i]]>>
    OBVIOUS
  <2>2. A[i] = t
    BY <1>3, <2>1
  <2>3. /\ Fits(t) /\ QuantityOn(t, k) = Quantity[i] /\ Whole(t) = Quantity[i]
        /\ \A j : j # k => QuantityOn(t, j) = 0
    BY <2>1, FirstAllocation
  <2>4. \A r \in DOMAIN alloc[i] : FALSE
    BY <1>1
  <2>5. \A j : QuantityOn(alloc[i], j) = 0
    BY <2>4, NoRowOn
  <2> QED BY <2>2, <2>3, <2>5
<1>7. \A i \in Items : /\ Fits(A[i]) /\ more[i] \in Nat
                       /\ QuantityOn(A[i], k) = QuantityOn(alloc[i], k) + more[i]
                       /\ \A j : j # k => QuantityOn(A[i], j) = QuantityOn(alloc[i], j)
  <2>1. ASSUME NEW i \in Items, i \in D
        PROVE  /\ Fits(A[i]) /\ more[i] \in Nat
               /\ QuantityOn(A[i], k) = QuantityOn(alloc[i], k) + more[i]
               /\ \A j : j # k => QuantityOn(A[i], j) = QuantityOn(alloc[i], j)
    <3>1. more[i] = Quantity[i] /\ Quantity[i] \in Nat
      BY <2>1, QuantityAssumption
    <3> HIDE DEF more
    <3> QED BY <1>6, <2>1, <3>1
  <2>2. ASSUME NEW i \in Items, i \notin D
        PROVE  /\ Fits(A[i]) /\ more[i] \in Nat
               /\ QuantityOn(A[i], k) = QuantityOn(alloc[i], k) + more[i]
               /\ \A j : j # k => QuantityOn(A[i], j) = QuantityOn(alloc[i], j)
    <3>1. more[i] = 0 /\ A[i] = alloc[i] /\ QuantityOn(alloc[i], k) \in Nat
      BY <1>4, <1>5, <2>2, QuantityIs
    <3> HIDE DEF more
    <3> QED BY <1>5, <3>1
  <2> HIDE DEF more
  <2> QED BY <2>1, <2>2
<1>8. Base(A, k) = Base(alloc, k) + sum /\ sum \in Nat
  <2> DEFINE f == [i \in D |-> Price[i] * Quantity[i]]
             g == [i \in Items |-> Price[i] * more[i]]
  <2>1. PICK before : before = alloc
    OBVIOUS
  <2>2. \A i \in Items : /\ Fits(before[i]) /\ Fits(A[i]) /\ more[i] \in Nat
                         /\ QuantityOn(A[i], k) = QuantityOn(before[i], k) + more[i]
    BY <1>5, <1>7, <2>1
  <2>3. Base(A, k) = Base(before, k) + Total(g, Items) /\ Total(g, Items) \in Nat
    <3>1. \A i \in Items : g[i] = Price[i] * more[i]
      OBVIOUS
    <3> HIDE DEF g, more
    <3>2. Grows(before, A, k, more, g)
      BY <2>2, <3>1 DEF Grows
    <3> QED BY <3>2, BaseGrows
  <2>4. \A i \in D : g[i] = f[i] /\ g[i] \in Int /\ f[i] \in Int
    BY PriceAssumption, QuantityAssumption
  <2>5. \A i \in Items \ D : g[i] = 0
    BY PriceAssumption
  <2>6. Total(g, Items) = Total(f, D)
    <3> HIDE DEF f, g
    <3>1. \A i \in Items : /\ i \in Items => g[i] \in Int
                           /\ i \in D => f[i] \in Int
                           /\ i \in Items /\ i \in D => g[i] = f[i]
                           /\ i \in Items /\ i \notin D => g[i] = 0
                           /\ i \in D /\ i \notin Items => f[i] = 0
      BY <2>4, <2>5
    <3> QED BY <3>1, FiniteAssumption, TotalAgree
  <2>7. sum = Total(f, D)
    OBVIOUS
  <2> HIDE DEF f, g, sum
  <2> QED BY <2>1, <2>3, <2>6, <2>7
<1>9. \A j : j # k => Base(A, j) = Base(alloc, j)
  BY <1>7, SameBase
<1>10. PICK row : row = [check[k] EXCEPT !.state = "OPEN", !.charge = @ + sum]
  OBVIOUS
<1>11. PICK C : C = check'
  OBVIOUS
<1>12. check = [j \in Checks |-> check[j]] /\ CheckGood(check[k])
  BY DEF MoneyGood, ChargesGood
<1>13. C = [j \in Checks |-> C[j]] /\ C[k] = row /\ \A j \in Checks \ {k} : C[j] = check[j]
  <2> HIDE DEF sum
  <2> QED BY <1>1, <1>10, <1>11, <1>12
<1> HIDE DEF sum, more
<1>14. CheckGood(row) /\ row.state = "OPEN" /\ row.charge = check[k].charge + sum
  <2>1. PICK old : old = check[k]
    OBVIOUS
  <2>2. CheckGood(old) /\ old.charge \in Nat
    BY <1>12, <2>1 DEF CheckGood, CheckRow
  <2>3. PICK first : first = [old EXCEPT !.state = "OPEN"]
    OBVIOUS
  <2>4. old.charge + sum \in Nat /\ row = [first EXCEPT !.charge = old.charge + sum]
    BY <1>8, <1>10, <2>1, <2>2, <2>3
  <2>5. first \in CheckRow /\ first.state = "OPEN" /\ first.received = old.received /\ first.paid = old.paid
    BY <2>2, <2>3 DEF CheckGood, CheckRow
  <2>6. /\ row \in CheckRow /\ row.state = "OPEN" /\ row.received = old.received /\ row.paid = old.paid
        /\ row.charge = old.charge + sum
    BY <2>4, <2>5 DEF CheckRow
  <2>7. old.received \in Nat /\ old.received <= old.charge
    BY <1>1, <2>1, <2>2 DEF CheckGood, CheckRow
  <2>8. row.received <= row.charge
    BY <1>8, <2>2, <2>6, <2>7
  <2> QED BY <2>1, <2>2, <2>6, <2>8 DEF CheckGood
<1>15. AllocationsGood'
  <2>1. \A i \in Items : Fits(A[i]) /\ Whole(A[i]) \in {0, Quantity[i]}
    BY <1>4, <1>6, <1>7 DEF MoneyGood, AllocationsGood
  <2>2. ASSUME NEW i \in Items, NEW j \in Checks, QuantityOn(A[i], j) # 0
        PROVE  C[j].state \in {"OPEN", "SETTLED"}
    <3>1. CASE j = k
      BY <1>13, <1>14, <3>1
    <3>2. CASE j # k
      BY <1>7, <1>13, <2>2, <3>2 DEF MoneyGood, AllocationsGood
    <3> QED BY <3>1, <3>2
  <2> QED BY <1>2, <1>4, <1>11, <2>1, <2>2 DEF AllocationsGood
<1>16. ChargesGood'
  <2>0. \A j : LiveOn(j)' = LiveOn(j)
    BY <1>1 DEF LiveOn, AdjustedOn, Units, Numbers
  <2>1. \A j \in Checks : CheckGood(C[j])
    BY <1>13, <1>14 DEF MoneyGood, ChargesGood
  <2>2. ASSUME NEW j \in Checks PROVE C[j].charge + Prices(LiveOn(j)) = Base(A, j)
    <3>1. /\ check[j].charge + Prices(LiveOn(j)) = Base(alloc, j)
          /\ check[j].charge \in Nat /\ Prices(LiveOn(j)) \in Nat
      BY LivePart, PricesAreCosts DEF MoneyGood, ChargesGood, CheckGood, CheckRow
    <3>2. CASE j = k
      BY <1>8, <1>13, <1>14, <3>1, <3>2
    <3>3. CASE j # k
      BY <1>9, <1>13, <3>1, <3>3
    <3> QED BY <3>2, <3>3
  <2> QED BY <1>2, <1>11, <1>13, <2>0, <2>1, <2>2 DEF ChargesGood
<1>17. AdjustmentsGood'
  <2>1. ASSUME NEW u \in Units, unit[u].adjusted # "NONE"
        PROVE  QuantityOn(A[u[1]], unit[u].on) # 0
    <3>1. u[1] \in Items /\ QuantityOn(alloc[u[1]], unit[u].on) # 0
      BY <2>1, UnitParts DEF MoneyGood, AdjustmentsGood
    <3> QED BY <1>4, <1>6, <3>1
  <2>2. Units' = Units
    BY DEF Units, Numbers
  <2> QED BY <1>1, <1>2, <2>1, <2>2 DEF MoneyGood, AdjustmentsGood
<1>18. SquareWhenClosed'
  BY <1>1 DEF SquareWhenClosed
<1> QED BY <1>15, <1>16, <1>17, <1>18 DEF MoneyGood

-----------------------------------------------------------------------------
(* Cancellation and Comp.                                                  *)

\* The Check a unit resolves to holds an allocation of its item.
LEMMA ChargedHolds ==
  ASSUME MoneyGood, NEW u \in Units, ChargedTo(u) # NoCheck
  PROVE  ChargedTo(u) \in Checks /\ QuantityOn(alloc[u[1]], ChargedTo(u)) # 0
<1>1. Covering(u) # {} /\ ChargedTo(u) = alloc[u[1]][CHOOSE r \in Covering(u) : TRUE].on
  BY DEF ChargedTo
<1>2. PICK r \in Covering(u) : ChargedTo(u) = alloc[u[1]][r].on
  BY <1>1
<1>3. r \in DOMAIN alloc[u[1]]
  BY DEF Covering
<1>4. Fits(alloc[u[1]])
  BY UnitParts DEF MoneyGood, AllocationsGood
<1>5. PICK s : s = alloc[u[1]]
  OBVIOUS
<1>6. s[r].on \in Checks /\ QuantityOn(s, s[r].on) # 0
  BY <1>3, <1>4, <1>5, RowOn
<1> QED BY <1>2, <1>5, <1>6

Gone(at, k) == {u \in DOMAIN at : at[u] = k}

\* What is left of a Check's row once its part of a removal is gone.
LEMMA ChargesAfterGood ==
  ASSUME MoneyGood, NEW at, DOMAIN at \in SUBSET Units, Covered(at), NEW k \in Checks
  PROVE  /\ CheckGood(ChargesAfter(at)[k])
         /\ ChargesAfter(at)[k].charge = check[k].charge - Prices(Gone(at, k))
         /\ Prices(Gone(at, k)) \in Nat /\ ChargesAfter(at)[k].received = check[k].received
         /\ check[k].state \in {"OPEN", "SETTLED"} => ChargesAfter(at)[k].state \in {"OPEN", "SETTLED"}
<1>1. PICK row : row = check[k]
  OBVIOUS
<1>2. PICK removed : removed = Prices(Gone(at, k))
  OBVIOUS
<1>3. RemovedFrom(at, k) = removed
  BY <1>2 DEF RemovedFrom, Gone
<1>4. Gone(at, k) \in SUBSET Units
  BY DEF Gone
<1>5. removed \in Nat /\ removed <= row.charge
  BY <1>1, <1>2, <1>3, <1>4, PricesAreCosts DEF Covered
<1>6. CheckGood(row) /\ row \in CheckRow /\ row.charge \in Nat /\ row.received \in Nat
  BY <1>1 DEF MoneyGood, ChargesGood, CheckGood, CheckRow
<1>7. PICK next : next = ChargesAfter(at)[k]
  OBVIOUS
<1>8. CASE k \notin {at[u] : u \in DOMAIN at}
  <2>1. Gone(at, k) = {}
    BY <1>8 DEF Gone
  <2>2. next = row
    BY <1>1, <1>7, <1>8 DEF ChargesAfter
  <2> QED BY <1>1, <1>2, <1>6, <1>7, <2>1, <2>2, PricesOfNone
<1>9. CASE k \in {at[u] : u \in DOMAIN at}
  <2> DEFINE left == row.charge - removed
             state == IF row.state = "OPEN" /\ left <= row.received THEN "SETTLED" ELSE row.state
  <2>1. next = [row EXCEPT !.charge = left, !.state = state]
    BY <1>1, <1>3, <1>7, <1>9 DEF ChargesAfter
  <2>2. left \in Nat /\ left <= row.charge
    BY <1>5, <1>6
  <2>3. /\ state \in {"ABSENT", "OPEN", "SETTLED", "MERGED"}
        /\ state \in {"ABSENT", "MERGED"} => row.state \in {"ABSENT", "MERGED"}
        /\ state = "SETTLED" => left <= row.received
        /\ state = "OPEN" => row.received <= left
        /\ row.state \in {"OPEN", "SETTLED"} => state \in {"OPEN", "SETTLED"}
    BY <1>6, <2>2 DEF CheckGood, CheckRow
  <2>4. left = check[k].charge - Prices(Gone(at, k)) /\ Prices(Gone(at, k)) \in Nat
    BY <1>1, <1>2, <1>5
  <2> HIDE DEF left, state
  <2>5. PICK first : first = [row EXCEPT !.charge = left]
    OBVIOUS
  <2>6. next = [first EXCEPT !.state = state]
    BY <2>1, <2>5
  <2>7. first \in CheckRow /\ first.charge = left /\ first.received = row.received /\ first.paid = row.paid
    BY <1>6, <2>2, <2>5 DEF CheckRow
  <2>8. /\ next \in CheckRow /\ next.charge = left /\ next.received = row.received /\ next.paid = row.paid
        /\ next.state = state
    BY <2>3, <2>6, <2>7 DEF CheckRow
  <2>9. CheckGood(next)
    BY <1>6, <2>2, <2>3, <2>8 DEF CheckGood
  <2> QED BY <1>1, <1>7, <2>3, <2>4, <2>8, <2>9
<1> QED BY <1>8, <1>9

\* The charged units of a request are adjusted on the Checks it resolved, and
\* those Checks' charges fall by their prices.
LEMMA RemovalMoney ==
  ASSUME MoneyGood, UNCHANGED <<session, alloc>>, session # "CLOSED",
         NEW at, DOMAIN at \in SUBSET Units, \A u \in DOMAIN at : at[u] = ChargedTo(u),
         Covered(at), check' = ChargesAfter(at),
         NEW after, unit' = after,
         \A u \in DOMAIN at : unit[u].adjusted = "NONE",
         \A u \in DOMAIN at :
            at[u] # NoCheck => after[u].adjusted = "LIVE_CHECK" /\ after[u].on = at[u],
         \A u \in DOMAIN at : at[u] = NoCheck => after[u].adjusted = "NONE",
         \A u \in Units : u \notin DOMAIN at => after[u] = unit[u]
  PROVE  MoneyGood'
<1>1. PICK C : C = ChargesAfter(at)
  OBVIOUS
<1>2. \A k \in Checks : /\ CheckGood(C[k])
                        /\ C[k].charge = check[k].charge - Prices(Gone(at, k))
                        /\ check[k].state \in {"OPEN", "SETTLED"} => C[k].state \in {"OPEN", "SETTLED"}
  BY <1>1, ChargesAfterGood
<1>3. C = [k \in Checks |-> C[k]]
  BY <1>1 DEF ChargesAfter
<1>4. Units' = Units
  BY DEF Units, Numbers
<1>5. AllocationsGood'
  BY <1>1, <1>2 DEF MoneyGood, AllocationsGood
<1>6. ASSUME NEW k \in Checks
      PROVE  LiveOn(k)' = LiveOn(k) \cup Gone(at, k) /\ LiveOn(k) \cap Gone(at, k) = {}
  <2>1. LiveOn(k)' = {u \in Units : after[u].adjusted = "LIVE_CHECK" /\ after[u].on = k}
    BY <1>4 DEF LiveOn, AdjustedOn
  <2>2. LiveOn(k) = {u \in Units : unit[u].adjusted = "LIVE_CHECK" /\ unit[u].on = k}
    BY DEF LiveOn, AdjustedOn
  <2>3. Gone(at, k) = {u \in DOMAIN at : at[u] = k} /\ k # NoCheck
    BY NoCheckAssumption DEF Gone
  <2>4. \A u \in Units : u \in LiveOn(k)' <=> u \in LiveOn(k) \/ u \in Gone(at, k)
    BY <2>1, <2>2, <2>3
  <2> QED BY <2>1, <2>2, <2>3, <2>4
<1>7. ChargesGood'
  <2>1. ASSUME NEW k \in Checks PROVE C[k].charge + Prices(LiveOn(k)') = Base(alloc, k)
    <3>1. LiveOn(k) \in SUBSET Units /\ Gone(at, k) \in SUBSET Units
      BY LivePart DEF Gone
    <3>2. Prices(LiveOn(k) \cup Gone(at, k)) = Prices(LiveOn(k)) + Prices(Gone(at, k))
      BY <1>6, <3>1, PricesAdd
    <3>3. Prices(LiveOn(k)) \in Nat /\ Prices(Gone(at, k)) \in Nat
      BY <3>1, PricesAreCosts
    <3>4. check[k].charge + Prices(LiveOn(k)) = Base(alloc, k) /\ check[k].charge \in Nat
      BY DEF MoneyGood, ChargesGood, CheckGood, CheckRow
    <3>5. Prices(LiveOn(k)') = Prices(LiveOn(k)) + Prices(Gone(at, k))
      BY <1>6, <3>2
    <3>6. C[k].charge = check[k].charge - Prices(Gone(at, k))
      BY <1>2
    <3> QED BY <3>3, <3>4, <3>5, <3>6
  <2> QED BY <1>1, <1>2, <1>3, <2>1 DEF ChargesGood
<1>8. AdjustmentsGood'
  <2>1. ASSUME NEW u \in Units, after[u].adjusted # "NONE"
        PROVE  /\ after[u].on \in Checks /\ QuantityOn(alloc[u[1]], after[u].on) # 0
               /\ after[u].adjusted = "LIVE_CHECK" \/ session = "CLOSED"
    <3>1. CASE u \in DOMAIN at
      <4>1. at[u] # NoCheck /\ after[u].adjusted = "LIVE_CHECK" /\ after[u].on = at[u]
        BY <2>1, <3>1
      <4>2. at[u] = ChargedTo(u)
        BY <3>1
      <4> QED BY <4>1, <4>2, ChargedHolds
    <3>2. CASE u \notin DOMAIN at
      BY <2>1, <3>2 DEF MoneyGood, AdjustmentsGood
    <3> QED BY <3>1, <3>2
  <2> QED BY <1>4, <2>1 DEF AdjustmentsGood
<1>9. SquareWhenClosed'
  BY DEF SquareWhenClosed
<1> QED BY <1>5, <1>7, <1>8, <1>9 DEF MoneyGood

\* A Cancellation takes off each Check the prices of the units it adjusts there,
\* and adjusts only where the item still has the allocation it resolved (Unmoved).
LEMMA CancelMoney ==
  ASSUME IInv, MoneyGood, NEW r \in resolved, CancelUnits(r)
  PROVE  MoneyGood'
<1>1. PICK at : at = r.at
  OBVIOUS
<1>2. /\ DOMAIN at \in SUBSET Units /\ at = Mapping(DOMAIN at) /\ Covered(at)
      /\ \A u \in DOMAIN at : unit[u].state = "QUEUED"
      /\ UNCHANGED <<session, alloc>> /\ session # "CLOSED" /\ check' = ChargesAfter(at)
      /\ unit' = [u \in Units |-> IF u \in DOMAIN at THEN Cancelled(u, at[u]) ELSE unit[u]]
  BY <1>1 DEF IInv, RequestsGood, CancelUnits, Unmoved, StillQueued
<1>3. \A u \in DOMAIN at : at[u] = ChargedTo(u)
  BY <1>2 DEF Mapping
<1>4. PICK after : after = unit'
  OBVIOUS
<1>5. \A u \in Units : after[u] = IF u \in DOMAIN at THEN Cancelled(u, at[u]) ELSE unit[u]
  BY <1>2, <1>4
<1>6. \A u \in DOMAIN at : unit[u].adjusted = "NONE" /\ DOMAIN unit[u] = Fields
  BY <1>2 DEF IInv, UnitsGood, RowGood
<1>7. ASSUME NEW u \in DOMAIN at
      PROVE  /\ at[u] # NoCheck => after[u].adjusted = "LIVE_CHECK" /\ after[u].on = at[u]
             /\ at[u] = NoCheck => after[u].adjusted = "NONE"
  <2>1. PICK row : row = [unit[u] EXCEPT !.state = "CANCELLED", !.alert = "RAISED"]
    OBVIOUS
  <2>2. DOMAIN row = Fields /\ row.adjusted = "NONE"
    BY <1>6, <2>1 DEF Fields
  <2>3. after[u] = IF at[u] = NoCheck THEN row ELSE Adjust(row, "LIVE_CHECK", at[u])
    BY <1>2, <1>5, <2>1 DEF Cancelled
  <2> QED BY <2>2, <2>3 DEF Adjust, Fields
<1> QED BY <1>2, <1>3, <1>4, <1>5, <1>6, <1>7, RemovalMoney

\* A Comp takes the price of its unit off the Check, or after the sale nothing.
LEMMA CompMoney ==
  ASSUME IInv, MoneyGood, NEW r \in resolved, CompWaste(r)
  PROVE  MoneyGood'
<1>1. PICK at : at = r.at
  OBVIOUS
<1>2. /\ DOMAIN at \in SUBSET Units /\ at = Mapping(DOMAIN at) /\ Charged(DOMAIN at)
      /\ \A u \in DOMAIN at : unit[u].adjusted = "NONE"
      /\ UNCHANGED <<session, alloc>>
  BY <1>1 DEF IInv, RequestsGood, CompWaste, Unmoved, Uncomped
<1>3. \A u \in DOMAIN at : unit[u].of = 0 /\ DOMAIN unit[u] = Fields
  <2>1. r.kind = "COMP" /\ \A u \in DOMAIN at : unit[u].of = 0
    BY <1>1 DEF IInv, RequestsGood, CompWaste
  <2> QED BY <1>2, <2>1 DEF IInv, UnitsGood, RowGood
<1>4. \A u \in DOMAIN at : at[u] = ChargedTo(u) /\ at[u] # NoCheck
  BY <1>2, <1>3 DEF Mapping, Charged
<1>5. PICK after : after = unit'
  OBVIOUS
<1>6. ASSUME NEW scope, NEW u \in DOMAIN at
      PROVE  /\ Adjust(unit[u], scope, at[u]).adjusted = scope
             /\ Adjust(unit[u], scope, at[u]).on = at[u]
             /\ Adjust(unit[u], scope, at[u]).state = unit[u].state
  BY <1>3 DEF Adjust, Fields
<1>7. CASE session = "ACTIVE"
  <2>1. /\ Covered(at) /\ check' = ChargesAfter(at)
        /\ after = [u \in Units |->
                       IF u \in DOMAIN at THEN Adjust(unit[u], "LIVE_CHECK", at[u]) ELSE unit[u]]
    BY <1>1, <1>5, <1>7 DEF CompWaste
  <2>2. /\ \A u \in DOMAIN at : after[u].adjusted = "LIVE_CHECK" /\ after[u].on = at[u]
        /\ \A u \in Units : u \notin DOMAIN at => after[u] = unit[u]
    BY <1>2, <1>6, <2>1
  <2> QED BY <1>2, <1>4, <1>5, <1>7, <2>1, <2>2, RemovalMoney
<1>8. CASE session = "CLOSED"
  <2>1. /\ UNCHANGED check
        /\ after = [u \in Units |->
                       IF u \in DOMAIN at THEN Adjust(unit[u], "POST_SALE", at[u]) ELSE unit[u]]
    BY <1>1, <1>5, <1>8 DEF CompWaste
  <2>2. /\ \A u \in DOMAIN at : /\ after[u].adjusted = "POST_SALE" /\ after[u].on = at[u]
                                /\ after[u].state = unit[u].state
        /\ \A u \in Units : u \notin DOMAIN at => after[u] = unit[u]
    BY <1>2, <1>6, <2>1
  <2>3. Units' = Units
    BY DEF Units, Numbers
  <2>4. \A k : LiveOn(k)' = LiveOn(k)
    <3> SUFFICES ASSUME NEW k PROVE LiveOn(k)' = LiveOn(k)
      OBVIOUS
    <3>1. LiveOn(k)' = {u \in Units : after[u].adjusted = "LIVE_CHECK" /\ after[u].on = k}
      BY <1>5, <2>3 DEF LiveOn, AdjustedOn
    <3>2. LiveOn(k) = {u \in Units : unit[u].adjusted = "LIVE_CHECK" /\ unit[u].on = k}
      BY DEF LiveOn, AdjustedOn
    <3> QED BY <1>2, <2>2, <3>1, <3>2
  <2>5. AllocationsGood' /\ ChargesGood'
    BY <1>2, <2>1, <2>4 DEF MoneyGood, AllocationsGood, ChargesGood
  <2>6. AdjustmentsGood'
    <3>1. ASSUME NEW u \in Units, after[u].adjusted # "NONE"
          PROVE  after[u].on \in Checks /\ QuantityOn(alloc[u[1]], after[u].on) # 0
      <4>1. CASE u \in DOMAIN at
        BY <1>4, <2>2, <4>1, ChargedHolds
      <4>2. CASE u \notin DOMAIN at
        BY <2>2, <3>1, <4>2 DEF MoneyGood, AdjustmentsGood
      <4> QED BY <4>1, <4>2
    <3> QED BY <1>2, <1>5, <1>8, <2>3, <3>1 DEF AdjustmentsGood
  <2>7. SquareWhenClosed'
    <3>1. \A i \in Items : <<i, 1>> \in Units
      BY UnitParts, NumbersInNat DEF Numbers
    <3>2. \A u \in Units : after[u].state = unit[u].state
      BY <2>2
    <3>3. Submitted' = Submitted
      BY <1>5, <3>1, <3>2 DEF Submitted
    <3>4. Committed' = Committed
      BY <1>2 DEF Committed
    <3> QED BY <1>2, <2>1, <3>3, <3>4 DEF MoneyGood, SquareWhenClosed
  <2> QED BY <2>5, <2>6, <2>7 DEF MoneyGood
<1> QED BY <1>7, <1>8 DEF CompWaste

\* A Session closes on Checks that have received what they charge.
LEMMA CloseMoney ==
  ASSUME MoneyGood, CloseServiceSession
  PROVE  MoneyGood'
<1>1. /\ UNCHANGED <<check, alloc, unit>> /\ Committed = Submitted
      /\ \A k \in Checks : check[k].state \in {"ABSENT", "MERGED", "SETTLED"} /\ Obligation(k) = 0
  BY DEF CloseServiceSession, ClosureReady
<1>2. ASSUME NEW k \in Checks PROVE check[k].received = check[k].charge
  <2>1. CheckGood(check[k]) /\ check[k].received \in Nat /\ check[k].charge \in Nat
    BY DEF MoneyGood, ChargesGood, CheckGood, CheckRow
  <2>2. ~ (check[k].received > check[k].charge)
    <3>1. Obligation(k) = 0
      BY <1>1
    <3> QED BY <2>1, <3>1 DEF Obligation
  <2> QED BY <1>1, <2>1, <2>2 DEF CheckGood
<1>3. \A k : LiveOn(k)' = LiveOn(k)
  BY <1>1 DEF LiveOn, AdjustedOn, Units, Numbers
<1>4. AllocationsGood' /\ ChargesGood'
  BY <1>1, <1>3 DEF MoneyGood, AllocationsGood, ChargesGood
<1>5. AdjustmentsGood'
  <2>1. Units' = Units /\ session' = "CLOSED"
    BY DEF Units, Numbers, CloseServiceSession
  <2> QED BY <1>1, <2>1 DEF MoneyGood, AdjustmentsGood
<1>6. SquareWhenClosed'
  BY <1>1, <1>2 DEF SquareWhenClosed, Committed, Submitted
<1> QED BY <1>4, <1>5, <1>6 DEF MoneyGood

-----------------------------------------------------------------------------

\* Every command keeps allocations, charges and adjustments in step.
LEMMA NextMoney == IInv /\ MoneyGood /\ [Next]_vars => MoneyGood'
<1> SUFFICES ASSUME IInv, MoneyGood, [Next]_vars PROVE MoneyGood'
  OBVIOUS
<1>1. ASSUME UNCHANGED <<session, check, alloc, unit>> PROVE MoneyGood'
  BY <1>1, MoneyStands
<1>2. ASSUME NEW D \in SUBSET Items, NEW k \in Checks, CommitOrderDraft(D, k) PROVE MoneyGood'
  BY <1>2, CommitMoney
<1>3. CASE SubmitOrder
  BY <1>3, SubmitMoney
<1>4. ASSUME NEW from \in Checks, NEW to \in Checks, NEW move \in Moves, SplitCheck(from, to, move)
      PROVE  MoneyGood'
  BY <1>4, SplitMoney
<1>5. ASSUME NEW surviving \in Checks, NEW absorbed \in Checks, MergeChecks(surviving, absorbed)
      PROVE  MoneyGood'
  BY <1>5, MergeMoney
<1>6. ASSUME NEW k \in Checks, NEW amount \in 1 .. check[k].charge, RecordPayment(k, amount)
      PROVE  MoneyGood'
  <2>1. amount \in Nat
    OBVIOUS
  <2> QED BY <1>6, <2>1, PaymentMoney
<1>7. ASSUME NEW k \in Checks, NEW amount, RecordRefund(k, amount) PROVE MoneyGood'
  BY <1>7, RefundMoney
<1>8. ASSUME NEW S \in SUBSET Active, NEW target \in Targets, AdvanceUnits(S, target)
      PROVE  MoneyGood'
  <2>1. session # "CLOSED"
    BY <1>8, NoneActive DEF AdvanceUnits, IInv
  <2>2. {u \in S : LegalAdvance(u, target)} \in SUBSET Units
    BY ExistingPart
  <2> QED BY <1>8, <2>1, <2>2, SetStatesMoney DEF AdvanceUnits
<1>9. ASSUME NEW u \in Existing, WasteUnit(u) \/ AcknowledgeAlert(u) \/ RemakeUnit(u) PROVE MoneyGood'
  BY <1>9, WasteMoney, AcknowledgeMoney, RemakeMoney
<1>10. ASSUME NEW target \in DOMAIN Successor,
              NEW S \in SUBSET {u \in Existing : unit[u].state = Successor[target]},
              CorrectState(S, target)
       PROVE  MoneyGood'
  <2>1. S \in SUBSET Units /\ session # "CLOSED"
    BY <1>10, ExistingPart DEF CorrectState
  <2> QED BY <1>10, <2>1, SetStatesMoney DEF CorrectState
<1>11. ASSUME NEW S, ResolveCancellation(S) PROVE MoneyGood'
  BY <1>1, <1>11 DEF ResolveCancellation, Resolve
<1>12. ASSUME NEW u, ResolveComp(u) PROVE MoneyGood'
  BY <1>1, <1>12 DEF ResolveComp, Resolve
<1>13. ASSUME NEW r \in resolved, CancelUnits(r) \/ CompWaste(r) PROVE MoneyGood'
  BY <1>13, CancelMoney, CompMoney
<1>14. ASSUME NEW r \in resolved, Abandon(r) PROVE MoneyGood'
  BY <1>1, <1>14 DEF Abandon
<1>15. CASE CloseServiceSession
  BY <1>15, CloseMoney
<1>16. CASE UNCHANGED vars
  BY <1>1, <1>16 DEF vars
<1> QED
  <2>1. CASE Order
    BY <2>1, <1>2, <1>3 DEF Order
  <2>2. CASE Restructure
    BY <2>2, <1>4, <1>5 DEF Restructure
  <2>3. CASE Pay
    BY <2>3, <1>6, <1>7 DEF Pay
  <2>4. CASE Prepare
    BY <2>4, <1>8, <1>9, <1>10 DEF Prepare
  <2>5. CASE Correct
    BY <2>5, <1>11, <1>12, <1>13, <1>14 DEF Correct
  <2> QED BY <2>1, <2>2, <2>3, <2>4, <2>5, <1>15, <1>16 DEF Next

-----------------------------------------------------------------------------
(* What follows.                                                           *)

\* The invariant is more than the property the run checks.
LEMMA ChargesFollow == MoneyGood => ChargeIsAllocations
<1> SUFFICES ASSUME MoneyGood PROVE ChargeIsAllocations
  OBVIOUS
<1>1. ASSUME NEW i \in Committed
      PROVE  /\ RunningTotal(i, Len(alloc[i])) = Quantity[i]
             /\ \A q, r \in DOMAIN alloc[i] : alloc[i][q].on = alloc[i][r].on => q = r
             /\ \A r \in DOMAIN alloc[i] : check[alloc[i][r].on].state \in {"OPEN", "SETTLED"}
  <2>1. PICK s : s = alloc[i]
    OBVIOUS
  <2>2. Fits(s) /\ Whole(s) \in {0, Quantity[i]} /\ s # <<>> /\ i \in Items
    BY <2>1 DEF MoneyGood, AllocationsGood, Committed
  <2>3. Whole(s) = Quantity[i]
    BY <2>2, WholeIsNat
  <2>4. DOMAIN s = 1 .. Len(s)
    BY <2>2 DEF Fits
  <2>5. RunningTotal(i, Len(s)) = Whole(s)
    BY <2>1, <2>2, <2>4, WholeIsParts DEF RunningTotal
  <2>6. ASSUME NEW r \in DOMAIN s PROVE check[s[r].on].state \in {"OPEN", "SETTLED"}
    <3>1. s[r].on \in Checks /\ QuantityOn(s, s[r].on) # 0
      BY <2>2, RowOn
    <3> QED BY <2>1, <2>2, <3>1 DEF MoneyGood, AllocationsGood
  <2> QED BY <2>1, <2>2, <2>3, <2>5, <2>6 DEF Fits
<1>2. \A k \in Checks : check[k].charge + Prices(AdjustedOn(k, "LIVE_CHECK")) = BaseCharge(k)
  BY DEF MoneyGood, ChargesGood, LiveOn, BaseCharge, Base
<1> QED BY <1>1, <1>2 DEF ChargeIsAllocations

\* An adjusted unit finds its item on its Check.
LEMMA AdjustmentsFollow == MoneyGood => AdjustmentKept
BY DEF MoneyGood, AdjustmentsGood, AdjustmentKept

\* The numbers 1 to n are n.
LEMMA CountTo ==
  ASSUME NEW n \in Nat
  PROVE  IsFiniteSet(1 .. n) /\ Cardinality(1 .. n) = n
BY FS_Interval

\* The ordered units of the items that were submitted.
Ordered == {u \in Standard : u \in Existing}
\* An item that was submitted has exactly the units of its quantity.
LEMMA OrderedUnits ==
  ASSUME IInv
  PROVE  /\ Ordered \in SUBSET Units
         /\ \A i \in Items : {u \in Ordered : u[1] = i} =
                IF i \in Submitted THEN {i} \X (1 .. Quantity[i]) ELSE {}
<1>1. \A u \in Standard : u[1] \in Items /\ u[2] \in 1 .. Quantity[u[1]] /\ u = <<u[1], u[2]>>
  BY DEF Standard
<1>2. Ordered \in SUBSET Units
  BY ExistingPart DEF Ordered
<1>3. ASSUME NEW i \in Items
      PROVE  {u \in Ordered : u[1] = i} = IF i \in Submitted THEN {i} \X (1 .. Quantity[i]) ELSE {}
  <2>1. PICK m \in Nat : UpTo(i, m)
    BY DEF IInv, Numbered
  <2>2. i \in Submitted <=> m # 0
    BY <2>1, SubmittedUpTo
  <2>3. Quantity[i] \in Nat \ {0} /\ MaxRemakes[i] \in Nat
    BY NumbersInNat
  <2>4. \A n \in 1 .. Quantity[i] : n \in Numbers(i) /\ <<i, n>> \in Units /\ <<i, n>> \in Standard
    BY <2>3, UnitParts DEF Numbers, Standard
  <2>5. \A n \in 1 .. Quantity[i] : <<i, n>> \in Existing <=> n <= m
    BY <2>1, <2>4 DEF UpTo, Existing
  <2>6. CASE i \in Submitted
    <3>1. \A n \in 1 .. Quantity[i] : n <= m
      BY <2>1, <2>2, <2>3, <2>6 DEF UpTo
    <3>2. \A n \in 1 .. Quantity[i] : <<i, n>> \in Ordered
      BY <2>4, <2>5, <3>1 DEF Ordered
    <3>3. \A u \in Ordered : u[1] = i => u \in {i} \X (1 .. Quantity[i])
      BY <1>1 DEF Ordered
    <3> QED BY <2>6, <3>2, <3>3
  <2>7. CASE i \notin Submitted
    <3>1. ASSUME NEW u \in Ordered, u[1] = i PROVE FALSE
      <4>1. u[2] \in 1 .. Quantity[i] /\ u = <<i, u[2]>> /\ u \in Existing
        BY <1>1, <3>1 DEF Ordered
      <4>2. u[2] <= m /\ m = 0
        BY <2>2, <2>5, <2>7, <4>1
      <4> QED BY <2>3, <4>1, <4>2
    <3> QED BY <2>7, <3>1
  <2> QED BY <2>6, <2>7
<1> QED BY <1>2, <1>3

\* What was ordered costs what its items cost.
LEMMA OrderedPrices ==
  ASSUME IInv
  PROVE  Prices(Ordered) =
             Total([i \in Items |-> IF i \in Submitted THEN Price[i] * Quantity[i] ELSE 0], Items)
<1> DEFINE h == [u \in Ordered |-> u[1]]
           class(i) == {u \in Ordered : h[u] = i}
           parts == [i \in Items |-> Total(Cost, class(i))]
           whole == [i \in Items |-> IF i \in Submitted THEN Price[i] * Quantity[i] ELSE 0]
<1>1. Ordered \in SUBSET Units
  BY OrderedUnits
<1>2. IsFiniteSet(Ordered) /\ Prices(Ordered) = Total(Cost, Ordered) /\ \A u \in Ordered : Cost[u] \in Int
  BY <1>1, PricesAreCosts
<1>3. \A u \in Ordered : h[u] \in Items
  BY <1>1, UnitParts
<1>4. Total(Cost, Ordered) = Total(parts, Items)
  <2> HIDE DEF h
  <2> QED BY <1>2, <1>3, FiniteAssumption, TotalPartition
<1>5. ASSUME NEW i \in Items PROVE parts[i] = whole[i]
  <2>1. class(i) = {u \in Ordered : u[1] = i}
    OBVIOUS
  <2>2. CASE i \in Submitted
    <3> DEFINE D == 1 .. Quantity[i]
    <3>1. class(i) = {i} \X D
      BY <2>1, <2>2, OrderedUnits
    <3>2. Quantity[i] \in Nat /\ Price[i] \in Int
      BY NumbersInNat, PriceAssumption
    <3>3. IsFiniteSet(D) /\ Cardinality(D) = Quantity[i]
      <4>1. PICK q \in Nat : q = Quantity[i]
        BY <3>2
      <4>2. IsFiniteSet(1 .. q) /\ Cardinality(1 .. q) = q
        BY CountTo
      <4> QED BY <4>1, <4>2
    <3>4. \A u \in class(i) : Cost[u] = Price[i]
      BY <1>1, <2>1 DEF Cost
    <3> HIDE DEF D, class
    <3>5. IsFiniteSet({i} \X D) /\ Cardinality({i} \X D) = Cardinality(D)
      BY <3>3, PairsCardinality
    <3>6. Total(Cost, class(i)) = Price[i] * Cardinality(class(i))
      BY <3>1, <3>2, <3>4, <3>5, TotalConstant
    <3> QED BY <2>2, <3>1, <3>3, <3>5, <3>6
  <2>3. CASE i \notin Submitted
    <3>1. class(i) = {}
      BY <2>1, <2>3, OrderedUnits
    <3> HIDE DEF class
    <3> QED BY <2>3, <3>1, TotalEmpty
  <2> QED BY <2>2, <2>3
<1>6. Total(parts, Items) = Total(whole, Items)
  <2> HIDE DEF parts, whole
  <2> QED BY <1>5, FiniteAssumption, TotalCongruence
<1> QED BY <1>2, <1>4, <1>6

\* All the Checks are charged what the committed items cost.
LEMMA AllBase ==
  ASSUME MoneyGood
  PROVE  Total([k \in Checks |-> Base(alloc, k)], Checks) =
             Total([i \in Items |-> IF i \in Committed THEN Price[i] * Quantity[i] ELSE 0], Items)
<1> DEFINE F == [k \in Checks |-> [i \in Items |-> Price[i] * QuantityOn(alloc[i], k)]]
           rows == [k \in Checks |-> Total(F[k], Items)]
           column(i) == [k \in Checks |-> F[k][i]]
           columns == [i \in Items |-> Total(column(i), Checks)]
           whole == [i \in Items |-> IF i \in Committed THEN Price[i] * Quantity[i] ELSE 0]
<1>1. \A i \in Items : Fits(alloc[i]) /\ Whole(alloc[i]) \in {0, Quantity[i]}
  BY DEF MoneyGood, AllocationsGood
<1>2. \A k \in Checks, i \in Items : F[k][i] \in Int
  <2>1. \A k \in Checks, i \in Items : Price[i] * QuantityOn(alloc[i], k) \in Nat
    BY <1>1, BaseIsNat
  <2> QED BY <2>1
<1>3. Total(rows, Checks) = Total(columns, Items)
  <2> HIDE DEF F
  <2> QED BY <1>2, FiniteAssumption, TotalExchange
<1>4. ASSUME NEW i \in Items PROVE columns[i] = whole[i]
  <2> DEFINE f == [k \in Checks |-> QuantityOn(alloc[i], k)]
             g == column(i)
  <2>1. \A k \in Checks : f[k] \in Int /\ g[k] = Price[i] * f[k]
    BY <1>1, QuantityIs
  <2>2. Price[i] \in Int
    BY PriceAssumption
  <2> HIDE DEF f, g
  <2>3. Total(g, Checks) = Price[i] * Total(f, Checks)
    BY <2>1, <2>2, FiniteAssumption, TotalScale
  <2>4. columns[i] = Price[i] * Whole(alloc[i])
    BY <2>3 DEF f, g, Whole
  <2>5. Whole(alloc[i]) = IF i \in Committed THEN Quantity[i] ELSE 0
    BY <1>1, WholeIsNat DEF Committed
  <2> HIDE DEF columns
  <2> QED BY <2>2, <2>4, <2>5
<1>5. Total(columns, Items) = Total(whole, Items)
  <2> HIDE DEF columns, whole
  <2> QED BY <1>4, FiniteAssumption, TotalCongruence
<1>6. rows = [k \in Checks |-> Base(alloc, k)]
  BY DEF Base
<1> QED BY <1>3, <1>5, <1>6

Live == {u \in Units : unit[u].adjusted = "LIVE_CHECK"}

\* What was charged off, Check by Check.
LEMMA LivePrices ==
  ASSUME MoneyGood
  PROVE  Prices(Live) = Total([k \in Checks |-> Prices(LiveOn(k))], Checks)
<1> DEFINE h == [u \in Live |-> unit[u].on]
           class(k) == {u \in Live : h[u] = k}
<1>1. Live \in SUBSET Units
  BY DEF Live
<1>2. IsFiniteSet(Live) /\ Prices(Live) = Total(Cost, Live) /\ \A u \in Live : Cost[u] \in Int
  BY <1>1, PricesAreCosts
<1>3. \A u \in Live : h[u] \in Checks
  BY DEF MoneyGood, AdjustmentsGood, Live
<1>4. Total(Cost, Live) = Total([k \in Checks |-> Total(Cost, class(k))], Checks)
  <2> HIDE DEF h
  <2> QED BY <1>2, <1>3, FiniteAssumption, TotalPartition
<1>5. ASSUME NEW k \in Checks PROVE Total(Cost, class(k)) = Prices(LiveOn(k))
  <2>1. class(k) = LiveOn(k)
    BY DEF Live, LiveOn, AdjustedOn
  <2> HIDE DEF class
  <2> QED BY <2>1, LivePart, PricesAreCosts
<1>6. [k \in Checks |-> Total(Cost, class(k))] = [k \in Checks |-> Prices(LiveOn(k))]
  <2> HIDE DEF class
  <2> QED BY <1>5
<1> QED BY <1>2, <1>4, <1>6

\* Every Check of a closed sale received its charge; the charges are what the
\* items cost less the live adjustments, which are all of ordered units.
LEMMA PaidFollows == IInv /\ MoneyGood => PaidForWhatStands
<1> SUFFICES ASSUME IInv, MoneyGood, session = "CLOSED"
             PROVE  Total([k \in Checks |-> check[k].received], Checks) =
                        Prices({u \in Standard : u \in Existing /\ unit[u].adjusted # "LIVE_CHECK"})
  BY DEF PaidForWhatStands
<1> DEFINE received == [k \in Checks |-> check[k].received]
           base == [k \in Checks |-> Base(alloc, k)]
           gone == [k \in Checks |-> Prices(LiveOn(k))]
           stands == {u \in Standard : u \in Existing /\ unit[u].adjusted # "LIVE_CHECK"}
<1>1. \A k \in Checks : received[k] \in Int /\ gone[k] \in Int /\ base[k] = received[k] + gone[k]
  <2> SUFFICES ASSUME NEW k \in Checks
               PROVE  received[k] \in Int /\ gone[k] \in Int /\ base[k] = received[k] + gone[k]
    OBVIOUS
  <2>1. check[k].charge + Prices(LiveOn(k)) = Base(alloc, k) /\ check[k].charge \in Nat
    BY DEF MoneyGood, ChargesGood, CheckGood, CheckRow
  <2>2. check[k].received = check[k].charge
    BY DEF MoneyGood, SquareWhenClosed
  <2>3. Prices(LiveOn(k)) \in Nat
    BY LivePart, PricesAreCosts
  <2> QED BY <2>1, <2>2, <2>3
<1>2. /\ Total(base, Checks) = Total(received, Checks) + Total(gone, Checks)
      /\ Total(received, Checks) \in Int
  <2> HIDE DEF base, received, gone
  <2> QED BY <1>1, FiniteAssumption, TotalPlus, TotalInt
<1>3. Total(base, Checks) = Prices(Ordered)
  <2>1. Committed = Submitted
    BY DEF MoneyGood, SquareWhenClosed
  <2> QED BY <2>1, AllBase, OrderedPrices
<1>4. Total(gone, Checks) = Prices(Live)
  BY LivePrices
<1>5. Ordered = stands \cup Live /\ stands \cap Live = {} /\ stands \in SUBSET Units /\ Live \in SUBSET Units
  <2>1. ASSUME NEW u \in Live PROVE u \in Ordered
    <3>1. /\ u \in Units /\ unit[u].state \in {"CANCELLED", "WASTED"} /\ unit[u].of = 0
      BY DEF Live, IInv, UnitsGood, RowGood
    <3>2. u \in Existing
      BY <3>1 DEF Existing
    <3>3. u[1] \in Items /\ u[2] \in Numbers(u[1]) /\ u = <<u[1], u[2]>>
      BY <3>1, UnitParts
    <3>4. Quantity[u[1]] \in Nat /\ u[2] \in Nat \ {0}
      BY <3>3, NumbersInNat
    <3>5. ~ (u[2] > Quantity[u[1]])
      <4>1. u[2] > Quantity[u[1]] => unit[u].of \in 1 .. u[2] - 1
        BY <3>2 DEF IInv, Sourced
      <4>2. PICK n \in Nat : n = u[2]
        BY <3>4
      <4> QED BY <3>1, <4>1, <4>2
    <3>6. u[2] \in 1 .. Quantity[u[1]]
      BY <3>4, <3>5
    <3> QED BY <3>2, <3>3, <3>6 DEF Ordered, Standard
  <2>2. \A u \in Ordered : u \in Units
    BY OrderedUnits
  <2> QED BY <2>1, <2>2 DEF Live, Ordered
<1>6. Prices(Ordered) = Prices(stands) + Prices(Live)
  <2> HIDE DEF stands
  <2> QED BY <1>5, PricesAdd
<1>7. Prices(stands) \in Nat /\ Prices(Live) \in Nat
  <2> HIDE DEF stands
  <2> QED BY <1>5, PricesAreCosts
<1> HIDE DEF stands, received, base, gone
<1>8. Total(received, Checks) = Prices(stands)
  BY <1>2, <1>3, <1>4, <1>6, <1>7
<1> QED BY <1>8 DEF stands, received

-----------------------------------------------------------------------------
(* The theorems about money.                                               *)

\* Both invariants hold of every reachable state.
THEOREM MoneyInvariance == Spec => [](IInv /\ MoneyGood)
<1>1. Init => IInv /\ MoneyGood
  BY InitIInv, InitMoney
<1>2. (IInv /\ MoneyGood) /\ [Next]_vars => (IInv /\ MoneyGood)'
  BY NextIInv, NextMoney
<1> QED BY <1>1, <1>2, PTL DEF Spec

\* Through every split and merge an item's allocations add up to its quantity on
\* live Checks, one row a Check, and a Check's stored charge is what it holds less
\* its live adjustments: the equation Cancellation and Comp refuse to work without.
THEOREM ChargesAreAllocations == Spec => []ChargeIsAllocations
BY MoneyInvariance, ChargesFollow, PTL

\* No adjustment is left on a Check that holds nothing of its item, whatever was
\* split or merged between resolving it and writing it, or afterwards.
THEOREM AdjustmentsStay == Spec => []AdjustmentKept
BY MoneyInvariance, AdjustmentsFollow, PTL

\* A closed sale received exactly the prices of the ordered units whose charge
\* stands, through any sequence of splits, merges, Cancellations, Comps and Payments.
THEOREM PaidWhatStands == Spec => []PaidForWhatStands
BY MoneyInvariance, PaidFollows, PTL

-----------------------------------------------------------------------------
(* Types.                                                                  *)

\* What a row says besides its state and source; where an adjustment is, is
\* AdjustmentsGood.
Tags(row) ==
    /\ row = [field \in Fields |-> row[field]]
    /\ row.alert \in {"NONE", "RAISED", "ACKNOWLEDGED"}
    /\ row.adjusted \in {"NONE", "LIVE_CHECK", "POST_SALE"}
    /\ row.adjusted = "NONE" => row.on = NoCheck
TagsGood ==
    /\ \A u \in Units : Tags(unit[u])
    /\ \A r \in resolved : DOMAIN r.at \subseteq Existing

\* A row that takes the place of another: well tagged, and existing if that did.
Follows(old, new) == Tags(new) /\ (old.state # "NONE" => new.state # "NONE")

\* No command leaves a row ill tagged or takes it away.
LEMMA RowsFollow ==
  ASSUME IInv, TagsGood, [Next]_vars, NEW u \in Units
  PROVE  Follows(unit[u], unit'[u])
<1>1. /\ Tags(unit[u]) /\ DOMAIN unit[u] = Fields /\ unit = [v \in Units |-> unit[v]]
      /\ unit[u].state \in States \cup {"NONE"}
  BY DEF TagsGood, IInv, UnitsGood, RowGood
<1>2. ASSUME UNCHANGED unit PROVE Follows(unit[u], unit'[u])
  BY <1>1, <1>2 DEF Follows
<1>3. ASSUME NEW state \in States, NEW S, unit' = SetStates(S, state)
      PROVE  Follows(unit[u], unit'[u])
  BY <1>1, <1>3 DEF SetStates, Follows, Tags, Fields, States
<1>4. ASSUME NEW w, WasteUnit(w) PROVE Follows(unit[u], unit'[u])
  BY <1>1, <1>4 DEF WasteUnit, Follows, Tags, Fields
<1>5. ASSUME NEW w, AcknowledgeAlert(w) PROVE Follows(unit[u], unit'[u])
  BY <1>1, <1>5 DEF AcknowledgeAlert, Follows, Tags, Fields
<1>6. \A n : Tags(Queued(n)) /\ Queued(n).state = "QUEUED"
  <2>1. ASSUME NEW n PROVE Queued(n) = [state |-> "QUEUED", of |-> n, alert |-> "NONE",
                                         adjusted |-> "NONE", on |-> NoCheck]
    <3>1. PICK mid : mid = [NoUnit EXCEPT !.state = "QUEUED"]
      OBVIOUS
    <3>2. mid = [state |-> "QUEUED", of |-> 0, alert |-> "NONE", adjusted |-> "NONE", on |-> NoCheck]
      BY <3>1 DEF NoUnit
    <3>3. Queued(n) = [mid EXCEPT !.of = n]
      BY <3>1 DEF Queued
    <3> QED BY <3>2, <3>3
  <2> QED BY <2>1 DEF Tags, Fields
<1>7. ASSUME NEW w, RemakeUnit(w) PROVE Follows(unit[u], unit'[u])
  BY <1>1, <1>6, <1>7 DEF RemakeUnit, Follows
<1>8. CASE SubmitOrder
  BY <1>1, <1>6, <1>8 DEF SubmitOrder, Follows
<1>9. ASSUME NEW k, NEW scope \in {"LIVE_CHECK", "POST_SALE"}, NEW row, Tags(row)
      PROVE  Tags(Adjust(row, scope, k)) /\ Adjust(row, scope, k).state = row.state
  <2>1. PICK mid : mid = [row EXCEPT !.adjusted = scope]
    OBVIOUS
  <2>2. PICK new : new = [mid EXCEPT !.on = k]
    OBVIOUS
  <2>3. /\ mid = [field \in Fields |-> mid[field]] /\ mid.adjusted = scope
        /\ mid.alert = row.alert /\ mid.state = row.state
    BY <1>9, <2>1 DEF Tags, Fields
  <2>4. /\ new = [field \in Fields |-> new[field]] /\ new.adjusted = scope
        /\ new.alert = row.alert /\ new.state = row.state
    BY <2>2, <2>3 DEF Fields
  <2>5. Adjust(row, scope, k) = new
    BY <2>1, <2>2 DEF Adjust
  <2> QED BY <1>9, <2>4, <2>5 DEF Tags
<1>10. ASSUME NEW r, CancelUnits(r) PROVE Follows(unit[u], unit'[u])
  <2> DEFINE row == [unit[u] EXCEPT !.state = "CANCELLED", !.alert = "RAISED"]
             k == r.at[u]
  <2>1. Tags(row) /\ row.state = "CANCELLED"
    <3>1. PICK mid : mid = [unit[u] EXCEPT !.state = "CANCELLED"]
      OBVIOUS
    <3>2. /\ mid = [field \in Fields |-> mid[field]] /\ mid.adjusted = unit[u].adjusted
          /\ mid.on = unit[u].on /\ mid.state = "CANCELLED"
      BY <1>1, <3>1 DEF Tags, Fields
    <3>3. row = [mid EXCEPT !.alert = "RAISED"]
      BY <3>1
    <3> QED BY <1>1, <3>2, <3>3 DEF Tags, Fields
  <2>2. unit'[u] = IF u \in DOMAIN r.at THEN (IF k = NoCheck THEN row ELSE Adjust(row, "LIVE_CHECK", k))
                   ELSE unit[u]
    BY <1>10 DEF CancelUnits, Cancelled
  <2> HIDE DEF row, k
  <2>3. Tags(Adjust(row, "LIVE_CHECK", k)) /\ Adjust(row, "LIVE_CHECK", k).state = row.state
    BY <1>9, <2>1
  <2> QED BY <1>1, <2>1, <2>2, <2>3 DEF Follows
<1>11. ASSUME NEW r, CompWaste(r) PROVE Follows(unit[u], unit'[u])
  <2>1. \E scope \in {"LIVE_CHECK", "POST_SALE"} :
            unit'[u] = IF u \in DOMAIN r.at THEN Adjust(unit[u], scope, r.at[u]) ELSE unit[u]
    BY <1>11 DEF CompWaste
  <2> QED BY <1>1, <1>9, <2>1 DEF Follows
<1> QED
  <2>1. CASE Order
    BY ONLY <2>1, <1>2, <1>8, TillKeepsUnits DEF Order
  <2>2. CASE Restructure
    BY ONLY <2>2, <1>2, TillKeepsUnits
  <2>3. CASE Pay
    BY ONLY <2>3, <1>2, TillKeepsUnits
  <2>4. CASE Prepare
    <3>1. ASSUME NEW S, NEW target \in Targets, AdvanceUnits(S, target) PROVE Follows(unit[u], unit'[u])
      BY <1>3, <3>1 DEF AdvanceUnits, Targets, States
    <3>2. ASSUME NEW S, NEW target \in DOMAIN Successor, CorrectState(S, target)
          PROVE  Follows(unit[u], unit'[u])
      BY <1>3, <3>2 DEF CorrectState, Successor, States
    <3> QED BY <2>4, <3>1, <3>2, <1>4, <1>5, <1>7 DEF Prepare
  <2>5. CASE Correct
    BY <2>5, <1>2, <1>10, <1>11 DEF Correct, ResolveCancellation, ResolveComp, Resolve, Abandon
  <2>6. CASE CloseServiceSession
    BY <2>6, <1>2 DEF CloseServiceSession
  <2>7. CASE UNCHANGED vars
    BY <2>7, <1>2 DEF vars
  <2> QED BY <2>1, <2>2, <2>3, <2>4, <2>5, <2>6, <2>7 DEF Next

\* A request in flight was in flight before, or names units that exist now.
LEMMA RequestsFollow ==
  ASSUME IInv, [Next]_vars, NEW q \in resolved'
  PROVE  \/ \E r \in resolved : DOMAIN q.at = DOMAIN r.at
         \/ DOMAIN q.at \subseteq Existing
<1>1. ASSUME resolved' \subseteq resolved PROVE \E r \in resolved : DOMAIN q.at = DOMAIN r.at
  BY <1>1
<1>2. ASSUME NEW kind, NEW S \in SUBSET Existing, Resolve(kind, S)
      PROVE  q \in resolved \/ DOMAIN q.at \subseteq Existing
  BY <1>2 DEF Resolve, Request, Mapping
<1>3. ASSUME NEW D, NEW k, resolved' = Forget(D, k)
      PROVE  \E r \in resolved : DOMAIN q.at = DOMAIN r.at
  <2>1. PICK r \in resolved :
          q = [r EXCEPT !.at = [u \in DOMAIN r.at |-> IF u[1] \in D /\ r.at[u] = k THEN NoCheck ELSE r.at[u]]]
    BY <1>3 DEF Forget
  <2>2. r = Request(r.kind, r.at)
    BY DEF IInv, RequestsGood
  <2>3. "at" \in DOMAIN r
    BY <2>2 DEF Request
  <2>4. q.at = [u \in DOMAIN r.at |-> IF u[1] \in D /\ r.at[u] = k THEN NoCheck ELSE r.at[u]]
    BY <2>1, <2>3
  <2> QED BY <2>4
<1> QED
  <2>0. ASSUME resolved' = resolved \/ \E D, k : resolved' = Forget(D, k)
        PROVE  \E r \in resolved : DOMAIN q.at = DOMAIN r.at
    BY <2>0, <1>1, <1>3
  <2>1. CASE Order
    <3>1. CASE SubmitOrder
      BY <3>1, <1>1 DEF SubmitOrder
    <3> QED BY ONLY <2>0, <2>1, <3>1, TillKeepsUnits DEF Order
  <2>2. CASE Restructure
    BY ONLY <2>0, <2>2, TillKeepsUnits
  <2>3. CASE Pay
    BY ONLY <2>0, <2>3, TillKeepsUnits
  <2>4. CASE Prepare
    BY <2>4, <1>1 DEF Prepare, AdvanceUnits, WasteUnit, AcknowledgeAlert, RemakeUnit, CorrectState
  <2>5. CASE Correct
    <3>1. ASSUME NEW S \in SUBSET Active, ResolveCancellation(S)
          PROVE  q \in resolved \/ DOMAIN q.at \subseteq Existing
      BY <3>1, <1>2, ExistingPart DEF ResolveCancellation
    <3>2. ASSUME NEW u \in Existing, ResolveComp(u)
          PROVE  q \in resolved \/ DOMAIN q.at \subseteq Existing
      BY <3>2, <1>2 DEF ResolveComp
    <3>3. ASSUME NEW r, CancelUnits(r) \/ CompWaste(r) \/ Abandon(r) PROVE q \in resolved
      BY <3>3 DEF CancelUnits, CompWaste, Abandon
    <3> QED BY <2>5, <3>1, <3>2, <3>3 DEF Correct
  <2>6. CASE CloseServiceSession
    BY <2>6, <1>1 DEF CloseServiceSession
  <2>7. CASE UNCHANGED vars
    BY <2>7, <1>1 DEF vars
  <2> QED BY <2>1, <2>2, <2>3, <2>4, <2>5, <2>6, <2>7 DEF Next

\* Tags are inductive.
LEMMA NextTags == IInv /\ TagsGood /\ [Next]_vars => TagsGood'
<1> SUFFICES ASSUME IInv, TagsGood, [Next]_vars PROVE TagsGood'
  OBVIOUS
<1>1. \A u \in Units : Follows(unit[u], unit'[u])
  BY RowsFollow
<1>2. Units' = Units
  BY DEF Units, Numbers
<1>3. Existing \subseteq Existing'
  BY <1>1, <1>2 DEF Existing, Follows
<1>4. \A u \in Units' : Tags(unit[u])'
  BY <1>1, <1>2 DEF Follows, Tags
<1>5. \A q \in resolved' : DOMAIN q.at \subseteq Existing'
  BY <1>3, RequestsFollow DEF TagsGood
<1> QED BY <1>4, <1>5 DEF TagsGood

\* Rows, tags, charges and allocations together have their types.
LEMMA TypesFollow == IInv /\ MoneyGood /\ TagsGood => TypeOK
<1> SUFFICES ASSUME IInv, MoneyGood, TagsGood PROVE TypeOK
  OBVIOUS
<1>1. session \in {"ACTIVE", "CLOSED"}
  BY DEF IInv, DoneWhenClosed
<1>2. check \in [Checks -> CheckRow]
  BY DEF MoneyGood, ChargesGood, CheckGood
<1>3. \A i \in Items : alloc[i] \in Seq(Allocation)
  BY DEF MoneyGood, AllocationsGood, Fits
<1>4. ASSUME NEW u \in Units PROVE unit[u] \in UnitRow
  <2>1. RowGood(unit[u]) /\ Tags(unit[u])
    BY DEF IInv, UnitsGood, TagsGood
  <2>2. unit[u].on \in Checks \cup {NoCheck}
    BY <2>1 DEF Tags, MoneyGood, AdjustmentsGood
  <2>3. PICK row : row = unit[u]
    OBVIOUS
  <2> QED BY <2>1, <2>2, <2>3 DEF RowGood, Tags, Fields, UnitRow
<1>5. unit \in [Units -> UnitRow]
  BY <1>4 DEF IInv, UnitsGood
<1>6. \A r \in resolved : r.kind \in {"CANCEL", "COMP"} /\ DOMAIN r.at \subseteq Existing
  BY DEF IInv, RequestsGood, TagsGood
<1> QED BY <1>1, <1>2, <1>3, <1>5, <1>6 DEF TypeOK

\* Every row has its type, no stored charge or receipt is below zero, and a request
\* in flight names units that exist.
THEOREM TypeCorrect == Spec => []TypeOK
<1>1. Init => IInv /\ MoneyGood /\ TagsGood
  <2>1. Init => TagsGood
    BY DEF Init, TagsGood, Tags, NoUnit, Fields
  <2> QED BY <2>1, InitIInv, InitMoney
<1>2. (IInv /\ MoneyGood /\ TagsGood) /\ [Next]_vars => (IInv /\ MoneyGood /\ TagsGood)'
  BY NextIInv, NextMoney, NextTags
<1> QED BY <1>1, <1>2, TypesFollow, PTL DEF Spec

-----------------------------------------------------------------------------
(* The Session's tab.                                                      *)

Amounts(row) == row.charge \in Nat /\ row.received \in Nat

\* What a Check is charged and has received are natural numbers.
LEMMA RowAmounts == MoneyGood => \A k \in Checks : Amounts(check[k])
BY DEF MoneyGood, ChargesGood, CheckGood, CheckRow, Amounts

\* What is due, owed and kept are sums of natural numbers.
LEMMA TabNumbers ==
  ASSUME MoneyGood
  PROVE  /\ \A k \in Checks : Balance(k) <= Due /\ Obligation(k) <= Owed
         /\ Due \in Nat /\ Owed \in Nat /\ Kept \in Nat
<1> DEFINE due == [k \in Checks |-> Balance(k)]
           owed == [k \in Checks |-> Obligation(k)]
           kept == [k \in Checks |-> check[k].received]
<1>1. \A k \in Checks : /\ due[k] \in Nat /\ owed[k] \in Nat /\ kept[k] \in Nat
                        /\ due[k] = Balance(k) /\ owed[k] = Obligation(k)
  BY RowAmounts DEF Amounts, Balance, Obligation
<1>2. Due = Total(due, Checks) /\ Owed = Total(owed, Checks) /\ Kept = Total(kept, Checks)
  BY DEF Due, Owed, Kept
<1> HIDE DEF due, owed, kept
<1>3. Total(due, Checks) \in Nat /\ Total(owed, Checks) \in Nat /\ Total(kept, Checks) \in Nat
  BY <1>1, FiniteAssumption, TotalNat
<1>4. \A k \in Checks : due[k] <= Total(due, Checks) /\ owed[k] <= Total(owed, Checks)
  BY <1>1, FiniteAssumption, TotalTerm
<1> QED BY <1>1, <1>2, <1>3, <1>4

\* A step that leaves the Checks alone leaves the tab alone.
LEMMA TabStays ==
  ASSUME UNCHANGED <<session, check>>
  PROVE  UNCHANGED Tab!tabVars
<1>1. \A k \in Checks : Balance(k)' = Balance(k) /\ Obligation(k)' = Obligation(k)
  BY DEF Balance, Obligation
<1>2. Due' = Due /\ Owed' = Owed /\ Kept' = Kept
  BY <1>1 DEF Due, Owed, Kept
<1> QED BY <1>2 DEF Tab!tabVars

\* The tab moves by as much as the one Check that does.
LEMMA TabMoves ==
  ASSUME NEW k \in Checks, \A j \in Checks : Amounts(check[j]) /\ Amounts(check'[j]),
         \A j \in Checks \ {k} : /\ check'[j].charge = check[j].charge
                                 /\ check'[j].received = check[j].received
  PROVE  /\ Due' = Due + (Balance(k)' - Balance(k))
         /\ Owed' = Owed + (Obligation(k)' - Obligation(k))
         /\ Kept' = Kept + (check'[k].received - check[k].received)
<1>1. /\ \A j \in Checks : /\ Balance(j) \in Int /\ Balance(j)' \in Int
                           /\ Obligation(j) \in Int /\ Obligation(j)' \in Int
                           /\ check[j].received \in Int /\ check'[j].received \in Int
      /\ \A j \in Checks \ {k} : Balance(j)' = Balance(j) /\ Obligation(j)' = Obligation(j)
  BY DEF Amounts, Balance, Obligation
<1>2. Due' = Due + (Balance(k)' - Balance(k))
  <2> DEFINE f == [j \in Checks |-> Balance(j)]
             g == [j \in Checks |-> Balance(j)']
  <2>1. Due = Total(f, Checks) /\ Due' = Total(g, Checks)
    BY DEF Due
  <2>2. /\ \A j \in Checks : f[j] \in Int /\ g[j] \in Int
        /\ \A j \in Checks \ {k} : g[j] = f[j]
        /\ f[k] = Balance(k) /\ g[k] = Balance(k)'
    BY <1>1
  <2> HIDE DEF f, g
  <2> QED BY <2>1, <2>2, FiniteAssumption, TotalUpdate
<1>3. Owed' = Owed + (Obligation(k)' - Obligation(k))
  <2> DEFINE f == [j \in Checks |-> Obligation(j)]
             g == [j \in Checks |-> Obligation(j)']
  <2>1. Owed = Total(f, Checks) /\ Owed' = Total(g, Checks)
    BY DEF Owed
  <2>2. /\ \A j \in Checks : f[j] \in Int /\ g[j] \in Int
        /\ \A j \in Checks \ {k} : g[j] = f[j]
        /\ f[k] = Obligation(k) /\ g[k] = Obligation(k)'
    BY <1>1
  <2> HIDE DEF f, g
  <2> QED BY <2>1, <2>2, FiniteAssumption, TotalUpdate
<1>4. Kept' = Kept + (check'[k].received - check[k].received)
  <2> DEFINE f == [j \in Checks |-> check[j].received]
             g == [j \in Checks |-> check'[j].received]
  <2>1. Kept = Total(f, Checks) /\ Kept' = Total(g, Checks)
    BY DEF Kept
  <2>2. /\ \A j \in Checks : f[j] \in Int /\ g[j] \in Int
        /\ \A j \in Checks \ {k} : g[j] = f[j]
        /\ f[k] = check[k].received /\ g[k] = check'[k].received
    BY <1>1
  <2> HIDE DEF f, g
  <2> QED BY <2>1, <2>2, FiniteAssumption, TotalUpdate
<1> QED BY <1>2, <1>3, <1>4

\* A charge that goes from one Check that received nothing to another leaves the
\* tab alone.
LEMMA TabShifts ==
  ASSUME NEW from \in Checks, NEW to \in Checks, from # to, NEW moved \in Nat,
         UNCHANGED session,
         \A k \in Checks : Amounts(check[k]) /\ Amounts(check'[k]),
         \A k \in Checks \ {from, to} : check'[k] = check[k],
         \A k \in {from, to} : check[k].received = 0 /\ check'[k].received = 0,
         check'[from].charge = check[from].charge - moved,
         check'[to].charge = check[to].charge + moved
  PROVE  UNCHANGED Tab!tabVars
<1>1. /\ \A k \in Checks : /\ Balance(k) \in Int /\ Balance(k)' \in Int
                           /\ Obligation(k) \in Int /\ Obligation(k)' \in Int
      /\ \A k \in Checks \ {from, to} : Balance(k)' = Balance(k) /\ Obligation(k)' = Obligation(k)
  BY DEF Amounts, Balance, Obligation
<1>2. /\ \A k \in {from, to} : /\ Balance(k) = check[k].charge /\ Balance(k)' = check'[k].charge
                               /\ Obligation(k) = 0 /\ Obligation(k)' = 0
      /\ Balance(from)' + Balance(to)' = Balance(from) + Balance(to)
  <2>1. ASSUME NEW k \in {from, to}
        PROVE  /\ Balance(k) = check[k].charge /\ Balance(k)' = check'[k].charge
               /\ Obligation(k) = 0 /\ Obligation(k)' = 0
    <3>1. /\ check[k].charge \in Nat /\ check'[k].charge \in Nat
          /\ check[k].received = 0 /\ check'[k].received = 0
      BY DEF Amounts
    <3> QED BY <3>1 DEF Balance, Obligation
  <2>2. check[from].charge \in Nat /\ check[to].charge \in Nat
    BY DEF Amounts
  <2> QED BY <2>1, <2>2
<1>3. Due' = Due
  <2> DEFINE f == [k \in Checks |-> Balance(k)]
             g == [k \in Checks |-> Balance(k)']
  <2>1. Due = Total(f, Checks) /\ Due' = Total(g, Checks)
    BY DEF Due
  <2>2. /\ \A k \in Checks : f[k] \in Int /\ g[k] \in Int
        /\ \A k \in Checks \ {from, to} : g[k] = f[k]
        /\ g[from] + g[to] = f[from] + f[to]
    BY <1>1, <1>2
  <2> HIDE DEF f, g
  <2> QED BY <2>1, <2>2, FiniteAssumption, TotalTransfer
<1>4. \A k \in Checks : Obligation(k)' = Obligation(k) /\ check'[k].received = check[k].received
  BY <1>1, <1>2
<1>5. Owed' = Owed /\ Kept' = Kept
  BY <1>4 DEF Owed, Kept
<1> QED BY <1>3, <1>5 DEF Tab!tabVars

\* A Split and a Merge work on Checks that never took money.
LEMMA RestructureKeepsTab ==
  ASSUME MoneyGood, MoneyGood'
  PROVE  /\ \A from, to \in Checks, move \in Moves :
               SplitCheck(from, to, move) => UNCHANGED Tab!tabVars
         /\ \A surviving, absorbed \in Checks :
               MergeChecks(surviving, absorbed) => UNCHANGED Tab!tabVars
<1>1. /\ check = [k \in Checks |-> check[k]]
      /\ \A k \in Checks : CheckGood(check[k]) /\ Amounts(check[k]) /\ Amounts(check'[k])
  <2>1. check = [k \in Checks |-> check[k]] /\ \A k \in Checks : CheckGood(check[k])
    BY DEF MoneyGood, ChargesGood
  <2>2. \A k \in Checks : CheckGood(check'[k])
    BY DEF MoneyGood, ChargesGood
  <2> QED BY <2>1, <2>2 DEF CheckGood, CheckRow, Amounts
<1>2. ASSUME NEW from \in Checks, NEW to \in Checks, NEW move \in Moves,
             SplitCheck(from, to, move)
      PROVE  UNCHANGED Tab!tabVars
  <2>1. PICK moved \in Nat : moved = Total([i \in Items |-> Price[i] * move[i]], Items)
    BY MoveCosts
  <2>2. /\ from # to /\ UNCHANGED session /\ ~check[from].paid
        /\ check[to].state = "ABSENT" \/ ~check[to].paid
        /\ check' = [check EXCEPT ![from].charge = @ - moved,
                                  ![to].state = "OPEN", ![to].charge = @ + moved]
    BY <1>2, <2>1 DEF SplitCheck, Restructurable
  <2>3. check[from].received = 0 /\ check[to].received = 0
    BY <1>1, <2>2 DEF CheckGood
  <2>4. /\ check'[from] = [check[from] EXCEPT !.charge = @ - moved]
        /\ check'[to] = [check[to] EXCEPT !.state = "OPEN", !.charge = @ + moved]
        /\ \A k \in Checks \ {from, to} : check'[k] = check[k]
    BY <1>1, <2>2
  <2>5. /\ check'[from].charge = check[from].charge - moved
        /\ check'[from].received = check[from].received
    <3>1. check[from] \in CheckRow
      BY <1>1 DEF CheckGood
    <3> QED BY <2>4, <3>1 DEF CheckRow
  <2>6. /\ check'[to].charge = check[to].charge + moved
        /\ check'[to].received = check[to].received
    <3>1. check[to] \in CheckRow
      BY <1>1 DEF CheckGood
    <3> QED BY <2>4, <3>1 DEF CheckRow
  <2>7. \A k \in {from, to} : check[k].received = 0 /\ check'[k].received = 0
    BY <2>3, <2>5, <2>6
  <2>8. UNCHANGED session /\ \A k \in Checks : Amounts(check[k]) /\ Amounts(check'[k])
    BY <1>1, <2>2
  <2>9. from # to /\ \A k \in Checks \ {from, to} : check'[k] = check[k]
    BY <2>2, <2>4
  <2>10. /\ check'[from].charge = check[from].charge - moved
         /\ check'[to].charge = check[to].charge + moved
    BY <2>5, <2>6
  <2> QED BY <2>7, <2>8, <2>9, <2>10, TabShifts
<1>3. ASSUME NEW surviving \in Checks, NEW absorbed \in Checks, MergeChecks(surviving, absorbed)
      PROVE  UNCHANGED Tab!tabVars
  <2>1. PICK moved \in Nat : moved = check[absorbed].charge
    BY <1>1 DEF Amounts
  <2>2. /\ surviving # absorbed /\ UNCHANGED session
        /\ ~check[surviving].paid /\ ~check[absorbed].paid
        /\ check' = [check EXCEPT ![surviving].charge = @ + moved,
                                  ![absorbed].state = "MERGED", ![absorbed].charge = 0]
    BY <1>3, <2>1 DEF MergeChecks, Restructurable
  <2>3. check[surviving].received = 0 /\ check[absorbed].received = 0
    BY <1>1, <2>2 DEF CheckGood
  <2>4. /\ check'[surviving] = [check[surviving] EXCEPT !.charge = @ + moved]
        /\ check'[absorbed] = [check[absorbed] EXCEPT !.state = "MERGED", !.charge = 0]
        /\ \A k \in Checks \ {surviving, absorbed} : check'[k] = check[k]
    BY <1>1, <2>2
  <2>5. /\ check'[surviving].charge = check[surviving].charge + moved
        /\ check'[surviving].received = check[surviving].received
    <3>1. check[surviving] \in CheckRow
      BY <1>1 DEF CheckGood
    <3> QED BY <2>4, <3>1 DEF CheckRow
  <2>6. /\ check'[absorbed].charge = check[absorbed].charge - moved
        /\ check'[absorbed].received = check[absorbed].received
    <3>1. check[absorbed] \in CheckRow
      BY <1>1 DEF CheckGood
    <3>2. check'[absorbed].charge = 0 /\ check'[absorbed].received = check[absorbed].received
      BY <2>4, <3>1 DEF CheckRow
    <3> QED BY <2>1, <3>2
  <2>7. \A k \in {absorbed, surviving} : check[k].received = 0 /\ check'[k].received = 0
    BY <2>3, <2>5, <2>6
  <2>8. UNCHANGED session /\ \A k \in Checks : Amounts(check[k]) /\ Amounts(check'[k])
    BY <1>1, <2>2
  <2>9. absorbed # surviving /\ \A k \in Checks \ {absorbed, surviving} : check'[k] = check[k]
    BY <2>2, <2>4
  <2>10. /\ check'[absorbed].charge = check[absorbed].charge - moved
         /\ check'[surviving].charge = check[surviving].charge + moved
    BY <2>5, <2>6
  <2> QED BY <2>7, <2>8, <2>9, <2>10, TabShifts
<1> QED BY <1>2, <1>3

\* A draft goes on a Check that owes nothing back: it is wholly due.
LEMMA CommitIsCharge ==
  ASSUME MoneyGood, MoneyGood', NEW D \in SUBSET Items, NEW k \in Checks, CommitOrderDraft(D, k)
  PROVE  Tab!Charge
<1>1. PICK sum : sum = Total([i \in D |-> Price[i] * Quantity[i]], D)
  OBVIOUS
<1>2. /\ session = "ACTIVE" /\ session' = "ACTIVE" /\ D # {}
      /\ check[k].state \in {"ABSENT", "OPEN"}
      /\ check' = [check EXCEPT ![k].state = "OPEN", ![k].charge = @ + sum]
  BY <1>1 DEF CommitOrderDraft
<1>3. sum \in Nat /\ sum > 0
  <2> DEFINE f == [i \in D |-> Price[i] * Quantity[i]]
  <2>1. ASSUME NEW i \in D PROVE f[i] \in Nat /\ f[i] > 0
    <3>1. Price[i] \in Nat \ {0} /\ Quantity[i] \in Nat \ {0}
      BY PriceAssumption, QuantityAssumption
    <3>2. Price[i] * Quantity[i] \in Nat /\ Price[i] * Quantity[i] > 0
      BY ONLY <3>1
    <3> QED BY <3>2
  <2>2. IsFiniteSet(D) /\ sum = Total(f, D)
    BY <1>1, FiniteAssumption, FS_Subset
  <2>3. PICK i \in D : TRUE
    BY <1>2
  <2> HIDE DEF f
  <2>4. Total(f, D) \in Nat /\ f[i] <= Total(f, D)
    BY <2>1, <2>2, TotalNat, TotalTerm
  <2> QED BY <2>1, <2>2, <2>4
<1>4. /\ check = [j \in Checks |-> check[j]]
      /\ CheckGood(check[k]) /\ check[k] \in CheckRow
  BY DEF MoneyGood, ChargesGood, CheckGood
<1>5. /\ check'[k] = [check[k] EXCEPT !.state = "OPEN", !.charge = @ + sum]
      /\ \A j \in Checks \ {k} : check'[j] = check[j]
  BY <1>2, <1>4
<1>6. /\ check'[k].charge = check[k].charge + sum
      /\ check'[k].received = check[k].received
  BY <1>4, <1>5 DEF CheckRow
<1>7. \A j \in Checks : Amounts(check[j]) /\ Amounts(check'[j])
  BY RowAmounts DEF MoneyGood, ChargesGood, CheckGood, CheckRow, Amounts
<1>8. check[k].received <= check[k].charge
  BY <1>2, <1>4 DEF CheckGood
<1>9. /\ Due' = Due + (Balance(k)' - Balance(k))
      /\ Owed' = Owed + (Obligation(k)' - Obligation(k))
      /\ Kept' = Kept + (check'[k].received - check[k].received)
  BY <1>5, <1>7, TabMoves
<1>10. Balance(k)' = Balance(k) + sum /\ Obligation(k)' = 0 /\ Obligation(k) = 0 /\ Balance(k) \in Nat
  BY <1>3, <1>6, <1>7, <1>8 DEF Balance, Obligation, Amounts
<1>11. Due \in Nat /\ Owed \in Nat /\ Kept \in Nat
  BY TabNumbers
<1>12. Due' > Due /\ Owed' = Owed /\ Kept' = Kept
  BY <1>3, <1>6, <1>7, <1>9, <1>10, <1>11 DEF Amounts
<1> QED BY <1>2, <1>12 DEF Tab!Charge

\* A Payment is no larger than the balance of its Check, hence than what is due;
\* a Refund no larger than its obligation.
LEMMA PayMovesTab ==
  ASSUME MoneyGood, MoneyGood', NEW k \in Checks, NEW amount \in Nat
  PROVE  /\ RecordPayment(k, amount) => Tab!Receive
         /\ RecordRefund(k, amount) => Tab!GiveBack
<1>1. /\ check = [j \in Checks |-> check[j]] /\ check[k] \in CheckRow
      /\ \A j \in Checks : Amounts(check[j]) /\ Amounts(check'[j])
  <2>1. check = [j \in Checks |-> check[j]] /\ check[k] \in CheckRow
    BY DEF MoneyGood, ChargesGood, CheckGood
  <2>2. \A j \in Checks : Amounts(check'[j])
    BY DEF MoneyGood, ChargesGood, CheckGood, CheckRow, Amounts
  <2> QED BY <2>1, <2>2, RowAmounts
<1>2. Due \in Nat /\ Owed \in Nat /\ Kept \in Nat /\ Balance(k) <= Due /\ Obligation(k) <= Owed
  BY TabNumbers
<1>3. ASSUME RecordPayment(k, amount)
      PROVE  Tab!Receive
  <2>1. /\ session = "ACTIVE" /\ session' = "ACTIVE"
        /\ amount # 0 /\ check[k].received + amount <= check[k].charge
    BY <1>3 DEF RecordPayment
  <2>2. PICK state : check' = [check EXCEPT ![k].received = @ + amount, ![k].paid = TRUE,
                                            ![k].state = state]
    <3> DEFINE state == IF check[k].received + amount = check[k].charge THEN "SETTLED"
                        ELSE check[k].state
    <3>1. check' = [check EXCEPT ![k].received = @ + amount, ![k].paid = TRUE, ![k].state = state]
      BY <1>3 DEF RecordPayment
    <3> QED BY <3>1
  <2>3. /\ check'[k] = [check[k] EXCEPT !.received = @ + amount, !.paid = TRUE, !.state = state]
        /\ \A j \in Checks \ {k} : check'[j] = check[j]
    BY <1>1, <2>2
  <2>4. check'[k].charge = check[k].charge /\ check'[k].received = check[k].received + amount
    BY <1>1, <2>3 DEF CheckRow
  <2>5. /\ Due' = Due + (Balance(k)' - Balance(k))
        /\ Owed' = Owed + (Obligation(k)' - Obligation(k))
        /\ Kept' = Kept + (check'[k].received - check[k].received)
    BY <1>1, <2>3, TabMoves
  <2>6. /\ Balance(k)' = Balance(k) - amount /\ amount <= Balance(k) /\ Balance(k) \in Nat
        /\ Obligation(k)' = 0 /\ Obligation(k) = 0
    BY <1>1, <2>1, <2>4 DEF Balance, Obligation, Amounts
  <2>7. Due' = Due - amount /\ Owed' = Owed /\ Kept' = Kept + amount
    BY <1>1, <1>2, <2>4, <2>5, <2>6 DEF Amounts
  <2>8. amount \in 1 .. Due
    BY <1>2, <2>1, <2>6
  <2> QED BY <2>1, <2>7, <2>8 DEF Tab!Receive
<1>4. ASSUME RecordRefund(k, amount)
      PROVE  Tab!GiveBack
  <2>1. /\ session = "ACTIVE" /\ session' = "ACTIVE"
        /\ amount \in 1 .. Obligation(k)
        /\ check' = [check EXCEPT ![k].received = @ - amount]
    BY <1>4 DEF RecordRefund
  <2>2. /\ check'[k] = [check[k] EXCEPT !.received = @ - amount]
        /\ \A j \in Checks \ {k} : check'[j] = check[j]
    BY <1>1, <2>1
  <2>3. check'[k].charge = check[k].charge /\ check'[k].received = check[k].received - amount
    BY <1>1, <2>2 DEF CheckRow
  <2>4. /\ Due' = Due + (Balance(k)' - Balance(k))
        /\ Owed' = Owed + (Obligation(k)' - Obligation(k))
        /\ Kept' = Kept + (check'[k].received - check[k].received)
    BY <1>1, <2>2, TabMoves
  <2>5. amount \in Nat \ {0} /\ amount <= Obligation(k) /\ Obligation(k) \in Nat
    BY <1>1, <2>1 DEF Obligation, Amounts
  <2>6. /\ Balance(k)' = 0 /\ Balance(k) = 0 /\ Obligation(k)' = Obligation(k) - amount
    BY <1>1, <2>3, <2>5 DEF Balance, Obligation, Amounts
  <2>7. Due' = Due /\ Owed' = Owed - amount /\ Kept' = Kept - amount
    BY <1>1, <1>2, <2>3, <2>4, <2>5, <2>6 DEF Amounts
  <2>8. amount \in 1 .. Owed
    BY <1>2, <2>5
  <2> QED BY <2>1, <2>7, <2>8 DEF Tab!GiveBack
<1> QED BY <1>3, <1>4

\* Charges that fall take off what is due, or leave it owed back.
LEMMA RemovalIsTakeOff ==
  ASSUME MoneyGood, MoneyGood', NEW at, DOMAIN at \in SUBSET Units, Covered(at),
         check' = ChargesAfter(at), session = "ACTIVE", UNCHANGED session
  PROVE  Tab!TakeOff
<1>1. ASSUME NEW k \in Checks
      PROVE  /\ check'[k].received = check[k].received
             /\ Balance(k)' <= Balance(k) /\ Obligation(k)' >= Obligation(k)
             /\ Balance(k) \in Int /\ Obligation(k) \in Int
             /\ Balance(k)' \in Int /\ Obligation(k)' \in Int
  <2>1. /\ ChargesAfter(at)[k].charge = check[k].charge - Prices(Gone(at, k))
        /\ Prices(Gone(at, k)) \in Nat /\ ChargesAfter(at)[k].received = check[k].received
    BY ChargesAfterGood
  <2>2. Amounts(check[k])
    BY RowAmounts
  <2>3. Amounts(check'[k])
    BY DEF MoneyGood, ChargesGood, CheckGood, CheckRow, Amounts
  <2>4. check'[k].charge <= check[k].charge /\ check'[k].received = check[k].received
    <3>1. /\ check'[k].charge = check[k].charge - Prices(Gone(at, k))
          /\ check'[k].received = check[k].received
      BY <2>1
    <3> QED BY <2>1, <2>2, <3>1 DEF Amounts
  <2> QED BY <2>2, <2>3, <2>4 DEF Amounts, Balance, Obligation
<1>2. Kept' = Kept
  BY <1>1 DEF Kept
<1>3. Due' <= Due
  <2> DEFINE f == [k \in Checks |-> Balance(k)']
             g == [k \in Checks |-> Balance(k)]
  <2>1. Due' = Total(f, Checks) /\ Due = Total(g, Checks)
    BY DEF Due
  <2>2. \A k \in Checks : f[k] \in Int /\ g[k] \in Int /\ f[k] <= g[k]
    BY <1>1
  <2> HIDE DEF f, g
  <2> QED BY <2>1, <2>2, FiniteAssumption, TotalMonotone
<1>4. Owed' >= Owed
  <2> DEFINE f == [k \in Checks |-> Obligation(k)]
             g == [k \in Checks |-> Obligation(k)']
  <2>1. Owed = Total(f, Checks) /\ Owed' = Total(g, Checks)
    BY DEF Owed
  <2>2. \A k \in Checks : f[k] \in Int /\ g[k] \in Int /\ f[k] <= g[k]
    BY <1>1
  <2> HIDE DEF f, g
  <2>3. Total(f, Checks) <= Total(g, Checks)
    BY <2>2, FiniteAssumption, TotalMonotone
  <2>4. Total(f, Checks) \in Int /\ Total(g, Checks) \in Int
    BY <2>2, FiniteAssumption, TotalInt
  <2> QED BY <2>1, <2>3, <2>4
<1> QED BY <1>2, <1>3, <1>4 DEF Tab!TakeOff

\* A Session closes when every Check is covered and nothing is owed back: sums of
\* zeros.
LEMMA CloseIsClose ==
  ASSUME MoneyGood, MoneyGood', CloseServiceSession
  PROVE  Tab!Close
<1>1. session = "ACTIVE" /\ session' = "CLOSED" /\ UNCHANGED check
  BY DEF CloseServiceSession
<1>2. \A k \in Checks : check[k].received = check[k].charge
  BY <1>1 DEF MoneyGood, SquareWhenClosed
<1>3. \A k \in Checks : /\ Balance(k) = 0 /\ Obligation(k) = 0
                        /\ Balance(k)' = 0 /\ Obligation(k)' = 0
  BY <1>1, <1>2, RowAmounts DEF Amounts, Balance, Obligation
<1>4. ASSUME NEW f, \A k \in Checks : f[k] = 0
      PROVE  Total(f, Checks) = 0
  BY <1>4, FiniteAssumption, TotalZero
<1>5. Due = 0 /\ Due' = 0 /\ Owed = 0 /\ Owed' = 0
  BY <1>3, <1>4 DEF Due, Owed
<1>6. Kept' = Kept
  BY <1>1 DEF Kept
<1> QED BY <1>1, <1>5, <1>6 DEF Tab!Close

\* Before anything is ordered the tab is empty.
LEMMA InitTab == Init => Tab!TabInit
<1> SUFFICES ASSUME Init
             PROVE  Tab!TabInit
  OBVIOUS
<1>1. session = "ACTIVE" /\ \A k \in Checks : check[k].charge = 0 /\ check[k].received = 0
  BY DEF Init
<1>2. \A k \in Checks : Balance(k) = 0 /\ Obligation(k) = 0
  BY <1>1 DEF Balance, Obligation
<1>3. ASSUME NEW f, \A k \in Checks : f[k] = 0
      PROVE  Total(f, Checks) = 0
  BY <1>3, FiniteAssumption, TotalZero
<1>4. Due = 0 /\ Owed = 0 /\ Kept = 0
  BY <1>1, <1>2, <1>3 DEF Due, Owed, Kept
<1> QED BY <1>1, <1>4 DEF Tab!TabInit

\* Every command is a step of the tab, or leaves it alone.
LEMMA StepKeepsTab == IInv /\ MoneyGood /\ MoneyGood' /\ [Next]_vars => [Tab!TabNext]_(Tab!tabVars)
<1> SUFFICES ASSUME IInv, MoneyGood, MoneyGood', [Next]_vars
             PROVE  [Tab!TabNext]_(Tab!tabVars)
  OBVIOUS
<1>1. CASE Order
  <2>1. ASSUME NEW D \in SUBSET Items, NEW k \in Checks, CommitOrderDraft(D, k)
        PROVE  Tab!TabNext
    BY <2>1, CommitIsCharge DEF Tab!TabNext
  <2>2. ASSUME SubmitOrder
        PROVE  UNCHANGED Tab!tabVars
    BY <2>2, TabStays DEF SubmitOrder
  <2> QED BY <1>1, <2>1, <2>2 DEF Order
<1>2. CASE Restructure
  BY <1>2, RestructureKeepsTab DEF Restructure
<1>3. CASE Pay
  <2>1. ASSUME NEW k \in Checks, NEW amount \in 1 .. check[k].charge, RecordPayment(k, amount)
        PROVE  Tab!TabNext
    <3>1. amount \in Nat
      OBVIOUS
    <3> QED BY <2>1, <3>1, PayMovesTab DEF Tab!TabNext
  <2>2. ASSUME NEW k \in Checks, NEW amount \in 1 .. check[k].received, RecordRefund(k, amount)
        PROVE  Tab!TabNext
    <3>1. amount \in Nat
      OBVIOUS
    <3> QED BY <2>2, <3>1, PayMovesTab DEF Tab!TabNext
  <2> QED BY <1>3, <2>1, <2>2 DEF Pay
<1>4. CASE Prepare
  <2>1. UNCHANGED <<session, check>>
    BY <1>4 DEF Prepare, AdvanceUnits, WasteUnit, AcknowledgeAlert, RemakeUnit, CorrectState
  <2> QED BY <2>1, TabStays
<1>5. CASE Correct
  <2>1. ASSUME NEW S, NEW u, NEW r,
               ResolveCancellation(S) \/ ResolveComp(u) \/ Abandon(r)
        PROVE  UNCHANGED Tab!tabVars
    <3>1. UNCHANGED <<session, check>>
      BY <2>1 DEF ResolveCancellation, ResolveComp, Resolve, Abandon
    <3> QED BY <3>1, TabStays
  <2>2. ASSUME NEW r \in resolved, CancelUnits(r)
        PROVE  Tab!TabNext
    <3>1. /\ DOMAIN r.at \in SUBSET Units /\ Covered(r.at) /\ check' = ChargesAfter(r.at)
          /\ session = "ACTIVE" /\ UNCHANGED session
      BY <2>2 DEF IInv, RequestsGood, CancelUnits
    <3> QED BY <3>1, RemovalIsTakeOff DEF Tab!TabNext
  <2>3. ASSUME NEW r \in resolved, CompWaste(r)
        PROVE  [Tab!TabNext]_(Tab!tabVars)
    <3>1. UNCHANGED session /\ DOMAIN r.at \in SUBSET Units
      BY <2>3 DEF IInv, RequestsGood, CompWaste
    <3>2. CASE session = "ACTIVE"
      <4>1. Covered(r.at) /\ check' = ChargesAfter(r.at)
        BY <2>3, <3>2 DEF CompWaste
      <4> QED BY <3>1, <3>2, <4>1, RemovalIsTakeOff DEF Tab!TabNext
    <3>3. CASE session = "CLOSED"
      <4>1. UNCHANGED check
        BY <2>3, <3>3 DEF CompWaste
      <4> QED BY <3>1, <4>1, TabStays
    <3> QED BY <2>3, <3>2, <3>3 DEF CompWaste
  <2> QED BY <1>5, <2>1, <2>2, <2>3 DEF Correct
<1>6. CASE CloseServiceSession
  BY <1>6, CloseIsClose DEF Tab!TabNext
<1>7. CASE UNCHANGED vars
  BY <1>7, TabStays DEF vars
<1> QED BY <1>1, <1>2, <1>3, <1>4, <1>5, <1>6, <1>7 DEF Next

\* However often its Checks are split and merged, and whatever is cancelled or
\* comped meanwhile, the Session stays one tab, closed square.
THEOREM KitchenKeepsTab == Spec => ImplementsSaleTab
<1>1. (IInv /\ MoneyGood) /\ (IInv /\ MoneyGood)' /\ [Next]_vars => [Tab!TabNext]_(Tab!tabVars)
  BY StepKeepsTab
<1> QED BY InitTab, MoneyInvariance, <1>1, PTL DEF Spec, ImplementsSaleTab, Tab!TabSpec
=============================================================================
