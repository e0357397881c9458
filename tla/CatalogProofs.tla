--------------------------- MODULE CatalogProofs ---------------------------
(***************************************************************************)
(* That a replace command leaves the set it was asked for, that a sale is  *)
(* at the terms it froze, ADR-059's rule of exclusions, and that edits do  *)
(* not deadlock, for any menu and any number of commands.                  *)
(*                                                                         *)
(* The argument is one of locks.  Whatever a structure command changes, it *)
(* holds both ends of (TouchesHeld), so what another has read about rows   *)
(* it holds itself stands until that one ends (Reads), and so does what it *)
(* has checked and deleted (Promise).  Edits lock in one order (Ordered),  *)
(* so of a circle of waits the soonest row could not be waited for.        *)
(***************************************************************************)
EXTENDS Catalog, TLAPS, WellFoundedInduction

\* What kind of rows a command names.
Placed(t) ==
    /\ txn[t].op \in {"attach", "exclude", "regroup"} =>
         txn[t].on \in Items /\ txn[t].want \subseteq Groups /\ txn[t].also \subseteq Groups
    /\ txn[t].op = "move" => txn[t].on \in Items /\ txn[t].also = {}
                             /\ \E c \in Categories : txn[t].want = {c}
    /\ txn[t].op \in {"provide", "offer"} =>
         txn[t].on \in Categories /\ txn[t].want \subseteq Groups /\ txn[t].also = {}
    /\ txn[t].op = "assign" =>
         txn[t].on \in Groups /\ txn[t].want \subseteq Items /\ txn[t].also \subseteq Categories
    /\ txn[t].op = "create" => txn[t].on \in Categories /\ \E i \in Items : txn[t].want = {i}
    /\ txn[t].op = "sell" => /\ txn[t].want \subseteq Sold /\ txn[t].also = {}
                             /\ txn[t].saw \subseteq Groups /\ txn[t].sawAlso = {}

\* A command holds, or has still to lock, the rows it is about.
Covered(t) ==
    /\ txn[t].op = "idle" => txn[t].held = {} /\ txn[t].todo = {}
    /\ txn[t].op \in Structure /\ txn[t].held # {} =>
         /\ txn[t].on \in txn[t].held
         /\ LockNext(t, txn[t].saw, txn[t].sawAlso) \subseteq txn[t].held \cup txn[t].todo
    /\ txn[t].op \in {"retire", "restate"} => txn[t].want \subseteq txn[t].held \cup txn[t].todo
    /\ txn[t].op = "sell" => txn[t].want = txn[t].held \cup txn[t].todo
    /\ txn[t].op = "create" => {txn[t].on} = txn[t].held \cup txn[t].todo
    /\ txn[t].written => txn[t].op \in Structure /\ txn[t].held # {} /\ txn[t].todo = {}
    /\ txn[t].held \cap Items \subseteq Created

\* What was read under the first lock is still so.
Reads(t) ==
    txn[t].op \in Structure /\ txn[t].held # {} =>
      /\ txn[t].op \in {"attach", "provide", "exclude"} => txn[t].saw = {}
      /\ txn[t].op = "regroup" => txn[t].saw = Seconds(direct, txn[t].on)
      /\ txn[t].op = "offer" => txn[t].saw = Seconds(provides, txn[t].on)
      /\ txn[t].op = "assign" => /\ txn[t].saw = Firsts(direct, txn[t].on)
                                 /\ txn[t].sawAlso = Firsts(provides, txn[t].on)
      /\ txn[t].op = "move" => txn[t].saw = {category[txn[t].on]}

\* What was checked is still so, and no exclusion has slipped past the deletion.
Promise(t) ==
    txn[t].written =>
      /\ \A g \in MustProvide(t) : <<category[txn[t].on], g>> \in provides
      /\ Orphans(t) \subseteq txn[t].gone

\* What a sale holds is for sale at the terms it froze.
SaleHolds(t) ==
    txn[t].op = "sell" =>
      \A r \in txn[t].held :
        r \notin retired /\ terms[r] # 0 /\ <<r, terms[r]>> \in txn[t].priced

\* The item being created is nobody else's.
Fresh(t) ==
    txn[t].op = "create" =>
      /\ \A i \in txn[t].want : category[i] = 0
      /\ \A u \in Txns \ {t} : txn[u].op = "create" => txn[u].want \cap txn[t].want = {}

Exclusive ==
    \A t, u \in Txns :
        t # u => txn[t].held \cap txn[u].held = {} \/ (txn[t].op = "sell" /\ txn[u].op = "sell")

TxnInv(t) ==
    Placed(t) /\ Covered(t) /\ Reads(t) /\ Promise(t) /\ SaleHolds(t) /\ Fresh(t)

IInv == TypeOK /\ Exclusive /\ ExclusionsProvided /\ \A t \in Txns : TxnInv(t)

-----------------------------------------------------------------------------
(* Commands and their steps.                                               *)

\* A transaction's command has its type.
LEMMA Types ==
  ASSUME TypeOK, NEW t \in Txns
  PROVE  txn[t] \in Command
BY DEF TypeOK

\* The record of a transaction that runs nothing is a command.
LEMMA IdleTypes == Idle \in Command
BY DEF Idle, Command

\* A command that locked rows, read assignments or wrote its differences is a command.
LEMMA StepOfCommand ==
  ASSUME NEW d \in Command, NEW held \in SUBSET Rows, NEW todo \in SUBSET Rows,
         NEW saw \in SUBSET Rows, NEW sawAlso \in SUBSET Rows,
         NEW gone \in SUBSET (Items \X Groups)
  PROVE  /\ [d EXCEPT !.held = held, !.saw = saw, !.sawAlso = sawAlso, !.todo = todo] \in Command
         /\ [d EXCEPT !.todo = todo, !.held = held] \in Command
         /\ [d EXCEPT !.written = TRUE, !.gone = gone] \in Command
<1>1. [d EXCEPT !.held = held, !.saw = saw, !.sawAlso = sawAlso, !.todo = todo] \in Command
  BY DEF Command
<1>2. [d EXCEPT !.todo = todo, !.held = held] \in Command
  BY DEF Command
<1>3. [d EXCEPT !.written = TRUE, !.gone = gone] \in Command
  BY DEF Command
<1> QED BY <1>1, <1>2, <1>3

\* One command's step leaves the others where they are.
LEMMA StepTypes ==
  ASSUME TypeOK, NEW t \in Txns, NEW c \in Command, txn' = [txn EXCEPT ![t] = c]
  PROVE  /\ txn' \in [Txns -> Command]
         /\ txn'[t] = c
         /\ \A u \in Txns \ {t} : txn'[u] = txn[u]
BY DEF TypeOK

\* What a command's invariant says is said of the menu and of that command,
\* except that nobody else is creating its item.
LEMMA MenuSame ==
  ASSUME NEW u \in Txns, TxnInv(u), txn'[u] = txn[u], UNCHANGED menu
  PROVE  Placed(u)' /\ Covered(u)' /\ Reads(u)' /\ Promise(u)' /\ SaleHolds(u)'
<1> USE DEF menu
<1>1. Placed(u)'
  BY DEF TxnInv, Placed
<1>2. Covered(u)'
  BY DEF TxnInv, Covered, LockNext, Created
<1>3. Reads(u)'
  BY DEF TxnInv, Reads, Seconds, Firsts
<1>4. Promise(u)'
  BY DEF TxnInv, Promise, MustProvide, Orphans, ProvidesRemoved, Pairs, Owned
<1>5. SaleHolds(u)'
  BY DEF TxnInv, SaleHolds
<1> QED BY <1>1, <1>2, <1>3, <1>4, <1>5

\* Exclusions are provided as long as the menu's relations stay.
LEMMA ExclusionsSame ==
  ASSUME ExclusionsProvided, UNCHANGED menu
  PROVE  ExclusionsProvided'
BY DEF menu, ExclusionsProvided

\* A step that leaves the menu alone keeps every type when the commands keep theirs.
LEMMA MenuTypes ==
  ASSUME TypeOK, UNCHANGED menu, txn' \in [Txns -> Command]
  PROVE  TypeOK'
BY DEF menu, TypeOK

\* Nobody creates the item another is creating, while neither changes its mind.
LEMMA FreshSame ==
  ASSUME NEW t \in Txns, NEW u \in Txns, Fresh(u), txn'[u] = txn[u],
         \A v \in Txns \ {t} : txn'[v] = txn[v],
         \A i \in txn[u].want : category[i] = 0 => category'[i] = 0,
         txn'[t].op # "create" \/ (txn'[t].op = txn[t].op /\ txn'[t].want = txn[t].want)
  PROVE  Fresh(u)'
BY DEF Fresh

\* A command that ends holds nothing and promises nothing.
LEMMA Released ==
  ASSUME TypeOK, Exclusive, NEW t \in Txns, Release(t)
  PROVE  /\ txn' \in [Txns -> Command]
         /\ txn'[t] = Idle
         /\ \A u \in Txns \ {t} : txn'[u] = txn[u]
         /\ TxnInv(t)' /\ Exclusive'
<1>1. /\ txn' \in [Txns -> Command]
      /\ txn'[t] = Idle
      /\ \A u \in Txns \ {t} : txn'[u] = txn[u]
  BY IdleTypes, StepTypes DEF Release
<1>2. /\ txn'[t].op = "idle" /\ txn'[t].held = {} /\ txn'[t].todo = {} /\ txn'[t].written = FALSE
  BY <1>1 DEF Idle
<1>3. TxnInv(t)'
  BY <1>2 DEF TxnInv, Placed, Covered, Reads, Promise, SaleHolds, Fresh, Structure
<1>4. Exclusive'
  BY <1>1, <1>2 DEF Exclusive
<1> QED BY <1>1, <1>3, <1>4

\* A command that ends without a word about the menu.
LEMMA EndsQuietly ==
  ASSUME IInv, NEW t \in Txns, Release(t), UNCHANGED menu
  PROVE  IInv'
<1>1. /\ txn' \in [Txns -> Command]
      /\ txn'[t] = Idle
      /\ \A u \in Txns \ {t} : txn'[u] = txn[u]
      /\ TxnInv(t)' /\ Exclusive'
  BY Released DEF IInv
<1>2. TypeOK' /\ ExclusionsProvided'
  BY <1>1, MenuTypes, ExclusionsSame DEF IInv
<1>3. ASSUME NEW u \in Txns \ {t} PROVE TxnInv(u)'
  <2>1. TxnInv(u) /\ txn'[u] = txn[u]
    BY <1>1 DEF IInv
  <2>2. Fresh(u)'
    BY <1>1, <2>1, FreshSame DEF menu, TxnInv, Idle
  <2> QED BY <2>1, <2>2, MenuSame DEF TxnInv
<1> QED BY <1>1, <1>2, <1>3 DEF IInv

-----------------------------------------------------------------------------
(* Beginning.                                                              *)

\* A command is about rows of its kind, and will lock what it must.
WellBegun(t, op, on, want, also, first) ==
    /\ op \in {"create", "retire", "restate", "sell"} \cup Structure
    /\ on \in Rows \cup {0} /\ want \subseteq Rows /\ also \subseteq Rows /\ first \subseteq Rows
    /\ op \in {"attach", "exclude", "regroup"} =>
         on \in Items /\ want \subseteq Groups /\ also \subseteq Groups
    /\ op = "move" => on \in Items /\ also = {} /\ \E c \in Categories : want = {c}
    /\ op \in {"provide", "offer"} => on \in Categories /\ want \subseteq Groups /\ also = {}
    /\ op = "assign" => on \in Groups /\ want \subseteq Items /\ also \subseteq Categories
    /\ op = "create" =>
         /\ on \in Categories /\ first = {on}
         /\ \E i \in Items \ Created :
              want = {i} /\ \A u \in Txns : txn[u].op = "create" => i \notin txn[u].want
    /\ op \in {"retire", "restate"} => want \subseteq first
    /\ op = "sell" => want = first /\ also = {} /\ want \subseteq Sold

\* Starting any command of the catalog or of Sales keeps the invariant.
LEMMA BeginKeeps ==
  ASSUME IInv, NEW t \in Txns, NEW op, NEW on, NEW want, NEW also, NEW first,
         WellBegun(t, op, on, want, also, first), Begin(t, op, on, want, also, first)
  PROVE  IInv'
<1> DEFINE c == [Idle EXCEPT !.op = op, !.on = on, !.want = want, !.also = also, !.todo = first]
<1>1. c \in Command
  BY DEF Idle, Command, WellBegun
<1>2. /\ txn' \in [Txns -> Command]
      /\ txn'[t] = c
      /\ \A u \in Txns \ {t} : txn'[u] = txn[u]
      /\ UNCHANGED menu
  <2>1. txn' = [txn EXCEPT ![t] = c] /\ UNCHANGED menu
    BY DEF Begin
  <2> QED BY ONLY <1>1, <2>1, StepTypes, IInv DEF IInv
<1>3. /\ txn'[t].op = op /\ txn'[t].on = on /\ txn'[t].want = want /\ txn'[t].also = also
      /\ txn'[t].todo = first /\ txn'[t].held = {} /\ txn'[t].written = FALSE
      /\ txn'[t].saw = {} /\ txn'[t].sawAlso = {}
  BY <1>2 DEF Idle
<1> HIDE DEF c
<1>4. TypeOK' /\ ExclusionsProvided'
  BY <1>2, MenuTypes, ExclusionsSame DEF IInv
<1>5. Exclusive'
  BY <1>2, <1>3 DEF IInv, Exclusive
<1>6. ASSUME NEW u \in Txns \ {t} PROVE TxnInv(u)'
  <2>1. TxnInv(u) /\ txn'[u] = txn[u]
    BY <1>2 DEF IInv
  <2>2. Fresh(u)'
    <3>1. category' = category
      BY <1>2 DEF menu
    <3> QED BY <1>2, <1>3, <2>1, <3>1 DEF TxnInv, Fresh, WellBegun
  <2> QED BY <1>2, <2>1, <2>2, MenuSame DEF TxnInv
<1>7. TxnInv(t)'
  <2>1. Placed(t)'
    BY <1>3 DEF Placed, WellBegun
  <2>2. Covered(t)'
    BY <1>3 DEF Covered, WellBegun, Structure
  <2>3. Reads(t)' /\ Promise(t)' /\ SaleHolds(t)'
    BY <1>3 DEF Reads, Promise, SaleHolds
  <2>4. Fresh(t)'
    <3>1. category' = category
      BY <1>2 DEF menu
    <3> QED BY <1>2, <1>3, <3>1 DEF Fresh, WellBegun, Created
  <2> QED BY <2>1, <2>2, <2>3, <2>4 DEF TxnInv
<1> QED BY <1>4, <1>5, <1>6, <1>7 DEF IInv

\* Every kind of row is a row, and so are the parents a list of rows is locked with.
LEMMA Kinds ==
  /\ Items \subseteq Rows /\ Categories \subseteq Rows /\ Groups \subseteq Rows /\ Parts \subseteq Rows
  /\ Created \subseteq Items /\ Sold \subseteq Rows
  /\ \A rows \in SUBSET Rows : WithParents(rows) \subseteq Rows /\ rows \subseteq WithParents(rows)
<1>1. \A p \in Parts : ParentOf[p] \in Rows
  BY ParentAssumption DEF Rows
<1> QED BY <1>1 DEF Rows, Created, Sold, WithParents

BeginNext(t) ==
    \/ AttachItem(t) \/ AttachCategory(t) \/ ExcludeInherited(t)
    \/ ReplaceItemGroups(t) \/ ReplaceCategoryGroups(t) \/ ReplaceGroupAssignments(t)
    \/ MoveItemCategory(t) \/ CreateItem(t) \/ Retire(t) \/ Restate(t) \/ Sell(t)

\* Every command is well begun.
LEMMA BeginsKeep ==
  ASSUME IInv, NEW t \in Txns, BeginNext(t)
  PROVE  IInv'
<1> USE Kinds
<1>1. CASE AttachItem(t)
  <2>1. PICK i \in Created, g \in Groups : Begin(t, "attach", i, {g}, {}, {i})
    BY <1>1 DEF AttachItem
  <2>2. WellBegun(t, "attach", i, {g}, {}, {i})
    BY DEF WellBegun, Structure
  <2> QED BY <2>1, <2>2, BeginKeeps
<1>2. CASE AttachCategory(t)
  <2>1. PICK c \in Categories, g \in Groups : Begin(t, "provide", c, {g}, {}, {c})
    BY <1>2 DEF AttachCategory
  <2>2. WellBegun(t, "provide", c, {g}, {}, {c})
    BY DEF WellBegun, Structure
  <2> QED BY <2>1, <2>2, BeginKeeps
<1>3. CASE ExcludeInherited(t)
  <2>1. PICK i \in Created, g \in Groups : Begin(t, "exclude", i, {g}, {}, {i})
    BY <1>3 DEF ExcludeInherited
  <2>2. WellBegun(t, "exclude", i, {g}, {}, {i})
    BY DEF WellBegun, Structure
  <2> QED BY <2>1, <2>2, BeginKeeps
<1>4. CASE ReplaceItemGroups(t)
  <2>1. PICK i \in Created, D, E \in SUBSET Groups : Begin(t, "regroup", i, D, E, {i})
    BY <1>4 DEF ReplaceItemGroups
  <2>2. WellBegun(t, "regroup", i, D, E, {i})
    BY DEF WellBegun, Structure
  <2> QED BY <2>1, <2>2, BeginKeeps
<1>5. CASE ReplaceCategoryGroups(t)
  <2>1. PICK c \in Categories, G \in SUBSET Groups : Begin(t, "offer", c, G, {}, {c})
    BY <1>5 DEF ReplaceCategoryGroups
  <2>2. WellBegun(t, "offer", c, G, {}, {c})
    BY DEF WellBegun, Structure
  <2> QED BY <2>1, <2>2, BeginKeeps
<1>6. CASE ReplaceGroupAssignments(t)
  <2>1. PICK g \in Groups, I \in SUBSET Created, C \in SUBSET Categories :
          Begin(t, "assign", g, I, C, {g})
    BY <1>6 DEF ReplaceGroupAssignments
  <2>2. WellBegun(t, "assign", g, I, C, {g})
    BY DEF WellBegun, Structure
  <2> QED BY <2>1, <2>2, BeginKeeps
<1>7. CASE MoveItemCategory(t)
  <2>1. PICK i \in Created, c \in Categories : Begin(t, "move", i, {c}, {}, {i})
    BY <1>7 DEF MoveItemCategory
  <2>2. WellBegun(t, "move", i, {c}, {}, {i})
    BY DEF WellBegun, Structure
  <2> QED BY <2>1, <2>2, BeginKeeps
<1>8. CASE CreateItem(t)
  <2>1. PICK i \in Items \ Created, c \in Categories :
          /\ \A u \in Txns : txn[u].op = "create" => i \notin txn[u].want
          /\ Begin(t, "create", c, {i}, {}, {c})
    BY <1>8 DEF CreateItem
  <2>2. WellBegun(t, "create", c, {i}, {}, {c})
    BY <2>1 DEF WellBegun, Structure
  <2> QED BY <2>1, <2>2, BeginKeeps
<1>9. CASE Retire(t)
  <2>1. PICK r \in Rows : Begin(t, "retire", 0, {r}, {}, WithParents({r}))
    BY <1>9 DEF Retire
  <2>2. WellBegun(t, "retire", 0, {r}, {}, WithParents({r}))
    BY DEF WellBegun, Structure
  <2> QED BY <2>1, <2>2, BeginKeeps
<1>10. CASE Restate(t)
  <2>1. PICK rows \in SUBSET (Created \cup Parts) : Begin(t, "restate", 0, rows, {}, WithParents(rows))
    BY <1>10 DEF Restate
  <2>2. rows \in SUBSET Rows
    OBVIOUS
  <2>3. WellBegun(t, "restate", 0, rows, {}, WithParents(rows))
    BY <2>2 DEF WellBegun, Structure
  <2> QED BY <2>1, <2>3, BeginKeeps
<1>11. CASE Sell(t)
  <2>1. PICK items \in SUBSET Created, parts \in SUBSET Parts :
          Begin(t, "sell", 0, items \cup parts, {}, items \cup parts)
    BY <1>11 DEF Sell
  <2>2. WellBegun(t, "sell", 0, items \cup parts, {}, items \cup parts)
    BY DEF WellBegun, Structure, Sold
  <2> QED BY <2>1, <2>2, BeginKeeps
<1> QED BY <1>1, <1>2, <1>3, <1>4, <1>5, <1>6, <1>7, <1>8, <1>9, <1>10, <1>11 DEF BeginNext
-----------------------------------------------------------------------------
(* Locking.                                                                *)

\* Taking a row that is free keeps the locks exclusive.
LEMMA LockKeepsExclusive ==
  ASSUME IInv, NEW t \in Txns, NEW r, Free(t, r),
         txn'[t].op = txn[t].op, txn'[t].held = txn[t].held \cup {r},
         \A u \in Txns \ {t} : txn'[u] = txn[u]
  PROVE  Exclusive'
BY DEF IInv, Exclusive, Free

\* A step of one command that leaves the menu, and what the command is, alone.
LEMMA LockKeepsOthers ==
  ASSUME IInv, NEW t \in Txns, UNCHANGED menu,
         \A u \in Txns \ {t} : txn'[u] = txn[u],
         txn'[t].op = txn[t].op, txn'[t].want = txn[t].want
  PROVE  (\A u \in Txns \ {t} : TxnInv(u)') /\ Fresh(t)'
<1>1. category' = category
  BY DEF menu
<1>2. ASSUME NEW u \in Txns \ {t} PROVE TxnInv(u)'
  <2>1. TxnInv(u) /\ txn'[u] = txn[u]
    BY DEF IInv
  <2>2. Fresh(u)'
    BY <1>1, <2>1, FreshSame DEF TxnInv
  <2> QED BY <2>1, <2>2, MenuSame DEF TxnInv
<1>3. Fresh(t)'
  BY <1>1 DEF IInv, TxnInv, Fresh
<1> QED BY <1>2, <1>3

\* The assignments a structural command reads are Groups or the rows that own them.
LEMMA ReadTypes ==
  ASSUME TypeOK, NEW t \in Txns, Placed(t), txn[t].op \in Structure,
         txn[t].on \in Items => txn[t].on \in Created
  PROVE  ReadSets(t)[1] \subseteq Rows /\ ReadSets(t)[2] \subseteq Rows
<1>1. txn[t].op = "move" => category[txn[t].on] \in Rows
  BY Kinds DEF Placed, Created, TypeOK
<1> QED BY <1>1 DEF ReadSets, Seconds, Firsts

\* Locking the row a structural command is about, where it reads its sets, keeps the invariant.
LEMMA LockSubjectKeeps ==
  ASSUME IInv, NEW t \in Txns, LockSubject(t)
  PROVE  IInv'
<1> DEFINE read == ReadSets(t)
           c == [txn[t] EXCEPT !.held = {txn[t].on}, !.saw = read[1], !.sawAlso = read[2],
                               !.todo = LockNext(t, read[1], read[2])]
<1>1. /\ txn[t].op \in Structure /\ txn[t].held = {} /\ CanLock(t, txn[t].on)
      /\ txn' = [txn EXCEPT ![t] = c] /\ UNCHANGED menu
      /\ TypeOK /\ TxnInv(t)
  BY DEF LockSubject, IInv
<1>2. read[1] \subseteq Rows /\ read[2] \subseteq Rows
  BY <1>1, ReadTypes DEF CanLock, TxnInv
<1>3. /\ txn[t].on \in Rows /\ txn[t].on \in txn[t].todo /\ Free(t, txn[t].on)
      /\ txn[t].on \in Items => txn[t].on \in Created
  BY <1>1, Types DEF CanLock, Command
<1>4. LockNext(t, read[1], read[2]) \subseteq Rows
  BY <1>1, <1>2, Types DEF LockNext, Command
<1>5. c \in Command
  <2>1. txn[t] \in Command /\ {txn[t].on} \in SUBSET Rows
    BY <1>1, <1>3, Types
  <2>2. {} \in SUBSET (Items \X Groups)
    OBVIOUS
  <2> HIDE DEF read
  <2> QED BY ONLY <1>2, <1>4, <2>1, <2>2, StepOfCommand
<1>6. /\ txn' \in [Txns -> Command]
      /\ txn'[t] = c
      /\ \A u \in Txns \ {t} : txn'[u] = txn[u]
  BY ONLY <1>1, <1>5, StepTypes
<1>7. /\ txn'[t].op = txn[t].op /\ txn'[t].on = txn[t].on
      /\ txn'[t].want = txn[t].want /\ txn'[t].also = txn[t].also
      /\ txn'[t].held = {txn[t].on} /\ txn'[t].saw = read[1] /\ txn'[t].sawAlso = read[2]
      /\ txn'[t].todo = LockNext(t, read[1], read[2]) /\ txn'[t].written = txn[t].written
  BY <1>1, <1>6, Types DEF Command
<1> HIDE DEF c, read
<1>8. TypeOK' /\ ExclusionsProvided'
  BY <1>1, <1>6, MenuTypes, ExclusionsSame DEF IInv
<1>9. Exclusive'
  BY <1>1, <1>3, <1>6, <1>7, LockKeepsExclusive
<1>10. (\A u \in Txns \ {t} : TxnInv(u)') /\ Fresh(t)'
  BY <1>1, <1>6, <1>7, LockKeepsOthers
<1>11. ~ txn[t].written /\ txn[t].op # "sell"
  BY <1>1 DEF TxnInv, Covered, Structure
<1>12. Placed(t)' /\ Promise(t)' /\ SaleHolds(t)'
  BY <1>1, <1>7, <1>11 DEF TxnInv, Placed, Promise, SaleHolds
<1>13. Covered(t)'
  <2>1. Created' = Created
    BY <1>1 DEF menu, Created
  <2>2. LockNext(t, txn[t].saw, txn[t].sawAlso)' = LockNext(t, read[1], read[2])
    BY <1>7 DEF LockNext
  <2> QED BY <1>1, <1>3, <1>7, <1>11, <2>1, <2>2 DEF Covered, Structure
<1>14. Reads(t)'
  BY <1>1, <1>7 DEF Reads, read, ReadSets, menu, Seconds, Firsts
<1> QED BY <1>8, <1>9, <1>10, <1>12, <1>13, <1>14 DEF IInv, TxnInv

\* Locking any other row of a catalog command keeps the invariant.
LEMMA LockRowKeeps ==
  ASSUME IInv, NEW t \in Txns, LockRow(t)
  PROVE  IInv'
<1>1. PICK r \in txn[t].todo :
        /\ CanLock(t, r)
        /\ txn' = [txn EXCEPT ![t].todo = @ \ {r}, ![t].held = @ \cup {r}]
  BY DEF LockRow
<1> DEFINE c == [txn[t] EXCEPT !.todo = @ \ {r}, !.held = @ \cup {r}]
<1>2. /\ txn[t].op # "sell" /\ (txn[t].op \in Structure => txn[t].held # {})
      /\ TypeOK /\ TxnInv(t) /\ UNCHANGED menu
      /\ r \in Rows /\ Free(t, r) /\ (r \in Items => r \in Created)
  BY <1>1, Types DEF LockRow, IInv, CanLock, Command
<1>3. c \in Command
  <2>1. txn[t] \in Command
    BY <1>2, Types
  <2>2. txn[t].todo \ {r} \in SUBSET Rows /\ txn[t].held \cup {r} \in SUBSET Rows
    BY <1>2, <2>1 DEF Command
  <2>3. {} \in SUBSET Rows /\ {} \in SUBSET (Items \X Groups)
    OBVIOUS
  <2> QED BY ONLY <2>1, <2>2, <2>3, StepOfCommand
<1>4. /\ txn' \in [Txns -> Command]
      /\ txn'[t] = c
      /\ \A u \in Txns \ {t} : txn'[u] = txn[u]
  <2>1. txn' = [txn EXCEPT ![t] = c]
    BY <1>1, <1>2, Types DEF Command, TypeOK
  <2> QED BY ONLY <1>2, <1>3, <2>1, StepTypes
<1>5. /\ txn'[t].op = txn[t].op /\ txn'[t].on = txn[t].on
      /\ txn'[t].want = txn[t].want /\ txn'[t].also = txn[t].also
      /\ txn'[t].saw = txn[t].saw /\ txn'[t].sawAlso = txn[t].sawAlso
      /\ txn'[t].held = txn[t].held \cup {r} /\ txn'[t].todo = txn[t].todo \ {r}
      /\ txn'[t].written = txn[t].written
  BY <1>2, <1>4, Types DEF Command
<1> HIDE DEF c
<1>6. TypeOK' /\ ExclusionsProvided'
  BY <1>2, <1>4, MenuTypes, ExclusionsSame DEF IInv
<1>7. Exclusive'
  BY <1>2, <1>4, <1>5, LockKeepsExclusive
<1>8. (\A u \in Txns \ {t} : TxnInv(u)') /\ Fresh(t)'
  BY <1>2, <1>4, <1>5, LockKeepsOthers
<1>9. ~ txn[t].written /\ txn[t].op # "idle"
  BY <1>1, <1>2 DEF TxnInv, Covered
<1>10. Placed(t)' /\ Promise(t)' /\ SaleHolds(t)'
  BY <1>2, <1>5, <1>9 DEF TxnInv, Placed, Promise, SaleHolds
<1>11. Covered(t)'
  <2>1. Created' = Created
    BY <1>2 DEF menu, Created
  <2>2. LockNext(t, txn[t].saw, txn[t].sawAlso)' = LockNext(t, txn[t].saw, txn[t].sawAlso)
    BY <1>5 DEF LockNext
  <2>3. txn'[t].held \cup txn'[t].todo = txn[t].held \cup txn[t].todo
    BY <1>1, <1>5
  <2> QED BY <1>2, <1>5, <1>9, <2>1, <2>2, <2>3 DEF TxnInv, Covered
<1>12. Reads(t)'
  BY <1>2, <1>5 DEF TxnInv, Reads, menu, Seconds, Firsts
<1> QED BY <1>6, <1>7, <1>8, <1>10, <1>11, <1>12 DEF IInv, TxnInv

\* An Item's effective Groups are Groups.
LEMMA EffectiveGroups ==
  ASSUME TypeOK, NEW i \in Items
  PROVE  Effective(i) \subseteq Groups
BY DEF TypeOK, Effective, Seconds

\* Locking a row for a sale, which freezes its terms, keeps the invariant.
LEMMA LockForSaleKeeps ==
  ASSUME IInv, NEW t \in Txns, LockForSale(t)
  PROVE  IInv'
<1>1. PICK r \in txn[t].todo :
        /\ CanLock(t, r) /\ terms[r] # 0
        /\ txn' = [txn EXCEPT ![t].todo = @ \ {r}, ![t].held = @ \cup {r},
                              ![t].priced = @ \cup {<<r, terms[r]>>},
                              ![t].saw =
                                 IF r \in Parts \ Sizes THEN @
                                 ELSE UNION {Effective(i) : i \in Items \cap txn[t].want}]
  BY DEF LockForSale
<1> DEFINE offered == IF r \in Parts \ Sizes THEN txn[t].saw
                      ELSE UNION {Effective(i) : i \in Items \cap txn[t].want}
           frozen == txn[t].priced \cup {<<r, terms[r]>>}
           c == [txn[t] EXCEPT !.todo = @ \ {r}, !.held = @ \cup {r},
                               !.priced = frozen, !.saw = offered]
<1>2. /\ txn[t].op = "sell" /\ TypeOK /\ TxnInv(t) /\ UNCHANGED menu
      /\ Free(t, r) /\ (r \in Items => r \in Created)
  BY <1>1 DEF LockForSale, IInv, CanLock
<1>3. /\ txn[t].want = txn[t].held \cup txn[t].todo /\ txn[t].want \subseteq Sold
      /\ txn[t].saw \subseteq Groups /\ txn[t].sawAlso = {} /\ r \in Sold
      /\ ~ txn[t].written
  BY <1>1, <1>2 DEF TxnInv, Covered, Placed, Structure
<1>4. offered \subseteq Groups
  BY <1>2, <1>3, EffectiveGroups
<1>5. frozen \subseteq Sold \X Terms
  BY <1>2, <1>3, Types DEF TypeOK, Command
<1>6. /\ txn' \in [Txns -> Command]
      /\ txn'[t] = c
      /\ \A u \in Txns \ {t} : txn'[u] = txn[u]
  <2>1. txn' = [txn EXCEPT ![t] = c]
    BY <1>1, <1>2, Types DEF Command, TypeOK
  <2> HIDE DEF offered, frozen
  <2>2. c \in Command
    <3>1. txn[t] \in Command
      BY <1>2, Types
    <3>2. /\ txn[t].todo \ {r} \in SUBSET Rows /\ txn[t].held \cup {r} \in SUBSET Rows
          /\ frozen \in SUBSET (Sold \X Terms) /\ offered \in SUBSET Rows
      BY <1>3, <1>4, <1>5, <3>1, Kinds DEF Command
    <3> QED BY ONLY <3>1, <3>2 DEF Command, c
  <2> QED BY ONLY <1>2, <2>1, <2>2, StepTypes
<1>7. /\ txn'[t].op = txn[t].op /\ txn'[t].want = txn[t].want /\ txn'[t].also = txn[t].also
      /\ txn'[t].saw = offered /\ txn'[t].sawAlso = txn[t].sawAlso
      /\ txn'[t].held = txn[t].held \cup {r} /\ txn'[t].todo = txn[t].todo \ {r}
      /\ txn'[t].priced = frozen
      /\ txn'[t].written = txn[t].written
  BY <1>2, <1>6, Types DEF Command
<1> HIDE DEF c, offered, frozen
<1>8. TypeOK' /\ ExclusionsProvided'
  BY <1>2, <1>6, MenuTypes, ExclusionsSame DEF IInv
<1>9. Exclusive'
  BY <1>2, <1>6, <1>7, LockKeepsExclusive
<1>10. (\A u \in Txns \ {t} : TxnInv(u)') /\ Fresh(t)'
  BY <1>2, <1>6, <1>7, LockKeepsOthers
<1>11. Placed(t)'
  <2>1. Placed(t)
    BY <1>2 DEF TxnInv
  <2> QED BY ONLY <1>2, <1>4, <1>7, <2>1 DEF Placed
<1>12. Covered(t)'
  <2>1. Created' = Created
    BY <1>2 DEF menu, Created
  <2>2. txn'[t].op = "sell" /\ ~ txn'[t].written
    BY ONLY <1>2, <1>3, <1>7
  <2>3. txn'[t].want = txn'[t].held \cup txn'[t].todo
    BY ONLY <1>1, <1>3, <1>7
  <2>4. (txn'[t].held \cap Items) \subseteq Created'
    <3>1. (txn[t].held \cap Items) \subseteq Created
      BY <1>2 DEF TxnInv, Covered
    <3> QED BY ONLY <1>2, <1>7, <2>1, <3>1
  <2> QED BY ONLY <2>2, <2>3, <2>4 DEF Covered, Structure
<1>13. Reads(t)' /\ Promise(t)'
  BY <1>2, <1>3, <1>7 DEF Reads, Promise, Structure
<1>14. SaleHolds(t)'
  <2>1. r \notin retired
    <3>1. r \notin txn[t].saw \cup txn[t].sawAlso
      BY <1>3, KindAssumption DEF Sold
    <3>2. r \in WithParents(txn[t].want)
      BY <1>1, <1>3 DEF WithParents
    <3> QED BY <1>1, <3>1, <3>2 DEF CanLock, MustBeActive
  <2>2. \A q \in txn'[t].held : <<q, terms[q]>> \in txn'[t].priced
    BY <1>2, <1>7 DEF TxnInv, SaleHolds, frozen
  <2> QED BY <1>1, <1>2, <1>7, <2>1, <2>2 DEF TxnInv, SaleHolds, menu
<1> QED BY <1>8, <1>9, <1>10, <1>11, <1>12, <1>13, <1>14 DEF IInv, TxnInv

\* Writing the assignment differences before the commit keeps the invariant.
LEMMA WriteKeeps ==
  ASSUME IInv, NEW t \in Txns, Write(t)
  PROVE  IInv'
<1> DEFINE c == [txn[t] EXCEPT !.written = TRUE, !.gone = Orphans(t)]
<1>1. /\ txn[t].op \in Structure /\ txn[t].held # {} /\ txn[t].todo = {}
      /\ \A g \in MustProvide(t) : <<category[txn[t].on], g>> \in provides
      /\ TypeOK /\ TxnInv(t) /\ UNCHANGED menu
  BY DEF Write, IInv
<1>2. c \in Command
  <2>1. Orphans(t) \subseteq Items \X Groups
    BY <1>1 DEF Orphans, TypeOK
  <2>2. txn[t] \in Command /\ {} \in SUBSET Rows
    BY <1>1, Types
  <2> HIDE DEF Orphans
  <2> QED BY ONLY <2>1, <2>2, StepOfCommand
<1>3. /\ txn' \in [Txns -> Command]
      /\ txn'[t] = c
      /\ \A u \in Txns \ {t} : txn'[u] = txn[u]
  <2>1. txn' = [txn EXCEPT ![t] = c]
    BY <1>1, Types DEF Write, Command, TypeOK
  <2> QED BY ONLY <1>1, <1>2, <2>1, StepTypes
<1>4. /\ txn'[t].op = txn[t].op /\ txn'[t].on = txn[t].on
      /\ txn'[t].want = txn[t].want /\ txn'[t].also = txn[t].also
      /\ txn'[t].saw = txn[t].saw /\ txn'[t].sawAlso = txn[t].sawAlso
      /\ txn'[t].held = txn[t].held /\ txn'[t].todo = txn[t].todo
      /\ txn'[t].gone = Orphans(t)
  BY <1>1, <1>3, Types DEF Command
<1> HIDE DEF c
<1>5. TypeOK' /\ ExclusionsProvided'
  BY <1>1, <1>3, MenuTypes, ExclusionsSame DEF IInv
<1>6. Exclusive'
  BY <1>3, <1>4 DEF IInv, Exclusive
<1>7. (\A u \in Txns \ {t} : TxnInv(u)') /\ Fresh(t)'
  BY <1>1, <1>3, <1>4, LockKeepsOthers
<1>8. Placed(t)' /\ SaleHolds(t)'
  BY <1>1, <1>4 DEF TxnInv, Placed, SaleHolds, Structure
<1>9. Covered(t)'
  BY <1>1, <1>4 DEF TxnInv, Covered, LockNext, menu, Created, Structure
<1>10. Reads(t)'
  BY <1>1, <1>4 DEF TxnInv, Reads, menu, Seconds, Firsts
<1>11. Promise(t)'
  <2>1. MustProvide(t)' = MustProvide(t) /\ Orphans(t)' = Orphans(t)
    BY <1>1, <1>4 DEF menu, MustProvide, Orphans, ProvidesRemoved, Pairs, Owned
  <2> QED BY <1>1, <1>4, <2>1 DEF Promise, menu
<1> QED BY <1>5, <1>6, <1>7, <1>8, <1>9, <1>10, <1>11 DEF IInv, TxnInv
-----------------------------------------------------------------------------
(* Commits.                                                                *)

Touched(t) ==
    DirectAdded(t) \cup DirectRemoved(t) \cup ProvidesAdded(t) \cup ProvidesRemoved(t)
        \cup ExcludedAdded(t)

\* Whatever a structure command changes, it holds both ends of; but for the
\* exclusions it deletes.
LEMMA TouchesHeld ==
  ASSUME IInv, NEW t \in Txns, txn[t].written, txn[t].op # "move"
  PROVE  /\ DirectAdded(t) \subseteq Items \X Groups
         /\ ProvidesAdded(t) \subseteq Categories \X Groups
         /\ ExcludedAdded(t) \subseteq Items \X Groups
         /\ \A a, b : <<a, b>> \in Touched(t) => a \in txn[t].held /\ b \in txn[t].held
<1>1. TypeOK /\ TxnInv(t)
  BY DEF IInv
<1>2. /\ txn[t].op \in Structure \ {"move"} /\ txn[t].on \in txn[t].held
      /\ txn[t].want \cup txn[t].also \cup txn[t].saw \cup txn[t].sawAlso \subseteq txn[t].held
  BY <1>1 DEF TxnInv, Covered, LockNext
<1>3. CASE txn[t].op \in {"attach", "exclude", "regroup"}
  <2>1. txn[t].on \in Items /\ txn[t].want \subseteq Groups /\ txn[t].also \subseteq Groups
    BY <1>1, <1>3 DEF TxnInv, Placed
  <2>2. ProvidesAdded(t) = {} /\ ProvidesRemoved(t) = {}
    BY <1>3 DEF ProvidesAdded, ProvidesRemoved
  <2>3. /\ DirectAdded(t) \subseteq {txn[t].on} \X txn[t].want
        /\ DirectRemoved(t) \subseteq {txn[t].on} \X txn[t].saw
        /\ ExcludedAdded(t) \subseteq {txn[t].on} \X (txn[t].want \cup txn[t].also)
    BY <1>3 DEF DirectAdded, DirectRemoved, ExcludedAdded, Pairs
  <2> QED BY <1>2, <2>1, <2>2, <2>3 DEF Touched
<1>4. CASE txn[t].op \in {"provide", "offer"}
  <2>1. txn[t].on \in Categories /\ txn[t].want \subseteq Groups
    BY <1>1, <1>4 DEF TxnInv, Placed
  <2>2. DirectAdded(t) = {} /\ DirectRemoved(t) = {} /\ ExcludedAdded(t) = {}
    BY <1>4 DEF DirectAdded, DirectRemoved, ExcludedAdded
  <2>3. /\ ProvidesAdded(t) \subseteq {txn[t].on} \X txn[t].want
        /\ ProvidesRemoved(t) \subseteq {txn[t].on} \X txn[t].saw
    BY <1>4 DEF ProvidesAdded, ProvidesRemoved, Pairs
  <2> QED BY <1>2, <2>1, <2>2, <2>3 DEF Touched
<1>5. CASE txn[t].op = "assign"
  <2>1. /\ txn[t].on \in Groups /\ txn[t].want \subseteq Items /\ txn[t].also \subseteq Categories
    BY <1>1, <1>5 DEF TxnInv, Placed
  <2>2. ExcludedAdded(t) = {}
    BY <1>5 DEF ExcludedAdded
  <2>3. /\ DirectAdded(t) \subseteq txn[t].want \X {txn[t].on}
        /\ DirectRemoved(t) \subseteq txn[t].saw \X {txn[t].on}
        /\ ProvidesAdded(t) \subseteq txn[t].also \X {txn[t].on}
        /\ ProvidesRemoved(t) \subseteq txn[t].sawAlso \X {txn[t].on}
    BY <1>5 DEF DirectAdded, DirectRemoved, ProvidesAdded, ProvidesRemoved, Owned
  <2> QED BY <1>2, <2>1, <2>2, <2>3 DEF Touched
<1> QED BY <1>2, <1>3, <1>4, <1>5 DEF Structure

\* Two commands that both change the menu hold no row together.
LEMMA HeldApart ==
  ASSUME IInv, NEW t \in Txns, NEW u \in Txns \ {t}, txn[t].op # "sell"
  PROVE  txn[t].held \cap txn[u].held = {}
BY DEF IInv, Exclusive

\* A pair of an Item and a Group is its two parts.
LEMMA PairsOf ==
  ASSUME NEW x \in Items \X Groups
  PROVE  x = <<x[1], x[2]>> /\ x[1] \in Items /\ x[2] \in Groups
OBVIOUS

\* The commit of an assignment command keeps the invariant: what it excludes is provided.
LEMMA FinishStructureKeeps ==
  ASSUME IInv, NEW t \in Txns, FinishStructure(t)
  PROVE  IInv'
<1>1. /\ txn[t].written /\ txn[t].op # "move" /\ Release(t)
      /\ direct' = (direct \ DirectRemoved(t)) \cup DirectAdded(t)
      /\ provides' = (provides \ ProvidesRemoved(t)) \cup ProvidesAdded(t)
      /\ excluded' = (excluded \ (ExcludedRemoved(t) \cup txn[t].gone)) \cup ExcludedAdded(t)
      /\ category' = category /\ retired' = retired /\ terms' = terms
      /\ TypeOK /\ TxnInv(t) /\ ExclusionsProvided
  BY DEF FinishStructure, IInv
<1>2. /\ txn' \in [Txns -> Command]
      /\ txn'[t] = Idle
      /\ \A u \in Txns \ {t} : txn'[u] = txn[u]
      /\ TxnInv(t)' /\ Exclusive'
  BY <1>1, Released DEF IInv
<1>3. txn[t].op # "sell"
  BY <1>1 DEF TxnInv, Covered, Structure
<1>4. TypeOK'
  BY <1>1, <1>2, TouchesHeld DEF TypeOK
<1>5. ExclusionsProvided'
  <2> SUFFICES ASSUME NEW x \in excluded' PROVE <<category[x[1]], x[2]>> \in provides'
    BY <1>1 DEF ExclusionsProvided
  <2>1. CASE x \in ExcludedAdded(t)
    <3>1. /\ x[1] = txn[t].on /\ x[2] \in MustProvide(t)
          /\ ProvidesRemoved(t) = {}
      BY <2>1 DEF ExcludedAdded, MustProvide, ProvidesRemoved, Pairs
    <3> QED BY <1>1, <3>1 DEF TxnInv, Promise
  <2>2. CASE x \notin ExcludedAdded(t)
    <3>1. x \in excluded /\ x \notin txn[t].gone
      BY <1>1, <2>2
    <3>2. x \notin Orphans(t)
      BY <1>1, <3>1 DEF TxnInv, Promise
    <3>3. <<category[x[1]], x[2]>> \notin ProvidesRemoved(t)
      BY <1>1, <3>1, <3>2 DEF Orphans
    <3> QED BY <1>1, <3>1, <3>3 DEF ExclusionsProvided
  <2> QED BY <2>1, <2>2
<1>6. ASSUME NEW u \in Txns \ {t} PROVE TxnInv(u)'
  <2>1. TxnInv(u) /\ txn'[u] = txn[u] /\ txn[t].held \cap txn[u].held = {}
    BY <1>2, <1>3, HeldApart DEF IInv
  <2>2. \A a, b : <<a, b>> \in Touched(t) => a \notin txn[u].held /\ b \notin txn[u].held
    BY <1>1, <2>1, TouchesHeld
  <2>3. Placed(u)' /\ SaleHolds(u)'
    BY <1>1, <2>1 DEF TxnInv, Placed, SaleHolds
  <2>4. Covered(u)'
    BY <1>1, <2>1 DEF TxnInv, Covered, LockNext, Created
  <2>5. Reads(u)'
    <3> SUFFICES ASSUME txn[u].op \in Structure, txn[u].held # {}
                 PROVE  Reads(u)'
      BY <2>1 DEF Reads
    <3>1. txn[u].on \notin txn[t].held
      BY <2>1 DEF TxnInv, Covered
    <3>2. \A a, b : a = txn[u].on \/ b = txn[u].on =>
            /\ <<a, b>> \in direct' <=> <<a, b>> \in direct
            /\ <<a, b>> \in provides' <=> <<a, b>> \in provides
      <4>1. \A a, b : a = txn[u].on \/ b = txn[u].on => <<a, b>> \notin Touched(t)
        BY <1>1, <3>1, TouchesHeld
      <4> QED BY <1>1, <4>1 DEF Touched
    <3>3. /\ Seconds(direct, txn[u].on)' = Seconds(direct, txn[u].on)
          /\ Firsts(direct, txn[u].on)' = Firsts(direct, txn[u].on)
          /\ Seconds(provides, txn[u].on)' = Seconds(provides, txn[u].on)
          /\ Firsts(provides, txn[u].on)' = Firsts(provides, txn[u].on)
      BY <2>1, <3>2 DEF Seconds, Firsts
    <3> QED BY <1>1, <2>1, <3>3 DEF TxnInv, Reads
  <2>6. Promise(u)'
    <3> SUFFICES ASSUME txn[u].written PROVE Promise(u)'
      BY <2>1 DEF Promise
    <3>1. /\ txn[u].op \in Structure /\ txn[u].on \in txn[u].held
          /\ LockNext(u, txn[u].saw, txn[u].sawAlso) \subseteq txn[u].held
      BY <2>1 DEF TxnInv, Covered
    <3>2. /\ MustProvide(u)' = MustProvide(u) /\ ProvidesRemoved(u)' = ProvidesRemoved(u)
          /\ MustProvide(u) \subseteq txn[u].held
      BY <2>1, <3>1 DEF MustProvide, ProvidesRemoved, Pairs, Owned, LockNext
    <3>3. \A g \in MustProvide(u) : <<category[txn[u].on], g>> \in provides'
      BY <1>1, <2>1, <2>2, <3>2 DEF TxnInv, Promise, Touched
    <3>4. ASSUME NEW x \in excluded', x[1] \in txn[u].held \/ x[2] \in txn[u].held
          PROVE  x \in excluded
      <4>1. x \notin ExcludedAdded(t)
        BY <1>1, <2>2, <3>4, TouchesHeld, PairsOf DEF Touched
      <4> QED BY <1>1, <4>1
    <3>5. CASE txn[u].op = "move"
      <4>1. PICK c \in Categories : txn[u].want = {c}
        BY <2>1, <3>5 DEF TxnInv, Placed
      <4> SUFFICES ASSUME NEW x \in excluded', x[1] = txn[u].on, <<c, x[2]>> \notin provides'
                   PROVE  x \in txn[u].gone
        BY <1>1, <2>1, <3>2, <3>3, <3>5, <4>1 DEF Promise, Orphans
      <4>2. x \in excluded
        BY <3>1, <3>4
      <4>3. <<c, x[2]>> \notin provides
        <5>1. CASE txn[u].want = txn[u].saw
          <6>1. c = category[x[1]]
            BY <2>1, <3>1, <3>5, <4>1, <5>1 DEF TxnInv, Reads
          <6> QED BY <1>1, <1>5, <6>1 DEF ExclusionsProvided
        <5>2. CASE txn[u].want # txn[u].saw
          <6>1. c \in txn[u].held
            BY <3>1, <4>1, <5>2 DEF LockNext
          <6>2. <<c, x[2]>> \notin Touched(t)
            BY <2>2, <6>1
          <6> QED BY <1>1, <6>2 DEF Touched
        <5> QED BY <5>1, <5>2
      <4> QED BY <2>1, <3>5, <4>1, <4>2, <4>3 DEF TxnInv, Promise, Orphans
    <3>6. CASE txn[u].op # "move"
      <4> SUFFICES ASSUME NEW x \in excluded', <<category[x[1]], x[2]>> \in ProvidesRemoved(u)
                   PROVE  x \in txn[u].gone
        BY <1>1, <2>1, <3>2, <3>3, <3>6 DEF Promise, Orphans
      <4>1. x[2] \in txn[u].held
        <5>1. <<category[x[1]], x[2]>> \in Touched(u)
          BY DEF Touched
        <5> QED BY <3>6, <5>1, TouchesHeld
      <4>2. x \in excluded
        BY <3>4, <4>1
      <4> QED BY <2>1, <3>6, <4>2 DEF TxnInv, Promise, Orphans
    <3> QED BY <3>5, <3>6
  <2>7. Fresh(u)'
    BY <1>1, <1>2, <2>1, FreshSame DEF TxnInv, Idle
  <2> QED BY <2>3, <2>4, <2>5, <2>6, <2>7 DEF TxnInv
<1> QED BY <1>2, <1>4, <1>5, <1>6 DEF IInv

\* The commit of a move to another category keeps the invariant: it drops what that category does not provide.
LEMMA FinishMoveKeeps ==
  ASSUME IInv, NEW t \in Txns, FinishMove(t)
  PROVE  IInv'
<1> DEFINE i == txn[t].on
<1>1. /\ txn[t].written /\ txn[t].op = "move" /\ Release(t)
      /\ excluded' = excluded \ txn[t].gone
      /\ provides' = provides /\ direct' = direct /\ retired' = retired /\ terms' = terms
      /\ TypeOK /\ TxnInv(t) /\ ExclusionsProvided
  BY DEF FinishMove, IInv
<1>2. PICK c \in Categories : txn[t].want = {c} /\ category' = [category EXCEPT ![i] = c]
  <2>1. PICK c \in Categories : txn[t].want = {c}
    BY <1>1 DEF TxnInv, Placed
  <2> QED BY <2>1 DEF FinishMove
<1>3. /\ txn' \in [Txns -> Command]
      /\ txn'[t] = Idle
      /\ \A u \in Txns \ {t} : txn'[u] = txn[u]
      /\ TxnInv(t)' /\ Exclusive'
  BY <1>1, Released DEF IInv
<1>4. /\ i \in Items /\ i \in txn[t].held /\ i \in Created
      /\ LockNext(t, txn[t].saw, txn[t].sawAlso) \subseteq txn[t].held
      /\ txn[t].saw = {category[i]}
  BY <1>1 DEF TxnInv, Placed, Covered, Reads, Structure
<1>5. /\ category' \in [Items -> Categories \cup {0}]
      /\ category'[i] = c
      /\ \A j \in Items \ {i} : category'[j] = category[j]
      /\ Created \subseteq Created'
  <2>1. c # 0
    BY RowAssumption, Kinds
  <2> QED BY <1>1, <1>2, <1>4, <2>1 DEF TypeOK, Created
<1> HIDE DEF i
<1>6. TypeOK'
  BY <1>1, <1>3, <1>5 DEF TypeOK
<1>7. ExclusionsProvided'
  <2> SUFFICES ASSUME NEW x \in excluded' PROVE <<category'[x[1]], x[2]>> \in provides
    BY <1>1 DEF ExclusionsProvided
  <2>1. x \in excluded /\ x \notin Orphans(t) /\ x[1] \in Items
    BY <1>1 DEF TxnInv, Promise, TypeOK
  <2>2. CASE x[1] = i
    BY <1>1, <1>2, <1>5, <2>1, <2>2 DEF Orphans, i
  <2>3. CASE x[1] # i
    BY <1>1, <1>5, <2>1, <2>3 DEF ExclusionsProvided
  <2> QED BY <2>2, <2>3
<1>8. ASSUME NEW u \in Txns \ {t} PROVE TxnInv(u)'
  <2>1. TxnInv(u) /\ txn'[u] = txn[u] /\ txn[t].held \cap txn[u].held = {}
    BY <1>1, <1>3, HeldApart DEF IInv
  <2>2. txn[u].op \in Structure /\ txn[u].held # {} => txn[u].on \in txn[u].held /\ txn[u].on # i
    BY <1>4, <2>1 DEF TxnInv, Covered
  <2>3. Placed(u)' /\ SaleHolds(u)'
    BY <1>1, <2>1 DEF TxnInv, Placed, SaleHolds
  <2>4. Covered(u)'
    BY <1>5, <2>1 DEF TxnInv, Covered, LockNext
  <2>5. Reads(u)'
    <3>1. /\ Seconds(direct, txn[u].on)' = Seconds(direct, txn[u].on)
          /\ Firsts(direct, txn[u].on)' = Firsts(direct, txn[u].on)
          /\ Seconds(provides, txn[u].on)' = Seconds(provides, txn[u].on)
          /\ Firsts(provides, txn[u].on)' = Firsts(provides, txn[u].on)
      BY <1>1, <2>1 DEF Seconds, Firsts
    <3>2. txn[u].op = "move" /\ txn[u].held # {} => category'[txn[u].on] = category[txn[u].on]
      BY <1>5, <2>1, <2>2 DEF TxnInv, Placed, Structure
    <3> QED BY <2>1, <3>1, <3>2 DEF TxnInv, Reads
  <2>6. Promise(u)'
    <3> SUFFICES ASSUME txn[u].written PROVE Promise(u)'
      BY <2>1 DEF Promise
    <3>1. /\ txn[u].op \in Structure /\ txn[u].held # {}
          /\ MustProvide(u)' = MustProvide(u) /\ ProvidesRemoved(u)' = ProvidesRemoved(u)
      BY <2>1 DEF TxnInv, Covered, MustProvide, ProvidesRemoved, Pairs, Owned
    <3>2. \A g \in MustProvide(u) : <<category'[txn[u].on], g>> \in provides
      <4>1. MustProvide(u) # {} => txn[u].on \in Items
        BY <2>1 DEF TxnInv, Placed, MustProvide
      <4> QED BY <1>5, <2>1, <2>2, <3>1, <4>1 DEF TxnInv, Promise
    <3>3. CASE txn[u].op = "move"
      BY <1>1, <2>1, <3>1, <3>2, <3>3 DEF TxnInv, Promise, Orphans
    <3>4. CASE txn[u].op # "move"
      <4> SUFFICES ASSUME NEW x \in excluded', <<category'[x[1]], x[2]>> \in ProvidesRemoved(u)
                   PROVE  x \in txn[u].gone
        BY <1>1, <2>1, <3>1, <3>2, <3>4 DEF Promise, Orphans
      <4>1. x \in excluded /\ x[1] \in Items
        BY <1>1 DEF TypeOK
      <4>2. category'[x[1]] = category[x[1]]
        <5>1. CASE x[1] # i
          BY <1>5, <4>1, <5>1
        <5>2. CASE x[1] = i
          <6>1. c \in txn[u].held
            <7>1. <<c, x[2]>> \in Touched(u)
              BY <1>5, <5>2 DEF Touched
            <7> QED BY <3>4, <7>1, TouchesHeld
          <6>2. c \notin txn[t].held
            BY <2>1, <6>1
          <6>3. txn[t].want = txn[t].saw
            BY <1>1, <1>2, <1>4, <6>2 DEF LockNext
          <6> QED BY <1>2, <1>4, <1>5, <5>2, <6>3
        <5> QED BY <5>1, <5>2
      <4> QED BY <2>1, <3>4, <4>1, <4>2 DEF TxnInv, Promise, Orphans
    <3> QED BY <3>3, <3>4
  <2>7. Fresh(u)'
    <3>1. \A j \in txn[u].want : txn[u].op = "create" /\ category[j] = 0 => category'[j] = 0
      BY <1>4, <1>5, <2>1 DEF TxnInv, Placed, Created
    <3> QED BY <1>3, <2>1, <3>1 DEF TxnInv, Fresh, Idle
  <2> QED BY <2>3, <2>4, <2>5, <2>6, <2>7 DEF TxnInv
<1> QED BY <1>3, <1>6, <1>7, <1>8 DEF IInv

\* The commit of a new Item keeps the invariant.
LEMMA FinishCreateKeeps ==
  ASSUME IInv, NEW t \in Txns, FinishCreate(t)
  PROVE  IInv'
<1>1. /\ txn[t].op = "create" /\ txn[t].held # {} /\ txn[t].todo = {} /\ Release(t)
      /\ excluded' = excluded /\ provides' = provides /\ direct' = direct
      /\ retired' = retired /\ terms' = terms
      /\ TypeOK /\ TxnInv(t) /\ ExclusionsProvided
  BY DEF FinishCreate, Done, IInv
<1>2. PICK i \in Items : txn[t].want = {i} /\ category' = [category EXCEPT ![i] = txn[t].on]
  <2>1. PICK i \in Items : txn[t].want = {i}
    BY <1>1 DEF TxnInv, Placed
  <2> QED BY <2>1 DEF FinishCreate
<1>3. /\ txn' \in [Txns -> Command]
      /\ txn'[t] = Idle
      /\ \A u \in Txns \ {t} : txn'[u] = txn[u]
      /\ TxnInv(t)' /\ Exclusive'
  BY <1>1, Released DEF IInv
<1>4. category[i] = 0 /\ txn[t].on \in Categories
  BY <1>1, <1>2 DEF TxnInv, Fresh, Placed
<1>5. /\ category' \in [Items -> Categories \cup {0}]
      /\ \A j \in Items \ {i} : category'[j] = category[j]
      /\ Created \subseteq Created'
      /\ \A j \in Created : category'[j] = category[j]
  <2>1. txn[t].on # 0
    BY <1>4, RowAssumption, Kinds
  <2> QED BY <1>1, <1>2, <1>4, <2>1 DEF TypeOK, Created
<1>6. TypeOK'
  BY <1>1, <1>3, <1>5 DEF TypeOK
<1>7. \A x \in excluded : category'[x[1]] = category[x[1]]
  <2> SUFFICES ASSUME NEW x \in excluded PROVE x[1] \in Created
    BY <1>5
  <2>1. <<category[x[1]], x[2]>> \in Categories \X Groups /\ x[1] \in Items
    BY <1>1 DEF TypeOK, ExclusionsProvided
  <2>2. category[x[1]] # 0
    BY <2>1, RowAssumption, Kinds
  <2> QED BY <2>1, <2>2 DEF Created
<1>8. ExclusionsProvided'
  BY <1>1, <1>7 DEF ExclusionsProvided
<1>9. ASSUME NEW u \in Txns \ {t} PROVE TxnInv(u)'
  <2>1. TxnInv(u) /\ txn'[u] = txn[u]
    BY <1>3 DEF IInv
  <2>2. txn[u].op \in Structure /\ txn[u].held # {} /\ txn[u].on \in Items =>
          category'[txn[u].on] = category[txn[u].on]
    BY <1>5, <2>1 DEF TxnInv, Covered
  <2>3. Placed(u)' /\ SaleHolds(u)'
    BY <1>1, <2>1 DEF TxnInv, Placed, SaleHolds
  <2>4. Covered(u)'
    BY <1>5, <2>1 DEF TxnInv, Covered, LockNext
  <2>5. Reads(u)'
    <3>1. /\ Seconds(direct, txn[u].on)' = Seconds(direct, txn[u].on)
          /\ Firsts(direct, txn[u].on)' = Firsts(direct, txn[u].on)
          /\ Seconds(provides, txn[u].on)' = Seconds(provides, txn[u].on)
          /\ Firsts(provides, txn[u].on)' = Firsts(provides, txn[u].on)
      BY <1>1, <2>1 DEF Seconds, Firsts
    <3>2. txn[u].op = "move" /\ txn[u].held # {} => category'[txn[u].on] = category[txn[u].on]
      BY <2>1, <2>2 DEF TxnInv, Placed, Structure
    <3> QED BY <2>1, <3>1, <3>2 DEF TxnInv, Reads
  <2>6. Promise(u)'
    <3> SUFFICES ASSUME txn[u].written PROVE Promise(u)'
      BY <2>1 DEF Promise
    <3>1. /\ txn[u].op \in Structure /\ txn[u].held # {}
          /\ MustProvide(u)' = MustProvide(u) /\ ProvidesRemoved(u)' = ProvidesRemoved(u)
      BY <2>1 DEF TxnInv, Covered, MustProvide, ProvidesRemoved, Pairs, Owned
    <3>2. \A g \in MustProvide(u) : <<category'[txn[u].on], g>> \in provides
      <4>1. MustProvide(u) # {} => txn[u].on \in Items
        BY <2>1 DEF TxnInv, Placed, MustProvide
      <4> QED BY <2>1, <2>2, <3>1, <4>1 DEF TxnInv, Promise
    <3>3. Orphans(u)' \subseteq Orphans(u)
      BY <1>1, <1>7, <2>1, <3>1 DEF Orphans
    <3> QED BY <1>1, <2>1, <3>1, <3>2, <3>3 DEF TxnInv, Promise
  <2>7. Fresh(u)'
    <3>1. txn[u].op = "create" => i \notin txn[u].want /\ txn[u].want \subseteq Items
      BY <1>1, <1>2, <2>1 DEF TxnInv, Fresh, Placed
    <3> QED BY <1>3, <1>5, <2>1, <3>1 DEF TxnInv, Fresh, Idle
  <2> QED BY <2>3, <2>4, <2>5, <2>6, <2>7 DEF TxnInv
<1> QED BY <1>3, <1>6, <1>8, <1>9 DEF IInv

\* Retiring rows, and restating them, is seen by sales only, and a sale does
\* not hold a row that another is changing.
LEMMA SalesApart ==
  ASSUME IInv, NEW t \in Txns, Release(t), txn[t].op \in {"retire", "restate"},
         txn[t].want \subseteq txn[t].held,
         UNCHANGED <<category, provides, direct, excluded>>,
         \A r \in Rows \ txn[t].want : r \in retired' => r \in retired,
         \A r \in Sold \ txn[t].want : terms'[r] = terms[r],
         retired' \subseteq Rows, terms' \in [Sold -> Terms]
  PROVE  IInv'
<1>1. /\ txn' \in [Txns -> Command]
      /\ txn'[t] = Idle
      /\ \A u \in Txns \ {t} : txn'[u] = txn[u]
      /\ TxnInv(t)' /\ Exclusive'
  BY Released DEF IInv
<1>2. TypeOK' /\ ExclusionsProvided'
  BY <1>1 DEF IInv, TypeOK, ExclusionsProvided
<1>3. ASSUME NEW u \in Txns \ {t} PROVE TxnInv(u)'
  <2>1. TxnInv(u) /\ txn'[u] = txn[u] /\ txn[t].held \cap txn[u].held = {}
    BY <1>1, HeldApart DEF IInv
  <2>2. Placed(u)'
    BY <2>1 DEF TxnInv, Placed
  <2>3. Covered(u)'
    BY <2>1 DEF TxnInv, Covered, LockNext, Created
  <2>4. Reads(u)'
    BY <2>1 DEF TxnInv, Reads, Seconds, Firsts
  <2>5. Promise(u)'
    BY <2>1 DEF TxnInv, Promise, MustProvide, Orphans, ProvidesRemoved, Pairs, Owned
  <2>6. SaleHolds(u)'
    <3>1. txn[u].op = "sell" => txn[u].held \subseteq Sold
      BY <2>1 DEF TxnInv, Placed, Covered
    <3> QED BY <2>1, <3>1, Kinds DEF TxnInv, SaleHolds
  <2>7. Fresh(u)'
    BY <1>1, <2>1, FreshSame DEF TxnInv, Idle
  <2> QED BY <2>2, <2>3, <2>4, <2>5, <2>6, <2>7 DEF TxnInv
<1> QED BY <1>1, <1>2, <1>3 DEF IInv

\* The commit of a retirement keeps the invariant: it waited for the rows a sale had read.
LEMMA FinishRetireKeeps ==
  ASSUME IInv, NEW t \in Txns, FinishRetire(t)
  PROVE  IInv'
<1>1. txn[t].want \subseteq txn[t].held /\ txn[t].want \subseteq Rows
  BY Types DEF FinishRetire, Done, IInv, TxnInv, Covered, Command
<1>2. retired' \subseteq Rows /\ terms' \in [Sold -> Terms]
  BY <1>1 DEF FinishRetire, IInv, TypeOK
<1> QED BY <1>1, <1>2, SalesApart DEF FinishRetire, Done

\* The commit of a price or an availability keeps the invariant, for the same reason.
LEMMA FinishRestateKeeps ==
  ASSUME IInv, NEW t \in Txns, FinishRestate(t)
  PROVE  IInv'
<1>1. txn[t].want \subseteq txn[t].held
  BY DEF FinishRestate, Done, IInv, TxnInv, Covered
<1>2. retired' \subseteq Rows
  BY DEF FinishRestate, IInv, TypeOK
<1> QED BY <1>1, <1>2, SalesApart DEF FinishRestate, Done

-----------------------------------------------------------------------------
(* The theorems.                                                           *)

\* The invariant holds in the seeded menu, where no transaction runs.
LEMMA Initially ==
  ASSUME Init
  PROVE  IInv
<1>1. \A t \in Txns : txn[t] = Idle
  BY DEF Init
<1>2. TypeOK
  BY IdleTypes DEF Init, TypeOK
<1>3. \A t \in Txns : /\ txn[t].op = "idle" /\ txn[t].held = {} /\ txn[t].todo = {}
                      /\ txn[t].written = FALSE
  BY <1>1 DEF Idle
<1>4. ASSUME NEW t \in Txns PROVE TxnInv(t)
  BY <1>3 DEF TxnInv, Placed, Covered, Reads, Promise, SaleHolds, Fresh, Structure
<1>5. ExclusionsProvided
  BY DEF Init, ExclusionsProvided
<1> QED BY <1>2, <1>3, <1>4, <1>5 DEF IInv, Exclusive

\* The invariant holds of a step that changes nothing.
LEMMA Stutters ==
  ASSUME IInv, UNCHANGED vars
  PROVE  IInv'
<1>1. UNCHANGED menu /\ txn' = txn
  BY DEF vars, menu
<1>2. TypeOK' /\ ExclusionsProvided' /\ Exclusive'
  BY <1>1 DEF vars, IInv, TypeOK, ExclusionsProvided, Exclusive, menu
<1>3. ASSUME NEW u \in Txns PROVE TxnInv(u)'
  <2>1. Fresh(u)'
    BY <1>1 DEF IInv, TxnInv, Fresh, menu
  <2> QED BY <1>1, <2>1, MenuSame DEF IInv, TxnInv
<1> QED BY <1>2, <1>3 DEF IInv

\* Every step keeps the invariant: one case per handler.
LEMMA Steps ==
  ASSUME IInv, [Next]_vars
  PROVE  IInv'
<1>1. CASE UNCHANGED vars
  BY <1>1, Stutters
<1>2. ASSUME NEW t \in Txns,
             \/ BeginNext(t)
             \/ LockSubject(t) \/ LockRow(t) \/ LockForSale(t) \/ Write(t)
             \/ FinishStructure(t) \/ FinishMove(t) \/ FinishCreate(t) \/ FinishRetire(t)
             \/ FinishRestate(t) \/ FinishSale(t) \/ Abort(t)
      PROVE  IInv'
  <2>1. CASE BeginNext(t)
    BY <2>1, BeginsKeep
  <2>2. CASE LockSubject(t) \/ LockRow(t) \/ LockForSale(t) \/ Write(t)
    BY <2>2, LockSubjectKeeps, LockRowKeeps, LockForSaleKeeps, WriteKeeps
  <2>3. CASE FinishStructure(t) \/ FinishMove(t) \/ FinishCreate(t)
    BY <2>3, FinishStructureKeeps, FinishMoveKeeps, FinishCreateKeeps
  <2>4. CASE FinishRetire(t) \/ FinishRestate(t)
    BY <2>4, FinishRetireKeeps, FinishRestateKeeps
  <2>5. CASE FinishSale(t) \/ Abort(t)
    BY <2>5, EndsQuietly DEF FinishSale, Abort
  <2> QED BY <1>2, <2>1, <2>2, <2>3, <2>4, <2>5
<1> QED BY <1>1, <1>2 DEF Next, BeginNext

-----------------------------------------------------------------------------
(* The order of the locks, and waiting in a circle.                        *)

\* An edit holds only rows that come before those it has still to lock.
Orderly(t) ==
    txn[t].op \notin {"sell", "assign"} =>
      /\ \A h \in txn[t].held, r \in txn[t].todo : BeforeInTree(h, r)
      /\ txn[t].op \notin {"retire", "restate"} => txn[t].todo \cap Parts = {}

Ordered == \A t \in Txns : Orderly(t)

\* What the lock order compares are numbers, and only a Size or an Option has another row as its tree.
LEMMA Ranks ==
  /\ Rows \subseteq Nat \ {0} /\ \A r \in Rows : Kind(r) \in Nat /\ Tree(r) \in Rows
  /\ \A r \in Rows \ Parts : Tree(r) = r
BY RowAssumption, KindAssumption, ParentAssumption DEF Kind, Tree, Rows

\* In the batch's tree order an Item comes before a Category and both before a Group.
LEMMA KindOrder ==
  /\ \A r \in Rows : Kind(Tree(r)) \in Nat
  /\ \A i \in Items, c \in Categories : BeforeInTree(i, c)
  /\ \A i \in Items, g \in Groups : BeforeInTree(i, g)
  /\ \A c \in Categories, g \in Groups : BeforeInTree(c, g)
  /\ Categories \cap Parts = {} /\ Groups \cap Parts = {}
<1>1. \A r \in Rows : Kind(Tree(r)) \in Nat
  BY Ranks
<1>2. ASSUME NEW r, NEW q, Tree(r) = r, Tree(q) = q, Kind(r) < Kind(q)
      PROVE  BeforeInTree(r, q)
  BY <1>2 DEF BeforeInTree
<1>3. /\ \A i \in Items, c \in Categories : BeforeInTree(i, c)
      /\ \A i \in Items, g \in Groups : BeforeInTree(i, g)
      /\ \A c \in Categories, g \in Groups : BeforeInTree(c, g)
  <2>1. /\ \A i \in Items : Tree(i) = i /\ Kind(i) = 0
        /\ \A c \in Categories : Tree(c) = c /\ Kind(c) = 1
        /\ \A g \in Groups : Tree(g) = g /\ Kind(g) = 2
    BY KindAssumption DEF Kind, Tree
  <2> QED BY <1>2, <2>1
<1> QED BY <1>1, <1>3, KindAssumption

\* Of two rows one comes first.
LEMMA TreeTotal ==
  ASSUME NEW r \in Rows, NEW q \in Rows, r # q
  PROVE  BeforeInTree(r, q) \/ BeforeInTree(q, r)
<1>1. /\ Kind(Tree(r)) \in Nat /\ Kind(Tree(q)) \in Nat
      /\ Tree(r) \in Nat /\ Tree(q) \in Nat /\ r \in Nat /\ q \in Nat
  BY Ranks
<1>2. r \in Parts \/ q \in Parts \/ Tree(r) # Tree(q)
  BY Ranks
<1> QED BY <1>1, <1>2 DEF BeforeInTree

\* What an edit asks for next comes before the rest of what it will lock.
LEMMA NextIsFirst ==
  ASSUME TypeOK, NEW t \in Txns, Orderly(t), txn[t].op \notin {"idle", "sell", "assign"},
         NEW r \in NextRows(t), NEW q \in txn[t].todo \ {r}
  PROVE  BeforeInTree(r, q)
<1>1. /\ r \in Rows /\ q \in Rows /\ r \in txn[t].todo /\ ~ Sooner(txn[t].op, q, r)
  BY Types DEF NextRows, Command
<1>2. CASE txn[t].op \in {"retire", "restate"}
  BY <1>1, <1>2, TreeTotal DEF Sooner
<1>3. CASE txn[t].op \notin {"retire", "restate"}
  <2>1. r \notin Parts /\ q \notin Parts /\ Tree(r) = r /\ Tree(q) = q
    BY <1>1, <1>3, Ranks DEF Orderly
  <2>2. ~ (Kind(q) < Kind(r) \/ (Kind(q) = Kind(r) /\ q < r))
    BY <1>1, <1>3 DEF Sooner
  <2>3. ~ BeforeInTree(q, r)
    BY <2>1, <2>2 DEF BeforeInTree
  <2> QED BY <1>1, <2>3, TreeTotal
<1> QED BY <1>2, <1>3

\* A command that begins holds nothing and asks for Parts only to retire or restate.
LEMMA BeginsOrdered ==
  ASSUME TypeOK, NEW t \in Txns, BeginNext(t)
  PROVE  Orderly(t)' /\ \A u \in Txns \ {t} : txn'[u] = txn[u]
<1>1. PICK op, on, want, also, first :
        /\ Begin(t, op, on, want, also, first)
        /\ op \notin {"retire", "restate", "sell", "assign"} => first \cap Parts = {}
  <2>1. ASSUME NEW i \in Items \cup Categories PROVE {i} \cap Parts = {}
    BY <2>1, KindAssumption
  <2>2. Created \subseteq Items
    BY DEF Created
  <2>3. CASE AttachItem(t)
    BY <2>1, <2>2, <2>3 DEF AttachItem
  <2>4. CASE AttachCategory(t)
    BY <2>1, <2>4 DEF AttachCategory
  <2>5. CASE ExcludeInherited(t)
    BY <2>1, <2>2, <2>5 DEF ExcludeInherited
  <2>6. CASE ReplaceItemGroups(t)
    BY <2>1, <2>2, <2>6 DEF ReplaceItemGroups
  <2>7. CASE ReplaceCategoryGroups(t)
    BY <2>1, <2>7 DEF ReplaceCategoryGroups
  <2>8. CASE ReplaceGroupAssignments(t)
    BY <2>8 DEF ReplaceGroupAssignments
  <2>9. CASE MoveItemCategory(t)
    BY <2>1, <2>2, <2>9 DEF MoveItemCategory
  <2>10. CASE CreateItem(t)
    BY <2>1, <2>10 DEF CreateItem
  <2>11. CASE Retire(t)
    BY <2>11 DEF Retire
  <2>12. CASE Restate(t)
    BY <2>12 DEF Restate
  <2>13. CASE Sell(t)
    BY <2>13 DEF Sell
  <2> QED BY <2>3, <2>4, <2>5, <2>6, <2>7, <2>8, <2>9, <2>10, <2>11, <2>12, <2>13 DEF BeginNext
<1>2. /\ txn'[t].op = op /\ txn'[t].todo = first /\ txn'[t].held = {}
      /\ \A u \in Txns \ {t} : txn'[u] = txn[u]
  BY <1>1 DEF Begin, Idle, TypeOK
<1> QED BY <1>1, <1>2 DEF Orderly

\* The first lock of a structure command is on a row before its others.
LEMMA SubjectOrdered ==
  ASSUME IInv, NEW t \in Txns, LockSubject(t)
  PROVE  Orderly(t)' /\ \A u \in Txns \ {t} : txn'[u] = txn[u]
<1> DEFINE on == txn[t].on
           read == ReadSets(t)
           next == txn[t].want \cup txn[t].also \cup read[1] \cup read[2]
<1>1. /\ TypeOK /\ Placed(t) /\ txn[t] \in Command /\ txn[t].op \in Structure
      /\ on \in txn[t].todo /\ (on \in Items => on \in Created)
  BY Types DEF IInv, TxnInv, LockSubject, CanLock
<1>2. /\ txn'[t].op = txn[t].op /\ txn'[t].held = {on} /\ txn'[t].todo \subseteq next
      /\ \A u \in Txns \ {t} : txn'[u] = txn[u]
  BY <1>1 DEF LockSubject, LockNext, TypeOK, Command
<1>3. CASE txn[t].op \in {"attach", "exclude", "regroup"}
  <2>1. on \in Items /\ next \subseteq Groups
    BY <1>1, <1>3 DEF Placed, ReadSets, Seconds, TypeOK
  <2> HIDE DEF next
  <2>2. \A r \in next : BeforeInTree(on, r) /\ r \notin Parts
    BY <2>1, KindOrder
  <2> QED BY <1>2, <2>2 DEF Orderly
<1>4. CASE txn[t].op \in {"provide", "offer"}
  <2>1. on \in Categories /\ next \subseteq Groups
    BY <1>1, <1>4 DEF Placed, ReadSets, Seconds, TypeOK
  <2> HIDE DEF next
  <2>2. \A r \in next : BeforeInTree(on, r) /\ r \notin Parts
    BY <2>1, KindOrder
  <2> QED BY <1>2, <2>2 DEF Orderly
<1>5. CASE txn[t].op = "move"
  <2>1. on \in Items /\ category[on] \in Categories /\ txn[t].want \subseteq Categories
    BY <1>1, <1>5 DEF Placed, Created, TypeOK
  <2>2. txn'[t].todo \subseteq Categories
    <3>1. /\ read[1] = {category[on]} /\ read[2] = {}
          /\ txn'[t].todo = LockNext(t, read[1], read[2])
      BY <1>1, <1>5 DEF ReadSets, LockSubject, TypeOK, Command
    <3>2. txn[t].want \cup read[1] \subseteq Categories
      BY <2>1, <3>1
    <3>3. LockNext(t, read[1], read[2]) \subseteq txn[t].want \cup txn[t].also \cup read[1]
      BY <3>1 DEF LockNext
    <3>4. txn[t].also = {}
      BY <1>1, <1>5 DEF Placed
    <3> QED BY <3>1, <3>2, <3>3, <3>4
  <2>3. \A r \in Categories : BeforeInTree(on, r) /\ r \notin Parts
    BY <2>1, KindOrder
  <2> QED BY <1>2, <2>2, <2>3 DEF Orderly
<1>6. CASE txn[t].op = "assign"
  BY <1>2, <1>6 DEF Orderly
<1> QED BY <1>1, <1>2, <1>3, <1>4, <1>5, <1>6 DEF Structure

\* Every other lock is the next in order.
LEMMA RowOrdered ==
  ASSUME IInv, Ordered, NEW t \in Txns, LockRow(t)
  PROVE  Orderly(t)' /\ \A u \in Txns \ {t} : txn'[u] = txn[u]
<1>1. PICK r \in txn[t].todo :
        /\ \A q \in txn[t].todo : ~ Sooner(txn[t].op, q, r)
        /\ txn' = [txn EXCEPT ![t].todo = @ \ {r}, ![t].held = @ \cup {r}]
  BY DEF LockRow, CanLock
<1>2. /\ txn'[t].op = txn[t].op
      /\ txn'[t].held = txn[t].held \cup {r} /\ txn'[t].todo = txn[t].todo \ {r}
      /\ \A u \in Txns \ {t} : txn'[u] = txn[u]
  BY <1>1, Types DEF IInv, Command, TypeOK
<1>3. txn[t].op # "idle" /\ r \in NextRows(t) /\ Orderly(t) /\ TypeOK
  BY <1>1 DEF IInv, TxnInv, Covered, NextRows, Ordered
<1>4. CASE txn[t].op \notin {"sell", "assign"}
  <2>1. \A q \in txn[t].todo \ {r} : BeforeInTree(r, q)
    BY <1>3, <1>4, NextIsFirst
  <2> QED BY <1>2, <1>3, <1>4, <2>1 DEF Orderly
<1>5. CASE txn[t].op \in {"sell", "assign"}
  BY <1>2, <1>5 DEF Orderly
<1> QED BY <1>2, <1>4, <1>5

\* What a command that edits the catalog still wants comes after what it holds, and stays so.
LEMMA OrderKept ==
  ASSUME IInv, Ordered, [Next]_vars
  PROVE  Ordered'
<1>1. CASE UNCHANGED vars
  BY <1>1 DEF vars, Ordered, Orderly
<1>2. ASSUME NEW t \in Txns, Orderly(t)', \A u \in Txns \ {t} : txn'[u] = txn[u]
      PROVE  Ordered'
  BY <1>2 DEF Ordered, Orderly
<1>3. ASSUME NEW t \in Txns, BeginNext(t) \/ LockSubject(t) \/ LockRow(t)
      PROVE  Ordered'
  BY <1>2, <1>3, BeginsOrdered, SubjectOrdered, RowOrdered DEF IInv
<1>4. ASSUME NEW t \in Txns, LockForSale(t)
      PROVE  Ordered'
  <2>1. txn'[t].op = "sell" /\ \A u \in Txns \ {t} : txn'[u] = txn[u]
    BY <1>4, Types DEF LockForSale, IInv, Command, TypeOK
  <2> QED BY <1>2, <2>1 DEF Orderly
<1>5. ASSUME NEW t \in Txns, Write(t)
      PROVE  Ordered'
  <2>1. /\ txn'[t].op = txn[t].op /\ txn'[t].todo = txn[t].todo /\ txn'[t].held = txn[t].held
        /\ \A u \in Txns \ {t} : txn'[u] = txn[u]
    BY <1>5, Types DEF Write, IInv, Command, TypeOK
  <2> QED BY <1>2, <2>1 DEF Ordered, Orderly
<1>6. ASSUME NEW t \in Txns, Release(t)
      PROVE  Ordered'
  <2>1. txn'[t].held = {} /\ txn'[t].todo = {} /\ \A u \in Txns \ {t} : txn'[u] = txn[u]
    BY <1>6 DEF Release, Idle, IInv, TypeOK
  <2> QED BY <1>2, <2>1 DEF Orderly
<1>7. CASE Next
  BY <1>3, <1>4, <1>5, <1>6, <1>7 DEF Next, BeginNext, FinishStructure, FinishMove,
     FinishCreate, FinishRetire, FinishRestate, FinishSale, Abort
<1> QED BY <1>1, <1>7

\* A non-empty set of numbers has a least one.
LEMMA LeastNat ==
  ASSUME NEW T \in SUBSET Nat, T # {}
  PROVE  \E m \in T : \A n \in T : m <= n
<1>1. PICK m \in T : \A n \in T : ~ (<<n, m>> \in OpToRel(<, Nat))
  BY NatLessThanWellFounded, WFMin
<1>2. \A n \in T : ~ (n < m)
  BY <1>1 DEF OpToRel
<1> QED BY <1>2

\* Of some rows, none of them comes before one.
LEMMA SoonestRow ==
  ASSUME NEW W \in SUBSET Rows, W # {}
  PROVE  \E r \in W : \A q \in W : ~ BeforeInTree(q, r)
<1> DEFINE kinds == {Kind(Tree(r)) : r \in W}
<1>1. PICK k \in kinds : \A n \in kinds : k <= n
  <2>1. kinds \in SUBSET Nat /\ kinds # {}
    BY KindOrder
  <2> HIDE DEF kinds
  <2> QED BY <2>1, LeastNat
<1> DEFINE trees == {Tree(r) : r \in {q \in W : Kind(Tree(q)) = k}}
<1>2. PICK n \in trees : \A m \in trees : n <= m
  <2>1. trees \in SUBSET Nat /\ trees # {}
    BY <1>1, Ranks
  <2> HIDE DEF trees
  <2> QED BY <2>1, LeastNat
<1> DEFINE part(r) == IF r \in Parts THEN r ELSE 0
           parts == {part(r) : r \in {q \in W : Tree(q) = n}}
<1>3. PICK p \in parts : \A m \in parts : p <= m
  <2>1. parts \in SUBSET Nat /\ parts # {}
    BY <1>2, Ranks
  <2> HIDE DEF parts
  <2> QED BY <2>1, LeastNat
<1>4. PICK r \in W : Tree(r) = n /\ part(r) = p
  BY <1>3
<1>5. ASSUME NEW q \in W
      PROVE  ~ BeforeInTree(q, r)
  <2>1. /\ Kind(Tree(q)) \in Nat /\ Kind(Tree(r)) \in Nat /\ Tree(q) \in Nat /\ Tree(r) \in Nat
        /\ q \in Nat \ {0} /\ r \in Nat \ {0}
    BY Ranks
  <2>2. Kind(Tree(r)) = k /\ k <= Kind(Tree(q))
    BY <1>1, <1>2, <1>4
  <2>3. Kind(Tree(q)) = Kind(Tree(r)) => Tree(r) <= Tree(q)
    BY <1>2, <1>4, <2>2
  <2>4. Tree(q) = Tree(r) => part(r) <= part(q)
    BY <1>3, <1>4
  <2> QED BY <2>1, <2>2, <2>3, <2>4 DEF BeforeInTree
<1> QED BY <1>4, <1>5

\* The circle's soonest row is asked for by a command that another one waits for,
\* and what that one asks for, the first one holds: a sooner row.
LEMMA CirclesBroken ==
  ASSUME IInv, Ordered
  PROVE  EditsNeverDeadlock
<1> SUFFICES ASSUME NEW D \in SUBSET Txns, WaitCycle(D),
                    \A t \in D : txn[t].op \notin {"sell", "assign"}
             PROVE  FALSE
  BY DEF EditsNeverDeadlock
<1> DEFINE W == UNION {NextRows(t) : t \in D}
<1>1. W \in SUBSET Rows
  BY Types DEF NextRows, IInv, Command
<1>2. W # {}
  <2>1. PICK t \in D : \E u \in D : WaitsFor(t, u)
    BY DEF WaitCycle
  <2> QED BY <2>1 DEF WaitsFor
<1>3. PICK r \in W : \A q \in W : ~ BeforeInTree(q, r)
  <2> HIDE DEF W
  <2> QED BY <1>1, <1>2, SoonestRow
<1>4. PICK t \in D : r \in NextRows(t)
  BY <1>3
<1>5. PICK v \in D : WaitsFor(v, t)
  BY <1>4 DEF WaitCycle
<1>6. PICK q \in NextRows(v) : q \in txn[t].held
  BY <1>5 DEF WaitsFor
<1>7. BeforeInTree(q, r)
  BY <1>4, <1>6 DEF Ordered, Orderly, NextRows
<1> QED BY <1>3, <1>5, <1>6, <1>7

\* The invariant holds for any menu and any number of commands in flight.
THEOREM Invariance == Spec => []IInv
BY Initially, Steps, PTL DEF Spec

\* The variables keep their types.
THEOREM TypeCorrect == Spec => []TypeOK
<1>1. IInv => TypeOK
  BY DEF IInv
<1> QED BY <1>1, Invariance, PTL

\* ADR-059: no exclusion outlives its category's providing the group.
THEOREM ExclusionsFollow == Spec => []ExclusionsProvided
<1>1. IInv => ExclusionsProvided
  BY DEF IInv
<1> QED BY <1>1, Invariance, PTL

\* A Commit sells what is active and for sale, at the terms it has frozen.
THEOREM SalesStand == Spec => []SoldAsListed
<1>1. ASSUME IInv, NEW t \in Txns, Done(t, "sell"), NEW r \in txn[t].want
      PROVE  r \notin retired /\ terms[r] # 0 /\ <<r, terms[r]>> \in txn[t].priced
  BY <1>1 DEF IInv, TxnInv, Covered, SaleHolds, Done
<1>2. IInv => SoldAsListed
  BY <1>1 DEF SoldAsListed
<1> QED BY <1>2, Invariance, PTL

\* A replace command leaves exactly the set it was asked for.
THEOREM ReplaceIsWhole == Spec => ReplacedWhole
<1>1. ASSUME IInv, NEW t \in Txns, FinishStructure(t)
      PROVE  /\ txn[t].op = "regroup" => Seconds(direct', txn[t].on) = txn[t].want
             /\ txn[t].op = "offer"   => Seconds(provides', txn[t].on) = txn[t].want
             /\ txn[t].op = "assign"  => /\ Firsts(direct', txn[t].on) = txn[t].want
                                         /\ Firsts(provides', txn[t].on) = txn[t].also
  <2>1. /\ direct' = (direct \ DirectRemoved(t)) \cup DirectAdded(t)
        /\ provides' = (provides \ ProvidesRemoved(t)) \cup ProvidesAdded(t)
        /\ txn[t].op \in Structure /\ txn[t].held # {} /\ Reads(t) /\ TypeOK
        /\ txn[t].want \subseteq Rows /\ txn[t].also \subseteq Rows
    BY <1>1, Types DEF FinishStructure, IInv, TxnInv, Covered, Command
  <2>2. CASE txn[t].op = "regroup"
    BY <2>1, <2>2 DEF Reads, DirectRemoved, DirectAdded, Pairs, Seconds
  <2>3. CASE txn[t].op = "offer"
    BY <2>1, <2>3 DEF Reads, ProvidesRemoved, ProvidesAdded, Pairs, Seconds
  <2>4. CASE txn[t].op = "assign"
    BY <2>1, <2>4 DEF Reads, DirectRemoved, DirectAdded, ProvidesRemoved, ProvidesAdded, Owned, Firsts
  <2> QED BY <2>2, <2>3, <2>4
<1>2. IInv => [\A t \in Txns : FinishStructure(t) =>
                 /\ txn[t].op = "regroup" => Seconds(direct', txn[t].on) = txn[t].want
                 /\ txn[t].op = "offer"   => Seconds(provides', txn[t].on) = txn[t].want
                 /\ txn[t].op = "assign"  => /\ Firsts(direct', txn[t].on) = txn[t].want
                                             /\ Firsts(provides', txn[t].on) = txn[t].also]_vars
  BY <1>1
<1> QED BY <1>2, Invariance, PTL DEF ReplacedWhole

\* Edits, any number of them, never wait for each other in a circle.
THEOREM NoEditDeadlock == Spec => []EditsNeverDeadlock
<1>1. Init => IInv /\ Ordered
  <2>1. ASSUME Init, NEW t \in Txns PROVE Orderly(t)
    BY <2>1 DEF Init, Idle, Orderly
  <2> QED BY <2>1, Initially DEF Ordered
<1>2. (IInv /\ Ordered) /\ [Next]_vars => (IInv /\ Ordered)'
  BY Steps, OrderKept
<1>3. IInv /\ Ordered => EditsNeverDeadlock
  BY CirclesBroken
<1> QED BY <1>1, <1>2, <1>3, PTL DEF Spec

=============================================================================
