------------------------------ MODULE Catalog ------------------------------
(***************************************************************************)
(* The menu while it is edited and sold: which Modifier Groups an item     *)
(* offers (what its category provides, less its exclusions, and its direct *)
(* ones), who is retired, and the terms a Commit freezes.                  *)
(*                                                                         *)
(* Every command locks rows, reads at READ COMMITTED and writes, and its   *)
(* writes show when it commits.  The reads matter: a replace command       *)
(* computes what to add and to remove from sets it read before it had      *)
(* locked their members, and what it deletes is fixed by a statement that  *)
(* runs before its commit.  So a command is three kinds of step: Acquire,  *)
(* a row at a time, with the read that follows its first row; Write, the   *)
(* checks and the statements after its last row; Finish, its commit.       *)
(*                                                                         *)
(* Categories, groups, sizes and options exist from the start; items are   *)
(* created.  Names, pictures and selection rules are left out.             *)
(***************************************************************************)
EXTENDS Integers, FiniteSets

CONSTANTS
    Txns,        \* command transactions in flight at once
    Items, Categories, Groups, Parts,  \* ids of the rows; Parts are Sizes and Options
    ParentOf,    \* Part -> the item it is a Size of or the group it is an Option of
    Terms,       \* what a row sells for, by number (nothing adds them): 0 while it is
                 \* unavailable; an Option that costs nothing is numbered like any other
    MaxRetired   \* bound: rows ever retired

Rows == Items \cup Categories \cup Groups \cup Parts
Sizes == {p \in Parts : ParentOf[p] \in Items}
Sold == Items \cup Parts

ASSUME RowAssumption == Rows \subseteq Nat \ {0}
ASSUME KindAssumption ==
    /\ Items \cap Categories = {} /\ Items \cap Groups = {} /\ Items \cap Parts = {}
    /\ Categories \cap Groups = {} /\ Categories \cap Parts = {} /\ Groups \cap Parts = {}
ASSUME ParentAssumption == ParentOf \in [Parts -> Items \cup Groups]
ASSUME TermsAssumption == Terms \subseteq Nat

VARIABLES
    category,   \* item -> its category, 0 before it is created
    provides,   \* <<category, group>>: the category's items inherit the group
    direct,     \* <<item, group>>: attached to the item itself
    excluded,   \* <<item, group>>: inherited, but not by this item
    retired,    \* rows withdrawn for good
    terms,      \* item or part -> its terms
    txn         \* transaction -> its command, locks and reads

menu == <<category, provides, direct, excluded, retired, terms>>
vars == <<category, provides, direct, excluded, retired, terms, txn>>

-----------------------------------------------------------------------------
Seconds(relation, a) == {b \in Rows : <<a, b>> \in relation}
Firsts(relation, b) == {a \in Rows : <<a, b>> \in relation}

\* (inherited - excluded) and direct.
Effective(i) ==
    (Seconds(provides, category[i]) \ Seconds(excluded, i)) \cup Seconds(direct, i)

(* A command: the row it is about (on), the sets asked for (want, also),   *)
(* the rows it has still to lock, those it holds, the sets it read under   *)
(* the lock of its first row (saw, sawAlso), the terms a sale read, and    *)
(* once it has written, the exclusions it deleted.                         *)
Idle == [op |-> "idle", on |-> 0, want |-> {}, also |-> {}, todo |-> {}, held |-> {},
         saw |-> {}, sawAlso |-> {}, priced |-> {}, written |-> FALSE, gone |-> {}]

Structure == {"attach", "provide", "exclude", "regroup", "offer", "assign", "move"}

Command == [op : {"idle", "create", "retire", "restate", "sell"} \cup Structure,
            on : Rows \cup {0}, want : SUBSET Rows, also : SUBSET Rows,
            todo : SUBSET Rows, held : SUBSET Rows,
            saw : SUBSET Rows, sawAlso : SUBSET Rows,
            priced : SUBSET (Sold \X Terms), written : BOOLEAN,
            gone : SUBSET (Items \X Groups)]

Init ==
    /\ category \in [Items -> Categories \cup {0}]
    /\ provides = {} /\ direct = {} /\ excluded = {} /\ retired = {}
    /\ terms \in [Sold -> Terms]
    /\ txn = [t \in Txns |-> Idle]

Begin(t, op, on, want, also, first) ==
    /\ txn[t].op = "idle"
    /\ txn' = [txn EXCEPT ![t] = [Idle EXCEPT !.op = op, !.on = on, !.want = want,
                                              !.also = also, !.todo = first]]
    /\ UNCHANGED menu

Created == {i \in Items : category[i] # 0}

AttachItem(t) ==
    \E i \in Created, g \in Groups : Begin(t, "attach", i, {g}, {}, {i})
AttachCategory(t) ==
    \E c \in Categories, g \in Groups : Begin(t, "provide", c, {g}, {}, {c})
ExcludeInherited(t) ==
    \E i \in Created, g \in Groups : Begin(t, "exclude", i, {g}, {}, {i})

\* The whole set of an item, of a category, of a group.
ReplaceItemGroups(t) ==
    \E i \in Created, D, E \in SUBSET Groups :
        D \cap E = {} /\ Begin(t, "regroup", i, D, E, {i})
ReplaceCategoryGroups(t) ==
    \E c \in Categories, G \in SUBSET Groups : Begin(t, "offer", c, G, {}, {c})
ReplaceGroupAssignments(t) ==
    \E g \in Groups, I \in SUBSET Created, C \in SUBSET Categories :
        Begin(t, "assign", g, I, C, {g})

MoveItemCategory(t) ==
    \E i \in Created, c \in Categories : Begin(t, "move", i, {c}, {}, {i})

\* Nobody knows the id of an item being created.
CreateItem(t) ==
    \E i \in Items \ Created, c \in Categories :
        /\ \A u \in Txns : txn[u].op = "create" => i \notin txn[u].want
        /\ Begin(t, "create", c, {i}, {}, {c})

\* A Part is locked after its parent.
WithParents(rows) == rows \cup {ParentOf[p] : p \in Parts \cap rows}

Retire(t) ==
    /\ Cardinality(retired) < MaxRetired
    /\ \E r \in Rows :
        /\ r \in Items => r \in Created
        /\ Begin(t, "retire", 0, {r}, {}, WithParents({r}))

\* A price or an availability; a batch of availabilities.
Restate(t) ==
    \E rows \in (SUBSET (Created \cup Parts)) \ {{}} :
        Begin(t, "restate", 0, rows, {}, WithParents(rows))

\* Commit: the items of an Order Draft and what was chosen with them.
Sell(t) ==
    \E items \in (SUBSET Created) \ {{}}, parts \in SUBSET Parts :
        /\ \A p \in parts : ParentOf[p] \in items \cup Groups
        /\ Begin(t, "sell", 0, items \cup parts, {}, items \cup parts)

-----------------------------------------------------------------------------
(* Locks.                                                                  *)

Kind(r) == IF r \in Items THEN 0 ELSE IF r \in Categories THEN 1
           ELSE IF r \in Groups THEN 2 ELSE 3

\* Items, then groups, by id, each followed by its own Parts.
Tree(r) == IF r \in Parts THEN ParentOf[r] ELSE r
\* Mutant: A batch locks the groups before the items.
GroupsBeforeItems(r, q) ==
    \/ Kind(Tree(r)) > Kind(Tree(q))
    \/ Kind(Tree(r)) = Kind(Tree(q)) /\ Tree(r) < Tree(q)
    \/ Tree(r) = Tree(q) /\ q \in Parts /\ (r \notin Parts \/ r < q)

BeforeInTree(r, q) ==
    \/ Kind(Tree(r)) < Kind(Tree(q))
    \/ Kind(Tree(r)) = Kind(Tree(q)) /\ Tree(r) < Tree(q)
    \/ Tree(r) = Tree(q) /\ q \in Parts /\ (r \notin Parts \/ r < q)

\* A sale's items come in the order they were ordered, its Sizes by id, its
\* Options by name.
BeforeInSale(r, q) ==
    \/ r \in Items /\ q \in Parts
    \/ r \in Sizes /\ q \in Parts \ Sizes
    \/ r \in Sizes /\ q \in Sizes /\ r < q

Sooner(op, r, q) ==
    CASE op \in {"retire", "restate"} -> BeforeInTree(r, q)
      [] op = "sell"                  -> BeforeInSale(r, q)
      [] OTHER -> Kind(r) < Kind(q) \/ (Kind(r) = Kind(q) /\ r < q)

\* Mutant: The replace commands lock FOR SHARE too.
FreeToReplace(t, r) ==
    LET shares == {"sell", "regroup", "offer", "assign"} IN
    \A u \in Txns \ {t} : r \in txn[u].held => {txn[t].op, txn[u].op} \subseteq shares

\* Mutant: A Commit reads the menu without a lock.
FreeBesideSales(t, r) ==
    \A u \in Txns \ {t} : r \in txn[u].held => "sell" \in {txn[t].op, txn[u].op}

\* A sale locks FOR SHARE, everything else FOR UPDATE.
Free(t, r) ==
    \A u \in Txns \ {t} :
        r \in txn[u].held => txn[t].op = "sell" /\ txn[u].op = "sell"

\* Rows that must not be retired: those the command is about, their parents,
\* and those it would add to a set.
MustBeActive(t) ==
    {txn[t].on} \cup ((WithParents(txn[t].want) \cup txn[t].also)
                          \ (txn[t].saw \cup txn[t].sawAlso))

\* r is the next row of t, nobody holds it, and t is not refused there.
CanLock(t, r) ==
    /\ r \in txn[t].todo
    /\ \A q \in txn[t].todo : ~ Sooner(txn[t].op, q, r)
    /\ Free(t, r)
    /\ r \in Items => r \in Created
    /\ r \in MustBeActive(t) => r \notin retired

\* The sets a structure command reads under the lock of its first row.
ReadSets(t) ==
    LET on == txn[t].on IN
    CASE txn[t].op = "regroup" -> <<Seconds(direct, on), Seconds(excluded, on)>>
      [] txn[t].op = "offer"   -> <<Seconds(provides, on), {}>>
      [] txn[t].op = "assign"  -> <<Firsts(direct, on), Firsts(provides, on)>>
      [] txn[t].op = "move"    -> <<{category[on]}, {}>>
      [] OTHER                 -> <<{}, {}>>

\* Mutant: An exclusion leaves its group unlocked.
LockWithoutExcluded(t, saw, sawAlso) ==
    IF txn[t].op = "exclude" \/ (txn[t].op = "move" /\ txn[t].want = saw) THEN {}
    ELSE txn[t].want \cup txn[t].also \cup saw \cup sawAlso

\* The rows they make it lock next: moving an item to where it is, none.
LockNext(t, saw, sawAlso) ==
    IF txn[t].op = "move" /\ txn[t].want = saw THEN {}
    ELSE txn[t].want \cup txn[t].also \cup saw \cup sawAlso

LockSubject(t) ==
    LET read == ReadSets(t) IN
    /\ txn[t].op \in Structure /\ txn[t].held = {}
    /\ CanLock(t, txn[t].on)
    /\ txn' = [txn EXCEPT ![t] =
                 [@ EXCEPT !.held = {txn[t].on}, !.saw = read[1], !.sawAlso = read[2],
                           !.todo = LockNext(t, read[1], read[2])]]
    /\ UNCHANGED menu

LockRow(t) ==
    /\ txn[t].op # "sell"
    /\ txn[t].op \in Structure => txn[t].held # {}
    /\ \E r \in txn[t].todo :
        /\ CanLock(t, r)
        /\ txn' = [txn EXCEPT ![t].todo = @ \ {r}, ![t].held = @ \cup {r}]
    /\ UNCHANGED menu

\* A sale freezes the terms it locks.  The groups its items offer are read once
\* the items and Sizes are locked; their own rows are not.
LockForSale(t) ==
    /\ txn[t].op = "sell"
    /\ \E r \in txn[t].todo :
        /\ CanLock(t, r)
        /\ terms[r] # 0
        /\ r \in Parts \ Sizes => ParentOf[r] \in txn[t].saw \ retired
        /\ txn' = [txn EXCEPT ![t].todo = @ \ {r}, ![t].held = @ \cup {r},
                              ![t].priced = @ \cup {<<r, terms[r]>>},
                              ![t].saw =
                                 IF r \in Parts \ Sizes THEN @
                                 ELSE UNION {Effective(i) : i \in Items \cap txn[t].want}]
    /\ UNCHANGED menu

-----------------------------------------------------------------------------
(* Writes.  What a replace command adds and removes is the difference to   *)
(* the set it read; attaching adds whatever the set.                       *)

Pairs(t, others) == {txn[t].on} \X others
Owned(t, owners) == owners \X {txn[t].on}

DirectAdded(t) ==
    CASE txn[t].op \in {"attach", "regroup"} -> Pairs(t, txn[t].want \ txn[t].saw)
      [] txn[t].op = "assign"                -> Owned(t, txn[t].want \ txn[t].saw)
      [] OTHER                               -> {}
DirectRemoved(t) ==
    CASE txn[t].op = "regroup" -> Pairs(t, txn[t].saw \ txn[t].want)
      [] txn[t].op = "assign"  -> Owned(t, txn[t].saw \ txn[t].want)
      [] OTHER                 -> {}
ProvidesAdded(t) ==
    CASE txn[t].op \in {"provide", "offer"} -> Pairs(t, txn[t].want \ txn[t].saw)
      [] txn[t].op = "assign"               -> Owned(t, txn[t].also \ txn[t].sawAlso)
      [] OTHER                              -> {}
ProvidesRemoved(t) ==
    CASE txn[t].op = "offer"  -> Pairs(t, txn[t].saw \ txn[t].want)
      [] txn[t].op = "assign" -> Owned(t, txn[t].sawAlso \ txn[t].also)
      [] OTHER                -> {}
ExcludedAdded(t) ==
    CASE txn[t].op = "exclude" -> Pairs(t, txn[t].want)
      [] txn[t].op = "regroup" -> Pairs(t, txn[t].also \ txn[t].sawAlso)
      [] OTHER                 -> {}
ExcludedRemoved(t) ==
    IF txn[t].op = "regroup" THEN Pairs(t, txn[t].sawAlso \ txn[t].also) ELSE {}

\* The exclusions that a category's providing no more, or a move, leaves behind.
Orphans(t) ==
    CASE txn[t].op = "move" ->
            {x \in excluded : x[1] = txn[t].on
                              /\ \A c \in txn[t].want : <<c, x[2]>> \notin provides}
      [] OTHER -> {x \in excluded : <<category[x[1]], x[2]>> \in ProvidesRemoved(t)}

\* What the category must provide to be excluded.
MustProvide(t) ==
    CASE txn[t].op = "exclude" -> txn[t].want
      [] txn[t].op = "regroup" -> txn[t].also
      [] OTHER                 -> {}

\* The checks, the key of each relation, and the statements.
Write(t) ==
    /\ txn[t].op \in Structure /\ txn[t].held # {} /\ txn[t].todo = {} /\ ~ txn[t].written
    /\ \A g \in MustProvide(t) : <<category[txn[t].on], g>> \in provides
    /\ txn[t].op = "assign" => DirectAdded(t) \cap excluded = {}
    /\ DirectAdded(t) \cap direct = {}
    /\ ProvidesAdded(t) \cap provides = {}
    /\ ExcludedAdded(t) \cap excluded = {}
    /\ txn' = [txn EXCEPT ![t].written = TRUE, ![t].gone = Orphans(t)]
    /\ UNCHANGED menu

-----------------------------------------------------------------------------
(* The commit: the writes become visible and the locks are released.       *)

Release(t) == txn' = [txn EXCEPT ![t] = Idle]
Done(t, op) == txn[t].op = op /\ txn[t].held # {} /\ txn[t].todo = {}

FinishStructure(t) ==
    /\ txn[t].written /\ txn[t].op # "move"
    /\ direct' = (direct \ DirectRemoved(t)) \cup DirectAdded(t)
    /\ provides' = (provides \ ProvidesRemoved(t)) \cup ProvidesAdded(t)
    /\ excluded' = (excluded \ (ExcludedRemoved(t) \cup txn[t].gone)) \cup ExcludedAdded(t)
    /\ Release(t)
    /\ UNCHANGED <<category, retired, terms>>

FinishMove(t) ==
    /\ txn[t].written /\ txn[t].op = "move"
    /\ \E c \in txn[t].want : category' = [category EXCEPT ![txn[t].on] = c]
    /\ excluded' = excluded \ txn[t].gone
    /\ Release(t)
    /\ UNCHANGED <<provides, direct, retired, terms>>

FinishCreate(t) ==
    /\ Done(t, "create")
    /\ \E i \in txn[t].want : category' = [category EXCEPT ![i] = txn[t].on]
    /\ Release(t)
    /\ UNCHANGED <<provides, direct, excluded, retired, terms>>

FinishRetire(t) ==
    /\ Done(t, "retire")
    /\ retired' = retired \cup txn[t].want
    /\ Release(t)
    /\ UNCHANGED <<category, provides, direct, excluded, terms>>

FinishRestate(t) ==
    /\ Done(t, "restate")
    /\ terms' \in [Sold -> Terms]
    /\ \A r \in Sold \ txn[t].want : terms'[r] = terms[r]
    /\ Release(t)
    /\ UNCHANGED <<category, provides, direct, excluded, retired>>

\* The Committed Items carry what was priced; they are CheckLedger's.
FinishSale(t) == Done(t, "sell") /\ Release(t) /\ UNCHANGED menu

\* A refusal, a lost connection, a deadlock.
Abort(t) == txn[t].op # "idle" /\ Release(t) /\ UNCHANGED menu

Next ==
    \E t \in Txns :
        \/ AttachItem(t) \/ AttachCategory(t) \/ ExcludeInherited(t)
        \/ ReplaceItemGroups(t) \/ ReplaceCategoryGroups(t) \/ ReplaceGroupAssignments(t)
        \/ MoveItemCategory(t) \/ CreateItem(t) \/ Retire(t) \/ Restate(t) \/ Sell(t)
        \/ LockSubject(t) \/ LockRow(t) \/ LockForSale(t) \/ Write(t)
        \/ FinishStructure(t) \/ FinishMove(t) \/ FinishCreate(t) \/ FinishRetire(t)
        \/ FinishRestate(t) \/ FinishSale(t) \/ Abort(t)

Spec == Init /\ [][Next]_vars

-----------------------------------------------------------------------------
(* What must hold.                                                         *)

\* Types; a created item has a category.
TypeOK ==
    /\ category \in [Items -> Categories \cup {0}]
    /\ provides \subseteq Categories \X Groups
    /\ direct \subseteq Items \X Groups
    /\ excluded \subseteq Items \X Groups
    /\ retired \subseteq Rows
    /\ terms \in [Sold -> Terms]
    /\ txn \in [Txns -> Command]

\* An exclusion exists only while the item's category provides the group
\* (ADR-059), although groups leave categories and items change category while
\* exclusions are being made.
ExclusionsProvided ==
    \A x \in excluded : <<category[x[1]], x[2]>> \in provides

\* A replace command leaves exactly the set it was asked for, although it wrote
\* the difference to a set it had read before locking its members.  Of an item
\* this holds of the direct groups only.
ReplacedWhole ==
    [][\A t \in Txns : FinishStructure(t) =>
         /\ txn[t].op = "regroup" => Seconds(direct', txn[t].on) = txn[t].want
         /\ txn[t].op = "offer"   => Seconds(provides', txn[t].on) = txn[t].want
         /\ txn[t].op = "assign"  => /\ Firsts(direct', txn[t].on) = txn[t].want
                                     /\ Firsts(provides', txn[t].on) = txn[t].also]_vars

\* When a Commit writes, every item, Size and Option in it is still active, for
\* sale, and at the terms it has frozen.
SoldAsListed ==
    \A t \in Txns : Done(t, "sell") =>
        \A r \in txn[t].want :
            r \notin retired /\ terms[r] # 0 /\ <<r, terms[r]>> \in txn[t].priced

\* What t asks for next, and whether u has it.
NextRows(t) == {r \in txn[t].todo : \A q \in txn[t].todo : ~ Sooner(txn[t].op, q, r)}
WaitsFor(t, u) ==
    /\ t # u
    /\ {txn[t].op, txn[u].op} # {"sell"}
    /\ NextRows(t) \cap txn[u].held # {}

\* D waits in a circle: each for one of D, and one of D for each.
WaitCycle(D) ==
    /\ D # {}
    /\ \A t \in D : /\ \E u \in D : WaitsFor(t, u)
                    /\ \E u \in D : WaitsFor(u, t)

\* Edits never wait for each other in a circle (ADR-055 says it of batches
\* alone): every deadlock has in it a Commit, which locks in the order the guest
\* ordered, or a ReplaceGroupAssignments, which locks its group first.
EditsNeverDeadlock ==
    \A D \in SUBSET Txns :
        WaitCycle(D) => \E t \in D : txn[t].op \in {"sell", "assign"}

=============================================================================
