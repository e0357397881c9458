# A verification development for pos-cafe

pos-cafe is the point-of-sale server of one cafe: a Go program over PostgreSQL in which
every command is one `READ COMMITTED` transaction. Its hard parts are not in any single
function. They are in what transactions do to each other between two statements, in
denormalised columns that a dozen commands must keep in step with append-only facts, in
rows that refer to each other by position, and in requests that arrive twice. This directory
models those parts in TLA+, checks them with TLC on small instances and proves what matters
most with TLAPS for every instance.

Paths below are relative to the repository. Its Go code is in `internal/`, its SQL in
`sql/queries/`, its vocabulary in `CONTEXT.md` and its decisions in `spec/decisions.md`.

## The system

| Component | State | Operations | Who it meets |
|---|---|---|---|
| Sales Shift and reconciliation (`internal/shift`) | `sales_shifts`, `cash_movements`, the reconciliation snapshot, two append-only attempt ledgers, the closure | open; Cash Movement; Start Reconciliation; Cash Count, QR Observation; Final Close | every money command takes the Shift row `FOR SHARE`; reconciliation takes it `FOR UPDATE` and reads the whole cafe |
| Service Sessions, Order Drafts, Orders (`internal/sales`) | `service_sessions`, `order_drafts` and lines, `orders` | start; draft edits; commit; submit; new draft; close; cancel awaiting submission; abandon | Checks, Preparation, Shift, Tables |
| Checks, Payments, corrections (`internal/sales`, `internal/preparation/cancel*.go`) | `checks` (state and charge are denormalised), `payments`, voids, `charge_adjustments`, `refunds` with two kinds of allocation, completions | pay (cash, QR); void; cancel units; comp; refund; confirm | rows locked Check, Session, Shift |
| Check restructuring (`check_restructuring.go`) | `charge_allocations`, `checks` | split, merge | the same locks; Cancellation and Comp read the order of its allocations |
| Tables (`internal/tables`, `table_assignments.go`) | tables, assignments | set a Session's tables; release at its end | Session closure |
| Preparation (`internal/preparation`) | units, transitions, wastes, remakes, alerts | advance, bulk advance, waste, remake, correct state, cancel, acknowledge | units only, or Session then units; Cancellation also Checks |
| Mutation pipeline (`internal/platform/command`) | `idempotency_keys`, `audit_events`, an advisory lock per request | `ExecuteMutation`: authority, gate, approval, lock, replay or claim, body, result, commit; denial | every command of shift, sales, preparation and catalog |
| Connection pool (`internal/platform/database/db.go`) | 25 connections | begin; a statement of its own | commands that use it from inside a transaction |
| Auth (`internal/auth`) | `staff_identities`, roles, `staff_access_sessions` | sign in and out, lock, unlock; enable, disable, roles, PIN; Manager approval | the pipeline reloads it in every transaction |
| Catalog (`internal/catalog`) | items, categories, groups, three assignment relations, prices, availability, retirement | attach, exclude, replace a whole set, move, create, retire, availability (one, batch), reprice | Commit reads it `FOR SHARE` |
| Reads (`sales/projection.go`, `completed_sale_reads.go`, `reads.go`) | none of their own | the Service Session, open Sessions, Completed Sale | every row above, in one snapshot |
| HTTP, validation; generated SQL bindings; web client | none | | |

What is hard, and so what the properties are about:

- **Interleaving.** A Payment that was let in while the Shift was open commits while Start
  Reconciliation sums; a draft command that read an open Shift without locking it wakes up
  in another state of the world; a Manager is demoted while an approval of theirs is used; a
  Session is seated at a Table while it closes; a group leaves a category while an item
  excludes it.
- **Stale reads.** Cancellation and Comp find out what a unit is charged to before they hold
  a lock; the replace commands of the Catalog write a difference to a set they read before
  they locked its members.
- **Atomicity.** Reconciliation reads its totals in two statements with two snapshots.
- **Long protocols.** Pay, cancel, refund, void, comp, close and refund again: each command
  rewrites `checks.state` and `checks.charge_vnd` from its own point of view, and a Manual
  QR Refund is a promise that other commands may undermine before it is kept. Waste, remake,
  waste the remake, correct it: an item must not be served more often than it was ordered.
- **Unreliable delivery.** Double taps, retries after a lost answer or a 500.
- **Waiting.** Row locks, advisory locks and pooled connections are waited for without a
  time-out, and not every command takes its rows in the same order.

What makes each component correct: a reconciliation is of exactly what was recorded, and
nothing moves afterwards; a Check is settled exactly when it is covered, and no money goes
back twice; an item's allocations add up however Checks are split, and a sale was paid for
the units whose charge stands; Service Numbers are unique, ended Sessions hold no Table and a
Manager remains; an exclusion means something, a replaced set is the set asked for and a sale
is of what was listed; a request takes effect once and says so consistently; every approval
is by somebody who is a Manager when the command commits; whatever was sent ends.
`PROJECT.json` lists the hazards at the lines where they bite, with the properties that
would catch each going wrong, and why some have none.

## The modules

    SaleTab     <-- implements -- CheckLedger, Preparation
    ShiftBook   <-- implements -- SalesShift      <-- SalesShiftProofs, MCSalesShift
                    Sums      <-- Reconciliation  <-- SalesShiftProofs, MCReconciliation
        Sums      <-- CheckLedger <-- SaleReads   <-- CheckLedgerProofs, MCCheckLedger
                    SumTheorems                   <-- CheckLedgerProofs, SalesShiftProofs
                    Preparation <-- QueueReads    <-- PreparationProofs, MCPreparation
                                  RowLocks        <-- RowLocksProofs, MCRowLocks
                                  Catalog         <-- CatalogProofs, MCCatalog
    RoundBook   <-- implements -- OrderDraft      <-- OrderDraftProofs, MCOrderDraft
            Menu, Sums        <-- OrderDraft;   SumTheorems <-- OrderDraftProofs
    ExactlyOnce <-- implements -- CommandPipeline <-- CommandPipelineProofs, MCCommandPipeline

They divide the work by what a transaction is in them. In SalesShift, Catalog and
CommandPipeline it is a sequence of statements whose reads matter. In RowLocks it is a
sequence of locks and nothing else. In Reconciliation, CheckLedger, Preparation, Menu and
OrderDraft it is one step, because the other modules show that its rows are its own while it runs;
Cancellation and Comp, which read before they lock, are two.

### SalesShift: the lock protocol of a Sales Shift

A transaction `txn[t]` is a control point, the rows it holds and what it has read. Its
writes take effect in its last action, which also releases the locks, and `Rollback` may end
it anywhere. A disabled action is a wait: `MayShare` is `LockOpenSalesShiftForShare`,
`MayUpdate` is `FOR UPDATE`, and both re-evaluate the state the statement filters on when the
row arrives, as PostgreSQL does at `READ COMMITTED`. `ReadShift` followed by `LockDraft` is
the one statement `LockEditableDraft`: it filters on a Shift row it does not lock, so that
part of its condition may be stale when the draft arrives.

Start Reconciliation is `LockShift`, `StartCheckBlockers`, `StartSumMoney`, `CommitStart`:
the blockers, the sums over Payments and Refunds, the sum over Cash Movements, one action
each. Final Close is `LockShift`, `CloseCheckBlockers`, `CloseVerify`, `CommitClose`. The
Sales commands are grouped by the locks they take (`LockRow` then `ShareShiftAfterRow`, or
`ShareShift` then `LockRowAfterShift`) and each has a commit of its own.

Abstractions. A Session stands for all its rows; its Checks are followed together (`OPEN` if
any is). `held`, `owed`, `paid` and `pending` say whether there is money, an obligation, and
in which Shifts; which value a correction leaves is nondeterministic within what CheckLedger
allows. Facts are counted, not added: two reads add up to one instant exactly when no fact is
entered between or after them.

`ShiftBook` is what this promises: a book that takes one entry at a time while it is open,
is reported whole, and is closed against that report. It knows no transaction and no lock.

### Reconciliation: the amounts of a Sales Shift

SalesShift counts facts; Reconciliation adds them. `Expected` is what Start freezes, the drawer
and the two sides of Manual QR, `counts` and `observations` are the append-only ledgers of what
staff found, and `Accepted` is all that Final Close demands: nothing recorded since, the attempts
named are the last, whoever differs has looked twice, one fitting reason for each difference, and
what the CHECKs of `shift_discrepancies` admit. `Rechecks` and `CanClose` are the preview, which
compares the same evidence in code of its own. `FinalClose` writes the closure with its
discrepancies and remembers what it answered; `Detail` and `Summary` read it back, `StartWalk` and
`NextPage` are a Manager paging through the history with the cursor (`closed_at`, id).

Abstractions. A command is one step, because it holds the Shift row (SalesShift has the locks and
the blockers). Facts are totals by kind, so how a total splits into Payments is left open: a Void
and a Refund are bounded by what was taken. Whether the Manager approved is whether the request
has reasons, which the pipeline checks. The clock does not go back between two closures. One walk
is followed at a time. `MaxRecorded` (all facts ever recorded) and `MaxEvidence` (attempts of
both ledgers of all Shifts) bound the runs, `MaxAmount` stands for 1,000,000,000 VND and `MaxWindow`
for a year.

### CheckLedger: the money of one Service Session

Checks with their stored state and charge, Preparation Units as the things that are charged,
Payments with their Voids, Refunds with the amount they draw from every Payment and against
every Charge Adjustment. Actions are whole commands, because each holds the Session's rows and
the OPEN Shift throughout (SalesShift is where that protocol is checked, and its theorems
`PaymentsAttributed` and `WorkInOpenShift` are why the Shift conditions of Void and Confirm
need no variable here). Amounts are real: prices, partial Payments, all splits of a Refund
over its sources.

A Refund row keeps its `scope` (it names a Completed Sale or does not), so that `Returned` and
`Reserved` select rows and `Confirm` follows the intent and not the Session's present state.
`Sums` is the sum of a function over a finite set, of which all derived money is made;
`SumTheorems` is its theory, for the proofs.

`SaleTab` is what a Session promises of its money: one tab, on which the guests owe `due` and the
cafe owes `owed`, never netted against each other. A Payment takes no more than is due, a Refund
gives no more than is owed, a Void settles what was owed back for the Payment before the rest is due
again, and a tab closes square or is abandoned with nothing kept and nothing promised. It knows no
Check, no unit, no allocation. `Due`, `Owed`, `Kept` and `Promised` read it off the Checks. After
the end the tab is as it is left: not even confirming a promise made before closure, for a Refund of
a live Check, moves it. Preparation implements the same tab with rows of its own, which is how the
two modules that divide the Checks between them are known to agree on the money.

Abstractions. A unit is a charged quantity of one, `MAKING` stands for `IN_PREPARATION` and
`READY`; which OPEN Check a draft joins is nondeterministic; tenders and change are left out.

### SaleReads: what is shown of it

The two projections of a Session's money, as operators over CheckLedger's state: the Service
Session, which every command returns and any client may get, and the Completed Sale, which is put
together from the rows each time. `CheckError` is `loadCheckForSnapshot`: the equation
(`ComputeCheckFinancials`), the sources (`SourcesHold`) and the three invariant errors in the order
the code meets them. `Consuming` is the rule that separates the two snapshots, `CorrectionRead` a
Comp after closure with the Refunds that drew on it. A GET runs in one read-only `REPEATABLE READ`
transaction and a command reads under its locks, so a read is of one state.

`EveryReadSucceeds` says that no sequence of commands makes a read refuse; `SaleReadsTheSame` that a
Completed Sale, down to what each Payment had left to refund, never reads differently.

Abstractions. Tables, draft lines, Orders, names and the transition history are left out of the
answers; every amount is what the rows add up to, and that sums stay in range is Reconciliation's.

### Preparation: the bar's work and what it is charged to

The units of one Session, the Charge Allocations that spread an item's quantity over Checks,
and the Split and Merge that rearrange them. A unit holds no reference to its allocation:
`Covering` is `ResolveCancellationUnits`, which finds it by the unit's number in the running
total of the item's allocations in order of creation. So `alloc` is a sequence for every item,
and `Lower` (a deletion when emptied), `Raise` (in place, or appended) and `Redirect` (Merge
moves a row) keep the order the code keeps. `ResolveCancellation` and `ResolveComp` are the
pool reads before the mutation; `CancelUnits` and `CompWaste` are the mutations, which resolve
again under their locks (`Unmoved`) and look at the units again (`StillQueued`). `Forget` is
the id of a deleted allocation, which a request that resolved to it can never find again.
`AdvanceUnits` is the bulk advance, one savepoint per unit, and a single advance.

Abstractions. `READY` and `IN_PREPARATION` are apart here and one in CheckLedger; a Payment
and a Refund only move `received`, because sources, methods and intents are CheckLedger's;
which OPEN Check a draft joins is nondeterministic; `MaxRemakes`, `Acknowledged` (which alerts
are ever acknowledged) and `MaxInFlight` (requests between their two steps) bound the runs.

### QueueReads: what the bar sees of it

The one read the bar's screen polls, as operators over Preparation's state: `ReadActiveQueue` lists
the units to work on with those called off and not yet acknowledged (`ListActivePreparationUnits`,
with the lane and the "2 of 3" of each), the alerts with the Waste they link to, and the Wastes and
Remakes of open Sessions. Nothing else tells the bar of its work. It is one read-only
`REPEATABLE READ` transaction, so it is of one state.

`QueueKeepsTheWork` says of every step that a unit leaves the screen only by being served or, called
off, by its alert being acknowledged, that a closed Session puts nothing on it, and that the lists
fit each other (`Coherent`): every alert's unit is listed, a piece is numbered within its count, a
Remake replaces what was wasted.

Abstractions. Names, Tables, times and the order within a lane are left out.

### RowLocks: every command as the rows it locks

A command is `todo`, the row locks it has still to take, `held`, those it has, and the order of
its statements (`LockOrder` between kinds of rows, `Earlier` within a kind). Locking a row may
add to `todo`: `SetSessionTables` discovers the Tables it needs under the Session's lock, Submit
and the recoveries discover the Session's Checks, Commit the Check it joins (`Discovers`).
`Admits` is what a `WHERE` or an early return requires of the row, `Conflict` the lock modes,
`WaitsFor` and `WaitCycle` what PostgreSQL's detector sees. The writes kept here are the three
that nothing but these locks protects: Service Numbers (read, under an advisory lock, as the
maximum and one), Tables held, and who is an enabled Manager.

Abstractions. The Shift stays OPEN; the claim and the actor's own identity are CommandPipeline's;
a unit row stands for the units and wastes of a Session; a refusal is an `Abort` at the row that
refuses; `DraftRowFirst` is which row `FOR UPDATE OF d, s` locks first, which SQL leaves open:
the runs take one each and the proofs either.

### Catalog: the menu while it is edited and sold

Three relations (`provides`, `direct`, `excluded`), the category of each item, who is retired and
the terms things sell for. A command takes its rows one at a time (`LockSubject` with the read
that follows it, `LockRow`, `LockForSale`), then checks and writes (`Write`), then commits. `Write`
and the commit are apart because a `DELETE` at `READ COMMITTED` removes what it sees when it runs
(`gone`): an exclusion committed after it would be left behind, if the locks allowed one. A
`Sell` is a Commit as the Catalog sees it: `FOR SHARE`, in the order of the draft.

Abstractions. Categories, groups, Sizes and Options exist from the start; adding them,
selection rules and defaults are in Menu, and names, display and images in neither; `terms` numbers what a row
sells for (a free Option's terms are terms too), 0 while unavailable; an Option in a Commit may be offered by any of its items; a no-op change takes the
same locks and writes the same value. `MaxRetired` bounds the runs.

### Menu, OrderDraft and RoundBook: from a line on a tablet to the bar

Menu is the menu as rows: what is unmade, available, sold out or retired, prices, the selection
rule and defaults of a group, and the groups each item offers (`offered` is what Catalog's three
relations come to). Creating, repricing, availability, retirement, rules and defaults are its
actions; A price is positive, the surcharge of an Option may be zero
(`ValidPrices`, `ValidSurcharges`). `Reattach` stands for every command of Catalog by its effect on one item. `Shown` is the
Sellable Menu.

OrderDraft adds the drafts of one Session. `line` and `chosen` are two tables, because the
commands look for a line of the same composition by `key`, the column derived from the chosen
Options, and rewrite `chosen` only when the key changes; `ApplyCompositionChange` is where an
edited line may vanish into another. `CommitOrderDraft` freezes Item, Size, note, Options and
price into `sold` and charges a Check, `SubmitOrder` makes the units, `CancelAwaitingSubmission`
takes the frozen charge back, `StartNewOrderDraft` is refused by what `Blocks`. `RoundBook` is
what this promises without keys, lines that merge or Options' rows: a bag of compositions, what
each round was charged, and what it sent to the bar.

Abstractions. The Session is ACTIVE and its Shift OPEN (SalesShift), a Check is paid whole
(CheckLedger), and a command is one step because every draft command locks the draft and its
Session before it reads a line. Of a round that has its Order only the state is kept. Trimming
of notes and the unique index that backs the composition up are left out. `Lines`, `RoundLines`,
`MaxQuantity` (99 in the code), `MaxRounds`, `MaxChanges` (commands on the menu) and `MaxChosen`
bound the runs.

### CommandPipeline: one request, several attempts

`ExecuteMutation` step by step for attempts at a set of requests. Locks are not variables:
every lock lasts until its transaction ends, so what an attempt holds follows from where it is
(`HoldsRow`, `SharesRow`, `HoldsRequest`, `Connections`). `WaitsFor` and `WaitCycle` are the
wait-for graph PostgreSQL sees, `AbortDeadlocked` its answer. `Drop` is a client that goes
away, a broken connection or a crash. `SetStanding` and `SetSession` are the staff
administration and the access sessions, concurrently; sign-in checks `enabled` with no lock,
so a session may appear after its identity was disabled.

Abstractions. The command body is one step (its own locks are in SalesShift); an attempt has
one outcome per place; State Correction's self-PIN gate takes the locks of a self-approval; the
claim of the advisory key by a 64-bit XOR never collides.

`ExactlyOnce` is the promise to clients: a request takes effect at most once, and who is told
of success is told the result that took effect. It knows no lock, no approval, no transaction.

## The runs

| Run | Instance | Shows |
|---|---|---|
| `shift_history` | two Shifts, one Session, two transactions, 2 facts, 2 attempts | totals, rest, live work, ended Sessions and evidence, and the refinement of ShiftBook, over a whole history with a second Shift |
| `reconciliation` | two Shifts, amounts of 0 and 1, two facts of any kinds, four attempts, one instant, pages of one or two | every property of Reconciliation: what is shown, verified, stored and listed agree, and a Shift that is CLOSING can be closed |
| `ledger` | two Checks, prices 1 and 2, three Payments, two Refunds | the properties of CheckLedger and SaleReads, the refinement of SaleTab among them: partial Payments, Refunds split over sources, closure and abandonment over two Checks, every read of each state |
| `ledger_promises` | one Check, two Payments, one Refund | **violated**: a Void undermines a promise |
| `kitchen` | two teas and a cake, two Checks, a Remake of the cake, one request in flight | every property of Preparation and QueueReads: splits and merges around a Cancellation or Comp that resolved before them, a remade piece, a closed sale, the bar's screen of each state |
| `kitchen_removal` | the same with three Checks, no Remakes | **violated**: a queued unit that can no longer be cancelled |
| `row_locks` | two commands of any kind, two Sessions, two Checks, a Table, two staff | numbers, Tables, Managers; no circle of waits without a draft, submission, recovery or role command |
| `row_locks_recorded` | the same, the Session row before the draft row | **violated**: a Commit and a Payment wait for each other |
| `catalog` | two commands of any kind, an item, two categories, a group and its Option | every property of Catalog |
| `rounds` | two rounds, of two lines and one; a tea, a latte with Sizes and a required milk, free or not; one command on the menu at any moment | every property of OrderDraft, the refinement of RoundBook and the Sellable Menu |
| `pipeline_duplicates` | one request three times (another approver, another input), two connections | the refinement of ExactlyOnce |
| `pipeline_approvals` | two Managers who approve crosswise, a duplicate, two commands that use the pool from inside, four connections | approvals stand; deadlock aborts leave no trace; every attempt ends |

Why these bounds are enough. Two transactions suffice for every pairwise race, and every
hazard in SalesShift, RowLocks and Catalog is one of two commands; a second Shift is needed for
what must not leak from one to the next. Two units with different prices distinguish a Refund
that splits over sources from one that does not, and three Payments let one be voided, one
refunded and one remain. Two teas are the least whose allocation can be split, two Checks the
least to move it between (three to go past an adjusted one); one Remake is the least that must
not be served beside what it replaces, and that Remakes are wasted and remade in their turn is
for the proofs. Two lines are the least that can merge and a quantity of two the least that can overflow, a
second round the least to be blocked, and one menu command the least to invalidate a draft.
An amount of 1 in a window of 1 reaches the end of the range in one fact and leaves it in two, and
two closures in one instant are the least a cursor can confuse.
Two categories let a move race a detachment; one Option lets a
sale reach the groups an item offers. Three attempts give an original, a duplicate and an
onlooker; with two connections the third also waits for the pool. The proofs below remove the
bounds for SalesShift, Reconciliation, CheckLedger, RowLocks, Catalog, CommandPipeline and
Preparation.

`CHECK_DEADLOCK FALSE` is set where the bounded histories really end: the last Shift is closed,
the Payments are used up, every attempt has ended. In RowLocks and Catalog a command can always
begin or abort; RowLocks is checked for deadlock.

**Fairness.** Only CommandPipeline has any: weak fairness of each attempt's own steps once it
was sent. The Go runtime and PostgreSQL go on executing a live transaction, lock queues are
fair, and the deadlock detector runs after `deadlock_timeout`. Nothing is assumed of clients
(`Send`, `Drop`) or of staff administration. `EveryAttemptEnds` holds of instances where the
pool has a connection to spare for a command that needs a second one, as the two that resolve
inside their mutation do. It does not cover the hazard of a pool that runs out: with three
connections for the three attempts of `pipeline_approvals`, TLC finds it violated (see the
disagreements). Lock queues are not modelled as queues: the property does not
need more than weak fairness, because whoever holds a lock ends. The other modules have no
liveness to state: a bar may leave a unit queued, a guest may not pay, and that a command ends
is `EveryAttemptEnds` of the pipeline that runs it.

## What is proved

The proof modules prove, for any number of Shifts, Sessions, transactions, items, Checks, units,
Tables, staff, groups, requests, attempts and connections, and any prices, every safety property
of the runs that pass, the refinements of ShiftBook, SaleTab, ExactlyOnce and RoundBook among them; and
besides, since a proof makes a run of them superfluous, `OneActiveShift`, `PaidInOwnShift` and `RecordedOnlyWhileOpen` of
SalesShift, `ChargeMatchesFacts`, `SettledIffCovered`, `EndsSquare` and `CompletedSaleIsFrozen` of CheckLedger,
SaleTab of Preparation, and
`EffectsOnce` and `AnswersAgree` of CommandPipeline. The assumptions are those of the modules: null values are not members
of the sets they stand beside, ids are natural numbers, kinds of rows are disjoint, prices are
positive and surcharges natural numbers, the pool size is a natural number, some reason on file fits a cash difference, and what is
counted or summed over (`Attempts`, `Staff`, `Shifts`, the lines, Items, Checks, Units, Payments
and Refunds of a Session, the menu's Items, Sizes, notes and Options) is finite.

**SalesShift.** No property is inductive alone. `IInv` joins them with what transactions in
flight may rely on: `GateExclusive` and `RowExclusive` (who excludes whom), `GateState` and
`RowState` (a held row is as it was found), `ReadsHold` (what Start and Final Close have read
is still so). The heart is `ReadsHold`: between its blocker read and its commit, Start has
locked nothing but the Shift, yet nothing it read can change: money commands wait for the
share lock, and Submit, drafts and Session closure, which take no Shift lock, need an ACTIVE
Session, of which Start has seen none (`WorkNeedsOpenShift`). From it follow `FrozenTotals`,
`AtRestUnlessOpen`, `LiveWorkInOpenShift`. Types, tables and locks are proved apart, one case
per action, and joined by `Invariance`.

**Reconciliation.** Its theorems stand in SalesShiftProofs, beside the lock protocol they rest on, of
a specification of its own (`AmountsSpec`). `AmountsGood` is inductive: what Start froze is still what the facts come to, and fits
(`ShiftGood`); a closed Shift is what Final Close accepted of the last attempts of both ledgers
(`Stored`); ids of closures differ (`IdsDiffer`); and a walk has seen, newest first, everything in
its window down to its cursor, and of each row what its closer was told (`WalkFits`). That no
closure overtakes a walk needs that the clock does not go back and that ids grow. A page is read
by rank, so a finite total order has an element at each place (`Places`), and a page continues what was seen
(`JoinParts`, `PageFits`). `NeverStranded` gives the attempts that would close the Shift, exact ones, or
differing ones with a reason where the expectation itself is out of the range of a count.

**CheckLedger.** Seven facts are inductive together (`IInv`): the types; what rows owe each other
(`Rows`: a Refund draws equal totals on Payments of its Check that stand and on adjustments of
its Check and scope, a corrected unit has left the bar); no source is overdrawn (`Sources`); the
stored charge (`ChargeMatchesFacts`); a Check never took more than its base charge (`Bounded`);
`SettledIffCovered`; and what either end of a Session leaves (`Ended`). None of them mentions an
amount returned, and each command bounds a different one: a Payment by the balance, a Refund by
an obligation and by every source apart, a Void by nothing but its own allocations. What connects
them is double counting (`Account`): the allocations of a Check's Refunds are a table, by rows
what was promised and by columns what each source gave up, whose totals agree
(`TotalRectangle`). Hence promises and returns of a scope fit in the receipts and in the
adjustments of that scope, whatever the order of Voids, Cancellations and confirmations, and
`ObligationRefundable`, `NothingReturnedTwice` and the last part of `TypeOK` follow.
`EveryReadSucceeds` is the reader's side of it: each refusal of `CheckError` contradicts one part of
`IInv` (`InputsAgree`, `ConsumedFits`). For `SaleReadsTheSame`, `AfterEnd` says which steps a closed
Session has left, `RowsStay` what they leave alone row by row, and `TotalAgree` that a recorded
Refund leaves the core's sums as they were, although its row leaves the set they run over.

That CheckLedger keeps the tab (`LedgerKeepsTab`) adds up what each command does to the balance,
obligation and receipts of the Checks. One on a single Check moves the totals by what it moves
there (`TotalUpdate`); one that lowers charges moves each total one way, because every Check moves that way
(`TotalMonotone`). A Void may leave a promise larger than what is owed, but confirming compares it
with the obligation again and is refused after closure, so the tab never gives back more than is
owed and a closed one never moves. `EndsSquare` follows from the tab and is also proved by itself.
The theory of sums starts from the fold's own equation. Where it needs induction over finite
sets it takes the set of subsets on which the claim holds as the predicate (`SetInduction`,
by least cardinality), so no theorem takes an operator but `TotalRectangle`'s abbreviation.

**CommandPipeline.** `Exclusive` (attempts behind the advisory lock are of different
requests), `Unclaimed` (what an attempt found missing is still missing when it commits) and
`Untold` (an attempt that has not ended has neither answered nor left an effect) carry
`EffectsOnce` and `AnswersAgree`. `StepShapes` reduces the actions to three shapes: move on
safely, end without an effect, commit. The bound on connections uses `FiniteSetTheorems`.

**Preparation.** `NeverServedTwice` counts, so it is proved by an injection: `Numbered` (an
item's units have the numbers 1 to m) and `Sourced` (every unit past the ordered quantity
replaces a wasted one, and no two the same) map the units that are not wasted one to one into
the ordered numbers. `ChargedOffNeverServed` needs what requests in flight know: they name
units that exist, and Remakes are charged to no Check (`RequestsGood`). `ClosedWorkStands` needs
that a closed Session has nothing left at the bar, and `QueueKeepsTheWork` that an alert is raised
only of a unit that was called off (`RowGood`).
What is charged needs a second invariant, `MoneyGood`: an item has one allocation a Check and is
allocated whole or not at all (`AllocationsGood`); stored charge and prices of live adjustments make
up what is allocated (`ChargesGood`); an adjusted unit's Check has some of its item
(`AdjustmentsGood`); and a closed sale is square (`SquareWhenClosed`). The commands work on rows in
order of creation, which a Split that empties one shifts. `LowerFits`, `RaiseFits`, `MoveShifts`
and `MergeShifts` say what a Check has of an item afterwards, and nothing else of the sequence
enters the sums. A Cancellation keeps the equation although the mapping it resolved may be stale: it
takes off each Check the prices of the units it adjusts there (`Removal`), wherever that is.
So `kitchen_removal` fails while `ChargeIsAllocations` stands: units may be
taken off a Check that did not charge them, but never a price without its adjustment.
`PaidForWhatStands` is the equation summed over the Checks of a closed Session, once by Checks and
once by units (`TotalPartition`).
`KitchenKeepsTab` rests on the same two invariants. A Split lowers one Check by what it raises the
other and a Merge empties one into another (`TotalTransfer`), both of Checks that received
nothing, so what is due stands; that the moved charge is the price of the moved pieces is
`MoveCosts`. Stale or not, a Cancellation only lowers charges, and no lower than zero. The tab of
Preparation was checked on the instance of `kitchen` before it was proved, and is no
property of a run now.

**RowLocks.** `HeldCompatible`, and per command that it holds the lock under which it has read
and will write (`StartGood`, `TablesGood`, `EndGood`, `StaffGood`), give the three invariants of
the rows. For deadlocks, `OrderGood`: a command outside `Disordered` never has a row to take that
is sooner than one it holds. In a circle of such commands take the soonest row any of them asks
for: its holder asks for a later one, and its holder's holder for a sooner. The order is a rank in
the natural numbers, so a soonest row exists.

**Catalog.** `TouchesHeld` (what a command will write concerns rows it holds), `Reads` (what it
read under its first lock is still so) and `Promise` (once it has deleted the orphans of a group,
no exclusion of it can be committed behind its back) are inductive together with the locks'
exclusion. `EditsNeverDeadlock` is again the soonest row, in an order of its own: an item or group
with what belongs to it for batches and retirement, kinds for the structure commands.

**OrderDraft.** `KeysTell` (a line's key is its chosen Options) and `Apart` (no two lines agree in
item, Size, note and key) are what the commands' search for twins relies on, and together they are
`OneLinePerDrink`. `RoundsInOrder` says that what came before the latest round has its Order, so
that a CANCELLED round, which blocks the next, has none before it (`CancelledIsTheLast`).
`SoldAsAsked` and `SentAsSold` tie what was sold and sent to the lines. `EditsLoseNothing` is a sum
over lines of which one edit changes two (`TotalUpdate`).

`ShownCanBeOrdered` needs one more invariant, `OfferedMade` (an item offers Groups that exist): from
each Group that asks for Options its minimum can be taken of those on sale (`PartOfSize`), a Group
of none on sale asks for none unless it is retired, and the choices made apart are one order.

For the refinement of RoundBook, one drink is one line, so the bag of what is wanted is read off
the lines (`OneLineCounts`): a command on a line is a `Recount` of its drink or, when lines merge
or a drink changes, a `Reconfigure` (`OneLineRecounts`, `ApplyReconfigures`). A commit charges by line
what the book charges by drink (`AmountIsTotal`, by `TotalImage`), and a cancelled round takes off the
Checks together what it was charged, because each of its items is on one of them
(`CancelWithdraws`, by `TotalExchange`).

Only model-checked: `EveryAttemptEnds`, liveness under fairness, which is beyond the prover. The
types of SalesShift, CheckLedger, Preparation, CommandPipeline, OrderDraft, RowLocks and Catalog, the
other way round, are proved (`TypeCorrect`) and not run.

## Where the code and its documents disagree

1. **A Void undermines a Refund promise** (`ledger_promises`). `refund.go:1112` calls pending
   intents above the obligation something "no client request can cause". Void Payment refuses
   a Payment a Refund draws on, but not one whose loss takes the obligation below what is
   already promised. The promise can then be neither confirmed nor withdrawn until another
   correction raises the obligation, and it keeps the Shift from being reconciled.
2. **A Split moves what a queued unit is charged to** (`kitchen_removal`). Restructuring refuses
   Checks that carry a live adjustment, but a unit's allocation is found by position among all
   the item's allocations. Splitting a Check next to an adjusted one shifts the positions: a
   queued unit resolves to the Check whose charge was already taken off, and cancelling it fails
   on what `cancel_charges.go:74` calls "an invariant, never a business conflict". When that
   Check holds other charge, the wrong Check is lowered.
3. **Commit deadlocks with the commands of a Check** (`row_locks_recorded`). Commit takes the
   draft and the Session and then a Check, a Payment the Check and then the Session.
   `spec/decisions.md:240` and `:424` say no such cycle exists, `:427` that Commit takes no
   Session lock at all.
Met on the way, with no run of their own:

- `payment_void.go:103` and `refund.go:652` say the Check is resolved outside the mutation, before
  its locks; the calls are in the mutation body, on a second pooled connection (`BodyMayRun` of
  CommandPipeline). When every other connection waits for that mutation's locks, it waits for
  them, until one of these requests is given up (`Drop`). Remake, by contrast, does resolve before the mutation begins.
- `reconciliation.go:464` says the frozen expectations were range-checked at start.
  `freezeReconciliationSnapshot` checks cash and QR received; the completed QR Refunds of a Shift are
  not bounded. Beyond MaxAmountVND no observation can equal them, and the row of the discrepancy
  breaks its CHECK (migration 000015:285): such a Shift stays CLOSING for ever. `NeverStranded` is
  therefore about the others. It takes a thousand million VND of refunds in one Shift.
- `internal/shift/dto.go:349` says a cursor is empty once the walk is exhausted. A walk whose last
  page is full ends with a cursor to an empty page, which `NextPage` follows.

- `spec/decisions.md:824` says direct and excluded "never mean both at once". Attaching a group
  an item excludes (`assignments.go:62`) and excluding a group attached directly
  (`assignments.go:206`) are both allowed; `Effective` is then as if it were not excluded.
- Replacing an item's groups may answer with an exclusion that a concurrent detachment of the
  group could only have removed before: `ReplacedWhole` therefore promises the direct groups
  alone, and `ExclusionsProvided` the rest.
- `spec/decisions.md:780` says the global order keeps crossed batches from deadlocking. It does,
  and all other edits with them, but for `ReplaceGroupAssignments`, which locks its group first,
  and Commit, which locks in the order of the draft.
- Approvals that cross deadlock: an approval holds the approver's identity row `FOR UPDATE`, the
  claim's foreign key needs the actor's `FOR KEY SHARE`, so two Managers who approve for each
  other wait in a circle (`AbortDeadlocked` fires in `pipeline_approvals`, where every attempt
  nevertheless ends). `spec/decisions.md:563` accepts `40P01` for commands that race a Submit "only".
- `projection_sellable.go:31` promises "only the items, sizes, and options that can be ordered right
  now". It passes over a retired group (`:137`), and `RetireModifierGroup` leaves attachments and
  minimum behind, so an item can be shown whose every Commit is refused with
  `ErrCommitModifierGroupRetired` (`commit.go:199`). `projections_integration_test.go:492` expects
  the first, `commit_test.go` the second; `ShownCanBeOrdered` therefore leaves such items
  (`Unfillable`) out.
- `ListActiveSessions` skips a Session whose stored charge disagrees with its facts; its comment
  speaks of "a Check invariant violation", but the other violations fail the whole list.
- Retiring a Modifier Option does not look at its group's minimum or defaults (`CONTEXT.md:152`).
- `sales.sql`'s remark that Submit locks Checks in the order 5C established is off: it orders
  them by creation, restructuring by id.
- Comments that the code has outgrown: `session_close.go:33-35`, `spec/decisions.md:310`, and
  `payments.go:54-56`, whose case of a Payment taken in another Shift than its Session's cannot
  arise (`PaidInOwnShift`).

## Not modelled

- **Sessions of staff**: sign-in, lock, unlock, their time-outs, PIN hashes, rate limits, the staff
  commands' own idempotency table. Commands see only whether a session is valid and an identity
  enabled (`SetSession`, `SetStanding`), and may see either change at any time.
- **Tables and menu entries as records**: creating and renaming Tables, creating categories, and
  names, display and images of whatever is on the menu: single inserts and updates of one row.
- **HTTP handlers, DTOs, validation and logs**: decoding, formatting and the shape of requests; of the
  reads, the Tables, draft lines, Orders and histories they list.
- **Generated code** (`api/openapi/docs.go`, `platform/database/sqlc`): a description of the API,
  and a struct and a call per SQL statement. Together with the handlers and DTOs it is more than
  half of the repository's implementation, which is why the models cover a small share of its
  lines and most of its transactional core.
- **The web client**, and **PostgreSQL itself**, taken at its documented behaviour (row locks and
  their conflicts, re-evaluation of `WHERE` at `READ COMMITTED`, atomic commit, savepoints, the
  deadlock detector); pool connection life times; timing of PIN comparisons.
