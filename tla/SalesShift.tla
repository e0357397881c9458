---------------------------- MODULE SalesShift ----------------------------
(***************************************************************************)
(* The Sales Shift, the Service Sessions worked in it and the commands     *)
(* that change either, as PostgreSQL transactions that interleave.         *)
(*                                                                         *)
(* Every command is one READ COMMITTED transaction.  The protocol that     *)
(* keeps a reconciliation truthful is spread over two Go packages and is   *)
(* nowhere written down as a whole:                                        *)
(*   - a command that moves money takes the OPEN Shift row FOR SHARE;      *)
(*   - Cash Movements, Start Reconciliation, the attempt commands and      *)
(*     Final Close take it FOR UPDATE;                                     *)
(*   - draft commands, Submit and Session closure take no Shift lock: what *)
(*     keeps them out of a reconciling Shift is that Start refuses while   *)
(*     any Session is ACTIVE.                                              *)
(*                                                                         *)
(* A transaction is where its control is (pc), the rows it holds and what  *)
(* it has read; its writes become visible in its last action, the commit,  *)
(* which also releases its locks.  A lock that is not available leaves the *)
(* action disabled: the transaction waits, and when the row it waited for  *)
(* no longer satisfies the statement's WHERE it can only roll back.        *)
(***************************************************************************)
EXTENDS Naturals

CONSTANTS
    Shifts,       \* the Sales Shifts of the cafe's history
    Sessions,     \* Service Sessions, each standing for its rows and Checks
    Txns,         \* command transactions that can be in flight at once
    NoShift,      \* "no Sales Shift"
    NoSession,    \* "no Service Session"
    MaxFacts,     \* bound: financial facts of each kind per Shift
    MaxAttempts   \* bound: Cash Counts and QR Observations per Shift

ASSUME NoShiftAssumption == NoShift \notin Shifts
ASSUME NoSessionAssumption == NoSession \notin Sessions

VARIABLES
    shift,      \* Shift -> sales_shifts.state, "ABSENT" before it is opened
    ledger,     \* Shift -> its append-only facts, by the table they are summed from
    snapshot,   \* Shift -> shift_reconciliations, the totals frozen at start
    attempts,   \* Shift -> latest sequence of each attempt ledger
    closure,    \* Shift -> shift_closures, the attempts it was closed from
    session,    \* Session -> its state, Checks, draft and money
    txn         \* transaction -> control point, rows held, values read

vars == <<shift, ledger, snapshot, attempts, closure, session, txn>>

\* A Session's Checks are followed together: "OPEN" when any of them is OPEN,
\* "SETTLED" when none is.  held: valid Payments exceed completed Refunds; owed:
\* some correction obligation is unresolved; paid and pending: the Shifts of its
\* valid Payments and of its Manual QR Refunds still waiting for confirmation.
SessionRow ==
    [state : {"ABSENT", "ACTIVE", "CLOSED", "ABANDONED"},
     shift : Shifts \cup {NoShift},
     check : {"NONE", "OPEN", "SETTLED", "ABANDONED"},
     draft : {"EDITABLE", "COMMITTED", "SUBMITTED", "CANCELLED"},
     ordered : BOOLEAN, held : BOOLEAN, owed : BOOLEAN,
     paid : SUBSET Shifts, pending : SUBSET Shifts]

NoRow == [state |-> "ABSENT", shift |-> NoShift, check |-> "NONE",
          draft |-> "EDITABLE", ordered |-> FALSE, held |-> FALSE, owed |-> FALSE,
          paid |-> {}, pending |-> {}]

Totals == [money : Nat, drawer : Nat]
NoTotals == [money |-> 0, drawer |-> 0]
AttemptSeq == [cash : Nat, qr : Nat]
NoAttempts == [cash |-> 0, qr |-> 0]

\* Which rows a transaction holds follows from where its control is.
ShareHolding == {"shared", "both"}                             \* the Shift FOR SHARE
StartHolding == {"open", "quiet", "summed"}                    \* FOR UPDATE, read OPEN
CloseHolding == {"closing", "cleared", "verified"}             \* FOR UPDATE, read CLOSING
UpdateHolding == StartHolding \cup CloseHolding
RowHolding == {"row", "both", "draft"}                         \* a Session and its Checks
ControlPoints == {"idle", "read"} \cup ShareHolding \cup UpdateHolding \cup RowHolding

TxnState ==
    [pc : ControlPoints, on : Shifts \cup {NoShift}, row : Sessions \cup {NoSession},
     sum : Nat, final : AttemptSeq]

Idle == [pc |-> "idle", on |-> NoShift, row |-> NoSession,
         sum |-> 0, final |-> NoAttempts]

Init ==
    /\ shift = [s \in Shifts |-> "ABSENT"]
    /\ ledger = [s \in Shifts |-> NoTotals]
    /\ snapshot = [s \in Shifts |-> NoTotals]
    /\ attempts = [s \in Shifts |-> NoAttempts]
    /\ closure = [s \in Shifts |-> NoAttempts]
    /\ session = [c \in Sessions |-> NoRow]
    /\ txn = [t \in Txns |-> Idle]

-----------------------------------------------------------------------------
(* Locks.                                                                  *)

ShareHolders(s) == {t \in Txns : txn[t].on = s /\ txn[t].pc \in ShareHolding}
UpdateHolders(s) == {t \in Txns : txn[t].on = s /\ txn[t].pc \in UpdateHolding}
RowHolders(c) == {t \in Txns : txn[t].row = c /\ txn[t].pc \in RowHolding}

\* lockOpenSalesShift: the OPEN Shift FOR SHARE.  It waits for a FOR UPDATE
\* holder and then filters on the state that holder committed.
MayShare(s) == shift[s] = "OPEN" /\ UpdateHolders(s) = {}

\* A second writer admitted beside the first, a FOR UPDATE taken as FOR SHARE.
UpdateBesideUpdate(s) == ShareHolders(s) = {}
\* LockSalesShiftForReconciliation and GetOpenSalesShiftForUpdate: the named
\* Shift FOR UPDATE, which waits for every share holder and every other writer.
MayUpdate(s) == ShareHolders(s) = {} /\ UpdateHolders(s) = {}

MayLockRow(c) == session[c].state # "ABSENT" /\ RowHolders(c) = {}

\* A transaction moves on; or ends: its locks are released, its reads forgotten.
Goes(t, state) == txn' = [txn EXCEPT ![t] = state]
End(t) == Goes(t, Idle)

\* The rows of a Session as a command leaves them.
Write(c, row) == session' = [session EXCEPT ![c] = row]

\* Every facts-to-ledger write appends; nothing edits or deletes a fact.
AppendFact(s, kind) ==
    /\ ledger[s][kind] < MaxFacts
    /\ ledger' = [ledger EXCEPT ![s][kind] = @ + 1]

\* GetGlobalShiftClosureBlockers without its pending-Refund count.
NothingOutstandingButRefunds ==
    \A c \in Sessions : session[c].state # "ACTIVE" /\ session[c].check # "OPEN" /\ ~session[c].owed
\* GetGlobalShiftClosureBlockers: no OPEN Check, no pending Refund intent, no
\* unresolved correction, no ACTIVE Session anywhere in the cafe.
NothingOutstanding ==
    \A c \in Sessions :
        /\ session[c].state # "ACTIVE"
        /\ session[c].check # "OPEN"
        /\ session[c].pending = {}
        /\ ~session[c].owed

-----------------------------------------------------------------------------
(* The Shift's own life.                                                   *)

\* Open Sales Shift: one partial unique index admits one OPEN or CLOSING row.
OpenShift(s) ==
    /\ shift[s] = "ABSENT"
    /\ \A o \in Shifts : shift[o] \notin {"OPEN", "CLOSING"}
    /\ shift' = [shift EXCEPT ![s] = "OPEN"]
    /\ UNCHANGED <<ledger, snapshot, attempts, closure, session, txn>>

\* The Shift row FOR UPDATE.  Cash Movement and Start go on from OPEN, the
\* attempt commands and Final Close from CLOSING; the state is not read again.
LockShift(t, s) ==
    /\ txn[t].pc = "idle" /\ MayUpdate(s)
    /\ \/ shift[s] = "OPEN" /\ Goes(t, [txn[t] EXCEPT !.pc = "open", !.on = s])
       \/ shift[s] = "CLOSING" /\ Goes(t, [txn[t] EXCEPT !.pc = "closing", !.on = s])
    /\ UNCHANGED <<shift, ledger, snapshot, attempts, closure, session>>

\* Record Cash Movement.
CommitCashMovement(t) ==
    LET s == txn[t].on IN
    /\ txn[t].pc = "open"
    /\ AppendFact(s, "drawer")
    /\ End(t)
    /\ UNCHANGED <<shift, snapshot, attempts, closure, session>>

StartWithOpenWork(t) ==
    /\ txn[t].pc = "open"
    /\ Goes(t, [txn[t] EXCEPT !.pc = "quiet"])
    /\ UNCHANGED <<shift, ledger, snapshot, attempts, closure, session>>
\* Start Reconciliation, blockers: every blocker in one read, no row lock.
StartCheckBlockers(t) ==
    /\ txn[t].pc = "open"
    /\ NothingOutstanding
    /\ Goes(t, [txn[t] EXCEPT !.pc = "quiet"])
    /\ UNCHANGED <<shift, ledger, snapshot, attempts, closure, session>>

\* Start Reconciliation, first statement of the snapshot: Payments and Refunds.
StartSumMoney(t) ==
    /\ txn[t].pc = "quiet"
    /\ Goes(t, [txn[t] EXCEPT !.pc = "summed", !.sum = ledger[txn[t].on].money])
    /\ UNCHANGED <<shift, ledger, snapshot, attempts, closure, session>>

StartWithoutMovements(t) ==
    LET s == txn[t].on IN
    /\ txn[t].pc = "summed" /\ MaxAttempts > 0
    /\ snapshot' = [snapshot EXCEPT ![s] = [money |-> txn[t].sum, drawer |-> 0]]
    /\ attempts' = [attempts EXCEPT ![s] = [cash |-> 1, qr |-> 0]]
    /\ shift' = [shift EXCEPT ![s] = "CLOSING"]
    /\ End(t)
    /\ UNCHANGED <<ledger, closure, session>>
\* Start Reconciliation, second statement (Cash Movements) and commit: the
\* snapshot, the blind count as sequence 1 and CLOSING appear together.
CommitStart(t) ==
    LET s == txn[t].on IN
    /\ txn[t].pc = "summed" /\ MaxAttempts > 0
    /\ snapshot' = [snapshot EXCEPT ![s] = [money |-> txn[t].sum, drawer |-> ledger[s].drawer]]
    /\ attempts' = [attempts EXCEPT ![s] = [cash |-> 1, qr |-> 0]]
    /\ shift' = [shift EXCEPT ![s] = "CLOSING"]
    /\ End(t)
    /\ UNCHANGED <<ledger, closure, session>>

\* Record Cash Count or QR Observation: the next sequence of its ledger, read
\* and used under the Shift lock every append holds.
CommitAttempt(t, kind) ==
    LET s == txn[t].on IN
    /\ txn[t].pc = "closing"
    /\ attempts[s][kind] < MaxAttempts
    /\ attempts' = [attempts EXCEPT ![s][kind] = @ + 1]
    /\ End(t)
    /\ UNCHANGED <<shift, ledger, snapshot, closure, session>>

\* Final Close, blockers: evaluated a second time, now that the Shift is CLOSING.
CloseCheckBlockers(t) ==
    /\ txn[t].pc = "closing"
    /\ NothingOutstanding
    /\ Goes(t, [txn[t] EXCEPT !.pc = "cleared"])
    /\ UNCHANGED <<shift, ledger, snapshot, attempts, closure, session>>

\* Final Close, evidence: live totals must equal the snapshot, and the attempts
\* the client names must be the latest of their ledgers; a close needs one of each.
CloseVerify(t) ==
    LET s == txn[t].on IN
    /\ txn[t].pc = "cleared"
    /\ ledger[s] = snapshot[s]
    /\ attempts[s].cash > 0 /\ attempts[s].qr > 0
    /\ Goes(t, [txn[t] EXCEPT !.pc = "verified", !.final = attempts[s]])
    /\ UNCHANGED <<shift, ledger, snapshot, attempts, closure, session>>

\* Final Close, writes: the closure aggregate and the one-way transition.
CommitClose(t) ==
    LET s == txn[t].on IN
    /\ txn[t].pc = "verified"
    /\ closure' = [closure EXCEPT ![s] = txn[t].final]
    /\ shift' = [shift EXCEPT ![s] = "CLOSED"]
    /\ End(t)
    /\ UNCHANGED <<ledger, snapshot, attempts, session>>

-----------------------------------------------------------------------------
(* Taking the locks of a Sales command.                                    *)

\* lockOpenSalesShift first: Start Session, Abandon, Cancel Awaiting Submission.
ShareShift(t, s) ==
    /\ txn[t].pc = "idle" /\ MayShare(s)
    /\ Goes(t, [txn[t] EXCEPT !.pc = "shared", !.on = s])
    /\ UNCHANGED <<shift, ledger, snapshot, attempts, closure, session>>

LockRowAfterShift(t, c) ==
    /\ txn[t].pc = "shared" /\ MayLockRow(c)
    /\ Goes(t, [txn[t] EXCEPT !.pc = "both", !.row = c])
    /\ UNCHANGED <<shift, ledger, snapshot, attempts, closure, session>>

\* Check, then Session FOR UPDATE: Payments and every correction start here, and
\* Submit and Session closure lock nothing more.
LockRow(t, c) ==
    /\ txn[t].pc = "idle" /\ MayLockRow(c)
    /\ Goes(t, [txn[t] EXCEPT !.pc = "row", !.row = c])
    /\ UNCHANGED <<shift, ledger, snapshot, attempts, closure, session>>

ShareShiftAfterRow(t, s) ==
    /\ txn[t].pc = "row" /\ MayShare(s)
    /\ Goes(t, [txn[t] EXCEPT !.pc = "both", !.on = s])
    /\ UNCHANGED <<shift, ledger, snapshot, attempts, closure, session>>

\* lockEditableDraft and Start New Draft read the Shift without locking it; the
\* draft or Session row may still be awaited, so what they read can go stale.
ReadShift(t, c) ==
    /\ txn[t].pc = "idle"
    /\ session[c].state = "ACTIVE" /\ shift[session[c].shift] = "OPEN"
    /\ Goes(t, [txn[t] EXCEPT !.pc = "read", !.row = c])
    /\ UNCHANGED <<shift, ledger, snapshot, attempts, closure, session>>

LockDraftAnyState(t) ==
    /\ txn[t].pc = "read" /\ MayLockRow(txn[t].row)
    /\ Goes(t, [txn[t] EXCEPT !.pc = "draft"])
    /\ UNCHANGED <<shift, ledger, snapshot, attempts, closure, session>>
\* The row arrives: PostgreSQL re-evaluates ACTIVE on its current version, but
\* not OPEN, a condition on a row the statement does not lock.
LockDraft(t) ==
    /\ txn[t].pc = "read" /\ MayLockRow(txn[t].row)
    /\ session[txn[t].row].state = "ACTIVE"
    /\ Goes(t, [txn[t] EXCEPT !.pc = "draft"])
    /\ UNCHANGED <<shift, ledger, snapshot, attempts, closure, session>>

-----------------------------------------------------------------------------
(* The Sales commands' commits.                                            *)

\* Start Session: ACTIVE, in the Shift held FOR SHARE, with an EDITABLE draft.
CommitStartSession(t, c) ==
    /\ txn[t].pc = "shared" /\ session[c].state = "ABSENT"
    /\ Write(c, [NoRow EXCEPT !.state = "ACTIVE", !.shift = txn[t].on])
    /\ End(t)
    /\ UNCHANGED <<shift, ledger, snapshot, attempts, closure>>

\* Commit Order Draft: the draft's charge lands on an OPEN Check.
CommitOrderDraft(t) ==
    LET c == txn[t].row IN
    /\ txn[t].pc = "draft" /\ session[c].draft = "EDITABLE"
    /\ Write(c, [session[c] EXCEPT !.draft = "COMMITTED", !.check = "OPEN"])
    /\ End(t)
    /\ UNCHANGED <<shift, ledger, snapshot, attempts, closure>>

\* Start New Order Draft: no draft may be editable, cancelled or awaiting Submit.
CommitNewDraft(t) ==
    LET c == txn[t].row IN
    /\ txn[t].pc = "draft" /\ session[c].draft = "SUBMITTED"
    /\ Write(c, [session[c] EXCEPT !.draft = "EDITABLE"])
    /\ End(t)
    /\ UNCHANGED <<shift, ledger, snapshot, attempts, closure>>

\* Submit: needs no Shift; Takeaway also needs its Checks SETTLED, dine-in not.
CommitSubmit(t) ==
    LET c == txn[t].row IN
    /\ txn[t].pc = "row" /\ session[c].state = "ACTIVE" /\ session[c].draft = "COMMITTED"
    /\ Write(c, [session[c] EXCEPT !.draft = "SUBMITTED", !.ordered = TRUE])
    /\ End(t)
    /\ UNCHANGED <<shift, ledger, snapshot, attempts, closure>>

\* Close Service Session, with EvaluateClosureReadiness: submitted work, settled
\* Checks, no derived obligation.  It never looks at Refund intents, nor a Shift.
CommitCloseSession(t) ==
    LET c == txn[t].row IN
    /\ txn[t].pc = "row" /\ session[c].state = "ACTIVE"
    /\ session[c].ordered /\ session[c].draft \in {"SUBMITTED", "EDITABLE"}
    /\ session[c].check = "SETTLED" /\ ~session[c].owed
    /\ Write(c, [session[c] EXCEPT !.state = "CLOSED"])
    /\ End(t)
    /\ UNCHANGED <<shift, ledger, snapshot, attempts, closure>>

\* Cash or QR Payment: the OPEN Check of an ACTIVE Session; the Payment that
\* takes the balance to zero settles it.  It belongs to the locked OPEN Shift.
CommitPayment(t) ==
    LET c == txn[t].row  s == txn[t].on IN
    /\ txn[t].pc = "both"
    /\ session[c].state = "ACTIVE" /\ session[c].check = "OPEN"
    /\ AppendFact(s, "money")
    /\ \E k \in {"OPEN", "SETTLED"} :
          Write(c, [session[c] EXCEPT !.check = k, !.held = TRUE, !.paid = @ \cup {s}])
    /\ End(t)
    /\ UNCHANGED <<shift, snapshot, attempts, closure>>

\* Void Payment: a Payment of the locked OPEN Shift in an ACTIVE Session.  What
\* it leaves uncovered reopens; an obligation may shrink to nothing under a
\* Refund intent that was recorded against it.
CommitVoid(t) ==
    LET c == txn[t].row  s == txn[t].on IN
    /\ txn[t].pc = "both"
    /\ session[c].state = "ACTIVE" /\ session[c].check \in {"OPEN", "SETTLED"}
    /\ s \in session[c].paid
    /\ AppendFact(s, "money")
    /\ \E k \in {"OPEN", session[c].check}, left \in {session[c].paid, session[c].paid \ {s}},
          h \in BOOLEAN, o \in BOOLEAN :
          /\ h => left # {}
          /\ o => h /\ session[c].owed
          /\ Write(c, [session[c] EXCEPT !.check = k, !.paid = left, !.held = h, !.owed = o])
    /\ End(t)
    /\ UNCHANGED <<shift, snapshot, attempts, closure>>

\* Cancel Preparation Units or Comp a Waste of an ACTIVE Session: the charge
\* falls, an OPEN Check it leaves covered is SETTLED, money held may be owed back.
CommitAdjustment(t) ==
    LET c == txn[t].row IN
    /\ txn[t].pc = "both"
    /\ session[c].state = "ACTIVE" /\ session[c].ordered
    /\ session[c].check \in {"OPEN", "SETTLED"}
    /\ \E k \in {session[c].check, "SETTLED"}, o \in {session[c].owed, session[c].held} :
          Write(c, [session[c] EXCEPT !.check = k, !.owed = o])
    /\ End(t)
    /\ UNCHANGED <<shift, ledger, snapshot, attempts, closure>>

\* Comp a Waste of a CLOSED Session: an additive correction of its Completed
\* Sale under whatever Shift is OPEN now; it owes the whole comped amount.
CommitPostSaleComp(t) ==
    LET c == txn[t].row IN
    /\ txn[t].pc = "both" /\ session[c].state = "CLOSED"
    /\ Write(c, [session[c] EXCEPT !.owed = TRUE])
    /\ End(t)
    /\ UNCHANGED <<shift, ledger, snapshot, attempts, closure>>

\* Record Refund, Cash: within the obligation left by the intents already
\* recorded, so an intent that was covered stays covered; it completes at once.
CommitCashRefund(t) ==
    LET c == txn[t].row  s == txn[t].on IN
    /\ txn[t].pc = "both"
    /\ session[c].state \in {"ACTIVE", "CLOSED"} /\ session[c].owed
    /\ AppendFact(s, "money")
    /\ \E h, o \in BOOLEAN :
          /\ session[c].pending # {} => o
          /\ o /\ session[c].state = "ACTIVE" => h
          /\ Write(c, [session[c] EXCEPT !.owed = o, !.held = h])
    /\ End(t)
    /\ UNCHANGED <<shift, snapshot, attempts, closure>>

\* Record Refund, Manual QR: an intent of the locked OPEN Shift, no money yet.
CommitQRRefund(t) ==
    LET c == txn[t].row  s == txn[t].on IN
    /\ txn[t].pc = "both"
    /\ session[c].state \in {"ACTIVE", "CLOSED"} /\ session[c].owed
    /\ Write(c, [session[c] EXCEPT !.pending = @ \cup {s}])
    /\ End(t)
    /\ UNCHANGED <<shift, ledger, snapshot, attempts, closure>>

\* Confirm Manual QR Refund: an intent of the locked OPEN Shift, re-checked
\* against the obligation that is left; the Session may be in any state.
CommitConfirm(t) ==
    LET c == txn[t].row  s == txn[t].on IN
    /\ txn[t].pc = "both" /\ s \in session[c].pending /\ session[c].owed
    /\ AppendFact(s, "money")
    /\ \E h, o \in BOOLEAN, left \in {session[c].pending, session[c].pending \ {s}} :
          /\ o /\ session[c].state = "ACTIVE" => h
          /\ Write(c, [session[c] EXCEPT !.pending = left, !.owed = o, !.held = h])
    /\ End(t)
    /\ UNCHANGED <<shift, snapshot, attempts, closure>>

\* Cancel Awaiting Submission: paid, committed work of a Session with no Order;
\* every charge of the draft is withdrawn and the draft is CANCELLED.
CommitWithdraw(t) ==
    LET c == txn[t].row IN
    /\ txn[t].pc = "both"
    /\ session[c].state = "ACTIVE" /\ ~session[c].ordered
    /\ session[c].draft = "COMMITTED" /\ session[c].held
    /\ Write(c, [session[c] EXCEPT !.draft = "CANCELLED", !.check = "SETTLED", !.owed = TRUE])
    /\ End(t)
    /\ UNCHANGED <<shift, ledger, snapshot, attempts, closure>>

\* Abandon Checkout: no Order, no money held, no Refund pending.
CommitAbandon(t) ==
    LET c == txn[t].row IN
    /\ txn[t].pc = "both"
    /\ session[c].state = "ACTIVE" /\ ~session[c].ordered
    /\ ~session[c].held /\ session[c].pending = {}
    /\ Write(c, [session[c] EXCEPT !.state = "ABANDONED", !.draft = "CANCELLED",
                                   !.check = IF @ = "NONE" THEN "NONE" ELSE "ABANDONED"])
    /\ End(t)
    /\ UNCHANGED <<shift, ledger, snapshot, attempts, closure>>

\* A refused precondition, a deadlock victim, a lost connection, a crash.
Rollback(t) ==
    /\ txn[t].pc # "idle"
    /\ End(t)
    /\ UNCHANGED <<shift, ledger, snapshot, attempts, closure, session>>

-----------------------------------------------------------------------------
ReconciliationStep(t) ==
    \/ \E s \in Shifts : LockShift(t, s)
    \/ CommitCashMovement(t)
    \/ StartCheckBlockers(t) \/ StartSumMoney(t) \/ CommitStart(t)
    \/ \E kind \in {"cash", "qr"} : CommitAttempt(t, kind)
    \/ CloseCheckBlockers(t) \/ CloseVerify(t) \/ CommitClose(t)

LockStep(t) ==
    \/ \E s \in Shifts : ShareShift(t, s) \/ ShareShiftAfterRow(t, s)
    \/ \E c \in Sessions : LockRow(t, c) \/ LockRowAfterShift(t, c) \/ ReadShift(t, c)
    \/ LockDraft(t)

SessionStep(t) ==
    \/ \E c \in Sessions : CommitStartSession(t, c)
    \/ CommitOrderDraft(t) \/ CommitNewDraft(t) \/ CommitSubmit(t) \/ CommitCloseSession(t)
    \/ CommitWithdraw(t) \/ CommitAbandon(t)

MoneyStep(t) ==
    \/ CommitPayment(t) \/ CommitVoid(t)
    \/ CommitAdjustment(t) \/ CommitPostSaleComp(t)
    \/ CommitCashRefund(t) \/ CommitQRRefund(t) \/ CommitConfirm(t)

Next ==
    \/ \E s \in Shifts : OpenShift(s)
    \/ \E t \in Txns :
          ReconciliationStep(t) \/ LockStep(t) \/ SessionStep(t) \/ MoneyStep(t) \/ Rollback(t)

Spec == Init /\ [][Next]_vars

-----------------------------------------------------------------------------
(* Properties.                                                             *)

\* Every variable has its type, and a Session that was started names a Shift:
\* its rows are attributed from the first one on (session_start.go).
TypeOK ==
    /\ shift \in [Shifts -> {"ABSENT", "OPEN", "CLOSING", "CLOSED"}]
    /\ ledger \in [Shifts -> Totals]
    /\ snapshot \in [Shifts -> Totals]
    /\ attempts \in [Shifts -> AttemptSeq]
    /\ closure \in [Shifts -> AttemptSeq]
    /\ session \in [Sessions -> SessionRow]
    /\ txn \in [Txns -> TxnState]
    /\ \A c \in Sessions : session[c].state # "ABSENT" => session[c].shift \in Shifts

\* One cash drawer: no two Shifts are worked on or reconciled at once.
OneActiveShift ==
    \A r, s \in Shifts : {shift[r], shift[s]} \subseteq {"OPEN", "CLOSING"} => r = s

\* From the moment reconciliation starts, what was frozen is what was recorded:
\* the two unrelated reads of Start add up to one instant, and no Payment, Void,
\* Refund or Cash Movement that was in flight then, or retried since, lands in
\* the Shift.  Final Close's source check therefore never fails.
FrozenTotals ==
    \A s \in Shifts : shift[s] \in {"CLOSING", "CLOSED"} => snapshot[s] = ledger[s]

\* With no Shift OPEN the cafe is at rest, although drafts, Submit and Session
\* closure never look at a Shift lock: no ACTIVE Session, no OPEN Check, no money
\* owed, no Refund waiting.
AtRestUnlessOpen ==
    (\A s \in Shifts : shift[s] # "OPEN") => NothingOutstanding

\* Work goes on only inside an OPEN Shift: an ACTIVE Session's own Shift is OPEN,
\* and so is that of every Refund intent, or nobody could ever confirm it.
LiveWorkInOpenShift ==
    \A c \in Sessions :
        /\ session[c].state = "ACTIVE" => shift[session[c].shift] = "OPEN"
        /\ \A s \in session[c].pending : shift[s] = "OPEN"

\* A Payment is attributed to the Shift that is OPEN when it is taken, never
\* compared with the Session's: the two agree all the same.
PaidInOwnShift ==
    \A c \in Sessions : session[c].paid \subseteq {session[c].shift}

\* A charge never lands on a Session that ended while the command was waiting for
\* its draft, although the Shift it checked may be a stale read.
EndedSessionsOweNothing ==
    \A c \in Sessions : session[c].state \in {"CLOSED", "ABANDONED"} => session[c].check # "OPEN"

\* A Shift is closed from the last Cash Count and the last QR Observation that
\* exist, even if another count was being recorded while it closed.
ClosedFromLatestEvidence ==
    \A s \in Shifts : shift[s] = "CLOSED" => closure[s] = attempts[s] /\ closure[s].qr > 0

\* No step enters a fact into a Shift that is not OPEN before and after it, and
\* a Shift only moves forward through its lifecycle.
RecordedOnlyWhileOpen ==
    [][\A s \in Shifts :
          /\ ledger'[s] # ledger[s] => shift[s] = "OPEN" /\ shift'[s] = "OPEN"
          /\ shift'[s] # shift[s] =>
                <<shift[s], shift'[s]>> \in {<<"ABSENT", "OPEN">>, <<"OPEN", "CLOSING">>,
                                           <<"CLOSING", "CLOSED">>}]_vars

\* The detailed design implements the book of facts it promises.
Book == INSTANCE ShiftBook WITH phase <- shift, book <- ledger, report <- snapshot
ImplementsShiftBook == Book!BookSpec

-----------------------------------------------------------------------------
(* The inductive invariant.                                                *)

\* FOR UPDATE on a Shift excludes every other holder of that Shift.
GateExclusive ==
    \A t, u \in Txns :
        /\ txn[t].pc \in UpdateHolding
        /\ txn[u].pc \in UpdateHolding \cup ShareHolding
        /\ txn[t].on = txn[u].on
        => t = u

\* FOR UPDATE on a Session's rows excludes every other holder of them.
RowExclusive ==
    \A t, u \in Txns :
        txn[t].pc \in RowHolding /\ txn[u].pc \in RowHolding /\ txn[t].row = txn[u].row => t = u

\* What a transaction read of the row it holds is still so.
GateState ==
    \A t \in Txns :
        /\ txn[t].pc \in ShareHolding \cup UpdateHolding => txn[t].on \in Shifts
        /\ txn[t].pc \in ShareHolding \cup StartHolding => shift[txn[t].on] = "OPEN"
        /\ txn[t].pc \in CloseHolding => shift[txn[t].on] = "CLOSING"

RowState ==
    \A t \in Txns :
        /\ txn[t].pc \in RowHolding \cup {"read"} => txn[t].row \in Sessions
        /\ txn[t].pc \in RowHolding => session[txn[t].row].state # "ABSENT"
        /\ txn[t].pc = "draft" => session[txn[t].row].state = "ACTIVE"

\* What Start and Final Close read is still so when they commit.
ReadsHold ==
    \A t \in Txns :
        /\ txn[t].pc \in {"quiet", "summed"} => NothingOutstanding
        /\ txn[t].pc = "summed" => txn[t].sum = ledger[txn[t].on].money
        /\ txn[t].pc = "verified" =>
              /\ txn[t].final = attempts[txn[t].on]
              /\ txn[t].final.qr > 0

\* A Session not yet started has no rows; money is owed only out of money held.
RowsConsistent ==
    \A c \in Sessions :
        /\ session[c].state = "ABSENT" => session[c] = NoRow
        /\ session[c].state \in {"ACTIVE", "ABANDONED"} /\ session[c].owed => session[c].held
        /\ session[c].state = "ABANDONED" => ~session[c].held /\ session[c].pending = {}

IInv ==
    /\ TypeOK
    /\ OneActiveShift /\ FrozenTotals /\ AtRestUnlessOpen /\ LiveWorkInOpenShift
    /\ PaidInOwnShift /\ EndedSessionsOweNothing /\ ClosedFromLatestEvidence
    /\ GateExclusive /\ RowExclusive /\ GateState /\ RowState /\ ReadsHold /\ RowsConsistent
=============================================================================
