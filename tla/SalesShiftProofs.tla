------------------------- MODULE SalesShiftProofs -------------------------
(***************************************************************************)
(* SalesShift for any number of Shifts, Sessions and transactions.         *)
(*                                                                         *)
(* None of its safety properties is inductive: that what Start froze is    *)
(* what was recorded, say, needs that no fact was entered after its first  *)
(* read, which needs that nobody shared the Shift beside it.  IInv (in     *)
(* SalesShift) joins the properties with what every transaction in flight  *)
(* may rely on: which holders exclude each other (GateExclusive,           *)
(* RowExclusive), that a held Shift and a held Session are still as they   *)
(* were found (GateState, RowState), and that what Start and Final Close   *)
(* have read is still so (ReadsHold).                                      *)
(*                                                                         *)
(* The proof has three parts, each over the actions of Next: the types     *)
(* (TypeInductive), the tables (TablesInductive), and the locks with what  *)
(* was read under them (LocksExclude, HeldStateKept, ReadsKept).  The      *)
(* first two divide the actions into commands that replace the rows of one *)
(* Session (CommandReplaces), steps on the Shift, and steps that only move *)
(* a transaction on.                                                       *)
(*                                                                         *)
(* The last part proves Reconciliation, the amounts of the same Shifts:    *)
(* what is frozen, stored and listed (AmountsGood).                        *)
(***************************************************************************)
EXTENDS SalesShift, Reconciliation, SumTheorems

\* A transaction record built from another by changing fields is a TxnState.
LEMMA IdleType == Idle \in TxnState
BY DEF Idle, TxnState, ControlPoints, NoAttempts, AttemptSeq

\* Moving a transaction on keeps the transactions' type.
LEMMA GoesType ==
  ASSUME TypeOK, NEW t \in Txns, NEW row \in TxnState, Goes(t, row)
  PROVE  txn' \in [Txns -> TxnState]
BY DEF TypeOK, Goes

\* So does ending one.
LEMMA EndType ==
  ASSUME TypeOK, NEW t \in Txns, End(t)
  PROVE  txn' \in [Txns -> TxnState]
BY IdleType, GoesType DEF End

\* Writing the rows of one Session keeps the type of all Sessions.
LEMMA WriteType ==
  ASSUME TypeOK, NEW c \in Sessions, NEW row \in SessionRow,
         row.state # "ABSENT" => row.shift \in Shifts, Write(c, row)
  PROVE  /\ session' \in [Sessions -> SessionRow]
         /\ \A d \in Sessions : session'[d].state # "ABSENT" => session'[d].shift \in Shifts
BY DEF TypeOK, Write

\* Entering one fact keeps the type of the ledgers.
LEMMA AppendType ==
  ASSUME TypeOK, NEW s \in Shifts, NEW kind \in {"money", "drawer"}, AppendFact(s, kind)
  PROVE  ledger' \in [Shifts -> Totals]
BY DEF TypeOK, AppendFact, Totals

\* What a transaction holds exists: its Shift, and its Session.
LEMMA HeldTypes ==
  ASSUME TypeOK, GateState, RowState, NEW t \in Txns
  PROVE  /\ txn[t] \in TxnState
         /\ txn[t].pc \in ShareHolding \cup UpdateHolding =>
               txn[t].on \in Shifts /\ ledger[txn[t].on] \in Totals /\ attempts[txn[t].on] \in AttemptSeq
         /\ txn[t].pc \in RowHolding \cup {"read"} =>
               txn[t].row \in Sessions /\ session[txn[t].row] \in SessionRow
BY DEF TypeOK, GateState, RowState


-----------------------------------------------------------------------------
(* What a Sales command does to the rows it locks.  The invariant of the   *)
(* Sessions is a predicate of one row, so it is enough to show that every  *)
(* command writes a row that satisfies it.                                 *)

RowGood(row) ==
    /\ row.state # "ABSENT"
    /\ row.shift \in Shifts
    /\ row.state = "ACTIVE" => shift[row.shift] = "OPEN"
    /\ row.paid \subseteq {row.shift}
    /\ \A s \in row.pending : shift[s] = "OPEN"
    /\ row.state \in {"CLOSED", "ABANDONED"} => row.check # "OPEN"
    /\ row.state \in {"ACTIVE", "ABANDONED"} /\ row.owed => row.held
    /\ row.state = "ABANDONED" => ~row.held /\ row.pending = {}

\* Transaction t replaces the rows of one Session that nobody else holds.
Replaces(t) ==
    \E c \in Sessions, row \in SessionRow :
        /\ RowGood(row) /\ Write(c, row)
        /\ \A u \in Txns : txn[u].pc \in RowHolding /\ txn[u].row = c => u = t

\* A Session that has rows satisfies the predicate already.
LEMMA HeldRowGood ==
  ASSUME IInv, NEW t \in Txns, txn[t].pc \in RowHolding
  PROVE  /\ txn[t].row \in Sessions
         /\ session[txn[t].row] \in SessionRow
         /\ RowGood(session[txn[t].row])
BY HeldTypes DEF IInv, RowGood, RowState, LiveWorkInOpenShift, PaidInOwnShift,
   EndedSessionsOweNothing, RowsConsistent, TypeOK

\* A row written by its holder disturbs no other holder.
LEMMA HolderReplaces ==
  ASSUME IInv, NEW t \in Txns, txn[t].pc \in RowHolding,
         NEW row \in SessionRow, RowGood(row), Write(txn[t].row, row)
  PROVE  Replaces(t)
BY HeldRowGood DEF Replaces, IInv, RowExclusive

\* Sales work can go on only in an OPEN Shift and never beside a Start that has
\* found nothing outstanding: the share lock conflicts with it, and work that
\* takes no share lock needs the ACTIVE Session that Start refuses.
LEMMA WorkNeedsOpenShift ==
  ASSUME IInv, NEW t \in Txns,
         \/ txn[t].pc \in ShareHolding
         \/ txn[t].pc \in RowHolding /\ session[txn[t].row].state = "ACTIVE"
  PROVE  /\ \E s \in Shifts : shift[s] = "OPEN"
         /\ \A u \in Txns : txn[u].pc \notin {"quiet", "summed"}
<1>1. CASE txn[t].pc \in ShareHolding
  <2>1. txn[t].on \in Shifts /\ shift[txn[t].on] = "OPEN"
    BY <1>1 DEF IInv, GateState
  <2>2. ASSUME NEW u \in Txns, txn[u].pc \in {"quiet", "summed"} PROVE FALSE
    <3>1. txn[u].on \in Shifts /\ shift[txn[u].on] = "OPEN" /\ txn[u].pc \in UpdateHolding
      BY <2>2 DEF IInv, GateState, StartHolding, UpdateHolding
    <3>2. txn[u].on = txn[t].on
      BY <2>1, <3>1 DEF IInv, OneActiveShift
    <3>3. t = u
      BY <1>1, <3>1, <3>2 DEF IInv, GateExclusive
    <3> QED BY <1>1, <2>2, <3>3 DEF ShareHolding
  <2> QED BY <2>1, <2>2
<1>2. CASE txn[t].pc \in RowHolding /\ session[txn[t].row].state = "ACTIVE"
  <2>1. txn[t].row \in Sessions
    BY <1>2 DEF IInv, RowState
  <2>2. shift[session[txn[t].row].shift] = "OPEN" /\ session[txn[t].row].shift \in Shifts
    BY <1>2, <2>1 DEF IInv, LiveWorkInOpenShift, TypeOK
  <2>3. ASSUME NEW u \in Txns, txn[u].pc \in {"quiet", "summed"} PROVE FALSE
    BY <1>2, <2>1, <2>3 DEF IInv, ReadsHold, NothingOutstanding
  <2> QED BY <2>2, <2>3
<1> QED BY <1>1, <1>2

\* Every Sales command replaces the rows of one Session by lawful ones.
LEMMA CommandReplaces ==
  ASSUME IInv, NEW t \in Txns, SessionStep(t) \/ MoneyStep(t)
  PROVE  Replaces(t)
<1> DEFINE c == txn[t].row
           s == txn[t].on
<1> USE HeldRowGood DEF ShareHolding, RowHolding
<1>0. /\ txn[t].pc \in ShareHolding => s \in Shifts /\ shift[s] = "OPEN"
      /\ session \in [Sessions -> SessionRow]
  BY DEF IInv, GateState, TypeOK
<1>1. ASSUME NEW d \in Sessions, CommitStartSession(t, d) PROVE Replaces(t)
  <2> DEFINE row == [NoRow EXCEPT !.state = "ACTIVE", !.shift = s]
  <2>1. row \in SessionRow /\ RowGood(row)
    BY <1>0, <1>1 DEF CommitStartSession, SessionRow, RowGood, NoRow
  <2>2. \A u \in Txns : txn[u].pc \in RowHolding => txn[u].row # d
    BY <1>1 DEF CommitStartSession, IInv, RowState
  <2>3. Write(d, row)
    BY <1>1 DEF CommitStartSession
  <2> HIDE DEF row
  <2> QED BY <2>1, <2>2, <2>3 DEF Replaces
<1> DEFINE r == session[c]
<1> HIDE DEF c, s, r
<1>2. CASE CommitOrderDraft(t)
  <2>1. /\ txn[t].pc \in RowHolding /\ r \in SessionRow /\ RowGood(r)
        /\ r.state = "ACTIVE"
    BY <1>0, <1>2 DEF c, s, r, CommitOrderDraft, IInv, RowState
  <2>2. Write(c, [r EXCEPT !.draft = "COMMITTED", !.check = "OPEN"])
    BY ONLY <1>2 DEF c, s, r, CommitOrderDraft
  <2> DEFINE row == [r EXCEPT !.draft = "COMMITTED", !.check = "OPEN"]
  <2>3. row \in SessionRow
    BY ONLY <2>1 DEF SessionRow
  <2>4. RowGood(row)
    BY ONLY <2>1 DEF RowGood, SessionRow
  <2> HIDE DEF row
  <2>5. Write(c, row)
    BY ONLY <2>2 DEF row
  <2> QED BY <2>1, <2>3, <2>4, <2>5, HolderReplaces DEF c
<1>3. CASE CommitNewDraft(t)
  <2>1. /\ txn[t].pc \in RowHolding /\ r \in SessionRow /\ RowGood(r)
        /\ r.draft = "SUBMITTED"
    BY <1>0, <1>3 DEF c, s, r, CommitNewDraft
  <2>2. Write(c, [r EXCEPT !.draft = "EDITABLE"])
    BY ONLY <1>3 DEF c, s, r, CommitNewDraft
  <2> DEFINE row == [r EXCEPT !.draft = "EDITABLE"]
  <2>3. row \in SessionRow
    BY ONLY <2>1 DEF SessionRow
  <2>4. RowGood(row)
    BY ONLY <2>1 DEF RowGood, SessionRow
  <2> HIDE DEF row
  <2>5. Write(c, row)
    BY ONLY <2>2 DEF row
  <2> QED BY <2>1, <2>3, <2>4, <2>5, HolderReplaces DEF c
<1>4. CASE CommitSubmit(t)
  <2>1. /\ txn[t].pc \in RowHolding /\ r \in SessionRow /\ RowGood(r)
        /\ r.draft = "COMMITTED"
    BY <1>0, <1>4 DEF c, s, r, CommitSubmit
  <2>2. Write(c, [r EXCEPT !.draft = "SUBMITTED", !.ordered = TRUE])
    BY ONLY <1>4 DEF c, s, r, CommitSubmit
  <2> DEFINE row == [r EXCEPT !.draft = "SUBMITTED", !.ordered = TRUE]
  <2>3. row \in SessionRow
    BY ONLY <2>1 DEF SessionRow
  <2>4. RowGood(row)
    BY ONLY <2>1 DEF RowGood, SessionRow
  <2> HIDE DEF row
  <2>5. Write(c, row)
    BY ONLY <2>2 DEF row
  <2> QED BY <2>1, <2>3, <2>4, <2>5, HolderReplaces DEF c
<1>5. CASE CommitCloseSession(t)
  <2>1. /\ txn[t].pc \in RowHolding /\ r \in SessionRow /\ RowGood(r)
        /\ r.check = "SETTLED"
    BY <1>0, <1>5 DEF c, s, r, CommitCloseSession
  <2>2. Write(c, [r EXCEPT !.state = "CLOSED"])
    BY ONLY <1>5 DEF c, s, r, CommitCloseSession
  <2> DEFINE row == [r EXCEPT !.state = "CLOSED"]
  <2>3. row \in SessionRow
    BY ONLY <2>1 DEF SessionRow
  <2>4. RowGood(row)
    BY ONLY <2>1 DEF RowGood, SessionRow
  <2> HIDE DEF row
  <2>5. Write(c, row)
    BY ONLY <2>2 DEF row
  <2> QED BY <2>1, <2>3, <2>4, <2>5, HolderReplaces DEF c
<1>6. CASE CommitWithdraw(t)
  <2>1. /\ txn[t].pc \in RowHolding /\ r \in SessionRow /\ RowGood(r)
        /\ r.state = "ACTIVE" /\ r.held
    BY <1>0, <1>6 DEF c, s, r, CommitWithdraw
  <2>2. Write(c, [r EXCEPT !.draft = "CANCELLED", !.check = "SETTLED", !.owed = TRUE])
    BY ONLY <1>6 DEF c, s, r, CommitWithdraw
  <2> DEFINE row == [r EXCEPT !.draft = "CANCELLED", !.check = "SETTLED", !.owed = TRUE]
  <2>3. row \in SessionRow
    BY ONLY <2>1 DEF SessionRow
  <2>4. RowGood(row)
    BY ONLY <2>1 DEF RowGood, SessionRow
  <2> HIDE DEF row
  <2>5. Write(c, row)
    BY ONLY <2>2 DEF row
  <2> QED BY <2>1, <2>3, <2>4, <2>5, HolderReplaces DEF c
<1>7. CASE CommitAbandon(t)
  <2>1. /\ txn[t].pc \in RowHolding /\ r \in SessionRow /\ RowGood(r)
        /\ r.state = "ACTIVE" /\ ~r.held /\ r.pending = {}
    BY <1>0, <1>7 DEF c, s, r, CommitAbandon
  <2>2. Write(c, [r EXCEPT !.state = "ABANDONED", !.draft = "CANCELLED",
                            !.check = IF @ = "NONE" THEN "NONE" ELSE "ABANDONED"])
    BY ONLY <1>7 DEF c, s, r, CommitAbandon
  <2> DEFINE row == [r EXCEPT !.state = "ABANDONED", !.draft = "CANCELLED",
                            !.check = IF @ = "NONE" THEN "NONE" ELSE "ABANDONED"]
  <2>3. row \in SessionRow
    BY ONLY <2>1 DEF SessionRow
  <2>4. RowGood(row)
    BY ONLY <2>1 DEF RowGood, SessionRow
  <2> HIDE DEF row
  <2>5. Write(c, row)
    BY ONLY <2>2 DEF row
  <2> QED BY <2>1, <2>3, <2>4, <2>5, HolderReplaces DEF c
<1>8. CASE CommitPayment(t)
  <2>1. /\ txn[t].pc \in RowHolding /\ r \in SessionRow /\ RowGood(r)
        /\ r.state = "ACTIVE" /\ s \in Shifts /\ s = r.shift
    <3>1. txn[t].pc = "both" /\ r.state = "ACTIVE"
      BY ONLY <1>8 DEF c, s, r, CommitPayment
    <3>2. r \in SessionRow /\ RowGood(r)
      BY <3>1 DEF c, r
    <3>3. s \in Shifts /\ shift[s] = "OPEN"
      BY ONLY <1>0, <3>1 DEF ShareHolding
    <3>4. r.shift \in Shifts /\ shift[r.shift] = "OPEN"
      BY ONLY <3>1, <3>2 DEF RowGood
    <3>5. OneActiveShift
      BY DEF IInv
    <3>6. s = r.shift
      BY ONLY <3>3, <3>4, <3>5 DEF OneActiveShift
    <3> QED BY ONLY <3>1, <3>2, <3>3, <3>6 DEF RowHolding
  <2>2. PICK k \in {"OPEN", "SETTLED"} :
            Write(c, [r EXCEPT !.check = k, !.held = TRUE, !.paid = @ \cup {s}])
    BY ONLY <1>8 DEF c, s, r, CommitPayment
  <2> DEFINE row == [r EXCEPT !.check = k, !.held = TRUE, !.paid = @ \cup {s}]
  <2>3. row \in SessionRow
    BY ONLY <2>1, <2>2 DEF SessionRow
  <2>4. RowGood(row)
    BY ONLY <2>1, <2>2 DEF RowGood, SessionRow
  <2> HIDE DEF row
  <2>5. Write(c, row)
    BY ONLY <2>2 DEF row
  <2> QED BY <2>1, <2>3, <2>4, <2>5, HolderReplaces DEF c
<1>9. CASE CommitVoid(t)
  <2>1. /\ txn[t].pc \in RowHolding /\ r \in SessionRow /\ RowGood(r)
        /\ r.state = "ACTIVE"
    <3>1. txn[t].pc \in RowHolding /\ r.state = "ACTIVE"
      BY ONLY Zenon, <1>9 DEF c, s, r, CommitVoid, RowHolding
    <3> QED BY <3>1 DEF c, r
  <2>2. PICK k \in {"OPEN", r.check}, left \in {r.paid, r.paid \ {s}}, h \in BOOLEAN, o \in BOOLEAN :
            /\ o => h
            /\ Write(c, [r EXCEPT !.check = k, !.paid = left, !.held = h, !.owed = o])
    BY ONLY Zenon, <1>9 DEF c, s, r, CommitVoid
  <2> DEFINE row == [r EXCEPT !.check = k, !.paid = left, !.held = h, !.owed = o]
  <2>3. row \in SessionRow
    BY ONLY <2>1, <2>2 DEF SessionRow
  <2>4. RowGood(row)
    BY ONLY <2>1, <2>2 DEF RowGood, SessionRow
  <2> HIDE DEF row
  <2>5. Write(c, row)
    BY ONLY <2>2 DEF row
  <2> QED BY <2>1, <2>3, <2>4, <2>5, HolderReplaces DEF c
<1>10. CASE CommitAdjustment(t)
  <2>1. /\ txn[t].pc \in RowHolding /\ r \in SessionRow /\ RowGood(r)
        /\ r.state = "ACTIVE"
    BY <1>0, <1>10 DEF c, s, r, CommitAdjustment
  <2>2. PICK k \in {r.check, "SETTLED"}, o \in {r.owed, r.held} :
            Write(c, [r EXCEPT !.check = k, !.owed = o])
    BY ONLY <1>10 DEF c, s, r, CommitAdjustment
  <2> DEFINE row == [r EXCEPT !.check = k, !.owed = o]
  <2>3. row \in SessionRow
    BY ONLY <2>1, <2>2 DEF SessionRow
  <2>4. RowGood(row)
    BY ONLY <2>1, <2>2 DEF RowGood, SessionRow
  <2> HIDE DEF row
  <2>5. Write(c, row)
    BY ONLY <2>2 DEF row
  <2> QED BY <2>1, <2>3, <2>4, <2>5, HolderReplaces DEF c
<1>11. CASE CommitPostSaleComp(t)
  <2>1. /\ txn[t].pc \in RowHolding /\ r \in SessionRow /\ RowGood(r)
        /\ r.state = "CLOSED"
    BY <1>0, <1>11 DEF c, s, r, CommitPostSaleComp
  <2>2. Write(c, [r EXCEPT !.owed = TRUE])
    BY ONLY <1>11 DEF c, s, r, CommitPostSaleComp
  <2> DEFINE row == [r EXCEPT !.owed = TRUE]
  <2>3. row \in SessionRow
    BY ONLY <2>1 DEF SessionRow
  <2>4. RowGood(row)
    BY ONLY <2>1 DEF RowGood, SessionRow
  <2> HIDE DEF row
  <2>5. Write(c, row)
    BY ONLY <2>2 DEF row
  <2> QED BY <2>1, <2>3, <2>4, <2>5, HolderReplaces DEF c
<1>12. CASE CommitCashRefund(t)
  <2>1. /\ txn[t].pc \in RowHolding /\ r \in SessionRow /\ RowGood(r)
        /\ r.state \in {"ACTIVE", "CLOSED"}
    BY <1>0, <1>12 DEF c, s, r, CommitCashRefund
  <2>2. PICK h \in BOOLEAN, o \in BOOLEAN :
            /\ o /\ r.state = "ACTIVE" => h
            /\ Write(c, [r EXCEPT !.owed = o, !.held = h])
    BY ONLY <1>12 DEF c, s, r, CommitCashRefund
  <2> DEFINE row == [r EXCEPT !.owed = o, !.held = h]
  <2>3. row \in SessionRow
    BY ONLY <2>1, <2>2 DEF SessionRow
  <2>4. RowGood(row)
    BY ONLY <2>1, <2>2 DEF RowGood, SessionRow
  <2> HIDE DEF row
  <2>5. Write(c, row)
    BY ONLY <2>2 DEF row
  <2> QED BY <2>1, <2>3, <2>4, <2>5, HolderReplaces DEF c
<1>13. CASE CommitQRRefund(t)
  <2>1. /\ txn[t].pc \in RowHolding /\ r \in SessionRow /\ RowGood(r)
        /\ r.state \in {"ACTIVE", "CLOSED"} /\ s \in Shifts /\ shift[s] = "OPEN"
    BY <1>0, <1>13 DEF c, s, r, CommitQRRefund
  <2>2. Write(c, [r EXCEPT !.pending = @ \cup {s}])
    BY ONLY <1>13 DEF c, s, r, CommitQRRefund
  <2> DEFINE row == [r EXCEPT !.pending = @ \cup {s}]
  <2>3. row \in SessionRow
    BY ONLY <2>1 DEF SessionRow
  <2>4. RowGood(row)
    BY ONLY <2>1 DEF RowGood, SessionRow
  <2> HIDE DEF row
  <2>5. Write(c, row)
    BY ONLY <2>2 DEF row
  <2> QED BY <2>1, <2>3, <2>4, <2>5, HolderReplaces DEF c
<1>14. CASE CommitConfirm(t)
  <2>1. /\ txn[t].pc \in RowHolding /\ r \in SessionRow /\ RowGood(r)
        /\ s \in r.pending
    <3>1. txn[t].pc \in RowHolding /\ s \in r.pending
      BY ONLY Zenon, <1>14 DEF c, s, r, CommitConfirm, RowHolding
    <3> QED BY <3>1 DEF c, r
  <2>2. PICK h \in BOOLEAN, o \in BOOLEAN, left \in {r.pending, r.pending \ {s}} :
            /\ o /\ r.state = "ACTIVE" => h
            /\ Write(c, [r EXCEPT !.pending = left, !.owed = o, !.held = h])
    BY ONLY <1>14 DEF c, s, r, CommitConfirm
  <2> DEFINE row == [r EXCEPT !.pending = left, !.owed = o, !.held = h]
  <2>3. row \in SessionRow
    BY ONLY <2>1, <2>2 DEF SessionRow
  <2>4. RowGood(row)
    BY ONLY <2>1, <2>2 DEF RowGood, SessionRow
  <2> HIDE DEF row
  <2>5. Write(c, row)
    BY ONLY <2>2 DEF row
  <2> QED BY <2>1, <2>3, <2>4, <2>5, HolderReplaces DEF c
<1> QED BY <1>1, <1>2, <1>3, <1>4, <1>5, <1>6, <1>7, <1>8, <1>9, <1>10, <1>11, <1>12, <1>13, <1>14 DEF SessionStep, MoneyStep

\* What a Sales command leaves alone, and where its financial facts go.
LEMMA CommandFrames ==
  ASSUME IInv, NEW t \in Txns, SessionStep(t) \/ MoneyStep(t)
  PROVE  /\ UNCHANGED <<shift, snapshot, attempts, closure>>
         /\ End(t)
         /\ ledger' \in [Shifts -> Totals]
         /\ UNCHANGED ledger \/ (txn[t].pc = "both" /\ AppendFact(txn[t].on, "money"))
         /\ \A s \in Shifts : ledger'[s] # ledger[s] => shift[s] = "OPEN"
         /\ \E s \in Shifts : shift[s] = "OPEN"
         /\ \A u \in Txns : txn[u].pc \notin {"quiet", "summed"}
<1> USE DEF ShareHolding, RowHolding
<1>1. /\ UNCHANGED <<shift, snapshot, attempts, closure>>
      /\ End(t)
      /\ UNCHANGED ledger \/ (txn[t].pc = "both" /\ AppendFact(txn[t].on, "money"))
  BY DEF SessionStep, MoneyStep, CommitStartSession, CommitOrderDraft, CommitNewDraft,
     CommitSubmit, CommitCloseSession, CommitWithdraw, CommitAbandon, CommitPayment,
     CommitVoid, CommitAdjustment, CommitPostSaleComp, CommitCashRefund, CommitQRRefund,
     CommitConfirm
<1>2. \/ txn[t].pc \in ShareHolding
      \/ txn[t].pc \in RowHolding /\ session[txn[t].row].state = "ACTIVE"
  BY DEF SessionStep, MoneyStep, CommitStartSession, CommitOrderDraft, CommitNewDraft,
     CommitSubmit, CommitCloseSession, CommitWithdraw, CommitAbandon, CommitPayment,
     CommitVoid, CommitAdjustment, CommitPostSaleComp, CommitCashRefund, CommitQRRefund,
     CommitConfirm, IInv, RowState
<1>3. txn[t].pc = "both" => txn[t].on \in Shifts /\ shift[txn[t].on] = "OPEN"
  BY DEF IInv, GateState
<1>4. ledger' \in [Shifts -> Totals]
  BY <1>1, <1>3, AppendType DEF IInv, TypeOK
<1>5. \A s \in Shifts : ledger'[s] # ledger[s] => shift[s] = "OPEN"
  BY <1>1, <1>3 DEF AppendFact, IInv, TypeOK
<1> QED BY <1>1, <1>2, <1>4, <1>5, WorkNeedsOpenShift

-----------------------------------------------------------------------------
\* Type correctness of every step, one action at a time.
LEMMA TypeInductive ==
  ASSUME IInv, Next
  PROVE  TypeOK'
<1> USE DEF IInv
<1>1. ASSUME NEW s \in Shifts, OpenShift(s) PROVE TypeOK'
  BY <1>1 DEF OpenShift, TypeOK
<1>2. ASSUME NEW t \in Txns, ReconciliationStep(t) PROVE TypeOK'
  <2> USE HeldTypes DEF ShareHolding, UpdateHolding, StartHolding, CloseHolding, RowHolding, ControlPoints
  <2>1. ASSUME NEW s \in Shifts, LockShift(t, s) PROVE TypeOK'
    <3>1. /\ [txn[t] EXCEPT !.pc = "open", !.on = s] \in TxnState
          /\ [txn[t] EXCEPT !.pc = "closing", !.on = s] \in TxnState
      BY DEF TxnState
    <3> QED BY <2>1, <3>1, GoesType DEF LockShift, TypeOK
  <2>2. CASE CommitCashMovement(t)
    BY <2>2, EndType, AppendType DEF CommitCashMovement, TypeOK
  <2>3. CASE StartCheckBlockers(t)
    <3>1. [txn[t] EXCEPT !.pc = "quiet"] \in TxnState
      BY DEF TxnState
    <3> QED BY <2>3, <3>1, GoesType DEF StartCheckBlockers, TypeOK
  <2>4. CASE StartSumMoney(t)
    <3>1. [txn[t] EXCEPT !.pc = "summed", !.sum = ledger[txn[t].on].money] \in TxnState
      BY <2>4 DEF TxnState, Totals, StartSumMoney
    <3> QED BY <2>4, <3>1, GoesType DEF StartSumMoney, TypeOK
  <2>5. CASE CommitStart(t)
    <3>1. /\ [money |-> txn[t].sum, drawer |-> ledger[txn[t].on].drawer] \in Totals
          /\ [cash |-> 1, qr |-> 0] \in AttemptSeq
          /\ txn[t].on \in Shifts
      BY <2>5 DEF TxnState, Totals, AttemptSeq, CommitStart
    <3> QED BY <2>5, <3>1, EndType DEF CommitStart, TypeOK
  <2>6. ASSUME NEW kind \in {"cash", "qr"}, CommitAttempt(t, kind) PROVE TypeOK'
    <3>1. /\ txn[t].pc \in UpdateHolding /\ End(t)
          /\ attempts' = [attempts EXCEPT ![txn[t].on][kind] = @ + 1]
          /\ UNCHANGED <<shift, ledger, snapshot, closure, session>>
      BY ONLY <2>6 DEF CommitAttempt, UpdateHolding, CloseHolding
    <3>2. txn[t].on \in Shifts /\ attempts[txn[t].on] \in AttemptSeq
      BY <3>1
    <3>3. [attempts[txn[t].on] EXCEPT ![kind] = @ + 1] \in AttemptSeq
      BY ONLY <2>6, <3>2 DEF AttemptSeq
    <3>4. TypeOK
      OBVIOUS
    <3>5. attempts' \in [Shifts -> AttemptSeq]
      BY ONLY <3>1, <3>2, <3>3, <3>4 DEF TypeOK
    <3> QED BY ONLY <3>1, <3>4, <3>5, EndType DEF TypeOK
  <2>7. CASE CloseCheckBlockers(t)
    <3>1. [txn[t] EXCEPT !.pc = "cleared"] \in TxnState
      BY DEF TxnState
    <3> QED BY <2>7, <3>1, GoesType DEF CloseCheckBlockers, TypeOK
  <2>8. CASE CloseVerify(t)
    <3>1. [txn[t] EXCEPT !.pc = "verified", !.final = attempts[txn[t].on]] \in TxnState
      <4>1. txn[t] \in TxnState /\ attempts[txn[t].on] \in AttemptSeq
        BY <2>8 DEF CloseVerify
      <4>2. "verified" \in ControlPoints
        OBVIOUS
      <4> HIDE DEF ControlPoints
      <4> QED BY ONLY <4>1, <4>2 DEF TxnState
    <3> QED BY <2>8, <3>1, GoesType DEF CloseVerify, TypeOK
  <2>9. CASE CommitClose(t)
    <3>1. txn[t].final \in AttemptSeq
      BY DEF TxnState
    <3> QED BY <2>9, <3>1, EndType DEF CommitClose, TypeOK
  <2> QED BY <1>2, <2>1, <2>2, <2>3, <2>4, <2>5, <2>6, <2>7, <2>8, <2>9 DEF ReconciliationStep
<1>3. ASSUME NEW t \in Txns, LockStep(t) PROVE TypeOK'
  <2> USE HeldTypes DEF ShareHolding, UpdateHolding, StartHolding, CloseHolding, RowHolding, ControlPoints
  <2>1. ASSUME NEW s \in Shifts, ShareShift(t, s) PROVE TypeOK'
    <3>1. [txn[t] EXCEPT !.pc = "shared", !.on = s] \in TxnState
      BY DEF TxnState
    <3> QED BY <2>1, <3>1, GoesType DEF ShareShift, TypeOK
  <2>2. ASSUME NEW s \in Shifts, ShareShiftAfterRow(t, s) PROVE TypeOK'
    <3>1. [txn[t] EXCEPT !.pc = "both", !.on = s] \in TxnState
      BY DEF TxnState
    <3> QED BY <2>2, <3>1, GoesType DEF ShareShiftAfterRow, TypeOK
  <2>3. ASSUME NEW c \in Sessions, LockRow(t, c) PROVE TypeOK'
    <3>1. [txn[t] EXCEPT !.pc = "row", !.row = c] \in TxnState
      BY DEF TxnState
    <3> QED BY <2>3, <3>1, GoesType DEF LockRow, TypeOK
  <2>4. ASSUME NEW c \in Sessions, LockRowAfterShift(t, c) PROVE TypeOK'
    <3>1. [txn[t] EXCEPT !.pc = "both", !.row = c] \in TxnState
      BY DEF TxnState
    <3> QED BY <2>4, <3>1, GoesType DEF LockRowAfterShift, TypeOK
  <2>5. ASSUME NEW c \in Sessions, ReadShift(t, c) PROVE TypeOK'
    <3>1. [txn[t] EXCEPT !.pc = "read", !.row = c] \in TxnState
      BY DEF TxnState
    <3> QED BY <2>5, <3>1, GoesType DEF ReadShift, TypeOK
  <2>6. CASE LockDraft(t)
    <3>1. [txn[t] EXCEPT !.pc = "draft"] \in TxnState
      BY DEF TxnState
    <3> QED BY <2>6, <3>1, GoesType DEF LockDraft, TypeOK
  <2> QED BY <1>3, <2>1, <2>2, <2>3, <2>4, <2>5, <2>6 DEF LockStep
<1>4. ASSUME NEW t \in Txns, SessionStep(t) \/ MoneyStep(t) PROVE TypeOK'
  <2>1. /\ session' \in [Sessions -> SessionRow]
        /\ \A d \in Sessions : session'[d].state # "ABSENT" => session'[d].shift \in Shifts
    <3>1. PICK c \in Sessions, row \in SessionRow : RowGood(row) /\ Write(c, row)
      BY <1>4, CommandReplaces DEF Replaces
    <3> QED BY <3>1, WriteType DEF RowGood
  <2> QED BY <1>4, <2>1, CommandFrames, EndType DEF TypeOK
<1>5. ASSUME NEW t \in Txns, Rollback(t) PROVE TypeOK'
  BY <1>5, EndType DEF Rollback, TypeOK
<1> QED BY <1>1, <1>2, <1>3, <1>4, <1>5 DEF Next

-----------------------------------------------------------------------------
(* The invariant of the tables: Shifts, facts, attempts and Sessions.      *)

\* A step that only moves a transaction on: it takes or drops a lock, or reads.
Moves(t) ==
    \/ \E s \in Shifts : LockShift(t, s) \/ ShareShift(t, s) \/ ShareShiftAfterRow(t, s)
    \/ StartCheckBlockers(t) \/ StartSumMoney(t) \/ CloseCheckBlockers(t) \/ CloseVerify(t)
    \/ \E c \in Sessions : LockRow(t, c) \/ LockRowAfterShift(t, c) \/ ReadShift(t, c)
    \/ LockDraft(t) \/ Rollback(t)

\* A step that commits something about the Shift itself.
Reconciles(t) ==
    \/ CommitCashMovement(t) \/ CommitStart(t) \/ CommitClose(t)
    \/ \E kind \in {"cash", "qr"} : CommitAttempt(t, kind)

\* Every step opens a Shift, moves a transaction on, is about the Shift, or is a
\* command on a Session.
LEMMA NextSplits ==
  ASSUME Next
  PROVE  \/ \E s \in Shifts : OpenShift(s)
         \/ \E t \in Txns : Moves(t) \/ Reconciles(t) \/ SessionStep(t) \/ MoneyStep(t)
BY DEF Next, ReconciliationStep, LockStep, Moves, Reconciles

\* A transaction that only moves on leaves every table alone.
LEMMA MovesFrames ==
  ASSUME NEW t \in Txns, Moves(t)
  PROVE  UNCHANGED <<shift, ledger, snapshot, attempts, closure, session>>
BY DEF Moves, LockShift, ShareShift, ShareShiftAfterRow, StartCheckBlockers,
   StartSumMoney, CloseCheckBlockers, CloseVerify, LockRow, LockRowAfterShift,
   ReadShift, LockDraft, Rollback

\* Every Shift an ACTIVE Session or a Refund intent names is a Shift.
LEMMA SessionShifts ==
  ASSUME TypeOK, NEW c \in Sessions
  PROVE  /\ session[c].state = "ACTIVE" => session[c].shift \in Shifts
         /\ \A s \in session[c].pending : s \in Shifts
BY DEF TypeOK, SessionRow

\* The part of the invariant that speaks of rows other than a Shift's holders.
TableInv ==
    /\ OneActiveShift /\ FrozenTotals /\ AtRestUnlessOpen /\ LiveWorkInOpenShift
    /\ PaidInOwnShift /\ EndedSessionsOweNothing /\ ClosedFromLatestEvidence /\ RowsConsistent

\* A step that leaves the tables alone keeps what is said of them.
LEMMA TablesUnchanged ==
  ASSUME TableInv, UNCHANGED <<shift, ledger, snapshot, attempts, closure, session>>
  PROVE  TableInv'
BY DEF TableInv, OneActiveShift, FrozenTotals, AtRestUnlessOpen, LiveWorkInOpenShift,
   PaidInOwnShift, EndedSessionsOweNothing, ClosedFromLatestEvidence, RowsConsistent,
   NothingOutstanding

\* Opening a Shift keeps them: there was no active one.
LEMMA OpenShiftKeepsTables ==
  ASSUME IInv, NEW s \in Shifts, OpenShift(s)
  PROVE  TableInv'
<1>1. /\ \A r \in Shifts : shift'[r] = IF r = s THEN "OPEN" ELSE shift[r]
      /\ shift[s] = "ABSENT"
      /\ \A o \in Shifts : shift[o] \notin {"OPEN", "CLOSING"}
      /\ UNCHANGED <<ledger, snapshot, attempts, closure, session, txn>>
  BY DEF OpenShift, IInv, TypeOK
<1> USE <1>1 DEF IInv
<1>2. OneActiveShift'
  BY DEF OneActiveShift
<1>3. FrozenTotals'
  BY DEF FrozenTotals
<1>4. AtRestUnlessOpen'
  BY DEF AtRestUnlessOpen
<1>5. LiveWorkInOpenShift'
  BY SessionShifts DEF LiveWorkInOpenShift
<1>6. ClosedFromLatestEvidence'
  BY DEF ClosedFromLatestEvidence
<1>7. PaidInOwnShift' /\ EndedSessionsOweNothing' /\ RowsConsistent'
  BY DEF PaidInOwnShift, EndedSessionsOweNothing, RowsConsistent
<1> QED BY <1>2, <1>3, <1>4, <1>5, <1>6, <1>7 DEF TableInv

\* A Sales command keeps them: the row it writes is lawful, its Shift is OPEN.
LEMMA CommandKeepsTables ==
  ASSUME IInv, NEW t \in Txns, SessionStep(t) \/ MoneyStep(t)
  PROVE  TableInv'
<1>1. PICK c \in Sessions, row \in SessionRow : RowGood(row) /\ Write(c, row)
  BY CommandReplaces DEF Replaces
<1>2. \A d \in Sessions : session'[d] = IF d = c THEN row ELSE session[d]
  BY <1>1 DEF Write, IInv, TypeOK
<1> USE CommandFrames DEF IInv
<1>3. OneActiveShift'
  BY DEF OneActiveShift
<1>4. FrozenTotals'
  BY DEF FrozenTotals
<1>5. AtRestUnlessOpen'
  BY DEF AtRestUnlessOpen
<1>6. LiveWorkInOpenShift'
  BY <1>1, <1>2 DEF LiveWorkInOpenShift, RowGood
<1>7. PaidInOwnShift'
  BY <1>1, <1>2 DEF PaidInOwnShift, RowGood
<1>8. EndedSessionsOweNothing'
  BY <1>1, <1>2 DEF EndedSessionsOweNothing, RowGood
<1>9. ClosedFromLatestEvidence'
  BY DEF ClosedFromLatestEvidence
<1>10. RowsConsistent'
  BY <1>1, <1>2 DEF RowsConsistent, RowGood
<1> QED BY <1>3, <1>4, <1>5, <1>6, <1>7, <1>8, <1>9, <1>10 DEF TableInv

\* Start, the attempts and Final Close keep them, by what they have read.
LEMMA ReconcilesKeepsTables ==
  ASSUME IInv, NEW t \in Txns, Reconciles(t)
  PROVE  TableInv'
<1> DEFINE s == txn[t].on
<1>0. txn[t].pc \in UpdateHolding => s \in Shifts
  BY DEF IInv, GateState
<1> USE DEF IInv, UpdateHolding, StartHolding, CloseHolding
<1>1. CASE CommitCashMovement(t)
  <2>1. /\ s \in Shifts /\ shift[s] = "OPEN"
        /\ \A r \in Shifts : r # s => ledger'[r] = ledger[r]
        /\ UNCHANGED <<shift, snapshot, attempts, closure, session>>
    BY <1>0, <1>1 DEF CommitCashMovement, AppendFact, TypeOK, GateState
  <2>2. FrozenTotals'
    BY <2>1 DEF FrozenTotals
  <2> QED BY <2>1, <2>2 DEF TableInv, OneActiveShift, AtRestUnlessOpen, LiveWorkInOpenShift,
       PaidInOwnShift, EndedSessionsOweNothing, ClosedFromLatestEvidence, RowsConsistent,
       NothingOutstanding
<1>2. CASE CommitStart(t)
  <2>1. /\ s \in Shifts /\ shift[s] = "OPEN" /\ NothingOutstanding
        /\ txn[t].sum = ledger[s].money
        /\ \A r \in Shifts : shift'[r] = IF r = s THEN "CLOSING" ELSE shift[r]
        /\ \A r \in Shifts : r # s => snapshot'[r] = snapshot[r] /\ attempts'[r] = attempts[r]
        /\ snapshot'[s] = [money |-> txn[t].sum, drawer |-> ledger[s].drawer]
        /\ UNCHANGED <<ledger, closure, session>>
    BY <1>0, <1>2 DEF CommitStart, TypeOK, GateState, ReadsHold
  <2>2. snapshot'[s] = ledger[s]
    BY <2>1 DEF TypeOK, Totals
  <2>3. OneActiveShift'
    BY <2>1 DEF OneActiveShift
  <2>4. FrozenTotals'
    BY <2>1, <2>2 DEF FrozenTotals
  <2>5. AtRestUnlessOpen'
    BY <2>1 DEF AtRestUnlessOpen, NothingOutstanding
  <2>6. LiveWorkInOpenShift'
    BY <2>1 DEF LiveWorkInOpenShift, NothingOutstanding
  <2>7. ClosedFromLatestEvidence'
    BY <2>1 DEF ClosedFromLatestEvidence
  <2>8. PaidInOwnShift' /\ EndedSessionsOweNothing' /\ RowsConsistent'
    BY <2>1 DEF PaidInOwnShift, EndedSessionsOweNothing, RowsConsistent
  <2> QED BY <2>3, <2>4, <2>5, <2>6, <2>7, <2>8 DEF TableInv
<1>3. CASE CommitClose(t)
  <2>1. /\ s \in Shifts /\ shift[s] = "CLOSING"
        /\ txn[t].final = attempts[s] /\ attempts[s].qr > 0
        /\ \A r \in Shifts : shift'[r] = IF r = s THEN "CLOSED" ELSE shift[r]
        /\ \A r \in Shifts : closure'[r] = IF r = s THEN attempts[s] ELSE closure[r]
        /\ UNCHANGED <<ledger, snapshot, attempts, session>>
    BY <1>0, <1>3 DEF CommitClose, TypeOK, GateState, ReadsHold
  <2>2. OneActiveShift'
    BY <2>1 DEF OneActiveShift
  <2>3. FrozenTotals'
    BY <2>1 DEF FrozenTotals
  <2>4. AtRestUnlessOpen'
    <3>1. (\A r \in Shifts : shift'[r] # "OPEN") => \A r \in Shifts : shift[r] # "OPEN"
      BY <2>1
    <3> QED BY <2>1, <3>1 DEF AtRestUnlessOpen, NothingOutstanding
  <2>5. LiveWorkInOpenShift'
    BY <2>1, SessionShifts DEF LiveWorkInOpenShift
  <2>6. ClosedFromLatestEvidence'
    BY <2>1 DEF ClosedFromLatestEvidence
  <2>7. PaidInOwnShift' /\ EndedSessionsOweNothing' /\ RowsConsistent'
    BY <2>1 DEF PaidInOwnShift, EndedSessionsOweNothing, RowsConsistent
  <2> QED BY <2>2, <2>3, <2>4, <2>5, <2>6, <2>7 DEF TableInv
<1>4. ASSUME NEW kind \in {"cash", "qr"}, CommitAttempt(t, kind) PROVE TableInv'
  <2>1. /\ s \in Shifts /\ shift[s] = "CLOSING"
        /\ \A r \in Shifts : r # s => attempts'[r] = attempts[r]
        /\ UNCHANGED <<shift, ledger, snapshot, closure, session>>
    BY <1>0, <1>4 DEF CommitAttempt, TypeOK, GateState
  <2>2. ClosedFromLatestEvidence'
    BY <2>1 DEF ClosedFromLatestEvidence
  <2> QED BY <2>1, <2>2 DEF TableInv, OneActiveShift, FrozenTotals, AtRestUnlessOpen,
       LiveWorkInOpenShift, PaidInOwnShift, EndedSessionsOweNothing, RowsConsistent,
       NothingOutstanding
<1> QED BY <1>1, <1>2, <1>3, <1>4 DEF Reconciles

\* Every step keeps the invariant of the tables.
LEMMA TablesInductive ==
  ASSUME IInv, Next
  PROVE  TableInv'
<1>1. ASSUME NEW t \in Txns, Moves(t) PROVE TableInv'
  BY <1>1, MovesFrames, TablesUnchanged DEF IInv, TableInv
<1> QED BY <1>1, NextSplits, OpenShiftKeepsTables, CommandKeepsTables, ReconcilesKeepsTables

-----------------------------------------------------------------------------
(* The invariant of the locks and of what was read under them.             *)

\* The part of the invariant that speaks of transactions.
LockInv ==
    GateExclusive /\ RowExclusive /\ GateState /\ RowState /\ ReadsHold

\* A transaction that moves on or ends: what becomes of every transaction.
LEMMA GoesEffect ==
  ASSUME TypeOK, NEW t \in Txns, NEW row, Goes(t, row)
  PROVE  \A u \in Txns : txn'[u] = IF u = t THEN row ELSE txn[u]
BY DEF TypeOK, Goes

\* Ending one makes it idle.
LEMMA EndEffect ==
  ASSUME TypeOK, NEW t \in Txns, End(t)
  PROVE  \A u \in Txns : IF u = t THEN txn'[u].pc = "idle" ELSE txn'[u] = txn[u]
BY GoesEffect DEF End, Idle

\* Where transaction t stands after a step that moves nobody else.
Stands(t, pc, on, row) ==
    /\ txn'[t].pc = pc /\ txn'[t].on = on /\ txn'[t].row = row
    /\ \A u \in Txns : u # t => txn'[u] = txn[u]

\* A step that waits for a row gets it only when no other holder excludes it.
LEMMA LockSteps ==
  ASSUME TypeOK, NEW t \in Txns
  PROVE  /\ \A s \in Shifts : LockShift(t, s) =>
               /\ UpdateHolders(s) = {} /\ ShareHolders(s) = {}
               /\ \/ shift[s] = "OPEN" /\ Stands(t, "open", s, txn[t].row)
                  \/ shift[s] = "CLOSING" /\ Stands(t, "closing", s, txn[t].row)
         /\ \A s \in Shifts : ShareShift(t, s) =>
               /\ UpdateHolders(s) = {} /\ shift[s] = "OPEN"
               /\ Stands(t, "shared", s, txn[t].row)
         /\ \A s \in Shifts : ShareShiftAfterRow(t, s) =>
               /\ UpdateHolders(s) = {} /\ shift[s] = "OPEN"
               /\ txn[t].pc = "row" /\ Stands(t, "both", s, txn[t].row)
         /\ \A c \in Sessions : LockRow(t, c) =>
               /\ RowHolders(c) = {} /\ session[c].state # "ABSENT"
               /\ Stands(t, "row", txn[t].on, c)
         /\ \A c \in Sessions : LockRowAfterShift(t, c) =>
               /\ RowHolders(c) = {} /\ session[c].state # "ABSENT"
               /\ txn[t].pc = "shared" /\ Stands(t, "both", txn[t].on, c)
         /\ \A c \in Sessions : ReadShift(t, c) => Stands(t, "read", txn[t].on, c)
         /\ LockDraft(t) =>
               /\ RowHolders(txn[t].row) = {} /\ session[txn[t].row].state = "ACTIVE"
               /\ txn[t].pc = "read" /\ Stands(t, "draft", txn[t].on, txn[t].row)
<1> USE DEF TypeOK, TxnState, Goes, Stands
<1>1. ASSUME NEW s \in Shifts, LockShift(t, s)
      PROVE  /\ UpdateHolders(s) = {} /\ ShareHolders(s) = {}
             /\ \/ shift[s] = "OPEN" /\ Stands(t, "open", s, txn[t].row)
                \/ shift[s] = "CLOSING" /\ Stands(t, "closing", s, txn[t].row)
  <2>1. CASE shift[s] = "OPEN" /\ Goes(t, [txn[t] EXCEPT !.pc = "open", !.on = s])
    BY <1>1, <2>1 DEF LockShift, MayUpdate
  <2>2. CASE shift[s] = "CLOSING" /\ Goes(t, [txn[t] EXCEPT !.pc = "closing", !.on = s])
    BY <1>1, <2>2 DEF LockShift, MayUpdate
  <2> HIDE DEF Goes
  <2> QED BY <1>1, <2>1, <2>2 DEF LockShift
<1>2. ASSUME NEW s \in Shifts, ShareShift(t, s)
      PROVE  UpdateHolders(s) = {} /\ shift[s] = "OPEN" /\ Stands(t, "shared", s, txn[t].row)
  BY <1>2 DEF ShareShift, MayShare
<1>3. ASSUME NEW s \in Shifts, ShareShiftAfterRow(t, s)
      PROVE  /\ UpdateHolders(s) = {} /\ shift[s] = "OPEN"
             /\ txn[t].pc = "row" /\ Stands(t, "both", s, txn[t].row)
  BY <1>3 DEF ShareShiftAfterRow, MayShare
<1>4. ASSUME NEW c \in Sessions, LockRow(t, c)
      PROVE  RowHolders(c) = {} /\ session[c].state # "ABSENT" /\ Stands(t, "row", txn[t].on, c)
  BY <1>4 DEF LockRow, MayLockRow
<1>5. ASSUME NEW c \in Sessions, LockRowAfterShift(t, c)
      PROVE  /\ RowHolders(c) = {} /\ session[c].state # "ABSENT"
             /\ txn[t].pc = "shared" /\ Stands(t, "both", txn[t].on, c)
  BY <1>5 DEF LockRowAfterShift, MayLockRow
<1>6. ASSUME NEW c \in Sessions, ReadShift(t, c)
      PROVE  Stands(t, "read", txn[t].on, c)
  BY <1>6 DEF ReadShift
<1>7. ASSUME LockDraft(t)
      PROVE  /\ RowHolders(txn[t].row) = {} /\ session[txn[t].row].state = "ACTIVE"
             /\ txn[t].pc = "read" /\ Stands(t, "draft", txn[t].on, txn[t].row)
  BY <1>7 DEF LockDraft, MayLockRow
<1> HIDE DEF TypeOK, TxnState, Goes, Stands
<1> QED BY <1>1, <1>2, <1>3, <1>4, <1>5, <1>6, <1>7

\* A step under the Shift's FOR UPDATE lock reads, and keeps the lock.
LEMMA ReadSteps ==
  ASSUME TypeOK, NEW t \in Txns
  PROVE  /\ StartCheckBlockers(t) =>
               /\ txn[t].pc = "open" /\ NothingOutstanding
               /\ Stands(t, "quiet", txn[t].on, txn[t].row)
         /\ StartSumMoney(t) =>
               /\ txn[t].pc = "quiet" /\ Stands(t, "summed", txn[t].on, txn[t].row)
               /\ txn'[t].sum = ledger[txn[t].on].money
         /\ CloseCheckBlockers(t) =>
               txn[t].pc = "closing" /\ Stands(t, "cleared", txn[t].on, txn[t].row)
         /\ CloseVerify(t) =>
               /\ txn[t].pc = "cleared" /\ Stands(t, "verified", txn[t].on, txn[t].row)
               /\ txn'[t].final = attempts[txn[t].on] /\ txn'[t].final.qr > 0
<1> USE DEF TypeOK, TxnState, Goes, Stands
<1>1. ASSUME StartCheckBlockers(t)
      PROVE  /\ txn[t].pc = "open" /\ NothingOutstanding
             /\ Stands(t, "quiet", txn[t].on, txn[t].row)
  BY <1>1 DEF StartCheckBlockers
<1>2. ASSUME StartSumMoney(t)
      PROVE  /\ txn[t].pc = "quiet" /\ Stands(t, "summed", txn[t].on, txn[t].row)
             /\ txn'[t].sum = ledger[txn[t].on].money
  BY <1>2 DEF StartSumMoney
<1>3. ASSUME CloseCheckBlockers(t)
      PROVE  txn[t].pc = "closing" /\ Stands(t, "cleared", txn[t].on, txn[t].row)
  BY <1>3 DEF CloseCheckBlockers
<1>4. ASSUME CloseVerify(t)
      PROVE  /\ txn[t].pc = "cleared" /\ Stands(t, "verified", txn[t].on, txn[t].row)
             /\ txn'[t].final = attempts[txn[t].on] /\ txn'[t].final.qr > 0
  BY <1>4 DEF CloseVerify
<1> HIDE DEF TypeOK, TxnState, Goes, Stands
<1> QED BY <1>1, <1>2, <1>3, <1>4

\* The locks: no action admits a holder beside one that excludes it.
LEMMA LocksExclude ==
  ASSUME IInv, Next
  PROVE  GateExclusive' /\ RowExclusive'
<1> USE DEF IInv, ShareHolding, StartHolding, CloseHolding, UpdateHolding, RowHolding
<1>1. ASSUME NEW s \in Shifts, OpenShift(s) PROVE GateExclusive' /\ RowExclusive'
  BY <1>1 DEF OpenShift, GateExclusive, RowExclusive
<1>2. ASSUME NEW t \in Txns, End(t) PROVE GateExclusive' /\ RowExclusive'
  BY <1>2, EndEffect DEF GateExclusive, RowExclusive
<1>3. ASSUME NEW t \in Txns, Moves(t) PROVE GateExclusive' /\ RowExclusive'
  <2> USE LockSteps, ReadSteps DEF Stands
  <2>1. ASSUME NEW s \in Shifts, LockShift(t, s) PROVE GateExclusive' /\ RowExclusive'
    BY <2>1 DEF GateExclusive, RowExclusive, UpdateHolders, ShareHolders
  <2>2. ASSUME NEW s \in Shifts, ShareShift(t, s) \/ ShareShiftAfterRow(t, s)
        PROVE  GateExclusive' /\ RowExclusive'
    BY <2>2 DEF GateExclusive, RowExclusive, UpdateHolders
  <2>3. CASE StartCheckBlockers(t) \/ StartSumMoney(t) \/ CloseCheckBlockers(t) \/ CloseVerify(t)
    BY <2>3 DEF GateExclusive, RowExclusive
  <2>4. ASSUME NEW c \in Sessions, LockRow(t, c) \/ LockRowAfterShift(t, c) \/ ReadShift(t, c)
        PROVE  GateExclusive' /\ RowExclusive'
    BY <2>4 DEF GateExclusive, RowExclusive, RowHolders
  <2>5. CASE LockDraft(t)
    BY <2>5 DEF GateExclusive, RowExclusive, RowHolders
  <2>6. CASE Rollback(t)
    BY <1>2, <2>6 DEF Rollback
  <2> QED BY <1>3, <2>1, <2>2, <2>3, <2>4, <2>5, <2>6 DEF Moves
<1>4. ASSUME NEW t \in Txns, Reconciles(t) PROVE End(t)
  BY <1>4 DEF Reconciles, CommitCashMovement, CommitStart, CommitClose, CommitAttempt
<1> QED BY <1>1, <1>2, <1>3, <1>4, NextSplits, CommandFrames

\* A Shift and a Session that a transaction holds are as it found them.
LEMMA HeldStateKept ==
  ASSUME IInv, Next
  PROVE  GateState' /\ RowState'
<1> USE DEF IInv, ShareHolding, StartHolding, CloseHolding, UpdateHolding, RowHolding
<1>1. ASSUME NEW s \in Shifts, OpenShift(s) PROVE GateState' /\ RowState'
  BY <1>1 DEF OpenShift, GateState, RowState, TypeOK
<1>2. ASSUME NEW t \in Txns, Moves(t) PROVE GateState' /\ RowState'
  <2> USE MovesFrames, LockSteps, ReadSteps DEF Stands
  <2>1. ASSUME NEW s \in Shifts, LockShift(t, s) \/ ShareShift(t, s)
        PROVE  GateState' /\ RowState'
    BY <1>2, <2>1 DEF GateState, RowState
  <2>2. ASSUME NEW s \in Shifts, ShareShiftAfterRow(t, s) PROVE GateState' /\ RowState'
    BY <1>2, <2>2 DEF GateState, RowState
  <2>3. CASE StartCheckBlockers(t) \/ StartSumMoney(t) \/ CloseCheckBlockers(t) \/ CloseVerify(t)
    BY <1>2, <2>3 DEF GateState, RowState
  <2>4. ASSUME NEW c \in Sessions, LockRow(t, c) \/ LockRowAfterShift(t, c) \/ ReadShift(t, c)
        PROVE  GateState' /\ RowState'
    BY <1>2, <2>4 DEF GateState, RowState
  <2>5. CASE LockDraft(t)
    BY <1>2, <2>5 DEF GateState, RowState
  <2>6. CASE Rollback(t)
    BY <1>2, <2>6, EndEffect DEF Rollback, GateState, RowState
  <2> QED BY <1>2, <2>1, <2>2, <2>3, <2>4, <2>5, <2>6 DEF Moves
<1>3. ASSUME NEW t \in Txns, Reconciles(t) PROVE GateState' /\ RowState'
  <2> DEFINE s == txn[t].on
  <2>1. /\ End(t) /\ UNCHANGED session
        /\ txn[t].pc \in UpdateHolding
        /\ s \in Shifts
        /\ \A r \in Shifts : r # s => shift'[r] = shift[r]
    BY <1>3 DEF Reconciles, CommitCashMovement, CommitStart, CommitClose, CommitAttempt,
       GateState, TypeOK
  <2>2. \A u \in Txns : u # t =>
           txn'[u] = txn[u] /\ (txn[u].pc \in ShareHolding \cup UpdateHolding => txn[u].on # s)
    BY <2>1, EndEffect DEF GateExclusive
  <2>3. txn'[t].pc = "idle"
    BY <2>1, EndEffect
  <2>4. GateState'
    BY <2>1, <2>2, <2>3 DEF GateState
  <2>5. RowState'
    BY <2>1, <2>2, <2>3 DEF RowState
  <2> QED BY <2>4, <2>5
<1>4. ASSUME NEW t \in Txns, SessionStep(t) \/ MoneyStep(t) PROVE GateState' /\ RowState'
  <2>1. PICK c \in Sessions, row \in SessionRow :
          /\ RowGood(row) /\ Write(c, row)
          /\ \A u \in Txns : txn[u].pc \in RowHolding /\ txn[u].row = c => u = t
    BY <1>4, CommandReplaces DEF Replaces
  <2>2. \A d \in Sessions : session'[d] = IF d = c THEN row ELSE session[d]
    BY <2>1 DEF Write, TypeOK
  <2>3. /\ txn'[t].pc = "idle" /\ UNCHANGED shift
        /\ \A u \in Txns : u # t => txn'[u] = txn[u]
    BY <1>4, CommandFrames, EndEffect
  <2>4. GateState'
    BY <2>3 DEF GateState
  <2>5. RowState'
    BY <2>1, <2>2, <2>3 DEF RowState, RowGood
  <2> QED BY <2>4, <2>5
<1> QED BY <1>1, <1>2, <1>3, <1>4, NextSplits

\* What Start and Final Close read stays true until they commit.
LEMMA ReadsKept ==
  ASSUME IInv, Next
  PROVE  ReadsHold'
<1> USE DEF IInv, ShareHolding, StartHolding, CloseHolding, UpdateHolding
<1>1. ASSUME NEW s \in Shifts, OpenShift(s) PROVE ReadsHold'
  BY <1>1 DEF OpenShift, ReadsHold, NothingOutstanding
<1>2. ASSUME NEW t \in Txns, Moves(t) PROVE ReadsHold'
  <2>1. /\ NothingOutstanding' <=> NothingOutstanding
        /\ ledger' = ledger /\ attempts' = attempts
    BY <1>2, MovesFrames DEF NothingOutstanding
  <2> USE <2>1, LockSteps, ReadSteps DEF Stands
  <2>2. ASSUME NEW s \in Shifts, LockShift(t, s) \/ ShareShift(t, s) \/ ShareShiftAfterRow(t, s)
        PROVE  ReadsHold'
    BY <2>2 DEF ReadsHold
  <2>3. CASE StartCheckBlockers(t) \/ StartSumMoney(t) \/ CloseCheckBlockers(t) \/ CloseVerify(t)
    BY <2>3 DEF ReadsHold
  <2>4. ASSUME NEW c \in Sessions, LockRow(t, c) \/ LockRowAfterShift(t, c) \/ ReadShift(t, c)
        PROVE  ReadsHold'
    BY <2>4 DEF ReadsHold
  <2>5. CASE LockDraft(t) \/ Rollback(t)
    BY <2>5, EndEffect DEF Rollback, ReadsHold
  <2> QED BY <1>2, <2>2, <2>3, <2>4, <2>5 DEF Moves
<1>3. ASSUME NEW t \in Txns, Reconciles(t) PROVE ReadsHold'
  <2> DEFINE s == txn[t].on
  <2>1. /\ End(t) /\ UNCHANGED session
        /\ txn[t].pc \in UpdateHolding /\ s \in Shifts
        /\ \A r \in Shifts : r # s => ledger'[r] = ledger[r] /\ attempts'[r] = attempts[r]
    BY <1>3 DEF Reconciles, CommitCashMovement, CommitStart, CommitClose, CommitAttempt,
       AppendFact, GateState, TypeOK
  <2>2. \A u \in Txns : IF u = t THEN txn'[u].pc = "idle"
                        ELSE txn'[u] = txn[u] /\ (txn[u].pc \in UpdateHolding => txn[u].on # s)
    BY <2>1, EndEffect DEF GateExclusive
  <2>3. NothingOutstanding' <=> NothingOutstanding
    BY <2>1 DEF NothingOutstanding
  <2>4. \A u \in Txns : txn[u].pc \in UpdateHolding => txn[u].on \in Shifts
    BY DEF GateState
  <2> QED BY <2>1, <2>2, <2>3, <2>4 DEF ReadsHold
<1>4. ASSUME NEW t \in Txns, SessionStep(t) \/ MoneyStep(t) PROVE ReadsHold'
  BY <1>4, CommandFrames, EndEffect DEF ReadsHold
<1> QED BY <1>1, <1>2, <1>3, <1>4, NextSplits

-----------------------------------------------------------------------------
(* Theorems.                                                               *)

\* Nothing is open and nobody holds anything at the start.
LEMMA InvariantInit == Init => IInv
<1> SUFFICES ASSUME Init PROVE IInv
  OBVIOUS
<1> USE DEF Init
<1>1. TypeOK
  BY IdleType DEF TypeOK, NoTotals, Totals, NoAttempts, AttemptSeq, NoRow, SessionRow
<1>2. TableInv
  BY NoShiftAssumption DEF TableInv, OneActiveShift, FrozenTotals, AtRestUnlessOpen,
     NothingOutstanding, LiveWorkInOpenShift, PaidInOwnShift, EndedSessionsOweNothing,
     ClosedFromLatestEvidence, RowsConsistent, NoRow
<1>3. LockInv
  BY DEF LockInv, GateExclusive, RowExclusive, GateState, RowState, ReadsHold, Idle,
     ShareHolding, StartHolding, CloseHolding, UpdateHolding, RowHolding
<1> QED BY <1>1, <1>2, <1>3 DEF IInv, TableInv, LockInv

\* A step of the environment keeps everything.
LEMMA InvariantStutters == IInv /\ UNCHANGED vars => IInv'
BY DEF vars, IInv, TypeOK, OneActiveShift, FrozenTotals, AtRestUnlessOpen, LiveWorkInOpenShift,
   PaidInOwnShift, EndedSessionsOweNothing, ClosedFromLatestEvidence, RowsConsistent,
   NothingOutstanding, GateExclusive, RowExclusive, GateState, RowState, ReadsHold

\* The inductive invariant: what the locks protect, and what the properties need
\* of the values read under them (lockOpenSalesShift, LockSalesShiftForReconciliation).
THEOREM Invariance == Spec => []IInv
<1>1. IInv /\ [Next]_vars => IInv'
  <2> SUFFICES ASSUME IInv, [Next]_vars PROVE IInv'
    OBVIOUS
  <2>1. CASE Next
    BY <2>1, TypeInductive, TablesInductive, LocksExclude, HeldStateKept, ReadsKept
       DEF IInv, TableInv
  <2> QED BY <2>1, InvariantStutters
<1> QED BY <1>1, InvariantInit, PTL DEF Spec

\* Type correctness, with every started Session attributed to a Shift
\* (session_start.go writes the Shift it holds FOR SHARE).
THEOREM TypeCorrect == Spec => []TypeOK
BY Invariance, PTL DEF IInv

\* One cash drawer: the partial unique index of open_shift.go is enough.
THEOREM SingleActiveShift == Spec => []OneActiveShift
BY Invariance, PTL DEF IInv

\* The totals frozen by two reads are the totals recorded, from Start on: the
\* share locks of the money commands and the update lock of Start suffice.
THEOREM TotalsStayFrozen == Spec => []FrozenTotals
BY Invariance, PTL DEF IInv

\* No Session, Check, obligation or Refund intent is outstanding while no Shift
\* is OPEN, although Submit, drafts and Session closure take no Shift lock.
THEOREM CafeAtRest == Spec => []AtRestUnlessOpen
BY Invariance, PTL DEF IInv

\* An ACTIVE Session's Shift is OPEN: the lock-free reads of lockEditableDraft and
\* Start New Draft can go stale, yet never let work outlive its Shift.
THEOREM WorkInOpenShift == Spec => []LiveWorkInOpenShift
BY Invariance, PTL DEF IInv

\* Payments are attributed to the Session's own Shift (recordPayment).
THEOREM PaymentsAttributed == Spec => []PaidInOwnShift
BY Invariance, PTL DEF IInv

\* No charge lands on a Session that has ended (lockEditableDraft).
THEOREM NoLateCharge == Spec => []EndedSessionsOweNothing
BY Invariance, PTL DEF IInv

\* A closure names the latest attempts of both ledgers (finalAttempt).
THEOREM LatestEvidence == Spec => []ClosedFromLatestEvidence
BY Invariance, PTL DEF IInv

\* Every step is a step of the book of facts, or none of its business.
LEMMA StepImplementsBook ==
  ASSUME IInv, Next
  PROVE  [Book!BookNext]_(Book!bookVars)
<1> USE DEF Book!bookVars
<1>1. ASSUME NEW s \in Shifts, OpenShift(s) PROVE Book!OpenBook(s)
  BY <1>1 DEF OpenShift, Book!OpenBook
<1>2. ASSUME NEW t \in Txns, Moves(t) PROVE UNCHANGED Book!bookVars
  BY <1>2, MovesFrames
<1>3. ASSUME NEW t \in Txns, Reconciles(t)
      PROVE  (\E s \in Shifts : Book!EnterFact(s) \/ Book!FreezeReport(s) \/ Book!CloseBook(s))
                \/ UNCHANGED Book!bookVars
  <2> DEFINE s == txn[t].on
  <2>1. /\ txn[t].pc \in UpdateHolding => s \in Shifts
        /\ txn[t].pc \in StartHolding => shift[s] = "OPEN"
        /\ txn[t].pc \in CloseHolding => shift[s] = "CLOSING"
    BY DEF IInv, GateState
  <2> USE <2>1 DEF UpdateHolding, StartHolding, CloseHolding
  <2>2. CASE CommitCashMovement(t)
    <3>1. Book!EnterFact(s)
      BY <2>2 DEF CommitCashMovement, AppendFact, Book!EnterFact
    <3> QED BY <2>2, <3>1 DEF CommitCashMovement
  <2>3. CASE CommitStart(t)
    <3>1. [money |-> txn[t].sum, drawer |-> ledger[s].drawer] = ledger[s]
      BY <2>3 DEF CommitStart, IInv, ReadsHold, TypeOK, Totals
    <3>2. Book!FreezeReport(s)
      BY <2>3, <3>1 DEF CommitStart, Book!FreezeReport
    <3> QED BY <2>3, <3>2 DEF CommitStart
  <2>4. CASE CommitClose(t)
    <3>1. Book!CloseBook(s)
      BY <2>4 DEF CommitClose, Book!CloseBook, IInv, FrozenTotals
    <3> QED BY <2>4, <3>1 DEF CommitClose
  <2>5. ASSUME NEW kind \in {"cash", "qr"}, CommitAttempt(t, kind)
        PROVE  UNCHANGED Book!bookVars
    BY <2>5 DEF CommitAttempt
  <2> QED BY <1>3, <2>2, <2>3, <2>4, <2>5 DEF Reconciles
<1>4. ASSUME NEW t \in Txns, SessionStep(t) \/ MoneyStep(t)
      PROVE  (\E s \in Shifts : Book!EnterFact(s)) \/ UNCHANGED Book!bookVars
  <2>1. \/ UNCHANGED ledger
        \/ txn[t].pc = "both" /\ AppendFact(txn[t].on, "money")
    BY <1>4, CommandFrames
  <2>2. txn[t].pc = "both" => txn[t].on \in Shifts /\ shift[txn[t].on] = "OPEN"
    BY DEF IInv, GateState, ShareHolding
  <2>3. UNCHANGED <<shift, snapshot>>
    BY <1>4, CommandFrames
  <2> QED BY <2>1, <2>2, <2>3 DEF AppendFact, Book!EnterFact
<1> QED BY <1>1, <1>2, <1>3, <1>4, NextSplits DEF Book!BookNext

\* The transactions, locks and Sessions of the design implement the book of
\* facts: entered one at a time while it is open, reported whole, then closed.
THEOREM Refinement == Spec => ImplementsShiftBook
<1>1. Init => Book!BookInit
  BY DEF Init, Book!BookInit, NoTotals, Book!BlankEntries
<1>2. IInv /\ [Next]_vars => [Book!BookNext]_(Book!bookVars)
  BY StepImplementsBook DEF vars, Book!bookVars
<1> QED BY <1>1, <1>2, Invariance, PTL DEF Spec, ImplementsShiftBook, Book!BookSpec

\* No step of any command enters a fact in a Shift that is not OPEN before and
\* after it, and a Shift's lifecycle only moves forward.
THEOREM RecordedInOpenShift == Spec => RecordedOnlyWhileOpen
<1> DEFINE Forward ==
      \A s \in Shifts :
          /\ ledger'[s] # ledger[s] => shift[s] = "OPEN" /\ shift'[s] = "OPEN"
          /\ shift'[s] # shift[s] =>
                <<shift[s], shift'[s]>> \in {<<"ABSENT", "OPEN">>, <<"OPEN", "CLOSING">>,
                                           <<"CLOSING", "CLOSED">>}
<1>1. ASSUME IInv, Book!BookNext PROVE Forward
  <2>1. PICK s \in Shifts :
          Book!OpenBook(s) \/ Book!EnterFact(s) \/ Book!FreezeReport(s) \/ Book!CloseBook(s)
    BY <1>1 DEF Book!BookNext
  <2>2. shift \in [Shifts -> {"ABSENT", "OPEN", "CLOSING", "CLOSED"}] /\ ledger \in [Shifts -> Totals]
    BY <1>1 DEF IInv, TypeOK
  <2> QED BY <2>1, <2>2 DEF Book!OpenBook, Book!EnterFact, Book!FreezeReport, Book!CloseBook
<1>2. IInv /\ [Next]_vars => [Forward]_vars
  <2> SUFFICES ASSUME IInv, Next PROVE Forward
    BY DEF vars
  <2>1. Book!BookNext \/ UNCHANGED Book!bookVars
    BY StepImplementsBook
  <2> QED BY <1>1, <2>1 DEF Book!bookVars
<1> QED BY <1>2, Invariance, PTL DEF Spec, RecordedOnlyWhileOpen

-----------------------------------------------------------------------------
(* What a Shift expects, counts and closes with: Reconciliation, for any   *)
(* number of Shifts, any amounts and any ledgers, beside SalesShift's own  *)
(* variables.                                                              *)
Observations == [received : Amounts, refunded : Amounts]

AmountsTyped ==
    /\ state \in [SalesShifts -> {"ABSENT", "OPEN", "CLOSING", "CLOSED"}]
    /\ float \in [SalesShifts -> Int]
    /\ total \in [SalesShifts -> [Kinds -> Nat]]
    /\ frozen = [s \in SalesShifts |-> frozen[s]]
    /\ counts \in [SalesShifts -> Seq(Amounts)]
    /\ observations \in [SalesShifts -> Seq(Observations)]
    /\ closed = [s \in SalesShifts |-> closed[s]]
    /\ answer = [s \in SalesShifts |-> answer[s]]

\* A closed Shift is what Final Close accepted of the last attempts, stored and told.
Stored(s, id, at, why) ==
    LET i == Len(counts[s])
        j == Len(observations[s])
    IN  /\ Accepted(s, counts[s], observations[s], i, j, why)
        /\ closed[s] = ClosureRow(id, at, frozen[s],
                                      Observed(counts[s][i], observations[s][j]), why)
        /\ answer[s] = Told(closed[s], Reconciliation(s))

\* What Start froze still is what the facts come to, from Start on; only a Shift
\* that is CLOSED has a closure.
ShiftGood(s) ==
    /\ total[s]["QR_VOID"] <= total[s]["QR_PAYMENT"]
    /\ state[s] \in {"CLOSING", "CLOSED"} =>
          /\ frozen[s] = [float |-> float[s], source |-> total[s], expected |-> Expected(s)]
          /\ Freezable(s) /\ counts[s] # <<>>
    /\ state[s] # "CLOSED" => closed[s] = Nothing
    /\ state[s] = "CLOSED" =>
          /\ observations[s] # <<>>
          /\ \E id \in 1..Cardinality(SalesShifts), at \in Times, why \in Explanations : Stored(s, id, at, why)

\* The amounts have their types before the first Shift.
LEMMA TypedInit == ASSUME AmountsInit PROVE AmountsTyped
<1>1. <<>> \in Seq(Amounts) /\ <<>> \in Seq(Observations)
  OBVIOUS
<1>2. NoFacts \in [Kinds -> Nat]
  BY DEF NoFacts
<1> QED BY <1>1, <1>2 DEF AmountsInit, AmountsTyped

\* Every step of the amounts keeps their types.
LEMMA TypedNext == ASSUME AmountsTyped, [AmountsNext]_amountsVars PROVE AmountsTyped'
<1>0. /\ MaxAmount \in Nat \ {0} /\ Floats \subseteq Int
  BY AmountAssumption
<1>1. ASSUME NEW s \in SalesShifts, NEW f \in Floats, OpenSalesShift(s, f) PROVE AmountsTyped'
  BY <1>0, <1>1 DEF OpenSalesShift, evidenceVars, closedVars, AmountsTyped, Observations, Amounts, Kinds
<1>2. ASSUME NEW s \in SalesShifts, NEW kind \in Kinds, NEW a, RecordFact(s, kind, a) PROVE AmountsTyped'
  <2>1. total[s] \in [Kinds -> Nat] /\ a \in Nat
    BY <1>0, <1>2 DEF AmountsTyped, RecordFact
  <2>2. total' = [total EXCEPT ![s] = [total[s] EXCEPT ![kind] = @ + a]]
    BY <1>2 DEF AmountsTyped, RecordFact
  <2>3. [total[s] EXCEPT ![kind] = @ + a] \in [Kinds -> Nat]
    BY <2>1
  <2>4. total' \in [SalesShifts -> [Kinds -> Nat]]
    BY <2>2, <2>3 DEF AmountsTyped
  <2> QED BY <1>2, <2>4 DEF RecordFact, evidenceVars, closedVars, AmountsTyped, Observations, Amounts, Kinds
<1>3. ASSUME NEW s \in SalesShifts, NEW a \in Amounts, StartReconciliation(s, a) PROVE AmountsTyped'
  <2>1. <<a>> \in Seq(Amounts)
    OBVIOUS
  <2> QED BY <2>1, <1>3 DEF StartReconciliation, moneyVars, closedVars, AmountsTyped, Observations, Amounts, Kinds
<1>4. ASSUME NEW s \in SalesShifts, NEW a \in Amounts, RecordCashCount(s, a) PROVE AmountsTyped'
  <2>1. Append(counts[s], a) \in Seq(Amounts)
    BY DEF AmountsTyped
  <2> QED BY <2>1, <1>4 DEF RecordCashCount, Attempt, moneyVars, closedVars, AmountsTyped, Observations, Amounts, Kinds
<1>5. ASSUME NEW s \in SalesShifts, NEW a \in Amounts, NEW b \in Amounts, RecordQRObservation(s, a, b) PROVE AmountsTyped'
  <2>0. [received |-> a, refunded |-> b] \in Observations
    BY DEF Observations
  <2>1. Append(observations[s], [received |-> a, refunded |-> b]) \in Seq(Observations)
    BY <2>0 DEF AmountsTyped
  <2> QED BY <2>1, <1>5 DEF RecordQRObservation, Attempt, moneyVars, closedVars, AmountsTyped, Observations, Amounts, Kinds
<1>6. ASSUME NEW s \in SalesShifts, NEW i, NEW j, NEW why, FinalClose(s, i, j, why) PROVE AmountsTyped'
  BY <1>6 DEF FinalClose, evidenceVars, moneyVars, AmountsTyped, Observations, Amounts, Kinds
<1>7. ASSUME UNCHANGED <<state, moneyVars, evidenceVars, closedVars>> PROVE AmountsTyped'
  BY <1>7 DEF evidenceVars, moneyVars, closedVars, AmountsTyped, Observations, Amounts, Kinds
<1> QED
  BY <1>1, <1>2, <1>3, <1>4, <1>5, <1>6, <1>7 DEF AmountsNext, CashMovement, Payment, Void, Refund, StartWalk, NextPage, amountsVars, Kinds

-----------------------------------------------------------------------------
\* What is good of a Shift stays so while none of its rows changes.
LEMMA SameShift ==
  ASSUME NEW s \in SalesShifts, ShiftGood(s),
         state'[s] = state[s], float'[s] = float[s], total'[s] = total[s], frozen'[s] = frozen[s],
         counts'[s] = counts[s], observations'[s] = observations[s],
         closed'[s] = closed[s], answer'[s] = answer[s]
  PROVE  ShiftGood(s)'
<1>1. Expected(s)' = Expected(s)
  BY DEF Expected, ExpectedCash
<1>2. Freezable(s)' <=> Freezable(s)
  BY <1>1 DEF Freezable, InWindow
<1>3. \A id, at, why : Stored(s, id, at, why) => Stored(s, id, at, why)'
  BY DEF Stored, Accepted, SourceVerified, Reconciliation, Evidence, InWindow
<1>4. Explanations' = Explanations
  BY DEF Explanations, Dimensions
<1> QED BY <1>1, <1>2, <1>3, <1>4 DEF ShiftGood, Nothing

\* A step on the rows of one Shift leaves the others as good as they were.
LEMMA OtherShift ==
  ASSUME AmountsTyped, NEW s \in SalesShifts, NEW o \in SalesShifts \ {s}, ShiftGood(o),
         UNCHANGED state \/ \E x : state' = [state EXCEPT ![s] = x],
         UNCHANGED float \/ \E x : float' = [float EXCEPT ![s] = x],
         UNCHANGED total \/ \E x : total' = [total EXCEPT ![s] = x],
         UNCHANGED frozen \/ \E x : frozen' = [frozen EXCEPT ![s] = x],
         UNCHANGED counts \/ \E x : counts' = [counts EXCEPT ![s] = x],
         UNCHANGED observations \/ \E x : observations' = [observations EXCEPT ![s] = x],
         UNCHANGED closed \/ \E x : closed' = [closed EXCEPT ![s] = x],
         UNCHANGED answer \/ \E x : answer' = [answer EXCEPT ![s] = x]
  PROVE  ShiftGood(o)'
<1>1. /\ state'[o] = state[o] /\ float'[o] = float[o] /\ total'[o] = total[o]
      /\ frozen'[o] = frozen[o] /\ counts'[o] = counts[o]
  BY DEF AmountsTyped
<1>2. observations'[o] = observations[o] /\ closed'[o] = closed[o] /\ answer'[o] = answer[o]
  BY DEF AmountsTyped
<1> QED BY <1>1, <1>2, SameShift

\* Opening a Shift keeps every Shift good.
LEMMA OpenKeeps ==
  ASSUME AmountsTyped, \A o \in SalesShifts : ShiftGood(o), NEW s \in SalesShifts, NEW f, OpenSalesShift(s, f)
  PROVE  \A o \in SalesShifts : ShiftGood(o)'
<1>1. ShiftGood(s)'
  BY DEF OpenSalesShift, ShiftGood, AmountsTyped, evidenceVars, closedVars, Nothing
<1> QED BY <1>1, OtherShift DEF OpenSalesShift, evidenceVars, closedVars

\* Entering a fact in an OPEN Shift keeps every Shift good: nothing is frozen yet.
LEMMA FactKeeps ==
  ASSUME AmountsTyped, \A o \in SalesShifts : ShiftGood(o), NEW s \in SalesShifts, NEW kind \in Kinds, NEW a,
         kind = "QR_VOID" => total[s]["QR_VOID"] + a <= total[s]["QR_PAYMENT"],
         RecordFact(s, kind, a)
  PROVE  \A o \in SalesShifts : ShiftGood(o)'
<1>1. total[s] \in [Kinds -> Nat] /\ a \in Nat
  BY AmountAssumption DEF AmountsTyped, RecordFact
<1>2. total' = [total EXCEPT ![s] = [total[s] EXCEPT ![kind] = total[s][kind] + a]]
  BY DEF AmountsTyped, RecordFact
<1>3. total'[s] = [total[s] EXCEPT ![kind] = total[s][kind] + a]
  BY <1>2 DEF AmountsTyped
<1>4. total'[s]["QR_VOID"] <= total'[s]["QR_PAYMENT"]
  <2>1. "QR_VOID" \in Kinds /\ "QR_PAYMENT" \in Kinds
    BY DEF Kinds
  <2>2. total[s]["QR_VOID"] <= total[s]["QR_PAYMENT"]
    BY DEF ShiftGood
  <2>3. total[s]["QR_VOID"] \in Nat /\ total[s]["QR_PAYMENT"] \in Nat
    BY <1>1, <2>1
  <2>4. total'[s]["QR_VOID"] = IF kind = "QR_VOID" THEN total[s]["QR_VOID"] + a ELSE total[s]["QR_VOID"]
    BY <1>1, <1>3, <2>1
  <2>5. total'[s]["QR_PAYMENT"] = IF kind = "QR_PAYMENT" THEN total[s]["QR_PAYMENT"] + a ELSE total[s]["QR_PAYMENT"]
    BY <1>1, <1>3, <2>1
  <2> QED BY <1>1, <2>2, <2>3, <2>4, <2>5
<1>5. ShiftGood(s)'
  BY <1>4 DEF RecordFact, ShiftGood, AmountsTyped, evidenceVars, closedVars, Nothing
<1> QED BY <1>2, <1>5, OtherShift DEF RecordFact, evidenceVars, closedVars

\* Starting the reconciliation freezes what the drawer should hold.
LEMMA StartKeeps ==
  ASSUME AmountsTyped, \A o \in SalesShifts : ShiftGood(o), NEW s \in SalesShifts, NEW c, StartReconciliation(s, c)
  PROVE  \A o \in SalesShifts : ShiftGood(o)'
<1>1. Expected(s)' = Expected(s)
  BY DEF Expected, ExpectedCash, StartReconciliation, moneyVars
<1>2. frozen'[s] = [float |-> float'[s], source |-> total'[s], expected |-> Expected(s)']
  BY <1>1 DEF StartReconciliation, moneyVars, AmountsTyped
<1>3. Freezable(s)'
  BY <1>1 DEF Freezable, InWindow, StartReconciliation
<1>4. counts'[s] = <<c>> /\ <<c>> # <<>>
  BY DEF StartReconciliation, AmountsTyped
<1>5. ShiftGood(s)'
  BY <1>2, <1>3, <1>4 DEF StartReconciliation, ShiftGood, AmountsTyped, moneyVars, closedVars, Nothing
<1> QED BY <1>5, OtherShift DEF StartReconciliation, moneyVars, closedVars

\* A further count adds to the evidence and changes no total.
LEMMA CountKeeps ==
  ASSUME AmountsTyped, \A o \in SalesShifts : ShiftGood(o), NEW s \in SalesShifts, NEW c \in Amounts, RecordCashCount(s, c)
  PROVE  \A o \in SalesShifts : ShiftGood(o)'
<1>1. Expected(s)' = Expected(s)
  BY DEF Expected, ExpectedCash, RecordCashCount, moneyVars
<1>2. Freezable(s)'
  BY <1>1 DEF Freezable, InWindow, RecordCashCount, ShiftGood
<1>3. counts'[s] # <<>>
  <2>1. Len(Append(counts[s], c)) = Len(counts[s]) + 1 /\ Len(counts[s]) \in Nat
    BY DEF AmountsTyped
  <2>2. Append(counts[s], c) # <<>>
    <3>1. Len(Append(counts[s], c)) # 0
      BY ONLY <2>1
    <3> QED BY ONLY <3>1
  <2>3. counts'[s] = Append(counts[s], c)
    BY DEF RecordCashCount, Attempt, AmountsTyped
  <2> QED BY <2>2, <2>3
<1>4. ShiftGood(s)'
  BY <1>1, <1>2, <1>3 DEF RecordCashCount, ShiftGood, AmountsTyped, moneyVars, closedVars, Nothing
<1> QED BY <1>4, OtherShift DEF RecordCashCount, moneyVars, closedVars

\* A further observation adds to the evidence and changes no total.
LEMMA ObservationKeeps ==
  ASSUME AmountsTyped, \A o \in SalesShifts : ShiftGood(o), NEW s \in SalesShifts, NEW a, NEW b, RecordQRObservation(s, a, b)
  PROVE  \A o \in SalesShifts : ShiftGood(o)'
<1>1. Expected(s)' = Expected(s)
  BY DEF Expected, ExpectedCash, RecordQRObservation, moneyVars
<1>2. Freezable(s)'
  BY <1>1 DEF Freezable, InWindow, RecordQRObservation, ShiftGood
<1>3. ShiftGood(s)'
  BY <1>1, <1>2 DEF RecordQRObservation, ShiftGood, AmountsTyped, moneyVars, closedVars, Nothing
<1> QED BY <1>3, OtherShift DEF RecordQRObservation, moneyVars, closedVars

\* What a Final Close does, with the row it stores.
LEMMA CloseStores ==
  ASSUME AmountsTyped, NEW s \in SalesShifts, NEW i \in 1..Len(counts[s]), NEW j \in 1..Len(observations[s]),
         NEW why \in Explanations, FinalClose(s, i, j, why)
  PROVE  /\ state[s] = "CLOSING" /\ state' = [state EXCEPT ![s] = "CLOSED"]
         /\ UNCHANGED <<float, total, frozen, counts, observations, walk>>
         /\ i = Len(counts[s]) /\ j = Len(observations[s])
         /\ Accepted(s, counts[s], observations[s], i, j, why)
         /\ \E at \in Times, id \in 1..Cardinality(SalesShifts) :
              /\ \A o \in Closed : closed[o].at <= at /\ closed[o].id # id
              /\ closed' = [closed EXCEPT ![s] =
                    ClosureRow(id, at, frozen[s], Observed(counts[s][i], observations[s][j]), why)]
              /\ answer' = [answer EXCEPT ![s] =
                    Told(ClosureRow(id, at, frozen[s], Observed(counts[s][i], observations[s][j]), why),
                             Reconciliation(s))]
<1>1. Reconciliation(s).frozen = frozen[s]
  BY DEF Reconciliation
<1>2. i = Len(counts[s]) /\ j = Len(observations[s])
  BY DEF FinalClose, Accepted, Final
<1>3. PICK at \in Times, id \in 1..Cardinality(SalesShifts) :
         /\ \A o \in Closed : closed[o].at <= at /\ closed[o].id # id
         /\ closed' = [closed EXCEPT ![s] =
               ClosureRow(id, at, Reconciliation(s).frozen, Observed(counts[s][i], observations[s][j]), why)]
         /\ answer' = [answer EXCEPT ![s] =
               Told(ClosureRow(id, at, Reconciliation(s).frozen, Observed(counts[s][i], observations[s][j]), why),
                        Reconciliation(s))]
  BY DEF FinalClose
<1>4. /\ closed' = [closed EXCEPT ![s] =
               ClosureRow(id, at, frozen[s], Observed(counts[s][i], observations[s][j]), why)]
      /\ answer' = [answer EXCEPT ![s] =
               Told(ClosureRow(id, at, frozen[s], Observed(counts[s][i], observations[s][j]), why),
                        Reconciliation(s))]
  BY <1>1, <1>3
<1>5. \E jd \in 1..Cardinality(SalesShifts) :
         /\ \A o \in Closed : closed[o].at <= at /\ closed[o].id # jd
         /\ closed' = [closed EXCEPT ![s] =
               ClosureRow(jd, at, frozen[s], Observed(counts[s][i], observations[s][j]), why)]
         /\ answer' = [answer EXCEPT ![s] =
               Told(ClosureRow(jd, at, frozen[s], Observed(counts[s][i], observations[s][j]), why),
                        Reconciliation(s))]
  BY <1>3, <1>4
<1>6. state[s] = "CLOSING" /\ state' = [state EXCEPT ![s] = "CLOSED"]
      /\ UNCHANGED <<float, total, frozen, counts, observations, walk>>
      /\ Accepted(s, counts[s], observations[s], i, j, why)
  BY DEF FinalClose, moneyVars, evidenceVars
<1> QED BY <1>2, <1>5, <1>6

\* Final Close writes rows that follow from the snapshot and the last evidence.
LEMMA CloseKeeps ==
  ASSUME AmountsTyped, \A o \in SalesShifts : ShiftGood(o),
         NEW s \in SalesShifts, NEW i \in 1..Len(counts[s]), NEW j \in 1..Len(observations[s]),
         NEW why \in Explanations, FinalClose(s, i, j, why)
  PROVE  \A o \in SalesShifts : ShiftGood(o)'
<1>1. PICK at \in Times, id \in 1..Cardinality(SalesShifts) :
         /\ closed' = [closed EXCEPT ![s] =
               ClosureRow(id, at, frozen[s], Observed(counts[s][i], observations[s][j]), why)]
         /\ answer' = [answer EXCEPT ![s] =
               Told(ClosureRow(id, at, frozen[s], Observed(counts[s][i], observations[s][j]), why),
                        Reconciliation(s))]
  BY CloseStores
<1>2. /\ state[s] = "CLOSING" /\ state' = [state EXCEPT ![s] = "CLOSED"]
      /\ UNCHANGED <<float, total, frozen, counts, observations, walk>>
      /\ i = Len(counts[s]) /\ j = Len(observations[s])
      /\ Accepted(s, counts[s], observations[s], i, j, why)
  BY CloseStores
<1>3. Accepted(s, counts[s], observations[s], i, j, why)'
  BY <1>2 DEF Accepted, SourceVerified, InWindow
<1>4. Reconciliation(s)' = Reconciliation(s)
  BY <1>2 DEF Reconciliation, Evidence
<1>5. closed'[s] = ClosureRow(id, at, frozen[s], Observed(counts[s][i], observations[s][j]), why)
  BY <1>1 DEF AmountsTyped
<1>6. answer'[s] = Told(closed'[s], Reconciliation(s))
  BY <1>1, <1>5 DEF AmountsTyped
<1>7. Stored(s, id, at, why)'
  BY <1>2, <1>3, <1>4, <1>5, <1>6 DEF Stored
<1>8. Expected(s)' = Expected(s)
  BY <1>2 DEF Expected, ExpectedCash
<1>9. Freezable(s)' <=> Freezable(s)
  BY <1>8 DEF Freezable, InWindow
<1>10. observations[s] # <<>>
  BY DEF AmountsTyped
<1>11. Explanations' = Explanations
  BY DEF Explanations, Dimensions
<1>12. ShiftGood(s)'
  BY <1>2, <1>7, <1>8, <1>9, <1>10, <1>11 DEF ShiftGood, AmountsTyped
<1> QED BY <1>1, <1>2, <1>12, OtherShift

\* No Shift exists at first, and each is good.
LEMMA ShiftsInit == ASSUME AmountsInit PROVE \A s \in SalesShifts : ShiftGood(s)
<1>1. "QR_VOID" \in Kinds /\ "QR_PAYMENT" \in Kinds
  BY DEF Kinds
<1>2. ASSUME AmountsInit, NEW s \in SalesShifts PROVE ShiftGood(s)
  <2>1. state[s] = "ABSENT" /\ closed[s] = Nothing
    BY <1>2 DEF AmountsInit
  <2>2. total[s] = NoFacts
    BY <1>2 DEF AmountsInit
  <2>3. total[s]["QR_VOID"] = 0 /\ total[s]["QR_PAYMENT"] = 0
    <3>1. \A k \in Kinds : NoFacts[k] = 0
      BY ONLY Zenon DEF NoFacts
    <3> QED BY ONLY <1>1, <2>2, <3>1
  <2> QED BY <2>1, <2>3 DEF ShiftGood
<1> QED BY <1>2

\* Every step keeps every Shift good.
LEMMA ShiftsNext ==
  ASSUME AmountsTyped, \A s \in SalesShifts : ShiftGood(s), [AmountsNext]_amountsVars
  PROVE  \A s \in SalesShifts : ShiftGood(s)'
<1>1. ASSUME NEW s \in SalesShifts, NEW f \in Floats, OpenSalesShift(s, f) PROVE \A o \in SalesShifts : ShiftGood(o)'
  BY <1>1, OpenKeeps
<1>2. ASSUME NEW s \in SalesShifts, NEW kind \in Kinds, NEW a \in Amounts, RecordFact(s, kind, a),
             kind # "QR_VOID"
      PROVE \A o \in SalesShifts : ShiftGood(o)'
  BY <1>2, FactKeeps
<1>3. ASSUME NEW s \in SalesShifts, NEW a \in Amounts, Void(s, "QR_PAYMENT", "QR_VOID", "QR_REFUND", a)
      PROVE \A o \in SalesShifts : ShiftGood(o)'
  <2>1. "QR_VOID" \in Kinds
    BY DEF Kinds
  <2> QED BY <1>3, <2>1, FactKeeps DEF Void
<1>4. ASSUME NEW s \in SalesShifts, NEW a \in Amounts, StartReconciliation(s, a) PROVE \A o \in SalesShifts : ShiftGood(o)'
  BY <1>4, StartKeeps
<1>5. ASSUME NEW s \in SalesShifts, NEW a \in Amounts, RecordCashCount(s, a) PROVE \A o \in SalesShifts : ShiftGood(o)'
  BY <1>5, CountKeeps
<1>6. ASSUME NEW s \in SalesShifts, NEW a \in Amounts, NEW b \in Amounts, RecordQRObservation(s, a, b)
      PROVE \A o \in SalesShifts : ShiftGood(o)'
  BY <1>6, ObservationKeeps
<1>7. ASSUME NEW s \in SalesShifts, NEW i \in 1..Len(counts[s]), NEW j \in 1..Len(observations[s]),
             NEW why \in Explanations, FinalClose(s, i, j, why)
      PROVE \A o \in SalesShifts : ShiftGood(o)'
  BY <1>7, CloseKeeps
<1>8. ASSUME UNCHANGED <<state, moneyVars, evidenceVars, closedVars>>
      PROVE \A o \in SalesShifts : ShiftGood(o)'
  BY <1>8, SameShift DEF moneyVars, evidenceVars, closedVars
<1> QED
  BY <1>1, <1>2, <1>3, <1>4, <1>5, <1>6, <1>7, <1>8
  DEF AmountsNext, CashMovement, Payment, Void, Refund, StartWalk, NextPage, amountsVars, Kinds

\* What the preview shows of a CLOSING Shift is what Final Close will accept.
LEMMA PreviewFollows ==
  ASSUME AmountsTyped, NEW s \in SalesShifts, ShiftGood(s), state[s] = "CLOSING"
  PROVE  LET shown == CurrentShift(s)
             Passes(why) == Accepted(s, counts[s], observations[s], Len(counts[s]), Len(observations[s]), why)
         IN  /\ shown.canClose <=> observations[s] # <<>> /\ Passes(<<>>)
             /\ observations[s] # <<>> => \A why \in Explanations : Passes(why) => DOMAIN why = shown.rechecks
<1> DEFINE off == Nonzero(Differences(frozen[s].expected,
                       Observed(counts[s][Len(counts[s])], observations[s][Len(observations[s])])))
<1>1. SourceVerified(s) /\ frozen[s].expected = Expected(s)
  BY DEF ShiftGood, SourceVerified
<1>2. CurrentShift(s).canClose = CanClose(s) /\ CurrentShift(s).rechecks = Rechecks(s)
  BY DEF CurrentShift
<1>3. observations[s] # <<>> => Rechecks(s) = off
  BY DEF Rechecks, Last
<1>4. DOMAIN <<>> = {}
  OBVIOUS
<1>5. \A why : Accepted(s, counts[s], observations[s], Len(counts[s]), Len(observations[s]), why) => DOMAIN why = off
  BY DEF Accepted, ReasonsMatch
<1>6. off = {} => Accepted(s, counts[s], observations[s], Len(counts[s]), Len(observations[s]), <<>>)
  BY <1>1, <1>4 DEF Accepted, ReasonsMatch, Final, LookedAtTwice
<1> QED BY <1>2, <1>3, <1>4, <1>5, <1>6 DEF CanClose

\* The reasons stored at the close are those of the differences, each seen twice.
LEMMA ExplainedFollows ==
  ASSUME AmountsTyped, NEW s \in SalesShifts, ShiftGood(s), closed[s] # Nothing
  PROVE  LET off == Nonzero(Differences(Expected(s), Observed(Last(counts[s]), Last(observations[s]))))
             rows == closed[s].rows
         IN  /\ DOMAIN rows = off
             /\ \A d \in off : rows[d].reason \in ReasonsFor(d) /\ InWindow(rows[d].expected)
             /\ closed[s].approved <=> off # {}
             /\ "CASH" \in off => Len(counts[s]) >= 2
             /\ off \ {"CASH"} # {} => Len(observations[s]) >= 2
<1> DEFINE off == Nonzero(Differences(frozen[s].expected,
                       Observed(counts[s][Len(counts[s])], observations[s][Len(observations[s])])))
           seen == Observed(counts[s][Len(counts[s])], observations[s][Len(observations[s])])
<1>1. state[s] = "CLOSED" /\ frozen[s].expected = Expected(s)
  BY DEF ShiftGood
<1>2. PICK id, at, why : Stored(s, id, at, why)
  BY <1>1 DEF ShiftGood
<1>3. closed[s] = ClosureRow(id, at, frozen[s], seen, why)
  BY <1>2 DEF Stored
<1>4. closed[s].rows = Explained(frozen[s].expected, seen, why) /\ closed[s].approved = (DOMAIN why # {})
  BY <1>3 DEF ClosureRow
<1>5. Accepted(s, counts[s], observations[s], Len(counts[s]), Len(observations[s]), why)
  BY <1>2 DEF Stored
<1>6. ReasonsMatch(off, why) /\ LookedAtTwice(off, Len(counts[s]), Len(observations[s]))
  BY <1>5 DEF Accepted
<1>7. \A d \in off : InWindow(frozen[s].expected[d])
  BY <1>5 DEF Accepted
<1>8. DOMAIN why = off /\ \A d \in off : why[d] \in ReasonsFor(d)
  BY <1>6 DEF ReasonsMatch
<1>9. DOMAIN closed[s].rows = off
  BY <1>4, <1>8 DEF Explained
<1>10. \A d \in off : /\ closed[s].rows[d].reason = why[d]
                      /\ closed[s].rows[d].expected = frozen[s].expected[d]
  BY <1>4, <1>8 DEF Explained, DiscrepancyRow
<1>11. Nonzero(Differences(Expected(s), Observed(Last(counts[s]), Last(observations[s])))) = off
  BY <1>1 DEF Last
<1>12. /\ "CASH" \in off => Len(counts[s]) >= 2
       /\ off \ {"CASH"} # {} => Len(observations[s]) >= 2
  BY <1>6 DEF LookedAtTwice
<1>13. \A d \in off : closed[s].rows[d].reason \in ReasonsFor(d) /\ InWindow(closed[s].rows[d].expected)
  BY <1>7, <1>8, <1>10
<1> HIDE DEF off, seen
<1> QED BY <1>4, <1>8, <1>9, <1>11, <1>12, <1>13

\* A sequence continued by the same entry twice ends in that entry.
LEMMA LastOfTwo ==
  ASSUME NEW S, NEW q \in Seq(S), NEW e \in S
  PROVE  LET longer == q \o <<e, e>> IN Len(longer) = Len(q) + 2 /\ longer[Len(longer)] = e
<1>1. <<e, e>> \in Seq(S) /\ Len(<<e, e>>) = 2 /\ <<e, e>>[2] = e
  OBVIOUS
<1>2. Len(q \o <<e, e>>) = Len(q) + 2 /\ Len(q) \in Nat
  BY <1>1
<1>3. (q \o <<e, e>>)[Len(q) + 2] = <<e, e>>[2]
  BY <1>1, <1>2
<1> QED BY <1>1, <1>2, <1>3

\* A CLOSING Shift can be closed with one more count and the same observation twice.
LEMMA CloseStaysOpen ==
  ASSUME AmountsTyped, NEW s \in SalesShifts, ShiftGood(s), state[s] = "CLOSING",
         InWindow(frozen[s].expected["MANUAL_QR_REFUNDED"])
  PROVE  \E c, received, refunded \in Amounts, why \in Explanations :
            LET C == Append(counts[s], c)
                seen == [received |-> received, refunded |-> refunded]
                O == observations[s] \o <<seen, seen>>
            IN  Accepted(s, C, O, Len(C), Len(O), why)
<1> DEFINE e == frozen[s].expected
           c == IF e["CASH"] >= 0 THEN e["CASH"] ELSE 0
           received == e["MANUAL_QR_RECEIVED"]
           refunded == e["MANUAL_QR_REFUNDED"]
           seen == [received |-> received, refunded |-> refunded]
           C == Append(counts[s], c)
           O == observations[s] \o <<seen, seen>>
           off == IF e["CASH"] >= 0 THEN {} ELSE {"CASH"}
<1>1. MaxAmount \in Nat
  BY AmountAssumption
<1>2. SourceVerified(s) /\ e = Expected(s) /\ Freezable(s) /\ counts[s] # <<>>
  BY DEF ShiftGood, SourceVerified
<1>3. \A k \in Kinds : total[s][k] \in Nat
  BY DEF AmountsTyped
<1>4. /\ e["CASH"] = ExpectedCash(s)
      /\ received = total[s]["QR_PAYMENT"] - total[s]["QR_VOID"] /\ refunded = total[s]["QR_REFUND"]
  BY <1>2 DEF Expected
<1>5. e["CASH"] \in Int
  <2>1. float[s] \in Int
    BY DEF AmountsTyped
  <2>2. /\ total[s]["CASH_PAYMENT"] \in Nat /\ total[s]["CASH_VOID"] \in Nat
        /\ total[s]["CASH_REFUND"] \in Nat
        /\ total[s]["PAY_IN"] \in Nat /\ total[s]["PAY_OUT"] \in Nat
    BY ONLY <1>3 DEF Kinds
  <2>3. ExpectedCash(s) \in Int
    BY ONLY <2>1, <2>2 DEF ExpectedCash
  <2> QED BY ONLY <1>4, <2>3
<1>6. received \in Nat /\ refunded \in Nat
  BY <1>3, <1>4 DEF ShiftGood, Kinds
<1>7. InWindow(e["CASH"]) /\ InWindow(received)
  BY <1>2 DEF Freezable
<1>8. received \in Amounts /\ refunded \in Amounts
  BY <1>1, <1>6, <1>7 DEF InWindow, Amounts
<1>9. c \in Amounts
  BY <1>1, <1>5, <1>7 DEF InWindow, Amounts
<1>10. Len(C) = Len(counts[s]) + 1 /\ C[Len(C)] = c /\ Len(C) >= 2
  <2>1. counts[s] \in Seq(Amounts)
    BY DEF AmountsTyped
  <2>2. Len(counts[s]) \in Nat /\ Len(counts[s]) # 0
    BY <1>2, <2>1
  <2>3. Len(C) = Len(counts[s]) + 1 /\ C[Len(counts[s]) + 1] = c
    BY <1>9, <2>1
  <2> QED BY <2>2, <2>3
<1>11. Len(O) >= 2 /\ O[Len(O)] = seen
  <2>1. observations[s] \in Seq(Observations) /\ seen \in Observations
    BY <1>8 DEF AmountsTyped, Observations
  <2>2. Len(O) = Len(observations[s]) + 2 /\ O[Len(O)] = seen
    BY <2>1, LastOfTwo
  <2> QED BY <2>1, <2>2
<1>12. Nonzero(Differences(e, Observed(C[Len(C)], O[Len(O)]))) = off
  <2>1. Observed(C[Len(C)], O[Len(O)]) = [CASH |-> c, MANUAL_QR_RECEIVED |-> received, MANUAL_QR_REFUNDED |-> refunded]
    BY <1>10, <1>11 DEF Observed
  <2>2. /\ Differences(e, Observed(C[Len(C)], O[Len(O)]))["CASH"] = c - e["CASH"]
        /\ Differences(e, Observed(C[Len(C)], O[Len(O)]))["MANUAL_QR_RECEIVED"] = received - received
        /\ Differences(e, Observed(C[Len(C)], O[Len(O)]))["MANUAL_QR_REFUNDED"] = refunded - refunded
    BY <2>1 DEF Differences, Dimensions
  <2>3. c - e["CASH"] = 0 <=> e["CASH"] >= 0
    BY <1>5
  <2>4. received - received = 0 /\ refunded - refunded = 0
    BY <1>6
  <2> HIDE DEF e, c, received, refunded, C, O
  <2> QED BY <2>2, <2>3, <2>4 DEF Nonzero, Dimensions
<1>13. PICK reason \in Reasons : reason \in ReasonsFor("CASH")
  BY ReasonAssumption
<1> DEFINE why == [d \in off |-> reason]
<1>14. why \in Explanations
  <2>1. off \in SUBSET Dimensions /\ why \in [off -> Reasons]
    BY DEF Dimensions
  <2> QED BY <2>1 DEF Explanations
<1>15. ReasonsMatch(off, why)
  <2>1. \A d \in off : why[d] \in ReasonsFor(d)
    BY <1>13
  <2> QED BY <2>1 DEF ReasonsMatch
<1>16. LookedAtTwice(off, Len(C), Len(O))
  BY <1>10, <1>11 DEF LookedAtTwice
<1>17. \A d \in off : InWindow(frozen[s].expected[d])
  BY <1>7
<1> HIDE DEF c, received, refunded, C, O, why, off
<1>18. Accepted(s, C, O, Len(C), Len(O), why)
  BY <1>2, <1>12, <1>15, <1>16, <1>17 DEF Accepted, Final
<1> QED BY <1>8, <1>9, <1>14, <1>18 DEF C, O

-----------------------------------------------------------------------------
\* In a finite total order, counting what comes before gives every place once.
LEMMA Places ==
  ASSUME NEW S, IsFiniteSet(S), NEW before \in [S -> SUBSET S],
         \A s \in S : s \notin before[s],
         \A s, t \in S : s # t => s \in before[t] \/ t \in before[s],
         \A s, t \in S : s \in before[t] => before[s] \subseteq before[t]
  PROVE  /\ Cardinality(S) \in Nat
         /\ \A s \in S : Cardinality(before[s]) \in 0..(Cardinality(S) - 1)
         /\ \A s, t \in S : s \in before[t] <=> Cardinality(before[s]) < Cardinality(before[t])
         /\ \A n \in 0..(Cardinality(S) - 1) : \E s \in S : Cardinality(before[s]) = n
         /\ \A s, t \in S : Cardinality(before[s]) = Cardinality(before[t]) => s = t
<1> DEFINE N == Cardinality(S)
           place == [s \in S |-> Cardinality(before[s])]
<1>1. N \in Nat
  BY FS_CardinalityType
<1>2. \A s \in S : IsFiniteSet(before[s]) /\ Cardinality(before[s]) \in 0..(N - 1)
  <2>1. TAKE s \in S
  <2>2. IsFiniteSet(before[s]) /\ Cardinality(before[s]) <= N /\ (N = Cardinality(before[s]) => S = before[s])
    BY FS_Subset
  <2>3. Cardinality(before[s]) \in Nat
    BY <2>2, FS_CardinalityType
  <2>4. S # before[s]
    OBVIOUS
  <2> QED BY <1>1, <2>2, <2>3, <2>4
<1>3. \A s, t \in S : s \in before[t] => Cardinality(before[s]) < Cardinality(before[t])
  <2>1. SUFFICES ASSUME NEW s \in S, NEW t \in S, s \in before[t]
                 PROVE  Cardinality(before[s]) < Cardinality(before[t])
    OBVIOUS
  <2>2. before[s] \in SUBSET before[t] /\ before[s] # before[t]
    BY <2>1
  <2>3. IsFiniteSet(before[t])
    BY <1>2
  <2>4. /\ Cardinality(before[s]) <= Cardinality(before[t])
        /\ Cardinality(before[t]) = Cardinality(before[s]) => before[t] = before[s]
    BY <2>2, <2>3, FS_Subset
  <2>5. Cardinality(before[s]) \in Int /\ Cardinality(before[t]) \in Int
    BY <1>2
  <2> QED BY <2>2, <2>4, <2>5
<1>4. \A s, t \in S : Cardinality(before[s]) = Cardinality(before[t]) => s = t
  BY <1>2, <1>3
<1>5. place \in Injection(S, 0..(N - 1))
  <2>1. place \in [S -> 0..(N - 1)]
    BY <1>2
  <2>2. \A s, t \in S : place[s] = place[t] => s = t
    BY <1>4
  <2> QED BY <2>1, <2>2 DEF Injection, IsInjective
<1>6. IsFiniteSet(0..(N - 1)) /\ Cardinality(0..(N - 1)) = N
  <2> HIDE DEF N
  <2>1. IsFiniteSet(0..(N - 1)) /\ Cardinality(0..(N - 1)) = IF 0 > N - 1 THEN 0 ELSE (N - 1) - 0 + 1
    BY ONLY <1>1, FS_Interval
  <2> QED BY ONLY <1>1, <2>1
<1>7. place \in Surjection(S, 0..(N - 1))
  <2>1. PICK T : T = 0..(N - 1)
    OBVIOUS
  <2> HIDE DEF place
  <2>2. place \in Injection(S, T) /\ IsFiniteSet(T) /\ Cardinality(S) = Cardinality(T)
    BY ONLY <1>5, <1>6, <2>1
  <2> QED BY ONLY <2>1, <2>2, FS_Injection
<1>8. \A n \in 0..(N - 1) : \E s \in S : place[s] = n
  BY <1>7 DEF Surjection
<1>9. \A s, t \in S : s \in before[t] <=> Cardinality(before[s]) < Cardinality(before[t])
  <2>1. SUFFICES ASSUME NEW s \in S, NEW t \in S, Cardinality(before[s]) < Cardinality(before[t])
                 PROVE  s \in before[t]
    BY <1>3
  <2>2. Cardinality(before[s]) \in Int /\ Cardinality(before[t]) \in Int
    BY <1>2
  <2>3. CASE s = t
    BY <2>1, <2>2, <2>3
  <2>4. CASE t \in before[s]
    BY <1>3, <2>1, <2>2, <2>4
  <2> QED BY <2>3, <2>4
<1> QED BY <1>1, <1>2, <1>4, <1>8, <1>9


RowsDiffer(rows) ==
    /\ \A s \in rows : closed[s].at \in Int /\ closed[s].id \in Int
    /\ \A s, o \in rows : closed[s].id = closed[o].id => s = o

\* A page: rows of the list, in its order, each once, the newest of them, up to the limit.
LEMMA PageIsNewest ==
  ASSUME NEW rows, IsFiniteSet(rows), RowsDiffer(rows), NEW limit \in Nat \ {0}
  PROVE  LET page == FirstRows(rows, limit)
         IN  /\ page \in Seq(rows) /\ Len(page) <= limit
             /\ \A m, n \in DOMAIN page : m < n => Newer(page[m], page[n])
             /\ \A s \in rows : \/ \E n \in DOMAIN page : page[n] = s
                                \/ Len(page) = limit /\ Newer(page[Len(page)], s)
<1> DEFINE N == Cardinality(rows)
           K == IF N < limit THEN N ELSE limit
           before == [s \in rows |-> {o \in rows : Newer(o, s)}]
           page == FirstRows(rows, limit)
<1>1. \A s \in rows : Rank(rows, s) = Cardinality(before[s])
  BY DEF Rank
<1>2. page = [n \in 1..K |-> CHOOSE s \in rows : Cardinality(before[s]) = n - 1]
  <2>1. \A n : (CHOOSE s \in rows : Rank(rows, s) = n - 1) = (CHOOSE s \in rows : Cardinality(before[s]) = n - 1)
    BY <1>1
  <2>2. Cardinality(rows) = N
    OBVIOUS
  <2> HIDE DEF before
  <2> QED BY <2>1, <2>2 DEF FirstRows
<1>3. before \in [rows -> SUBSET rows]
  OBVIOUS
<1>4. \A s \in rows : s \notin before[s]
  BY DEF RowsDiffer, Newer
<1>5. \A s, t \in rows : s # t => s \in before[t] \/ t \in before[s]
  <2>1. SUFFICES ASSUME NEW s \in rows, NEW t \in rows, s # t PROVE Newer(s, t) \/ Newer(t, s)
    OBVIOUS
  <2>2. closed[s].at \in Int /\ closed[s].id \in Int /\ closed[t].at \in Int /\ closed[t].id \in Int
    BY DEF RowsDiffer
  <2>3. closed[s].id # closed[t].id
    BY <2>1 DEF RowsDiffer
  <2> QED BY <2>2, <2>3 DEF Newer
<1>6. \A s, t \in rows : s \in before[t] => before[s] \subseteq before[t]
  <2>1. SUFFICES ASSUME NEW s \in rows, NEW t \in rows, NEW o \in rows, Newer(s, t), Newer(o, s)
                 PROVE  Newer(o, t)
    OBVIOUS
  <2>2. \A r \in {s, t, o} : closed[r].at \in Int /\ closed[r].id \in Int
    BY DEF RowsDiffer
  <2> QED BY <2>1, <2>2 DEF Newer
<1>7. \A s, t \in rows : s \in before[t] <=> Newer(s, t)
  OBVIOUS
<1> HIDE DEF before
<1>8. /\ N \in Nat
      /\ \A s \in rows : Cardinality(before[s]) \in 0..(N - 1)
      /\ \A s, t \in rows : s \in before[t] <=> Cardinality(before[s]) < Cardinality(before[t])
      /\ \A n \in 0..(N - 1) : \E s \in rows : Cardinality(before[s]) = n
      /\ \A s, t \in rows : Cardinality(before[s]) = Cardinality(before[t]) => s = t
  BY <1>3, <1>4, <1>5, <1>6, Places
<1> HIDE DEF N, page
<1>9. K \in Nat /\ K <= N /\ K <= limit /\ DOMAIN page = 1..K
  BY <1>2, <1>8
<1>10. \A n \in 1..K : page[n] \in rows /\ Cardinality(before[page[n]]) = n - 1
  <2>1. TAKE n \in 1..K
  <2>2. n - 1 \in 0..(N - 1)
    BY <1>8, <1>9
  <2>3. PICK s \in rows : Cardinality(before[s]) = n - 1
    BY <1>8, <2>2
  <2>4. page[n] = CHOOSE t \in rows : Cardinality(before[t]) = n - 1
    BY <1>2
  <2> QED BY <2>3, <2>4
<1>11. page \in Seq(rows) /\ Len(page) = K
  <2>1. page = [n \in 1..K |-> page[n]]
    BY <1>2
  <2>2. page \in [1..K -> rows]
    BY <1>9, <1>10, <2>1
  <2> QED BY <1>9, <2>2
<1>12. \A m, n \in 1..K : m < n => Newer(page[m], page[n])
  BY <1>7, <1>8, <1>10
<1>13. ASSUME NEW s \in rows, ~\E n \in 1..K : page[n] = s PROVE K = limit /\ Newer(page[K], s)
  <2>1. Cardinality(before[s]) \in 0..(N - 1)
    BY <1>8
  <2>2. ~(Cardinality(before[s]) < K)
    <3>1. SUFFICES ASSUME Cardinality(before[s]) < K PROVE FALSE
      OBVIOUS
    <3> DEFINE n == Cardinality(before[s]) + 1
    <3>2. n \in 1..K /\ n - 1 = Cardinality(before[s])
      BY <1>9, <2>1, <3>1
    <3>3. page[n] \in rows /\ Cardinality(before[page[n]]) = Cardinality(before[s])
      BY <1>10, <3>2
    <3>4. page[n] = s
      BY <1>8, <3>3
    <3> QED BY <1>13, <3>2, <3>4
  <2>3. K = limit
    BY <1>8, <1>9, <2>1, <2>2
  <2>4. K \in 1..K
    BY <1>9, <2>3
  <2>5. Cardinality(before[page[K]]) < Cardinality(before[s]) /\ page[K] \in rows
    BY <1>9, <1>10, <2>1, <2>2, <2>4
  <2> QED BY <1>7, <1>8, <2>3, <2>5
<1> HIDE DEF K
<1> QED BY <1>9, <1>11, <1>12, <1>13 DEF page

Summaries == {Summary(s) : s \in Closed}

\* A walk has gone down the list from the newest of its window to its cursor: what
\* it owes and has not returned lies beyond.
WalkFits(w) ==
    /\ w = [from |-> w.from, to |-> w.to, cursor |-> w.cursor, seen |-> w.seen, ended |-> w.ended, due |-> w.due]
    /\ w.ended \in BOOLEAN
    /\ w.seen \in Seq(Summaries)
    /\ \A m, n \in DOMAIN w.seen : m < n => Newer(w.seen[m].shift, w.seen[n].shift)
    /\ ~w.ended => w.cursor = IF w.seen = <<>> THEN Nothing ELSE Position(w.seen[Len(w.seen)].shift)
    /\ w.due \subseteq Closed
    /\ \A s \in w.due : InRange(s, w.from, w.to)
    /\ \A s \in w.due :
          \/ \E n \in DOMAIN w.seen : w.seen[n].shift = s
          \/ ~w.ended /\ (w.cursor = Nothing \/ After(w.cursor, s))
WalkGood == walk # Nothing => WalkFits(walk)

IdsDiffer == RowsDiffer(Closed)

\* A sequence over a set is one over any larger set.
LEMMA SeqWider == ASSUME NEW S, NEW T, S \subseteq T, NEW q \in Seq(S) PROVE q \in Seq(T)
  OBVIOUS

\* Only Final Close writes a closure or answers one.
LEMMA OnlyCloseCloses ==
  ASSUME [AmountsNext]_amountsVars,
         ~\E s \in SalesShifts : \E i \in 1..Len(counts[s]), j \in 1..Len(observations[s]), why \in Explanations :
             FinalClose(s, i, j, why)
  PROVE  closed' = closed /\ answer' = answer
<1>1. \A s, f : OpenSalesShift(s, f) => closed' = closed /\ answer' = answer
  BY DEF OpenSalesShift, closedVars
<1>2. \A s, kind, a : RecordFact(s, kind, a) => closed' = closed /\ answer' = answer
  BY DEF RecordFact, closedVars
<1>3. \A s, a, b : \/ StartReconciliation(s, a) \/ RecordCashCount(s, a) \/ RecordQRObservation(s, a, b)
                   => closed' = closed /\ answer' = answer
  BY DEF StartReconciliation, RecordCashCount, RecordQRObservation, closedVars
<1>4. \A from, to : StartWalk(from, to) => closed' = closed /\ answer' = answer
  BY DEF StartWalk, closedVars
<1>5. \A limit : NextPage(limit) => closed' = closed /\ answer' = answer
  BY DEF NextPage, closedVars
<1>6. UNCHANGED amountsVars => closed' = closed /\ answer' = answer
  BY DEF amountsVars, closedVars
<1> QED BY <1>1, <1>2, <1>3, <1>4, <1>5, <1>6 DEF AmountsNext, CashMovement, Payment, Void, Refund

\* What has been closed is never touched again.
LEMMA ClosedStays ==
  ASSUME AmountsTyped, \A s \in SalesShifts : ShiftGood(s), [AmountsNext]_amountsVars
  PROVE  \A s \in Closed : closed'[s] = closed[s] /\ answer'[s] = answer[s]
<1>1. ASSUME NEW s \in SalesShifts, NEW i \in 1..Len(counts[s]), NEW j \in 1..Len(observations[s]),
             NEW why \in Explanations, FinalClose(s, i, j, why)
      PROVE \A o \in Closed : closed'[o] = closed[o] /\ answer'[o] = answer[o]
  <2>1. s \notin Closed
    BY <1>1 DEF ShiftGood, Closed, FinalClose
  <2>2. \A o \in Closed : o \in SalesShifts \ {s}
    BY <2>1 DEF Closed
  <2>3. PICK at \in Times, id \in 1..Cardinality(SalesShifts) :
           /\ closed' = [closed EXCEPT ![s] =
                 ClosureRow(id, at, frozen[s], Observed(counts[s][i], observations[s][j]), why)]
           /\ answer' = [answer EXCEPT ![s] =
                 Told(ClosureRow(id, at, frozen[s], Observed(counts[s][i], observations[s][j]), why),
                          Reconciliation(s))]
    BY <1>1, CloseStores
  <2> QED BY <2>2, <2>3 DEF AmountsTyped
<1> QED BY <1>1, OnlyCloseCloses

\* No two closed Shifts share an id at first: there are none.
LEMMA IdsInit == ASSUME AmountsInit PROVE IdsDiffer
  BY DEF AmountsInit, IdsDiffer, RowsDiffer, Closed

\* A Shift that closes gets an id no other has, so ids keep differing.
LEMMA IdsNext ==
  ASSUME AmountsTyped, \A s \in SalesShifts : ShiftGood(s), IdsDiffer, [AmountsNext]_amountsVars
  PROVE  IdsDiffer'
<1>0. Times \subseteq Nat
  BY TimeAssumption
<1>1. ASSUME NEW s \in SalesShifts, NEW i \in 1..Len(counts[s]), NEW j \in 1..Len(observations[s]),
             NEW why \in Explanations, FinalClose(s, i, j, why)
      PROVE IdsDiffer'
  <2>1. PICK at \in Times, id \in 1..Cardinality(SalesShifts) :
           /\ \A o \in Closed : closed[o].at <= at /\ closed[o].id # id
           /\ closed' = [closed EXCEPT ![s] =
                 ClosureRow(id, at, frozen[s], Observed(counts[s][i], observations[s][j]), why)]
    BY <1>1, CloseStores
  <2>2. closed'[s].at \in Int /\ closed'[s].id \in Int /\ closed'[s].id = id
    BY <1>0, <2>1 DEF AmountsTyped, ClosureRow
  <2>3. \A o \in Closed : closed'[o] = closed[o]
    BY <1>1, ClosedStays
  <2>4. \A o \in Closed' : o = s \/ o \in Closed
    BY <2>1 DEF Closed, AmountsTyped
  <2> QED BY <2>1, <2>2, <2>3, <2>4 DEF IdsDiffer, RowsDiffer
<1>3. UNCHANGED closed => IdsDiffer'
  BY DEF IdsDiffer, RowsDiffer, Closed, Nothing
<1> QED BY <1>1, <1>3, OnlyCloseCloses

\* A walk looks at closures only, which stay as they are.
LEMMA WalkStays ==
  ASSUME NEW w, WalkFits(w), \A s \in Closed : closed'[s] = closed[s]
  PROVE  WalkFits(w)'
<1>2. Closed \subseteq Closed'
  BY DEF Closed, Nothing
<1>3. \A s \in Closed : Summary(s)' = Summary(s) /\ Position(s)' = Position(s)
  BY DEF Summary, Position, FlaggedInList
<1>4. \A s, o \in Closed : Newer(s, o)' <=> Newer(s, o)
  BY DEF Newer
<1>5. \A s \in Closed : /\ InRange(s, w.from, w.to)' <=> InRange(s, w.from, w.to)
                        /\ After(w.cursor, s)' <=> After(w.cursor, s)
  BY DEF InRange, After
<1>6. w.seen \in Seq(Summaries)
  BY DEF WalkFits
<1>7. \A x \in Summaries : x.shift \in Closed
  BY DEF Summaries, Summary
<1>8. Summaries \subseteq Summaries'
  BY <1>2, <1>3 DEF Summaries
<1>9. w.seen \in Seq(Summaries')
  BY <1>6, <1>8, SeqWider
<1>10. \A n \in DOMAIN w.seen : w.seen[n].shift \in Closed
  BY <1>6, <1>7
<1>11. w.seen = <<>> \/ w.seen[Len(w.seen)].shift \in Closed
  BY <1>6, <1>10
<1>12. \A m, n \in DOMAIN w.seen : m < n => Newer(w.seen[m].shift, w.seen[n].shift)'
  BY <1>4, <1>10 DEF WalkFits
<1>13. ~w.ended => w.cursor = IF w.seen = <<>> THEN Nothing ELSE Position(w.seen[Len(w.seen)].shift)'
  BY <1>3, <1>11 DEF WalkFits
<1>14. /\ w.due \subseteq Closed'
       /\ \A s \in w.due : InRange(s, w.from, w.to)'
       /\ \A s \in w.due :
             \/ \E n \in DOMAIN w.seen : w.seen[n].shift = s
             \/ ~w.ended /\ (w.cursor = Nothing \/ After(w.cursor, s)')
  BY <1>2, <1>5 DEF WalkFits
<1> QED BY <1>9, <1>12, <1>13, <1>14 DEF WalkFits, Nothing

\* No walk of the history has begun.
LEMMA WalkInit == ASSUME AmountsInit PROVE WalkGood
  BY DEF AmountsInit, WalkGood

\* Finitely many Shifts are closed.
LEMMA ClosedFinite == IsFiniteSet(Closed)
<1>1. IsFiniteSet(SalesShifts)
  BY ShiftAssumption
<1>2. Closed \in SUBSET SalesShifts
  BY DEF Closed
<1> QED BY <1>1, <1>2, FS_Subset

\* A walk that begins has read nothing and has all its window before it.
LEMMA StartWalkGood == ASSUME NEW from, NEW to, StartWalk(from, to) PROVE WalkGood'
<1> DEFINE w == [from |-> from, to |-> to, cursor |-> Nothing, seen |-> <<>>, ended |-> FALSE,
                 due |-> {s \in Closed : InRange(s, from, to)}]
<1>1. closed' = closed /\ walk' = w
  BY DEF StartWalk, closedVars
<1>2. WalkFits(w)
  BY DEF WalkFits
<1>3. \A s \in Closed : closed'[s] = closed[s]
  BY <1>1
<1>4. PICK v : v = w
  OBVIOUS
<1>5. WalkFits(v)'
  BY <1>2, <1>3, <1>4, WalkStays
<1>6. walk' = v
  BY <1>1, <1>4
<1> HIDE DEF w
<1>7. WalkFits(walk)'
  BY <1>5, <1>6
<1> QED BY <1>7 DEF WalkGood

\* What a walk that is not over returns next, and where that leaves it.
LEMMA PageFits ==
  ASSUME IdsDiffer, NEW w, WalkFits(w), ~w.ended, NEW limit \in Nat \ {0},
         NEW page, page = Page(w.from, w.to, w.cursor, limit)
  PROVE  WalkFits([w EXCEPT
                      !.seen = @ \o [n \in DOMAIN page |-> Summary(page[n])],
                      !.ended = Len(page) < limit,
                      !.cursor = IF Len(page) < limit THEN @ ELSE Position(Last(page))])
<1> DEFINE rows == Rest(w.from, w.to, w.cursor)
           more == [n \in DOMAIN page |-> Summary(page[n])]
           seen == w.seen \o more
           ended == Len(page) < limit
           cursor == IF ended THEN w.cursor ELSE Position(Last(page))
           v == [from |-> w.from, to |-> w.to, cursor |-> cursor, seen |-> seen, ended |-> ended, due |-> w.due]
<1>1. rows \in SUBSET Closed
  BY DEF Rest
<1>2. IsFiniteSet(rows) /\ RowsDiffer(rows)
  BY <1>1, ClosedFinite, FS_Subset DEF IdsDiffer, RowsDiffer
<1>3. page = FirstRows(rows, limit)
  BY DEF Page
<1> HIDE DEF rows
<1>4. /\ page \in Seq(rows) /\ Len(page) <= limit
      /\ \A m, n \in DOMAIN page : m < n => Newer(page[m], page[n])
      /\ \A s \in rows : \/ \E n \in DOMAIN page : page[n] = s
                         \/ Len(page) = limit /\ Newer(page[Len(page)], s)
  BY <1>2, <1>3, PageIsNewest
<1>5. more \in Seq(Summaries) /\ Len(more) = Len(page) /\ DOMAIN more = 1..Len(page)
  <2>1. DOMAIN page = 1..Len(page) /\ Len(page) \in Nat
    BY <1>4
  <2>2. \A n \in 1..Len(page) : Summary(page[n]) \in Summaries
    BY <1>1, <1>4 DEF Summaries
  <2>3. more \in [1..Len(page) -> Summaries]
    BY <2>1, <2>2
  <2> QED BY <2>1, <2>3
<1>6. w.seen \in Seq(Summaries)
  BY DEF WalkFits
<1>7. \A n \in 1..Len(page) : more[n].shift = page[n] /\ page[n] \in rows
  <2>1. \A s \in rows : Summary(s).shift = s
    BY DEF Summary
  <2>2. \A n \in 1..Len(page) : page[n] \in rows
    BY ONLY <1>4
  <2>3. \A n \in 1..Len(page) : more[n] = Summary(page[n])
    <3>1. DOMAIN page = 1..Len(page)
      BY ONLY <1>4
    <3> QED BY ONLY <3>1
  <2> QED BY ONLY <2>1, <2>2, <2>3
<1> HIDE DEF more
<1>8. /\ seen \in Seq(Summaries) /\ Len(seen) = Len(w.seen) + Len(page)
      /\ \A n \in 1..Len(w.seen) : n \in 1..Len(seen) /\ seen[n] = w.seen[n]
      /\ \A n \in 1..Len(page) : Len(w.seen) + n \in 1..Len(seen) /\ seen[Len(w.seen) + n] = more[n]
      /\ Len(w.seen) \in Nat /\ Len(page) \in Nat
  <2>1. PICK p : p = w.seen
    OBVIOUS
  <2>2. p \in Seq(Summaries)
    BY <1>6, <2>1
  <2>3. /\ p \o more \in Seq(Summaries) /\ Len(p \o more) = Len(p) + Len(more)
        /\ \A n \in 1..Len(p) : n \in 1..(Len(p) + Len(more)) /\ (p \o more)[n] = p[n]
        /\ \A n \in 1..Len(more) : Len(p) + n \in 1..(Len(p) + Len(more)) /\ (p \o more)[Len(p) + n] = more[n]
        /\ Len(p) \in Nat /\ Len(more) \in Nat
    <3>1. PICK q : q = more
      OBVIOUS
    <3>2. q \in Seq(Summaries)
      BY <1>5, <3>1
    <3>3. /\ p \o q \in Seq(Summaries) /\ Len(p \o q) = Len(p) + Len(q)
          /\ \A n \in 1..Len(p) : n \in 1..(Len(p) + Len(q)) /\ (p \o q)[n] = p[n]
          /\ \A n \in 1..Len(q) : Len(p) + n \in 1..(Len(p) + Len(q)) /\ (p \o q)[Len(p) + n] = q[n]
          /\ Len(p) \in Nat /\ Len(q) \in Nat
      BY <2>2, <3>2, JoinParts
    <3> QED BY <3>1, <3>3
  <2> QED BY <1>5, <2>1, <2>3
<1>9. \A n \in 1..Len(seen) : n \notin 1..Len(w.seen) => n - Len(w.seen) \in 1..Len(page) /\ seen[n] = more[n - Len(w.seen)]
  BY <1>5, <1>6, JoinParts
<1>10. DOMAIN seen = 1..Len(seen) /\ DOMAIN w.seen = 1..Len(w.seen)
  BY <1>5, <1>6, JoinParts
<1> HIDE DEF seen
<1>11. \A n \in 1..Len(w.seen) : w.seen[n].shift \in Closed
  BY <1>6 DEF Summaries, Summary
\* The cursor stands where the last page ended, and the next one starts beyond it.
<1>12. \A m \in 1..Len(w.seen), n \in 1..Len(page) : Newer(w.seen[m].shift, page[n])
  <2>1. SUFFICES ASSUME NEW m \in 1..Len(w.seen), NEW n \in 1..Len(page)
                 PROVE  Newer(w.seen[m].shift, page[n])
    OBVIOUS
  <2> DEFINE k == Len(w.seen)
             last == w.seen[k].shift
  <2>2. k \in 1..k /\ w.seen # <<>>
    BY <1>6, <2>1
  <2>3. w.cursor = Position(last)
    BY <2>2 DEF WalkFits
  <2>4. w.cursor # Nothing
    <3>1. "at" \in DOMAIN Position(last) /\ "at" \notin DOMAIN Nothing
      BY DEF Position, Nothing
    <3> QED BY <2>3, <3>1
  <2>5. After(w.cursor, page[n]) /\ page[n] \in Closed
    BY <1>1, <1>7, <2>1, <2>4 DEF Rest, rows
  <2>6. last \in Closed /\ w.seen[m].shift \in Closed
    BY <1>11, <2>1, <2>2
  <2>7. \A s \in Closed : closed[s].at \in Int /\ closed[s].id \in Int
    BY DEF IdsDiffer, RowsDiffer
  <2>8. Newer(last, page[n])
    <3> HIDE DEF last
    <3>1. w.cursor.at = closed[last].at /\ w.cursor.id = closed[last].id
      BY <2>3 DEF Position
    <3>2. /\ closed[last].at \in Int /\ closed[last].id \in Int
          /\ closed[page[n]].at \in Int /\ closed[page[n]].id \in Int
      BY <2>5, <2>6, <2>7
    <3>3. \/ closed[page[n]].at < closed[last].at
          \/ closed[page[n]].at = closed[last].at /\ closed[page[n]].id < closed[last].id
      BY <2>5, <3>1 DEF After
    <3> QED BY <3>2, <3>3 DEF Newer
  <2>9. CASE m = k
    BY <2>8, <2>9
  <2>10. CASE m # k
    <3>1. m < k /\ m \in DOMAIN w.seen /\ k \in DOMAIN w.seen
      BY <1>8, <1>10, <2>1, <2>2, <2>10
    <3>2. Newer(w.seen[m].shift, last)
      BY <3>1 DEF WalkFits
    <3> HIDE DEF last, k
    <3>3. page[n] \in Closed /\ last \in Closed /\ w.seen[m].shift \in Closed
      BY ONLY <2>5, <2>6, <1>1
    <3> DEFINE at(x) == closed[x].at
               id(x) == closed[x].id
               first == w.seen[m].shift
    <3>4. /\ at(page[n]) \in Int /\ id(page[n]) \in Int /\ at(last) \in Int /\ id(last) \in Int
          /\ at(first) \in Int /\ id(first) \in Int
      BY ONLY <2>7, <3>3
    <3>5. /\ at(first) > at(last) \/ (at(first) = at(last) /\ id(first) > id(last))
          /\ at(last) > at(page[n]) \/ (at(last) = at(page[n]) /\ id(last) > id(page[n]))
      BY ONLY <2>8, <3>2 DEF Newer
    <3> HIDE DEF at, id, first
    <3>6. at(first) > at(page[n]) \/ (at(first) = at(page[n]) /\ id(first) > id(page[n]))
      BY ONLY <3>4, <3>5
    <3> QED BY ONLY <3>6 DEF Newer, at, id, first
  <2> QED BY <2>9, <2>10
<1>13. \A m, n \in DOMAIN seen : m < n => Newer(seen[m].shift, seen[n].shift)
  <2>1. SUFFICES ASSUME NEW m \in 1..Len(seen), NEW n \in 1..Len(seen), m < n
                 PROVE  Newer(seen[m].shift, seen[n].shift)
    BY <1>10
  <2> DEFINE k == Len(w.seen)
  <2>2. CASE n \in 1..k
    <3>1. m \in 1..k
      BY <1>8, <2>1, <2>2
    <3>2. Newer(w.seen[m].shift, w.seen[n].shift)
      BY <1>10, <2>1, <2>2, <3>1 DEF WalkFits
    <3> QED BY <1>8, <2>2, <3>1, <3>2
  <2>3. CASE m \in 1..k /\ n \notin 1..k
    <3>1. n - k \in 1..Len(page) /\ seen[n] = more[n - k]
      BY <1>9, <2>3
    <3>2. seen[n].shift = page[n - k] /\ seen[m] = w.seen[m]
      BY <1>7, <1>8, <2>3, <3>1
    <3> QED BY <1>12, <2>3, <3>1, <3>2
  <2>4. CASE m \notin 1..k /\ n \notin 1..k
    <3>1. n - k \in 1..Len(page) /\ seen[n] = more[n - k] /\ m - k \in 1..Len(page) /\ seen[m] = more[m - k]
      BY <1>9, <2>4
    <3>2. seen[n].shift = page[n - k] /\ seen[m].shift = page[m - k]
      BY <1>7, <3>1
    <3>3. m - k < n - k /\ m - k \in DOMAIN page /\ n - k \in DOMAIN page
      BY <1>4, <1>8, <2>1, <3>1
    <3> QED BY <1>4, <3>2, <3>3
  <2> QED BY <2>2, <2>3, <2>4
<1>14. ~ended => cursor = IF seen = <<>> THEN Nothing ELSE Position(seen[Len(seen)].shift)
  <2>1. SUFFICES ASSUME ~ended PROVE seen # <<>> /\ seen[Len(seen)].shift = page[Len(page)]
    BY DEF Last
  <2>2. Len(page) = limit
    BY <1>4, <1>8, <2>1
  <2>3. Len(page) \in 1..Len(page)
    BY <1>8, <2>2
  <2>4. seen[Len(seen)] = more[Len(page)]
    BY <1>8, <2>3
  <2>5. seen # <<>>
    <3>1. Len(seen) # 0
      BY <1>8, <2>2
    <3> QED BY <1>8, <3>1
  <2> QED BY <1>7, <2>3, <2>4, <2>5
<1>15. ASSUME NEW s \in w.due
       PROVE  \/ \E n \in DOMAIN seen : seen[n].shift = s
              \/ ~ended /\ (cursor = Nothing \/ After(cursor, s))
  <2>1. CASE \E n \in DOMAIN w.seen : w.seen[n].shift = s
    <3>1. PICK n \in 1..Len(w.seen) : w.seen[n].shift = s
      BY <1>10, <2>1
    <3>2. n \in 1..Len(seen) /\ seen[n] = w.seen[n]
      BY <1>8
    <3> QED BY <1>10, <3>1, <3>2
  <2>2. CASE ~\E n \in DOMAIN w.seen : w.seen[n].shift = s
    <3>1. s \in rows
      BY <2>2 DEF WalkFits, rows, Rest
    <3>2. CASE \E n \in DOMAIN page : page[n] = s
      <4>1. PICK n \in 1..Len(page) : page[n] = s
        BY <1>4, <3>2
      <4>2. seen[Len(w.seen) + n].shift = s /\ Len(w.seen) + n \in 1..Len(seen)
        BY <1>7, <1>8, <4>1
      <4> QED BY <1>10, <4>2
    <3>3. CASE Len(page) = limit /\ Newer(page[Len(page)], s)
      <4>1. ~ended /\ cursor = Position(page[Len(page)])
        BY <3>3 DEF Last
      <4>2. After(Position(page[Len(page)]), s)
        BY <3>3 DEF After, Newer, Position
      <4> QED BY <4>1, <4>2
    <3> QED BY <1>4, <3>1, <3>2, <3>3
  <2> QED BY <2>1, <2>2
<1>16. [w EXCEPT !.seen = @ \o [n \in DOMAIN page |-> Summary(page[n])],
                 !.ended = Len(page) < limit,
                 !.cursor = IF Len(page) < limit THEN @ ELSE Position(Last(page))] = v
  <2>1. PICK a, b, c, d, e, f :
           /\ w = [from |-> a, to |-> b, cursor |-> c, seen |-> d, ended |-> e, due |-> f]
           /\ w.from = a /\ w.to = b /\ w.cursor = c /\ w.seen = d /\ w.ended = e /\ w.due = f
    BY DEF WalkFits
  <2> HIDE DEF ended, cursor
  <2> DEFINE r1 == [from |-> a, to |-> b, cursor |-> c, seen |-> seen, ended |-> e, due |-> f]
             r2 == [from |-> a, to |-> b, cursor |-> c, seen |-> seen, ended |-> ended, due |-> f]
             r3 == [from |-> a, to |-> b, cursor |-> cursor, seen |-> seen, ended |-> ended, due |-> f]
  <2>2. [w EXCEPT !.seen = seen] = r1
    BY <2>1
  <2>3. [r1 EXCEPT !.ended = ended] = r2
    OBVIOUS
  <2>4. [r2 EXCEPT !.cursor = cursor] = r3
    OBVIOUS
  <2>5. [w EXCEPT !.seen = seen, !.ended = ended, !.cursor = cursor] = r3
    <3> HIDE DEF r1, r2, r3
    <3> QED BY <2>2, <2>3, <2>4
  <2>6. [w EXCEPT !.seen = seen, !.ended = ended, !.cursor = cursor] = v
    BY <2>1, <2>5
  <2> QED BY <2>6 DEF seen, more, ended, cursor
<1>17. w.due \subseteq Closed /\ \A s \in w.due : InRange(s, w.from, w.to)
  BY DEF WalkFits
<1> HIDE DEF cursor, ended
<1>18. ended \in BOOLEAN
  BY DEF ended
<1>19. WalkFits(v)
  BY <1>8, <1>13, <1>14, <1>15, <1>17, <1>18 DEF WalkFits
<1> QED BY <1>16, <1>19

\* Every step keeps the walk good: a page takes the first of what is left.
LEMMA WalkNext ==
  ASSUME AmountsTyped, \A s \in SalesShifts : ShiftGood(s), IdsDiffer, WalkGood, [AmountsNext]_amountsVars
  PROVE  WalkGood'
<1>1. ASSUME walk' = walk PROVE WalkGood'
  <2>1. CASE walk = Nothing
    BY <1>1, <2>1 DEF WalkGood, Nothing
  <2>2. CASE walk # Nothing
    <3>1. PICK w : w = walk
      OBVIOUS
    <3>2. WalkFits(w)
      BY <2>2, <3>1 DEF WalkGood
    <3>3. \A s \in Closed : closed'[s] = closed[s]
      BY ClosedStays
    <3>4. WalkFits(w)'
      BY <3>2, <3>3, WalkStays
    <3>5. WalkFits(walk)'
      BY <1>1, <3>1, <3>4
    <3> QED BY <3>5 DEF WalkGood
  <2> QED BY <2>1, <2>2
<1>2. ASSUME NEW from, NEW to, StartWalk(from, to) PROVE WalkGood'
  BY <1>2, StartWalkGood
<1>3. ASSUME NEW limit \in PageSizes, NextPage(limit) PROVE WalkGood'
  <2>1. PICK w : w = walk
    OBVIOUS
  <2>2. PICK page : page = Page(w.from, w.to, w.cursor, limit)
    OBVIOUS
  <2> DEFINE turned == [w EXCEPT
                          !.seen = @ \o [n \in DOMAIN page |-> Summary(page[n])],
                          !.ended = Len(page) < limit,
                          !.cursor = IF Len(page) < limit THEN @ ELSE Position(Last(page))]
  <2>3. walk # Nothing /\ ~w.ended /\ walk' = turned
    BY <1>3, <2>1, <2>2 DEF NextPage
  <2>4. limit \in Nat \ {0}
    BY TimeAssumption
  <2>5. WalkFits(w)
    BY <2>1, <2>3 DEF WalkGood
  <2>6. WalkFits(turned)
    BY <2>2, <2>3, <2>4, <2>5, PageFits
  <2> HIDE DEF turned
  <2>7. PICK v : v = turned
    OBVIOUS
  <2>8. WalkFits(v)
    BY <2>6, <2>7
  <2>9. \A s \in Closed : closed'[s] = closed[s]
    BY ClosedStays
  <2>10. WalkFits(v)'
    BY <2>8, <2>9, WalkStays
  <2>11. WalkFits(walk)'
    BY <2>3, <2>7, <2>10
  <2> QED BY <2>11 DEF WalkGood
<1>4. \A s, f : OpenSalesShift(s, f) => walk' = walk
  BY DEF OpenSalesShift
<1>5. \A s, kind, a : RecordFact(s, kind, a) => walk' = walk
  BY DEF RecordFact
<1>6. \A s, a, b : \/ StartReconciliation(s, a) \/ RecordCashCount(s, a) \/ RecordQRObservation(s, a, b)
                   => walk' = walk
  BY DEF StartReconciliation, RecordCashCount, RecordQRObservation
<1>7. \A s, i, j, why : FinalClose(s, i, j, why) => walk' = walk
  BY DEF FinalClose
<1>8. UNCHANGED amountsVars => walk' = walk
  BY DEF amountsVars
<1> QED
  BY <1>1, <1>2, <1>3, <1>4, <1>5, <1>6, <1>7, <1>8
  DEF AmountsNext, CashMovement, Payment, Void, Refund

\* The history shows each closed Shift once and as it was answered.
LEMMA HistoryFollows ==
  ASSUME AmountsTyped, \A s \in SalesShifts : ShiftGood(s), WalkGood
  PROVE  ClosedAsAnswered /\ HistoryComplete
<1>1. ASSUME NEW s \in Closed PROVE /\ Detail(s) = answer[s]
                                       /\ answer[s].flagged = FlaggedInList(s)
                                       /\ answer[s].closure = closed[s]
  <2>1. s \in SalesShifts /\ state[s] = "CLOSED"
    BY DEF Closed, ShiftGood
  <2>2. answer[s] = Told(closed[s], Reconciliation(s))
    BY <2>1 DEF ShiftGood, Stored
  <2>3. answer[s] = [closure |-> closed[s], flagged |-> Nonzero(closed[s].difference) # {}, evidence |-> Evidence(s)]
    BY <2>2 DEF Told, Reconciliation
  <2>4. Flagged(s) = (Nonzero(closed[s].difference) # {})
    BY DEF Flagged, Nonzero
  <2>5. FlaggedInList(s) = (Nonzero(closed[s].difference) # {})
    BY DEF FlaggedInList, Nonzero, Dimensions
  <2> QED BY <2>3, <2>4, <2>5 DEF Detail
<1>2. ASSUME walk # Nothing, NEW n \in DOMAIN walk.seen
      PROVE  /\ walk.seen[n].flagged = answer[walk.seen[n].shift].flagged
             /\ walk.seen[n].at = answer[walk.seen[n].shift].closure.at
             /\ walk.seen[n].difference = answer[walk.seen[n].shift].closure.difference
  <2>1. walk.seen \in Seq(Summaries)
    BY <1>2 DEF WalkGood, WalkFits
  <2>2. walk.seen[n] \in Summaries
    BY <2>1
  <2>3. PICK s \in Closed : walk.seen[n] = Summary(s)
    BY <2>2 DEF Summaries
  <2>4. /\ walk.seen[n].shift = s /\ walk.seen[n].at = closed[s].at
        /\ walk.seen[n].difference = closed[s].difference /\ walk.seen[n].flagged = FlaggedInList(s)
    BY <2>3 DEF Summary
  <2> QED BY <1>1, <2>4
<1>3. ClosedAsAnswered
  BY <1>1, <1>2 DEF ClosedAsAnswered
<1>4. HistoryComplete
  BY DEF HistoryComplete, WalkGood, WalkFits
<1> QED BY <1>3, <1>4

AmountsGood == AmountsTyped /\ (\A s \in SalesShifts : ShiftGood(s)) /\ IdsDiffer /\ WalkGood

\* The invariant of the amounts holds in every behaviour.
LEMMA AmountsHold == AmountsSpec => []AmountsGood
<1>1. AmountsInit => AmountsGood
  BY TypedInit, ShiftsInit, IdsInit, WalkInit DEF AmountsGood
<1>2. AmountsGood /\ [AmountsNext]_amountsVars => AmountsGood'
  <2>1. SUFFICES ASSUME AmountsGood, [AmountsNext]_amountsVars PROVE AmountsGood'
    OBVIOUS
  <2>2. AmountsTyped' /\ (\A s \in SalesShifts : ShiftGood(s)')
    BY <2>1, TypedNext, ShiftsNext DEF AmountsGood
  <2>3. IdsDiffer' /\ WalkGood'
    BY <2>1, IdsNext, WalkNext DEF AmountsGood
  <2> QED BY <2>2, <2>3 DEF AmountsGood
<1> QED BY <1>1, <1>2, PTL DEF AmountsSpec

\* While a Shift is CLOSING, for any amounts, ledgers and reasons: what its Cashier is
\* shown is what Final Close will say of the latest attempts.
THEOREM PreviewTruthful == AmountsSpec => []PreviewTellsTheTruth
<1>1. AmountsGood => PreviewTellsTheTruth
  BY PreviewFollows DEF AmountsGood, PreviewTellsTheTruth
<1> QED BY <1>1, AmountsHold, PTL

\* The money of a closed Shift differs from what was counted and observed exactly where
\* a reason of the right kind is on file, with a second look and a Manager's approval.
THEOREM EveryDifferenceExplained == AmountsSpec => []DifferencesExplained
<1>1. AmountsGood => DifferencesExplained
  BY ExplainedFollows DEF AmountsGood, DifferencesExplained, Closed
<1> QED BY <1>1, AmountsHold, PTL

\* List and detail of a closed Shift are, for ever, what its closer was told.
THEOREM ReadAsAnswered == AmountsSpec => []ClosedAsAnswered
<1>1. AmountsGood => ClosedAsAnswered
  BY HistoryFollows DEF AmountsGood
<1> QED BY <1>1, AmountsHold, PTL

\* Any number of closures, sharing instants or not, any page sizes, closes in between:
\* a walk that has ended returned all it owed, once, newest first.
THEOREM WalkIsComplete == AmountsSpec => []HistoryComplete
<1>1. AmountsGood => HistoryComplete
  BY HistoryFollows DEF AmountsGood
<1> QED BY <1>1, AmountsHold, PTL

\* From every CLOSING state some further attempts let a Final Close through, unless the
\* refunds by QR have outgrown the amounts the ledgers take.
THEOREM AlwaysClosable == AmountsSpec => []NeverStranded
<1>1. AmountsGood => NeverStranded
  BY CloseStaysOpen DEF AmountsGood, NeverStranded
<1> QED BY <1>1, AmountsHold, PTL
=============================================================================
