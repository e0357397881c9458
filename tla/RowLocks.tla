------------------------------ MODULE RowLocks ------------------------------
(***************************************************************************)
(* The commands of the cafe as the row locks they take, one at a time, and *)
(* the three things that only the locks keep: Service Numbers are unique,  *)
(* an ended Session holds no Table, an enabled Manager remains.            *)
(*                                                                         *)
(* A command is the set of row locks it has still to take (todo), the set  *)
(* it holds to its commit, and the order its statements take them in.  A   *)
(* row that is already locked adds what the next statement will want: what *)
(* SetSessionTables locks depends on the assignments it finds under the    *)
(* Session's lock.  A lock that conflicts with a held one makes the        *)
(* command wait; waiting in a circle ends in PostgreSQL's 40P01, an Abort. *)
(*                                                                         *)
(* The claim and the actor's own rows are CommandPipeline's; what the      *)
(* other commands write is SalesShift's, CheckLedger's and Preparation's:  *)
(* here they matter for the rows they hold.  The Sales Shift is OPEN       *)
(* throughout: Start Reconciliation refuses while a Session is ACTIVE.     *)
(***************************************************************************)
EXTENDS Integers, FiniteSets, Sequences

CONSTANTS
    Txns,        \* command transactions in flight at once
    Sessions, Checks, Tables, Staff,   \* ids of the rows, in id order
    DineIn,      \* the Sessions started at Tables; the others are Takeaway
    SessionOf,   \* Check -> the Session it belongs to
    DraftRowFirst,  \* which row FOR UPDATE OF d, s locks first: SQL leaves it open
    Approvers    \* bound: the staff whose PIN is ever asked for

ASSUME IdAssumption ==
    /\ Sessions \subseteq Nat /\ Checks \subseteq Nat
    /\ Tables \subseteq Nat /\ Staff \subseteq Nat
ASSUME StaffAssumption == IsFiniteSet(Staff) /\ Approvers \subseteq Staff
ASSUME SessionOfAssumption == SessionOf \in [Checks -> Sessions]

VARIABLES
    session,     \* Session -> its state, Service Number and Tables held
    checks,      \* the Checks there are, in creation order: ids are random UUIDs
    available,   \* the Tables marked available
    managers,    \* the enabled staff that have the MANAGER role
    txn          \* transaction -> its command, locks and reads

vars == <<session, checks, available, managers, txn>>

SessionRow ==
    [state : {"ABSENT", "ACTIVE", "ENDED"}, number : Nat, tables : SUBSET Tables]
NoRow == [state |-> "ABSENT", number |-> 0, tables |-> {}]

-----------------------------------------------------------------------------
(* Rows and locks.  The Shift, the advisory lock of its Service Numbers and *)
(* the one of the Manager invariant are single: their id is 0.  A unit row  *)
(* stands for the preparation units of a Session, with its id.              *)

Request == [kind : {"managers", "identity", "roles", "check", "session", "shift",
                    "table", "number", "unit", "draft"},
            id : Nat, mode : {"update", "nokey", "share", "keyshare"}]

Lock(kind, id) == [kind |-> kind, id |-> id, mode |-> "update"]
Share(kind, id) == [kind |-> kind, id |-> id, mode |-> "share"]
LockAll(kind, ids) == {Lock(kind, id) : id \in ids}

Compatible == ({"share", "keyshare"} \X {"share", "keyshare"})
              \cup {<<"nokey", "keyshare">>, <<"keyshare", "nokey">>}

Conflict(r, q) == r.kind = q.kind /\ r.id = q.id /\ <<r.mode, q.mode>> \notin Compatible

\* The order of the statements of a command, by the kind of row.
CheckFirst == [managers |-> 0, identity |-> 1, roles |-> 2, check |-> 3, session |-> 4,
               shift |-> 5, table |-> 6, number |-> 7, unit |-> 8, draft |-> 9]
SessionFirst == [shift |-> 0, session |-> 1, draft |-> 2, check |-> 3]
AbandonOrder == [shift |-> 0, session |-> 1, check |-> 2, draft |-> 3]
DraftWithSession == IF DraftRowFirst THEN [draft |-> 0, session |-> 1, check |-> 2]
                    ELSE [session |-> 0, draft |-> 1, check |-> 2]
RolesFirst == [managers |-> 0, roles |-> 1, identity |-> 2]

ByCreation == {"submit", "withdraw", "abandon"}
OfDraft == {"draft", "commit"}

\* Mutant: A Split joins the Session into the statement that locks its Checks.
LockSessionWithChecks(op) ==
    CASE op = "abandon"       -> AbandonOrder
      [] op \in ByCreation    -> SessionFirst
      [] op \in OfDraft       -> DraftWithSession
      [] op = "roles"         -> RolesFirst
      [] op = "restructure"   -> [session |-> 0, check |-> 0, shift |-> 1]
      [] OTHER                -> CheckFirst

LockOrder(op) ==
    CASE op = "abandon"    -> AbandonOrder
      [] op \in ByCreation -> SessionFirst
      [] op \in OfDraft    -> DraftWithSession
      [] op = "roles"      -> RolesFirst
      [] OTHER             -> CheckFirst

CreatedBefore(c, d) ==
    \E i, j \in DOMAIN checks : i < j /\ checks[i] = c /\ checks[j] = d

\* Among rows of one kind: ORDER BY id, or for the commands that take a
\* Session's Checks after the Session, ORDER BY created_at, id.
Earlier(op, r, q) ==
    IF op \in ByCreation THEN CreatedBefore(r.id, q.id) ELSE r.id < q.id

Sooner(op, r, q) ==
    \/ LockOrder(op)[r.kind] < LockOrder(op)[q.kind]
    \/ r.kind = q.kind /\ Earlier(op, r, q)

Idle == [op |-> "idle", of |-> 0, want |-> {}, todo |-> {}, held |-> {},
         read |-> FALSE, seen |-> 0]

\* What t asks for next.
NextRequests(t) ==
    {r \in txn[t].todo : \A q \in txn[t].todo : ~ Sooner(txn[t].op, q, r)}

Blocks(u, r) == \E h \in txn[u].held : Conflict(r, h)
WaitsFor(t, u) == t # u /\ \E r \in NextRequests(t) : Blocks(u, r)

-----------------------------------------------------------------------------
Created == {checks[i] : i \in DOMAIN checks}
ChecksOf(s) == {c \in Created : SessionOf[c] = s}
Begun == {s \in Sessions : session[s].state # "ABSENT"}
Open == {s \in Sessions : session[s].state = "ACTIVE"}

Init ==
    /\ session = [s \in Sessions |-> NoRow]
    /\ checks = <<>>
    /\ available \in SUBSET Tables
    /\ managers \in (SUBSET Staff) \ {{}}
    /\ txn = [t \in Txns |-> Idle]

\* Commands are served one after the other on a transaction.
IsIdle(t) == txn[t].op = "idle"

Begin(t, op, of, rows, want) ==
    /\ IsIdle(t)
    /\ txn' = [txn EXCEPT ![t] = [Idle EXCEPT !.op = op, !.of = of, !.want = want,
                                              !.todo = rows]]
    /\ UNCHANGED <<session, checks, available, managers>>

\* Most commands are asked for on an ACTIVE Session, which may have ended when
\* they reach its lock.

\* Mutant: Without the advisory lock on the Shift's numbers.
StartWithoutNumberLock(t) ==
    /\ IsIdle(t)
    /\ \E s \in Sessions \ Begun, want \in SUBSET Tables :
           /\ s \in DineIn <=> want # {}
           /\ \A u \in Txns : txn[u].op = "start" => txn[u].of # s
           /\ Begin(t, "start", s, {Share("shift", 0)} \cup LockAll("table", want), want)

\* At Tables or for Takeaway.  Nobody knows the id of a Session being started.
StartSession(t) ==
    /\ IsIdle(t)
    /\ \E s \in Sessions \ Begun, want \in SUBSET Tables :
           /\ s \in DineIn <=> want # {}
           /\ \A u \in Txns : txn[u].op = "start" => txn[u].of # s
           /\ Begin(t, "start", s,
                    {Share("shift", 0), Lock("number", 0)} \cup LockAll("table", want), want)

SetSessionTables(t) ==
    /\ IsIdle(t)
    /\ \E s \in Open, want \in SUBSET Tables :
           Begin(t, "tables", s, {Lock("session", s)}, want)

SetTableAvailability(t) ==
    /\ IsIdle(t)
    /\ \E b \in Tables : Begin(t, "availability", b, {Lock("table", b)}, {})

CloseServiceSession(t) ==
    /\ IsIdle(t)
    /\ \E s \in Begun : Begin(t, "close", s, {Lock("session", s)}, {})

AbandonCheckout(t) ==
    /\ IsIdle(t)
    /\ \E s \in Open :
           Begin(t, "abandon", s,
                 {Share("shift", 0), Lock("session", s), Lock("draft", s)}, {})

CancelAwaitingSubmission(t) ==
    /\ IsIdle(t)
    /\ \E s \in Open :
           Begin(t, "withdraw", s,
                 {Share("shift", 0), Lock("session", s), Lock("draft", s)}, {})

SubmitOrder(t) ==
    /\ IsIdle(t)
    /\ \E s \in Open : Begin(t, "submit", s, {Lock("session", s), Lock("draft", s)}, {})

StartNewOrderDraft(t) ==
    /\ IsIdle(t)
    /\ \E s \in Open : Begin(t, "round", s, {Lock("session", s)}, {})

\* Add, edit and remove draft lines; and Commit, which goes on to a Check.
EditDraft(t) ==
    /\ IsIdle(t)
    /\ \E s \in Open, op \in OfDraft :
           Begin(t, op, s, {Lock("session", s), Lock("draft", s)}, {})

CheckScope(cs, s) == LockAll("check", cs) \cup {Lock("session", s)}
MoneyScope(cs, s) == CheckScope(cs, s) \cup {Share("shift", 0)}

\* Cash and QR Payments, and the confirmation of a Refund.
PayCheck(t) ==
    /\ IsIdle(t)
    /\ \E c \in Created : Begin(t, "pay", SessionOf[c], MoneyScope({c}, SessionOf[c]), {})

\* Void, Refund and Comp: the approver's rows come first; Comp goes on to the waste.
ApprovalOf(m) == LockAll("identity", {m}) \cup LockAll("roles", {m})
CorrectSale(t) ==
    /\ IsIdle(t)
    /\ \E c \in Created, m \in managers \cap Approvers, comp \in BOOLEAN :
           LET s == SessionOf[c] IN
           Begin(t, "correct", s,
                 ApprovalOf(m) \cup MoneyScope({c}, s)
                 \cup LockAll("unit", IF comp THEN {s} ELSE {}), {})

\* Split names one Check or two, Merge two or more, of one Session.
RestructureChecks(t) ==
    /\ IsIdle(t)
    /\ \E s \in Open : \E cs \in (SUBSET ChecksOf(s)) \ {{}} :
           Begin(t, "restructure", s, MoneyScope(cs, s), {})

CancelUnits(t) ==
    /\ IsIdle(t)
    /\ \E s \in Open : \E cs \in SUBSET ChecksOf(s) :
           Begin(t, "cancel", s, MoneyScope(cs, s) \cup {Lock("unit", s)}, {})

\* State Correction asks for the actor's PIN and names units of any Sessions;
\* Remake names one.  Advance and Waste lock units only.
CorrectUnits(t) ==
    /\ IsIdle(t)
    /\ \E ss \in (SUBSET Open) \ {{}}, ms \in {{}} \cup {{m} : m \in managers \cap Approvers} :
           Begin(t, "units", 0,
                 LockAll("session", ss) \cup LockAll("unit", ss)
                 \cup UNION {ApprovalOf(m) : m \in ms}, {})
AdvanceUnits(t) ==
    /\ IsIdle(t)
    /\ \E ss \in (SUBSET Open) \ {{}} : Begin(t, "advance", 0, LockAll("unit", ss), {})

\* Cash Movements, Start Reconciliation, attempts, Final Close.
LockShift(t) == IsIdle(t) /\ Begin(t, "shift", 0, {Lock("shift", 0)}, {})

\* set_enabled, and the update of a profile, which goes on to the role rows.
SetStaffEnabled(t) ==
    /\ IsIdle(t)
    /\ \E m \in Staff, profile \in BOOLEAN :
           Begin(t, "staff", m,
                 {Lock("managers", 0), [kind |-> "identity", id |-> m, mode |-> "nokey"]}
                 \cup LockAll("roles", IF profile THEN {m} ELSE {}), {})

\* Role rows are deleted first; inserting them checks the identity's key.
ReplaceStaffRoles(t) ==
    /\ IsIdle(t)
    /\ \E m \in Staff :
           Begin(t, "roles", m,
                 {Lock("managers", 0), Lock("roles", m),
                  [kind |-> "identity", id |-> m, mode |-> "keyshare"]}, {})

-----------------------------------------------------------------------------
(* Taking a lock: what the statement's WHERE and the checks that follow it  *)
(* require of the row, and what the next statement will lock.               *)

NeedsActive == {"tables", "round", "abandon", "withdraw", "submit", "draft", "commit",
                "restructure", "cancel", "units"}

\* Mutant: The Session's state is not looked at under its lock.
AdmitsEndedSession(t, r) ==
    /\ r.kind = "session" /\ txn[t].op = "tables" => r.id \in DineIn
    /\ r.kind = "table" /\ txn[t].op # "availability" => r.id \in available

Admits(t, r) ==
    /\ r.kind = "session" /\ txn[t].op \in NeedsActive => session[r.id].state = "ACTIVE"
    /\ r.kind = "session" /\ txn[t].op = "tables" => r.id \in DineIn
    /\ r.kind = "table" /\ txn[t].op # "availability" => r.id \in available

Discovers(t, r) ==
    LET own == ChecksOf(txn[t].of)
        last == txn[t].todo = {r} IN
    CASE txn[t].op = "tables" /\ r.kind = "session" ->
            {LockAll("table", txn[t].want \ session[r.id].tables)}
      [] txn[t].op = "commit" /\ r.kind # "check" /\ last ->
            {LockAll("check", cs) : cs \in {{}} \cup {{c} : c \in own}}
      [] txn[t].op = "submit" /\ r.kind = "draft" ->
            {LockAll("check", cs) : cs \in (SUBSET own) \ {{}}}
      [] \/ txn[t].op = "withdraw" /\ r.kind = "draft"
         \/ txn[t].op = "abandon" /\ r.kind = "session" -> {LockAll("check", own)}
      [] OTHER -> {{}}

Acquire(t) ==
    \E r \in NextRequests(t) : \E more \in Discovers(t, r) :
        /\ \A u \in Txns \ {t} : ~ Blocks(u, r)
        /\ Admits(t, r)
        /\ txn' = [txn EXCEPT ![t].todo = (@ \ {r}) \cup more, ![t].held = @ \cup {r}]
        /\ UNCHANGED <<session, checks, available, managers>>

Ready(t, op) == txn[t].op = op /\ txn[t].todo = {}

See(t, n) ==
    /\ ~ txn[t].read
    /\ txn' = [txn EXCEPT ![t].read = TRUE, ![t].seen = n]
    /\ UNCHANGED <<session, checks, available, managers>>

\* The maximum, of no row 0, and one.
NextSequence(t) ==
    \E last \in {0} \cup {session[s].number : s \in Sessions} :
        /\ \A s \in Sessions : session[s].number <= last
        /\ Ready(t, "start") /\ See(t, last + 1)

\* Mutant: The Managers are counted before the invariant lock is taken.
CountBeforeLock(t) ==
    /\ txn[t].op \in {"staff", "roles"}
    /\ See(t, Cardinality(managers))

\* Counted before the identity or the role rows are written.
CountActiveManagers(t) ==
    /\ txn[t].op \in {"staff", "roles"}
    /\ Lock("managers", 0) \in txn[t].held
    /\ See(t, Cardinality(managers))

-----------------------------------------------------------------------------
(* The commit: the writes become visible and the locks are released.        *)

Release(t) == txn' = [txn EXCEPT ![t] = Idle]

FinishStart(t) ==
    /\ Ready(t, "start") /\ txn[t].read
    /\ session' = [session EXCEPT ![txn[t].of] =
                     [state |-> "ACTIVE", number |-> txn[t].seen, tables |-> txn[t].want]]
    /\ Release(t)
    /\ UNCHANGED <<checks, available, managers>>

FinishTables(t) ==
    /\ Ready(t, "tables")
    /\ session' = [session EXCEPT ![txn[t].of].tables = txn[t].want]
    /\ Release(t)
    /\ UNCHANGED <<checks, available, managers>>

\* Closing twice answers with the existing sale; otherwise the Tables go back.
FinishEnd(t) ==
    /\ \E op \in {"close", "abandon"} : Ready(t, op)
    /\ session' = [session EXCEPT ![txn[t].of].state = "ENDED", ![txn[t].of].tables = {}]
    /\ Release(t)
    /\ UNCHANGED <<checks, available, managers>>

FinishAvailability(t) ==
    /\ Ready(t, "availability")
    /\ available' \in {available \cup {txn[t].of}, available \ {txn[t].of}}
    /\ Release(t)
    /\ UNCHANGED <<session, checks, managers>>

\* Commit without a Check to join, and Split without a destination, open one.
ChecksHeld(t) == {h \in txn[t].held : h.kind = "check"}
OpensCheck(t) ==
    \/ Ready(t, "commit") /\ ChecksHeld(t) = {}
    \/ Ready(t, "restructure") /\ Cardinality(ChecksHeld(t)) = 1

FinishWithNewCheck(t) ==
    /\ OpensCheck(t)
    /\ \E c \in Checks \ Created :
        /\ SessionOf[c] = txn[t].of
        /\ checks' = Append(checks, c)
    /\ Release(t)
    /\ UNCHANGED <<session, available, managers>>

\* The target joins the enabled Managers or leaves them, which is refused to the
\* last of them.
FinishStaff(t) ==
    /\ \E op \in {"staff", "roles"} : Ready(t, op)
    /\ txn[t].read
    /\ \/ managers' = managers \cup {txn[t].of}
       \/ /\ txn[t].of \in managers => txn[t].seen > 1
          /\ managers' = managers \ {txn[t].of}
    /\ Release(t)
    /\ UNCHANGED <<session, checks, available>>

\* The writes of the others are on rows of other modules.
Elsewhere == {"withdraw", "submit", "round", "draft", "commit", "pay", "correct", "restructure",
              "cancel", "units", "advance", "shift"}
FinishElsewhere(t) ==
    /\ \E op \in Elsewhere : Ready(t, op)
    /\ ~ OpensCheck(t)
    /\ Release(t)
    /\ UNCHANGED <<session, checks, available, managers>>

\* A refusal, a lost connection, a retryable error: 40P01 in a circle of waits.
Abort(t) ==
    /\ txn[t].op # "idle"
    /\ Release(t)
    /\ UNCHANGED <<session, checks, available, managers>>

Next ==
    \E t \in Txns :
        \/ StartSession(t) \/ SetSessionTables(t) \/ SetTableAvailability(t)
        \/ CloseServiceSession(t) \/ AbandonCheckout(t) \/ CancelAwaitingSubmission(t)
        \/ SubmitOrder(t) \/ StartNewOrderDraft(t) \/ EditDraft(t) \/ PayCheck(t)
        \/ CorrectSale(t)
        \/ RestructureChecks(t) \/ CancelUnits(t) \/ CorrectUnits(t) \/ AdvanceUnits(t)
        \/ LockShift(t) \/ SetStaffEnabled(t) \/ ReplaceStaffRoles(t)
        \/ Acquire(t) \/ NextSequence(t) \/ CountActiveManagers(t)
        \/ FinishStart(t) \/ FinishTables(t) \/ FinishEnd(t) \/ FinishAvailability(t)
        \/ FinishWithNewCheck(t) \/ FinishStaff(t) \/ FinishElsewhere(t) \/ Abort(t)

Spec == Init /\ [][Next]_vars

-----------------------------------------------------------------------------
(* What the locks keep.                                                     *)

Ops == {"idle", "start", "tables", "availability", "close", "abandon", "staff", "roles"}
       \cup Elsewhere

\* Types; a Session has a Service Number and Tables once it is started.
TypeOK ==
    /\ session \in [Sessions -> SessionRow]
    /\ checks \in Seq(Checks)
    /\ available \subseteq Tables
    /\ managers \subseteq Staff
    /\ txn \in [Txns -> [op : Ops, of : Nat, want : SUBSET Tables, todo : SUBSET Request,
                         held : SUBSET Request, read : BOOLEAN, seen : Nat]]
    /\ \A s \in Sessions : s \in Begun <=> session[s].number > 0

\* No two Sessions of a Shift are called by one number, although each takes the
\* maximum it reads and one: allocateServiceNumber.
ServiceNumbersUnique ==
    \A s, u \in Begun : s # u => session[s].number # session[u].number

\* A Session that closed or was abandoned holds no Table, although
\* SetSessionTables may be on its way when it ends: nothing would release it.
EndedHoldsNoTable ==
    \A s \in Sessions : session[s].state = "ENDED" => session[s].tables = {}

\* Somebody can still administer the staff, however Managers disable and
\* demote each other at once: ensureManagerRemains.
ManagerRemains == managers # {}

\* D waits in a circle: each for one of D, and one of D for each.
WaitCycle(D) ==
    /\ D # {}
    /\ \A t \in D : /\ \E u \in D : WaitsFor(t, u)
                    /\ \E u \in D : WaitsFor(u, t)

\* The commands whose statements leave the common order of rows.
Disordered == ByCreation \cup OfDraft \cup {"roles"}

\* Payments, corrections, restructuring, preparation, seating, closure, Shift
\* and staff commands never wait for each other in a circle: every deadlock
\* has a draft, submission, recovery or replace_roles command in it.
OrderedNeverDeadlock ==
    \A D \in SUBSET Txns : WaitCycle(D) => \E t \in D : txn[t].op \in Disordered

\* What the decision records say of deadlocks: they have a Submit in them
\* (ADR-031) or a recovery (ADR-066); "No deadlock cycle exists among the 5C
\* commands or against 5A and 5B" (ADR-016), and 5B is Commit.  replace_roles,
\* of which they say nothing, is left out.
OnlyRecordedCycles ==
    \A D \in SUBSET Txns :
        WaitCycle(D) => \E t \in D : txn[t].op \in ByCreation \cup {"roles"}

=============================================================================
