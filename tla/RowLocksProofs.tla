--------------------------- MODULE RowLocksProofs ---------------------------
(***************************************************************************)
(* RowLocks for any number of commands in flight, Sessions, Checks, Tables *)
(* and staff.                                                              *)
(*                                                                         *)
(* What a row lock keeps is proved the same way each time.  Two commands   *)
(* never hold conflicting locks (HeldCompatible); a command that is about  *)
(* to write holds the lock (StartGood, TablesGood, EndGood, StaffGood), so *)
(* what another command read under that lock is still so when it writes.   *)
(*                                                                         *)
(* A command that keeps the common order never asks for a row sooner than  *)
(* one it holds (OrderGood).  In a circle of such commands the soonest row *)
(* that one asks for would be held up by a still sooner request.           *)
(*                                                                         *)
(* The commands begin in many ways and differ in the rows they will lock:  *)
(* all the argument needs of them is WellBegun.                            *)
(***************************************************************************)
EXTENDS RowLocks, FiniteSetTheorems, WellFoundedInduction, TLAPS

Command == [op : Ops, of : Nat, want : SUBSET Tables, todo : SUBSET Request,
            held : SUBSET Request, read : BOOLEAN, seen : Nat]

\* No row is asked for in two modes.
OneMode(rows) == \A r, q \in rows : r.kind = q.kind /\ r.id = q.id => r = q

HeldCompatible ==
    \A t, u \in Txns : t # u =>
        \A h \in txn[t].held, k \in txn[u].held : ~ Conflict(h, k)

\* A starting Session is nobody else's, and its number is past all numbers.
StartGood(t) ==
    txn[t].op = "start" =>
        /\ txn[t].of \in Sessions \ Begun
        /\ \A u \in Txns \ {t} : txn[u].op = "start" => txn[u].of # txn[t].of
        /\ Lock("number", 0) \in txn[t].todo \cup txn[t].held
        /\ txn[t].read => /\ txn[t].todo = {} /\ txn[t].seen > 0
                          /\ \A s \in Sessions : session[s].number < txn[t].seen

\* Reassignment locks the ACTIVE Session before anything else.
TablesGood(t) ==
    txn[t].op = "tables" =>
        /\ txn[t].of \in Sessions
        /\ \/ txn[t].todo = {Lock("session", txn[t].of)} /\ txn[t].held = {}
           \/ /\ Lock("session", txn[t].of) \in txn[t].held
              /\ session[txn[t].of].state = "ACTIVE"
              /\ \A r \in txn[t].todo : r.kind = "table" /\ r.mode = "update"

\* A Session that ends was started; a Table that changes is one.
EndGood(t) ==
    /\ txn[t].op \in {"close", "abandon"} =>
          txn[t].of \in Begun /\ Lock("session", txn[t].of) \in txn[t].todo \cup txn[t].held
    /\ txn[t].op = "availability" => txn[t].of \in Tables

\* The Managers are counted under the lock that whoever changes them holds.
StaffGood(t) ==
    txn[t].op \in {"staff", "roles"} =>
        /\ txn[t].of \in Staff
        /\ Lock("managers", 0) \in txn[t].todo \cup txn[t].held
        /\ txn[t].read => /\ Lock("managers", 0) \in txn[t].held
                          /\ txn[t].seen = Cardinality(managers)

Precedes(r, q) ==
    \/ CheckFirst[r.kind] < CheckFirst[q.kind]
    \/ r.kind = q.kind /\ r.id < q.id

OrderGood(t) ==
    txn[t].op \notin Disordered =>
        /\ OneMode(txn[t].todo)
        /\ \A h \in txn[t].held, r \in txn[t].todo : Precedes(h, r)

CommandGood(t) == StartGood(t) /\ TablesGood(t) /\ EndGood(t) /\ StaffGood(t) /\ OrderGood(t)

IInv ==
    /\ TypeOK /\ ServiceNumbersUnique /\ EndedHoldsNoTable /\ ManagerRemains
    /\ HeldCompatible
    /\ \A t \in Txns : CommandGood(t)

-----------------------------------------------------------------------------
(* Rows and requests.                                                      *)

Kinds == {"managers", "identity", "roles", "check", "session", "shift", "table", "number",
          "unit", "draft"}

\* A lock on a row of a known kind is a request.
LEMMA LockTypes ==
  ASSUME NEW kind \in Kinds, NEW id \in Nat
  PROVE  /\ Lock(kind, id) \in Request /\ Share(kind, id) \in Request
         /\ Lock(kind, id).kind = kind /\ Lock(kind, id).id = id
         /\ Lock(kind, id).mode = "update"
         /\ Share(kind, id).kind = kind /\ Share(kind, id).id = id
BY DEF Lock, Share, Request, Kinds

\* Locking all rows of a kind makes one FOR UPDATE request of that kind per row.
LEMMA LockAllTypes ==
  ASSUME NEW kind \in Kinds, NEW ids \in SUBSET Nat
  PROVE  /\ LockAll(kind, ids) \subseteq Request
         /\ \A r \in LockAll(kind, ids) :
               r = Lock(kind, r.id) /\ r.kind = kind /\ r.id \in ids /\ r.mode = "update"
BY DEF LockAll, Lock, Request, Kinds

\* Requests of different kinds keep one mode per row when they are put together.
LEMMA DisjointKinds ==
  ASSUME NEW A, NEW B, OneMode(A), OneMode(B), \A r \in A, q \in B : r.kind # q.kind
  PROVE  OneMode(A \cup B)
BY DEF OneMode

\* A lock for update conflicts with every lock on its row.
LEMMA UpdateConflicts ==
  ASSUME NEW r \in Request, NEW q \in Request, r.kind = q.kind, r.id = q.id,
         r.mode = "update"
  PROVE  Conflict(r, q) /\ Conflict(q, r)
BY DEF Conflict, Compatible

\* Two lock requests conflict whichever is held.
LEMMA ConflictSymmetric ==
  \A r, q \in Request : Conflict(r, q) <=> Conflict(q, r)
<1> SUFFICES ASSUME NEW r \in Request, NEW q \in Request
             PROVE  <<r.mode, q.mode>> \in Compatible <=> <<q.mode, r.mode>> \in Compatible
  BY DEF Conflict
<1> QED BY DEF Compatible

\* Rows are locked in the order of their kinds, and of ids in a kind.
LEMMA Ranked ==
  \A r \in Request : CheckFirst[r.kind] \in Nat /\ r.id \in Nat /\ r.kind \in Kinds
BY DEF Request, CheckFirst, Kinds

\* The Check-first order gives each kind of row its own place.
LEMMA RanksTell ==
  \A r, q \in Request : CheckFirst[r.kind] = CheckFirst[q.kind] => r.kind = q.kind
BY DEF Request, CheckFirst

\* Commands of the common order: LockOrder and Earlier are CheckFirst and ids.
LEMMA CommonOrder ==
  ASSUME NEW op, op \notin Disordered, NEW r, NEW q
  PROVE  Sooner(op, r, q) <=> Precedes(r, q)
BY DEF Disordered, Sooner, LockOrder, Earlier, ByCreation, OfDraft, Precedes

\* The rows are numbers and every Check belongs to a Session.
LEMMA CreatedInNat ==
  TypeOK => /\ Created \subseteq Checks /\ Created \subseteq Nat
            /\ \A c \in Created : SessionOf[c] \in Sessions /\ SessionOf[c] \in Nat
            /\ Sessions \subseteq Nat /\ Tables \subseteq Nat /\ Staff \subseteq Nat
<1> SUFFICES ASSUME TypeOK PROVE Created \subseteq Checks
  BY IdAssumption, SessionOfAssumption
<1>1. checks \in Seq(Checks)
  BY DEF TypeOK
<1>2. \A i \in DOMAIN checks : checks[i] \in Checks
  BY <1>1
<1> QED BY <1>2 DEF Created

-----------------------------------------------------------------------------
(* How commands begin.                                                      *)

WellBegun(t, op, of, rows, want) ==
    /\ op \in Ops \ {"idle"} /\ of \in Nat
    /\ want \in SUBSET Tables /\ rows \in SUBSET Request
    /\ op = "start" => /\ of \in Sessions \ Begun /\ Lock("number", 0) \in rows
                       /\ \A u \in Txns : txn[u].op = "start" => txn[u].of # of
    /\ op = "availability" => of \in Tables
    /\ op = "tables" => of \in Sessions /\ rows = {Lock("session", of)}
    /\ op \in {"close", "abandon"} => of \in Begun /\ Lock("session", of) \in rows
    /\ op \in {"staff", "roles"} => of \in Staff /\ Lock("managers", 0) \in rows
    /\ op \notin Disordered => OneMode(rows)

Beginning(t) ==
    \/ StartSession(t) \/ SetSessionTables(t) \/ SetTableAvailability(t)
    \/ CloseServiceSession(t) \/ AbandonCheckout(t) \/ CancelAwaitingSubmission(t)
    \/ SubmitOrder(t) \/ StartNewOrderDraft(t) \/ EditDraft(t) \/ PayCheck(t)
    \/ CorrectSale(t)
    \/ RestructureChecks(t) \/ CancelUnits(t) \/ CorrectUnits(t) \/ AdvanceUnits(t)
    \/ LockShift(t) \/ SetStaffEnabled(t) \/ ReplaceStaffRoles(t)

\* Every command begins on an idle transaction, well.
LEMMA AllWellBegun ==
  ASSUME IInv, NEW t \in Txns, Beginning(t)
  PROVE  \E op, of, rows, want :
            WellBegun(t, op, of, rows, want) /\ Begin(t, op, of, rows, want)
<1> DEFINE Good == \E op, of, rows, want :
               WellBegun(t, op, of, rows, want) /\ Begin(t, op, of, rows, want)
<1> USE DEF Disordered, ByCreation, OfDraft, Ops, Elsewhere
<1>0. TypeOK
  BY DEF IInv
<1>a. /\ Created \subseteq Nat /\ Sessions \subseteq Nat /\ Tables \subseteq Nat /\ Staff \subseteq Nat
      /\ \A c \in Created : SessionOf[c] \in Sessions
  BY <1>0, CreatedInNat
<1>b. Open \subseteq Begun /\ Begun \subseteq Sessions /\ managers \subseteq Staff
  BY <1>0 DEF Open, Begun, TypeOK
<1>1. CASE StartSession(t)
  <2>1. PICK s \in Sessions \ Begun, want \in SUBSET Tables :
          /\ \A u \in Txns : txn[u].op = "start" => txn[u].of # s
          /\ Begin(t, "start", s,
                   {Share("shift", 0), Lock("number", 0)} \cup LockAll("table", want), want)
    BY <1>1 DEF StartSession
  <2> DEFINE rows == {Share("shift", 0), Lock("number", 0)} \cup LockAll("table", want)
  <2>2. want \in SUBSET Nat
    BY <1>a
  <2>3. rows \subseteq Request /\ OneMode(rows)
    BY <2>2, LockTypes, LockAllTypes DEF OneMode, Kinds
  <2>4. WellBegun(t, "start", s, rows, want)
    BY <2>1, <2>3, <1>a DEF WellBegun
  <2> QED BY <2>1, <2>4
<1>2. CASE SetSessionTables(t)
  <2>1. PICK s \in Open, want \in SUBSET Tables : Begin(t, "tables", s, {Lock("session", s)}, want)
    BY <1>2 DEF SetSessionTables
  <2>2. s \in Sessions /\ s \in Nat /\ Lock("session", s) \in Request
    BY <1>a, <1>b, LockTypes DEF Kinds
  <2>3. OneMode({Lock("session", s)})
    BY DEF OneMode
  <2>4. WellBegun(t, "tables", s, {Lock("session", s)}, want)
    BY <2>2, <2>3 DEF WellBegun
  <2> QED BY <2>1, <2>4
<1>3. CASE SetTableAvailability(t)
  <2>1. PICK b \in Tables : Begin(t, "availability", b, {Lock("table", b)}, {})
    BY <1>3 DEF SetTableAvailability
  <2>2. WellBegun(t, "availability", b, {Lock("table", b)}, {})
    BY <1>a, LockTypes DEF WellBegun, OneMode, Kinds
  <2> QED BY <2>1, <2>2
<1>4. CASE CloseServiceSession(t)
  <2>1. PICK s \in Begun : Begin(t, "close", s, {Lock("session", s)}, {})
    BY <1>4 DEF CloseServiceSession
  <2>2. WellBegun(t, "close", s, {Lock("session", s)}, {})
    BY <1>a, <1>b, LockTypes DEF WellBegun, OneMode, Kinds
  <2> QED BY <2>1, <2>2
<1>5. CASE AbandonCheckout(t) \/ CancelAwaitingSubmission(t)
  <2>1. PICK s \in Open, op \in {"abandon", "withdraw"} :
          Begin(t, op, s, {Share("shift", 0), Lock("session", s), Lock("draft", s)}, {})
    BY <1>5 DEF AbandonCheckout, CancelAwaitingSubmission
  <2>2. WellBegun(t, op, s, {Share("shift", 0), Lock("session", s), Lock("draft", s)}, {})
    BY <1>a, <1>b, LockTypes DEF WellBegun, Kinds
  <2> QED BY <2>1, <2>2
<1>6. CASE SubmitOrder(t) \/ EditDraft(t)
  <2>1. PICK s \in Open, op \in {"submit", "draft", "commit"} :
          Begin(t, op, s, {Lock("session", s), Lock("draft", s)}, {})
    BY <1>6 DEF SubmitOrder, EditDraft
  <2>2. WellBegun(t, op, s, {Lock("session", s), Lock("draft", s)}, {})
    BY <1>a, <1>b, LockTypes DEF WellBegun, Kinds
  <2> QED BY <2>1, <2>2
<1>7. CASE StartNewOrderDraft(t)
  <2>1. PICK s \in Open : Begin(t, "round", s, {Lock("session", s)}, {})
    BY <1>7 DEF StartNewOrderDraft
  <2>2. WellBegun(t, "round", s, {Lock("session", s)}, {})
    BY <1>a, <1>b, LockTypes DEF WellBegun, OneMode, Kinds
  <2> QED BY <2>1, <2>2
<1>8. ASSUME NEW cs \in SUBSET Created, NEW s \in Sessions
      PROVE  MoneyScope(cs, s) \subseteq Request /\ OneMode(MoneyScope(cs, s))
             /\ \A r \in MoneyScope(cs, s) : r.kind \in {"check", "session", "shift"}
  <2>1. cs \in SUBSET Nat /\ s \in Nat
    BY <1>a
  <2>2. MoneyScope(cs, s) = LockAll("check", cs) \cup {Lock("session", s), Share("shift", 0)}
    BY DEF MoneyScope, CheckScope
  <2> QED BY <2>1, <2>2, LockTypes, LockAllTypes DEF OneMode, Kinds
<1>9. CASE PayCheck(t)
  <2>1. PICK c \in Created : Begin(t, "pay", SessionOf[c], MoneyScope({c}, SessionOf[c]), {})
    BY <1>9 DEF PayCheck
  <2>2. SessionOf[c] \in Sessions /\ {c} \in SUBSET Created
    BY <1>a
  <2>3. WellBegun(t, "pay", SessionOf[c], MoneyScope({c}, SessionOf[c]), {})
    BY <1>a, <1>8, <2>2 DEF WellBegun
  <2> QED BY <2>1, <2>3
<1>10. ASSUME NEW m \in Staff
       PROVE  /\ ApprovalOf(m) \subseteq Request
              /\ OneMode(ApprovalOf(m))
              /\ \A r \in ApprovalOf(m) : r.kind \in {"identity", "roles"}
  <2>1. {m} \in SUBSET Nat
    BY <1>a
  <2> QED BY <2>1, LockAllTypes DEF ApprovalOf, OneMode, Kinds
<1>11. CASE CorrectSale(t)
  <2>1. PICK c \in Created, m \in managers \cap Approvers, comp \in BOOLEAN :
          Begin(t, "correct", SessionOf[c],
                ApprovalOf(m) \cup MoneyScope({c}, SessionOf[c])
                \cup LockAll("unit", IF comp THEN {SessionOf[c]} ELSE {}), {})
    BY <1>11 DEF CorrectSale
  <2> DEFINE s == SessionOf[c]
             units == IF comp THEN {s} ELSE {}
             rows == ApprovalOf(m) \cup MoneyScope({c}, s) \cup LockAll("unit", units)
  <2>2. s \in Sessions /\ {c} \in SUBSET Created /\ m \in Staff /\ units \in SUBSET Nat /\ s \in Nat
    BY <1>a, <1>b
  <2>3. LockAll("unit", units) \subseteq Request /\ OneMode(LockAll("unit", units))
        /\ \A r \in LockAll("unit", units) : r.kind = "unit"
    BY <2>2, LockAllTypes DEF OneMode, Kinds
  <2> HIDE DEF units, s
  <2>4. rows \subseteq Request /\ OneMode(rows)
    BY <2>2, <2>3, <1>8, <1>10 DEF OneMode
  <2>5. WellBegun(t, "correct", s, rows, {})
    BY <2>2, <2>4 DEF WellBegun
  <2>6. Begin(t, "correct", s, rows, {})
    BY <2>1 DEF units, s
  <2> QED BY <2>5, <2>6
<1>12. CASE RestructureChecks(t)
  <2>0. PICK s \in Open : \E cs \in SUBSET ChecksOf(s) :
          Begin(t, "restructure", s, MoneyScope(cs, s), {})
    BY <1>12 DEF RestructureChecks
  <2>1. PICK cs \in SUBSET ChecksOf(s) : Begin(t, "restructure", s, MoneyScope(cs, s), {})
    BY <2>0
  <2>2. s \in Sessions /\ s \in Nat /\ cs \in SUBSET Created
    BY <1>a, <1>b DEF ChecksOf
  <2>3. WellBegun(t, "restructure", s, MoneyScope(cs, s), {})
    BY <1>8, <2>2 DEF WellBegun
  <2> QED BY <2>1, <2>3
<1>13. CASE CancelUnits(t)
  <2>0. PICK s \in Open : \E cs \in SUBSET ChecksOf(s) :
          Begin(t, "cancel", s, MoneyScope(cs, s) \cup {Lock("unit", s)}, {})
    BY <1>13 DEF CancelUnits
  <2>1. PICK cs \in SUBSET ChecksOf(s) :
          Begin(t, "cancel", s, MoneyScope(cs, s) \cup {Lock("unit", s)}, {})
    BY <2>0
  <2>2. s \in Sessions /\ s \in Nat /\ cs \in SUBSET Created
    BY <1>a, <1>b DEF ChecksOf
  <2>3. Lock("unit", s) \in Request /\ Lock("unit", s).kind = "unit"
    BY <2>2, LockTypes DEF Kinds
  <2>4. WellBegun(t, "cancel", s, MoneyScope(cs, s) \cup {Lock("unit", s)}, {})
    BY <1>8, <2>2, <2>3 DEF WellBegun, OneMode
  <2> QED BY <2>1, <2>4
<1>14. ASSUME NEW ss \in SUBSET Open
       PROVE  /\ LockAll("unit", ss) \subseteq Request /\ LockAll("session", ss) \subseteq Request
              /\ OneMode(LockAll("unit", ss)) /\ OneMode(LockAll("session", ss))
              /\ \A r \in LockAll("unit", ss) : r.kind = "unit"
              /\ \A r \in LockAll("session", ss) : r.kind = "session"
  <2>1. ss \in SUBSET Nat
    BY <1>a, <1>b
  <2> QED BY <2>1, LockAllTypes DEF OneMode, Kinds
<1>15. CASE CorrectUnits(t)
  <2>1. PICK ss \in SUBSET Open, ms \in {{}} \cup {{m} : m \in managers \cap Approvers} :
          Begin(t, "units", 0, LockAll("session", ss) \cup LockAll("unit", ss)
                               \cup UNION {ApprovalOf(m) : m \in ms}, {})
    BY <1>15 DEF CorrectUnits
  <2> DEFINE approvals == UNION {ApprovalOf(m) : m \in ms}
             rows == LockAll("session", ss) \cup LockAll("unit", ss) \cup approvals
  <2>2. approvals \subseteq Request /\ OneMode(approvals)
        /\ \A r \in approvals : r.kind \in {"identity", "roles"}
    <3>1. CASE ms = {}
      BY <3>1 DEF OneMode
    <3>2. ASSUME NEW m \in managers \cap Approvers, ms = {m}
          PROVE  approvals = ApprovalOf(m) /\ m \in Staff
      BY <3>2, <1>b
    <3> QED BY <3>1, <3>2, <1>10
  <2> HIDE DEF approvals
  <2>3. rows \subseteq Request /\ OneMode(rows)
    <3> DEFINE locks == LockAll("session", ss) \cup LockAll("unit", ss)
    <3>1. locks \subseteq Request /\ OneMode(locks) /\ \A r \in locks : r.kind \in {"session", "unit"}
      <4>1. /\ LockAll("unit", ss) \subseteq Request /\ LockAll("session", ss) \subseteq Request
            /\ OneMode(LockAll("unit", ss)) /\ OneMode(LockAll("session", ss))
            /\ \A r \in LockAll("unit", ss) : r.kind = "unit"
            /\ \A r \in LockAll("session", ss) : r.kind = "session"
        <5>1. ss \in SUBSET Nat
          BY <1>a, <1>b
        <5>2. /\ LockAll("unit", ss) \subseteq Request /\ LockAll("session", ss) \subseteq Request
              /\ \A r \in LockAll("unit", ss) : r = Lock("unit", r.id) /\ r.kind = "unit"
              /\ \A r \in LockAll("session", ss) : r = Lock("session", r.id) /\ r.kind = "session"
          BY <5>1, LockAllTypes DEF Kinds
        <5> QED BY <5>2 DEF OneMode
      <4>2. OneMode(locks)
        BY ONLY <4>1, DisjointKinds DEF locks
      <4>3. locks \subseteq Request /\ \A r \in locks : r.kind \in {"session", "unit"}
        BY ONLY <4>1 DEF locks
      <4> QED BY <4>2, <4>3
    <3>2. rows = locks \cup approvals
      OBVIOUS
    <3> HIDE DEF Ops, Elsewhere, Disordered, locks, rows
    <3>3. \A r \in locks, q \in approvals : r.kind # q.kind
      BY <2>2, <3>1
    <3> QED BY <2>2, <3>1, <3>2, <3>3, DisjointKinds
  <2>4. WellBegun(t, "units", 0, rows, {})
    BY <2>3 DEF WellBegun
  <2>5. Begin(t, "units", 0, rows, {})
    BY <2>1 DEF approvals
  <2> QED BY <2>4, <2>5
<1>16. CASE AdvanceUnits(t)
  <2>1. PICK ss \in SUBSET Open : Begin(t, "advance", 0, LockAll("unit", ss), {})
    BY <1>16 DEF AdvanceUnits
  <2>2. WellBegun(t, "advance", 0, LockAll("unit", ss), {})
    BY <1>14 DEF WellBegun
  <2> QED BY <2>1, <2>2
<1>17. CASE LockShift(t)
  <2>1. WellBegun(t, "shift", 0, {Lock("shift", 0)}, {})
    BY LockTypes DEF WellBegun, OneMode, Kinds
  <2> QED BY <1>17, <2>1 DEF LockShift
<1>18. ASSUME NEW m \in Staff, NEW mode \in {"nokey", "keyshare"}
       PROVE  /\ [kind |-> "identity", id |-> m, mode |-> mode] \in Request
              /\ Lock("managers", 0) \in Request /\ Lock("managers", 0).kind = "managers"
  BY <1>a, LockTypes DEF Request, Kinds
<1>19. CASE SetStaffEnabled(t)
  <2>1. PICK m \in Staff, profile \in BOOLEAN :
          Begin(t, "staff", m,
              {Lock("managers", 0), [kind |-> "identity", id |-> m, mode |-> "nokey"]}
              \cup LockAll("roles", IF profile THEN {m} ELSE {}), {})
    BY <1>19 DEF SetStaffEnabled
  <2> DEFINE ids == IF profile THEN {m} ELSE {}
             key == [kind |-> "identity", id |-> m, mode |-> "nokey"]
             rows == {Lock("managers", 0), key} \cup LockAll("roles", ids)
  <2>2. ids \in SUBSET Nat /\ m \in Nat
    BY <1>a
  <2>3. /\ LockAll("roles", ids) \subseteq Request
        /\ \A r \in LockAll("roles", ids) : r = Lock("roles", r.id) /\ r.kind = "roles"
    BY <2>2, LockAllTypes DEF Kinds
  <2>4. key \in Request /\ key.kind = "identity"
    BY <1>18
  <2> HIDE DEF ids, key
  <2>5. rows \subseteq Request /\ OneMode(rows)
    BY <2>3, <2>4, <1>18 DEF OneMode
  <2>6. WellBegun(t, "staff", m, rows, {})
    BY <2>2, <2>5 DEF WellBegun
  <2>7. Begin(t, "staff", m, rows, {})
    BY <2>1 DEF ids, key
  <2> QED BY <2>6, <2>7
<1>20. CASE ReplaceStaffRoles(t)
  <2>1. PICK m \in Staff :
          Begin(t, "roles", m,
                {Lock("managers", 0), Lock("roles", m),
                 [kind |-> "identity", id |-> m, mode |-> "keyshare"]}, {})
    BY <1>20 DEF ReplaceStaffRoles
  <2> DEFINE key == [kind |-> "identity", id |-> m, mode |-> "keyshare"]
  <2>2. m \in Nat /\ Lock("roles", m) \in Request
    BY <1>a, LockTypes DEF Kinds
  <2>3. key \in Request
    BY <1>18
  <2> HIDE DEF key
  <2>4. WellBegun(t, "roles", m, {Lock("managers", 0), Lock("roles", m), key}, {})
    BY <2>2, <2>3, <1>18 DEF WellBegun
  <2>5. Begin(t, "roles", m, {Lock("managers", 0), Lock("roles", m), key}, {})
    BY <2>1 DEF key
  <2> QED BY <2>4, <2>5
<1> QED
  BY <1>1, <1>2, <1>3, <1>4, <1>5, <1>6, <1>7, <1>9, <1>11, <1>12, <1>13, <1>15, <1>16,
     <1>17, <1>19, <1>20 DEF Beginning
-----------------------------------------------------------------------------
(* What the steps do.                                                       *)

\* A command that ends: its transaction is idle again.
Ends(t) == txn[t].op # "idle" /\ Release(t)

\* Each step of a command is one of a few.
LEMMA StepCases ==
  ASSUME Next
  PROVE  \E t \in Txns :
            \/ Beginning(t) \/ Acquire(t) \/ NextSequence(t) \/ CountActiveManagers(t)
            \/ FinishStart(t) \/ FinishTables(t) \/ FinishEnd(t) \/ FinishAvailability(t)
            \/ FinishWithNewCheck(t) \/ FinishStaff(t)
            \/ /\ Release(t) /\ UNCHANGED <<session, checks, available, managers>>
BY DEF Next, Beginning, FinishElsewhere, Abort

\* A transaction's record, and what an idle one is.
LEMMA Types ==
  ASSUME TypeOK
  PROVE  /\ txn = [t \in Txns |-> txn[t]]
         /\ \A t \in Txns :
              /\ txn[t] \in Command
              /\ txn[t].op \in Ops /\ txn[t].of \in Nat /\ txn[t].want \subseteq Tables
              /\ txn[t].todo \subseteq Request /\ txn[t].held \subseteq Request
              /\ txn[t].read \in BOOLEAN /\ txn[t].seen \in Nat
BY DEF TypeOK, Command

\* A transaction that runs nothing holds and wants nothing.
LEMMA IdleGood ==
  /\ Idle \in Command /\ Idle.op = "idle" /\ Idle.todo = {} /\ Idle.held = {}
  /\ Idle.read = FALSE /\ Idle.seen = 0
BY DEF Idle, Command, Ops

\* Ending a transaction keeps the types and the other transactions.
LEMMA ReleaseTypes ==
  ASSUME TypeOK, NEW t \in Txns, Release(t)
  PROVE  /\ txn' \in [Txns -> Command]
         /\ txn'[t] = Idle /\ \A u \in Txns \ {t} : txn'[u] = txn[u]
BY Types, IdleGood DEF Release

\* Starting a command keeps the types, the other transactions and the rows.
LEMMA BeginTypes ==
  ASSUME TypeOK, NEW t \in Txns, NEW op, NEW of, NEW rows, NEW want,
         WellBegun(t, op, of, rows, want), Begin(t, op, of, rows, want)
  PROVE  /\ txn' \in [Txns -> Command]
         /\ \A u \in Txns \ {t} : txn'[u] = txn[u]
         /\ txn'[t].op = op /\ txn'[t].of = of /\ txn'[t].want = want
         /\ txn'[t].todo = rows /\ txn'[t].held = {} /\ txn'[t].read = FALSE
         /\ UNCHANGED <<session, checks, available, managers>>
<1>1. /\ txn'[t] = [Idle EXCEPT !.op = op, !.of = of, !.want = want, !.todo = rows]
      /\ \A u \in Txns \ {t} : txn'[u] = txn[u]
      /\ txn' = [u \in Txns |-> txn'[u]]
  BY Types DEF Begin
<1>2. [Idle EXCEPT !.op = op, !.of = of, !.want = want, !.todo = rows] \in Command
  BY DEF Idle, Command, WellBegun
<1> QED BY <1>1, <1>2, Types DEF Begin, Idle

\* What a lock's row tells a command to lock next are lock requests.
LEMMA DiscoversTypes ==
  ASSUME TypeOK, NEW t \in Txns, NEW r \in txn[t].todo, NEW more \in Discovers(t, r)
  PROVE  more \subseteq Request
<1>1. txn[t].want \in SUBSET Nat /\ Created \subseteq Nat
  BY Types, CreatedInNat, IdAssumption
<1>2. ChecksOf(txn[t].of) \in SUBSET Nat
  BY <1>1 DEF ChecksOf
<1>3. \A cs \in SUBSET Nat : LockAll("check", cs) \subseteq Request /\ LockAll("table", cs) \subseteq Request
  BY LockAllTypes DEF Kinds
<1> QED BY <1>1, <1>2, <1>3 DEF Discovers

\* Taking a lock moves its request from those wanted to those held.
LEMMA AcquireTypes ==
  ASSUME TypeOK, NEW t \in Txns, NEW r \in NextRequests(t), NEW more \in Discovers(t, r),
         txn' = [txn EXCEPT ![t].todo = (@ \ {r}) \cup more, ![t].held = @ \cup {r}]
  PROVE  /\ txn' \in [Txns -> Command]
         /\ \A u \in Txns \ {t} : txn'[u] = txn[u]
         /\ txn'[t] = [txn[t] EXCEPT !.todo = (@ \ {r}) \cup more, !.held = @ \cup {r}]
         /\ r \in Request /\ r \in txn[t].todo /\ more \subseteq Request
<1>1. r \in txn[t].todo /\ r \in Request
  BY Types DEF NextRequests
<1>2. more \subseteq Request
  BY <1>1, DiscoversTypes
<1>3. [txn[t] EXCEPT !.todo = (@ \ {r}) \cup more, !.held = @ \cup {r}] \in Command
  BY <1>1, <1>2, Types DEF Command
<1> QED BY <1>1, <1>2, <1>3, Types

\* Reading a count or a number is kept in the reader's command alone.
LEMMA SeeTypes ==
  ASSUME TypeOK, NEW t \in Txns, NEW n \in Nat, See(t, n)
  PROVE  /\ txn' \in [Txns -> Command]
         /\ \A u \in Txns \ {t} : txn'[u] = txn[u]
         /\ txn'[t] = [txn[t] EXCEPT !.read = TRUE, !.seen = n]
         /\ UNCHANGED <<session, checks, available, managers>>
<1>1. [txn[t] EXCEPT !.read = TRUE, !.seen = n] \in Command
  BY Types DEF Command
<1> QED BY <1>1, Types DEF See
-----------------------------------------------------------------------------
(* Locks are compatible.                                                    *)

\* A step that adds no lock to anybody's keeps them so.
LEMMA FewerLocks ==
  ASSUME HeldCompatible, NEW t \in Txns, txn'[t].held \subseteq txn[t].held,
         \A u \in Txns \ {t} : txn'[u] = txn[u]
  PROVE  HeldCompatible'
<1>1. \A u \in Txns : txn'[u].held \subseteq txn[u].held
  OBVIOUS
<1> QED BY <1>1 DEF HeldCompatible, Conflict

\* A lock is taken only when nobody holds one against it.
LEMMA AcquireCompatible ==
  ASSUME IInv, NEW t \in Txns, Acquire(t)
  PROVE  HeldCompatible'
<1>0. TypeOK /\ HeldCompatible
  BY DEF IInv
<1>r. PICK r \in NextRequests(t) : \E more \in Discovers(t, r) :
        /\ \A u \in Txns \ {t} : ~ Blocks(u, r)
        /\ txn' = [txn EXCEPT ![t].todo = (@ \ {r}) \cup more, ![t].held = @ \cup {r}]
  BY DEF Acquire
<1>1. PICK more \in Discovers(t, r) :
        /\ \A u \in Txns \ {t} : ~ Blocks(u, r)
        /\ txn' = [txn EXCEPT ![t].todo = (@ \ {r}) \cup more, ![t].held = @ \cup {r}]
  BY <1>r
<1>2. /\ \A u \in Txns \ {t} : txn'[u] = txn[u]
      /\ txn'[t].held = txn[t].held \cup {r} /\ r \in Request
      /\ \A u \in Txns : txn[u].held \subseteq Request
  <2>1. \A u \in Txns : txn[u] \in Command
    BY <1>0, Types
  <2>2. txn'[t].held = [txn[t] EXCEPT !.todo = (@ \ {r}) \cup more, !.held = @ \cup {r}].held
    BY <1>0, <1>1, AcquireTypes
  <2>3. r \in Request /\ \A u \in Txns \ {t} : txn'[u] = txn[u]
    BY <1>0, <1>1, AcquireTypes
  <2> QED BY <2>1, <2>2, <2>3 DEF Command
<1>3. \A u \in Txns \ {t} : \A h \in txn[u].held : ~ Conflict(r, h) /\ ~ Conflict(h, r)
  BY <1>1, <1>2, ConflictSymmetric DEF Blocks
<1> SUFFICES ASSUME NEW a \in Txns, NEW b \in Txns, a # b,
                    NEW h \in txn'[a].held, NEW k \in txn'[b].held
             PROVE  ~ Conflict(h, k)
  BY DEF HeldCompatible, Conflict
<1>4. CASE h \in txn[a].held /\ k \in txn[b].held
  BY <1>0, <1>4 DEF HeldCompatible
<1>5. CASE h \notin txn[a].held
  BY <1>2, <1>3, <1>5
<1>6. CASE k \notin txn[b].held
  BY <1>2, <1>3, <1>6
<1> QED BY <1>4, <1>5, <1>6

\* Two commands never both hold the lock for update on a row.
LEMMA Exclusive ==
  ASSUME IInv, NEW t \in Txns, NEW u \in Txns, NEW kind \in Kinds, NEW id \in Nat,
         Lock(kind, id) \in txn[t].held, Lock(kind, id) \in txn[u].held
  PROVE  t = u
BY UpdateConflicts, LockTypes DEF IInv, HeldCompatible
-----------------------------------------------------------------------------
(* The invariant is inductive.                                              *)

\* A step that leaves the Sessions and the Managers alone, and adds no second
\* start of a Session, leaves the other commands good.
LEMMA OthersKept ==
  ASSUME IInv, NEW t \in Txns, \A u \in Txns \ {t} : txn'[u] = txn[u],
         UNCHANGED <<session, managers>>,
         txn'[t].op = "start" =>
            \A u \in Txns \ {t} : txn[u].op = "start" => txn[u].of # txn'[t].of
  PROVE  \A u \in Txns \ {t} : CommandGood(u)'
<1> SUFFICES ASSUME NEW u \in Txns \ {t} PROVE CommandGood(u)'
  OBVIOUS
<1>1. CommandGood(u) /\ txn'[u] = txn[u] /\ Begun' = Begun
  BY DEF IInv, Begun
<1>2. StartGood(u)'
  BY <1>1 DEF CommandGood, StartGood
<1>3. TablesGood(u)' /\ EndGood(u)' /\ StaffGood(u)' /\ OrderGood(u)'
  BY <1>1 DEF CommandGood, TablesGood, EndGood, StaffGood, OrderGood
<1> QED BY <1>2, <1>3 DEF CommandGood

\* A transaction that ended promises nothing.
LEMMA IdleCommandGood ==
  ASSUME NEW t \in Txns, txn'[t] = Idle
  PROVE  CommandGood(t)'
BY IdleGood DEF CommandGood, StartGood, TablesGood, EndGood, StaffGood, OrderGood, OneMode

\* The writes of a step that changes no table of the model.
LEMMA TablesSame ==
  ASSUME IInv, UNCHANGED <<session, checks, available, managers>>, txn' \in [Txns -> Command]
  PROVE  TypeOK' /\ ServiceNumbersUnique' /\ EndedHoldsNoTable' /\ ManagerRemains'
<1>1. Begun' = Begun
  BY DEF Begun
<1>2. TypeOK'
  BY <1>1 DEF IInv, TypeOK, Command
<1> QED
  BY <1>1, <1>2 DEF IInv, ServiceNumbersUnique, EndedHoldsNoTable, ManagerRemains

\* A command begins well and holds nothing.
LEMMA BeginInductive ==
  ASSUME IInv, NEW t \in Txns, Beginning(t)
  PROVE  IInv'
<1>1. PICK op, of, rows, want :
        WellBegun(t, op, of, rows, want) /\ Begin(t, op, of, rows, want)
  BY AllWellBegun
<1>2. /\ txn' \in [Txns -> Command]
      /\ \A u \in Txns \ {t} : txn'[u] = txn[u]
      /\ txn'[t].op = op /\ txn'[t].of = of /\ txn'[t].want = want
      /\ txn'[t].todo = rows /\ txn'[t].held = {} /\ txn'[t].read = FALSE
      /\ UNCHANGED <<session, checks, available, managers>>
  BY <1>1, BeginTypes DEF IInv
<1>3. TypeOK' /\ ServiceNumbersUnique' /\ EndedHoldsNoTable' /\ ManagerRemains'
  BY <1>2, TablesSame
<1>4. HeldCompatible'
  BY <1>2, FewerLocks DEF IInv
<1>5. \A u \in Txns \ {t} : CommandGood(u)'
  BY <1>1, <1>2, OthersKept DEF WellBegun
<1>6. Begun' = Begun
  BY <1>2 DEF Begun
<1>7. StartGood(t)'
  BY <1>1, <1>2, <1>6 DEF StartGood, WellBegun
<1>8. TablesGood(t)' /\ EndGood(t)' /\ StaffGood(t)' /\ OrderGood(t)'
  BY <1>1, <1>2, <1>6 DEF TablesGood, EndGood, StaffGood, OrderGood, WellBegun
<1> QED BY <1>3, <1>4, <1>5, <1>7, <1>8 DEF IInv, CommandGood

\* A command takes the soonest of the locks it asks for.
LEMMA AcquireOrder ==
  ASSUME TypeOK, NEW t \in Txns, OrderGood(t), txn[t].op \notin Disordered,
         NEW r \in NextRequests(t)
  PROVE  /\ \A q \in txn[t].todo \ {r} : Precedes(r, q)
         /\ \A h \in txn[t].held : Precedes(h, r)
<1>1. r \in txn[t].todo /\ txn[t].todo \subseteq Request
  BY Types DEF NextRequests
<1>2. OneMode(txn[t].todo) /\ \A h \in txn[t].held : Precedes(h, r)
  BY <1>1 DEF OrderGood
<1>3. ASSUME NEW q \in txn[t].todo \ {r}
      PROVE  Precedes(r, q)
  <2>1. ~ Precedes(q, r)
    BY CommonOrder DEF NextRequests
  <2>2. q \in Request /\ r \in Request
    BY <1>1
  <2>3. CheckFirst[q.kind] \in Nat /\ CheckFirst[r.kind] \in Nat /\ q.id \in Nat /\ r.id \in Nat
    BY <2>2, Ranked
  <2>4. q.kind = r.kind => q.id # r.id
    BY <1>1, <1>2 DEF OneMode
  <2>5. CheckFirst[q.kind] = CheckFirst[r.kind] => q.kind = r.kind
    BY <2>2, RanksTell
  <2> QED BY <2>1, <2>3, <2>4, <2>5 DEF Precedes
<1> QED BY <1>2, <1>3

\* Taking any lock keeps the invariant.
LEMMA AcquireInductive ==
  ASSUME IInv, NEW t \in Txns, Acquire(t)
  PROVE  IInv'
<1>0. TypeOK /\ CommandGood(t)
  BY DEF IInv
<1>a. PICK r \in NextRequests(t) : \E more \in Discovers(t, r) :
        /\ Admits(t, r)
        /\ txn' = [txn EXCEPT ![t].todo = (@ \ {r}) \cup more, ![t].held = @ \cup {r}]
        /\ UNCHANGED <<session, checks, available, managers>>
  BY DEF Acquire
<1>1. PICK more \in Discovers(t, r) :
        /\ Admits(t, r)
        /\ txn' = [txn EXCEPT ![t].todo = (@ \ {r}) \cup more, ![t].held = @ \cup {r}]
        /\ UNCHANGED <<session, checks, available, managers>>
  BY <1>a
<1>2. /\ txn' \in [Txns -> Command]
      /\ \A u \in Txns \ {t} : txn'[u] = txn[u]
      /\ txn'[t] = [txn[t] EXCEPT !.todo = (@ \ {r}) \cup more, !.held = @ \cup {r}]
      /\ r \in Request /\ r \in txn[t].todo /\ more \subseteq Request
  BY <1>0, <1>1, AcquireTypes
<1>3. /\ txn'[t].op = txn[t].op /\ txn'[t].of = txn[t].of
      /\ txn'[t].read = txn[t].read /\ txn'[t].seen = txn[t].seen
      /\ txn'[t].todo = (txn[t].todo \ {r}) \cup more /\ txn'[t].held = txn[t].held \cup {r}
  <2>1. txn[t] \in Command
    BY <1>0, Types
  <2> QED BY <1>2, <2>1 DEF Command
<1>4. TypeOK' /\ ServiceNumbersUnique' /\ EndedHoldsNoTable' /\ ManagerRemains'
  BY <1>1, <1>2, TablesSame
<1>5. HeldCompatible'
  BY AcquireCompatible
<1>6. \A u \in Txns \ {t} : CommandGood(u)'
  <2>1. txn[t].op = "start" =>
          \A u \in Txns \ {t} : txn[u].op = "start" => txn[u].of # txn[t].of
    BY <1>0 DEF CommandGood, StartGood
  <2> QED BY <1>1, <1>2, <1>3, <2>1, OthersKept
<1>7. Begun' = Begun
  BY <1>1 DEF Begun
<1>8. StartGood(t)'
  <2>1. txn[t].op = "start" => ~ txn[t].read
    BY <1>0, <1>2 DEF CommandGood, StartGood
  <2> QED BY <1>0, <1>1, <1>2, <1>3, <1>7, <2>1 DEF CommandGood, StartGood
<1>9. EndGood(t)' /\ StaffGood(t)'
  <2>1. txn[t].todo \cup txn[t].held \subseteq txn'[t].todo \cup txn'[t].held
    BY <1>3
  <2>2. EndGood(t) /\ StaffGood(t) /\ managers' = managers
    BY <1>0, <1>1 DEF CommandGood
  <2>3. EndGood(t)'
    BY <1>3, <1>7, <2>1, <2>2 DEF EndGood
  <2>4. StaffGood(t)'
    BY <1>3, <2>1, <2>2 DEF StaffGood
  <2> QED BY <2>3, <2>4
<1>10. CASE txn[t].op = "tables" /\ txn[t].held = {}
  <2>1. txn[t].todo = {Lock("session", txn[t].of)} /\ r = Lock("session", txn[t].of)
        /\ txn[t].of \in Sessions /\ txn[t].of \in Nat
    BY <1>0, <1>2, <1>10, IdAssumption DEF CommandGood, TablesGood
  <2>2. r.kind = "session" /\ r.id = txn[t].of
    BY <2>1, LockTypes DEF Kinds
  <2>3. more = LockAll("table", txn[t].want \ session[r.id].tables)
    BY <1>1, <1>10, <2>2 DEF Discovers
  <2>4. txn[t].want \ session[r.id].tables \in SUBSET Nat
    BY <1>0, Types, IdAssumption
  <2>5. \A q \in more : q = Lock("table", q.id) /\ q.kind = "table" /\ q.mode = "update"
    BY <2>3, <2>4, LockAllTypes DEF Kinds
  <2>6. session[txn[t].of].state = "ACTIVE"
    BY <1>1, <1>10, <2>2 DEF Admits, NeedsActive
  <2>7. TablesGood(t)'
    BY <1>1, <1>3, <1>10, <2>1, <2>5, <2>6 DEF TablesGood
  <2>8. txn'[t].todo = more /\ txn'[t].held = {r}
    BY <1>3, <1>10, <2>1
  <2>9. OrderGood(t)'
    BY <2>2, <2>5, <2>8 DEF OrderGood, OneMode, Precedes, CheckFirst
  <2> QED BY <1>4, <1>5, <1>6, <1>8, <1>9, <2>7, <2>9 DEF IInv, CommandGood
<1>11. CASE ~ (txn[t].op = "tables" /\ txn[t].held = {})
  <2>1. txn[t].op = "tables" => r.kind = "table"
    BY <1>0, <1>2, <1>11 DEF CommandGood, TablesGood
  <2>2. txn[t].op \notin Disordered => more = {}
    BY <1>1, <2>1 DEF Discovers, Disordered, ByCreation, OfDraft
  <2>3. TablesGood(t)'
    BY <1>0, <1>1, <1>3, <1>11, <2>2 DEF CommandGood, TablesGood, Disordered, ByCreation, OfDraft
  <2>4. OrderGood(t)'
    <3> SUFFICES ASSUME txn[t].op \notin Disordered
                 PROVE  OneMode(txn[t].todo \ {r})
                        /\ \A h \in txn[t].held \cup {r}, q \in txn[t].todo \ {r} : Precedes(h, q)
      BY <1>3, <2>2 DEF OrderGood
    <3>1. OrderGood(t)
      BY <1>0 DEF CommandGood
    <3>2. \A q \in txn[t].todo \ {r} : Precedes(r, q)
      BY <1>0, <3>1, AcquireOrder
    <3> QED BY <3>1, <3>2 DEF OrderGood, OneMode
  <2> QED BY <1>4, <1>5, <1>6, <1>8, <1>9, <2>3, <2>4 DEF IInv, CommandGood
<1> QED BY <1>10, <1>11
\* A start reads the maximum under the lock on the Shift's numbers; a change of
\* the staff counts the Managers under theirs.
LEMMA NextSequenceInductive ==
  ASSUME IInv, NEW t \in Txns, NextSequence(t)
  PROVE  IInv'
<1>0. TypeOK /\ CommandGood(t)
  BY DEF IInv
<1>1. PICK last \in {0} \cup {session[s].number : s \in Sessions} :
        /\ \A s \in Sessions : session[s].number <= last
        /\ Ready(t, "start") /\ See(t, last + 1)
  BY DEF NextSequence
<1>2. last \in Nat /\ \A s \in Sessions : session[s].number \in Nat
  BY <1>0, <1>1 DEF TypeOK, SessionRow
<1>3. /\ txn' \in [Txns -> Command]
      /\ \A u \in Txns \ {t} : txn'[u] = txn[u]
      /\ txn'[t] = [txn[t] EXCEPT !.read = TRUE, !.seen = last + 1]
      /\ UNCHANGED <<session, checks, available, managers>>
  <2>1. last + 1 \in Nat /\ See(t, last + 1)
    BY <1>1, <1>2
  <2> HIDE DEF See
  <2> QED BY ONLY <1>0, <2>1, SeeTypes, t \in Txns
<1>4. /\ txn'[t].op = "start" /\ txn[t].op = "start" /\ txn'[t].of = txn[t].of
      /\ txn'[t].todo = {} /\ txn[t].todo = {} /\ txn'[t].held = txn[t].held
      /\ txn'[t].seen = last + 1
  <2>1. txn[t] \in Command
    BY <1>0, Types
  <2> QED BY <1>1, <1>3, <2>1 DEF Command, Ready
<1>5. TypeOK' /\ ServiceNumbersUnique' /\ EndedHoldsNoTable' /\ ManagerRemains'
  BY <1>3, TablesSame
<1>6. HeldCompatible'
  BY <1>3, <1>4, FewerLocks DEF IInv
<1>7. \A u \in Txns \ {t} : CommandGood(u)'
  <2>1. \A u \in Txns \ {t} : txn[u].op = "start" => txn[u].of # txn'[t].of
    BY <1>0, <1>4 DEF CommandGood, StartGood
  <2> QED BY <1>3, <2>1, OthersKept
<1>8. Begun' = Begun
  BY <1>3 DEF Begun
<1>9. StartGood(t)'
  <2>1. \A s \in Sessions : session[s].number < last + 1
    BY <1>1, <1>2
  <2> QED BY <1>0, <1>2, <1>3, <1>4, <1>8, <2>1 DEF CommandGood, StartGood
<1>10. TablesGood(t)' /\ EndGood(t)' /\ StaffGood(t)' /\ OrderGood(t)'
  BY <1>4 DEF TablesGood, EndGood, StaffGood, OrderGood, OneMode
<1> QED BY <1>5, <1>6, <1>7, <1>9, <1>10 DEF IInv, CommandGood

\* Counting the managers keeps the invariant.
LEMMA CountInductive ==
  ASSUME IInv, NEW t \in Txns, CountActiveManagers(t)
  PROVE  IInv'
<1>0. TypeOK /\ CommandGood(t)
  BY DEF IInv
<1>1. Cardinality(managers) \in Nat
  <2>1. managers \subseteq Staff /\ IsFiniteSet(Staff)
    BY <1>0, StaffAssumption DEF TypeOK
  <2> QED BY <2>1, FS_Subset, FS_CardinalityType
<1>2. /\ txn' \in [Txns -> Command]
      /\ \A u \in Txns \ {t} : txn'[u] = txn[u]
      /\ txn'[t] = [txn[t] EXCEPT !.read = TRUE, !.seen = Cardinality(managers)]
      /\ UNCHANGED <<session, checks, available, managers>>
  BY <1>0, <1>1, SeeTypes DEF CountActiveManagers
<1>3. /\ txn'[t].op = txn[t].op /\ txn[t].op \in {"staff", "roles"} /\ txn'[t].of = txn[t].of
      /\ txn'[t].todo = txn[t].todo /\ txn'[t].held = txn[t].held
      /\ txn'[t].seen = Cardinality(managers) /\ Lock("managers", 0) \in txn[t].held
  <2>1. txn[t] \in Command
    BY <1>0, Types
  <2> QED BY <1>2, <2>1 DEF Command, CountActiveManagers
<1>4. TypeOK' /\ ServiceNumbersUnique' /\ EndedHoldsNoTable' /\ ManagerRemains'
  BY <1>2, TablesSame
<1>5. HeldCompatible'
  BY <1>2, <1>3, FewerLocks DEF IInv
<1>6. \A u \in Txns \ {t} : CommandGood(u)'
  BY <1>2, <1>3, OthersKept
<1>7. StartGood(t)' /\ TablesGood(t)' /\ EndGood(t)'
  BY <1>3 DEF StartGood, TablesGood, EndGood
<1>8. StaffGood(t)'
  BY <1>0, <1>2, <1>3 DEF CommandGood, StaffGood
<1>9. OrderGood(t)'
  BY <1>0, <1>3 DEF CommandGood, OrderGood
<1> QED BY <1>4, <1>5, <1>6, <1>7, <1>8, <1>9 DEF IInv, CommandGood

\* A command ends: its own locks go, the others' stay compatible.
LEMMA ReleaseLocks ==
  ASSUME IInv, NEW t \in Txns, Release(t)
  PROVE  /\ HeldCompatible' /\ CommandGood(t)'
         /\ txn' \in [Txns -> Command] /\ txn'[t] = Idle
         /\ \A u \in Txns \ {t} : txn'[u] = txn[u]
<1>1. /\ txn' \in [Txns -> Command] /\ txn'[t] = Idle
      /\ \A u \in Txns \ {t} : txn'[u] = txn[u]
  BY ReleaseTypes DEF IInv
<1>2. HeldCompatible'
  BY <1>1, FewerLocks, IdleGood DEF IInv
<1> QED BY <1>1, <1>2, IdleCommandGood

\* Availability, new Checks, refusals and the writes of other modules.
LEMMA ReleaseInductive ==
  ASSUME IInv, NEW t \in Txns, Release(t), UNCHANGED <<session, managers>>,
         checks' \in Seq(Checks), available' \subseteq Tables
  PROVE  IInv'
<1>1. /\ HeldCompatible' /\ CommandGood(t)'
      /\ txn' \in [Txns -> Command] /\ txn'[t] = Idle
      /\ \A u \in Txns \ {t} : txn'[u] = txn[u]
  BY ReleaseLocks
<1>2. \A u \in Txns \ {t} : CommandGood(u)'
  BY <1>1, IdleGood, OthersKept
<1>3. Begun' = Begun
  BY DEF Begun
<1>4. TypeOK'
  BY <1>1, <1>3 DEF IInv, TypeOK, Command
<1>5. ServiceNumbersUnique' /\ EndedHoldsNoTable' /\ ManagerRemains'
  BY <1>3 DEF IInv, ServiceNumbersUnique, EndedHoldsNoTable, ManagerRemains
<1> QED BY <1>1, <1>2, <1>4, <1>5 DEF IInv
\* A Session starts: no other start is of it, and its number is past all.
LEMMA FinishStartInductive ==
  ASSUME IInv, NEW t \in Txns, FinishStart(t)
  PROVE  IInv'
<1> DEFINE s == txn[t].of
           row == [state |-> "ACTIVE", number |-> txn[t].seen, tables |-> txn[t].want]
<1>0. TypeOK /\ CommandGood(t)
  BY DEF IInv
<1>1. /\ HeldCompatible' /\ CommandGood(t)'
      /\ txn' \in [Txns -> Command] /\ txn'[t] = Idle
      /\ \A u \in Txns \ {t} : txn'[u] = txn[u]
      /\ session' = [session EXCEPT ![s] = row]
      /\ UNCHANGED <<checks, available, managers>>
  BY ReleaseLocks DEF FinishStart
<1>2. /\ s \in Sessions \ Begun /\ txn[t].op = "start" /\ txn[t].todo = {}
      /\ Lock("number", 0) \in txn[t].held
      /\ txn[t].seen > 0 /\ \A u \in Sessions : session[u].number < txn[t].seen
      /\ \A u \in Txns \ {t} : txn[u].op = "start" => txn[u].of # s
  BY <1>0 DEF FinishStart, Ready, CommandGood, StartGood
<1>3. row \in SessionRow /\ row.number = txn[t].seen /\ row.state = "ACTIVE"
  BY <1>0, Types DEF SessionRow
<1> HIDE DEF s, row
<1>4. /\ session' \in [Sessions -> SessionRow] /\ session'[s] = row
      /\ \A u \in Sessions \ {s} : session'[u] = session[u]
  BY <1>0, <1>1, <1>2, <1>3 DEF TypeOK
<1>5. Begun' = Begun \cup {s}
  BY <1>2, <1>3, <1>4 DEF Begun
<1>6. \A u \in Sessions : session[u].number \in Nat
  BY <1>0 DEF TypeOK, SessionRow
<1>7. TypeOK'
  BY <1>0, <1>1, <1>2, <1>3, <1>4, <1>5 DEF TypeOK, Command
<1>8. ServiceNumbersUnique'
  <2>1. ServiceNumbersUnique /\ Begun \subseteq Sessions /\ s \notin Begun
    BY <1>2 DEF IInv, Begun
  <2>2. \A u \in Begun : session'[u] = session[u] /\ session[u].number < session'[s].number
    BY <1>2, <1>3, <1>4, <2>1
  <2>3. \A u \in Begun : session'[u].number # session'[s].number
    BY <1>2, <1>3, <1>4, <1>6, <2>1, <2>2
  <2> QED BY <1>5, <2>1, <2>2, <2>3 DEF ServiceNumbersUnique
<1>9. EndedHoldsNoTable' /\ ManagerRemains'
  BY <1>1, <1>3, <1>4 DEF IInv, EndedHoldsNoTable, ManagerRemains
<1>10. ASSUME NEW u \in Txns \ {t}
       PROVE  CommandGood(u)'
  <2>1. CommandGood(u) /\ txn'[u] = txn[u]
    BY <1>1 DEF IInv
  <2>2. StartGood(u)'
    <3> SUFFICES ASSUME txn[u].op = "start" PROVE StartGood(u)'
      BY <2>1 DEF StartGood
    <3>1. txn[u].of \in Sessions \ Begun'
      BY <1>2, <1>5, <2>1 DEF CommandGood, StartGood
    <3>2. ~ txn[u].read
      <4>1. txn[u].read => Lock("number", 0) \in txn[u].held
        BY <2>1 DEF CommandGood, StartGood
      <4> QED BY <1>2, <4>1, Exclusive DEF Kinds
    <3>3. \A v \in Txns \ {u} : txn'[v].op = "start" => txn'[v].of # txn[u].of
      BY <1>1, <2>1, IdleGood DEF CommandGood, StartGood
    <3> QED BY <2>1, <3>1, <3>2, <3>3 DEF CommandGood, StartGood
  <2>3. TablesGood(u)'
    <3>1. \A q \in Sessions : session[q].state = "ACTIVE" => session'[q] = session[q]
      BY <1>2, <1>4 DEF Begun
    <3> QED BY <2>1, <3>1 DEF CommandGood, TablesGood
  <2>4. EndGood(u)'
    BY <2>1, <1>5 DEF CommandGood, EndGood
  <2>5. StaffGood(u)' /\ OrderGood(u)'
    BY <2>1, <1>1 DEF CommandGood, StaffGood, OrderGood
  <2> QED BY <2>2, <2>3, <2>4, <2>5 DEF CommandGood
<1> QED BY <1>1, <1>7, <1>8, <1>9, <1>10 DEF IInv

\* The Session of a reassignment is still ACTIVE, and whoever ends a Session
\* holds its lock.
LEMMA SessionWriteInductive ==
  ASSUME IInv, NEW t \in Txns, Release(t), NEW s \in Begun, NEW row \in SessionRow,
         Lock("session", s) \in txn[t].held,
         session' = [session EXCEPT ![s] = row],
         row.number = session[s].number,
         row.state # "ABSENT", row.state = "ENDED" => row.tables = {},
         UNCHANGED <<checks, available, managers>>
  PROVE  IInv'
<1>0. TypeOK /\ s \in Sessions /\ s \in Nat
  BY IdAssumption DEF IInv, Begun
<1>1. /\ HeldCompatible' /\ CommandGood(t)'
      /\ txn' \in [Txns -> Command] /\ txn'[t] = Idle
      /\ \A u \in Txns \ {t} : txn'[u] = txn[u]
  BY ReleaseLocks
<1>2. /\ session' \in [Sessions -> SessionRow] /\ session'[s] = row
      /\ \A u \in Sessions \ {s} : session'[u] = session[u]
  BY <1>0 DEF TypeOK
<1>3. Begun' = Begun
  BY <1>0, <1>2 DEF Begun
<1>4. TypeOK'
  BY <1>0, <1>1, <1>2, <1>3 DEF TypeOK, Command
<1>5. ServiceNumbersUnique'
  BY <1>0, <1>2, <1>3 DEF IInv, ServiceNumbersUnique, Begun
<1>6. EndedHoldsNoTable' /\ ManagerRemains'
  BY <1>0, <1>2 DEF IInv, EndedHoldsNoTable, ManagerRemains
<1>7. ASSUME NEW u \in Txns \ {t}
      PROVE  CommandGood(u)'
  <2>1. CommandGood(u) /\ txn'[u] = txn[u]
    BY <1>1 DEF IInv
  <2>2. StartGood(u)'
    <3>1. \A q \in Sessions : session'[q].number = session[q].number
      BY <1>0, <1>2
    <3>2. \A v \in Txns \ {u} : txn'[v].op = "start" => txn'[v] = txn[v]
      BY <1>1, IdleGood
    <3> QED BY <2>1, <1>3, <3>1, <3>2 DEF CommandGood, StartGood
  <2>3. TablesGood(u)'
    <3>1. Lock("session", s) \notin txn[u].held
      BY <1>0, Exclusive DEF Kinds
    <3>2. txn[u].op = "tables" /\ Lock("session", txn[u].of) \in txn[u].held =>
            session'[txn[u].of] = session[txn[u].of]
      BY <1>2, <2>1, <3>1 DEF CommandGood, TablesGood
    <3> QED BY <2>1, <3>2 DEF CommandGood, TablesGood
  <2>4. EndGood(u)'
    BY <2>1, <1>3 DEF CommandGood, EndGood
  <2>5. StaffGood(u)' /\ OrderGood(u)'
    BY <2>1 DEF CommandGood, StaffGood, OrderGood
  <2> QED BY <2>2, <2>3, <2>4, <2>5 DEF CommandGood
<1> QED BY <1>1, <1>4, <1>5, <1>6, <1>7 DEF IInv

\* The commit of Set Session Tables keeps the invariant: the tables were locked and free.
LEMMA FinishTablesInductive ==
  ASSUME IInv, NEW t \in Txns, FinishTables(t)
  PROVE  IInv'
<1> DEFINE s == txn[t].of
           row == [session[s] EXCEPT !.tables = txn[t].want]
<1>0. TypeOK /\ CommandGood(t)
  BY DEF IInv
<1>1. /\ s \in Sessions /\ Lock("session", s) \in txn[t].held /\ session[s].state = "ACTIVE"
  BY <1>0 DEF FinishTables, Ready, CommandGood, TablesGood
<1>2. s \in Begun
  BY <1>1 DEF Begun
<1>3. session[s] \in SessionRow /\ txn[t].want \subseteq Tables
  BY <1>0, <1>1, Types DEF TypeOK
<1>4. row \in SessionRow /\ row.number = session[s].number /\ row.state = "ACTIVE"
  BY <1>1, <1>3 DEF SessionRow
<1>5. session' = [session EXCEPT ![s] = row]
  BY DEF FinishTables
<1> HIDE DEF s, row
<1> QED BY <1>1, <1>2, <1>4, <1>5, SessionWriteInductive DEF FinishTables

\* The commit that ends a Session keeps the invariant: it releases its tables.
LEMMA FinishEndInductive ==
  ASSUME IInv, NEW t \in Txns, FinishEnd(t)
  PROVE  IInv'
<1> DEFINE s == txn[t].of
           row == [session[s] EXCEPT !.state = "ENDED", !.tables = {}]
<1>0. TypeOK /\ CommandGood(t)
  BY DEF IInv
<1>1. s \in Begun /\ s \in Sessions /\ Lock("session", s) \in txn[t].held
  BY <1>0 DEF FinishEnd, Ready, CommandGood, EndGood, Begun
<1>2. session[s] \in SessionRow
  BY <1>0, <1>1 DEF TypeOK
<1>3. row \in SessionRow /\ row.number = session[s].number /\ row.state = "ENDED" /\ row.tables = {}
  BY <1>2 DEF SessionRow
<1>4. session' = [session EXCEPT ![s] = row]
  <2>1. session = [u \in Sessions |-> session[u]]
    BY <1>0 DEF TypeOK
  <2> QED BY <1>1, <1>2, <2>1 DEF FinishEnd, SessionRow
<1> HIDE DEF s, row
<1> QED BY <1>1, <1>3, <1>4, SessionWriteInductive DEF FinishEnd
\* Who changes the Managers holds the lock they were counted under, and one of
\* them is left.
LEMMA FinishStaffInductive ==
  ASSUME IInv, NEW t \in Txns, FinishStaff(t)
  PROVE  IInv'
<1>0. TypeOK /\ CommandGood(t) /\ ManagerRemains
  BY DEF IInv
<1>1. /\ HeldCompatible' /\ CommandGood(t)'
      /\ txn' \in [Txns -> Command] /\ txn'[t] = Idle
      /\ \A u \in Txns \ {t} : txn'[u] = txn[u]
      /\ UNCHANGED <<session, checks, available>>
  BY ReleaseLocks DEF FinishStaff
<1>2. /\ txn[t].of \in Staff /\ Lock("managers", 0) \in txn[t].held
      /\ txn[t].seen = Cardinality(managers)
  BY <1>0 DEF FinishStaff, Ready, CommandGood, StaffGood
<1>3. managers' \subseteq Staff
  BY <1>0, <1>2 DEF FinishStaff, TypeOK
<1>4. ManagerRemains'
  <2>1. CASE managers' = managers \cup {txn[t].of}
    BY <2>1 DEF ManagerRemains
  <2>2. CASE /\ txn[t].of \in managers => txn[t].seen > 1
             /\ managers' = managers \ {txn[t].of}
    <3>1. CASE txn[t].of \notin managers
      BY <1>0, <2>2, <3>1 DEF ManagerRemains
    <3>2. CASE txn[t].of \in managers
      <4>1. managers \in SUBSET Staff /\ IsFiniteSet(Staff)
        BY <1>0, StaffAssumption DEF TypeOK
      <4>2. IsFiniteSet(managers)
        BY <4>1, FS_Subset
      <4>3. Cardinality(managers) > 1
        BY <1>2, <2>2, <3>2
      <4>4. Cardinality(managers') = Cardinality(managers) - 1
        BY <2>2, <3>2, <4>2, FS_RemoveElement
      <4>5. Cardinality(managers) \in Nat
        BY <4>2, FS_CardinalityType
      <4>6. Cardinality(managers') # 0
        BY <4>3, <4>4, <4>5
      <4> QED BY <4>6, FS_EmptySet DEF ManagerRemains
    <3> QED BY <3>1, <3>2
  <2> QED BY <2>1, <2>2 DEF FinishStaff
<1>5. Begun' = Begun
  BY <1>1 DEF Begun
<1>6. TypeOK'
  BY <1>0, <1>1, <1>3, <1>5 DEF TypeOK, Command
<1>7. ServiceNumbersUnique' /\ EndedHoldsNoTable'
  BY <1>1, <1>5 DEF IInv, ServiceNumbersUnique, EndedHoldsNoTable
<1>8. ASSUME NEW u \in Txns \ {t}
      PROVE  CommandGood(u)'
  <2>1. CommandGood(u) /\ txn'[u] = txn[u]
    BY <1>1 DEF IInv
  <2>2. StartGood(u)'
    <3>1. \A v \in Txns \ {u} : txn'[v].op = "start" => txn'[v] = txn[v]
      BY <1>1, IdleGood
    <3> QED BY <1>1, <1>5, <2>1, <3>1 DEF CommandGood, StartGood
  <2>3. StaffGood(u)'
    <3>1. Lock("managers", 0) \notin txn[u].held
      BY <1>2, Exclusive DEF Kinds
    <3> QED BY <2>1, <3>1 DEF CommandGood, StaffGood
  <2>4. TablesGood(u)' /\ EndGood(u)' /\ OrderGood(u)'
    BY <1>1, <1>5, <2>1 DEF CommandGood, TablesGood, EndGood, OrderGood
  <2> QED BY <2>2, <2>3, <2>4 DEF CommandGood
<1> QED BY <1>1, <1>4, <1>6, <1>7, <1>8 DEF IInv

\* The invariant holds before the first Session.
LEMMA InitGood == Init => IInv
<1> SUFFICES ASSUME Init PROVE IInv
  OBVIOUS
<1>1. \A t \in Txns : txn[t] = Idle
  BY DEF Init
<1>2. Begun = {}
  BY DEF Init, Begun, NoRow
<1>3. TypeOK
  <2>1. txn \in [Txns -> Command]
    BY IdleGood DEF Init
  <2>2. session \in [Sessions -> SessionRow] /\ \A s \in Sessions : session[s].number = 0
    BY DEF Init, NoRow, SessionRow
  <2> QED BY <1>2, <2>1, <2>2 DEF Init, TypeOK, Command
<1>4. ServiceNumbersUnique /\ EndedHoldsNoTable /\ ManagerRemains
  <2>1. \A s \in Sessions : session[s].state = "ABSENT"
    BY DEF Init, NoRow
  <2>2. ServiceNumbersUnique /\ EndedHoldsNoTable
    BY <1>2, <2>1 DEF ServiceNumbersUnique, EndedHoldsNoTable
  <2> QED BY <2>2 DEF Init, ManagerRemains
<1>5. HeldCompatible
  BY <1>1, IdleGood DEF HeldCompatible
<1>6. \A t \in Txns : CommandGood(t)
  BY <1>1, IdleGood
     DEF CommandGood, StartGood, TablesGood, EndGood, StaffGood, OrderGood, OneMode
<1> QED BY <1>3, <1>4, <1>5, <1>6 DEF IInv

\* Every step keeps the invariant: one case per command and commit.
LEMMA StepKeeps == IInv /\ [Next]_vars => IInv'
<1> SUFFICES ASSUME IInv, [Next]_vars PROVE IInv'
  OBVIOUS
<1>1. CASE UNCHANGED vars
  BY <1>1 DEF vars, IInv, TypeOK, ServiceNumbersUnique, EndedHoldsNoTable, ManagerRemains,
     HeldCompatible, CommandGood, StartGood, TablesGood, EndGood, StaffGood, OrderGood, Begun
<1>2. CASE Next
  <2>1. PICK t \in Txns :
            \/ Beginning(t) \/ Acquire(t) \/ NextSequence(t) \/ CountActiveManagers(t)
            \/ FinishStart(t) \/ FinishTables(t) \/ FinishEnd(t) \/ FinishAvailability(t)
            \/ FinishWithNewCheck(t) \/ FinishStaff(t)
            \/ /\ Release(t) /\ UNCHANGED <<session, checks, available, managers>>
    BY <1>2, StepCases
  <2>2. checks \in Seq(Checks) /\ available \subseteq Tables
    BY DEF IInv, TypeOK
  <2>3. CASE Beginning(t)
    BY <2>3, BeginInductive
  <2>4. CASE Acquire(t)
    BY <2>4, AcquireInductive
  <2>5. CASE NextSequence(t) \/ CountActiveManagers(t)
    BY <2>5, NextSequenceInductive, CountInductive
  <2>6. CASE FinishStart(t) \/ FinishTables(t) \/ FinishEnd(t) \/ FinishStaff(t)
    BY <2>6, FinishStartInductive, FinishTablesInductive, FinishEndInductive,
       FinishStaffInductive
  <2>7. CASE FinishAvailability(t)
    <3>1. txn[t].of \in Tables
      BY <2>7 DEF FinishAvailability, Ready, IInv, CommandGood, EndGood
    <3> QED BY <2>2, <2>7, <3>1, ReleaseInductive DEF FinishAvailability
  <2>8. CASE FinishWithNewCheck(t)
    <3>1. PICK c \in Checks : checks' = Append(checks, c)
      BY <2>8 DEF FinishWithNewCheck
    <3>2. checks' \in Seq(Checks)
      BY <2>2, <3>1
    <3> QED BY <2>2, <2>8, <3>2, ReleaseInductive DEF FinishWithNewCheck
  <2>9. CASE Release(t) /\ UNCHANGED <<session, checks, available, managers>>
    BY <2>2, <2>9, ReleaseInductive
  <2> QED BY <2>1, <2>3, <2>4, <2>5, <2>6, <2>7, <2>8, <2>9
<1> QED BY <1>1, <1>2
-----------------------------------------------------------------------------
(* Waiting in a circle.                                                     *)

\* A non-empty set of numbers has a least one.
LEMMA LeastNat ==
  ASSUME NEW T \in SUBSET Nat, T # {}
  PROVE  \E m \in T : \A n \in T : m <= n
<1>1. PICK m \in T : \A n \in T : ~ (<<n, m>> \in OpToRel(<, Nat))
  BY NatLessThanWellFounded, WFMin
<1>2. \A n \in T : ~ (n < m)
  BY <1>1 DEF OpToRel
<1> QED BY <1>2

\* Of some rows, one precedes or equals every other.
LEMMA SoonestRow ==
  ASSUME NEW W \in SUBSET Request, W # {}
  PROVE  \E r \in W : \A q \in W : ~ Precedes(q, r)
<1> DEFINE ranks == {CheckFirst[r.kind] : r \in W}
<1>1. ranks \in SUBSET Nat /\ ranks # {}
  BY Ranked
<1>2. PICK rank \in ranks : \A n \in ranks : rank <= n
  BY <1>1, LeastNat
<1> DEFINE first == {r \in W : CheckFirst[r.kind] = rank}
           ids == {r.id : r \in first}
<1>3. ids \in SUBSET Nat /\ ids # {}
  BY <1>2, Ranked
<1>4. PICK id \in ids : \A n \in ids : id <= n
  <2> HIDE DEF ids
  <2> QED BY <1>3, LeastNat
<1>5. PICK r \in first : r.id = id
  BY <1>4
<1>6. ASSUME NEW q \in W
      PROVE  ~ Precedes(q, r)
  <2>1. rank <= CheckFirst[q.kind] /\ CheckFirst[r.kind] = rank
    BY <1>2, <1>5
  <2>2. CheckFirst[q.kind] \in Nat /\ rank \in Nat /\ q.id \in Nat /\ r.id \in Nat
    BY <1>1, <1>2, <1>5, Ranked
  <2>3. q.kind = r.kind => r.id <= q.id
    BY <1>4, <1>5
  <2> QED BY <2>1, <2>2, <2>3 DEF Precedes
<1> QED BY <1>5, <1>6

\* The circle's soonest request is of a command that another one waits for, and
\* what that one asks for, the first one holds: a sooner request.
LEMMA OrderedWaits ==
  ASSUME IInv
  PROVE  OrderedNeverDeadlock
<1> SUFFICES ASSUME NEW D \in SUBSET Txns, WaitCycle(D), \A t \in D : txn[t].op \notin Disordered
             PROVE  FALSE
  BY DEF OrderedNeverDeadlock
<1>0. TypeOK /\ \A t \in Txns : OrderGood(t)
  BY DEF IInv, CommandGood
<1> DEFINE W == UNION {NextRequests(t) : t \in D}
<1>1. W \in SUBSET Request
  BY <1>0, Types DEF NextRequests
<1>2. W # {}
  <2>1. PICK t \in D : \E u \in D : WaitsFor(t, u)
    BY DEF WaitCycle
  <2> QED BY <2>1 DEF WaitsFor
<1>3. PICK r \in W : \A q \in W : ~ Precedes(q, r)
  <2> HIDE DEF W
  <2> QED BY <1>1, <1>2, SoonestRow
<1>4. PICK t \in D : r \in NextRequests(t)
  BY <1>3
<1>5. PICK v \in D : WaitsFor(v, t)
  BY <1>4 DEF WaitCycle
<1>6. PICK q \in NextRequests(v) : \E h \in txn[t].held : Conflict(q, h)
  BY <1>5 DEF WaitsFor, Blocks
<1>7. PICK h \in txn[t].held : h.kind = q.kind /\ h.id = q.id
  BY <1>6 DEF Conflict
<1>8. Precedes(h, r)
  BY <1>0, <1>4, <1>7 DEF OrderGood, NextRequests
<1>9. Precedes(q, r)
  BY <1>7, <1>8 DEF Precedes
<1> QED BY <1>3, <1>5, <1>6, <1>9

-----------------------------------------------------------------------------
\* The invariant behind the theorems below holds in every reachable state.
THEOREM Invariance == Spec => []IInv
<1>1. Init => IInv
  BY InitGood
<1>2. IInv /\ [Next]_vars => IInv'
  BY StepKeeps
<1> QED BY <1>1, <1>2, PTL DEF Spec

\* Sessions, Checks, Tables, Managers and the commands in flight keep their types.
THEOREM TypeCorrect == Spec => []TypeOK
<1>1. IInv => TypeOK
  BY DEF IInv
<1> QED BY <1>1, Invariance, PTL

\* allocateServiceNumber: however many Sessions start at once, no two get one number.
THEOREM NumbersUnique == Spec => []ServiceNumbersUnique
<1>1. IInv => ServiceNumbersUnique
  BY DEF IInv
<1> QED BY <1>1, Invariance, PTL

\* Closure and abandonment leave no Table assigned, whatever reassignments race them.
THEOREM TablesReleased == Spec => []EndedHoldsNoTable
<1>1. IInv => EndedHoldsNoTable
  BY DEF IInv
<1> QED BY <1>1, Invariance, PTL

\* ensureManagerRemains: any number of concurrent disables and demotions leave one.
THEOREM SomeManager == Spec => []ManagerRemains
<1>1. IInv => ManagerRemains
  BY DEF IInv
<1> QED BY <1>1, Invariance, PTL

\* Any number of commands of the common order never wait in a circle, whatever
\* Checks, units and Sessions they name.
THEOREM NoOrderedDeadlock == Spec => []OrderedNeverDeadlock
<1>1. IInv => OrderedNeverDeadlock
  BY OrderedWaits
<1> QED BY <1>1, Invariance, PTL

=============================================================================
