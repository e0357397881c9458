----------------------- MODULE CommandPipelineProofs -----------------------
(***************************************************************************)
(* CommandPipeline for any staff, requests, attempts and pool size.        *)
(*                                                                         *)
(* A request takes effect once because three facts hold together: the      *)
(* attempts between the advisory lock and the end of their transaction     *)
(* have different requests (Exclusive), such an attempt that found nothing *)
(* stored still finds nothing stored when it commits (Unclaimed), and an   *)
(* attempt that has not ended has neither answered nor left an effect      *)
(* (Untold).  None of them is inductive alone; IInv is.                    *)
(***************************************************************************)
EXTENDS CommandPipeline, FiniteSetTheorems, TLAPS

Untold ==
    \A a \in Attempts : at[a] # "ENDED" => told[a] = NotTold /\ a \notin effects

Exclusive ==
    \A a, b \in Attempts :
        a # b /\ HoldsRequest(a) /\ HoldsRequest(b) => RequestOf[a] # RequestOf[b]

Unclaimed ==
    \A a \in Attempts :
        at[a] \in {"NEW", "CLAIMED", "DONE"} => stored[RequestOf[a]] = Nothing

IInv ==
    /\ TypeOK
    /\ Untold
    /\ Exclusive
    /\ Unclaimed
    /\ EffectsOnce
    /\ AnswersAgree
    /\ ApprovalStands

-----------------------------------------------------------------------------
(* What a step of one attempt can be.                                      *)

\* Moving on inside the transaction: only its place changes.
Moves(a, p) ==
    /\ at[a] # "ENDED" /\ p \in Places \ {"IDLE", "ENDED"}
    /\ at' = [at EXCEPT ![a] = p]
    /\ UNCHANGED <<staff, stored, effects, told>>

\* Ending without an effect: a refusal, or the stored result of the same input.
Ends(a) ==
    /\ at[a] # "ENDED"
    /\ \/ \E m \in {"DENIED", "CONFLICT", "FAILED", "LOST"} : End(a, Refusal(m))
       \/ /\ stored[RequestOf[a]] # Nothing /\ InputOf[stored[RequestOf[a]]] = InputOf[a]
          /\ End(a, Success(stored[RequestOf[a]]))
    /\ UNCHANGED <<staff, stored, effects>>

\* The guards under which a place is entered.
EntersSafely(a, p) ==
    /\ p = "LOCKED" => RequestFree(a)
    /\ p \in {"NEW", "CLAIMED", "DONE"} => HoldsRequest(a) /\ stored[RequestOf[a]] = Nothing
    /\ p \in {"CLEARED", "LOCKED", "NEW", "CLAIMED", "DONE"} /\ ApproverOf[a] # NoStaff =>
          staff[ApproverOf[a]].standing = "MANAGER"
    /\ at[a] = "SENT" => FreeConnection
    /\ at[a] = "IDLE" => p = "SENT"

\* Every step of an attempt but Commit moves it on safely or ends it.
LEMMA StepShapes ==
  ASSUME IInv, NEW a \in Attempts, Send(a) \/ Step(a) \/ Drop(a)
  PROVE  \/ \E p \in Places : Moves(a, p) /\ EntersSafely(a, p)
         \/ Ends(a)
         \/ Commit(a)
<1> USE DEF IInv, TypeOK, Places
<1>1. CASE Send(a)
  BY <1>1 DEF Send, Go, Moves, EntersSafely
<1>2. CASE Begin(a)
  BY <1>2 DEF Begin, Go, Moves, EntersSafely
<1>3. CASE Authorize(a)
  BY <1>3 DEF Authorize, Go, Moves, EntersSafely
<1>4. CASE Approve(a)
  BY <1>4 DEF Approve, Go, Moves, EntersSafely
<1>5. CASE RefuseApproval(a)
  BY <1>5 DEF RefuseApproval, Go, Moves, EntersSafely
<1>6. CASE RecordDenial(a)
  BY <1>6 DEF RecordDenial, Ends
<1>7. CASE LockRequest(a)
  BY <1>7 DEF LockRequest, Go, Moves, EntersSafely, ApprovalStands
<1>8. CASE Replay(a)
  BY <1>8 DEF Replay, Ends
<1>9. CASE Conflict(a)
  BY <1>9 DEF Conflict, Ends
<1>10. CASE Miss(a)
  BY <1>10 DEF Miss, Go, Moves, EntersSafely, ApprovalStands, HoldsRequest
<1>11. CASE Claim(a)
  BY <1>11 DEF Claim, Go, Moves, EntersSafely, ApprovalStands, HoldsRequest, Unclaimed
<1>12. CASE Mutate(a)
  BY <1>12 DEF Mutate, Go, Moves, EntersSafely, ApprovalStands, HoldsRequest, Unclaimed
<1>13. CASE FailBody(a)
  BY <1>13 DEF FailBody, Ends
<1>14. CASE AbortDeadlocked(a)
  <2>1. at[a] # "ENDED"
    <3>1. PICK b \in Attempts : WaitsFor(a, b)
      BY <1>14 DEF AbortDeadlocked, WaitCycle
    <3> QED BY <3>1 DEF WaitsFor
  <2> QED BY <1>14, <2>1 DEF AbortDeadlocked, Ends
<1>15. CASE Drop(a)
  BY <1>15 DEF Drop, Ends
<1> QED BY <1>1, <1>2, <1>3, <1>4, <1>5, <1>6, <1>7, <1>8, <1>9, <1>10, <1>11, <1>12, <1>13,
           <1>14, <1>15 DEF Step

-----------------------------------------------------------------------------
(* The pool.                                                               *)

\* Only Begin takes a connection, and only when one is free.
LEMMA PoolHolds ==
  ASSUME IInv, Next
  PROVE  Cardinality(Connections') <= PoolSize
<1>0. IsFiniteSet(Connections) /\ Cardinality(Connections) \in Nat
  BY PoolAssumption, FS_Subset, FS_CardinalityType DEF Connections
<1>1. CASE Connections' \subseteq Connections
  <2>1. Cardinality(Connections') <= Cardinality(Connections) /\ Cardinality(Connections') \in Nat
    BY <1>0, <1>1, FS_Subset, FS_CardinalityType
  <2> QED BY <1>0, <2>1, PoolAssumption DEF IInv, TypeOK
<1>2. CASE \E a \in Attempts : Connections' = Connections \cup {a} /\ a \notin Connections /\ FreeConnection
  <2>1. PICK a \in Attempts : Connections' = Connections \cup {a} /\ a \notin Connections /\ FreeConnection
    BY <1>2
  <2>2. Cardinality(Connections') = Cardinality(Connections) + 1
    BY <1>0, <2>1, FS_AddElement
  <2> QED BY <1>0, <2>1, <2>2, PoolAssumption DEF FreeConnection
<1>3. CASE Administer
  <2>1. at' = at
    BY <1>3 DEF Administer, SetStanding, SetSession
  <2> QED BY <2>1, <1>1 DEF Connections
<1>4. CASE \E a \in Attempts : Send(a) \/ Step(a) \/ Drop(a)
  <2>1. PICK a \in Attempts : Send(a) \/ Step(a) \/ Drop(a)
    BY <1>4
  <2>2. at \in [Attempts -> Places]
    BY DEF IInv, TypeOK
  <2>3. CASE \E p \in Places : Moves(a, p) /\ EntersSafely(a, p)
    <3>1. PICK p \in Places : Moves(a, p) /\ EntersSafely(a, p)
      BY <2>3
    <3>2. CASE at[a] = "SENT"
      <4>1. FreeConnection /\ a \notin Connections
        BY <3>1, <3>2 DEF EntersSafely, Connections
      <4>2. Connections' \subseteq Connections \cup {a}
        BY <2>2, <3>1 DEF Moves, Connections
      <4>3. Connections \subseteq Connections'
        BY <2>2, <3>1, <3>2 DEF Moves, Connections
      <4>4. Connections' = Connections \/ Connections' = Connections \cup {a}
        BY <4>2, <4>3
      <4> QED BY <4>1, <4>4, <1>1, <1>2
    <3>3. CASE at[a] # "SENT"
      BY <2>2, <3>1, <3>3, <1>1 DEF Moves, EntersSafely, Connections
    <3> QED BY <3>2, <3>3
  <2>4. CASE Ends(a)
    BY <2>2, <2>4, <1>1 DEF Ends, End, Connections
  <2>5. CASE Commit(a)
    BY <2>2, <2>5, <1>1 DEF Commit, End, Connections
  <2> QED BY <2>1, <2>3, <2>4, <2>5, StepShapes
<1> QED BY <1>3, <1>4 DEF Next

-----------------------------------------------------------------------------
(* The invariant.                                                          *)

\* Moving on inside the transaction keeps the invariant, the pool apart.
LEMMA MovesKeep ==
  ASSUME IInv, NEW a \in Attempts, NEW p \in Places, Moves(a, p), EntersSafely(a, p),
         Cardinality(Connections') <= PoolSize, denials' \subseteq Attempts
  PROVE  IInv'
<1>1. at' \in [Attempts -> Places] /\ at'[a] = p /\ \A b \in Attempts \ {a} : at'[b] = at[b]
  BY DEF IInv, TypeOK, Moves
<1>2. TypeOK'
  BY <1>1 DEF IInv, TypeOK, Moves
<1>3. Untold'
  BY <1>1 DEF IInv, Untold, Moves
<1>4. Exclusive'
  <2> SUFFICES ASSUME NEW b \in Attempts, NEW c \in Attempts, b # c,
                      HoldsRequest(b)', HoldsRequest(c)', RequestOf[b] = RequestOf[c]
               PROVE  FALSE
    BY DEF Exclusive
  <2>1. \A d \in Attempts \ {a} : HoldsRequest(d)' => HoldsRequest(d)
    BY <1>1 DEF HoldsRequest
  <2>2. HoldsRequest(a)' => HoldsRequest(a) \/ RequestFree(a)
    BY <1>1 DEF EntersSafely, HoldsRequest
  <2> QED BY <2>1, <2>2 DEF IInv, Exclusive, RequestFree, Others
<1>5. Unclaimed'
  BY <1>1 DEF IInv, Unclaimed, Moves, EntersSafely
<1>6. EffectsOnce' /\ AnswersAgree'
  BY DEF IInv, EffectsOnce, AnswersAgree, Moves
<1>7. ApprovalStands'
  BY <1>1 DEF IInv, ApprovalStands, Moves, EntersSafely
<1> QED BY <1>2, <1>3, <1>4, <1>5, <1>6, <1>7 DEF IInv

\* So does ending without an effect: what is told is what is stored.
LEMMA EndsKeep ==
  ASSUME IInv, NEW a \in Attempts, Ends(a), Cardinality(Connections') <= PoolSize, denials' \subseteq Attempts
  PROVE  IInv'
<1>1. /\ at' = [at EXCEPT ![a] = "ENDED"]
      /\ UNCHANGED <<staff, stored, effects>>
  BY DEF Ends, End
<1>2. PICK m : /\ told' = [told EXCEPT ![a] = m]
               /\ \/ m \in {Refusal(r) : r \in {"DENIED", "CONFLICT", "FAILED", "LOST"}}
                  \/ /\ m = Success(stored[RequestOf[a]])
                     /\ stored[RequestOf[a]] # Nothing
                     /\ InputOf[stored[RequestOf[a]]] = InputOf[a]
  BY DEF Ends, End
<1>3. /\ at' \in [Attempts -> Places] /\ at'[a] = "ENDED"
      /\ \A b \in Attempts \ {a} : at'[b] = at[b] /\ told'[b] = told[b]
      /\ told'[a] = m
  BY <1>1, <1>2 DEF IInv, TypeOK, Places
<1>4. m \in [says : {"NOTHING", "OK", "DENIED", "CONFLICT", "FAILED", "LOST"}, of : Attempts \cup {Nothing}]
  <2>1. ASSUME NEW r \in {"DENIED", "CONFLICT", "FAILED", "LOST"}, m = Refusal(r)
        PROVE  m \in [says : {"NOTHING", "OK", "DENIED", "CONFLICT", "FAILED", "LOST"},
                      of : Attempts \cup {Nothing}]
    BY <2>1 DEF Refusal
  <2>2. stored[RequestOf[a]] \in Attempts \cup {Nothing}
    BY RequestAssumption DEF IInv, TypeOK
  <2>3. ASSUME m = Success(stored[RequestOf[a]])
        PROVE  m \in [says : {"NOTHING", "OK", "DENIED", "CONFLICT", "FAILED", "LOST"},
                      of : Attempts \cup {Nothing}]
    BY <2>2, <2>3 DEF Success
  <2> QED BY <1>2, <2>1, <2>3
<1>5. TypeOK'
  BY <1>1, <1>2, <1>3, <1>4 DEF IInv, TypeOK
<1>6. Untold'
  BY <1>1, <1>3 DEF IInv, Untold
<1>7. Exclusive' /\ Unclaimed' /\ ApprovalStands'
  BY <1>1, <1>3 DEF IInv, Exclusive, HoldsRequest, Unclaimed, ApprovalStands
<1>8. EffectsOnce'
  BY <1>1 DEF IInv, EffectsOnce
<1>9. AnswersAgree'
  <2>1. stored[RequestOf[a]] # Nothing => stored[RequestOf[a]] \in effects
    BY RequestAssumption DEF IInv, EffectsOnce
  <2>2. m.says = "OK" => m = Success(stored[RequestOf[a]]) /\ stored[RequestOf[a]] # Nothing
                         /\ InputOf[stored[RequestOf[a]]] = InputOf[a]
    BY <1>2 DEF Refusal
  <2> QED BY <1>1, <1>3, <2>1, <2>2 DEF IInv, AnswersAgree, Success
<1> QED BY <1>5, <1>6, <1>7, <1>8, <1>9 DEF IInv

\* And the commit, because nobody else has stored or can be about to store a
\* result of the same request.
LEMMA CommitKeeps ==
  ASSUME IInv, NEW a \in Attempts, Commit(a), Cardinality(Connections') <= PoolSize
  PROVE  IInv'
<1> DEFINE r == RequestOf[a]
<1>0. r \in Requests /\ stored[r] = Nothing /\ HoldsRequest(a) /\ a \notin effects /\ told[a] = NotTold
  BY RequestAssumption DEF IInv, Commit, Unclaimed, Untold, HoldsRequest
<1>1. /\ at' = [at EXCEPT ![a] = "ENDED"]
      /\ stored' = [stored EXCEPT ![r] = a]
      /\ effects' = effects \cup {a}
      /\ UNCHANGED <<staff, denials>>
  BY DEF Commit, End
<1>2. PICK m \in {Success(a), Refusal("LOST")} : told' = [told EXCEPT ![a] = m]
  BY DEF Commit, End
<1>3. /\ at' \in [Attempts -> Places] /\ at'[a] = "ENDED"
      /\ \A b \in Attempts \ {a} : at'[b] = at[b] /\ told'[b] = told[b]
      /\ told'[a] = m
      /\ stored' \in [Requests -> Attempts \cup {Nothing}]
      /\ stored'[r] = a /\ \A q \in Requests \ {r} : stored'[q] = stored[q]
  BY <1>0, <1>1, <1>2 DEF IInv, TypeOK, Places
<1>4. TypeOK'
  <2>1. m \in [says : {"NOTHING", "OK", "DENIED", "CONFLICT", "FAILED", "LOST"}, of : Attempts \cup {Nothing}]
    BY DEF Success, Refusal
  <2> QED BY <1>1, <1>2, <1>3, <2>1 DEF IInv, TypeOK
<1>5. Untold'
  BY <1>1, <1>3 DEF IInv, Untold
<1>6. Exclusive' /\ ApprovalStands'
  BY <1>1, <1>3 DEF IInv, Exclusive, HoldsRequest, ApprovalStands
<1>7. Unclaimed'
  <2>1. ASSUME NEW b \in Attempts, at'[b] \in {"NEW", "CLAIMED", "DONE"}
        PROVE  RequestOf[b] # r /\ stored[RequestOf[b]] = Nothing
    <3>1. b # a /\ at[b] = at'[b]
      BY <1>3, <2>1
    <3> QED BY <1>0, <2>1, <3>1 DEF IInv, Exclusive, Unclaimed, HoldsRequest
  <2> QED BY <1>3, <2>1, RequestAssumption DEF Unclaimed
<1>8. EffectsOnce'
  <2> SUFFICES ASSUME NEW q \in Requests
               PROVE  {b \in effects' : RequestOf[b] = q} = IF stored'[q] = Nothing THEN {} ELSE {stored'[q]}
    BY DEF EffectsOnce
  <2>1. {b \in effects : RequestOf[b] = q} = IF stored[q] = Nothing THEN {} ELSE {stored[q]}
    BY DEF IInv, EffectsOnce
  <2>2. CASE q = r
    <3>1. {b \in effects : RequestOf[b] = q} = {}
      BY <1>0, <2>1, <2>2
    <3>2. {b \in effects' : RequestOf[b] = q} = {a}
      BY <1>1, <2>2, <3>1
    <3> QED BY <1>3, <2>2, <3>2, NothingAssumption
  <2>3. CASE q # r
    BY <1>1, <1>3, <2>1, <2>3
  <2> QED BY <2>2, <2>3
<1>9. AnswersAgree'
  <2> SUFFICES ASSUME NEW b \in Attempts, told'[b].says = "OK"
               PROVE  /\ stored'[RequestOf[b]] = told'[b].of /\ told'[b].of \in effects'
                      /\ InputOf[told'[b].of] = InputOf[b]
    BY DEF AnswersAgree
  <2>1. CASE b = a
    BY <1>1, <1>3, <2>1 DEF Success, Refusal
  <2>2. CASE b # a
    <3>1. stored[RequestOf[b]] = told[b].of /\ told[b].of \in effects /\ InputOf[told[b].of] = InputOf[b]
      BY <1>3, <2>2 DEF IInv, AnswersAgree
    <3>2. RequestOf[b] # r
      BY <1>0, <3>1, NothingAssumption DEF IInv, TypeOK
    <3> QED BY <1>1, <1>3, <2>2, <3>1, <3>2, RequestAssumption
  <2> QED BY <2>1, <2>2
<1> QED BY <1>4, <1>5, <1>6, <1>7, <1>8, <1>9 DEF IInv

\* Staff administration keeps it: a row an approval holds cannot be changed.
LEMMA AdministerKeeps ==
  ASSUME IInv, Administer
  PROVE  IInv'
<1>1. PICK s \in Staff : \/ \E new \in {"MANAGER", "CASHIER", "DISABLED"} : SetStanding(s, new)
                         \/ \E valid \in BOOLEAN : SetSession(s, valid)
  BY DEF Administer
<1>2. UNCHANGED <<at, stored, effects, denials, told>>
  BY <1>1 DEF SetStanding, SetSession
<1>3. staff' \in [Staff -> StaffRow]
  <2>1. staff \in [Staff -> StaffRow] /\ staff[s] \in StaffRow
    BY DEF IInv, TypeOK
  <2>2. PICK row : staff' = [staff EXCEPT ![s] = row] /\ row \in StaffRow
    <3>1. ASSUME NEW new \in {"MANAGER", "CASHIER", "DISABLED"}, SetStanding(s, new)
          PROVE  /\ staff' = [staff EXCEPT ![s] = [session |-> staff[s].session /\ new # "DISABLED",
                                                   standing |-> new]]
                 /\ [session |-> staff[s].session /\ new # "DISABLED", standing |-> new] \in StaffRow
      <4>1. (staff[s].session /\ new # "DISABLED") \in BOOLEAN
        OBVIOUS
      <4> QED BY <2>1, <3>1, <4>1, Zenon DEF SetStanding, StaffRow
    <3>2. ASSUME NEW valid \in BOOLEAN, SetSession(s, valid)
          PROVE  /\ staff' = [staff EXCEPT ![s] = [staff[s] EXCEPT !.session = valid]]
                 /\ [staff[s] EXCEPT !.session = valid] \in StaffRow
      BY <2>1, <3>2 DEF SetSession, StaffRow
    <3> QED BY <1>1, <3>1, <3>2
  <2> QED BY <2>1, <2>2
<1>4. ApprovalStands'
  <2> SUFFICES ASSUME NEW a \in Attempts, ApproverOf[a] # NoStaff,
                      at[a] \in {"CLEARED", "LOCKED", "NEW", "CLAIMED", "DONE"}
               PROVE  staff'[ApproverOf[a]].standing = "MANAGER"
    BY <1>2 DEF ApprovalStands
  <2>1. ApproverOf[a] \in Staff /\ staff[ApproverOf[a]].standing = "MANAGER" /\ HoldsRow(a, ApproverOf[a])
    BY ApproverAssumption DEF IInv, ApprovalStands, HoldsRow
  <2>2. CASE \E new \in {"MANAGER", "CASHIER", "DISABLED"} : SetStanding(s, new)
    BY <2>1, <2>2 DEF IInv, TypeOK, StaffRow, SetStanding
  <2>3. CASE \E valid \in BOOLEAN : SetSession(s, valid)
    BY <2>1, <2>3 DEF IInv, TypeOK, StaffRow, SetSession
  <2> QED BY <1>1, <2>2, <2>3
<1>5. Connections' = Connections
  BY <1>2 DEF Connections
<1> QED BY <1>2, <1>3, <1>4, <1>5 DEF IInv, TypeOK, Untold, Exclusive, HoldsRequest, Unclaimed,
           EffectsOnce, AnswersAgree

\* The invariant holds before any command is sent.
LEMMA InvariantInit == Init => IInv
<1> SUFFICES ASSUME Init PROVE IInv
  OBVIOUS
<1>1. Connections = {}
  BY DEF Init, Connections
<1>2. Cardinality(Connections) <= PoolSize
  BY <1>1, FS_EmptySet, PoolAssumption
<1>3. TypeOK
  BY <1>2 DEF Init, TypeOK, StaffRow, Places, NotTold
<1> QED BY <1>3, NothingAssumption, RequestAssumption
        DEF Init, IInv, Untold, Exclusive, HoldsRequest, Unclaimed, EffectsOnce, AnswersAgree,
            ApprovalStands, NotTold

\* Every step of the pipeline and of the administration keeps it.
LEMMA InvariantNext == IInv /\ [Next]_vars => IInv'
<1> SUFFICES ASSUME IInv, [Next]_vars PROVE IInv'
  OBVIOUS
<1>1. CASE UNCHANGED vars
  <2>1. Connections' = Connections
    BY <1>1 DEF vars, Connections
  <2> QED BY <1>1, <2>1 DEF vars, IInv, TypeOK, Untold, Exclusive, HoldsRequest, Unclaimed,
             EffectsOnce, AnswersAgree, ApprovalStands
<1>2. CASE Next
  <2>0. Cardinality(Connections') <= PoolSize
    BY <1>2, PoolHolds
  <2>1. CASE Administer
    BY <2>1, AdministerKeeps
  <2>2. CASE \E a \in Attempts : Send(a) \/ Step(a) \/ Drop(a)
    <3>1. PICK a \in Attempts : Send(a) \/ Step(a) \/ Drop(a)
      BY <2>2
    <3>2. denials' \subseteq Attempts
      BY <3>1 DEF IInv, TypeOK, Send, Step, Drop, Begin, Authorize, Approve, RefuseApproval, RecordDenial,
         LockRequest, Replay, Conflict, Miss, Claim, Mutate, FailBody, Commit, AbortDeadlocked
    <3> QED BY <2>0, <3>1, <3>2, StepShapes, MovesKeep, EndsKeep, CommitKeeps
  <2> QED BY <1>2, <2>1, <2>2 DEF Next
<1> QED BY <1>1, <1>2

-----------------------------------------------------------------------------
(* Theorems.                                                               *)

\* The inductive invariant holds of every behaviour.
THEOREM Invariance == Spec => []IInv
BY InvariantInit, InvariantNext, PTL DEF Spec

\* Types, and never more transactions than connections.
THEOREM TypeCorrect == Spec => []TypeOK
<1>1. IInv => TypeOK
  BY DEF IInv
<1> QED BY <1>1, Invariance, PTL

\* A request takes effect at most once, exactly when its result is stored,
\* whatever duplicates, retries, drops and deadlock aborts there are.
THEOREM TakesEffectOnce == Spec => []EffectsOnce
<1>1. IInv => EffectsOnce
  BY DEF IInv
<1> QED BY <1>1, Invariance, PTL

\* Clients that are told of success are told one and the same result.
THEOREM SuccessAgrees == Spec => []AnswersAgree
<1>1. IInv => AnswersAgree
  BY DEF IInv
<1> QED BY <1>1, Invariance, PTL

\* An approver stays an enabled Manager until the approved command has ended.
THEOREM ApproverRemains == Spec => []ApprovalStands
<1>1. IInv => ApprovalStands
  BY DEF IInv
<1> QED BY <1>1, Invariance, PTL

\* Every step of the pipeline takes effect, repeats, refuses or stutters.
LEMMA StepImplements == IInv /\ [Next]_vars => [Promise!Next]_<<stored, told>>
<1> SUFFICES ASSUME IInv, [Next]_vars PROVE Promise!Next \/ UNCHANGED <<stored, told>>
  OBVIOUS
<1>1. CASE UNCHANGED vars
  BY <1>1 DEF vars
<1>2. CASE Administer
  BY <1>2 DEF Administer, SetStanding, SetSession
<1>3. CASE \E a \in Attempts : Send(a) \/ Step(a) \/ Drop(a)
  <2>1. PICK a \in Attempts : Send(a) \/ Step(a) \/ Drop(a)
    BY <1>3
  <2>2. at[a] # "ENDED" => told[a] = Promise!NotTold
    BY DEF IInv, Untold, NotTold, Promise!NotTold
  <2>3. CASE \E p \in Places : Moves(a, p) /\ EntersSafely(a, p)
    BY <2>3 DEF Moves
  <2>4. CASE Ends(a)
    <3>1. CASE \E m \in {"DENIED", "CONFLICT", "FAILED", "LOST"} : End(a, Refusal(m))
      <4>1. Promise!Refuse(a)
        BY <2>2, <2>4, <3>1 DEF Ends, End, Refusal, Promise!Refuse, Promise!Refusals
      <4> QED BY <4>1 DEF Promise!Next
    <3>2. CASE /\ stored[RequestOf[a]] # Nothing /\ InputOf[stored[RequestOf[a]]] = InputOf[a]
               /\ End(a, Success(stored[RequestOf[a]]))
      <4>1. Promise!Repeat(a)
        BY <2>2, <2>4, <3>2 DEF Ends, End, Success, Promise!Repeat, Promise!Success
      <4> QED BY <4>1 DEF Promise!Next
    <3> QED BY <2>4, <3>1, <3>2 DEF Ends
  <2>5. CASE Commit(a)
    <3>1. Promise!TakeEffect(a)
      BY <2>2, <2>5 DEF Commit, End, IInv, Unclaimed, Success, Refusal, Promise!TakeEffect, Promise!Success
    <3> QED BY <3>1 DEF Promise!Next
  <2> QED BY <2>1, <2>3, <2>4, <2>5, StepShapes
<1> QED BY <1>1, <1>2, <1>3 DEF Next

\* The pipeline implements the abstract exactly-once promise.
THEOREM Refinement == Spec => ImplementsExactlyOnce
<1>1. Init => Promise!Init
  BY DEF Init, Promise!Init, NotTold, Promise!NotTold
<1> QED BY <1>1, StepImplements, Invariance, PTL DEF Spec, ImplementsExactlyOnce, Promise!Spec
=============================================================================
