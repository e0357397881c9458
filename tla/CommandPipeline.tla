-------------------------- MODULE CommandPipeline --------------------------
(***************************************************************************)
(* ExecuteMutation (platform/command/mutation.go): the one transaction every   *)
(* command of shift, sales, preparation and catalog runs in.  It reloads   *)
(* the actor's authority, obtains a Manager's approval, serialises the     *)
(* duplicates of one request, replays or claims it, runs the body, stores  *)
(* the result and commits.  A denial commits its evidence and nothing      *)
(* else.                                                                   *)
(*                                                                         *)
(* A client sends a request as often as it likes: a double tap, a retry    *)
(* after a lost answer, a second device.  Each sending is an attempt.      *)
(* Locks are not variables: what an attempt holds follows from where it is *)
(* in the pipeline, because every lock lasts until the transaction ends.   *)
(* Three waits interleave: rows of staff_identities (FOR UPDATE by an      *)
(* approval, FOR KEY SHARE by the foreign key of what the actor inserts),  *)
(* the advisory lock of the request, and the connection pool.              *)
(***************************************************************************)
EXTENDS Naturals, FiniteSets

CONSTANTS
    Staff,
    Requests,      \* (actor, request_id) pairs
    Attempts,      \* bound: sendings of requests
    ActorOf,       \* Request -> the staff identity it is keyed by
    RequestOf,     \* Attempt -> its request
    InputOf,       \* Attempt -> operation and fingerprint
    ApproverOf,    \* Attempt -> the approver it names, or NoStaff
    Resolvers,     \* Attempts whose body reads through the pool, not the transaction
    PoolSize,
    NoStaff,
    Nothing

ASSUME PoolAssumption == IsFiniteSet(Attempts) /\ PoolSize \in Nat
ASSUME RequestAssumption == RequestOf \in [Attempts -> Requests] /\ ActorOf \in [Requests -> Staff]
ASSUME ApproverAssumption == ApproverOf \in [Attempts -> Staff \cup {NoStaff}]
ASSUME NothingAssumption == Nothing \notin Attempts

VARIABLES
    staff,     \* Staff -> does a session of it pass the reload, and its standing
    at,        \* Attempt -> how far it has come
    stored,    \* Request -> the attempt whose result idempotency_keys holds
    effects,   \* attempts whose body's writes are committed
    denials,   \* attempts whose denial audit event is committed
    told       \* Attempt -> what its client was told

vars == <<staff, at, stored, effects, denials, told>>

StaffRow == [session : BOOLEAN, standing : {"MANAGER", "CASHIER", "DISABLED"}]
\* SENT has no connection yet; UNAUTHORIZED and UNAPPROVED still have to write
\* their denial.
Places == {"IDLE", "SENT", "BEGUN", "APPROVING", "UNAUTHORIZED", "UNAPPROVED",
           "CLEARED", "LOCKED", "NEW", "CLAIMED", "DONE", "ENDED"}

NotTold == [says |-> "NOTHING", of |-> Nothing]
Success(a) == [says |-> "OK", of |-> a]
Refusal(m) == [says |-> m, of |-> Nothing]

Init ==
    /\ staff \in [Staff -> [session : {TRUE}, standing : {"MANAGER", "CASHIER"}]]
    /\ \E s \in Staff : staff[s].standing = "MANAGER"
    /\ at = [a \in Attempts |-> "IDLE"]
    /\ stored = [r \in Requests |-> Nothing]
    /\ effects = {} /\ denials = {}
    /\ told = [a \in Attempts |-> NotTold]

-----------------------------------------------------------------------------
(* What an attempt holds and waits for.                                    *)

Actor(a) == ActorOf[RequestOf[a]]

Connections == {a \in Attempts : at[a] \notin {"IDLE", "SENT", "ENDED"}}
FreeConnection == Cardinality(Connections) < PoolSize

\* The approver's row is left unlocked while it is used.
HoldsNoRow(a, s) == FALSE
\* GetStaffByLoginCodeForUpdate, until the transaction ends.
HoldsRow(a, s) ==
    ApproverOf[a] = s /\ at[a] \in {"UNAPPROVED", "CLEARED", "LOCKED", "NEW", "CLAIMED", "DONE"}
\* FOR KEY SHARE, by the foreign key idempotency_keys.actor_id.
SharesRow(a, s) == Actor(a) = s /\ at[a] \in {"CLAIMED", "DONE"}

\* A session-level advisory lock, which a rollback does not give back.
HoldsRequestPastRollback(a) ==
    at[a] \in {"LOCKED", "NEW", "CLAIMED", "DONE"} \/ told[a].says = "FAILED"
\* The lock taken with the claim, after the lookup.
HoldsRequestFromClaim(a) == at[a] \in {"CLAIMED", "DONE"}
\* pg_advisory_xact_lock on RequestLockKey.
HoldsRequest(a) == at[a] \in {"LOCKED", "NEW", "CLAIMED", "DONE"}

Others(a) == Attempts \ {a}
MayUpdateRow(a, s) == \A b \in Others(a) : ~HoldsRow(b, s) /\ ~SharesRow(b, s)
MayShareRow(a, s) == \A b \in Others(a) : ~HoldsRow(b, s)
\* Duplicates are serialised only by their claims.
RequestFree(a) == \A b \in Others(a) : HoldsRequest(b) => RequestOf[b] # RequestOf[a]

\* Lock waits the deadlock detector of PostgreSQL can see.
WaitsFor(a, b) ==
    /\ b # a
    /\ \/ at[a] = "APPROVING" /\ (HoldsRow(b, ApproverOf[a]) \/ SharesRow(b, ApproverOf[a]))
       \/ at[a] = "CLEARED" /\ HoldsRequest(b) /\ RequestOf[b] = RequestOf[a]
       \/ at[a] \in {"NEW", "UNAUTHORIZED", "UNAPPROVED"} /\ HoldsRow(b, Actor(a))
\* A set in which everyone waits for somebody in it, with no smaller one inside.
WaitCycle(S) ==
    LET stuck(T) == T # {} /\ \A a \in T : \E b \in T : WaitsFor(a, b)
    IN  stuck(S) /\ \A T \in SUBSET S : stuck(T) => T = S

-----------------------------------------------------------------------------
(* The pipeline.  Every ending rolls back, but for RecordDenial and Commit. *)

Go(a, from, to) == at[a] = from /\ at' = [at EXCEPT ![a] = to]
End(a, message) ==
    /\ at' = [at EXCEPT ![a] = "ENDED"]
    /\ told' = [told EXCEPT ![a] = message]

Send(a) == Go(a, "IDLE", "SENT") /\ UNCHANGED <<staff, stored, effects, denials, told>>

Begin(a) ==
    /\ FreeConnection
    /\ Go(a, "SENT", "BEGUN")
    /\ UNCHANGED <<staff, stored, effects, denials, told>>

\* reloadAuthority and VerifyCapabilities, which lock nothing.
MayAct(s) == staff[s].session /\ staff[s].standing # "DISABLED"
Authorize(a) ==
    /\ Go(a, "BEGUN", IF ~MayAct(Actor(a)) THEN "UNAUTHORIZED"
                      ELSE IF ApproverOf[a] = NoStaff THEN "CLEARED" ELSE "APPROVING")
    /\ UNCHANGED <<staff, stored, effects, denials, told>>

\* VerifyManagerApproval, with the approver's row locked.
Approve(a) ==
    /\ Go(a, "APPROVING", "CLEARED")
    /\ MayUpdateRow(a, ApproverOf[a])
    /\ staff[ApproverOf[a]].standing = "MANAGER"
    /\ UNCHANGED <<staff, stored, effects, denials, told>>
\* Not a Manager, not enabled, or a wrong PIN.
RefuseApproval(a) ==
    /\ MayUpdateRow(a, ApproverOf[a])
    /\ Go(a, "APPROVING", "UNAPPROVED")
    /\ UNCHANGED <<staff, stored, effects, denials, told>>

\* deny: the evidence commits although the operation fails.
RecordDenial(a) ==
    /\ at[a] \in {"UNAUTHORIZED", "UNAPPROVED"} /\ MayShareRow(a, Actor(a))
    /\ denials' = denials \cup {a}
    /\ End(a, Refusal("DENIED"))
    /\ UNCHANGED <<staff, stored, effects>>

LockRequest(a) ==
    /\ RequestFree(a)
    /\ Go(a, "CLEARED", "LOCKED")
    /\ UNCHANGED <<staff, stored, effects, denials, told>>

\* store.Find under the lock: the stored result, a conflict, or a new request.
Replay(a) ==
    LET b == stored[RequestOf[a]] IN
    /\ at[a] = "LOCKED" /\ b # Nothing
    /\ InputOf[b] = InputOf[a]
    /\ End(a, Success(b))
    /\ UNCHANGED <<staff, stored, effects, denials>>
Conflict(a) ==
    LET b == stored[RequestOf[a]] IN
    /\ at[a] = "LOCKED" /\ b # Nothing
    /\ InputOf[b] # InputOf[a]
    /\ End(a, Refusal("CONFLICT"))
    /\ UNCHANGED <<staff, stored, effects, denials>>
Miss(a) ==
    /\ stored[RequestOf[a]] = Nothing
    /\ Go(a, "LOCKED", "NEW")
    /\ UNCHANGED <<staff, stored, effects, denials, told>>

\* ClaimIdempotencyRecord waits for a duplicate's uncommitted row, then accepts
\* a committed one of the same input: alone it does not stop a second effect.
Claim(a) ==
    LET b == stored[RequestOf[a]] IN
    /\ MayShareRow(a, Actor(a))
    /\ \A c \in Others(a) : at[c] \in {"CLAIMED", "DONE"} => RequestOf[c] # RequestOf[a]
    /\ b # Nothing => InputOf[b] = InputOf[a]
    /\ Go(a, "NEW", "CLAIMED")
    /\ UNCHANGED <<staff, stored, effects, denials, told>>

\* A Resolver takes a second connection for one statement, while holding its own.
BodyMayRun(a) == a \in Resolvers => FreeConnection
Mutate(a) ==
    /\ BodyMayRun(a)
    /\ Go(a, "CLAIMED", "DONE")
    /\ UNCHANGED <<staff, stored, effects, denials, told>>
FailBody(a) ==
    /\ at[a] = "CLAIMED" /\ BodyMayRun(a)
    /\ End(a, Refusal("FAILED"))
    /\ UNCHANGED <<staff, stored, effects, denials>>

\* Complete and Commit; the answer may still be lost on its way.
Commit(a) ==
    /\ at[a] = "DONE"
    /\ stored' = [stored EXCEPT ![RequestOf[a]] = a]
    /\ effects' = effects \cup {a}
    /\ \E m \in {Success(a), Refusal("LOST")} : End(a, m)
    /\ UNCHANGED <<staff, denials>>

\* The client is gone, the connection or the process is lost.
Drop(a) ==
    /\ at[a] \notin {"IDLE", "ENDED"}
    /\ End(a, Refusal("LOST"))
    /\ UNCHANGED <<staff, stored, effects, denials>>

\* 40P01: PostgreSQL aborts one transaction of a wait cycle.  A denial whose
\* evidence is lost this way is still a denial to some slices
\* (Policy.OnDenialAuditFailure).
AbortDeadlocked(a) ==
    /\ \E S \in SUBSET Attempts : a \in S /\ WaitCycle(S)
    /\ \E m \in {"FAILED"} \cup (IF at[a] \in {"UNAUTHORIZED", "UNAPPROVED"} THEN {"DENIED"} ELSE {}) :
           End(a, Refusal(m))
    /\ UNCHANGED <<staff, stored, effects, denials>>

-----------------------------------------------------------------------------
(* Staff administration, concurrently.                                     *)

\* The last enabled Manager cannot be disabled or demoted.
AnotherManager(s) == \E t \in Staff \ {s} : staff[t].standing = "MANAGER"

\* set_enabled and replace_roles update rows an approval keeps locked; disabling
\* also revokes every session.
SetStanding(s, new) ==
    /\ \A a \in Attempts : ~HoldsRow(a, s)
    /\ new # staff[s].standing
    /\ staff[s].standing = "MANAGER" => AnotherManager(s)
    /\ staff' = [staff EXCEPT
                    ![s] = [session |-> @.session /\ new # "DISABLED", standing |-> new]]
    /\ UNCHANGED <<at, stored, effects, denials, told>>

\* Sign-out, lock, expiry and inactivity take a session away, signing in or
\* unlocking gives one back.  Both check enabled before they write, with no lock,
\* so a session may appear after its identity was disabled.
SetSession(s, valid) ==
    /\ valid # staff[s].session
    /\ staff' = [staff EXCEPT ![s].session = valid]
    /\ UNCHANGED <<at, stored, effects, denials, told>>

-----------------------------------------------------------------------------
\* What the server and the database do by themselves once a request is sent.
Step(a) ==
    \/ Begin(a) \/ Authorize(a) \/ Approve(a) \/ RefuseApproval(a) \/ RecordDenial(a)
    \/ LockRequest(a) \/ Replay(a) \/ Conflict(a) \/ Miss(a) \/ Claim(a)
    \/ Mutate(a) \/ FailBody(a) \/ Commit(a) \/ AbortDeadlocked(a)

Administer ==
    \E s \in Staff :
        \/ \E new \in {"MANAGER", "CASHIER", "DISABLED"} : SetStanding(s, new)
        \/ \E valid \in BOOLEAN : SetSession(s, valid)

Next == (\E a \in Attempts : Send(a) \/ Step(a) \/ Drop(a)) \/ Administer

\* Weak fairness of each attempt's own steps: no statement of a live transaction
\* is postponed for ever, and the detector runs while a cycle stands.
Fairness == \A a \in Attempts : WF_vars(Step(a))

Spec == Init /\ [][Next]_vars
FairSpec == Spec /\ Fairness

-----------------------------------------------------------------------------
(* Properties.                                                             *)

\* Every variable has its shape, and transactions never outnumber connections.
TypeOK ==
    /\ Cardinality(Connections) <= PoolSize
    /\ staff \in [Staff -> StaffRow]
    /\ at \in [Attempts -> Places]
    /\ stored \in [Requests -> Attempts \cup {Nothing}]
    /\ effects \subseteq Attempts /\ denials \subseteq Attempts
    /\ told \in [Attempts -> [says : {"NOTHING", "OK", "DENIED", "CONFLICT", "FAILED", "LOST"},
                              of : Attempts \cup {Nothing}]]

\* A request takes effect at most once, and exactly when its result is stored:
\* concurrent duplicates, retries after a rollback and a lost answer included.
EffectsOnce ==
    \A r \in Requests :
        {a \in effects : RequestOf[a] = r} = IF stored[r] = Nothing THEN {} ELSE {stored[r]}

\* Every attempt told of success is told the stored result of its own request,
\* and asked for what was done.
AnswersAgree ==
    \A a \in Attempts :
        told[a].says = "OK" =>
            /\ stored[RequestOf[a]] = told[a].of /\ told[a].of \in effects
            /\ InputOf[told[a].of] = InputOf[a]

\* From its verification to the end of the transaction an approver remains an
\* enabled Manager: "a concurrent disablement or role change cannot interleave
\* between verification and use" (VerifyManagerApproval).
ApprovalStands ==
    \A a \in Attempts :
        ApproverOf[a] # NoStaff /\ at[a] \in {"CLEARED", "LOCKED", "NEW", "CLAIMED", "DONE"} =>
            staff[ApproverOf[a]].standing = "MANAGER"

\* The pipeline implements the promise made to clients.
Promise == INSTANCE ExactlyOnce WITH done <- stored
ImplementsExactlyOnce == Promise!Spec

\* Every request that was sent ends, whatever others do with the same staff rows and
\* the same request.  It needs a pool in which a Resolver always finds its second
\* connection, because it asks for that one while others wait for its locks.
EveryAttemptEnds == \A a \in Attempts : at[a] = "SENT" ~> at[a] = "ENDED"
=============================================================================
