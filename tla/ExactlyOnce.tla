---------------------------- MODULE ExactlyOnce ----------------------------
(***************************************************************************)
(* What the mutation pipeline promises its clients (ADR-005, ADR-048): a   *)
(* request takes effect at most once however often it is attempted, and    *)
(* every attempt that is told it succeeded is told the same result, the    *)
(* one of the attempt that took effect, and asked for the same thing.      *)
(***************************************************************************)
CONSTANTS Attempts, Requests, RequestOf, InputOf, Nothing

VARIABLES
    done,   \* Request -> the attempt that took effect, or Nothing
    told    \* Attempt -> what its client was told

NotTold == [says |-> "NOTHING", of |-> Nothing]
Success(a) == [says |-> "OK", of |-> a]
Refusals == [says : {"DENIED", "CONFLICT", "FAILED", "LOST"}, of : {Nothing}]

Init ==
    /\ done = [r \in Requests |-> Nothing]
    /\ told = [a \in Attempts |-> NotTold]

\* The effect and the answer are one step; the answer may be lost, the effect not.
TakeEffect(a) ==
    /\ told[a] = NotTold /\ done[RequestOf[a]] = Nothing
    /\ done' = [done EXCEPT ![RequestOf[a]] = a]
    /\ \E m \in {Success(a), [says |-> "LOST", of |-> Nothing]} : told' = [told EXCEPT ![a] = m]

Repeat(a) ==
    LET b == done[RequestOf[a]] IN
    /\ told[a] = NotTold /\ b # Nothing /\ InputOf[b] = InputOf[a]
    /\ told' = [told EXCEPT ![a] = Success(b)]
    /\ UNCHANGED done

Refuse(a) ==
    /\ told[a] = NotTold
    /\ \E m \in Refusals : told' = [told EXCEPT ![a] = m]
    /\ UNCHANGED done

Next == \E a \in Attempts : TakeEffect(a) \/ Repeat(a) \/ Refuse(a)

Spec == Init /\ [][Next]_<<done, told>>
=============================================================================
