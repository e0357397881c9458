----------------------------- MODULE RoundBook -----------------------------
(***************************************************************************)
(* What a Service Session's rounds promise the customer, without lines,    *)
(* keys or rows: a round is a number of pieces of some configurations; it  *)
(* is charged at the prices of the moment it is committed, exactly the     *)
(* pieces asked for are prepared, and a committed round is never edited.   *)
(* OrderDraft is the detailed design and implements this specification.    *)
(***************************************************************************)
EXTENDS Sums

CONSTANTS Configs, Absent

VARIABLES
    phase,    \* of the current round
    wanted,   \* the configurations asked for -> pieces of each
    made,     \* the configurations sent to the bar -> pieces of each
    charged,  \* what the current round was committed for
    owed,     \* what the Session's Checks charge altogether
    price     \* the menu's prices and surcharges of now

bookVars == <<phase, wanted, made, charged, owed, price>>

Nothing == [c \in {} |-> 0]
Asked(c) == IF c \in DOMAIN wanted THEN wanted[c] ELSE 0

\* An Item has its own price or its Size's; every Option adds to it.
Cost(c) ==
    (IF price[c.item] = Absent THEN price[c.size] ELSE price[c.item]) + Total(price, c.options)
Amount == Total([c \in DOMAIN wanted |-> wanted[c] * Cost(c)], DOMAIN wanted)

BookInit ==
    phase = "EDITABLE" /\ wanted = Nothing /\ made = Nothing /\ charged = 0 /\ owed = 0

\* The pieces of one configuration, none included, become another number.
Recount(c) ==
    /\ phase = "EDITABLE"
    /\ \A d \in (DOMAIN wanted \cup DOMAIN wanted') \ {c} :
        d \in DOMAIN wanted \cap DOMAIN wanted' /\ wanted'[d] = wanted[d]
    /\ UNCHANGED <<phase, made, charged, owed, price>>

\* All the pieces of one configuration take another; no other piece is touched.
Reconfigure(c, d) ==
    /\ phase = "EDITABLE" /\ c # d
    /\ wanted' = [x \in (DOMAIN wanted \ {c}) \cup {d} |->
                    IF x = d THEN Asked(c) + Asked(d) ELSE wanted[x]]
    /\ UNCHANGED <<phase, made, charged, owed, price>>

Commit ==
    /\ phase = "EDITABLE" /\ wanted # Nothing
    /\ phase' = "COMMITTED" /\ charged' = Amount /\ owed' = owed + Amount
    /\ UNCHANGED <<wanted, made, price>>

Submit ==
    /\ phase = "COMMITTED"
    /\ phase' = "SUBMITTED" /\ made' = wanted
    /\ UNCHANGED <<wanted, charged, owed, price>>

\* The round is withdrawn from what is owed, for what it was charged.
Withdraw ==
    /\ phase = "COMMITTED"
    /\ phase' = "CANCELLED" /\ owed' = owed - charged
    /\ UNCHANGED <<wanted, made, charged, price>>

NextRound ==
    /\ phase = "SUBMITTED"
    /\ phase' = "EDITABLE" /\ wanted' = Nothing /\ made' = Nothing /\ charged' = 0
    /\ UNCHANGED <<owed, price>>

\* Prices move at any time and change nothing that is committed.
Reprice == UNCHANGED <<phase, wanted, made, charged, owed>>

BookNext ==
    \/ \E c \in DOMAIN wanted \cup DOMAIN wanted' : Recount(c)
    \/ \E c \in DOMAIN wanted, d \in DOMAIN wanted' : Reconfigure(c, d)
    \/ Commit \/ Submit \/ Withdraw \/ NextRound \/ Reprice

BookSpec == BookInit /\ [][BookNext]_bookVars
=============================================================================
