------------------------------ MODULE SaleTab ------------------------------
(***************************************************************************)
(* What a Service Session promises of its money, without Checks, units,    *)
(* Payments or Refunds: one tab, on which the guests still owe something   *)
(* and the cafe may owe something back.  What the sale comes to is         *)
(* kept + due - owed, so a tab that is closed square was paid exactly.     *)
(*                                                                         *)
(* A guest on one Check may owe while another is owed: the two never       *)
(* cancel out.  How the tab is divided over Checks is not seen here, so    *)
(* splitting and merging must leave it alone.                              *)
(*                                                                         *)
(* CheckLedger and Preparation, which keep the same Checks for different   *)
(* purposes, both implement this specification.                            *)
(***************************************************************************)
EXTENDS Integers

VARIABLES
    phase,     \* the Session's lifecycle state
    due,       \* what the guests have still to pay
    owed,      \* what the cafe has to give back
    kept,      \* what the cafe has received and not given back
    promised   \* live Manual QR Refunds recorded and not yet confirmed

tabVars == <<phase, due, owed, kept, promised>>

TabInit ==
    phase = "ACTIVE" /\ due = 0 /\ owed = 0 /\ kept = 0 /\ promised = 0

\* An order goes on the tab; it pays off nothing the cafe owes.
Charge ==
    /\ phase = "ACTIVE" /\ due' > due
    /\ UNCHANGED <<phase, owed, kept, promised>>

\* A charge is taken off: less is due, or what was paid for it is owed back.
TakeOff ==
    /\ phase = "ACTIVE" /\ due' <= due /\ owed' >= owed
    /\ UNCHANGED <<phase, kept, promised>>

\* Never more than is due.
Receive ==
    /\ phase = "ACTIVE"
    /\ \E amount \in 1 .. due : due' = due - amount /\ kept' = kept + amount
    /\ UNCHANGED <<phase, owed, promised>>

\* A Payment that never was: it settles what was owed back for it first.
TakeBack ==
    /\ phase = "ACTIVE" /\ due' >= due /\ owed' <= owed
    /\ kept' = kept - (due' - due) - (owed - owed') /\ 0 <= kept' /\ kept' < kept
    /\ UNCHANGED <<phase, promised>>

\* No money moves.
Promise ==
    /\ phase = "ACTIVE"
    /\ \E amount \in 1 .. owed : promised' = promised + amount
    /\ UNCHANGED <<phase, due, owed, kept>>

\* Never more than is owed, whether it was promised before or not.
GiveBack ==
    /\ phase = "ACTIVE"
    /\ \E amount \in 1 .. owed :
          /\ owed' = owed - amount /\ kept' = kept - amount
          /\ promised' = promised \/ promised' = promised - amount
    /\ UNCHANGED <<phase, due>>

\* The sale is square.  A promise nobody kept stays unkept.
Close ==
    /\ phase = "ACTIVE" /\ due = 0 /\ owed = 0
    /\ phase' = "CLOSED"
    /\ UNCHANGED <<due, owed, kept, promised>>

\* The guests leave; the cafe keeps nothing and has promised nothing.
Abandon ==
    /\ phase = "ACTIVE" /\ kept = 0 /\ promised = 0
    /\ phase' = "ABANDONED"
    /\ UNCHANGED <<due, owed, kept, promised>>

TabNext ==
    Charge \/ TakeOff \/ Receive \/ TakeBack \/ Promise \/ GiveBack \/ Close \/ Abandon

TabSpec == TabInit /\ [][TabNext]_tabVars
=============================================================================
