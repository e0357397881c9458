----------------------------- MODULE ShiftBook -----------------------------
(***************************************************************************)
(* What a Sales Shift promises the cafe owner, without transactions, locks *)
(* or Service Sessions.  A Shift is a book of financial facts.  Facts are  *)
(* entered while the book is open; reconciliation copies the totals into a *)
(* report; the book is closed against that report and never changes again. *)
(* SalesShift is the detailed design and implements this specification.    *)
(***************************************************************************)
EXTENDS Naturals

CONSTANT Shifts

VARIABLES
    phase,    \* Shift -> its lifecycle state
    book,     \* Shift -> the number of facts of each kind entered so far
    report    \* Shift -> the totals reconciliation froze

bookVars == <<phase, book, report>>

Entries == [money : Nat, drawer : Nat]
BlankEntries == [money |-> 0, drawer |-> 0]

BookInit ==
    /\ phase = [s \in Shifts |-> "ABSENT"]
    /\ book = [s \in Shifts |-> BlankEntries]
    /\ report = [s \in Shifts |-> BlankEntries]

\* At most one Shift is being worked on in the whole cafe.
OpenBook(s) ==
    /\ phase[s] = "ABSENT"
    /\ \A o \in Shifts : phase[o] \notin {"OPEN", "CLOSING"}
    /\ phase' = [phase EXCEPT ![s] = "OPEN"]
    /\ UNCHANGED <<book, report>>

\* Exactly one fact at a time, and only in an open book.
EnterFact(s) ==
    /\ phase[s] = "OPEN"
    /\ \E kind \in {"money", "drawer"} : book' = [book EXCEPT ![s][kind] = @ + 1]
    /\ UNCHANGED <<phase, report>>

\* The report is the whole book at the moment it stops being open.
FreezeReport(s) ==
    /\ phase[s] = "OPEN"
    /\ phase' = [phase EXCEPT ![s] = "CLOSING"]
    /\ report' = [report EXCEPT ![s] = book[s]]
    /\ UNCHANGED book

CloseBook(s) ==
    /\ phase[s] = "CLOSING"
    /\ report[s] = book[s]
    /\ phase' = [phase EXCEPT ![s] = "CLOSED"]
    /\ UNCHANGED <<book, report>>

BookNext ==
    \E s \in Shifts : OpenBook(s) \/ EnterFact(s) \/ FreezeReport(s) \/ CloseBook(s)

BookSpec == BookInit /\ [][BookNext]_bookVars
=============================================================================
