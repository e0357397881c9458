----------------------------- MODULE QueueReads -----------------------------
(***************************************************************************)
(* The bar's screen: one read that lists the Preparation Units to work on, *)
(* the alerts nobody has acknowledged and the Wastes and Remakes of open   *)
(* Sessions.  It is the only way the bar learns of its work, and the       *)
(* screen joins the three lists by unit: a unit that falls off the first   *)
(* list before it is served is never made, an alert whose unit is not on   *)
(* it cannot be shown, and one row whose links do not resolve fails the    *)
(* read for the whole bar.                                                 *)
(*                                                                         *)
(* The read runs in one read-only REPEATABLE READ transaction, so it is an *)
(* operator over one state of Preparation.  Names, Tables and times, with  *)
(* the order they give to a lane, are left out.                            *)
(***************************************************************************)
EXTENDS Preparation

\* What is left to do, and what was called off and is still unacknowledged.
AtTheBar == {"QUEUED", "IN_PREPARATION", "READY"}
ListActivePreparationUnits ==
    {u \in Units : \/ unit[u].state \in AtTheBar
                   \/ unit[u].state \in {"CANCELLED", "WASTED"} /\ unit[u].alert = "RAISED"}

\* Remakes first, then what was ordered, then what was called off.
Lane(u) ==
    IF unit[u].state \notin AtTheBar THEN 3 ELSE IF unit[u].of # 0 THEN 1 ELSE 2

\* "2 of 3": every piece of the item counts, Remakes and finished ones too.
OrderItemUnitCount(u) ==
    Cardinality({n \in Numbers(u[1]) : unit[<<u[1], n>>].state # "NONE"})

Link(u) == IF unit[u].of = 0 THEN {} ELSE {<<u[1], unit[u].of>>}
QueueUnitFromRow(u) ==
    [number |-> u[2], count |-> OrderItemUnitCount(u), state |-> unit[u].state,
     lane |-> Lane(u), remakeOf |-> Link(u)]

-----------------------------------------------------------------------------
\* A Waste is the row that made its unit WASTED.
Wastes == {u \in Existing : unit[u].state = "WASTED"}

ListActivePreparationAlerts == {u \in Existing : unit[u].alert = "RAISED"}
\* Only a WASTE alert has a Waste to link to, and it must have one.
QueueAlertFromRow(u) ==
    [kind |-> IF u \in Wastes THEN "WASTE" ELSE "CANCELLATION", waste |-> Wastes \cap {u}]

\* Of open Sessions, a Waste by its unit and a Remake by the unit it added, with
\* the source it replaces.
WasteEntries == IF session = "ACTIVE" THEN Wastes ELSE {}
RemakeEntries ==
    IF session = "ACTIVE" THEN {u \in Existing : unit[u].of # 0 /\ Link(u) \subseteq Wastes} ELSE {}
QueueCorrectionFromRow(u) == [unit |-> u, waste |-> Link(u)]

ReadActiveQueue ==
    [units |-> [u \in ListActivePreparationUnits |-> QueueUnitFromRow(u)],
     alerts |-> [u \in ListActivePreparationAlerts |-> QueueAlertFromRow(u)],
     wastes |-> WasteEntries,
     remakes |-> {QueueCorrectionFromRow(u) : u \in RemakeEntries}]

-----------------------------------------------------------------------------
\* The screen is of one piece: an alert's unit is listed, no piece is numbered
\* past its count, a Remake on it replaces a piece that was wasted, and once the
\* Session is closed there is nothing left of it to make.
Coherent ==
    LET listed == ListActivePreparationUnits IN
    /\ ListActivePreparationAlerts \subseteq listed
    /\ \A u \in listed :
          /\ u[2] <= OrderItemUnitCount(u)
          /\ \A source \in Link(u) : unit[source].state = "WASTED"
          /\ session = "CLOSED" => Lane(u) = 3

\* Work leaves the bar's screen when it is served or, called off, when somebody
\* acknowledged it, and in no other way; a closed Session adds nothing to it; and
\* every step leaves the screen coherent (ActiveQueueHandler, queue.go).
QueueKeepsTheWork ==
    [][LET before == ListActivePreparationUnits
           after == ListActivePreparationUnits'
       IN  /\ \A u \in before \ after :
                 \/ unit'[u].state = "FULFILLED"
                 \/ unit[u].alert = "RAISED" /\ unit'[u].alert = "ACKNOWLEDGED"
           /\ session = "CLOSED" => after \subseteq before
           /\ Coherent'
      ]_<<unit, session>>
=============================================================================
