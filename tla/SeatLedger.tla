------------------------------ MODULE SeatLedger -------------------------------
(***************************************************************************)
(* What an inventory store promises its callers: each adjustment takes     *)
(* effect at one moment and within the bounds, or it is refused because at *)
(* some moment it did not fit; and a caller may fail to hear of either.    *)
(***************************************************************************)
EXTENDS Integers

CONSTANTS Events, Capacity, Handlers, EventOf, DeltaOf

VARIABLES
    listing, available,
    outcome             \* each adjustment: open, applied, refused, unheard

ledgerVars == <<listing, available, outcome>>

Inventory == INSTANCE EventService

LedgerInit ==
    /\ listing = [e \in Events |-> "absent"]
    /\ available = [e \in Events |-> 0]
    /\ outcome = [h \in Handlers |-> "open"]

Settle(h, result) == outcome' = [outcome EXCEPT ![h] = result]

Apply(h) ==
    /\ outcome[h] = "open"
    /\ Inventory!AdjustSeats(EventOf[h], DeltaOf[h], "ok")
    /\ Settle(h, "applied")

Refuse(h) ==
    /\ outcome[h] = "open"
    /\ \E code \in {"event_not_found", "insufficient_seats", "release_exceeds_capacity"} :
           Inventory!AdjustSeats(EventOf[h], DeltaOf[h], code)
    /\ Settle(h, "refused")

Unheard(h) ==
    /\ outcome[h] \in {"open", "refused"}
    /\ Settle(h, "unheard")
    /\ UNCHANGED <<listing, available>>

Catalogue(e) ==
    /\ Inventory!CreateEvent(e) \/ Inventory!DeleteEvent(e)
    /\ UNCHANGED outcome

LedgerNext ==
    \/ \E h \in Handlers : Apply(h) \/ Refuse(h) \/ Unheard(h)
    \/ \E e \in Events : Catalogue(e)

LedgerSpec == LedgerInit /\ [][LedgerNext]_ledgerVars
===============================================================================
