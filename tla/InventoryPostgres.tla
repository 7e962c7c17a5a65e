--------------------------- MODULE InventoryPostgres ---------------------------
(***************************************************************************)
(* The PostgreSQL store of event-service, shared by its replicas.  Each    *)
(* handler serves one reserve (a negative delta) or release request with   *)
(* at most two statements: a guarded UPDATE and, when that matched no row, *)
(* a SELECT that finds out why.  Other handlers run between the two.       *)
(***************************************************************************)
EXTENDS Integers, FiniteSets

CONSTANTS
    Events, Capacity,
    Handlers,           \* the requests being served
    EventOf, DeltaOf    \* what each of them adjusts, and by how much

ASSUME InventoryAssumption ==
    /\ Capacity \in [Events -> Nat \ {0}]
    /\ EventOf \in [Handlers -> Events]
    /\ DeltaOf \in [Handlers -> (-10..10) \ {0}]

VARIABLES
    listing, available, \* the table
    stage,              \* stage[h]: the statement h is at
    reply,              \* reply[h]: the error code h answered
    applied             \* the handlers whose change was committed

tableVars == <<listing, available>>
vars == <<tableVars, stage, reply, applied>>

Inventory == INSTANCE EventService

Replies == {"none", "ok", "event_not_found", "insufficient_seats",
            "release_exceeds_capacity", "internal_error"}

TypeOK ==
    /\ Inventory!InventoryTypeOK
    /\ stage \in [Handlers -> {"update", "readBack", "answered"}]
    /\ reply \in [Handlers -> Replies]
    /\ applied \subseteq Handlers

Init ==
    /\ listing = [e \in Events |-> "absent"]
    /\ available = [e \in Events |-> 0]
    /\ stage = [h \in Handlers |-> "update"]
    /\ reply = [h \in Handlers |-> "none"]
    /\ applied = {}

-------------------------------------------------------------------------------
Reply(h, code) ==
    /\ stage' = [stage EXCEPT ![h] = "answered"]
    /\ reply' = [reply EXCEPT ![h] = code]

(* Variants: the WHERE clause forgets one of the two bounds.                *)
MatchesAnyRelease(h) ==
    /\ listing[EventOf[h]] = "listed"
    /\ available[EventOf[h]] + DeltaOf[h] >= 0
MatchesAnyReservation(h) ==
    /\ listing[EventOf[h]] = "listed"
    /\ available[EventOf[h]] + DeltaOf[h] <= Capacity[EventOf[h]]

(* The WHERE clause of the UPDATE.                                          *)
Matches(h) ==
    /\ listing[EventOf[h]] = "listed"
    /\ available[EventOf[h]] + DeltaOf[h] >= 0
    /\ available[EventOf[h]] + DeltaOf[h] <= Capacity[EventOf[h]]

(* Variant: the statement sets the value computed from a row read earlier   *)
(* by a handler that had the event to itself.                               *)
ChangeFromFull(h) ==
    /\ available' = [available EXCEPT ![EventOf[h]] = Capacity[EventOf[h]] + DeltaOf[h]]
    /\ applied' = applied \cup {h}
    /\ UNCHANGED listing

Change(h) ==
    /\ available' = [available EXCEPT ![EventOf[h]] = @ + DeltaOf[h]]
    /\ applied' = applied \cup {h}
    /\ UNCHANGED listing

(* The UPDATE: it changes the row, or matches none, or answers an error     *)
(* whether it was committed or not.  Identifiers are minted by the service, *)
(* so nobody asks for an event before it is created.                        *)
Update(h) ==
    /\ stage[h] = "update"
    /\ listing[EventOf[h]] # "absent"
    /\ \/ Matches(h) /\ Change(h) /\ Reply(h, "ok")
       \/ Matches(h) /\ Change(h) /\ Reply(h, "internal_error")
       \/ /\ ~Matches(h)
          /\ stage' = [stage EXCEPT ![h] = "readBack"]
          /\ UNCHANGED <<tableVars, reply, applied>>
       \/ Reply(h, "internal_error") /\ UNCHANGED <<tableVars, applied>>

(* What the row read back says of the refusal.                              *)
Reason(h) ==
    IF listing[EventOf[h]] # "listed" THEN "event_not_found"
    ELSE IF available[EventOf[h]] + DeltaOf[h] < 0 THEN "insufficient_seats"
    ELSE "release_exceeds_capacity"

ReadBack(h) ==
    /\ stage[h] = "readBack"
    /\ Reply(h, Reason(h)) \/ Reply(h, "internal_error")
    /\ UNCHANGED <<tableVars, applied>>

CreateEvent(e) ==
    /\ Inventory!CreateEvent(e)
    /\ UNCHANGED <<stage, reply, applied>>

DeleteEvent(e) ==
    /\ Inventory!DeleteEvent(e)
    /\ UNCHANGED <<stage, reply, applied>>

Next ==
    \/ \E h \in Handlers : Update(h) \/ ReadBack(h)
    \/ \E e \in Events : CreateEvent(e) \/ DeleteEvent(e)

Spec == Init /\ [][Next]_vars

-------------------------------------------------------------------------------
(* The committed changes of an event, seat by seat: the seats its handlers   *)
(* took, and those they put back.                                           *)
AppliedTo(e) == {h \in applied : EventOf[h] = e}
Taken(e) == UNION {{h} \X (1..(-DeltaOf[h])) : h \in AppliedTo(e)}
PutBack(e) == UNION {{h} \X (1..DeltaOf[h]) : h \in AppliedTo(e)}

(* The seats of an event add up: what is available is the capacity and the  *)
(* committed changes, each of them once, however the handlers interleave    *)
(* and whatever they were answered.                                         *)
SeatsAddUp ==
    \A e \in Events :
        listing[e] # "absent" =>
            available[e] + Cardinality(Taken(e)) = Capacity[e] + Cardinality(PutBack(e))

(* The handlers keep the promise of a ledger: a refusal is settled when the *)
(* UPDATE matches no row, before the handler knows its reason.              *)
OutcomeOf(h) ==
    IF h \in applied THEN "applied"
    ELSE IF stage[h] = "update" THEN "open"
    ELSE IF reply[h] = "internal_error" THEN "unheard"
    ELSE "refused"

Ledger == INSTANCE SeatLedger WITH outcome <- [h \in Handlers |-> OutcomeOf(h)]

(* Each adjustment takes effect at one moment and within the bounds, or is  *)
(* refused because there was a moment at which it did not fit.              *)
KeepsLedger == Ledger!LedgerSpec
===============================================================================
