----------------------------- MODULE EventService -----------------------------
(***************************************************************************)
(* The seat inventory of event-service, as its memory store keeps it.  An  *)
(* event is absent until it is created, listed while its row exists and    *)
(* deleted for good after that: identifiers are minted once.  An operation *)
(* relates the state before, the state after and the error code the caller *)
(* is answered, "ok" standing for every 2xx.                               *)
(***************************************************************************)
EXTENDS Integers

CONSTANTS
    Events,             \* the event identifiers the model may mint
    Capacity            \* Capacity[e] is total_seats, fixed at creation

VARIABLES
    listing,            \* listing[e]: is the row of e there?
    available           \* available[e] is available_seats

inventoryVars == <<listing, available>>

InventoryTypeOK ==
    /\ listing \in [Events -> {"absent", "listed", "deleted"}]
    /\ available \in [Events -> Int]
    /\ \A e \in Events : available[e] \in 0..Capacity[e]

MaxSeatsPerRequest == 10

-------------------------------------------------------------------------------
GetEvent(e, code) ==
    /\ code = IF listing[e] = "listed" THEN "ok" ELSE "event_not_found"
    /\ UNCHANGED inventoryVars

CreateEvent(e) ==
    /\ listing[e] = "absent"
    /\ listing' = [listing EXCEPT ![e] = "listed"]
    /\ available' = [available EXCEPT ![e] = Capacity[e]]

DeleteEvent(e) ==
    /\ listing[e] = "listed"
    /\ listing' = [listing EXCEPT ![e] = "deleted"]
    /\ UNCHANGED available

(* Variant: nobody checks that the seats are there.                         *)
AdjustSeatsUnchecked(e, delta, code) ==
    /\ code = IF listing[e] = "listed" THEN "ok" ELSE "event_not_found"
    /\ available' = [available EXCEPT ![e] = IF code = "ok" THEN @ + delta ELSE @]
    /\ UNCHANGED listing

(* Variant: a release of more seats than are out fills the event up.        *)
AdjustSeatsCapped(e, delta, code) ==
    /\ code = IF listing[e] # "listed" THEN "event_not_found"
              ELSE IF available[e] + delta < 0 THEN "insufficient_seats" ELSE "ok"
    /\ available' = [available EXCEPT ![e] =
           IF code # "ok" THEN @
           ELSE IF @ + delta > Capacity[e] THEN Capacity[e] ELSE @ + delta]
    /\ UNCHANGED listing

(* One bounds-checked change of available_seats: a negative delta reserves, *)
(* a positive one releases.                                                 *)
AdjustSeats(e, delta, code) ==
    \/ /\ listing[e] # "listed"
       /\ code = "event_not_found"
       /\ UNCHANGED inventoryVars
    \/ /\ listing[e] = "listed"
       /\ available[e] + delta < 0
       /\ code = "insufficient_seats"
       /\ UNCHANGED inventoryVars
    \/ /\ listing[e] = "listed"
       /\ available[e] + delta > Capacity[e]
       /\ code = "release_exceeds_capacity"
       /\ UNCHANGED inventoryVars
    \/ /\ listing[e] = "listed"
       /\ available[e] + delta \in 0..Capacity[e]
       /\ code = "ok"
       /\ available' = [available EXCEPT ![e] = @ + delta]
       /\ UNCHANGED listing

ReserveSeats(e, seats, code) ==
    \/ seats \in 1..MaxSeatsPerRequest /\ AdjustSeats(e, -seats, code)
    \/ /\ seats \notin 1..MaxSeatsPerRequest
       /\ code = "validation_failed"
       /\ UNCHANGED inventoryVars

ReleaseSeats(e, seats, code) ==
    \/ seats \in 1..MaxSeatsPerRequest /\ AdjustSeats(e, seats, code)
    \/ /\ seats \notin 1..MaxSeatsPerRequest
       /\ code = "validation_failed"
       /\ UNCHANGED inventoryVars
===============================================================================
