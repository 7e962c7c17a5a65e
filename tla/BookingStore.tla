----------------------------- MODULE BookingStore -----------------------------
(***************************************************************************)
(* The bookings table of booking-service: each booking's lifecycle status  *)
(* and the payment recorded on it.  The two operations are atomic, as the  *)
(* memory store's mutex and the single UPDATE ... WHERE of the PostgreSQL  *)
(* store make them.                                                        *)
(***************************************************************************)

CONSTANTS
    Bookings,           \* the booking identifiers
    PaymentIds,
    NoPayment           \* the empty payment_id

VARIABLES
    status,             \* status[b]; "none" until the row is inserted
    paymentOf           \* paymentOf[b] is payment_id

bookingVars == <<status, paymentOf>>

Statuses == {"PENDING", "CONFIRMED", "FAILED", "CANCELLED"}

BookingTypeOK ==
    /\ status \in [Bookings -> Statuses \cup {"none"}]
    /\ paymentOf \in [Bookings -> PaymentIds \cup {NoPayment}]

-------------------------------------------------------------------------------
Create(b, code) ==
    /\ code = "ok"
    /\ status' = [status EXCEPT ![b] = "PENDING"]
    /\ UNCHANGED paymentOf

(* The guarded transition: it happens only from one of the statuses the     *)
(* caller allows, and an empty payment id keeps the one already recorded.   *)
UpdateStatus(b, new, allowedFrom, p, code) ==
    \/ /\ status[b] = "none"
       /\ code = "booking_not_found"
       /\ UNCHANGED bookingVars
    \/ /\ status[b] # "none"
       /\ status[b] \notin allowedFrom
       /\ code = "not_cancellable"
       /\ UNCHANGED bookingVars
    \/ /\ status[b] \in allowedFrom
       /\ code = "ok"
       /\ status' = [status EXCEPT ![b] = new]
       /\ paymentOf' = [paymentOf EXCEPT ![b] = IF p = NoPayment THEN @ ELSE p]
===============================================================================
