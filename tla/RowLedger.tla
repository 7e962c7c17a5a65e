------------------------------- MODULE RowLedger -------------------------------
(***************************************************************************)
(* What the stores of bookings and payments promise the saga: each guarded *)
(* change takes effect at one moment, or is refused because at some moment *)
(* its guard did not hold; and a caller may fail to hear of either.  The   *)
(* changes are those of BookingStore and PaymentService, so this is also   *)
(* what allows the saga to take its tables as atomic.                      *)
(***************************************************************************)
CONSTANTS
    Bookings, PaymentIds, NoPayment, Verdicts,
    Updates, BookingOf, Transition, ChargeOf, Refunds, RefundOf

VARIABLES
    status, paymentOf, payment,
    outcome             \* each call: open, applied, refused, unheard

ledgerVars == <<status, paymentOf, payment, outcome>>

Table == INSTANCE BookingStore
PaymentTable == INSTANCE PaymentService

LedgerInit ==
    /\ status = [b \in Bookings |-> "none"]
    /\ paymentOf = [b \in Bookings |-> NoPayment]
    /\ payment = [p \in PaymentIds |-> "none"]
    /\ outcome = [h \in Updates \cup Refunds |-> "open"]

Settle(h, result) == outcome' = [outcome EXCEPT ![h] = result]

(* The call h, as the saga takes it: atomic, and answered code.             *)
Call(h, code) ==
    \/ /\ h \in Updates
       /\ CASE Transition[h] = "confirm" ->
                   Table!UpdateStatus(BookingOf[h], "CONFIRMED", {"PENDING"}, ChargeOf[h], code)
            [] Transition[h] = "fail" ->
                   Table!UpdateStatus(BookingOf[h], "FAILED", {"PENDING"}, NoPayment, code)
            [] OTHER ->
                   Table!UpdateStatus(BookingOf[h], "CANCELLED", {"CONFIRMED"}, NoPayment, code)
       /\ UNCHANGED payment
    \/ /\ h \in Refunds
       /\ PaymentTable!Refund(RefundOf[h], code)
       /\ UNCHANGED <<status, paymentOf>>

Apply(h) ==
    /\ outcome[h] = "open"
    /\ Call(h, "ok")
    /\ Settle(h, "applied")

Refuse(h) ==
    /\ outcome[h] = "open"
    /\ \E code \in {"booking_not_found", "not_cancellable", "payment_not_found", "not_refundable"} :
           Call(h, code)
    /\ Settle(h, "refused")

Unheard(h) ==
    /\ outcome[h] \in {"open", "refused"}
    /\ Settle(h, "unheard")
    /\ UNCHANGED <<status, paymentOf, payment>>

Insert ==
    /\ \/ /\ \E b \in Bookings : status[b] = "none" /\ Table!Create(b, "ok")
          /\ UNCHANGED payment
       \/ /\ \E p \in PaymentIds, code \in {"ok", "payment_declined"} :
                 PaymentTable!Charge(p, TRUE, code)
          /\ UNCHANGED <<status, paymentOf>>
    /\ UNCHANGED outcome

LedgerNext == Insert \/ \E h \in Updates \cup Refunds : Apply(h) \/ Refuse(h) \/ Unheard(h)

LedgerSpec == LedgerInit /\ [][LedgerNext]_ledgerVars
===============================================================================
