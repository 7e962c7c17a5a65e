------------------------------ MODULE BookingSaga ------------------------------
(***************************************************************************)
(* The orchestrator of booking-service, run by one goroutine per request   *)
(* (a flow), against the three services it calls over HTTP and the bookings*)
(* table it owns.  A booking flow is one POST /api/bookings and mints the  *)
(* booking it is named after; a cancel flow is one POST .../cancel.        *)
(*                                                                         *)
(* Everything the environment may do to the saga is a kind of fault, and   *)
(* at most MaxFaults of them happen in a behaviour:                        *)
(*   refused     an attempt fails and its request is never executed        *)
(*   error       a service answers 5xx and has changed nothing             *)
(*   lostCommit  a service answers 5xx, or the table an error, although    *)
(*               the change was committed                                  *)
(*   timeout     the client stops waiting for a request that is in flight  *)
(*               or already executed                                       *)
(*   storeError  the bookings table answers an error and changed nothing   *)
(*   hangup      the customer's connection closes: the request context of  *)
(*               the flow is cancelled, and with it the call or the table  *)
(*               statement that runs on it, executed or not                *)
(*   crash       the process running the flow dies                         *)
(*   delete      an admin deletes an event                                 *)
(***************************************************************************)
EXTENDS Integers, FiniteSets

CONSTANTS
    Events, Capacity, FreeEvents,   \* FreeEvents have price_cents = 0
    Bookings, EventOf, SeatsOf,     \* what each booking asks for
    Cancels, TargetOf,              \* which booking each cancel names
    Verdicts,                       \* the verdicts the gateway may return
    NoPayment,
    Retries,
    FaultKinds, MaxFaults

Flows == Bookings \cup Cancels
BookingOf(f) == IF f \in Bookings THEN f ELSE TargetOf[f]

AllFaultKinds == {"refused", "error", "lostCommit", "timeout", "storeError",
                  "hangup", "crash", "delete"}

Attempts == 0..Retries
PaymentIds == Bookings \X Attempts

Remote == {"getEvent", "reserve", "charge", "refund", "release", "notify"}
Local == {"create", "confirm", "markFailed", "markCancelled"}
Codes == {"ok", "event_not_found", "insufficient_seats",
          "release_exceeds_capacity", "validation_failed", "payment_declined",
          "payment_not_found", "not_refundable"}

ASSUME SagaAssumption ==
    /\ Capacity \in [Events -> Nat \ {0}]
    /\ FreeEvents \subseteq Events
    /\ Bookings \cap Cancels = {}
    /\ EventOf \in [Bookings -> Events]
    /\ SeatsOf \in [Bookings -> 1..10]
    /\ TargetOf \in [Cancels -> Bookings]
    /\ Verdicts \subseteq {"AUTHORIZED", "DECLINED"}
    /\ NoPayment \notin PaymentIds
    /\ Retries \in Nat
    /\ FaultKinds \subseteq AllFaultKinds
    /\ MaxFaults \in Nat

VARIABLES
    listing, available,             \* event-service
    payment,                        \* payment-service
    status, paymentOf,              \* the bookings table
    attempt, answer, inFlight,      \* the HTTP clients and the network
    pc,                             \* pc[f]: the step the flow is at
    path,                           \* path[f]: which way the flow is going
    charged,                        \* charged[f]: the payment id it holds
    hungUp,                         \* hungUp[f]: is its request context done?
    told,                           \* told[b]: the messages b's customer got
    reserved, released,             \* how often b's seats were taken, returned
    faults                          \* faults spent so far

inventoryVars == <<listing, available>>
bookingVars == <<status, paymentOf>>
clientVars == <<attempt, answer, inFlight>>
flowVars == <<pc, path, charged>>
historyVars == <<told, reserved, released>>
vars == <<inventoryVars, payment, bookingVars, clientVars, flowVars, hungUp,
          historyVars, faults>>

Inventory == INSTANCE EventService
PaymentsOf == INSTANCE PaymentService
Table == INSTANCE BookingStore
Client == INSTANCE HttpxClient WITH Callers <- Flows, Operations <- Remote

Paths == {"booking", "persistFailed", "chargeFailed", "confirmFailed",
          "cancelling"}

TypeOK ==
    /\ Inventory!InventoryTypeOK
    /\ PaymentsOf!PaymentTypeOK
    /\ Table!BookingTypeOK
    /\ Client!ClientTypeOK
    /\ pc \in [Flows -> Remote \cup Local \cup {"done", "crashed"}]
    /\ path \in [Flows -> Paths]
    /\ charged \in [Flows -> PaymentIds \cup {NoPayment}]
    /\ hungUp \in [Flows -> BOOLEAN]
    /\ told \in [Bookings -> SUBSET {"confirmed", "failed", "cancelled"}]
    /\ reserved \in [Bookings -> Nat]
    /\ released \in [Bookings -> Nat]
    /\ faults \in 0..MaxFaults

Init ==
    /\ listing = [e \in Events |-> "listed"]
    /\ available = Capacity
    /\ payment = [p \in PaymentIds |-> "none"]
    /\ status = [b \in Bookings |-> "none"]
    /\ paymentOf = [b \in Bookings |-> NoPayment]
    /\ Client!ClientInit
    /\ pc = [f \in Flows |-> IF f \in Bookings THEN "getEvent" ELSE "markCancelled"]
    /\ path = [f \in Flows |-> IF f \in Bookings THEN "booking" ELSE "cancelling"]
    /\ charged = [f \in Flows |-> NoPayment]
    /\ hungUp = [f \in Flows |-> FALSE]
    /\ told = [b \in Bookings |-> {}]
    /\ reserved = [b \in Bookings |-> 0]
    /\ released = [b \in Bookings |-> 0]
    /\ faults = 0

Fault(kind) ==
    /\ kind \in FaultKinds
    /\ faults < MaxFaults
    /\ faults' = faults + 1

-------------------------------------------------------------------------------
(* The saga's side of a remote call.                                        *)

(* Variant: releases run on the request context, as the reservation does.   *)
DetachedButRelease(f) ==
    \/ pc[f] = "notify"
    \/ pc[f] = "refund" /\ f \in Bookings

(* Releases and notifications always run on a context detached from the     *)
(* request, a refund only when it compensates a booking that failed.        *)
Detached(f) ==
    \/ pc[f] \in {"release", "notify"}
    \/ pc[f] = "refund" /\ f \in Bookings

ContextDone(f) == hungUp[f] /\ ~Detached(f)

Send(f) ==
    /\ pc[f] \in Remote
    /\ ~ContextDone(f)
    /\ Client!Send(f, pc[f])
    /\ UNCHANGED <<inventoryVars, payment, bookingVars, flowVars, hungUp,
                   historyVars, faults>>

Retry(f) ==
    /\ pc[f] \in Remote
    /\ ~ContextDone(f)
    /\ Client!Retry(f)
    /\ UNCHANGED <<inventoryVars, payment, bookingVars, flowVars, hungUp,
                   historyVars, faults>>

Timeout(f) ==
    /\ Fault("timeout")
    /\ Client!Timeout(f)
    /\ UNCHANGED <<inventoryVars, payment, bookingVars, flowVars, hungUp,
                   historyVars>>

(* How a call may come back: as the client's loop ends; at once when the    *)
(* request context is done; and, on a detached context, at its deadline,    *)
(* which two slow attempts reach before the retries are used up.            *)
CallReturns(f, result) ==
    /\ pc[f] \in Remote
    /\ \/ Client!Returns(f, result) /\ UNCHANGED faults
       \/ ContextDone(f) /\ result = "failed" /\ UNCHANGED faults
       \/ /\ Detached(f)
          /\ attempt[f] > 0
          /\ answer[f] \notin {"idle", "lost"}
          /\ result = "failed"
          /\ Fault("timeout")
    /\ Client!EndCall(f)

Goto(f, step) == pc' = [pc EXCEPT ![f] = step]

GoUnwind(f, way, step) ==
    /\ path' = [path EXCEPT ![f] = way]
    /\ Goto(f, step)

-------------------------------------------------------------------------------
(* The services' side: a request in flight is executed, fails or is lost.   *)

Awaited(f, op, k) == pc[f] = op /\ attempt[f] = k /\ answer[f] = "waiting"

Count(counter, b, code) ==
    IF code = "ok" THEN [counter EXCEPT ![b] = @ + 1] ELSE counter

Message(f) ==
    CASE path[f] = "cancelling" -> "cancelled"
      [] path[f] = "chargeFailed" -> "failed"
      [] OTHER -> "confirmed"

(* Create returns an empty booking with its error, which Book puts in the   *)
(* place of the one it holds: the release that follows names no event and   *)
(* no seats, is redirected to an event called "release", and finds none.    *)
NamesEvent(f) == path[f] # "persistFailed"

ExecuteInventory(f, op, code) ==
    LET b == BookingOf(f)
        e == EventOf[b]
    IN  /\ \/ /\ op = "getEvent"
              /\ Inventory!GetEvent(e, code)
              /\ UNCHANGED <<reserved, released>>
           \/ /\ op = "reserve"
              /\ Inventory!ReserveSeats(e, SeatsOf[b], code)
              /\ reserved' = Count(reserved, b, code)
              /\ UNCHANGED released
           \/ /\ op = "release" /\ NamesEvent(f)
              /\ Inventory!ReleaseSeats(e, SeatsOf[b], code)
              /\ released' = Count(released, b, code)
              /\ UNCHANGED reserved
           \/ /\ op = "release" /\ ~NamesEvent(f)
              /\ code = "event_not_found"
              /\ UNCHANGED <<inventoryVars, reserved, released>>
        /\ UNCHANGED <<payment, told>>

ExecutePayment(f, op, k, code) ==
    /\ \/ op = "charge" /\ PaymentsOf!Charge(<<f, k>>, EventOf[f] \notin FreeEvents, code)
       \/ op = "refund" /\ PaymentsOf!Refund(charged[f], code)
    /\ UNCHANGED <<inventoryVars, told, reserved, released>>

ExecuteNotify(f, op, code) ==
    /\ op = "notify"
    /\ code = "ok"
    /\ told' = [told EXCEPT ![BookingOf(f)] = @ \cup {Message(f)}]
    /\ UNCHANGED <<inventoryVars, payment, reserved, released>>

Execute(f, op, k, code) ==
    \/ ExecuteInventory(f, op, code)
    \/ ExecutePayment(f, op, k, code)
    \/ ExecuteNotify(f, op, code)

Serve(f, op, k) ==
    /\ <<f, op, k>> \in inFlight
    /\ \E code \in Codes :
           /\ Execute(f, op, k, code)
           /\ Client!Answer(f, op, k, pc[f] = op, code)
    /\ UNCHANGED <<bookingVars, flowVars, hungUp, faults>>

ServeButAnswerError(f, op, k) ==
    /\ <<f, op, k>> \in inFlight
    /\ Awaited(f, op, k)
    /\ Fault("lostCommit")
    /\ Execute(f, op, k, "ok")
    /\ Client!Answer(f, op, k, TRUE, "internal_error")
    /\ UNCHANGED <<bookingVars, flowVars, hungUp>>

ServerError(f, op, k) ==
    /\ <<f, op, k>> \in inFlight
    /\ Awaited(f, op, k)
    /\ Fault("error")
    /\ Client!Answer(f, op, k, TRUE, "internal_error")
    /\ UNCHANGED <<inventoryVars, payment, bookingVars, flowVars, hungUp, historyVars>>

Refuse(f, op, k) ==
    /\ <<f, op, k>> \in inFlight
    /\ Awaited(f, op, k)
    /\ Fault("refused")
    /\ Client!Answer(f, op, k, TRUE, "lost")
    /\ UNCHANGED <<inventoryVars, payment, bookingVars, flowVars, hungUp, historyVars>>

(* A request nobody waits for any more dies with its connection.            *)
Discard(f, op, k) ==
    /\ <<f, op, k>> \in inFlight
    /\ ~Awaited(f, op, k)
    /\ Client!Answer(f, op, k, FALSE, "lost")
    /\ UNCHANGED <<inventoryVars, payment, bookingVars, flowVars, hungUp, historyVars, faults>>

-------------------------------------------------------------------------------
(* POST /api/bookings, step by step.                                        *)

AfterGetEvent(f) ==
    /\ pc[f] = "getEvent"
    /\ \E result \in Codes \cup {"failed"} :
           /\ CallReturns(f, result)
           /\ Goto(f, IF result = "ok" THEN "reserve" ELSE "done")
    /\ UNCHANGED <<inventoryVars, payment, bookingVars, path, charged, hungUp, historyVars>>

(* Variant: the answer of the reservation is not looked at.                 *)
AfterReserveAnyway(f) ==
    /\ pc[f] = "reserve"
    /\ \E result \in Codes \cup {"failed"} : CallReturns(f, result)
    /\ Goto(f, "create")
    /\ UNCHANGED <<inventoryVars, payment, bookingVars, path, charged, hungUp, historyVars>>

(* Whatever a reservation that did not succeed answers, nothing is undone.  *)
AfterReserve(f) ==
    /\ pc[f] = "reserve"
    /\ \E result \in Codes \cup {"failed"} :
           /\ CallReturns(f, result)
           /\ Goto(f, IF result = "ok" THEN "create" ELSE "done")
    /\ UNCHANGED <<inventoryVars, payment, bookingVars, path, charged, hungUp, historyVars>>

(* A write to the bookings table that answers an error: it did not happen,  *)
(* or (Committed) it did and only the answer was lost.  The statement runs  *)
(* on the request context except when it marks a booking FAILED, and a      *)
(* context that ends gives it up without knowing whether it was committed.  *)
TableErrs(f, Committed) ==
    \/ UNCHANGED bookingVars /\ Fault("storeError")
    \/ /\ hungUp[f] /\ pc[f] # "markFailed"
       /\ Committed \/ UNCHANGED bookingVars
       /\ UNCHANGED faults
    \/ Committed /\ Fault("lostCommit")

(* A booking that could not be persisted is released as NamesEvent says.    *)
CreateBooking(f) ==
    /\ pc[f] = "create"
    /\ \/ Table!Create(f, "ok") /\ Goto(f, "charge") /\ UNCHANGED <<path, faults>>
       \/ TableErrs(f, Table!Create(f, "ok")) /\ GoUnwind(f, "persistFailed", "release")
    /\ UNCHANGED <<inventoryVars, payment, clientVars, charged, hungUp, historyVars>>

(* Variant: a declined charge is taken for a payment.                       *)
AfterChargeTakesDeclined(f) ==
    /\ pc[f] = "charge"
    /\ \/ /\ CallReturns(f, "ok") \/ CallReturns(f, "payment_declined")
          /\ charged' = [charged EXCEPT ![f] = <<f, attempt[f]>>]
          /\ Goto(f, "confirm")
          /\ UNCHANGED path
       \/ /\ CallReturns(f, "failed")
          /\ GoUnwind(f, "chargeFailed", "markFailed")
          /\ UNCHANGED charged
    /\ UNCHANGED <<inventoryVars, payment, bookingVars, hungUp, historyVars>>

AfterCharge(f) ==
    /\ pc[f] = "charge"
    /\ \/ /\ CallReturns(f, "ok")
          /\ charged' = [charged EXCEPT ![f] = <<f, attempt[f]>>]
          /\ Goto(f, "confirm")
          /\ UNCHANGED path
       \/ /\ \E result \in (Codes \ {"ok"}) \cup {"failed"} : CallReturns(f, result)
          /\ GoUnwind(f, "chargeFailed", "markFailed")
          /\ UNCHANGED charged
    /\ UNCHANGED <<inventoryVars, payment, bookingVars, hungUp, historyVars>>

(* Variant: a booking that could not be confirmed keeps the customer's money. *)
ConfirmKeepsMoney(f) ==
    LET Update(code) ==
            Table!UpdateStatus(f, "CONFIRMED", {"PENDING"}, charged[f], code)
    IN  /\ pc[f] = "confirm"
        /\ \/ Update("ok") /\ Goto(f, "notify") /\ UNCHANGED <<path, faults>>
           \/ TableErrs(f, Update("ok")) /\ GoUnwind(f, "confirmFailed", "release")
        /\ UNCHANGED <<inventoryVars, payment, clientVars, charged, hungUp, historyVars>>

Confirm(f) ==
    LET Update(code) ==
            Table!UpdateStatus(f, "CONFIRMED", {"PENDING"}, charged[f], code)
    IN  /\ pc[f] = "confirm"
        /\ \/ Update("ok") /\ Goto(f, "notify") /\ UNCHANGED <<path, faults>>
           \/ /\ \/ Update("booking_not_found") /\ UNCHANGED faults
                 \/ Update("not_cancellable") /\ UNCHANGED faults
                 \/ TableErrs(f, Update("ok"))
              /\ GoUnwind(f, "confirmFailed", "refund")
        /\ UNCHANGED <<inventoryVars, payment, clientVars, charged, hungUp, historyVars>>

(* Variant: a booking whose charge failed keeps its seats.                  *)
MarkFailedKeepsSeats(f) ==
    /\ pc[f] = "markFailed"
    /\ Table!UpdateStatus(f, "FAILED", {"PENDING"}, NoPayment, "ok")
    /\ Goto(f, "notify")
    /\ UNCHANGED <<inventoryVars, payment, clientVars, path, charged, hungUp, historyVars, faults>>

(* Variant: the row is marked on the request context.                       *)
MarkFailedOnRequest(f) ==
    /\ pc[f] = "markFailed"
    /\ \/ hungUp[f] /\ UNCHANGED bookingVars
       \/ ~hungUp[f] /\ Table!UpdateStatus(f, "FAILED", {"PENDING"}, NoPayment, "ok")
    /\ Goto(f, "release")
    /\ UNCHANGED <<inventoryVars, payment, clientVars, path, charged, hungUp, historyVars, faults>>

(* failBooking goes on to release the seats whether the row was marked or   *)
(* not.                                                                     *)
MarkFailed(f) ==
    LET Update(code) == Table!UpdateStatus(f, "FAILED", {"PENDING"}, NoPayment, code)
    IN  /\ pc[f] = "markFailed"
        /\ \/ \E code \in {"ok", "booking_not_found", "not_cancellable"} :
                  Update(code) /\ UNCHANGED faults
           \/ TableErrs(f, Update("ok"))
        /\ Goto(f, "release")
        /\ UNCHANGED <<inventoryVars, payment, clientVars, path, charged, hungUp, historyVars>>

-------------------------------------------------------------------------------
(* POST /api/bookings/{id}/cancel, and the steps both requests share.       *)

(* Variants: a booking may be cancelled twice, or before it is confirmed.   *)
CancellableTwice == {"CONFIRMED", "CANCELLED"}
CancellablePending == {"PENDING", "CONFIRMED"}

CancellableFrom == {"CONFIRMED"}

(* Variant: a cancelled booking keeps the customer's money.                 *)
AfterCancelKeepMoney(b) == "release"

AfterCancel(b) == IF paymentOf[b] = NoPayment THEN "release" ELSE "refund"

(* Variant: the cancellation goes on when the row could not be written.     *)
MarkCancelledRegardless(f) ==
    LET b == BookingOf(f)
    IN  /\ pc[f] = "markCancelled"
        /\ \/ Table!UpdateStatus(b, "CANCELLED", CancellableFrom, NoPayment, "ok") /\ UNCHANGED faults
           \/ TableErrs(f, FALSE)
        /\ charged' = [charged EXCEPT ![f] = paymentOf[b]]
        /\ Goto(f, AfterCancel(b))
        /\ UNCHANGED <<inventoryVars, payment, clientVars, path, hungUp, historyVars>>

MarkCancelled(f) ==
    LET b == BookingOf(f)
        Update(code) == Table!UpdateStatus(b, "CANCELLED", CancellableFrom, NoPayment, code)
    IN  /\ pc[f] = "markCancelled"
        /\ \/ /\ Update("ok")
              /\ charged' = [charged EXCEPT ![f] = paymentOf[b]]
              /\ Goto(f, AfterCancel(b))
              /\ UNCHANGED faults
           \/ /\ \/ Update("booking_not_found") /\ UNCHANGED faults
                 \/ Update("not_cancellable") /\ UNCHANGED faults
                 \/ TableErrs(f, Update("ok"))
              /\ Goto(f, "done")
              /\ UNCHANGED charged
        /\ UNCHANGED <<inventoryVars, payment, clientVars, path, hungUp, historyVars>>

(* A refund or a release that fails is logged and the flow goes on.         *)
AfterRefund(f) ==
    /\ pc[f] = "refund"
    /\ \E result \in Codes \cup {"failed"} : CallReturns(f, result)
    /\ Goto(f, "release")
    /\ UNCHANGED <<inventoryVars, payment, bookingVars, path, charged, hungUp, historyVars>>

(* Only a failed charge and a cancellation are announced to the customer.   *)
AfterRelease(f) ==
    /\ pc[f] = "release"
    /\ \E result \in Codes \cup {"failed"} : CallReturns(f, result)
    /\ Goto(f, IF path[f] \in {"chargeFailed", "cancelling"} THEN "notify" ELSE "done")
    /\ UNCHANGED <<inventoryVars, payment, bookingVars, path, charged, hungUp, historyVars>>

AfterNotify(f) ==
    /\ pc[f] = "notify"
    /\ \E result \in Codes \cup {"failed"} : CallReturns(f, result)
    /\ Goto(f, "done")
    /\ UNCHANGED <<inventoryVars, payment, bookingVars, path, charged, hungUp, historyVars>>

-------------------------------------------------------------------------------
(* The environment.                                                         *)

HangUp(f) ==
    /\ pc[f] \notin {"done", "crashed"}
    /\ ~hungUp[f]
    /\ Fault("hangup")
    /\ hungUp' = [hungUp EXCEPT ![f] = TRUE]
    /\ UNCHANGED <<inventoryVars, payment, bookingVars, clientVars, flowVars, historyVars>>

Crash(f) ==
    /\ pc[f] \notin {"done", "crashed"}
    /\ Fault("crash")
    /\ Goto(f, "crashed")
    /\ Client!EndCall(f)
    /\ UNCHANGED <<inventoryVars, payment, bookingVars, path, charged, hungUp, historyVars>>

DeleteEvent(e) ==
    /\ Fault("delete")
    /\ Inventory!DeleteEvent(e)
    /\ UNCHANGED <<payment, bookingVars, clientVars, flowVars, hungUp, historyVars>>

-------------------------------------------------------------------------------
BookStep(b) ==
    \/ AfterGetEvent(b) \/ AfterReserve(b) \/ CreateBooking(b)
    \/ AfterCharge(b) \/ Confirm(b) \/ MarkFailed(b)

CommonStep(f) ==
    \/ Send(f) \/ Retry(f)
    \/ AfterRefund(f) \/ AfterRelease(f) \/ AfterNotify(f)

FlowStep(f) ==
    \/ CommonStep(f)
    \/ f \in Bookings /\ BookStep(f)
    \/ f \in Cancels /\ MarkCancelled(f)

ServiceStep(f, op, k) ==
    \/ Serve(f, op, k) \/ ServeButAnswerError(f, op, k)
    \/ ServerError(f, op, k) \/ Refuse(f, op, k) \/ Discard(f, op, k)

Next ==
    \/ \E f \in Flows : FlowStep(f) \/ Timeout(f) \/ HangUp(f) \/ Crash(f)
    \/ \E f \in Flows, op \in Remote, k \in Attempts : ServiceStep(f, op, k)
    \/ \E e \in Events : DeleteEvent(e)

Spec == Init /\ [][Next]_vars

(* Every goroutine keeps running while its process lives, and every request *)
(* in flight is executed, answered or lost: the client's own timeout and    *)
(* the services' handlers, which never block on one another, see to it.     *)
FairSpec ==
    /\ Spec
    /\ \A f \in Flows : WF_vars(FlowStep(f))
    /\ \A f \in Flows, op \in Remote, k \in Attempts : WF_vars(ServiceStep(f, op, k))
===============================================================================
