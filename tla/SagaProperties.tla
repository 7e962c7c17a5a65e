---------------------------- MODULE SagaProperties ----------------------------
(***************************************************************************)
(* What the booking saga owes its customers, its till and its venue.       *)
(***************************************************************************)
EXTENDS BookingSaga

Stopped(f) == pc[f] \in {"done", "crashed"}

(* Every request has ended and the network is empty.                        *)
AtRest == inFlight = {} /\ \A f \in Flows : Stopped(f)

ChargesOf(b) == {k \in Attempts : payment[<<b, k>>] = "AUTHORIZED"}

-------------------------------------------------------------------------------
(* Whatever fails: money is only ever taken for a booking whose seats were  *)
(* taken first and which has a durable row (saga.go, steps 2 to 4).         *)
PaidAfterHeld ==
    \A b \in Bookings, k \in Attempts :
        payment[<<b, k>>] # "none" => reserved[b] > 0 /\ status[b] # "none"

(* Whatever fails: the payment recorded on a booking is one of that         *)
(* booking's own charges that was authorized, and it is there exactly when  *)
(* the booking has been confirmed (saga.go, step 5, and Cancel).            *)
RecordedPaymentIsOwn ==
    \A b \in Bookings :
        /\ (status[b] \in {"CONFIRMED", "CANCELLED"}) <=> (paymentOf[b] # NoPayment)
        /\ paymentOf[b] # NoPayment =>
               /\ paymentOf[b][1] = b
               /\ payment[paymentOf[b]] \in {"AUTHORIZED", "REFUNDED"}

(* Whatever fails: of all the cancel requests for one booking at most one   *)
(* gets past the guarded transition and goes on to refund and release.      *)
OneCancelUnwinds ==
    \A c, d \in Cancels :
        c # d /\ TargetOf[c] = TargetOf[d] =>
            charged[c] = NoPayment \/ charged[d] = NoPayment

(* Whatever fails: a payment is given back only on the way out of a         *)
(* cancellation or of a booking that could not be confirmed.                *)
RefundedOnlyWhenUnwinding ==
    \A b \in Bookings, k \in Attempts :
        payment[<<b, k>>] = "REFUNDED" =>
            status[b] = "CANCELLED" \/ path[b] = "confirmFailed"

(* Hypothesis: whoever writes a row learns whether it was written.  A row   *)
(* may be committed though its writer is told of an error, be it because    *)
(* the answer was lost or because the customer hung up.                     *)
NoHiddenCommits == "lostCommit" \notin FaultKinds /\ "hangup" \notin FaultKinds

(* As long as no commit is reported as an error, a confirmed booking is     *)
(* backed: its seats were taken, none were given back on its behalf, and    *)
(* the payment on its row still stands.                                     *)
ConfirmedIsBacked ==
    NoHiddenCommits =>
        \A b \in Bookings :
            status[b] = "CONFIRMED" =>
                /\ reserved[b] > 0
                /\ released[b] = 0
                /\ payment[paymentOf[b]] = "AUTHORIZED"

(* A booking starts PENDING, moves once to CONFIRMED or FAILED, and only a  *)
(* confirmed one can become CANCELLED; the payment id is written with the   *)
(* confirmation and never again (models.go).                                *)
LifecycleStep ==
    \A b \in Bookings :
        /\ status'[b] # status[b] =>
               <<status[b], status'[b]>> \in
                   {<<"none", "PENDING">>, <<"PENDING", "CONFIRMED">>,
                    <<"PENDING", "FAILED">>, <<"CONFIRMED", "CANCELLED">>}
        /\ paymentOf'[b] # paymentOf[b] => status'[b] = "CONFIRMED"

Lifecycle == [][LifecycleStep]_vars

-------------------------------------------------------------------------------
(* The seats of event e that its bookings ask for, those of booking b       *)
(* times[b] times over: one element per seat, to be counted.                *)
SeatsFor(e, times) ==
    UNION {({b} \X (1..times[b])) \X (1..SeatsOf[b]) :
               b \in {a \in Bookings : EventOf[a] = e}}

(* Whatever fails: the seats on sale and those taken make up the capacity   *)
(* and those returned, however often each booking's were taken or returned  *)
(* (event-service, AdjustSeats).                                            *)
SeatsConserved ==
    \A e \in Events :
        available[e] + Cardinality(SeatsFor(e, reserved))
            = Capacity[e] + Cardinality(SeatsFor(e, released))

Confirmations == [b \in Bookings |-> IF status[b] = "CONFIRMED" THEN 1 ELSE 0]

(* No more seats of an event are confirmed than the event has.              *)
NoOverselling ==
    \A e \in Events : Cardinality(SeatsFor(e, Confirmations)) <= Capacity[e]

(* When everything has come to rest, the seats still out of an event that   *)
(* is still there are exactly those of the confirmed bookings, and of those *)
(* whose row could not be inserted: Book releases the latter in vain        *)
(* (saga.go, step 3).                                                       *)
SeatsExactAtRest ==
    AtRest => \A b \in Bookings :
        listing[EventOf[b]] = "listed" =>
            reserved[b] - released[b] =
                IF status[b] = "CONFIRMED" \/ path[b] = "persistFailed" THEN 1 ELSE 0

(* When everything has come to rest, exactly the confirmed bookings are     *)
(* paid for, each of them once.                                             *)
MoneyExactAtRest ==
    AtRest => \A b \in Bookings :
        Cardinality(ChargesOf(b)) = IF status[b] = "CONFIRMED" THEN 1 ELSE 0

(* What the messages say is so: a customer told that a booking failed, or   *)
(* was cancelled and refunded, is not charged for it.                       *)
MessagesAreTrue ==
    \A b \in Bookings :
        told[b] \cap {"failed", "cancelled"} # {} => ChargesOf(b) = {}

(* When everything has come to rest, no booking that is not confirmed has   *)
(* seats out: the saga unwinds cleanly on any failure (saga.go, Book), and  *)
(* a customer who hangs up cannot leave seats reserved forever (saga.go,    *)
(* compensationTimeout).                                                    *)
NoSeatsStranded ==
    AtRest => \A b \in Bookings :
        status[b] # "CONFIRMED" => released[b] >= reserved[b]

(* A customer told that a booking failed and was not charged has not been   *)
(* charged (saga.go, failBooking).                                          *)
FailedMeansNotCharged ==
    \A b \in Bookings : "failed" \in told[b] => ChargesOf(b) = {}

(* Once a reservation has been acknowledged to the saga and the row's       *)
(* INSERT has not failed, its seats end up in a confirmed booking or back   *)
(* on sale; and those of a cancelled booking go back on sale even though    *)
(* its refund fails, because its customer hangs up or otherwise (saga.go,   *)
(* releaseSeats).                                                           *)
HeldSeatsAreSettled ==
    /\ \A b \in Bookings :
           pc[b] = "create" ~>
               \/ status[b] = "CONFIRMED"
               \/ released[b] = reserved[b]
               \/ path[b] = "persistFailed"
    /\ \A c \in Cancels :
           pc[c] = "refund" ~> released[TargetOf[c]] >= reserved[TargetOf[c]]

(* A row does not stay PENDING, though its customer hangs up while being    *)
(* charged: failBooking marks it on a detached context.  Only a row whose   *)
(* INSERT failed as far as the saga can tell, and one that could not be     *)
(* confirmed, are left as they are (saga.go, Book).                         *)
PendingIsSettled ==
    \A b \in Bookings :
        status[b] = "PENDING" ~>
            status[b] # "PENDING" \/ path[b] \in {"persistFailed", "confirmFailed"}

-------------------------------------------------------------------------------
(* The saga implements the promise: seats are what event-service says, a    *)
(* deal follows the booking's row and the count of seats taken and          *)
(* returned, and the purse follows its payment records.                     *)
DealOf(b) ==
    CASE reserved[b] = 0 -> "open"
      [] reserved[b] > 0 /\ released[b] > 0 -> "closed"
      [] status[b] = "CONFIRMED" /\ released[b] = 0 -> "sold"
      [] status[b] = "CANCELLED" /\ released[b] = 0 -> "returning"
      [] OTHER -> "held"

PurseOf(b) ==
    CASE ChargesOf(b) # {} -> "paid"
      [] ChargesOf(b) = {} /\ \E k \in Attempts : payment[<<b, k>>] = "REFUNDED" -> "refunded"
      [] OTHER -> "unpaid"

Promise == INSTANCE BookingPromise
    WITH seatsLeft <- available,
         deal <- [b \in Bookings |-> DealOf(b)],
         purse <- [b \in Bookings |-> PurseOf(b)]

(* Without faults a client cannot mask, each step of the saga is a step of  *)
(* the promise or no step of it at all.                                     *)
KeepsPromise == Promise!PromiseSpec
===============================================================================
