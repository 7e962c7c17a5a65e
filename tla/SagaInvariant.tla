----------------------------- MODULE SagaInvariant -----------------------------
(***************************************************************************)
(* The inductive invariant behind the saga's safety properties, stated per *)
(* booking, per cancellation and per request in flight.  It ties where a   *)
(* flow stands to what the services have done for it, and what is still in *)
(* flight to what may yet be done.                                         *)
(***************************************************************************)
EXTENDS SagaProperties

Ended == {"done", "crashed"}

(* Which steps and paths of a booking flow go together.                     *)
FlowShape(b) ==
    /\ pc[b] # "markCancelled"
    /\ path[b] # "cancelling"
    /\ pc[b] \in {"getEvent", "reserve", "create", "charge", "confirm"} => path[b] = "booking"
    /\ pc[b] = "markFailed" => path[b] = "chargeFailed"
    /\ pc[b] = "refund" => path[b] = "confirmFailed"
    /\ pc[b] = "release" => path[b] # "booking"

(* How far the row has come when the flow is at a given step.               *)
RowFollowsFlow(b) ==
    /\ pc[b] \in {"getEvent", "reserve", "create"} => status[b] = "none"
    /\ pc[b] \in {"charge", "confirm"} => status[b] = "PENDING"

(* Seats come before the row, and the row before any money.                 *)
SeatsThenRowThenMoney(b) ==
    /\ pc[b] = "reserve" /\ answer[b] = "ok" => reserved[b] > 0
    /\ pc[b] = "create" \/ status[b] # "none" => reserved[b] > 0
    /\ \A k \in Attempts : payment[<<b, k>>] # "none" => status[b] # "none"

(* The payment the flow holds is the booking's, and is untouched when the   *)
(* booking is about to be confirmed.                                        *)
ChargeIsKnown(b) ==
    /\ pc[b] = "create" => answer[b] # "ok"
    /\ pc[b] = "charge" /\ answer[b] = "ok" => payment[<<b, attempt[b]>>] = "AUTHORIZED"
    /\ charged[b] # NoPayment => charged[b][1] = b
    /\ pc[b] \in {"confirm", "refund"} => charged[b] # NoPayment
    /\ pc[b] = "confirm" => payment[charged[b]] = "AUTHORIZED"

(* The payment on the row.                                                  *)
RecordIsOwn(b) ==
    /\ (status[b] \in {"CONFIRMED", "CANCELLED"}) <=> (paymentOf[b] # NoPayment)
    /\ paymentOf[b] # NoPayment =>
           /\ paymentOf[b][1] = b
           /\ payment[paymentOf[b]] \in {"AUTHORIZED", "REFUNDED"}

(* Money and seats are given back only on the way out; and unless a commit  *)
(* is reported as an error, a booking its own flow unwinds was never        *)
(* confirmed.                                                               *)
UnwindsCleanly(b) ==
    /\ \A k \in Attempts : payment[<<b, k>>] = "REFUNDED" =>
           status[b] = "CANCELLED" \/ path[b] = "confirmFailed"
    /\ released[b] > 0 => path[b] # "booking" \/ status[b] = "CANCELLED"
    /\ NoHiddenCommits /\ path[b] # "booking" =>
           status[b] \notin {"CONFIRMED", "CANCELLED"}

BookingInv(b) ==
    /\ FlowShape(b)
    /\ RowFollowsFlow(b)
    /\ SeatsThenRowThenMoney(b)
    /\ ChargeIsKnown(b)
    /\ RecordIsOwn(b)
    /\ UnwindsCleanly(b)

(* A cancel flow past its guard has cancelled the booking and holds the     *)
(* booking's payment, and no other cancel flow does.                        *)
CancelInv(c) ==
    /\ pc[c] \in {"markCancelled", "refund", "release", "notify"} \cup Ended
    /\ pc[c] = "refund" => charged[c] # NoPayment
    /\ pc[c] = "release" => status[TargetOf[c]] = "CANCELLED"
    /\ charged[c] # NoPayment =>
           /\ charged[c][1] = TargetOf[c]
           /\ status[TargetOf[c]] = "CANCELLED"
           /\ \A d \in Cancels :
                  d # c /\ TargetOf[d] = TargetOf[c] => charged[d] = NoPayment

(* What a request in flight can count on.                                   *)
RequestInv(f, k) ==
    /\ <<f, "reserve", k>> \in inFlight => f \in Bookings
    /\ <<f, "charge", k>> \in inFlight => f \in Bookings /\ status[f] # "none"
    /\ <<f, "refund", k>> \in inFlight =>
           /\ charged[f] # NoPayment
           /\ f \in Bookings => path[f] = "confirmFailed"
    /\ <<f, "release", k>> \in inFlight =>
           IF f \in Bookings THEN path[f] # "booking"
                             ELSE status[TargetOf[f]] = "CANCELLED"

(* Nobody hangs up without its being a fault.                               *)
HangUpsAreFaults == \A f \in Flows : hungUp[f] => "hangup" \in FaultKinds

IInv ==
    /\ TypeOK
    /\ HangUpsAreFaults
    /\ \A b \in Bookings : BookingInv(b)
    /\ \A c \in Cancels : CancelInv(c)
    /\ \A f \in Flows, k \in Attempts : RequestInv(f, k)
===============================================================================
