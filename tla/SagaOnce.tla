------------------------------- MODULE SagaOnce -------------------------------
(***************************************************************************)
(* Why the saga does everything once when its faults are definite: further *)
(* layers of inductive invariants, on top of IInv.  Each part holds under  *)
(* the hypotheses on the faults that its comment names.                    *)
(***************************************************************************)
EXTENDS SagaInvariant

(* Hypotheses on the kinds of faults.  Answers arrive: no caller gives up   *)
(* on a request that may still be executed, and no error hides a commit.    *)
AnswersArrive == "timeout" \notin FaultKinds /\ "lostCommit" \notin FaultKinds
CustomersWait == "hangup" \notin FaultKinds
ProcessesLive == "crash" \notin FaultKinds

(* Both together: whoever calls a service or writes a row learns what       *)
(* became of it.                                                            *)
OutcomesKnown == AnswersArrive /\ CustomersWait

(* Hypothesis on a behaviour: no refund and no release uses up its retries. *)
UnwindingGetsThrough ==
    \A f \in Flows :
        pc[f] \in {"refund", "release"} /\ attempt[f] = Retries =>
            answer[f] \notin Client!Retryable

(* Every repetition of a call, and every answer that calls for one, answers *)
(* for a fault: when answers arrive, nothing else makes a caller try again. *)
FaultsSpent(f) ==
    /\ attempt[f] <= faults
    /\ answer[f] \in Client!Retryable => attempt[f] < faults

FlowsOf(b) == {f \in Flows : BookingOf(f) = b}

(* No charge of b was authorized.                                           *)
Unpaid(b) == \A k \in Attempts : payment[<<b, k>>] \in {"none", "DECLINED"}

-------------------------------------------------------------------------------
(* When outcomes are known.                                                 *)

(* A flow has at most one request in flight, the one it waits for.          *)
OneRequest(f) ==
    /\ pc[f] \notin Remote => answer[f] = "idle"
    /\ \A op \in Remote, k \in Attempts :
           <<f, op, k>> \in inFlight => Awaited(f, op, k) \/ pc[f] = "crashed"
    /\ \A op, p \in Remote, j, k \in Attempts :
           <<f, op, j>> \in inFlight /\ <<f, p, k>> \in inFlight => op = p /\ j = k

(* A cancel flow past its guard holds the booking's payment.                *)
CancelKnows(c) ==
    /\ path[c] = "cancelling"
    /\ pc[c] = "markCancelled" => charged[c] = NoPayment
    /\ pc[c] \in {"refund", "release", "notify"} => charged[c] # NoPayment
    /\ \A op \in {"release", "notify"}, k \in Attempts :
           <<c, op, k>> \in inFlight => charged[c] # NoPayment

(* The seats of a booking are returned at most once, and only if they were  *)
(* taken: whoever returned them was the only flow unwinding the booking.    *)
(* Those of a booking whose row could not be inserted never are.            *)
ReleasedOnce(b) ==
    /\ path[b] # "booking" => reserved[b] > 0
    /\ path[b] = "persistFailed" => released[b] = 0
    /\ released[b] <= 1
    /\ released[b] > 0 =>
           /\ reserved[b] > 0
           /\ \A f \in FlowsOf(b) :
                  /\ pc[f] \in {"release", "notify", "markCancelled"} \cup Ended
                  /\ pc[f] = "release" => answer[f] = "ok"
                  /\ \A op \in {"refund", "release"}, k \in Attempts :
                         <<f, op, k>> \notin inFlight

OnceInv ==
    /\ \A f \in Flows : OneRequest(f)
    /\ \A c \in Cancels : CancelKnows(c)
    /\ \A b \in Bookings : ReleasedOnce(b)

-------------------------------------------------------------------------------
(* When, besides, unwinding gets through.                                   *)

(* The seats of a booking are taken at most once, and not at all when the   *)
(* reservation was not acknowledged.                                        *)
ReservedOnce(b) ==
    /\ reserved[b] <= 1
    /\ \/ pc[b] = "getEvent"
       \/ pc[b] = "reserve" /\ answer[b] # "ok"
       \/ pc[b] = "done" /\ path[b] = "booking" /\ status[b] = "none"
       \/ \E k \in Attempts : <<b, "reserve", k>> \in inFlight
       => reserved[b] = 0

(* A booking is charged at most once, and not at all on the way to a charge *)
(* or when it was given up before or at the charge.                         *)
ChargedOnce(b) ==
    /\ \A j, k \in Attempts :
           payment[<<b, j>>] \in {"AUTHORIZED", "REFUNDED"}
             /\ payment[<<b, k>>] \in {"AUTHORIZED", "REFUNDED"} => j = k
    /\ \/ pc[b] = "charge" /\ answer[b] # "ok"
       \/ path[b] \in {"persistFailed", "chargeFailed"}
       \/ \E k \in Attempts : <<b, "charge", k>> \in inFlight
       => Unpaid(b)
    /\ \A k \in Attempts : <<b, "charge", k>> \in inFlight => path[b] = "booking"

(* A booking flow that ends on its way to a sale has taken nothing or has   *)
(* sold it, and a cancelled booking was cancelled by someone.               *)
EndsDecided(b) ==
    /\ pc[b] \in {"notify", "done"} /\ path[b] = "booking" =>
           \/ status[b] \in {"CONFIRMED", "CANCELLED"}
           \/ pc[b] = "done" /\ status[b] = "none"
    /\ status[b] = "CANCELLED" =>
           \E c \in Cancels : TargetOf[c] = b /\ charged[c] # NoPayment

(* The flow is past its refund, or had none to make.                        *)
PastRefund(f) ==
    \/ /\ pc[f] \in {"release", "notify", "done"}
       /\ path[f] = "confirmFailed" \/ (f \in Cancels /\ charged[f] # NoPayment)
    \/ \E k \in Attempts : <<f, "release", k>> \in inFlight
    \/ \E k \in Attempts : <<f, "notify", k>> \in inFlight /\ path[f] # "booking"

(* A flow that is refunding finds the payment authorized, and one past it   *)
(* leaves no charge behind.                                                 *)
RefundedFirst(f) ==
    /\ pc[f] = "refund" =>
           /\ answer[f] \in Client!Unanswered \cup Client!Retryable \cup {"ok"}
           /\ payment[charged[f]] = IF answer[f] = "ok" THEN "REFUNDED" ELSE "AUTHORIZED"
    /\ \A k \in Attempts : <<f, "refund", k>> \in inFlight => payment[charged[f]] = "AUTHORIZED"
    /\ PastRefund(f) => ChargesOf(BookingOf(f)) = {}

(* Which messages a customer can have got.                                  *)
ToldTruly(b) ==
    /\ "failed" \in told[b] => path[b] = "chargeFailed"
    /\ "cancelled" \in told[b] => status[b] = "CANCELLED" /\ ChargesOf(b) = {}

PaidInv ==
    /\ \A b \in Bookings : ReservedOnce(b) /\ ChargedOnce(b) /\ EndsDecided(b) /\ ToldTruly(b)
    /\ \A f \in Flows : RefundedFirst(f)

-------------------------------------------------------------------------------
(* A flow that has released a booking's seats has really returned them,     *)
(* provided that the event is still there and the release named it.         *)
Returned(f) ==
    /\ pc[f] = "release" =>
           /\ answer[f] \in Client!Unanswered \cup Client!Retryable \cup {"ok"}
           /\ answer[f] = "ok" => released[BookingOf(f)] = 1
    /\ pc[f] \in {"notify", "done"} =>
           /\ f \in Bookings /\ path[f] # "booking" => released[f] = 1
           /\ f \in Cancels /\ charged[f] # NoPayment => released[TargetOf[f]] = 1

ReturnedInv ==
    \A f \in Flows :
        listing[EventOf[BookingOf(f)]] = "listed" /\ NamesEvent(f) => Returned(f)

-------------------------------------------------------------------------------
(* The saga does everything once, as far as its faults allow.  When         *)
(* outcomes are known, no two requests of a flow overlap and no seats are   *)
(* returned twice.  When, besides, no more faults happen than a call has    *)
(* retries, nobody is charged twice or keeps a charge past its refund, and  *)
(* a flow past its release has returned the seats (saga.go, Book and        *)
(* Cancel, with the retries of httpx, Client.Do).                           *)
OnceOnly ==
    /\ AnswersArrive => \A f \in Flows : FaultsSpent(f)
    /\ OutcomesKnown =>
           /\ OnceInv
           /\ MaxFaults <= Retries => PaidInv /\ ReturnedInv
===============================================================================
