------------------------------ MODULE SagaProofs ------------------------------
(***************************************************************************)
(* The saga's safety properties, for every set of events, bookings,        *)
(* cancellations and faults and every number of retries.                   *)
(***************************************************************************)
EXTENDS SagaTypeProofs

LEMMA InitInv == Init => IInv
  <1>1. SUFFICES ASSUME Init PROVE IInv
    OBVIOUS
  <1>2. TypeOK
    BY <1>1, InitType
  <1>3. ASSUME NEW b \in Bookings PROVE BookingInv(b)
    <2>1. /\ pc[b] = "getEvent" /\ path[b] = "booking" /\ status[b] = "none"
          /\ answer[b] = "idle" /\ charged[b] = NoPayment /\ paymentOf[b] = NoPayment
          /\ released[b] = 0
      BY <1>1, <1>3 DEF Init, Flows, Client!ClientInit
    <2>2. \A k \in Attempts : payment[<<b, k>>] = "none"
      BY <1>1, <1>3 DEF Init, PaymentIds
    <2>3. QED
      BY <2>1, <2>2 DEF BookingInv, FlowShape, RowFollowsFlow, SeatsThenRowThenMoney,
         ChargeIsKnown, RecordIsOwn, UnwindsCleanly
  <1>4. ASSUME NEW c \in Cancels PROVE CancelInv(c)
    BY <1>1, <1>4, SagaAssumption DEF Init, Flows, CancelInv
  <1>5. ASSUME NEW f \in Flows, NEW k \in Attempts PROVE RequestInv(f, k)
    BY <1>1 DEF Init, Client!ClientInit, RequestInv
  <1>6. HangUpsAreFaults
    BY <1>1 DEF Init, HangUpsAreFaults
  <1>7. QED
    BY <1>2, <1>3, <1>4, <1>5, <1>6 DEF IInv

-------------------------------------------------------------------------------
(* Frames: what a step that leaves an entity alone preserves of it.         *)

(* A payment id of booking b is the id of one of its charges.               *)
LEMMA OwnId ==
    ASSUME NEW p \in PaymentIds, NEW b, p[1] = b
    PROVE  p[2] \in Attempts /\ p = <<b, p[2]>>
  BY DEF PaymentIds

(* A booking whose flow, row and payments are as they were; its flow may    *)
(* only have come no closer to an "ok" answer that matters.                 *)
LEMMA BookingFrame ==
    ASSUME TypeOK, NEW b \in Bookings, BookingInv(b),
           pc'[b] = pc[b], path'[b] = path[b], charged'[b] = charged[b],
           status'[b] = status[b], paymentOf'[b] = paymentOf[b],
           reserved[b] > 0 => reserved'[b] > 0, released'[b] = released[b],
           \A k \in Attempts : payment'[<<b, k>>] = payment[<<b, k>>],
           pc[b] \in {"reserve", "create", "charge"} /\ answer'[b] = "ok" =>
               answer[b] = "ok" /\ attempt'[b] = attempt[b]
    PROVE  BookingInv(b)'
  <1>1. /\ charged[b] \in PaymentIds \cup {NoPayment}
        /\ paymentOf[b] \in PaymentIds \cup {NoPayment}
        /\ attempt[b] \in Attempts
    BY DEF TypeOK, Table!BookingTypeOK, Client!ClientTypeOK, Flows, Client!Attempts, Attempts
  <1>2. charged[b] # NoPayment => payment'[charged[b]] = payment[charged[b]]
    BY <1>1, OwnId DEF BookingInv, ChargeIsKnown
  <1>3. paymentOf[b] # NoPayment => payment'[paymentOf[b]] = payment[paymentOf[b]]
    BY <1>1, OwnId DEF BookingInv, RecordIsOwn
  <1>4. FlowShape(b)' /\ RowFollowsFlow(b)' /\ SeatsThenRowThenMoney(b)'
    BY DEF BookingInv, FlowShape, RowFollowsFlow, SeatsThenRowThenMoney
  <1>5. ChargeIsKnown(b)'
    BY <1>1, <1>2 DEF BookingInv, ChargeIsKnown, FlowShape, RowFollowsFlow
  <1>6. RecordIsOwn(b)'
    BY <1>3 DEF BookingInv, RecordIsOwn
  <1>7. UnwindsCleanly(b)'
    BY DEF BookingInv, UnwindsCleanly
  <1>8. QED
    BY <1>4, <1>5, <1>6, <1>7 DEF BookingInv

(* A cancel flow that did not move, while cancelled bookings stay so.       *)
LEMMA CancelFrame ==
    ASSUME NEW c \in Cancels, CancelInv(c),
           \/ pc'[c] \in {pc[c], "notify", "done", "crashed"}
           \/ pc[c] = "refund" /\ pc'[c] = "release",
           \A d \in Cancels : charged'[d] = charged[d],
           status[TargetOf[c]] = "CANCELLED" => status'[TargetOf[c]] = "CANCELLED"
    PROVE  CancelInv(c)'
  BY DEF CancelInv, Ended

(* A request that was already in flight, while what it counts on stays.     *)
LEMMA RequestFrame ==
    ASSUME NEW f \in Flows, NEW k \in Attempts, RequestInv(f, k),
           \A op \in Remote : <<f, op, k>> \in inFlight' => <<f, op, k>> \in inFlight,
           charged[f] # NoPayment => charged'[f] # NoPayment,
           path[f] # "booking" => path'[f] = path[f],
           f \in Bookings /\ status[f] # "none" => status'[f] # "none",
           f \notin Bookings /\ status[TargetOf[f]] = "CANCELLED"
               => status'[TargetOf[f]] = "CANCELLED"
    PROVE  RequestInv(f, k)'
  BY DEF RequestInv, Remote

-------------------------------------------------------------------------------
(* A step of one flow that touches nothing but the flow's own control state *)
(* and its call: what is left to show is the flow's own invariant.          *)
LEMMA ControlStep ==
    ASSUME IInv, TypeOK', HangUpsAreFaults', NEW f \in Flows,
           UNCHANGED <<payment, status, paymentOf, reserved, released, inFlight>>,
           \A g \in Flows : g # f =>
               /\ pc'[g] = pc[g] /\ path'[g] = path[g] /\ charged'[g] = charged[g]
               /\ answer'[g] = answer[g] /\ attempt'[g] = attempt[g],
           charged[f] # NoPayment => charged'[f] # NoPayment,
           f \in Cancels => charged'[f] = charged[f],
           path[f] # "booking" => path'[f] = path[f],
           f \in Bookings => BookingInv(f)',
           f \in Cancels => CancelInv(f)'
    PROVE  IInv'
  <1>1. TypeOK /\ Bookings \cap Cancels = {} /\ TargetOf \in [Cancels -> Bookings]
    BY SagaAssumption DEF IInv
  <1>2. ASSUME NEW b \in Bookings PROVE BookingInv(b)'
    <2>1. CASE b = f
      BY <2>1
    <2>2. CASE b # f
      BY <1>1, <2>2, BookingFrame DEF IInv, Flows
    <2>3. QED
      BY <2>1, <2>2
  <1>3. ASSUME NEW c \in Cancels PROVE CancelInv(c)'
    <2>1. CASE c = f
      BY <2>1
    <2>2. CASE c # f
      <3>1. \A d \in Cancels : charged'[d] = charged[d]
        BY DEF Flows
      <3>2. pc'[c] = pc[c] /\ status' = status /\ CancelInv(c)
        BY <2>2 DEF IInv, Flows
      <3>3. QED
        BY <3>1, <3>2, CancelFrame
    <2>3. QED
      BY <2>1, <2>2
  <1>4. ASSUME NEW g \in Flows, NEW k \in Attempts PROVE RequestInv(g, k)'
    BY RequestFrame DEF IInv
  <1>5. QED
    BY <1>2, <1>3, <1>4 DEF IInv

(* What a call that comes back does to the clients.                         *)
LEMMA CallReturnsEffect ==
    ASSUME TypeOK, NEW f \in Flows, NEW result, CallReturns(f, result)
    PROVE  /\ inFlight' = inFlight
           /\ answer'[f] = "idle"
           /\ \A g \in Flows : g # f => answer'[g] = answer[g] /\ attempt'[g] = attempt[g]
           /\ result = "ok" => answer[f] = "ok"
  BY DEF CallReturns, Client!EndCall, Client!Returns, TypeOK, Client!ClientTypeOK

LEMMA GotoEffect ==
    ASSUME TypeOK, NEW f \in Flows, NEW step, Goto(f, step)
    PROVE  pc'[f] = step /\ \A g \in Flows : g # f => pc'[g] = pc[g]
  BY DEF Goto, TypeOK

LEMMA GoUnwindEffect ==
    ASSUME TypeOK, NEW f \in Flows, NEW way, NEW step, GoUnwind(f, way, step)
    PROVE  /\ pc'[f] = step /\ path'[f] = way
           /\ \A g \in Flows : g # f => pc'[g] = pc[g] /\ path'[g] = path[g]
  BY DEF GoUnwind, Goto, TypeOK

(* Steps of any flow that only concern its current call.                    *)
LEMMA RetryStep ==
    ASSUME IInv, TypeOK', HangUpsAreFaults', NEW f \in Flows, Retry(f) \/ Timeout(f) \/ HangUp(f)
    PROVE  IInv'
  <1> USE DEF bookingVars, clientVars, flowVars, historyVars, inventoryVars
  <1>1. TypeOK
    BY DEF IInv
  <1>2. /\ UNCHANGED <<payment, status, paymentOf, reserved, released, inFlight, pc, path, charged>>
        /\ answer'[f] = "ok" => answer[f] = "ok" /\ attempt'[f] = attempt[f]
        /\ \A g \in Flows : g # f => answer'[g] = answer[g] /\ attempt'[g] = attempt[g]
    BY <1>1 DEF Retry, Client!Retry, Timeout, Client!Timeout, HangUp, TypeOK, Client!ClientTypeOK
  <1>3. ASSUME f \in Bookings PROVE BookingInv(f)'
    BY <1>1, <1>2, <1>3, BookingFrame DEF IInv
  <1>4. ASSUME f \in Cancels PROVE CancelInv(f)'
    BY <1>2, <1>4, CancelFrame DEF IInv, Flows
  <1>5. QED
    BY <1>2, <1>3, <1>4, ControlStep

LEMMA CrashStep ==
    ASSUME IInv, TypeOK', HangUpsAreFaults', NEW f \in Flows, Crash(f)
    PROVE  IInv'
  <1> USE DEF bookingVars, clientVars, flowVars, historyVars, inventoryVars
  <1>1. TypeOK
    BY DEF IInv
  <1>2. /\ UNCHANGED <<payment, status, paymentOf, reserved, released, inFlight, path, charged>>
        /\ \A g \in Flows : g # f => answer'[g] = answer[g] /\ attempt'[g] = attempt[g]
    BY <1>1 DEF Crash, Client!EndCall, TypeOK, Client!ClientTypeOK
  <1>3. pc'[f] = "crashed" /\ \A g \in Flows : g # f => pc'[g] = pc[g]
    BY <1>1, GotoEffect DEF Crash
  <1>4. ASSUME f \in Bookings PROVE BookingInv(f)'
    BY <1>2, <1>3, <1>4 DEF IInv, BookingInv, FlowShape, RowFollowsFlow,
       SeatsThenRowThenMoney, ChargeIsKnown, RecordIsOwn, UnwindsCleanly
  <1>5. ASSUME f \in Cancels PROVE CancelInv(f)'
    BY <1>2, <1>3, <1>5, CancelFrame DEF IInv, Flows
  <1>6. QED
    BY <1>2, <1>3, <1>4, <1>5, ControlStep

(* The ends of refund, release and notify, on either kind of flow.          *)
LEMMA UnwindStep ==
    ASSUME IInv, TypeOK', HangUpsAreFaults', NEW f \in Flows,
           AfterRefund(f) \/ AfterRelease(f) \/ AfterNotify(f)
    PROVE  IInv'
  <1> USE DEF bookingVars, clientVars, flowVars, historyVars, inventoryVars
  <1>1. TypeOK
    BY DEF IInv
  <1>2. /\ UNCHANGED <<payment, status, paymentOf, reserved, released, path, charged>>
        /\ \E result : CallReturns(f, result)
    BY DEF AfterRefund, AfterRelease, AfterNotify
  <1>3. /\ inFlight' = inFlight /\ answer'[f] = "idle"
        /\ \A g \in Flows : g # f => answer'[g] = answer[g] /\ attempt'[g] = attempt[g]
    BY <1>1, <1>2, CallReturnsEffect
  <1>4. /\ \/ pc[f] = "refund" /\ pc'[f] = "release"
           \/ pc[f] = "release" /\ pc'[f] \in {"notify", "done"}
           \/ pc[f] = "notify" /\ pc'[f] = "done"
        /\ \A g \in Flows : g # f => pc'[g] = pc[g]
    BY <1>1, GotoEffect DEF AfterRefund, AfterRelease, AfterNotify
  <1>5. ASSUME f \in Bookings PROVE BookingInv(f)'
    BY <1>2, <1>3, <1>4, <1>5 DEF IInv, BookingInv, FlowShape, RowFollowsFlow,
       SeatsThenRowThenMoney, ChargeIsKnown, RecordIsOwn, UnwindsCleanly
  <1>6. ASSUME f \in Cancels PROVE CancelInv(f)'
    BY <1>2, <1>4, <1>6, CancelFrame DEF IInv, Flows
  <1>7. QED
    BY <1>2, <1>3, <1>4, <1>5, <1>6, ControlStep

(* The ends of getEvent, reserve and charge.                                *)
LEMMA BookCallStep ==
    ASSUME IInv, TypeOK', HangUpsAreFaults', NEW f \in Bookings,
           AfterGetEvent(f) \/ AfterReserve(f) \/ AfterCharge(f)
    PROVE  IInv'
  <1> USE DEF bookingVars, clientVars, flowVars, historyVars, inventoryVars
  <1>1. TypeOK /\ f \in Flows /\ f \notin Cancels /\ BookingInv(f)
    BY SagaAssumption DEF IInv, Flows
  <1>2. /\ UNCHANGED <<payment, status, paymentOf, reserved, released>>
        /\ \E result : CallReturns(f, result)
    BY DEF AfterGetEvent, AfterReserve, AfterCharge
  <1>3. /\ inFlight' = inFlight /\ answer'[f] = "idle"
        /\ \A g \in Flows : g # f => answer'[g] = answer[g] /\ attempt'[g] = attempt[g]
    BY <1>1, <1>2, CallReturnsEffect
  <1>4. CASE AfterGetEvent(f)
    <2>1. /\ UNCHANGED <<path, charged>>
          /\ pc[f] = "getEvent" /\ pc'[f] \in {"reserve", "done"}
          /\ \A g \in Flows : g # f => pc'[g] = pc[g]
      BY <1>1, <1>4, GotoEffect DEF AfterGetEvent
    <2>2. BookingInv(f)'
      BY <1>1, <1>2, <1>3, <2>1 DEF BookingInv, FlowShape, RowFollowsFlow,
         SeatsThenRowThenMoney, ChargeIsKnown, RecordIsOwn, UnwindsCleanly
    <2>3. QED
      BY <1>1, <1>2, <1>3, <2>1, <2>2, ControlStep
  <1>5. CASE AfterReserve(f)
    <2>1. /\ UNCHANGED <<path, charged>>
          /\ pc[f] = "reserve"
          /\ \/ pc'[f] = "done"
             \/ pc'[f] = "create" /\ answer[f] = "ok"
          /\ \A g \in Flows : g # f => pc'[g] = pc[g]
      <3>1. PICK result \in Codes \cup {"failed"} :
                /\ CallReturns(f, result)
                /\ Goto(f, IF result = "ok" THEN "create" ELSE "done")
        BY <1>5 DEF AfterReserve
      <3>2. result = "ok" => answer[f] = "ok"
        BY <1>1, <3>1, CallReturnsEffect
      <3>3. /\ pc'[f] = IF result = "ok" THEN "create" ELSE "done"
            /\ \A g \in Flows : g # f => pc'[g] = pc[g]
        BY <1>1, <3>1, GotoEffect
      <3>4. UNCHANGED <<path, charged>> /\ pc[f] = "reserve"
        BY <1>5 DEF AfterReserve
      <3>5. CASE result = "ok"
        BY <3>2, <3>3, <3>4, <3>5
      <3>6. CASE result # "ok"
        BY <3>3, <3>4, <3>6
      <3>7. QED
        BY <3>5, <3>6
    <2>2. BookingInv(f)'
      BY <1>1, <1>2, <1>3, <2>1 DEF BookingInv, FlowShape, RowFollowsFlow,
         SeatsThenRowThenMoney, ChargeIsKnown, RecordIsOwn, UnwindsCleanly
    <2>3. QED
      BY <1>1, <1>2, <1>3, <2>1, <2>2, ControlStep
  <1>6. CASE AfterCharge(f)
    <2>1. pc[f] = "charge"
      BY <1>6 DEF AfterCharge
    <2>2. \/ /\ answer[f] = "ok" /\ path' = path
             /\ charged' = [charged EXCEPT ![f] = <<f, attempt[f]>>]
             /\ pc'[f] = "confirm" /\ \A g \in Flows : g # f => pc'[g] = pc[g]
          \/ /\ charged' = charged /\ path'[f] = "chargeFailed" /\ pc'[f] = "markFailed"
             /\ \A g \in Flows : g # f => pc'[g] = pc[g] /\ path'[g] = path[g]
      BY <1>1, <1>6, GotoEffect, GoUnwindEffect, CallReturnsEffect DEF AfterCharge
    <2>3. attempt[f] \in Attempts /\ <<f, attempt[f]>> # NoPayment
      BY <1>1, SagaAssumption DEF TypeOK, Client!ClientTypeOK, Client!Attempts, Attempts, PaymentIds
    <2>4. /\ charged'[f] = <<f, attempt[f]>> \/ charged'[f] = charged[f]
          /\ \A g \in Flows : g # f => charged'[g] = charged[g]
      BY <1>1, <2>2 DEF TypeOK
    <2>5. BookingInv(f)'
      <3>1. CASE answer[f] = "ok" /\ path' = path /\ pc'[f] = "confirm"
                 /\ charged' = [charged EXCEPT ![f] = <<f, attempt[f]>>]
        <4>1. charged'[f] = <<f, attempt[f]>>
          BY <1>1, <3>1 DEF TypeOK
        <4>2. QED
          BY <1>1, <1>2, <1>3, <2>1, <2>3, <3>1, <4>1 DEF BookingInv, FlowShape,
             RowFollowsFlow, SeatsThenRowThenMoney, ChargeIsKnown, RecordIsOwn, UnwindsCleanly
      <3>2. CASE charged' = charged /\ path'[f] = "chargeFailed" /\ pc'[f] = "markFailed"
        BY <1>1, <1>2, <1>3, <2>1, <3>2 DEF BookingInv, FlowShape,
           RowFollowsFlow, SeatsThenRowThenMoney, ChargeIsKnown, RecordIsOwn, UnwindsCleanly
      <3>3. QED
        BY <2>2, <3>1, <3>2
    <2>6. path[f] = "booking"
      BY <1>1, <2>1 DEF BookingInv, FlowShape
    <2>7. /\ charged[f] # NoPayment => charged'[f] # NoPayment
          /\ \A g \in Flows : g # f => pc'[g] = pc[g] /\ path'[g] = path[g]
      BY <2>2, <2>3, <2>4
    <2>8. QED
      BY <1>1, <1>2, <1>3, <2>4, <2>5, <2>6, <2>7, ControlStep
  <1>7. QED
    BY <1>4, <1>5, <1>6

(* Sending a request: the step it is sent from justifies it.                *)
LEMMA SendStep ==
    ASSUME IInv, TypeOK', HangUpsAreFaults', NEW f \in Flows, Send(f)
    PROVE  IInv'
  <1> USE DEF bookingVars, clientVars, flowVars, historyVars, inventoryVars
  <1>1. TypeOK /\ Bookings \cap Cancels = {} /\ TargetOf \in [Cancels -> Bookings]
    BY SagaAssumption DEF IInv
  <1>2. /\ UNCHANGED <<payment, status, paymentOf, reserved, released, pc, path, charged, attempt>>
        /\ inFlight' = inFlight \cup {<<f, pc[f], attempt[f]>>}
        /\ answer'[f] = "waiting"
        /\ \A g \in Flows : g # f => answer'[g] = answer[g]
    BY <1>1 DEF Send, Client!Send, TypeOK, Client!ClientTypeOK
  <1>3. ASSUME NEW b \in Bookings PROVE BookingInv(b)'
    BY <1>1, <1>2, BookingFrame DEF IInv, Flows
  <1>4. ASSUME NEW c \in Cancels PROVE CancelInv(c)'
    BY <1>2, CancelFrame DEF IInv
  <1>5. ASSUME NEW g \in Flows, NEW k \in Attempts PROVE RequestInv(g, k)'
    <2>1. CASE g # f
      <3>1. RequestInv(g, k)
        BY DEF IInv
      <3>2. \A op \in Remote : <<g, op, k>> \in inFlight' => <<g, op, k>> \in inFlight
        BY <1>2, <2>1
      <3>3. QED
        BY <1>2, <3>1, <3>2, RequestFrame
    <2>2. CASE g = f /\ f \in Bookings
      <3>1. RequestInv(f, k) /\ BookingInv(f)
        BY <2>2 DEF IInv
      <3>2. QED
        BY <1>1, <1>2, <2>2, <3>1 DEF RequestInv, BookingInv, FlowShape, RowFollowsFlow,
           ChargeIsKnown
    <2>3. CASE g = f /\ f \in Cancels
      <3>1. RequestInv(f, k) /\ CancelInv(f)
        BY <2>3 DEF IInv
      <3>2. QED
        BY <1>1, <1>2, <2>3, <3>1 DEF RequestInv, CancelInv, Ended
    <2>4. QED
      BY <2>1, <2>2, <2>3 DEF Flows
  <1>6. QED
    BY <1>3, <1>4, <1>5 DEF IInv

-------------------------------------------------------------------------------
(* Steps on the bookings table.                                             *)

LEMMA UpdateStatusEffect ==
    ASSUME TypeOK, NEW b \in Bookings, NEW new \in Table!Statuses,
           NEW from \in SUBSET Table!Statuses, NEW p \in PaymentIds \cup {NoPayment}, NEW code,
           Table!UpdateStatus(b, new, from, p, code)
    PROVE  /\ \A a \in Bookings : a # b => status'[a] = status[a] /\ paymentOf'[a] = paymentOf[a]
           /\ \/ /\ status[b] \in from
                 /\ status'[b] = new
                 /\ paymentOf'[b] = IF p = NoPayment THEN paymentOf[b] ELSE p
              \/ /\ status[b] \notin from
                 /\ code # "ok"
                 /\ status' = status
                 /\ paymentOf' = paymentOf
  BY DEF Table!UpdateStatus, Table!bookingVars, TypeOK, Table!BookingTypeOK, Table!Statuses

(* A step of booking flow f that writes f's row.                            *)
LEMMA RowStep ==
    ASSUME IInv, TypeOK', HangUpsAreFaults', NEW f \in Bookings,
           UNCHANGED <<payment, reserved, released, answer, attempt, inFlight, charged>>,
           \A g \in Flows : g # f => pc'[g] = pc[g] /\ path'[g] = path[g],
           \A b \in Bookings : b # f => status'[b] = status[b] /\ paymentOf'[b] = paymentOf[b],
           path[f] # "booking" => path'[f] = path[f],
           status[f] # "none" => status'[f] # "none",
           status[f] = "CANCELLED" => status'[f] = "CANCELLED",
           BookingInv(f)'
    PROVE  IInv'
  <1>1. TypeOK /\ Bookings \cap Cancels = {} /\ TargetOf \in [Cancels -> Bookings]
    BY SagaAssumption DEF IInv
  <1>2. ASSUME NEW b \in Bookings PROVE BookingInv(b)'
    <2>1. CASE b = f
      BY <2>1
    <2>2. CASE b # f
      BY <1>1, <2>2, BookingFrame DEF IInv, Flows
    <2>3. QED
      BY <2>1, <2>2
  <1>3. \A b \in Bookings : status[b] = "CANCELLED" => status'[b] = "CANCELLED"
    OBVIOUS
  <1>4. ASSUME NEW c \in Cancels PROVE CancelInv(c)'
    <2>1. pc'[c] = pc[c] /\ CancelInv(c) /\ TargetOf[c] \in Bookings
      BY <1>1 DEF IInv, Flows
    <2>2. QED
      BY <1>3, <2>1, CancelFrame
  <1>5. ASSUME NEW g \in Flows, NEW k \in Attempts PROVE RequestInv(g, k)'
    <2>1. RequestInv(g, k) /\ (g \notin Bookings => TargetOf[g] \in Bookings)
      BY <1>1 DEF IInv, Flows
    <2>2. /\ path[g] # "booking" => path'[g] = path[g]
          /\ g \in Bookings /\ status[g] # "none" => status'[g] # "none"
      OBVIOUS
    <2>3. QED
      BY <1>3, <2>1, <2>2, RequestFrame
  <1>6. QED
    BY <1>2, <1>4, <1>5 DEF IInv

LEMMA CreateStep ==
    ASSUME IInv, TypeOK', HangUpsAreFaults', NEW f \in Bookings, CreateBooking(f)
    PROVE  IInv'
  <1> USE DEF bookingVars, clientVars, flowVars, historyVars, inventoryVars
  <1>1. TypeOK /\ f \in Flows /\ BookingInv(f) /\ pc[f] = "create"
    BY DEF IInv, Flows, CreateBooking
  <1>2. UNCHANGED <<payment, reserved, released, answer, attempt, inFlight, charged>>
    BY DEF CreateBooking
  <1>3. /\ paymentOf' = paymentOf
        /\ status'[f] \in {status[f], "PENDING"}
        /\ \A b \in Bookings : b # f => status'[b] = status[b]
        /\ pc'[f] = "charge" => status'[f] = "PENDING"
    <2>1. ASSUME Table!Create(f, "ok")
          PROVE  /\ paymentOf' = paymentOf /\ status'[f] = "PENDING"
                 /\ \A b \in Bookings : b # f => status'[b] = status[b]
      BY <1>1, <2>1 DEF Table!Create, TypeOK, Table!BookingTypeOK
    <2>2. CASE Table!Create(f, "ok") /\ Goto(f, "charge")
      BY <2>1, <2>2
    <2>3. CASE TableErrs(f, Table!Create(f, "ok")) /\ GoUnwind(f, "persistFailed", "release")
      <3>1. pc'[f] = "release"
        BY <1>1, <2>3, GoUnwindEffect
      <3>2. QED
        BY <2>1, <2>3, <3>1 DEF TableErrs
    <2>4. QED
      BY <2>2, <2>3 DEF CreateBooking
  <1>4. /\ \/ path' = path /\ pc'[f] = "charge"
           \/ path'[f] = "persistFailed" /\ pc'[f] = "release"
        /\ \A g \in Flows : g # f => pc'[g] = pc[g] /\ path'[g] = path[g]
    BY <1>1, GotoEffect, GoUnwindEffect DEF CreateBooking
  <1>5. path[f] = "booking" /\ status[f] = "none" /\ reserved[f] > 0
    BY <1>1 DEF BookingInv, FlowShape, RowFollowsFlow, SeatsThenRowThenMoney
  <1>6. BookingInv(f)'
    <2>1. FlowShape(f)' /\ RowFollowsFlow(f)' /\ SeatsThenRowThenMoney(f)'
      BY <1>1, <1>2, <1>3, <1>4, <1>5 DEF BookingInv, FlowShape, RowFollowsFlow,
         SeatsThenRowThenMoney
    <2>2. ChargeIsKnown(f)'
      BY <1>1, <1>2, <1>4 DEF BookingInv, ChargeIsKnown
    <2>3. RecordIsOwn(f)' /\ UnwindsCleanly(f)'
      BY <1>1, <1>2, <1>3, <1>4, <1>5 DEF BookingInv, RecordIsOwn, UnwindsCleanly
    <2>4. QED
      BY <2>1, <2>2, <2>3 DEF BookingInv
  <1>7. QED
    BY <1>2, <1>3, <1>4, <1>5, <1>6, RowStep

LEMMA ConfirmStep ==
    ASSUME IInv, TypeOK', HangUpsAreFaults', NEW f \in Bookings, Confirm(f)
    PROVE  IInv'
  <1> USE DEF bookingVars, clientVars, flowVars, historyVars, inventoryVars
  <1>1. TypeOK /\ f \in Flows /\ BookingInv(f) /\ pc[f] = "confirm"
    BY DEF IInv, Flows, Confirm
  <1>2. UNCHANGED <<payment, reserved, released, answer, attempt, inFlight, charged>>
    BY DEF Confirm
  <1>3. /\ charged[f] \in PaymentIds /\ charged[f][1] = f
        /\ payment[charged[f]] = "AUTHORIZED"
        /\ path[f] = "booking" /\ status[f] = "PENDING" /\ reserved[f] > 0
    BY <1>1 DEF BookingInv, FlowShape, RowFollowsFlow, SeatsThenRowThenMoney, ChargeIsKnown, TypeOK
  <1>4. charged[f] # NoPayment
    BY <1>3, SagaAssumption
  <1> DEFINE Update(code) == Table!UpdateStatus(f, "CONFIRMED", {"PENDING"}, charged[f], code)
             Written == status'[f] = "CONFIRMED" /\ paymentOf'[f] = charged[f]
             Kept == status'[f] = status[f] /\ paymentOf'[f] = paymentOf[f]
             OthersKept == \A b \in Bookings : b # f =>
                               status'[b] = status[b] /\ paymentOf'[b] = paymentOf[b]
  <1>5. ASSUME NEW code, Update(code)
        PROVE  OthersKept /\ Written /\ code = "ok"
    <2>1. "CONFIRMED" \in Table!Statuses /\ {"PENDING"} \in SUBSET Table!Statuses
      BY DEF Table!Statuses
    <2>2. OthersKept /\ Written
      BY <1>1, <1>3, <1>4, <1>5, <2>1, UpdateStatusEffect
    <2>3. code = "ok"
      BY <1>3, <1>5 DEF Table!UpdateStatus
    <2>4. QED
      BY <2>2, <2>3
  <1>6. \/ Update("ok") /\ Goto(f, "notify") /\ path' = path
        \/ TableErrs(f, Update("ok")) /\ GoUnwind(f, "confirmFailed", "refund")
    BY <1>5 DEF Confirm
  <1>7. ASSUME TableErrs(f, Update("ok"))
        PROVE  OthersKept /\ (Kept \/ (Written /\ ~NoHiddenCommits))
    <2>1. hungUp[f] => ~NoHiddenCommits
      BY <1>1 DEF IInv, HangUpsAreFaults, NoHiddenCommits
    <2>2. \/ status' = status /\ paymentOf' = paymentOf
          \/ Update("ok") /\ ~NoHiddenCommits
      BY <1>7, <2>1 DEF TableErrs, Fault, NoHiddenCommits
    <2>3. QED
      BY <1>5, <2>2
  <1>8. /\ OthersKept
        /\ \/ /\ Written /\ path' = path /\ pc'[f] = "notify"
              /\ \A g \in Flows : g # f => pc'[g] = pc[g]
           \/ /\ Kept \/ (Written /\ ~NoHiddenCommits)
              /\ path'[f] = "confirmFailed" /\ pc'[f] = "refund"
              /\ \A g \in Flows : g # f => pc'[g] = pc[g] /\ path'[g] = path[g]
    <2>1. CASE Update("ok") /\ Goto(f, "notify") /\ path' = path
      BY <1>1, <1>5, <2>1, GotoEffect
    <2>2. CASE TableErrs(f, Update("ok")) /\ GoUnwind(f, "confirmFailed", "refund")
      <3>1. OthersKept /\ (Kept \/ (Written /\ ~NoHiddenCommits))
        BY <1>7, <2>2
      <3>2. /\ path'[f] = "confirmFailed" /\ pc'[f] = "refund"
            /\ \A g \in Flows : g # f => pc'[g] = pc[g] /\ path'[g] = path[g]
        BY <1>1, <2>2, GoUnwindEffect
      <3>3. QED
        BY <3>1, <3>2
    <2>3. QED
      BY <1>6, <2>1, <2>2
  <1> HIDE DEF Update
  <1>9. BookingInv(f)'
    BY <1>1, <1>2, <1>3, <1>4, <1>8 DEF BookingInv, FlowShape, RowFollowsFlow,
       SeatsThenRowThenMoney, ChargeIsKnown, RecordIsOwn, UnwindsCleanly
  <1>10. QED
    <2>1. /\ status'[f] # "none" /\ path[f] = "booking" /\ status[f] # "CANCELLED"
          /\ \A g \in Flows : g # f => pc'[g] = pc[g] /\ path'[g] = path[g]
      BY <1>3, <1>8
    <2>2. QED
      BY <1>2, <1>8, <1>9, <2>1, RowStep

LEMMA MarkFailedStep ==
    ASSUME IInv, TypeOK', HangUpsAreFaults', NEW f \in Bookings, MarkFailed(f)
    PROVE  IInv'
  <1> USE DEF bookingVars, clientVars, flowVars, historyVars, inventoryVars
  <1>1. TypeOK /\ f \in Flows /\ BookingInv(f) /\ pc[f] = "markFailed"
    BY DEF IInv, Flows, MarkFailed
  <1>2. UNCHANGED <<payment, reserved, released, answer, attempt, inFlight, charged, path>>
    BY DEF MarkFailed
  <1> DEFINE Update(code) == Table!UpdateStatus(f, "FAILED", {"PENDING"}, NoPayment, code)
  <1>3. ASSUME NEW code, Update(code)
        PROVE  /\ \A b \in Bookings : b # f => status'[b] = status[b]
               /\ status'[f] = status[f] \/ (status[f] = "PENDING" /\ status'[f] = "FAILED")
               /\ \A b \in Bookings : paymentOf'[b] = paymentOf[b]
    <2>1. "FAILED" \in Table!Statuses /\ {"PENDING"} \in SUBSET Table!Statuses
      BY DEF Table!Statuses
    <2>2. QED
      BY <1>1, <1>3, <2>1, UpdateStatusEffect
  <1>4. (UNCHANGED bookingVars) \/ \E code : Update(code)
    BY DEF MarkFailed, TableErrs
  <1>5. /\ \A b \in Bookings : b # f => status'[b] = status[b]
        /\ status'[f] = status[f] \/ (status[f] = "PENDING" /\ status'[f] = "FAILED")
        /\ \A b \in Bookings : paymentOf'[b] = paymentOf[b]
    BY <1>3, <1>4
  <1>6. pc'[f] = "release" /\ \A g \in Flows : g # f => pc'[g] = pc[g]
    BY <1>1, GotoEffect DEF MarkFailed
  <1>7. BookingInv(f)'
    BY <1>1, <1>2, <1>5, <1>6 DEF BookingInv, FlowShape, RowFollowsFlow,
       SeatsThenRowThenMoney, ChargeIsKnown, RecordIsOwn, UnwindsCleanly
  <1>8. QED
    BY <1>2, <1>5, <1>6, <1>7, RowStep

LEMMA MarkCancelledStep ==
    ASSUME IInv, TypeOK', HangUpsAreFaults', NEW f \in Cancels, MarkCancelled(f)
    PROVE  IInv'
  <1> USE DEF bookingVars, clientVars, flowVars, historyVars, inventoryVars
  <1> DEFINE b == TargetOf[f]
             Update(code) == Table!UpdateStatus(b, "CANCELLED", CancellableFrom, NoPayment, code)
  <1>1. /\ TypeOK /\ f \in Flows /\ f \notin Bookings /\ b \in Bookings /\ BookingOf(f) = b
        /\ BookingInv(b) /\ CancelInv(f) /\ pc[f] = "markCancelled"
        /\ Bookings \cap Cancels = {} /\ TargetOf \in [Cancels -> Bookings]
    BY SagaAssumption DEF IInv, Flows, BookingOf, MarkCancelled
  <1>2. UNCHANGED <<payment, reserved, released, answer, attempt, inFlight, path>>
    BY DEF MarkCancelled
  <1>3. ASSUME NEW code, Update(code)
        PROVE  /\ \A a \in Bookings : a # b => status'[a] = status[a]
               /\ \A a \in Bookings : paymentOf'[a] = paymentOf[a]
               /\ \/ status[b] = "CONFIRMED" /\ status'[b] = "CANCELLED"
                  \/ status[b] # "CONFIRMED" /\ code # "ok" /\ status'[b] = status[b]
    <2>1. Table!UpdateStatus(b, "CANCELLED", {"CONFIRMED"}, NoPayment, code)
      BY <1>3 DEF CancellableFrom
    <2>2. /\ \A a \in Bookings : a # b => status'[a] = status[a] /\ paymentOf'[a] = paymentOf[a]
          /\ \/ /\ status[b] \in {"CONFIRMED"} /\ status'[b] = "CANCELLED"
                /\ paymentOf'[b] = paymentOf[b]
             \/ /\ status[b] \notin {"CONFIRMED"} /\ code # "ok"
                /\ status' = status /\ paymentOf' = paymentOf
      BY <1>1, <2>1 DEF Table!UpdateStatus, Table!bookingVars, TypeOK, Table!BookingTypeOK
    <2>3. QED
      BY <2>2
  <1>4. (UNCHANGED bookingVars) \/ \E code : Update(code)
    BY <1>1 DEF MarkCancelled, TableErrs
  <1>5. /\ \A a \in Bookings : a # b => status'[a] = status[a]
        /\ \A a \in Bookings : paymentOf'[a] = paymentOf[a]
        /\ status'[b] = status[b] \/ (status[b] = "CONFIRMED" /\ status'[b] = "CANCELLED")
    BY <1>3, <1>4
  <1>6. /\ \A g \in Flows : g # f => pc'[g] = pc[g] /\ charged'[g] = charged[g]
        /\ \/ /\ status[b] = "CONFIRMED" /\ status'[b] = "CANCELLED"
              /\ charged'[f] = paymentOf[b]
              /\ pc'[f] = IF paymentOf[b] = NoPayment THEN "release" ELSE "refund"
           \/ charged'[f] = charged[f] /\ pc'[f] = "done"
    <2>1. CASE /\ Update("ok")
               /\ charged' = [charged EXCEPT ![f] = paymentOf[b]]
               /\ Goto(f, AfterCancel(b))
      BY <1>1, <1>3, <2>1, GotoEffect DEF TypeOK, AfterCancel
    <2>2. CASE charged' = charged /\ Goto(f, "done")
      BY <1>1, <2>2, GotoEffect
    <2>3. QED
      BY <1>1, <2>1, <2>2 DEF MarkCancelled
  <1>7. ASSUME NEW a \in Bookings PROVE BookingInv(a)'
    <2>1. CASE a # b
      BY <1>1, <1>2, <1>5, <1>6, <2>1, BookingFrame DEF IInv, Flows
    <2>2. CASE a = b
      <3>1. pc'[b] = pc[b] /\ charged'[b] = charged[b] /\ paymentOf'[b] = paymentOf[b]
        BY <1>1, <1>5, <1>6 DEF Flows
      <3>2. BookingInv(b)'
        BY <1>1, <1>2, <1>5, <3>1 DEF BookingInv, FlowShape, RowFollowsFlow,
           SeatsThenRowThenMoney, ChargeIsKnown, RecordIsOwn, UnwindsCleanly
      <3>3. QED
        BY <2>2, <3>2
    <2>3. QED
      BY <2>1, <2>2
  <1>8. ASSUME NEW c \in Cancels PROVE CancelInv(c)'
    <2>1. /\ CancelInv(c) /\ TargetOf[c] \in Bookings
          /\ status[TargetOf[c]] = "CANCELLED" => status'[TargetOf[c]] = "CANCELLED"
      BY <1>1, <1>5 DEF IInv
    <2>2. CASE charged'[f] = charged[f] /\ pc'[f] = "done"
      <3>1. \A d \in Cancels : charged'[d] = charged[d]
        BY <1>6, <2>2 DEF Flows
      <3>2. pc'[c] \in {pc[c], "done"}
        BY <1>6, <2>2 DEF Flows
      <3>3. QED
        BY <2>1, <3>1, <3>2, CancelFrame
    <2>3. CASE /\ status[b] = "CONFIRMED" /\ status'[b] = "CANCELLED"
               /\ charged'[f] = paymentOf[b]
               /\ pc'[f] = IF paymentOf[b] = NoPayment THEN "release" ELSE "refund"
      <3>1. \A d \in Cancels : TargetOf[d] = b => charged[d] = NoPayment
        BY <2>3 DEF IInv, CancelInv
      <3>2. \A d \in Cancels : d # f => charged'[d] = charged[d] /\ pc'[d] = pc[d]
        BY <1>6 DEF Flows
      <3>3. paymentOf[b] # NoPayment /\ paymentOf[b][1] = b
        BY <1>1, <2>3 DEF BookingInv, RecordIsOwn
      <3>4. CASE c = f
        BY <2>3, <3>1, <3>2, <3>3, <3>4 DEF CancelInv
      <3>5. CASE c # f /\ TargetOf[c] = b
        BY <2>1, <2>3, <3>1, <3>2, <3>5 DEF CancelInv
      <3>6. CASE c # f /\ TargetOf[c] # b
        BY <2>1, <3>2, <3>6 DEF CancelInv
      <3>7. QED
        BY <3>4, <3>5, <3>6
    <2>4. QED
      BY <1>6, <2>2, <2>3
  <1>9. ASSUME NEW g \in Flows, NEW k \in Attempts PROVE RequestInv(g, k)'
    <2>1. RequestInv(g, k) /\ (g \notin Bookings => TargetOf[g] \in Bookings)
      BY <1>1 DEF IInv, Flows
    <2>2. charged[g] # NoPayment => charged'[g] # NoPayment
      BY <1>1, <1>6 DEF BookingInv, RecordIsOwn
    <2>3. \A a \in Bookings : /\ status[a] = "CANCELLED" => status'[a] = "CANCELLED"
                              /\ status[a] # "none" => status'[a] # "none"
      BY <1>5
    <2>4. QED
      BY <1>2, <2>1, <2>2, <2>3, RequestFrame
  <1>10. QED
    BY <1>7, <1>8, <1>9 DEF IInv

-------------------------------------------------------------------------------
(* Steps of the services and the network.                                   *)

(* A step that moves no flow and writes no row.                             *)
LEMMA ServiceFrame ==
    ASSUME IInv, TypeOK', HangUpsAreFaults',
           UNCHANGED <<status, paymentOf, pc, path, charged>>,
           inFlight' \subseteq inFlight,
           \A b \in Bookings : BookingInv(b)'
    PROVE  IInv'
  <1>1. ASSUME NEW c \in Cancels PROVE CancelInv(c)'
    BY CancelFrame DEF IInv
  <1>2. ASSUME NEW f \in Flows, NEW k \in Attempts PROVE RequestInv(f, k)'
    <2>1. RequestInv(f, k) /\ \A op \in Remote : <<f, op, k>> \in inFlight' => <<f, op, k>> \in inFlight
      BY DEF IInv
    <2>2. QED
      BY <2>1, RequestFrame
  <1>3. QED
    BY <1>1, <1>2 DEF IInv

(* A request that leaves the network without having been executed.          *)
LEMMA NoEffectStep ==
    ASSUME IInv, TypeOK', HangUpsAreFaults',
           UNCHANGED <<payment, status, paymentOf, pc, path, charged, reserved, released, attempt>>,
           inFlight' \subseteq inFlight,
           \A g \in Flows : answer'[g] = "ok" => answer[g] = "ok"
    PROVE  IInv'
  <1>1. ASSUME NEW b \in Bookings PROVE BookingInv(b)'
    BY BookingFrame DEF IInv, Flows
  <1>2. QED
    BY <1>1, ServiceFrame

LEMMA UnservedStep ==
    ASSUME IInv, TypeOK', HangUpsAreFaults', NEW f \in Flows, NEW op \in Remote, NEW k \in Attempts,
           ServerError(f, op, k) \/ Refuse(f, op, k) \/ Discard(f, op, k)
    PROVE  IInv'
  <1> USE DEF bookingVars, clientVars, flowVars, historyVars, inventoryVars
  <1>1. UNCHANGED <<payment, status, paymentOf, pc, path, charged, reserved, released>>
    BY DEF ServerError, Refuse, Discard
  <1>2. TypeOK
    BY DEF IInv
  <1>3. /\ attempt' = attempt /\ inFlight' \subseteq inFlight
        /\ \A g \in Flows : answer'[g] = "ok" => answer[g] = "ok"
    <2>1. CASE Client!Answer(f, op, k, TRUE, "internal_error")
      BY <1>2, <2>1 DEF Client!Answer, TypeOK, Client!ClientTypeOK
    <2>2. CASE Client!Answer(f, op, k, TRUE, "lost")
      BY <1>2, <2>2 DEF Client!Answer, TypeOK, Client!ClientTypeOK
    <2>3. CASE Client!Answer(f, op, k, FALSE, "lost")
      BY <1>2, <2>3 DEF Client!Answer, TypeOK, Client!ClientTypeOK
    <2>4. QED
      BY <2>1, <2>2, <2>3 DEF ServerError, Refuse, Discard
  <1>4. QED
    BY <1>1, <1>3, NoEffectStep

(* What an execution does to the booking its flow is about, and to others.  *)
LEMMA PaymentElsewhere ==
    ASSUME TypeOK, NEW p \in PaymentIds, NEW s, payment' = [payment EXCEPT ![p] = s]
    PROVE  /\ payment'[p] = s
           /\ \A q \in PaymentIds : q # p => payment'[q] = payment[q]
  BY DEF TypeOK, PaymentsOf!PaymentTypeOK

LEMMA ExecuteReserve ==
    ASSUME IInv, NEW f \in Bookings, NEW k \in Attempts, NEW code, NEW b \in Bookings,
           reserved' = Count(reserved, f, code),
           UNCHANGED <<payment, status, paymentOf, pc, path, charged, released, attempt>>,
           \A g \in Flows : answer'[g] = "ok" =>
               answer[g] = "ok" \/ (g = f /\ pc[f] = "reserve" /\ code = "ok")
    PROVE  BookingInv(b)'
  <1>1. TypeOK /\ BookingInv(b) /\ b \in Flows
    BY DEF IInv, Flows
  <1>2. reserved[b] > 0 => reserved'[b] > 0
    BY <1>1 DEF Count, TypeOK
  <1>3. CASE b = f /\ code = "ok"
    <2>1. reserved'[b] > 0
      BY <1>1, <1>3 DEF Count, TypeOK
    <2>2. pc[b] # "reserve" /\ answer'[b] = "ok" => answer[b] = "ok"
      BY <1>1
    <2>3. QED
      BY <1>1, <2>1, <2>2 DEF BookingInv, FlowShape, RowFollowsFlow, SeatsThenRowThenMoney,
         ChargeIsKnown, RecordIsOwn, UnwindsCleanly
  <1>4. CASE b # f \/ code # "ok"
    BY <1>1, <1>2, <1>4, BookingFrame
  <1>5. QED
    BY <1>3, <1>4

LEMMA ExecuteRelease ==
    ASSUME IInv, NEW f \in Flows, NEW k \in Attempts, NEW code, NEW b \in Bookings,
           <<f, "release", k>> \in inFlight,
           released' = Count(released, BookingOf(f), code),
           UNCHANGED <<payment, status, paymentOf, pc, path, charged, reserved, attempt>>,
           answer'[b] = "ok" => answer[b] = "ok" \/ pc[b] = "release"
    PROVE  BookingInv(b)'
  <1>1. TypeOK /\ BookingInv(b) /\ RequestInv(f, k)
    BY DEF IInv
  <1>2. CASE b = BookingOf(f)
    <2>1. path[b] # "booking" \/ status[b] = "CANCELLED"
      BY <1>1, <1>2 DEF RequestInv, BookingOf
    <2>2. FlowShape(b)' /\ RowFollowsFlow(b)' /\ SeatsThenRowThenMoney(b)' /\ RecordIsOwn(b)'
      BY <1>1 DEF BookingInv, FlowShape, RowFollowsFlow, SeatsThenRowThenMoney, RecordIsOwn
    <2>3. ChargeIsKnown(b)'
      BY <1>1 DEF BookingInv, ChargeIsKnown
    <2>4. UnwindsCleanly(b)'
      BY <1>1, <2>1 DEF BookingInv, UnwindsCleanly
    <2>5. QED
      BY <2>2, <2>3, <2>4 DEF BookingInv
  <1>3. CASE b # BookingOf(f)
    <2>1. released'[b] = released[b]
      BY <1>1, <1>3 DEF Count, TypeOK
    <2>2. QED
      BY <1>1, <2>1, BookingFrame
  <1>4. QED
    BY <1>2, <1>3

LEMMA ExecuteCharge ==
    ASSUME IInv, NEW f \in Bookings, NEW k \in Attempts, NEW code, NEW b \in Bookings,
           <<f, "charge", k>> \in inFlight,
           ExecutePayment(f, "charge", k, code),
           UNCHANGED <<status, paymentOf, pc, path, charged, attempt>>,
           answer'[b] = "ok" => answer[b] = "ok" \/ (b = f /\ attempt[f] = k /\ code = "ok")
    PROVE  BookingInv(b)'
  <1>1. /\ TypeOK /\ BookingInv(b) /\ RequestInv(f, k) /\ <<f, k>> \in PaymentIds
        /\ UNCHANGED <<reserved, released>>
    BY DEF IInv, Flows, PaymentIds, ExecutePayment
  <1>2. status[f] # "none"
    BY <1>1 DEF RequestInv
  <1>3. ASSUME payment' = payment, code = "validation_failed"
        PROVE  BookingInv(b)'
    BY <1>1, <1>3, BookingFrame
  <1>4. ASSUME NEW verdict \in Verdicts, payment[<<f, k>>] = "none",
               payment' = [payment EXCEPT ![<<f, k>>] = verdict],
               code = IF verdict = "DECLINED" THEN "payment_declined" ELSE "ok"
        PROVE  BookingInv(b)'
    <2>1. /\ payment'[<<f, k>>] = verdict /\ verdict \in {"AUTHORIZED", "DECLINED"}
          /\ code = "ok" => verdict = "AUTHORIZED"
          /\ \A q \in PaymentIds : q # <<f, k>> => payment'[q] = payment[q]
      BY <1>1, <1>4, PaymentElsewhere, SagaAssumption
    <2>2. CASE b # f
      <3>1. \A j \in Attempts : payment'[<<b, j>>] = payment[<<b, j>>]
        BY <2>1, <2>2 DEF PaymentIds
      <3>2. QED
        BY <1>1, <2>2, <3>1, BookingFrame
    <2>3. CASE b = f
      <3>1. \A q \in PaymentIds : payment[q] # "none" => payment'[q] = payment[q]
        BY <1>4, <2>1
      <3>2. /\ charged[b] \in PaymentIds \cup {NoPayment}
            /\ paymentOf[b] \in PaymentIds \cup {NoPayment}
            /\ attempt[b] \in Attempts
        BY <1>1 DEF TypeOK, Table!BookingTypeOK, Client!ClientTypeOK, Flows, Client!Attempts, Attempts
      <3>3. \A j \in Attempts : /\ <<b, j>> \in PaymentIds
                                /\ payment'[<<b, j>>] = "REFUNDED" => payment[<<b, j>>] = "REFUNDED"
        BY <2>1 DEF PaymentIds
      <3>4. FlowShape(b)' /\ RowFollowsFlow(b)'
        BY <1>1 DEF BookingInv, FlowShape, RowFollowsFlow
      <3>5. SeatsThenRowThenMoney(b)'
        BY <1>1, <1>2, <2>3 DEF BookingInv, SeatsThenRowThenMoney, RowFollowsFlow
      <3>6. ChargeIsKnown(b)'
        <4>1. pc[b] = "charge" /\ answer'[b] = "ok" => payment'[<<b, attempt[b]>>] = "AUTHORIZED"
          BY <1>1, <2>1, <2>3, <3>1, <3>2, <3>3 DEF BookingInv, ChargeIsKnown
        <4>2. pc[b] = "confirm" => payment'[charged[b]] = "AUTHORIZED"
          BY <1>1, <3>1, <3>2 DEF BookingInv, ChargeIsKnown
        <4>3. pc[b] # "create"
          BY <1>1, <1>2, <2>3 DEF BookingInv, RowFollowsFlow
        <4>4. QED
          BY <1>1, <4>1, <4>2, <4>3 DEF BookingInv, ChargeIsKnown
      <3>7. RecordIsOwn(b)'
        BY <1>1, <3>1, <3>2 DEF BookingInv, RecordIsOwn
      <3>8. UnwindsCleanly(b)'
        BY <1>1, <3>3 DEF BookingInv, UnwindsCleanly
      <3>9. QED
        BY <3>4, <3>5, <3>6, <3>7, <3>8 DEF BookingInv
    <2>4. QED
      BY <2>2, <2>3
  <1>5. QED
    BY <1>3, <1>4 DEF ExecutePayment, PaymentsOf!Charge

LEMMA ExecuteRefund ==
    ASSUME IInv, NEW f \in Flows, NEW k \in Attempts, NEW code, NEW b \in Bookings,
           <<f, "refund", k>> \in inFlight,
           PaymentsOf!Refund(charged[f], code),
           UNCHANGED <<status, paymentOf, pc, path, charged, reserved, released, attempt>>,
           answer'[b] = "ok" => answer[b] = "ok" \/ pc[b] = "refund"
    PROVE  BookingInv(b)'
  <1>1. TypeOK /\ BookingInv(b) /\ RequestInv(f, k) /\ Bookings \cap Cancels = {}
    BY SagaAssumption DEF IInv
  <1>2. /\ charged[f] \in PaymentIds /\ charged[f] # NoPayment
        /\ charged[f][1] = BookingOf(f)
        /\ BookingOf(f) \in Bookings
        /\ path[BookingOf(f)] = "confirmFailed" \/ status[BookingOf(f)] = "CANCELLED"
    <2>1. charged[f] \in PaymentIds /\ charged[f] # NoPayment
      BY <1>1 DEF TypeOK, RequestInv
    <2>2. CASE f \in Bookings
      BY <1>1, <2>1, <2>2 DEF IInv, BookingInv, ChargeIsKnown, BookingOf, RequestInv
    <2>3. CASE f \in Cancels
      BY <1>1, <2>1, <2>3, SagaAssumption DEF IInv, CancelInv, BookingOf
    <2>4. QED
      BY <2>1, <2>2, <2>3 DEF Flows
  <1>3. CASE payment' = payment
    BY <1>1, <1>3, BookingFrame
  <1>4. CASE /\ payment[charged[f]] = "AUTHORIZED"
             /\ payment' = [payment EXCEPT ![charged[f]] = "REFUNDED"]
    <2>1. /\ payment'[charged[f]] = "REFUNDED"
          /\ \A q \in PaymentIds : q # charged[f] => payment'[q] = payment[q]
      BY <1>1, <1>2, <1>4, PaymentElsewhere
    <2>2. CASE b # BookingOf(f)
      <3>1. \A j \in Attempts : payment'[<<b, j>>] = payment[<<b, j>>]
        BY <1>2, <2>1, <2>2 DEF PaymentIds
      <3>2. QED
        BY <1>1, <2>2, <3>1, BookingFrame
    <2>3. CASE b = BookingOf(f)
      <3>1. /\ paymentOf[b] \in PaymentIds \cup {NoPayment}
            /\ \A j \in Attempts : <<b, j>> \in PaymentIds
        BY <1>1 DEF TypeOK, Table!BookingTypeOK, PaymentIds
      <3>2. \A q \in PaymentIds : /\ payment'[q] # "none" => payment[q] # "none"
                                  /\ payment[q] \in {"AUTHORIZED", "REFUNDED"}
                                        => payment'[q] \in {"AUTHORIZED", "REFUNDED"}
        BY <1>4, <2>1
      <3>3. path[b] = "confirmFailed" \/ status[b] = "CANCELLED"
        BY <1>2, <2>3
      <3>4. pc[b] \notin {"charge", "confirm", "create"}
        BY <1>1, <3>3 DEF BookingInv, FlowShape, RowFollowsFlow
      <3>5. FlowShape(b)' /\ RowFollowsFlow(b)'
        BY <1>1 DEF BookingInv, FlowShape, RowFollowsFlow
      <3>6. SeatsThenRowThenMoney(b)'
        BY <1>1, <3>1, <3>2 DEF BookingInv, SeatsThenRowThenMoney
      <3>7. ChargeIsKnown(b)'
        BY <1>1, <3>4 DEF BookingInv, ChargeIsKnown
      <3>8. RecordIsOwn(b)'
        BY <1>1, <3>1, <3>2 DEF BookingInv, RecordIsOwn
      <3>9. UnwindsCleanly(b)'
        BY <1>1, <3>3 DEF BookingInv, UnwindsCleanly
      <3>10. QED
        BY <3>5, <3>6, <3>7, <3>8, <3>9 DEF BookingInv
    <2>4. QED
      BY <2>2, <2>3
  <1>5. QED
    BY <1>3, <1>4 DEF PaymentsOf!Refund

(* A request executed, its answer heard by its caller or by nobody.         *)
LEMMA ExecuteStep ==
    ASSUME IInv, TypeOK', HangUpsAreFaults', NEW f \in Flows, NEW op \in Remote, NEW k \in Attempts, NEW code,
           <<f, op, k>> \in inFlight,
           Execute(f, op, k, code),
           UNCHANGED <<status, paymentOf, pc, path, charged, attempt>>,
           inFlight' \subseteq inFlight,
           \A g \in Flows : answer'[g] = "ok" =>
               answer[g] = "ok" \/ (g = f /\ pc[f] = op /\ attempt[f] = k /\ code = "ok")
    PROVE  IInv'
  <1>1. TypeOK /\ RequestInv(f, k)
    BY DEF IInv
  <1>2. ASSUME NEW b \in Bookings PROVE BookingInv(b)'
    <2>1. b \in Flows /\ BookingInv(b)
      BY DEF IInv, Flows
    <2>2. CASE op \in {"getEvent", "notify"}
      <3>1. UNCHANGED <<payment, reserved, released>>
        BY <2>2 DEF Execute, ExecuteInventory, ExecutePayment, ExecuteNotify
      <3>2. QED
        BY <1>1, <2>1, <2>2, <3>1, BookingFrame
    <2>3. CASE op = "reserve"
      <3>1. f \in Bookings
        BY <1>1, <2>3 DEF RequestInv
      <3>2. UNCHANGED <<payment, released>> /\ reserved' = Count(reserved, f, code)
        BY <2>3, <3>1 DEF Execute, ExecuteInventory, ExecutePayment, ExecuteNotify, BookingOf
      <3>3. QED
        BY <2>3, <3>1, <3>2, ExecuteReserve
    <2>4. CASE op = "release" /\ NamesEvent(f)
      <3>1. UNCHANGED <<payment, reserved>> /\ released' = Count(released, BookingOf(f), code)
        BY <2>4 DEF Execute, ExecuteInventory, ExecutePayment, ExecuteNotify
      <3>2. QED
        BY <2>1, <2>4, <3>1, ExecuteRelease
    <2>5. CASE op = "charge"
      <3>1. f \in Bookings
        BY <1>1, <2>5 DEF RequestInv
      <3>2. ExecutePayment(f, "charge", k, code)
        BY <2>5 DEF Execute, ExecuteInventory, ExecutePayment, ExecuteNotify
      <3>3. answer'[b] = "ok" => \/ answer[b] = "ok"
                                 \/ b = f /\ attempt[f] = k /\ code = "ok"
        BY <2>1
      <3>4. QED
        BY <2>5, <3>1, <3>2, <3>3, ExecuteCharge
    <2>6. CASE op = "refund"
      <3>1. PaymentsOf!Refund(charged[f], code) /\ UNCHANGED <<reserved, released>>
        BY <2>6 DEF Execute, ExecuteInventory, ExecutePayment, ExecuteNotify
      <3>2. QED
        BY <2>1, <2>6, <3>1, ExecuteRefund
    <2>7. CASE op = "release" /\ ~NamesEvent(f)
      <3>1. UNCHANGED <<payment, reserved, released>>
        BY <2>7 DEF Execute, ExecuteInventory, ExecutePayment, ExecuteNotify
      <3>2. QED
        BY <1>1, <2>1, <2>7, <3>1, BookingFrame
    <2>8. QED
      BY <2>2, <2>3, <2>4, <2>5, <2>6, <2>7 DEF Remote
  <1>3. QED
    BY <1>2, ServiceFrame

LEMMA ServedStep ==
    ASSUME IInv, TypeOK', HangUpsAreFaults', NEW f \in Flows, NEW op \in Remote, NEW k \in Attempts,
           Serve(f, op, k) \/ ServeButAnswerError(f, op, k)
    PROVE  IInv'
  <1> USE DEF bookingVars, flowVars
  <1>1. TypeOK
    BY DEF IInv
  <1>2. <<f, op, k>> \in inFlight /\ UNCHANGED <<status, paymentOf, pc, path, charged>>
    BY DEF Serve, ServeButAnswerError
  <1>3. CASE Serve(f, op, k)
    <2>1. PICK code \in Codes : /\ Execute(f, op, k, code)
                                /\ Client!Answer(f, op, k, pc[f] = op, code)
      BY <1>3 DEF Serve
    <2>2. /\ attempt' = attempt /\ inFlight' \subseteq inFlight
          /\ \A g \in Flows : answer'[g] = "ok" =>
                 answer[g] = "ok" \/ (g = f /\ pc[f] = op /\ attempt[f] = k /\ code = "ok")
      BY <1>1, <2>1 DEF Client!Answer, TypeOK, Client!ClientTypeOK
    <2>3. QED
      BY <1>2, <2>1, <2>2, ExecuteStep
  <1>4. CASE ServeButAnswerError(f, op, k)
    <2>1. Execute(f, op, k, "ok") /\ Client!Answer(f, op, k, TRUE, "internal_error")
      BY <1>4 DEF ServeButAnswerError
    <2>2. /\ attempt' = attempt /\ inFlight' \subseteq inFlight
          /\ \A g \in Flows : answer'[g] = "ok" => answer[g] = "ok"
      BY <1>1, <2>1 DEF Client!Answer, TypeOK, Client!ClientTypeOK
    <2>3. QED
      BY <1>2, <2>1, <2>2, ExecuteStep
  <1>5. QED
    BY <1>3, <1>4

-------------------------------------------------------------------------------
LEMMA QuietStep ==
    ASSUME IInv, TypeOK', HangUpsAreFaults',
           UNCHANGED vars \/ \E e \in Events : DeleteEvent(e)
    PROVE  IInv'
  <1>1. /\ UNCHANGED <<payment, status, paymentOf, pc, path, charged, reserved, released, attempt>>
        /\ inFlight' = inFlight /\ answer' = answer
    BY DEF vars, DeleteEvent, bookingVars, clientVars, flowVars, historyVars, inventoryVars
  <1>2. QED
    BY <1>1, NoEffectStep

LEMMA NextHangUps == HangUpsAreFaults /\ TypeOK /\ [Next]_vars => HangUpsAreFaults'
  <1>1. SUFFICES ASSUME HangUpsAreFaults, TypeOK, [Next]_vars PROVE HangUpsAreFaults'
    OBVIOUS
  <1>2. CASE hungUp' = hungUp
    BY <1>1, <1>2 DEF HangUpsAreFaults
  <1>3. ASSUME NEW f \in Flows, HangUp(f) PROVE HangUpsAreFaults'
    BY <1>1, <1>3 DEF HangUp, Fault, HangUpsAreFaults, TypeOK
  <1>4. ASSUME NEW f \in Flows, FlowStep(f) \/ Timeout(f) \/ Crash(f) PROVE hungUp' = hungUp
    BY <1>4 DEF FlowStep, CommonStep, BookStep, Send, Retry, AfterRefund, AfterRelease,
       AfterNotify, AfterGetEvent, AfterReserve, CreateBooking, AfterCharge, Confirm,
       MarkFailed, MarkCancelled, Timeout, Crash
  <1>5. ASSUME NEW f \in Flows, NEW op \in Remote, NEW k \in Attempts, ServiceStep(f, op, k)
        PROVE  hungUp' = hungUp
    BY <1>5 DEF ServiceStep, Serve, ServeButAnswerError, ServerError, Refuse, Discard
  <1>6. CASE UNCHANGED vars \/ \E e \in Events : DeleteEvent(e)
    BY <1>2, <1>6 DEF vars, DeleteEvent
  <1>7. QED
    BY <1>1, <1>2, <1>3, <1>4, <1>5, <1>6 DEF Next

LEMMA NextInv == IInv /\ [Next]_vars => IInv'
  <1>1. SUFFICES ASSUME IInv, [Next]_vars PROVE IInv'
    OBVIOUS
  <1>2. TypeOK' /\ HangUpsAreFaults'
    BY <1>1, NextType, NextHangUps DEF IInv
  <1>3. ASSUME NEW f \in Flows, FlowStep(f) \/ Timeout(f) \/ HangUp(f) \/ Crash(f)
        PROVE  IInv'
    <2>1. CASE CommonStep(f)
      BY <1>1, <1>2, <2>1, SendStep, RetryStep, UnwindStep DEF CommonStep
    <2>2. CASE f \in Bookings /\ BookStep(f)
      BY <1>1, <1>2, <2>2, BookCallStep, CreateStep, ConfirmStep, MarkFailedStep DEF BookStep
    <2>3. CASE f \in Cancels /\ MarkCancelled(f)
      BY <1>1, <1>2, <2>3, MarkCancelledStep
    <2>4. CASE Timeout(f) \/ HangUp(f)
      BY <1>1, <1>2, <2>4, RetryStep
    <2>5. CASE Crash(f)
      BY <1>1, <1>2, <2>5, CrashStep
    <2>6. QED
      BY <1>3, <2>1, <2>2, <2>3, <2>4, <2>5 DEF FlowStep
  <1>4. ASSUME NEW f \in Flows, NEW op \in Remote, NEW k \in Attempts, ServiceStep(f, op, k)
        PROVE  IInv'
    BY <1>1, <1>2, <1>4, ServedStep, UnservedStep DEF ServiceStep
  <1>5. CASE UNCHANGED vars \/ \E e \in Events : DeleteEvent(e)
    BY <1>1, <1>2, <1>5, QuietStep
  <1>6. QED
    BY <1>1, <1>3, <1>4, <1>5 DEF Next

(* In every reachable state, whatever fails, the flows, the row, the        *)
(* services and the requests in flight of each booking fit together.        *)
THEOREM Invariance == Spec => []IInv
  <1>1. QED
    BY InitInv, NextInv, PTL DEF Spec

-------------------------------------------------------------------------------
(* No charge ever exists for a booking that has no row or whose seats were  *)
(* not taken: the saga's order of steps survives every fault.               *)
THEOREM MoneyComesLast == Spec => []PaidAfterHeld
  <1>1. IInv => PaidAfterHeld
    BY DEF IInv, BookingInv, SeatsThenRowThenMoney, PaidAfterHeld
  <1>2. QED
    BY Invariance, <1>1, PTL

(* The payment id on a booking's row is one of its own authorized charges,  *)
(* and it is there exactly on a booking that was confirmed.                 *)
THEOREM RecordIsTrustworthy == Spec => []RecordedPaymentIsOwn
  <1>1. IInv => RecordedPaymentIsOwn
    BY DEF IInv, BookingInv, RecordIsOwn, RecordedPaymentIsOwn
  <1>2. QED
    BY Invariance, <1>1, PTL

(* The guarded transition lets at most one cancellation of a booking go on  *)
(* to refund and release, however many race.                                *)
THEOREM CancelsAreExclusive == Spec => []OneCancelUnwinds
  <1>1. IInv => OneCancelUnwinds
    BY DEF IInv, CancelInv, OneCancelUnwinds
  <1>2. QED
    BY Invariance, <1>1, PTL

(* A refunded payment belongs to a booking that was cancelled or whose      *)
(* confirmation failed.                                                     *)
THEOREM RefundsAreJustified == Spec => []RefundedOnlyWhenUnwinding
  <1>1. IInv => RefundedOnlyWhenUnwinding
    BY DEF IInv, BookingInv, UnwindsCleanly, RefundedOnlyWhenUnwinding
  <1>2. QED
    BY Invariance, <1>1, PTL

LEMMA InvBacked == IInv => ConfirmedIsBacked
  <1>1. SUFFICES ASSUME IInv, NoHiddenCommits,
                        NEW b \in Bookings, status[b] = "CONFIRMED"
                 PROVE  /\ reserved[b] > 0
                        /\ released[b] = 0
                        /\ payment[paymentOf[b]] = "AUTHORIZED"
    BY DEF ConfirmedIsBacked
  <1>2. TypeOK /\ BookingInv(b)
    BY <1>1 DEF IInv
  <1>3. path[b] = "booking" /\ reserved[b] > 0
    BY <1>1, <1>2 DEF BookingInv, UnwindsCleanly, SeatsThenRowThenMoney
  <1>4. released[b] = 0
    BY <1>1, <1>2, <1>3 DEF TypeOK, BookingInv, UnwindsCleanly
  <1>5. payment[paymentOf[b]] = "AUTHORIZED"
    <2>1. /\ paymentOf[b] \in PaymentIds /\ paymentOf[b][1] = b
          /\ payment[paymentOf[b]] \in {"AUTHORIZED", "REFUNDED"}
      BY <1>1, <1>2 DEF BookingInv, RecordIsOwn, TypeOK, Table!BookingTypeOK
    <2>2. paymentOf[b][2] \in Attempts /\ paymentOf[b] = <<b, paymentOf[b][2]>>
      BY <2>1, OwnId
    <2>3. payment[<<b, paymentOf[b][2]>>] # "REFUNDED"
      BY <1>1, <1>2, <1>3, <2>2 DEF BookingInv, UnwindsCleanly
    <2>4. QED
      BY <2>1, <2>2, <2>3
  <1>6. QED
    BY <1>3, <1>4, <1>5

(* When no commit is reported as an error, a confirmed booking has had its  *)
(* seats taken and never returned, and its payment stands.                  *)
THEOREM ConfirmationIsBacked == Spec => []ConfirmedIsBacked
  <1>1. QED
    BY Invariance, InvBacked, PTL

-------------------------------------------------------------------------------
(* A write to the row of booking f that the lifecycle allows.               *)
LEMMA AllowedWrite ==
    ASSUME TypeOK, NEW f \in Bookings,
           \/ status[f] = "none" /\ Table!Create(f, "ok")
           \/ \E code : Table!UpdateStatus(f, "FAILED", {"PENDING"}, NoPayment, code)
           \/ \E code : Table!UpdateStatus(f, "CANCELLED", {"CONFIRMED"}, NoPayment, code)
           \/ \E code, p : Table!UpdateStatus(f, "CONFIRMED", {"PENDING"}, p, code)
    PROVE  LifecycleStep
  <1>1. status \in [Bookings -> Table!Statuses \cup {"none"}] /\ DOMAIN paymentOf = Bookings
    BY DEF TypeOK, Table!BookingTypeOK
  <1>2. CASE status[f] = "none" /\ Table!Create(f, "ok")
    BY <1>1, <1>2 DEF Table!Create, LifecycleStep
  <1>3. CASE \E code : Table!UpdateStatus(f, "FAILED", {"PENDING"}, NoPayment, code)
    BY <1>1, <1>3 DEF Table!UpdateStatus, Table!bookingVars, LifecycleStep
  <1>4. CASE \E code : Table!UpdateStatus(f, "CANCELLED", {"CONFIRMED"}, NoPayment, code)
    BY <1>1, <1>4 DEF Table!UpdateStatus, Table!bookingVars, LifecycleStep
  <1>5. CASE \E code, p : Table!UpdateStatus(f, "CONFIRMED", {"PENDING"}, p, code)
    BY <1>1, <1>5 DEF Table!UpdateStatus, Table!bookingVars, LifecycleStep
  <1>6. QED
    BY <1>2, <1>3, <1>4, <1>5

LEMMA NextLifecycle == IInv /\ [Next]_vars => LifecycleStep
  <1>1. SUFFICES ASSUME IInv, [Next]_vars PROVE LifecycleStep
    OBVIOUS
  <1>2. TypeOK
    BY <1>1 DEF IInv
  <1>3. CASE UNCHANGED <<status, paymentOf>>
    BY <1>3 DEF LifecycleStep
  <1>4. ASSUME NEW f \in Bookings, BookStep(f), ~ UNCHANGED <<status, paymentOf>>
        PROVE  LifecycleStep
    <2>1. CASE CreateBooking(f)
      <3>1. status[f] = "none"
        BY <1>1, <2>1 DEF CreateBooking, IInv, BookingInv, RowFollowsFlow
      <3>2. Table!Create(f, "ok")
        BY <1>4, <2>1 DEF CreateBooking, TableErrs, bookingVars
      <3>3. QED
        BY <1>2, <3>1, <3>2, AllowedWrite
    <2>2. CASE Confirm(f)
      <3>1. \E code, p : Table!UpdateStatus(f, "CONFIRMED", {"PENDING"}, p, code)
        BY <1>4, <2>2 DEF Confirm, TableErrs, bookingVars
      <3>2. QED
        BY <1>2, <3>1, AllowedWrite
    <2>3. CASE MarkFailed(f)
      <3>1. \E code : Table!UpdateStatus(f, "FAILED", {"PENDING"}, NoPayment, code)
        BY <1>4, <2>3 DEF MarkFailed, TableErrs, bookingVars
      <3>2. QED
        BY <1>2, <3>1, AllowedWrite
    <2>4. CASE AfterGetEvent(f) \/ AfterReserve(f) \/ AfterCharge(f)
      BY <1>4, <2>4 DEF AfterGetEvent, AfterReserve, AfterCharge, bookingVars
    <2>5. QED
      BY <1>4, <2>1, <2>2, <2>3, <2>4 DEF BookStep
  <1>5. ASSUME NEW f \in Cancels, MarkCancelled(f), ~ UNCHANGED <<status, paymentOf>>
        PROVE  LifecycleStep
    <2>1. BookingOf(f) \in Bookings
      BY SagaAssumption DEF BookingOf
    <2>2. \E code : Table!UpdateStatus(BookingOf(f), "CANCELLED", {"CONFIRMED"}, NoPayment, code)
      BY <1>5 DEF MarkCancelled, CancellableFrom, TableErrs, bookingVars
    <2>3. QED
      BY <1>2, <2>1, <2>2, AllowedWrite
  <1>6. ASSUME NEW f \in Flows, CommonStep(f) \/ Timeout(f) \/ HangUp(f) \/ Crash(f)
        PROVE  UNCHANGED <<status, paymentOf>>
    BY <1>6 DEF CommonStep, Send, Retry, AfterRefund, AfterRelease, AfterNotify, Timeout,
       HangUp, Crash, bookingVars
  <1>7. ASSUME NEW f \in Flows, NEW op \in Remote, NEW k \in Attempts, ServiceStep(f, op, k)
        PROVE  UNCHANGED <<status, paymentOf>>
    BY <1>7 DEF ServiceStep, Serve, ServeButAnswerError, ServerError, Refuse, Discard, bookingVars
  <1>8. CASE UNCHANGED vars \/ \E e \in Events : DeleteEvent(e)
    BY <1>3, <1>8 DEF vars, DeleteEvent, bookingVars
  <1>9. QED
    BY <1>1, <1>3, <1>4, <1>5, <1>6, <1>7, <1>8 DEF Next, FlowStep

(* Every change of a booking's row, by any flow at any moment, is one the   *)
(* lifecycle of models.go draws, and the payment id is written only with    *)
(* the confirmation.                                                        *)
THEOREM LifecycleIsFollowed == Spec => Lifecycle
  <1>1. IInv /\ [Next]_vars => [LifecycleStep]_vars
    BY NextLifecycle
  <1>2. QED
    BY Invariance, <1>1, PTL DEF Spec, Lifecycle
===============================================================================
