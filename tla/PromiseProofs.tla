----------------------------- MODULE PromiseProofs -----------------------------
(***************************************************************************)
(* What the saga keeps when its faults are definite, for every set of      *)
(* events, bookings and cancellations, every number of retries and every   *)
(* fault kind the hypotheses leave: seats are never oversold, messages are *)
(* true, at rest seats and money are exact, and the saga implements the    *)
(* promise.                                                                *)
(***************************************************************************)
EXTENDS SagaProofs, SagaOnce

-------------------------------------------------------------------------------
(* What a step does, flow by flow, when outcomes are known.                 *)

LEMMA NobodyGivesUp ==
    ASSUME IInv, OutcomesKnown
    PROVE  /\ NoHiddenCommits
           /\ \A f \in Flows : hungUp[f] = FALSE
           /\ ~ Fault("timeout") /\ ~ Fault("lostCommit") /\ ~ Fault("hangup")
  BY DEF IInv, TypeOK, HangUpsAreFaults, OutcomesKnown, AnswersArrive, CustomersWait, NoHiddenCommits, Fault

Stays(f) == pc'[f] = pc[f] /\ path'[f] = path[f] /\ charged'[f] = charged[f]
Waits(f) == answer'[f] = answer[f] /\ attempt'[f] = attempt[f]
RowStays(b) == status'[b] = status[b] /\ paymentOf'[b] = paymentOf[b]
OthersStay(f) ==
    /\ \A g \in Flows : g # f => Stays(g) /\ Waits(g)
    /\ \A b \in Bookings : b # BookingOf(f) => RowStays(b)
ServicesRest == UNCHANGED <<available, payment, told, reserved, released>>

Sends(f) ==
    /\ pc[f] \in Remote
    /\ answer[f] = "idle" /\ answer'[f] = "waiting"
    /\ inFlight' = inFlight \cup {<<f, pc[f], attempt[f]>>}
    /\ attempt'[f] = attempt[f]
    /\ Stays(f) /\ RowStays(BookingOf(f))

Repeats(f) ==
    /\ pc[f] \in Remote
    /\ answer[f] \in Client!Retryable /\ answer'[f] = "idle"
    /\ inFlight' = inFlight
    /\ Stays(f) /\ RowStays(BookingOf(f))

Crashes(f) ==
    /\ ~ProcessesLive
    /\ pc'[f] = "crashed" /\ path'[f] = path[f] /\ charged'[f] = charged[f]
    /\ answer'[f] = "idle" /\ inFlight' = inFlight
    /\ RowStays(BookingOf(f))

(* A call that comes back, as the client's loop ends.                       *)
Heard(f) ==
    /\ \/ answer[f] \in Codes
       \/ answer[f] \in Client!Retryable /\ attempt[f] = Retries
    /\ answer'[f] = "idle" /\ inFlight' = inFlight
    /\ RowStays(BookingOf(f))

BookingHears(f) ==
    /\ Heard(f)
    /\ \/ /\ pc[f] = "getEvent" /\ pc'[f] \in {"reserve", "done"}
          /\ path'[f] = path[f] /\ charged'[f] = charged[f]
       \/ /\ pc[f] = "reserve"
          /\ \/ answer[f] = "ok" /\ pc'[f] = "create"
             \/ answer[f] # "ok" /\ pc'[f] = "done"
          /\ path'[f] = path[f] /\ charged'[f] = charged[f]
       \/ /\ pc[f] = "charge"
          /\ \/ /\ answer[f] = "ok" /\ pc'[f] = "confirm"
                /\ path'[f] = path[f] /\ charged'[f] = <<f, attempt[f]>>
             \/ /\ answer[f] # "ok" /\ pc'[f] = "markFailed"
                /\ path'[f] = "chargeFailed" /\ charged'[f] = charged[f]

Unwinds(f) ==
    /\ Heard(f)
    /\ \/ pc[f] = "refund" /\ pc'[f] = "release"
       \/ pc[f] = "release" /\ pc'[f] \in {"notify", "done"}
       \/ pc[f] = "notify" /\ pc'[f] = "done"
    /\ path'[f] = path[f] /\ charged'[f] = charged[f]

BookingWrites(f) ==
    /\ Waits(f) /\ inFlight' = inFlight
    /\ charged'[f] = charged[f]
    /\ \/ /\ pc[f] = "create"
          /\ \/ /\ status'[f] = "PENDING" /\ paymentOf'[f] = paymentOf[f]
                /\ pc'[f] = "charge" /\ path'[f] = path[f]
             \/ RowStays(f) /\ pc'[f] = "release" /\ path'[f] = "persistFailed"
       \/ /\ pc[f] = "confirm"
          /\ \/ /\ status'[f] = "CONFIRMED" /\ paymentOf'[f] = charged[f]
                /\ pc'[f] = "notify" /\ path'[f] = path[f]
             \/ RowStays(f) /\ pc'[f] = "refund" /\ path'[f] = "confirmFailed"
       \/ /\ pc[f] = "markFailed"
          /\ status'[f] = status[f] \/ (status[f] = "PENDING" /\ status'[f] = "FAILED")
          /\ paymentOf'[f] = paymentOf[f]
          /\ pc'[f] = "release" /\ path'[f] = path[f]

CancelWrites(f) ==
    LET b == TargetOf[f]
    IN  /\ Waits(f) /\ inFlight' = inFlight /\ path'[f] = path[f]
        /\ pc[f] = "markCancelled"
        /\ \/ /\ status[b] = "CONFIRMED" /\ status'[b] = "CANCELLED"
              /\ paymentOf'[b] = paymentOf[b] /\ paymentOf[b] # NoPayment
              /\ charged'[f] = paymentOf[b]
              /\ pc'[f] = "refund"
           \/ RowStays(b) /\ charged'[f] = charged[f] /\ pc'[f] = "done"

FlowMoves(f) ==
    /\ OthersStay(f) /\ ServicesRest
    /\ \/ Sends(f) \/ Repeats(f) \/ Crashes(f) \/ Unwinds(f)
       \/ f \in Bookings /\ (BookingHears(f) \/ BookingWrites(f))
       \/ f \in Cancels /\ CancelWrites(f)

(* A request leaves the network; its caller hears the code if it waits.     *)
Leaves(f, op, k, code) ==
    /\ <<f, op, k>> \in inFlight
    /\ inFlight' = inFlight \ {<<f, op, k>>}
    /\ answer'[f] = IF Awaited(f, op, k) THEN code ELSE answer[f]
    /\ attempt'[f] = attempt[f]
    /\ \A g \in Flows : g # f => answer'[g] = answer[g] /\ attempt'[g] = attempt[g]
    /\ UNCHANGED <<pc, path, charged, hungUp, status, paymentOf>>

Fails(f, op, k) ==
    /\ ServicesRest
    /\ \E code \in Client!Retryable : Leaves(f, op, k, code)

Executes(f, op, k) ==
    \E code \in Codes : Execute(f, op, k, code) /\ Leaves(f, op, k, code)

NothingMoves ==
    /\ ServicesRest
    /\ UNCHANGED <<pc, path, charged, answer, attempt, inFlight, hungUp, status, paymentOf>>

LEMMA CallBack ==
    ASSUME IInv, OutcomesKnown, NEW f \in Flows, NEW result, CallReturns(f, result)
    PROVE  /\ \/ answer[f] \in Codes /\ result = answer[f]
              \/ answer[f] \in Client!Retryable /\ attempt[f] = Retries /\ result = "failed"
           /\ answer'[f] = "idle" /\ inFlight' = inFlight
           /\ \A g \in Flows : g # f => answer'[g] = answer[g] /\ attempt'[g] = attempt[g]
  <1>1. \/ answer[f] \in Codes /\ result = answer[f]
        \/ answer[f] \in Client!Retryable /\ attempt[f] = Retries /\ result = "failed"
    BY NobodyGivesUp DEF CallReturns, Client!Returns, ContextDone
  <1>2. QED
    BY <1>1, CallReturnsEffect DEF IInv

LEMMA HeardEffect ==
    ASSUME IInv, OutcomesKnown, NEW f \in Flows, NEW result, CallReturns(f, result),
           BookingOf(f) \in Bookings, UNCHANGED <<status, paymentOf>>
    PROVE  /\ Heard(f)
           /\ \A g \in Flows : g # f => Waits(g)
           /\ result = "ok" <=> answer[f] = "ok"
  <1>1. "ok" \notin Client!Retryable /\ "failed" \notin Codes /\ "failed" # "ok"
    BY DEF Client!Retryable, Codes
  <1>2. QED
    BY <1>1, CallBack DEF Heard, RowStays, Waits

LEMMA CommonKinds ==
    ASSUME IInv, OutcomesKnown, NEW f \in Flows, CommonStep(f) \/ Timeout(f) \/ HangUp(f) \/ Crash(f)
    PROVE  FlowMoves(f)
  <1> USE DEF bookingVars, clientVars, flowVars, historyVars, inventoryVars
  <1>1. TypeOK /\ BookingOf(f) \in Bookings
    BY SagaAssumption DEF IInv, BookingOf, Flows
  <1>2. CASE Send(f)
    <2>1. Sends(f)
      BY <1>1, <1>2 DEF Send, Client!Send, TypeOK, Client!ClientTypeOK, Sends, Stays, RowStays
    <2>2. OthersStay(f) /\ ServicesRest
      BY <1>1, <1>2 DEF Send, Client!Send, TypeOK, Client!ClientTypeOK, OthersStay, Stays, Waits,
         RowStays, ServicesRest
    <2>3. QED
      BY <2>1, <2>2 DEF FlowMoves
  <1>3. CASE Retry(f)
    <2>1. Repeats(f)
      BY <1>1, <1>3 DEF Retry, Client!Retry, TypeOK, Client!ClientTypeOK, Repeats, Stays, RowStays
    <2>2. OthersStay(f) /\ ServicesRest
      BY <1>1, <1>3 DEF Retry, Client!Retry, TypeOK, Client!ClientTypeOK, OthersStay, Stays, Waits,
         RowStays, ServicesRest
    <2>3. QED
      BY <2>1, <2>2 DEF FlowMoves
  <1>4. CASE Timeout(f) \/ HangUp(f)
    BY <1>4, NobodyGivesUp DEF Timeout, HangUp
  <1>6. CASE Crash(f)
    <2>1. pc'[f] = "crashed" /\ \A g \in Flows : g # f => pc'[g] = pc[g]
      BY <1>1, <1>6, GotoEffect DEF Crash
    <2>2. /\ answer'[f] = "idle" /\ inFlight' = inFlight
          /\ \A g \in Flows : g # f => answer'[g] = answer[g] /\ attempt'[g] = attempt[g]
      BY <1>1, <1>6 DEF Crash, Client!EndCall, TypeOK, Client!ClientTypeOK
    <2>3. Crashes(f)
      BY <1>1, <1>6, <2>1, <2>2 DEF Crash, Fault, ProcessesLive, Crashes, RowStays
    <2>4. OthersStay(f) /\ ServicesRest
      BY <1>1, <1>6, <2>1, <2>2 DEF Crash, OthersStay, Stays, Waits, RowStays, ServicesRest
    <2>5. QED
      BY <2>3, <2>4 DEF FlowMoves
  <1>7. CASE AfterRefund(f) \/ AfterRelease(f) \/ AfterNotify(f)
    <2>1. /\ UNCHANGED <<status, paymentOf, hungUp, path, charged>> /\ ServicesRest
          /\ \E result : CallReturns(f, result)
      BY <1>7 DEF AfterRefund, AfterRelease, AfterNotify, ServicesRest
    <2>2. Heard(f) /\ \A g \in Flows : g # f => Waits(g)
      BY <1>1, <2>1, HeardEffect
    <2>3. /\ \/ pc[f] = "refund" /\ pc'[f] = "release"
             \/ pc[f] = "release" /\ pc'[f] \in {"notify", "done"}
             \/ pc[f] = "notify" /\ pc'[f] = "done"
          /\ \A g \in Flows : g # f => pc'[g] = pc[g]
      BY <1>1, <1>7, GotoEffect DEF AfterRefund, AfterRelease, AfterNotify
    <2>4. Unwinds(f) /\ OthersStay(f)
      BY <2>1, <2>2, <2>3 DEF Unwinds, OthersStay, Stays, RowStays
    <2>5. QED
      BY <2>1, <2>4 DEF FlowMoves
  <1>8. QED
    BY <1>2, <1>3, <1>4, <1>6, <1>7 DEF CommonStep

LEMMA BookingHearsKind ==
    ASSUME IInv, OutcomesKnown, NEW f \in Bookings,
           AfterGetEvent(f) \/ AfterReserve(f) \/ AfterCharge(f)
    PROVE  FlowMoves(f)
  <1> USE DEF bookingVars, clientVars, flowVars, historyVars, inventoryVars
  <1>1. TypeOK /\ f \in Flows /\ BookingOf(f) = f
    BY DEF IInv, BookingOf, Flows
  <1>2. UNCHANGED <<status, paymentOf, hungUp>> /\ ServicesRest
    BY DEF AfterGetEvent, AfterReserve, AfterCharge, ServicesRest
  <1>3. ASSUME NEW result, CallReturns(f, result)
        PROVE  /\ Heard(f)
               /\ \A g \in Flows : g # f => Waits(g)
               /\ result = "ok" <=> answer[f] = "ok"
    BY <1>1, <1>2, <1>3, HeardEffect
  <1>4. CASE AfterGetEvent(f)
    <2>1. PICK result \in Codes \cup {"failed"} :
              CallReturns(f, result) /\ Goto(f, IF result = "ok" THEN "reserve" ELSE "done")
      BY <1>4 DEF AfterGetEvent
    <2>2. /\ pc'[f] = IF result = "ok" THEN "reserve" ELSE "done"
          /\ \A g \in Flows : g # f => pc'[g] = pc[g]
      BY <1>1, <2>1, GotoEffect
    <2>3. pc[f] = "getEvent" /\ path' = path /\ charged' = charged
      BY <1>4 DEF AfterGetEvent
    <2>4. BookingHears(f)
      BY <1>3, <2>1, <2>2, <2>3 DEF BookingHears
    <2>5. OthersStay(f)
      BY <1>2, <1>3, <2>1, <2>2, <2>3 DEF OthersStay, Stays, RowStays
    <2>6. QED
      BY <1>2, <2>4, <2>5 DEF FlowMoves
  <1>5. CASE AfterReserve(f)
    <2>1. PICK result \in Codes \cup {"failed"} :
              CallReturns(f, result) /\ Goto(f, IF result = "ok" THEN "create" ELSE "done")
      BY <1>5 DEF AfterReserve
    <2>2. /\ pc'[f] = IF result = "ok" THEN "create" ELSE "done"
          /\ \A g \in Flows : g # f => pc'[g] = pc[g]
      BY <1>1, <2>1, GotoEffect
    <2>3. pc[f] = "reserve" /\ path' = path /\ charged' = charged
      BY <1>5 DEF AfterReserve
    <2>4. BookingHears(f)
      BY <1>3, <2>1, <2>2, <2>3 DEF BookingHears
    <2>5. OthersStay(f)
      BY <1>2, <1>3, <2>1, <2>2, <2>3 DEF OthersStay, Stays, RowStays
    <2>6. QED
      BY <1>2, <2>4, <2>5 DEF FlowMoves
  <1>6. CASE AfterCharge(f)
    <2>1. CASE /\ CallReturns(f, "ok")
               /\ charged' = [charged EXCEPT ![f] = <<f, attempt[f]>>]
               /\ Goto(f, "confirm") /\ UNCHANGED path
      <3>1. /\ pc'[f] = "confirm" /\ charged'[f] = <<f, attempt[f]>>
            /\ \A g \in Flows : g # f => pc'[g] = pc[g] /\ charged'[g] = charged[g]
        BY <1>1, <2>1, GotoEffect DEF TypeOK
      <3>2. BookingHears(f)
        BY <1>3, <1>6, <2>1, <3>1 DEF AfterCharge, BookingHears
      <3>3. OthersStay(f)
        BY <1>2, <1>3, <2>1, <3>1 DEF OthersStay, Stays, RowStays
      <3>4. QED
        BY <1>2, <3>2, <3>3 DEF FlowMoves
    <2>2. CASE /\ \E result \in (Codes \ {"ok"}) \cup {"failed"} : CallReturns(f, result)
               /\ GoUnwind(f, "chargeFailed", "markFailed") /\ UNCHANGED charged
      <3>1. /\ pc'[f] = "markFailed" /\ path'[f] = "chargeFailed"
            /\ \A g \in Flows : g # f => pc'[g] = pc[g] /\ path'[g] = path[g]
        BY <1>1, <2>2, GoUnwindEffect
      <3>2. PICK result : result # "ok" /\ CallReturns(f, result)
        BY <2>2
      <3>3. BookingHears(f)
        BY <1>3, <1>6, <2>2, <3>1, <3>2 DEF AfterCharge, BookingHears
      <3>4. OthersStay(f)
        BY <1>2, <1>3, <2>2, <3>1, <3>2 DEF OthersStay, Stays, RowStays
      <3>5. QED
        BY <1>2, <3>3, <3>4 DEF FlowMoves
    <2>3. QED
      BY <1>6, <2>1, <2>2 DEF AfterCharge
  <1>7. QED
    BY <1>4, <1>5, <1>6

LEMMA BookingWritesKind ==
    ASSUME IInv, OutcomesKnown, NEW f \in Bookings,
           CreateBooking(f) \/ Confirm(f) \/ MarkFailed(f)
    PROVE  FlowMoves(f)
  <1> USE DEF bookingVars, clientVars, flowVars, historyVars, inventoryVars
  <1>1. TypeOK /\ f \in Flows /\ BookingOf(f) = f /\ BookingInv(f)
    BY DEF IInv, BookingOf, Flows
  <1>2. UNCHANGED <<answer, attempt, inFlight, hungUp, charged>> /\ ServicesRest
    BY DEF CreateBooking, Confirm, MarkFailed, ServicesRest
  <1>3. ASSUME NEW Committed, TableErrs(f, Committed) PROVE status' = status /\ paymentOf' = paymentOf
    BY <1>1, <1>3, NobodyGivesUp DEF TableErrs
  <1>4. CASE CreateBooking(f)
    <2>1. CASE Table!Create(f, "ok") /\ Goto(f, "charge") /\ path' = path
      <3>1. /\ status'[f] = "PENDING" /\ paymentOf' = paymentOf
            /\ \A b \in Bookings : b # f => status'[b] = status[b]
        BY <1>1, <2>1 DEF Table!Create, TypeOK, Table!BookingTypeOK
      <3>2. pc'[f] = "charge" /\ \A g \in Flows : g # f => pc'[g] = pc[g]
        BY <1>1, <2>1, GotoEffect
      <3>3. BookingWrites(f)
        BY <1>2, <1>4, <2>1, <3>1, <3>2 DEF CreateBooking, BookingWrites, Waits
      <3>4. OthersStay(f)
        BY <1>1, <1>2, <2>1, <3>1, <3>2 DEF OthersStay, Stays, Waits, RowStays
      <3>5. QED
        BY <1>2, <3>3, <3>4 DEF FlowMoves
    <2>2. CASE TableErrs(f, Table!Create(f, "ok")) /\ GoUnwind(f, "persistFailed", "release")
      <3>1. status' = status /\ paymentOf' = paymentOf
        BY <1>3, <2>2
      <3>2. /\ pc'[f] = "release" /\ path'[f] = "persistFailed"
            /\ \A g \in Flows : g # f => pc'[g] = pc[g] /\ path'[g] = path[g]
        BY <1>1, <2>2, GoUnwindEffect
      <3>3. BookingWrites(f)
        BY <1>2, <1>4, <3>1, <3>2 DEF CreateBooking, BookingWrites, Waits, RowStays
      <3>4. OthersStay(f)
        BY <1>2, <3>1, <3>2 DEF OthersStay, Stays, Waits, RowStays
      <3>5. QED
        BY <1>2, <3>3, <3>4 DEF FlowMoves
    <2>3. QED
      BY <1>4, <2>1, <2>2 DEF CreateBooking
  <1>5. CASE Confirm(f)
    <2> DEFINE Update(code) == Table!UpdateStatus(f, "CONFIRMED", {"PENDING"}, charged[f], code)
    <2>1. pc[f] = "confirm" /\ status[f] = "PENDING" /\ charged[f] # NoPayment
      BY <1>1, <1>5 DEF Confirm, BookingInv, RowFollowsFlow, ChargeIsKnown
    <2>2. ASSUME NEW code, Update(code)
          PROVE  /\ code = "ok"
                 /\ status'[f] = "CONFIRMED" /\ paymentOf'[f] = charged[f]
                 /\ \A b \in Bookings : b # f => RowStays(b)
      BY <1>1, <2>1, <2>2 DEF Table!UpdateStatus, TypeOK, Table!BookingTypeOK, RowStays
    <2>3. CASE Update("ok") /\ Goto(f, "notify") /\ path' = path
      <3>1. pc'[f] = "notify" /\ \A g \in Flows : g # f => pc'[g] = pc[g]
        BY <1>1, <2>3, GotoEffect
      <3>2. BookingWrites(f)
        BY <1>2, <2>1, <2>2, <2>3, <3>1 DEF BookingWrites, Waits
      <3>3. OthersStay(f)
        BY <1>1, <1>2, <2>2, <2>3, <3>1 DEF OthersStay, Stays, Waits
      <3>4. QED
        BY <1>2, <3>2, <3>3 DEF FlowMoves
    <2>4. CASE TableErrs(f, Update("ok")) /\ GoUnwind(f, "confirmFailed", "refund")
      <3>1. status' = status /\ paymentOf' = paymentOf
        BY <1>3, <2>4
      <3>2. /\ pc'[f] = "refund" /\ path'[f] = "confirmFailed"
            /\ \A g \in Flows : g # f => pc'[g] = pc[g] /\ path'[g] = path[g]
        BY <1>1, <2>4, GoUnwindEffect
      <3>3. BookingWrites(f)
        BY <1>2, <2>1, <3>1, <3>2 DEF BookingWrites, Waits, RowStays
      <3>4. OthersStay(f)
        BY <1>2, <3>1, <3>2 DEF OthersStay, Stays, Waits, RowStays
      <3>5. QED
        BY <1>2, <3>3, <3>4 DEF FlowMoves
    <2>5. QED
      BY <1>5, <2>2, <2>3, <2>4 DEF Confirm
  <1>6. CASE MarkFailed(f)
    <2> DEFINE Update(code) == Table!UpdateStatus(f, "FAILED", {"PENDING"}, NoPayment, code)
    <2>1. ASSUME NEW code, Update(code)
          PROVE  /\ \A b \in Bookings : b # f => status'[b] = status[b]
                 /\ status'[f] = status[f] \/ (status[f] = "PENDING" /\ status'[f] = "FAILED")
                 /\ \A b \in Bookings : paymentOf'[b] = paymentOf[b]
      <3>1. "FAILED" \in Table!Statuses /\ {"PENDING"} \in SUBSET Table!Statuses
        BY DEF Table!Statuses
      <3>2. QED
        BY <1>1, <2>1, <3>1, UpdateStatusEffect
    <2>2. (status' = status /\ paymentOf' = paymentOf) \/ \E code : Update(code)
      BY <1>3, <1>6 DEF MarkFailed
    <2>3. /\ \A b \in Bookings : b # f => status'[b] = status[b]
          /\ status'[f] = status[f] \/ (status[f] = "PENDING" /\ status'[f] = "FAILED")
          /\ \A b \in Bookings : paymentOf'[b] = paymentOf[b]
      BY <2>1, <2>2
    <2>4. pc'[f] = "release" /\ \A g \in Flows : g # f => pc'[g] = pc[g]
      BY <1>1, <1>6, GotoEffect DEF MarkFailed
    <2>5. pc[f] = "markFailed" /\ path' = path
      BY <1>6 DEF MarkFailed
    <2>6. BookingWrites(f)
      BY <1>2, <2>3, <2>4, <2>5 DEF BookingWrites, Waits
    <2>7. OthersStay(f)
      BY <1>1, <1>2, <2>3, <2>4, <2>5 DEF OthersStay, Stays, Waits, RowStays
    <2>8. QED
      BY <1>2, <2>6, <2>7 DEF FlowMoves
  <1>7. QED
    BY <1>4, <1>5, <1>6

LEMMA CancelWritesKind ==
    ASSUME IInv, OutcomesKnown, NEW f \in Cancels, MarkCancelled(f)
    PROVE  FlowMoves(f)
  <1> USE DEF bookingVars, clientVars, flowVars, historyVars, inventoryVars
  <1> DEFINE b == TargetOf[f]
             Update(code) == Table!UpdateStatus(b, "CANCELLED", CancellableFrom, NoPayment, code)
  <1>1. /\ TypeOK /\ f \in Flows /\ f \notin Bookings /\ b \in Bookings /\ BookingOf(f) = b
        /\ BookingInv(b)
    BY SagaAssumption DEF IInv, Flows, BookingOf
  <1>2. /\ UNCHANGED <<answer, attempt, inFlight, hungUp, path>> /\ ServicesRest
        /\ pc[f] = "markCancelled"
    BY DEF MarkCancelled, ServicesRest
  <1>3. ASSUME NEW code, Update(code)
        PROVE  /\ \A a \in Bookings : a # b => RowStays(a)
               /\ paymentOf'[b] = paymentOf[b]
               /\ \/ status[b] = "CONFIRMED" /\ status'[b] = "CANCELLED"
                  \/ code # "ok" /\ status'[b] = status[b]
    BY <1>1, <1>3 DEF Table!UpdateStatus, Table!bookingVars, CancellableFrom, TypeOK,
       Table!BookingTypeOK, RowStays
  <1>4. CASE /\ Update("ok")
             /\ charged' = [charged EXCEPT ![f] = paymentOf[b]]
             /\ Goto(f, AfterCancel(b))
    <2>1. status[b] = "CONFIRMED" /\ status'[b] = "CANCELLED" /\ paymentOf[b] # NoPayment
      BY <1>1, <1>3, <1>4 DEF BookingInv, RecordIsOwn
    <2>2. pc'[f] = "refund" /\ \A g \in Flows : g # f => pc'[g] = pc[g]
      BY <1>1, <1>4, <2>1, GotoEffect DEF AfterCancel
    <2>3. charged'[f] = paymentOf[b] /\ \A g \in Flows : g # f => charged'[g] = charged[g]
      BY <1>1, <1>4 DEF TypeOK
    <2>4. CancelWrites(f)
      BY <1>2, <1>3, <1>4, <2>1, <2>2, <2>3 DEF CancelWrites, Waits
    <2>5. OthersStay(f)
      BY <1>1, <1>2, <1>3, <1>4, <2>2, <2>3 DEF OthersStay, Stays, Waits
    <2>6. QED
      BY <1>2, <2>4, <2>5 DEF FlowMoves
  <1>5. CASE /\ \/ Update("booking_not_found") \/ Update("not_cancellable")
                \/ TableErrs(f, Update("ok"))
             /\ Goto(f, "done") /\ UNCHANGED charged
    <2>1. \A a \in Bookings : RowStays(a)
      <3>1. CASE TableErrs(f, Update("ok"))
        BY <1>1, <3>1, NobodyGivesUp DEF TableErrs, RowStays
      <3>2. CASE Update("booking_not_found") \/ Update("not_cancellable")
        BY <3>2 DEF Table!UpdateStatus, Table!bookingVars, RowStays
      <3>3. QED
        BY <1>5, <3>1, <3>2
    <2>2. pc'[f] = "done" /\ \A g \in Flows : g # f => pc'[g] = pc[g]
      BY <1>1, <1>5, GotoEffect
    <2>3. CancelWrites(f)
      BY <1>1, <1>2, <1>5, <2>1, <2>2 DEF CancelWrites, Waits
    <2>4. OthersStay(f)
      BY <1>2, <1>5, <2>1, <2>2 DEF OthersStay, Stays, Waits
    <2>5. QED
      BY <1>2, <2>3, <2>4 DEF FlowMoves
  <1>6. QED
    BY <1>1, <1>4, <1>5 DEF MarkCancelled

LEMMA AnswerLeaves ==
    ASSUME TypeOK, NEW f \in Flows, NEW op, NEW k, NEW code, <<f, op, k>> \in inFlight,
           UNCHANGED <<pc, path, charged, hungUp, status, paymentOf>>,
           \/ Client!Answer(f, op, k, pc[f] = op, code)
           \/ Client!Answer(f, op, k, TRUE, code) /\ Awaited(f, op, k)
           \/ Client!Answer(f, op, k, FALSE, code) /\ ~Awaited(f, op, k)
    PROVE  Leaves(f, op, k, code)
  BY DEF Client!Answer, Awaited, Leaves, TypeOK, Client!ClientTypeOK

LEMMA ServiceKinds ==
    ASSUME IInv, OutcomesKnown, NEW f \in Flows, NEW op \in Remote, NEW k \in Attempts,
           ServiceStep(f, op, k)
    PROVE  Executes(f, op, k) \/ Fails(f, op, k)
  <1> USE DEF bookingVars, flowVars, historyVars, inventoryVars
  <1>1. TypeOK /\ {"lost", "internal_error"} = Client!Retryable
    BY DEF IInv, Client!Retryable
  <1>2. CASE Serve(f, op, k)
    BY <1>1, <1>2, AnswerLeaves DEF Serve, Executes
  <1>3. CASE ServeButAnswerError(f, op, k)
    BY <1>3, NobodyGivesUp DEF ServeButAnswerError
  <1>4. CASE ServerError(f, op, k) \/ Refuse(f, op, k) \/ Discard(f, op, k)
    <2>1. /\ UNCHANGED <<pc, path, charged, hungUp, status, paymentOf>> /\ ServicesRest
          /\ <<f, op, k>> \in inFlight
      BY <1>4 DEF ServerError, Refuse, Discard, ServicesRest
    <2>2. \E code \in {"lost", "internal_error"} : Leaves(f, op, k, code)
      BY <1>1, <1>4, <2>1, AnswerLeaves DEF ServerError, Refuse, Discard
    <2>3. QED
      BY <1>1, <2>1, <2>2 DEF Fails
  <1>5. QED
    BY <1>2, <1>3, <1>4 DEF ServiceStep

LEMMA Kinds ==
    ASSUME IInv, OutcomesKnown, [Next]_vars
    PROVE  \/ \E f \in Flows : FlowMoves(f)
           \/ \E f \in Flows, op \in Remote, k \in Attempts : Executes(f, op, k) \/ Fails(f, op, k)
           \/ NothingMoves
  <1>1. CASE UNCHANGED vars \/ \E e \in Events : DeleteEvent(e)
    BY <1>1 DEF vars, DeleteEvent, Inventory!DeleteEvent, bookingVars, clientVars, flowVars,
       historyVars, inventoryVars, NothingMoves, ServicesRest
  <1>2. QED
    BY <1>1, CommonKinds, BookingHearsKind, BookingWritesKind, CancelWritesKind, ServiceKinds
       DEF Next, FlowStep, BookStep

-------------------------------------------------------------------------------
(* One request at a time, and one release.                                  *)

NoRequest(f) == \A op \in Remote, k \in Attempts : <<f, op, k>> \notin inFlight

LEMMA Unheard ==
    ASSUME NEW f \in Flows, OneRequest(f), pc[f] # "crashed",
           answer[f] # "waiting" \/ pc[f] \notin Remote
    PROVE  NoRequest(f)
  BY DEF OneRequest, Awaited, NoRequest

LEMMA RemoteFacts ==
    /\ "release" \in Remote /\ "refund" \in Remote
    /\ "crashed" \notin Remote /\ "done" \notin Remote
    /\ \A step \in Local : step \notin Remote
  BY DEF Remote, Local

LEMMA AnswerFacts ==
    /\ "waiting" \notin Codes \cup Client!Retryable /\ "idle" \notin Codes \cup Client!Retryable
    /\ "ok" \in Codes /\ "ok" \notin Client!Retryable /\ "waiting" # "idle"
    /\ "ok" \notin {"waiting", "idle"}
    /\ {"waiting", "idle"} = Client!Unanswered
  BY DEF Codes, Client!Retryable, Client!Unanswered

(* A call comes back with no request of it left.                            *)
LEMMA HeardQuiet ==
    ASSUME NEW f \in Flows, OneRequest(f), Heard(f), pc[f] \in Remote
    PROVE  NoRequest(f)
  BY Unheard, RemoteFacts, AnswerFacts DEF Heard

LEMMA QuietStays ==
    ASSUME NEW f \in Flows, NoRequest(f), inFlight' = inFlight,
           pc'[f] \notin Remote => answer'[f] = "idle"
    PROVE  OneRequest(f)'
  BY DEF OneRequest, NoRequest

LEMMA OneRequestKept ==
    ASSUME NEW g \in Flows, OneRequest(g), Stays(g), Waits(g),
           \A op \in Remote, k \in Attempts : <<g, op, k>> \in inFlight' => <<g, op, k>> \in inFlight
    PROVE  OneRequest(g)'
  BY DEF OneRequest, Stays, Waits, Awaited

LEMMA OneRequestMoves ==
    ASSUME IInv, NEW f \in Flows, FlowMoves(f), NEW g \in Flows, OneRequest(g)
    PROVE  OneRequest(g)'
  <1>1. CASE g # f
    <2>1. Stays(g) /\ Waits(g)
      BY <1>1 DEF FlowMoves, OthersStay
    <2>2. inFlight' = inFlight \/ inFlight' = inFlight \cup {<<f, pc[f], attempt[f]>>}
      BY DEF FlowMoves, Sends, Repeats, Crashes, Unwinds, Heard, BookingHears,
         BookingWrites, CancelWrites
    <2>3. QED
      BY <1>1, <2>1, <2>2, OneRequestKept
  <1>2. CASE g = f
    <2>1. CASE Sends(f)
      <3>1. NoRequest(f)
        BY <1>2, <2>1, Unheard, RemoteFacts, AnswerFacts DEF Sends
      <3>2. \A op \in Remote, k \in Attempts : <<f, op, k>> \in inFlight' =>
                op = pc[f] /\ k = attempt[f]
        BY <2>1, <3>1 DEF Sends, NoRequest
      <3>3. QED
        BY <1>2, <2>1, <3>2 DEF Sends, Stays, OneRequest, Awaited
    <2>2. CASE Repeats(f)
      BY <1>2, <2>2, Unheard, RemoteFacts, AnswerFacts, QuietStays DEF Repeats, Stays, OneRequest
    <2>4. CASE Crashes(f)
      BY <1>2, <2>4 DEF Crashes, OneRequest
    <2>5. CASE Unwinds(f) \/ (f \in Bookings /\ BookingHears(f))
      <3>1. NoRequest(f)
        BY <1>2, <2>5, HeardQuiet DEF Unwinds, BookingHears, Remote
      <3>2. inFlight' = inFlight /\ answer'[f] = "idle"
        BY <2>5 DEF Unwinds, BookingHears, Heard
      <3>3. QED
        BY <1>2, <3>1, <3>2, QuietStays DEF OneRequest
    <2>6. CASE (f \in Bookings /\ BookingWrites(f)) \/ (f \in Cancels /\ CancelWrites(f))
      <3>1. pc[f] \in Local /\ Waits(f) /\ inFlight' = inFlight
        BY <2>6 DEF BookingWrites, CancelWrites, Local
      <3>2. NoRequest(f) /\ answer[f] = "idle"
        BY <1>2, <3>1, Unheard, RemoteFacts DEF OneRequest, Local
      <3>3. QED
        BY <1>2, <3>1, <3>2, QuietStays DEF OneRequest, Waits
    <2>7. QED
      BY <2>1, <2>2, <2>4, <2>5, <2>6 DEF FlowMoves
  <1>3. QED
    BY <1>1, <1>2

LEMMA OneRequestLeaves ==
    ASSUME NEW f \in Flows, NEW op \in Remote, NEW k \in Attempts, NEW code, Leaves(f, op, k, code),
           NEW g \in Flows, OneRequest(g)
    PROVE  OneRequest(g)'
  <1>1. CASE g = f /\ Awaited(f, op, k)
    <2>1. \A p \in Remote, j \in Attempts : <<f, p, j>> \notin inFlight'
      <3>1. SUFFICES ASSUME NEW p \in Remote, NEW j \in Attempts, <<f, p, j>> \in inFlight'
                     PROVE  FALSE
        OBVIOUS
      <3>2. <<f, p, j>> \in inFlight /\ <<f, p, j>> # <<f, op, k>>
        BY <3>1 DEF Leaves
      <3>3. pc[f] = op /\ attempt[f] = k /\ pc[f] # "crashed"
        BY <1>1, RemoteFacts DEF Awaited
      <3>4. pc[f] = p /\ attempt[f] = j
        BY <1>1, <3>2, <3>3 DEF OneRequest, Awaited
      <3>5. QED
        BY <3>2, <3>3, <3>4
    <2>2. pc'[f] \in Remote
      BY <1>1 DEF Leaves, Awaited
    <2>3. QED
      BY <1>1, <2>1, <2>2 DEF OneRequest, Leaves
  <1>2. CASE g # f \/ ~Awaited(f, op, k)
    BY <1>2, OneRequestKept DEF Leaves, Stays, Waits
  <1>3. QED
    BY <1>1, <1>2

LEMMA OneRequestStep ==
    ASSUME IInv, OutcomesKnown, [Next]_vars, NEW g \in Flows, OneRequest(g)
    PROVE  OneRequest(g)'
  <1>1. CASE \E f \in Flows : FlowMoves(f)
    BY <1>1, OneRequestMoves
  <1>2. CASE \E f \in Flows, op \in Remote, k \in Attempts : Executes(f, op, k) \/ Fails(f, op, k)
    BY <1>2, OneRequestLeaves DEF Executes, Fails
  <1>3. CASE NothingMoves
    BY <1>3, OneRequestKept DEF NothingMoves, Stays, Waits
  <1>4. QED
    BY <1>1, <1>2, <1>3, Kinds

LEMMA CancelKnowsStep ==
    ASSUME IInv, OutcomesKnown, [Next]_vars, NEW c \in Cancels, CancelKnows(c)
    PROVE  CancelKnows(c)'
  <1>1. c \in Flows /\ c \notin Bookings /\ CancelInv(c)
    BY SagaAssumption DEF Flows, IInv
  <1>2. ASSUME Stays(c),
               \A op \in {"release", "notify"}, k \in Attempts :
                   <<c, op, k>> \in inFlight' => <<c, op, k>> \in inFlight \/ pc[c] = op
        PROVE  CancelKnows(c)'
    BY <1>2 DEF CancelKnows, Stays
  <1>3. ASSUME NEW f \in Flows, FlowMoves(f) PROVE CancelKnows(c)'
    <2>1. inFlight' = inFlight \/ inFlight' = inFlight \cup {<<f, pc[f], attempt[f]>>}
      BY <1>3 DEF FlowMoves, Sends, Repeats, Crashes, Unwinds, Heard, BookingHears,
         BookingWrites, CancelWrites
    <2>2. CASE f # c
      BY <1>1, <1>2, <1>3, <2>1, <2>2 DEF FlowMoves, OthersStay
    <2>3. CASE f = c /\ (Sends(c) \/ Repeats(c))
      BY <1>2, <2>1, <2>3 DEF Sends, Repeats
    <2>4. CASE f = c /\ (Crashes(c) \/ Unwinds(c) \/ CancelWrites(c))
      BY <2>4 DEF Crashes, Unwinds, Heard, CancelWrites, CancelKnows
    <2>5. QED
      BY <1>1, <1>3, <2>2, <2>3, <2>4 DEF FlowMoves
  <1>4. CASE \E f \in Flows, op \in Remote, k \in Attempts : Executes(f, op, k) \/ Fails(f, op, k)
    BY <1>2, <1>4 DEF Executes, Fails, Leaves, Stays
  <1>5. CASE NothingMoves
    BY <1>2, <1>5 DEF NothingMoves, Stays
  <1>6. QED
    BY <1>3, <1>4, <1>5, Kinds

(* A flow on its way to give back what the booking holds.                   *)
Unwinder(f) ==
    \/ f \in Bookings /\ path[f] # "booking"
    \/ f \in Cancels /\ charged[f] # NoPayment

LEMMA FlowFacts ==
    ASSUME NEW f \in Flows
    PROVE  /\ BookingOf(f) \in Bookings /\ BookingOf(f) \in Flows
           /\ f \in FlowsOf(BookingOf(f))
           /\ f \in Bookings => BookingOf(f) = f /\ f \notin Cancels
           /\ f \in Cancels => BookingOf(f) = TargetOf[f] /\ f \notin Bookings
           /\ f \in Bookings \/ f \in Cancels
  BY SagaAssumption DEF Flows, BookingOf, FlowsOf

(* A booking is unwound by one flow: by its own, which did not confirm it,  *)
(* or by the one cancellation that got past the guard.                      *)
LEMMA OneUnwinder ==
    ASSUME IInv, OutcomesKnown, NEW f \in Flows, NEW g \in Flows,
           BookingOf(f) = BookingOf(g), Unwinder(f), Unwinder(g)
    PROVE  f = g
  <1>1. ASSUME NEW b \in Bookings, Unwinder(b) PROVE status[b] # "CANCELLED"
    BY <1>1, FlowFacts, NobodyGivesUp DEF IInv, BookingInv, UnwindsCleanly, Unwinder, Flows
  <1>2. ASSUME NEW c \in Cancels, Unwinder(c) PROVE status[TargetOf[c]] = "CANCELLED"
    BY <1>2, FlowFacts DEF IInv, CancelInv, Unwinder, Flows
  <1>3. ASSUME NEW c \in Cancels, NEW d \in Cancels, Unwinder(c), Unwinder(d),
               TargetOf[c] = TargetOf[d]
        PROVE  c = d
    BY <1>3, FlowFacts DEF IInv, CancelInv, Unwinder, Flows
  <1>4. QED
    BY <1>1, <1>2, <1>3, FlowFacts

LEMMA UnwinderFacts ==
    ASSUME IInv, NEW f \in Flows, f \in Cancels => CancelKnows(f)
    PROVE  /\ pc[f] \in {"refund", "release"} => Unwinder(f)
           /\ \A k \in Attempts : <<f, "refund", k>> \in inFlight \/ <<f, "release", k>> \in inFlight
                  => Unwinder(f)
  <1>1. CASE f \in Bookings
    <2>1. BookingInv(f) /\ \A k \in Attempts : RequestInv(f, k)
      BY <1>1 DEF IInv
    <2>2. QED
      BY <1>1, <2>1 DEF BookingInv, FlowShape, RequestInv, Unwinder
  <1>2. CASE f \in Cancels
    <2>1. \A k \in Attempts : RequestInv(f, k)
      BY DEF IInv
    <2>2. QED
      BY <1>2, <2>1 DEF RequestInv, CancelKnows, Unwinder
  <1>3. QED
    BY <1>1, <1>2, FlowFacts

(* Where a flow is that is not the booking's unwinder, while the booking    *)
(* has one.                                                                 *)
LEMMA BystanderFacts ==
    ASSUME IInv, OutcomesKnown, \A c \in Cancels : CancelKnows(c),
           NEW f \in Flows, NEW g \in Flows, BookingOf(f) = BookingOf(g), Unwinder(f), g # f
    PROVE  /\ pc[g] \in {"notify", "markCancelled"} \cup Ended
           /\ \A op \in {"refund", "release"}, k \in Attempts : <<g, op, k>> \notin inFlight
  <1>1. ~Unwinder(g)
    BY OneUnwinder
  <1>2. /\ pc[g] \notin {"refund", "release"}
        /\ \A op \in {"refund", "release"}, k \in Attempts : <<g, op, k>> \notin inFlight
    BY <1>1, UnwinderFacts
  <1>3. CASE g \in Cancels
    BY <1>2, <1>3 DEF IInv, CancelInv, Ended
  <1>4. CASE g \in Bookings
    <2>1. BookingInv(g) /\ TypeOK /\ f \in Cancels /\ TargetOf[f] = g /\ CancelInv(f)
      BY <1>4, FlowFacts DEF IInv
    <2>2. status[g] = "CANCELLED"
      BY <2>1, FlowFacts DEF Unwinder, CancelInv
    <2>3. pc[g] \notin {"getEvent", "reserve", "create", "charge", "confirm", "markCancelled", "markFailed"}
      BY <1>1, <1>4, <2>1, <2>2 DEF BookingInv, RowFollowsFlow, FlowShape, Unwinder
    <2>4. pc[g] \in Remote \cup Local \cup Ended
      BY <2>1 DEF TypeOK, Ended
    <2>5. QED
      BY <1>2, <2>3, <2>4 DEF Remote, Local
  <1>5. QED
    BY <1>2, <1>3, <1>4, FlowFacts

LEMMA MovesInFlight ==
    ASSUME NEW f \in Flows, FlowMoves(f)
    PROVE  \/ inFlight' = inFlight
           \/ Sends(f) /\ inFlight' = inFlight \cup {<<f, pc[f], attempt[f]>>}
  BY DEF FlowMoves, Sends, Repeats, Crashes, Unwinds, Heard, BookingHears,
     BookingWrites, CancelWrites

(* Where a flow of a booking stands once its seats have been returned.      *)
DoneReleasing(f) ==
    /\ pc[f] \in {"release", "notify", "markCancelled"} \cup Ended
    /\ pc[f] = "release" => answer[f] = "ok"
    /\ \A op \in {"refund", "release"}, k \in Attempts : <<f, op, k>> \notin inFlight

LEMMA DoneReleasingKept ==
    ASSUME NEW f \in Flows, DoneReleasing(f), Stays(f), pc[f] = "release" => answer'[f] = answer[f],
           \A op \in {"refund", "release"}, k \in Attempts :
               <<f, op, k>> \in inFlight' => <<f, op, k>> \in inFlight
    PROVE  DoneReleasing(f)'
  BY DEF DoneReleasing, Stays

LEMMA ReleasedOnceMoves ==
    ASSUME IInv, OutcomesKnown, OnceInv, NEW f \in Flows, FlowMoves(f), NEW b \in Bookings
    PROVE  ReleasedOnce(b)'
  <1>1. /\ TypeOK /\ BookingInv(b) /\ ReleasedOnce(b) /\ b \in Flows
        /\ reserved' = reserved /\ released' = released /\ released[b] \in Nat
    BY DEF IInv, OnceInv, TypeOK, Flows, FlowMoves, ServicesRest
  <1>2. path'[b] # "booking" => reserved[b] > 0
    <2>1. CASE f = b
      <3>1. CASE path'[b] # path[b]
        <4>1. pc[b] \in {"charge", "create", "confirm"}
          BY <2>1, <3>1, FlowFacts DEF FlowMoves, Sends, Repeats, Crashes, Unwinds,
             BookingHears, BookingWrites, Stays
        <4>2. QED
          BY <1>1, <4>1 DEF BookingInv, RowFollowsFlow, SeatsThenRowThenMoney
      <3>2. QED
        BY <1>1, <3>1 DEF ReleasedOnce
    <2>2. CASE f # b
      BY <1>1, <2>2 DEF FlowMoves, OthersStay, Stays, ReleasedOnce
    <2>3. QED
      BY <2>1, <2>2
  <1>3. ASSUME released[b] > 0, NEW h \in FlowsOf(b) PROVE DoneReleasing(h)'
    <2>1. h \in Flows /\ BookingOf(h) = b /\ DoneReleasing(h)
      BY <1>1, <1>3 DEF FlowsOf, ReleasedOnce, DoneReleasing
    <2>2. CASE h # f
      <3>1. Stays(h) /\ Waits(h)
        BY <2>1, <2>2 DEF FlowMoves, OthersStay
      <3>2. QED
        BY <2>1, <2>2, <3>1, MovesInFlight, DoneReleasingKept DEF Waits
    <2>3. CASE h = f /\ Sends(f)
      <3>1. pc[f] = "notify"
        BY <2>1, <2>3 DEF DoneReleasing, Sends, Remote, Ended
      <3>2. QED
        BY <2>1, <2>3, <3>1, DoneReleasingKept DEF Sends
    <2>4. CASE h = f /\ Repeats(f)
      BY <2>1, <2>4, AnswerFacts, DoneReleasingKept DEF DoneReleasing, Repeats
    <2>5. CASE h = f /\ Crashes(f)
      BY <2>1, <2>5 DEF DoneReleasing, Crashes, Ended
    <2>6. CASE h = f /\ Unwinds(f)
      BY <2>1, <2>6 DEF DoneReleasing, Unwinds, Heard, Ended
    <2>7. CASE h = f /\ f \in Bookings /\ (BookingHears(f) \/ BookingWrites(f))
      BY <2>1, <2>7, FlowFacts DEF DoneReleasing, BookingHears, BookingWrites, Ended
    <2>8. CASE h = f /\ f \in Cancels /\ CancelWrites(f)
      <3>1. status[b] # "CONFIRMED"
        BY <1>1, <1>3, NobodyGivesUp DEF BookingInv, UnwindsCleanly
      <3>2. TargetOf[f] = b
        BY <2>1, <2>8, FlowFacts
      <3>3. QED
        BY <2>1, <2>8, <3>1, <3>2 DEF DoneReleasing, CancelWrites, Ended
    <2>9. QED
      BY <2>2, <2>3, <2>4, <2>5, <2>6, <2>7, <2>8 DEF FlowMoves
  <1>4. path'[b] = "persistFailed" => released[b] = 0
    <2>1. CASE path'[b] = path[b]
      BY <1>1, <2>1 DEF ReleasedOnce
    <2>2. CASE path'[b] = "persistFailed" /\ path'[b] # path[b]
      <3>1. f = b
        BY <1>1, <2>2 DEF FlowMoves, OthersStay, Stays
      <3>2. pc[b] = "create"
        BY <2>2, <3>1, FlowFacts DEF FlowMoves, Sends, Repeats, Crashes, Unwinds,
           BookingHears, BookingWrites, Stays
      <3>3. ~DoneReleasing(b)
        BY <3>2 DEF DoneReleasing, Ended
      <3>4. QED
        BY <1>1, <3>1, <3>3, FlowFacts DEF ReleasedOnce, DoneReleasing
    <2>3. QED
      BY <2>1, <2>2
  <1>5. QED
    BY <1>1, <1>2, <1>3, <1>4 DEF ReleasedOnce, DoneReleasing, FlowsOf

(* Requests that leave the network without moving seats.                    *)
LEMMA ReleasedOnceKept ==
    ASSUME NEW b \in Bookings, ReleasedOnce(b), TypeOK,
           UNCHANGED <<pc, path, charged>>, released' = released,
           reserved[b] > 0 => reserved'[b] > 0,
           inFlight' \subseteq inFlight,
           \A g \in Flows : pc[g] = "release" /\ answer[g] = "ok" => answer'[g] = "ok"
    PROVE  ReleasedOnce(b)'
  <1>1. ASSUME NEW h \in FlowsOf(b), DoneReleasing(h) PROVE DoneReleasing(h)'
    BY <1>1 DEF DoneReleasing, FlowsOf
  <1>2. QED
    BY <1>1 DEF ReleasedOnce, DoneReleasing, FlowsOf

LEMMA LeavesAnswer ==
    ASSUME NEW f \in Flows, NEW op, NEW k, NEW code, Leaves(f, op, k, code)
    PROVE  /\ UNCHANGED <<pc, path, charged, hungUp, status, paymentOf>>
           /\ inFlight' \subseteq inFlight
           /\ \A g \in Flows : answer[g] # "waiting" => answer'[g] = answer[g]
  BY DEF Leaves, Awaited

LEMMA ReleasedOnceLeaves ==
    ASSUME IInv, OutcomesKnown, OnceInv, NEW b \in Bookings,
           NEW f \in Flows, NEW op \in Remote, NEW k \in Attempts, NEW code,
           Leaves(f, op, k, code),
           \/ SeatsStay
           \/ op = "reserve" /\ code = "ok" /\ SeatsTaken(BookingOf(f))
           \/ op = "release" /\ code = "ok" /\ NamesEvent(f) /\ SeatsReturned(BookingOf(f))
    PROVE  ReleasedOnce(b)'
  <1>1. /\ TypeOK /\ ReleasedOnce(b) /\ BookingInv(b)
        /\ reserved \in [Bookings -> Nat] /\ released \in [Bookings -> Nat]
    BY DEF IInv, OnceInv, TypeOK
  <1>2. CASE SeatsStay \/ SeatsTaken(BookingOf(f))
    BY <1>1, <1>2, LeavesAnswer, AnswerFacts, ReleasedOnceKept, FlowFacts DEF SeatsStay, SeatsTaken
  <1>3. CASE op = "release" /\ code = "ok" /\ NamesEvent(f) /\ SeatsReturned(BookingOf(f)) /\ BookingOf(f) # b
    <2>1. released'[b] = released[b] /\ reserved' = reserved
      BY <1>1, <1>3, FlowFacts DEF SeatsReturned
    <2>2. ASSUME NEW h \in FlowsOf(b), DoneReleasing(h) PROVE DoneReleasing(h)'
      <3>1. h \in Flows /\ h # f
        BY <1>3 DEF FlowsOf
      <3>2. QED
        BY <2>2, <3>1, LeavesAnswer, DoneReleasingKept DEF Leaves, Stays
    <2>3. QED
      BY <1>1, <2>1, <2>2, LeavesAnswer DEF ReleasedOnce, DoneReleasing, FlowsOf
  <1>4. CASE op = "release" /\ code = "ok" /\ NamesEvent(f) /\ SeatsReturned(BookingOf(f)) /\ BookingOf(f) = b
    <2>1. <<f, "release", k>> \in inFlight /\ Unwinder(f)
      BY <1>4, UnwinderFacts DEF Leaves, OnceInv
    <2>2. released[b] = 0
      BY <1>1, <1>4, <2>1, RemoteFacts DEF ReleasedOnce, FlowsOf
    <2>3. released'[b] = 1 /\ reserved' = reserved
      BY <1>1, <1>4, <2>2 DEF SeatsReturned
    <2>4. reserved[b] > 0
      <3>1. CASE f \in Bookings
        BY <1>1, <1>4, <2>1, <3>1, FlowFacts DEF Unwinder, ReleasedOnce
      <3>2. CASE f \in Cancels
        <4>1. status[b] = "CANCELLED"
          BY <1>4, <2>1, <3>2, FlowFacts DEF Unwinder, IInv, CancelInv
        <4>2. QED
          BY <1>1, <4>1 DEF BookingInv, SeatsThenRowThenMoney
      <3>3. QED
        BY <3>1, <3>2, FlowFacts
    <2>5. ASSUME NEW h \in FlowsOf(b) PROVE DoneReleasing(h)'
      <3>1. h \in Flows /\ BookingOf(h) = BookingOf(f)
        BY <1>4 DEF FlowsOf
      <3>2. CASE h = f
        <4>1. pc[f] = "release" \/ pc[f] = "crashed"
          BY <1>4, <2>1, RemoteFacts DEF OnceInv, OneRequest, Awaited
        <4>2. pc[f] = "release" => answer'[f] = "ok"
          BY <1>4, <2>1, RemoteFacts DEF OnceInv, OneRequest, Awaited, Leaves
        <4>3. \A p \in Remote, j \in Attempts : <<f, p, j>> \notin inFlight'
          BY <1>4, <2>1, RemoteFacts DEF OnceInv, OneRequest, Leaves
        <4>4. UNCHANGED pc
          BY LeavesAnswer
        <4>5. \A p \in {"refund", "release"}, j \in Attempts : <<f, p, j>> \notin inFlight'
          BY <4>3, RemoteFacts
        <4>6. QED
          BY <3>2, <4>1, <4>2, <4>4, <4>5 DEF DoneReleasing, Ended
      <3>3. CASE h # f
        <4>1. /\ pc[h] \in {"notify", "markCancelled"} \cup Ended
              /\ \A p \in {"refund", "release"}, j \in Attempts : <<h, p, j>> \notin inFlight
          BY <2>1, <3>1, <3>3, BystanderFacts DEF OnceInv
        <4>2. QED
          BY <4>1, LeavesAnswer DEF DoneReleasing, Ended
      <3>4. QED
        BY <3>2, <3>3
    <2>6. path'[b] # "persistFailed"
      <3>1. path'[b] = path[b] /\ b \in Flows
        BY LeavesAnswer DEF Flows
      <3>2. CASE f = b
        BY <1>4, <3>1, <3>2 DEF NamesEvent
      <3>3. CASE f # b
        <4>1. BookingOf(b) = b /\ ~Unwinder(b)
          BY <1>4, <2>1, <3>1, <3>3, OneUnwinder DEF BookingOf
        <4>2. QED
          BY <3>1, <4>1 DEF Unwinder
      <3>4. QED
        BY <3>2, <3>3
    <2>7. QED
      BY <2>3, <2>4, <2>5, <2>6 DEF ReleasedOnce, DoneReleasing, FlowsOf
  <1>5. QED
    BY <1>2, <1>3, <1>4

LEMMA InitOnce == Init => OnceInv
  <1>1. SUFFICES ASSUME Init PROVE OnceInv
    OBVIOUS
  <1>2. inFlight = {} /\ answer = [f \in Flows |-> "idle"]
    BY <1>1 DEF Init, Client!ClientInit
  <1>3. ASSUME NEW f \in Flows PROVE OneRequest(f)
    BY <1>1, <1>2, <1>3 DEF Init, OneRequest
  <1>4. ASSUME NEW c \in Cancels PROVE CancelKnows(c)
    BY <1>1, <1>2, <1>4, SagaAssumption DEF Init, CancelKnows, Flows
  <1>5. ASSUME NEW b \in Bookings PROVE ReleasedOnce(b)
    BY <1>1, <1>2, <1>5 DEF Init, ReleasedOnce, Flows
  <1>6. QED
    BY <1>3, <1>4, <1>5 DEF OnceInv

LEMMA NextOnce == IInv /\ OutcomesKnown /\ OnceInv /\ [Next]_vars => OnceInv'
  <1>1. SUFFICES ASSUME IInv, OutcomesKnown, OnceInv, [Next]_vars PROVE OnceInv'
    OBVIOUS
  <1>2. ASSUME NEW f \in Flows PROVE OneRequest(f)'
    BY <1>1, OneRequestStep DEF OnceInv
  <1>3. ASSUME NEW c \in Cancels PROVE CancelKnows(c)'
    BY <1>1, CancelKnowsStep DEF OnceInv
  <1>4. ASSUME NEW b \in Bookings PROVE ReleasedOnce(b)'
    <2>1. CASE \E f \in Flows : FlowMoves(f)
      BY <1>1, <2>1, ReleasedOnceMoves
    <2>2. ASSUME NEW f \in Flows, NEW op \in Remote, NEW k \in Attempts,
                 Executes(f, op, k) \/ Fails(f, op, k)
          PROVE  ReleasedOnce(b)'
      <3>1. CASE Executes(f, op, k)
        <4>1. PICK code \in Codes : Execute(f, op, k, code) /\ Leaves(f, op, k, code)
          BY <3>1 DEF Executes
        <4>2. TypeOK
          BY <1>1 DEF IInv
        <4>3. QED
          BY <1>1, <4>1, <4>2, ExecuteMoves, ReleasedOnceLeaves
      <3>2. CASE Fails(f, op, k)
        BY <1>1, <3>2, ReleasedOnceLeaves DEF Fails, ServicesRest, SeatsStay
      <3>3. QED
        BY <2>2, <3>1, <3>2
    <2>3. CASE NothingMoves
      BY <1>1, <2>3, ReleasedOnceKept DEF NothingMoves, ServicesRest, OnceInv, IInv
    <2>4. QED
      BY <1>1, <2>1, <2>2, <2>3, Kinds
  <1>5. QED
    BY <1>2, <1>3, <1>4 DEF OnceInv

LEMMA OnceInvariance == OutcomesKnown => (Spec => []OnceInv)
  <1>1. OutcomesKnown /\ IInv /\ OnceInv /\ [Next]_vars => OnceInv'
    BY NextOnce
  <1>2. SUFFICES ASSUME OutcomesKnown PROVE Spec => []OnceInv
    OBVIOUS
  <1>3. IInv /\ OnceInv /\ [Next]_vars => OnceInv'
    BY <1>1, <1>2
  <1>4. QED
    BY InitOnce, <1>3, Invariance, PTL DEF Spec

-------------------------------------------------------------------------------
(* No event is oversold.                                                    *)

(* The seats of bookings that hold them fit in what is not on sale.         *)
LEMMA Room ==
    ASSUME TypeOK, SeatsCounted, OnceInv, NEW e \in Events, NEW holds \in [Bookings -> {0, 1}],
           \A b \in Bookings : holds[b] = 1 => reserved[b] > 0 /\ released[b] = 0
    PROVE  /\ IsFiniteSet(SeatsFor(e, holds))
           /\ available[e] + Cardinality(SeatsFor(e, holds)) <= Capacity[e]
  <1> DEFINE H == SeatsFor(e, holds)
             R == SeatsFor(e, released)
             T == SeatsFor(e, reserved)
  <1>1. /\ IsFiniteSet(R) /\ IsFiniteSet(T)
        /\ available[e] + Cardinality(T) = Capacity[e] + Cardinality(R)
        /\ available[e] \in Int /\ Capacity[e] \in Nat
    BY SagaAssumption DEF SeatsCounted, SeatsConserved, TypeOK, Inventory!InventoryTypeOK
  <1>2. \A b \in Bookings :
            /\ reserved[b] \in Nat /\ released[b] \in Nat /\ holds[b] \in {0, 1}
            /\ released[b] <= 1 /\ (released[b] > 0 => reserved[b] > 0)
    BY DEF TypeOK, OnceInv, ReleasedOnce
  <1>3. \A b \in Bookings : 1..holds[b] \subseteq 1..reserved[b] /\ 1..released[b] \subseteq 1..reserved[b]
    BY <1>2
  <1>4. \A b \in Bookings : (1..holds[b]) \cap (1..released[b]) = {}
    BY <1>2
  <1>5. H \subseteq T /\ R \subseteq T
    <2>1. ASSUME NEW s, s \in H \/ s \in R PROVE s \in T
      <3>1. PICK b \in Bookings :
                /\ EventOf[b] = e
                /\ \/ s \in ({b} \X (1..holds[b])) \X (1..SeatsOf[b])
                   \/ s \in ({b} \X (1..released[b])) \X (1..SeatsOf[b])
        BY <2>1, SeatsForMember
      <3>2. s \in ({b} \X (1..reserved[b])) \X (1..SeatsOf[b])
        BY <1>3, <3>1
      <3>3. QED
        BY <3>1, <3>2, SeatsForMember
    <2>2. QED
      BY <2>1
  <1>6. H \cap R = {}
    <2>1. ASSUME NEW s \in H, s \in R PROVE FALSE
      <3>1. PICK b \in Bookings : s \in ({b} \X (1..holds[b])) \X (1..SeatsOf[b])
        BY <2>1, SeatsForMember
      <3>2. PICK a \in Bookings : s \in ({a} \X (1..released[a])) \X (1..SeatsOf[a])
        BY <2>1, SeatsForMember
      <3>3. a = b /\ s[1][2] \in 1..holds[b] /\ s[1][2] \in 1..released[b]
        BY <3>1, <3>2
      <3>4. QED
        BY <1>4, <3>3
    <2>2. QED
      BY <2>1
  <1> HIDE DEF H, R, T
  <1>7. IsFiniteSet(H)
    BY <1>1, <1>5, FS_Subset
  <1>8. /\ Cardinality(H \cup R) = Cardinality(H) + Cardinality(R)
        /\ Cardinality(H) \in Nat /\ Cardinality(R) \in Nat
    BY <1>1, <1>6, <1>7, DisjointUnion
  <1>9. H \cup R \in SUBSET T
    BY <1>5
  <1>10. Cardinality(H \cup R) <= Cardinality(T) /\ Cardinality(T) \in Nat
    BY <1>1, <1>9, FS_Subset, FS_CardinalityType
  <1>11. available[e] + Cardinality(H) <= Capacity[e]
    BY <1>1, <1>8, <1>10
  <1>12. QED
    BY <1>7, <1>11 DEF H

(* As long as every caller learns what became of its request and of its     *)
(* statement - nobody times out or hangs up on one that may still be        *)
(* executed, and no error hides a commit - no event is sold twice over,     *)
(* though services and tables fail, processes die and events are deleted.   *)
THEOREM NeverOversold == OutcomesKnown => (Spec => []NoOverselling)
  <1>1. OutcomesKnown /\ IInv /\ OnceInv /\ SeatsCounted => NoOverselling
    <2>1. SUFFICES ASSUME OutcomesKnown, IInv, OnceInv, SeatsCounted, NEW e \in Events
                   PROVE  Cardinality(SeatsFor(e, Confirmations)) <= Capacity[e]
      BY DEF NoOverselling
    <2>2. Confirmations \in [Bookings -> {0, 1}]
      BY DEF Confirmations
    <2>3. \A b \in Bookings : Confirmations[b] = 1 => reserved[b] > 0 /\ released[b] = 0
      BY <2>1, InvBacked, NobodyGivesUp DEF Confirmations, ConfirmedIsBacked
    <2>4. /\ IsFiniteSet(SeatsFor(e, Confirmations))
          /\ available[e] + Cardinality(SeatsFor(e, Confirmations)) <= Capacity[e]
      BY <2>1, <2>2, <2>3, Room DEF IInv
    <2>5. /\ available[e] \in Nat /\ Capacity[e] \in Nat
          /\ Cardinality(SeatsFor(e, Confirmations)) \in Nat
      BY <2>1, <2>4, FS_CardinalityType, SagaAssumption DEF IInv, TypeOK, Inventory!InventoryTypeOK
    <2>6. QED
      BY <2>4, <2>5
  <1>2. SUFFICES ASSUME OutcomesKnown PROVE Spec => []NoOverselling
    OBVIOUS
  <1>3. IInv /\ OnceInv /\ SeatsCounted => NoOverselling
    BY <1>1, <1>2
  <1>4. Spec => []OnceInv
    BY <1>2, OnceInvariance
  <1>5. QED
    BY <1>3, <1>4, Invariance, CountInvariance, PTL

-------------------------------------------------------------------------------
(* Everything once: when, besides, unwinding gets through.                  *)

Ground == OutcomesKnown /\ IInv /\ OnceInv

LEMMA GroundFacts ==
    ASSUME Ground
    PROVE  /\ TypeOK /\ NoHiddenCommits
           /\ \A f \in Flows : OneRequest(f)
           /\ \A b \in Bookings : BookingInv(b) /\ ReleasedOnce(b)
           /\ \A c \in Cancels : CancelInv(c) /\ CancelKnows(c)
  BY NobodyGivesUp DEF Ground, IInv, OnceInv

(* The one request of its flow has left: its caller was at that very step,  *)
(* or is dead.                                                              *)
LEMMA Left ==
    ASSUME Ground, NEW f \in Flows, NEW op \in Remote, NEW k \in Attempts, NEW code,
           Leaves(f, op, k, code)
    PROVE  /\ \/ pc[f] = op /\ answer[f] = "waiting" /\ answer'[f] = code
              \/ pc[f] = "crashed"
           /\ \A p \in Remote, j \in Attempts : <<f, p, j>> \notin inFlight'
           /\ \A g \in Flows : g # f => answer'[g] = answer[g]
  <1>1. OneRequest(f)
    BY GroundFacts
  <1>2. <<f, op, k>> \in inFlight
    BY DEF Leaves
  <1>3. Awaited(f, op, k) \/ pc[f] = "crashed"
    BY <1>1, <1>2 DEF OneRequest
  <1>4. \A p \in Remote, j \in Attempts : <<f, p, j>> \notin inFlight'
    BY <1>1, <1>2 DEF OneRequest, Leaves
  <1>5. QED
    BY <1>3, <1>4 DEF Leaves, Awaited

(* What an execution does to the payments.                                  *)
ChargeRuns(f, k, verdict) ==
    /\ <<f, k>> \in PaymentIds
    /\ payment[<<f, k>>] = "none" /\ payment'[<<f, k>>] = verdict
    /\ \A q \in PaymentIds : q # <<f, k>> => payment'[q] = payment[q]

RefundRuns(f) ==
    /\ charged[f] \in PaymentIds
    /\ payment[charged[f]] = "AUTHORIZED" /\ payment'[charged[f]] = "REFUNDED"
    /\ \A q \in PaymentIds : q # charged[f] => payment'[q] = payment[q]

LEMMA ExecutePays ==
    ASSUME IInv, NEW f \in Flows, NEW op \in Remote, NEW k \in Attempts, NEW code,
           <<f, op, k>> \in inFlight, Execute(f, op, k, code)
    PROVE  \/ payment' = payment /\ ~(op = "charge" /\ code = "ok")
              /\ ~(op = "refund" /\ payment[charged[f]] = "AUTHORIZED")
           \/ /\ op = "charge" /\ f \in Bookings
              /\ \E verdict \in {"AUTHORIZED", "DECLINED"} :
                     ChargeRuns(f, k, verdict) /\ (verdict = "AUTHORIZED" <=> code = "ok")
           \/ op = "refund" /\ code = "ok" /\ RefundRuns(f)
  <1>1. TypeOK /\ RequestInv(f, k)
    BY DEF IInv
  <1>2. CASE op \notin {"charge", "refund"}
    BY <1>2 DEF Execute, ExecuteInventory, ExecutePayment, ExecuteNotify
  <1>3. CASE op = "charge"
    <2>1. f \in Bookings /\ <<f, k>> \in PaymentIds
      BY <1>1, <1>3 DEF RequestInv, PaymentIds
    <2>2. PaymentsOf!Charge(<<f, k>>, EventOf[f] \notin FreeEvents, code)
      BY <1>3 DEF Execute, ExecuteInventory, ExecutePayment, ExecuteNotify
    <2>3. CASE payment' = payment /\ code = "validation_failed"
      BY <1>3, <2>3
    <2>4. ASSUME NEW verdict \in Verdicts, payment[<<f, k>>] = "none",
                 payment' = [payment EXCEPT ![<<f, k>>] = verdict],
                 code = IF verdict = "DECLINED" THEN "payment_declined" ELSE "ok"
          PROVE  /\ verdict \in {"AUTHORIZED", "DECLINED"}
                 /\ ChargeRuns(f, k, verdict) /\ (verdict = "AUTHORIZED" <=> code = "ok")
      BY <1>1, <2>1, <2>4, PaymentElsewhere, SagaAssumption DEF ChargeRuns
    <2>5. QED
      BY <1>3, <2>1, <2>2, <2>3, <2>4 DEF PaymentsOf!Charge
  <1>4. CASE op = "refund"
    <2>1. charged[f] \in PaymentIds
      BY <1>1, <1>4 DEF RequestInv, TypeOK
    <2>2. PaymentsOf!Refund(charged[f], code)
      BY <1>4 DEF Execute, ExecuteInventory, ExecutePayment, ExecuteNotify
    <2>3. CASE payment[charged[f]] # "AUTHORIZED"
      BY <1>4, <2>2, <2>3 DEF PaymentsOf!Refund
    <2>4. CASE payment[charged[f]] = "AUTHORIZED"
      <3>1. code = "ok" /\ payment' = [payment EXCEPT ![charged[f]] = "REFUNDED"]
        BY <2>2, <2>4 DEF PaymentsOf!Refund
      <3>2. QED
        BY <1>1, <1>4, <2>1, <2>4, <3>1, PaymentElsewhere DEF RefundRuns
    <2>5. QED
      BY <2>3, <2>4
  <1>5. QED
    BY <1>2, <1>3, <1>4

LEMMA ExecuteTells ==
    ASSUME NEW f \in Flows, NEW op \in Remote, NEW k \in Attempts, NEW code, Execute(f, op, k, code)
    PROVE  \/ told' = told
           \/ op = "notify" /\ told' = [told EXCEPT ![BookingOf(f)] = @ \cup {Message(f)}]
  BY DEF Execute, ExecuteInventory, ExecutePayment, ExecuteNotify

LEMMA ReservedOnceMoves ==
    ASSUME Ground, PaidInv, NEW f \in Flows, FlowMoves(f), NEW b \in Bookings
    PROVE  ReservedOnce(b)'
  <1>1. /\ BookingInv(b) /\ ReservedOnce(b) /\ EndsDecided(b) /\ reserved' = reserved
        /\ b \in Flows /\ BookingOf(b) = b
    BY GroundFacts DEF PaidInv, FlowMoves, ServicesRest, Flows, BookingOf
  <1>2. CASE f # b
    <2>1. /\ Stays(b) /\ Waits(b)
          /\ \A k \in Attempts : <<b, "reserve", k>> \in inFlight' => <<b, "reserve", k>> \in inFlight
      BY <1>1, <1>2, MovesInFlight DEF FlowMoves, OthersStay
    <2>2. status'[b] = "none" => status[b] = "none"
      BY <1>1, <1>2, FlowFacts DEF FlowMoves, OthersStay, RowStays, Sends, Repeats, Crashes,
         Unwinds, Heard, CancelWrites, BookingHears, BookingWrites
    <2>3. QED
      BY <1>1, <2>1, <2>2 DEF ReservedOnce, Stays, Waits
  <1>3. CASE f = b
    <2>1. CASE Sends(b)
      BY <1>1, <2>1, AnswerFacts DEF Sends, Stays, RowStays, ReservedOnce
    <2>2. CASE Repeats(b)
      BY <1>1, <2>2, AnswerFacts DEF Repeats, Stays, RowStays, ReservedOnce
    <2>3. CASE Crashes(b)
      BY <1>1, <2>3 DEF Crashes, ReservedOnce
    <2>4. CASE Unwinds(b)
      BY <1>1, <2>4 DEF Unwinds, Heard, RowStays, ReservedOnce, EndsDecided, BookingInv, FlowShape
    <2>5. CASE BookingHears(b)
      BY <1>1, <2>5, GroundFacts, AnswerFacts DEF BookingHears, Heard, RowStays, ReservedOnce
    <2>6. CASE BookingWrites(b)
      BY <1>1, <2>6 DEF BookingWrites, ReservedOnce
    <2>7. QED
      BY <1>1, <1>3, <2>1, <2>2, <2>3, <2>4, <2>5, <2>6, FlowFacts, GroundFacts DEF FlowMoves
  <1>4. QED
    BY <1>2, <1>3

LEMMA ReservedOnceLeaves ==
    ASSUME Ground, PaidInv, NEW b \in Bookings,
           NEW f \in Flows, NEW op \in Remote, NEW k \in Attempts, NEW code,
           Leaves(f, op, k, code),
           \/ SeatsStay
           \/ op = "reserve" /\ code = "ok" /\ SeatsTaken(BookingOf(f))
           \/ op = "release" /\ code = "ok" /\ NamesEvent(f) /\ SeatsReturned(BookingOf(f))
    PROVE  ReservedOnce(b)'
  <1>1. /\ ReservedOnce(b) /\ b \in Flows /\ reserved \in [Bookings -> Nat]
        /\ <<f, op, k>> \in inFlight /\ RequestInv(f, k)
    BY GroundFacts DEF PaidInv, Flows, TypeOK, Leaves, Ground, IInv
  <1>2. CASE reserved'[b] = reserved[b]
    BY <1>1, <1>2, LeavesAnswer, AnswerFacts DEF ReservedOnce
  <1>3. CASE reserved'[b] # reserved[b]
    <2>1. op = "reserve" /\ code = "ok" /\ f \in Bookings /\ SeatsTaken(BookingOf(f))
      BY <1>1, <1>3 DEF SeatsStay, SeatsReturned, RequestInv
    <2>2. f = b
      BY <1>1, <1>3, <2>1, FlowFacts DEF SeatsTaken
    <2>3. reserved[b] = 0 /\ reserved'[b] = 1
      BY <1>1, <2>1, <2>2, FlowFacts DEF ReservedOnce, SeatsTaken
    <2>4. /\ (pc[b] = "reserve" /\ answer'[b] = "ok") \/ pc[b] = "crashed"
          /\ \A j \in Attempts : <<b, "reserve", j>> \notin inFlight'
      BY <2>1, <2>2, Left
    <2>5. pc' = pc
      BY LeavesAnswer
    <2>6. /\ pc'[b] \notin {"getEvent", "done"}
          /\ ~(pc'[b] = "reserve" /\ answer'[b] # "ok")
      BY <2>4, <2>5
    <2>7. ~ \E j \in Attempts : <<b, "reserve", j>> \in inFlight'
      BY <2>4
    <2>8. reserved'[b] <= 1
      BY <2>3
    <2>9. QED
      BY <2>6, <2>7, <2>8 DEF ReservedOnce
  <1>4. QED
    BY <1>2, <1>3

LEMMA ChargedOnceMoves ==
    ASSUME Ground, PaidInv, NEW f \in Flows, FlowMoves(f), NEW b \in Bookings
    PROVE  ChargedOnce(b)'
  <1>1. /\ BookingInv(b) /\ ChargedOnce(b) /\ payment' = payment
        /\ b \in Flows /\ BookingOf(b) = b /\ OneRequest(b)
    BY GroundFacts DEF PaidInv, FlowMoves, ServicesRest, Flows, BookingOf
  <1>2. status[b] = "none" => Unpaid(b)
    BY <1>1 DEF BookingInv, SeatsThenRowThenMoney, Unpaid
  <1>3. CASE f # b
    <2>1. /\ Stays(b) /\ Waits(b)
          /\ \A k \in Attempts : <<b, "charge", k>> \in inFlight' => <<b, "charge", k>> \in inFlight
      BY <1>1, <1>3, MovesInFlight DEF FlowMoves, OthersStay
    <2>2. QED
      BY <1>1, <2>1 DEF ChargedOnce, Stays, Waits, Unpaid
  <1>4. CASE f = b
    <2>1. CASE Sends(b)
      BY <1>1, <2>1, AnswerFacts DEF Sends, Stays, ChargedOnce, Unpaid, BookingInv, FlowShape
    <2>2. CASE Repeats(b)
      BY <1>1, <2>2, AnswerFacts DEF Repeats, Stays, ChargedOnce, Unpaid
    <2>3. CASE Crashes(b)
      BY <1>1, <2>3 DEF Crashes, ChargedOnce, Unpaid
    <2>4. CASE Unwinds(b)
      BY <1>1, <2>4 DEF Unwinds, Heard, ChargedOnce, Unpaid
    <2>5. CASE BookingHears(b)
      <3>1. \A k \in Attempts : <<b, "charge", k>> \notin inFlight'
        BY <1>1, <2>5, HeardQuiet, GroundFacts DEF BookingHears, Heard, NoRequest, Remote
      <3>2. QED
        BY <1>1, <2>5, <3>1, GroundFacts DEF BookingHears, ChargedOnce, Unpaid
    <2>6. CASE BookingWrites(b)
      <3>1. pc[b] \in Local /\ inFlight' = inFlight /\ Waits(b)
        BY <2>6 DEF BookingWrites, Local
      <3>2. \A k \in Attempts : <<b, "charge", k>> \notin inFlight'
        BY <1>1, <3>1, Unheard, RemoteFacts, GroundFacts DEF NoRequest, Local, Remote
      <3>3. pc[b] = "create" => Unpaid(b)
        BY <1>1, <1>2 DEF BookingInv, RowFollowsFlow
      <3>4. QED
        BY <1>1, <2>6, <3>2, <3>3 DEF BookingWrites, ChargedOnce, Unpaid
    <2>7. QED
      BY <1>1, <1>4, <2>1, <2>2, <2>3, <2>4, <2>5, <2>6, FlowFacts, GroundFacts DEF FlowMoves
  <1>5. QED
    BY <1>3, <1>4

(* The booking a payment belongs to.                                        *)
LEMMA HeldChargeIsOwn ==
    ASSUME IInv, NEW f \in Flows, charged[f] # NoPayment
    PROVE  \E k \in Attempts : charged[f] = <<BookingOf(f), k>>
  <1>1. charged[f] \in PaymentIds
    BY DEF IInv, TypeOK
  <1>2. charged[f][1] = BookingOf(f)
    BY FlowFacts DEF IInv, BookingInv, ChargeIsKnown, CancelInv
  <1>3. QED
    BY <1>1, <1>2, OwnId

LEMMA ChargedOnceLeaves ==
    ASSUME Ground, PaidInv, NEW b \in Bookings,
           NEW f \in Flows, NEW op \in Remote, NEW k \in Attempts, NEW code,
           Leaves(f, op, k, code),
           \/ payment' = payment
           \/ /\ op = "charge" /\ f \in Bookings
              /\ \E verdict \in {"AUTHORIZED", "DECLINED"} :
                     ChargeRuns(f, k, verdict) /\ (verdict = "AUTHORIZED" <=> code = "ok")
           \/ op = "refund" /\ code = "ok" /\ RefundRuns(f)
    PROVE  ChargedOnce(b)'
  <1>1. /\ ChargedOnce(b) /\ b \in Flows /\ <<f, op, k>> \in inFlight
        /\ \A j \in Attempts : <<b, j>> \in PaymentIds
    BY DEF PaidInv, Flows, Leaves, PaymentIds
  <1>2. CASE \A j \in Attempts : payment'[<<b, j>>] = payment[<<b, j>>]
    BY <1>1, <1>2, LeavesAnswer, AnswerFacts DEF ChargedOnce, Unpaid
  <1>3. ASSUME NEW verdict \in {"AUTHORIZED", "DECLINED"}, op = "charge", f = b,
               ChargeRuns(f, k, verdict), verdict = "AUTHORIZED" <=> code = "ok"
        PROVE  ChargedOnce(b)'
    <2>1. Unpaid(b) /\ path[b] = "booking"
      BY <1>1, <1>3 DEF ChargedOnce
    <2>2. /\ (pc[b] = "charge" /\ answer'[b] = code) \/ pc[b] = "crashed"
          /\ \A j \in Attempts : <<b, "charge", j>> \notin inFlight'
      BY <1>3, Left
    <2>3. \A j \in Attempts : payment'[<<b, j>>] \in {"none", "DECLINED"} \/ (j = k /\ code = "ok")
      BY <1>1, <1>3, <2>1 DEF ChargeRuns, Unpaid
    <2>4. QED
      BY <2>1, <2>2, <2>3, LeavesAnswer DEF ChargedOnce, Unpaid
  <1>4. CASE op = "charge" /\ f # b /\ \E verdict \in {"AUTHORIZED", "DECLINED"} : ChargeRuns(f, k, verdict)
    BY <1>1, <1>2, <1>4 DEF ChargeRuns
  <1>5. CASE RefundRuns(f)
    <2>1. \A j \in Attempts : /\ payment'[<<b, j>>] \in {"AUTHORIZED", "REFUNDED"}
                                  => payment[<<b, j>>] \in {"AUTHORIZED", "REFUNDED"}
                              /\ payment[<<b, j>>] \in {"none", "DECLINED"}
                                  => payment'[<<b, j>>] \in {"none", "DECLINED"}
      BY <1>1, <1>5 DEF RefundRuns
    <2>2. Unpaid(b) => Unpaid(b)'
      BY <2>1 DEF Unpaid
    <2>3. QED
      BY <1>1, <2>1, <2>2, LeavesAnswer, AnswerFacts DEF ChargedOnce
  <1>6. QED
    BY <1>2, <1>3, <1>4, <1>5

LEMMA EndsDecidedMoves ==
    ASSUME Ground, PaidInv, NEW f \in Flows, FlowMoves(f), NEW b \in Bookings
    PROVE  EndsDecided(b)'
  <1>1. BookingInv(b) /\ EndsDecided(b) /\ b \in Flows /\ BookingOf(b) = b
    BY GroundFacts DEF PaidInv, Flows, BookingOf
  <1>2. ASSUME NEW c \in Cancels, TargetOf[c] = b, charged[c] # NoPayment
        PROVE  charged'[c] # NoPayment
    BY <1>2, FlowFacts DEF Flows, FlowMoves, OthersStay, Stays, Sends, Repeats, Crashes, Unwinds,
       CancelWrites
  <1>3. CASE f # b /\ RowStays(b)
    BY <1>1, <1>2, <1>3 DEF FlowMoves, OthersStay, Stays, RowStays, EndsDecided
  <1>4. CASE f # b /\ ~RowStays(b)
    <2>1. f \in Cancels /\ TargetOf[f] = b /\ CancelWrites(f)
      BY <1>4, FlowFacts DEF FlowMoves, OthersStay, Sends, Repeats, Crashes, Unwinds, Heard,
         BookingHears
    <2>2. status[b] = "CONFIRMED" /\ status'[b] = "CANCELLED" /\ charged'[f] # NoPayment
      BY <1>4, <2>1 DEF CancelWrites
    <2>3. QED
      BY <1>1, <1>4, <2>1, <2>2 DEF FlowMoves, OthersStay, Stays, EndsDecided
  <1>5. CASE f = b
    <2>1. CASE Sends(b) \/ Repeats(b)
      BY <1>1, <1>2, <2>1 DEF Sends, Repeats, Stays, RowStays, EndsDecided
    <2>2. CASE Crashes(b)
      BY <1>1, <1>2, <2>2 DEF Crashes, RowStays, EndsDecided
    <2>3. CASE Unwinds(b)
      BY <1>1, <1>2, <2>3 DEF Unwinds, Heard, RowStays, EndsDecided, BookingInv, FlowShape
    <2>4. CASE BookingHears(b)
      BY <1>1, <1>2, <2>4 DEF BookingHears, Heard, RowStays, EndsDecided, BookingInv, RowFollowsFlow
    <2>5. CASE BookingWrites(b)
      BY <1>1, <1>2, <2>5 DEF BookingWrites, RowStays, EndsDecided
    <2>6. QED
      BY <1>1, <1>5, <2>1, <2>2, <2>3, <2>4, <2>5, FlowFacts, GroundFacts DEF FlowMoves
  <1>6. QED
    BY <1>3, <1>4, <1>5

LEMMA ToldTrulyMoves ==
    ASSUME Ground, PaidInv, NEW f \in Flows, FlowMoves(f), NEW b \in Bookings
    PROVE  ToldTruly(b)'
  <1>1. /\ BookingInv(b) /\ ToldTruly(b) /\ b \in Flows /\ BookingOf(b) = b
        /\ told' = told /\ ChargesOf(b)' = ChargesOf(b)
    BY GroundFacts DEF PaidInv, Flows, BookingOf, FlowMoves, ServicesRest, ChargesOf
  <1>2. path[b] = "chargeFailed" => path'[b] = "chargeFailed"
    <2>1. CASE f # b
      BY <1>1, <2>1 DEF FlowMoves, OthersStay, Stays
    <2>2. CASE f = b
      BY <1>1, <2>2, FlowFacts DEF FlowMoves, Sends, Repeats, Crashes, Unwinds, BookingHears,
         BookingWrites, Stays, BookingInv, FlowShape
    <2>3. QED
      BY <2>1, <2>2
  <1>3. status[b] = "CANCELLED" => status'[b] = "CANCELLED"
    <2>1. CASE f = b
      BY <1>1, <2>1, FlowFacts DEF FlowMoves, Sends, Repeats, Crashes, Unwinds, Heard,
         BookingHears, BookingWrites, RowStays, BookingInv, RowFollowsFlow
    <2>2. CASE f # b
      BY <1>1, <2>2, FlowFacts DEF FlowMoves, OthersStay, Sends, Repeats, Crashes, Unwinds, Heard,
         CancelWrites, RowStays, BookingHears
    <2>3. QED
      BY <2>1, <2>2
  <1>4. QED
    BY <1>1, <1>2, <1>3 DEF ToldTruly

(* A flow that is about to give seats back, or to say so, leaves no charge. *)
LEMMA NoChargeLeft ==
    ASSUME Ground, PaidInv, NEW f \in Flows, pc[f] \in {"release", "notify"},
           pc[f] = "notify" => path[f] # "booking"
    PROVE  ChargesOf(BookingOf(f)) = {}
  <1>1. RefundedFirst(f)
    BY DEF PaidInv
  <1>2. CASE f \in Cancels
    <2>1. charged[f] # NoPayment
      BY <1>2, GroundFacts DEF CancelKnows
    <2>2. QED
      BY <1>1, <1>2, <2>1 DEF RefundedFirst, PastRefund
  <1>3. CASE f \in Bookings
    <2>1. BookingOf(f) = f /\ ChargedOnce(f) /\ BookingInv(f) /\ path[f] \in Paths
      BY <1>3, FlowFacts, GroundFacts DEF PaidInv, TypeOK
    <2>2. path[f] \in {"persistFailed", "chargeFailed", "confirmFailed"}
      BY <2>1 DEF BookingInv, FlowShape, Paths
    <2>3. CASE path[f] = "confirmFailed"
      BY <1>1, <2>3 DEF RefundedFirst, PastRefund
    <2>4. CASE path[f] \in {"persistFailed", "chargeFailed"}
      BY <2>1, <2>4 DEF ChargedOnce, Unpaid, ChargesOf
    <2>5. QED
      BY <2>2, <2>3, <2>4
  <1>4. QED
    BY <1>2, <1>3, FlowFacts

LEMMA RefundedFirstKept ==
    ASSUME NEW g \in Flows, RefundedFirst(g), payment' = payment, Stays(g),
           answer[g] \in Client!Unanswered \cup Client!Retryable =>
               answer'[g] \in Client!Unanswered \cup Client!Retryable,
           answer[g] = "ok" => answer'[g] = "ok",
           \A k \in Attempts : <<g, "refund", k>> \in inFlight' =>
               <<g, "refund", k>> \in inFlight \/ (pc[g] = "refund" /\ answer[g] # "ok"),
           PastRefund(g)' => ChargesOf(BookingOf(g)) = {}
    PROVE  RefundedFirst(g)'
  <1>1. ChargesOf(BookingOf(g))' = ChargesOf(BookingOf(g))
    BY DEF ChargesOf
  <1>2. pc'[g] = pc[g] /\ charged'[g] = charged[g]
    BY DEF Stays
  <1>3. pc'[g] = "refund" =>
           /\ answer'[g] \in Client!Unanswered \cup Client!Retryable \cup {"ok"}
           /\ payment'[charged'[g]] = IF answer'[g] = "ok" THEN "REFUNDED" ELSE "AUTHORIZED"
    BY <1>2, AnswerFacts DEF RefundedFirst
  <1>4. \A k \in Attempts : <<g, "refund", k>> \in inFlight' => payment'[charged'[g]] = "AUTHORIZED"
    BY <1>2 DEF RefundedFirst
  <1>5. QED
    BY <1>1, <1>3, <1>4 DEF RefundedFirst

LEMMA RefundedFirstMoves ==
    ASSUME Ground, PaidInv, UnwindingGetsThrough, NEW f \in Flows, FlowMoves(f), NEW g \in Flows
    PROVE  RefundedFirst(g)'
  <1> DEFINE b == BookingOf(g)
  <1>1. /\ RefundedFirst(g) /\ OneRequest(g) /\ payment' = payment
        /\ b \in Bookings /\ BookingInv(b) /\ ChargedOnce(b)
        /\ ChargesOf(b)' = ChargesOf(b)
    BY GroundFacts, FlowFacts DEF PaidInv, FlowMoves, ServicesRest, ChargesOf
  <1>2. CASE g # f
    <2>1. /\ Stays(g) /\ Waits(g)
          /\ \A op \in Remote, k \in Attempts : <<g, op, k>> \in inFlight' => <<g, op, k>> \in inFlight
      BY <1>2, MovesInFlight DEF FlowMoves, OthersStay
    <2>2. PastRefund(g)' => PastRefund(g)
      BY <2>1 DEF PastRefund, Stays, Remote
    <2>3. QED
      BY <1>1, <2>1, <2>2, RefundedFirstKept DEF Waits, RefundedFirst, Remote
  <1>3. CASE g = f /\ Sends(f)
    <2>1. PastRefund(g)' => PastRefund(g) \/ pc[g] = "release" \/ (pc[g] = "notify" /\ path[g] # "booking")
      BY <1>3 DEF Sends, Stays, PastRefund
    <2>2. PastRefund(g)' => ChargesOf(b) = {}
      BY <1>1, <2>1, NoChargeLeft DEF RefundedFirst
    <2>3. QED
      BY <1>1, <1>3, <2>2, AnswerFacts, RefundedFirstKept DEF Sends
  <1>4. CASE g = f /\ Repeats(f)
    <2>1. PastRefund(g)' => PastRefund(g)
      BY <1>4 DEF Repeats, Stays, PastRefund
    <2>2. QED
      BY <1>1, <1>4, <2>1, AnswerFacts, RefundedFirstKept DEF Repeats, RefundedFirst
  <1>5. CASE g = f /\ Crashes(f)
    BY <1>1, <1>5 DEF Crashes, RefundedFirst, PastRefund
  <1>6. CASE g = f /\ Unwinds(f)
    <2>1. /\ \A k \in Attempts : <<g, "refund", k>> \notin inFlight
          /\ pc'[g] # "refund" /\ inFlight' = inFlight /\ charged'[g] = charged[g] /\ path'[g] = path[g]
      BY <1>1, <1>6, HeardQuiet, GroundFacts DEF Unwinds, Heard, NoRequest, Remote
    <2>2. CASE pc[g] = "refund"
      <3>1. answer[g] = "ok"
        <4>1. answer[g] \in Codes
          BY <1>6, <2>2, GroundFacts DEF Unwinds, Heard, UnwindingGetsThrough
        <4>2. answer[g] \in Client!Unanswered \cup Client!Retryable \cup {"ok"}
          BY <1>1, <2>2 DEF RefundedFirst
        <4>3. QED
          BY <4>1, <4>2 DEF Codes, Client!Unanswered, Client!Retryable
      <3>2. payment[charged[g]] = "REFUNDED"
        BY <1>1, <2>2, <3>1 DEF RefundedFirst
      <3>3. charged[g] # NoPayment
        BY <2>2, FlowFacts, GroundFacts DEF BookingInv, ChargeIsKnown, CancelKnows
      <3>4. PICK k \in Attempts : charged[g] = <<b, k>>
        BY <3>3, HeldChargeIsOwn DEF Ground
      <3>5. \A j \in Attempts : payment[<<b, j>>] # "AUTHORIZED"
        BY <1>1, <3>2, <3>4 DEF ChargedOnce
      <3>6. QED
        BY <1>1, <2>1, <3>5 DEF RefundedFirst, ChargesOf
    <2>3. CASE pc[g] \in {"release", "notify"}
      <3>1. PastRefund(g)' => PastRefund(g)
        BY <2>1, <2>3 DEF PastRefund
      <3>2. QED
        BY <1>1, <2>1, <3>1 DEF RefundedFirst
    <2>4. QED
      BY <1>6, <2>2, <2>3 DEF Unwinds
  <1>7. CASE g = f /\ f \in Bookings /\ (BookingHears(f) \/ BookingWrites(f))
    <2>1. b = g /\ g \notin Cancels
      BY <1>7, FlowFacts
    <2>2. /\ \A op \in Remote, k \in Attempts : <<g, op, k>> \notin inFlight
          /\ inFlight' = inFlight
      <3>1. CASE BookingHears(f)
        BY <1>1, <1>7, <3>1, HeardQuiet, GroundFacts DEF BookingHears, Heard, NoRequest, Remote
      <3>2. CASE BookingWrites(f)
        BY <1>1, <1>7, <3>2, Unheard, RemoteFacts, GroundFacts DEF BookingWrites, NoRequest, Local
      <3>3. QED
        BY <1>7, <3>1, <3>2
    <2>3. ~PastRefund(g)'
      <3>1. ~ (pc'[g] \in {"release", "notify", "done"} /\ path'[g] = "confirmFailed")
        BY <1>1, <1>7, <2>1 DEF BookingHears, BookingWrites, BookingInv, FlowShape
      <3>2. QED
        BY <2>1, <2>2, <3>1 DEF PastRefund, Remote
    <2>4. pc'[g] = "refund" => answer'[g] = "idle" /\ payment[charged'[g]] = "AUTHORIZED"
      <3>1. pc'[g] = "refund" =>
                pc[g] = "confirm" /\ charged'[g] = charged[g] /\ answer'[g] = answer[g]
        BY <1>7 DEF BookingHears, BookingWrites, Waits
      <3>2. pc[g] = "confirm" => answer[g] = "idle" /\ payment[charged[g]] = "AUTHORIZED"
        BY <1>1, <2>1, RemoteFacts DEF OneRequest, BookingInv, ChargeIsKnown, Local
      <3>3. QED
        BY <3>1, <3>2
    <2>5. QED
      BY <1>1, <2>2, <2>3, <2>4, AnswerFacts DEF RefundedFirst, Remote
  <1>8. CASE g = f /\ f \in Cancels /\ CancelWrites(f)
    <2>1. b = TargetOf[g] /\ g \notin Bookings /\ CancelKnows(g)
      BY <1>8, FlowFacts, GroundFacts
    <2>2. /\ \A op \in Remote, k \in Attempts : <<g, op, k>> \notin inFlight
          /\ inFlight' = inFlight /\ answer'[g] = "idle"
      BY <1>1, <1>8, Unheard, RemoteFacts, GroundFacts
         DEF CancelWrites, NoRequest, Local, OneRequest, Waits
    <2>3. ~PastRefund(g)'
      <3>1. pc'[g] = "refund" \/ (pc'[g] = "done" /\ charged'[g] = NoPayment /\ path'[g] = "cancelling")
        BY <1>8, <2>1 DEF CancelWrites, CancelKnows
      <3>2. QED
        BY <2>2, <3>1 DEF PastRefund, Remote
    <2>4. pc'[g] = "refund" => payment[charged'[g]] = "AUTHORIZED"
      BY <1>1, <1>8, <2>1, InvBacked, GroundFacts DEF CancelWrites, ConfirmedIsBacked, Ground
    <2>5. QED
      BY <1>1, <2>2, <2>3, <2>4, AnswerFacts DEF RefundedFirst, Remote
  <1>9. QED
    BY <1>2, <1>3, <1>4, <1>5, <1>6, <1>7, <1>8, GroundFacts DEF FlowMoves

(* A booking whose charge is in flight has not been charged, and nobody     *)
(* gives up on it.                                                          *)
LEMMA ChargeIsFirst ==
    ASSUME Ground, PaidInv, NEW b \in Bookings, NEW k \in Attempts, <<b, "charge", k>> \in inFlight
    PROVE  /\ Unpaid(b) /\ path[b] = "booking"
           /\ status[b] \notin {"none", "CONFIRMED", "CANCELLED"}
           /\ \A g \in FlowsOf(b) : ~Unwinder(g)
  <1>1. ChargedOnce(b) /\ BookingInv(b) /\ RequestInv(b, k) /\ b \in Flows
    BY DEF PaidInv, Ground, IInv, Flows
  <1>2. Unpaid(b) /\ path[b] = "booking" /\ status[b] # "none"
    BY <1>1 DEF ChargedOnce, RequestInv
  <1>3. status[b] \notin {"CONFIRMED", "CANCELLED"}
    <2>1. SUFFICES ASSUME paymentOf[b] # NoPayment PROVE FALSE
      BY <1>1 DEF BookingInv, RecordIsOwn
    <2>2. /\ paymentOf[b] \in PaymentIds /\ paymentOf[b][1] = b
          /\ payment[paymentOf[b]] \in {"AUTHORIZED", "REFUNDED"}
      BY <1>1, <2>1, GroundFacts DEF TypeOK, Table!BookingTypeOK, BookingInv, RecordIsOwn
    <2>3. \E j \in Attempts : paymentOf[b] = <<b, j>>
      BY <2>2, OwnId
    <2>4. QED
      BY <1>2, <2>2, <2>3 DEF Unpaid
  <1>4. ASSUME NEW g \in FlowsOf(b), Unwinder(g) PROVE FALSE
    <2>1. g \in Flows /\ BookingOf(g) = b
      BY DEF FlowsOf
    <2>2. CASE g \in Bookings
      BY <1>2, <1>4, <2>1, <2>2, FlowFacts DEF Unwinder
    <2>3. CASE g \in Cancels
      BY <1>3, <1>4, <2>1, <2>3, FlowFacts, GroundFacts DEF Unwinder, CancelInv
    <2>4. QED
      BY <2>1, <2>2, <2>3, FlowFacts
  <1>5. QED
    BY <1>2, <1>3, <1>4

LEMMA PastRefundUnwinds ==
    ASSUME Ground, NEW g \in Flows, PastRefund(g)
    PROVE  Unwinder(g)
  <1>1. CASE g \in Bookings
    BY <1>1, FlowFacts, UnwinderFacts DEF Ground, PastRefund, Unwinder
  <1>2. CASE g \in Cancels
    BY <1>2, FlowFacts, UnwinderFacts, GroundFacts DEF Ground, PastRefund, Unwinder, CancelKnows
  <1>3. QED
    BY <1>1, <1>2, FlowFacts

LEMMA PastRefundLeaves ==
    ASSUME NEW f \in Flows, NEW op, NEW k, NEW code, Leaves(f, op, k, code),
           NEW g \in Flows, PastRefund(g)'
    PROVE  PastRefund(g)
  BY DEF Leaves, PastRefund

(* What is known of the payments when a request leaves the network.         *)
Pays(f, op, k, code) ==
    \/ payment' = payment /\ ~(op = "charge" /\ code = "ok")
         /\ (op = "refund" /\ payment[charged[f]] = "AUTHORIZED" => code \in Client!Retryable)
    \/ /\ op = "charge" /\ f \in Bookings
       /\ \E verdict \in {"AUTHORIZED", "DECLINED"} :
              ChargeRuns(f, k, verdict) /\ (verdict = "AUTHORIZED" <=> code = "ok")
    \/ op = "refund" /\ code = "ok" /\ RefundRuns(f)

LEMMA LeavesPays ==
    ASSUME IInv, NEW f \in Flows, NEW op \in Remote, NEW k \in Attempts, NEW code,
           Leaves(f, op, k, code),
           Execute(f, op, k, code) \/ (ServicesRest /\ code \in Client!Retryable)
    PROVE  Pays(f, op, k, code)
  <1>1. CASE Execute(f, op, k, code)
    BY <1>1, ExecutePays DEF Pays, Leaves
  <1>2. CASE ServicesRest /\ code \in Client!Retryable
    BY <1>2, AnswerFacts DEF Pays, ServicesRest
  <1>3. QED
    BY <1>1, <1>2

LEMMA RefundedFirstLeaves ==
    ASSUME Ground, PaidInv, NEW g \in Flows,
           NEW f \in Flows, NEW op \in Remote, NEW k \in Attempts, NEW code,
           Leaves(f, op, k, code), Pays(f, op, k, code)
    PROVE  RefundedFirst(g)'
  <1> DEFINE b == BookingOf(g)
  <1>1. /\ RefundedFirst(g) /\ RefundedFirst(f) /\ b \in Bookings /\ TypeOK
        /\ <<f, op, k>> \in inFlight /\ BookingInv(b) /\ \A j \in Attempts : RequestInv(g, j)
        /\ g \in FlowsOf(b)
    BY GroundFacts, FlowFacts DEF PaidInv, Leaves, Ground, IInv
  <1>2. /\ UNCHANGED <<pc, path, charged>> /\ inFlight' \subseteq inFlight
        /\ PastRefund(g)' => PastRefund(g)
    BY LeavesAnswer, PastRefundLeaves
  <1>3. CASE payment' = payment /\ ~(op = "charge" /\ code = "ok")
               /\ (op = "refund" /\ payment[charged[f]] = "AUTHORIZED" => code \in Client!Retryable)
    <2>1. ChargesOf(b)' = ChargesOf(b)
      BY <1>3 DEF ChargesOf
    <2>2. CASE answer'[g] = answer[g]
      BY <1>1, <1>2, <1>3, <2>1, <2>2 DEF RefundedFirst
    <2>3. CASE answer'[g] # answer[g]
      <3>1. g = f /\ Awaited(f, op, k) /\ answer'[f] = code
        BY <2>3 DEF Leaves
      <3>2. pc[f] = "refund" => code \in Client!Retryable
        BY <1>1, <1>3, <3>1 DEF Awaited, RefundedFirst
      <3>3. pc[f] = "refund" => payment[charged[f]] = "AUTHORIZED"
        BY <1>1, <3>1, AnswerFacts DEF Awaited, RefundedFirst
      <3>4. QED
        BY <1>1, <1>2, <1>3, <2>1, <3>1, <3>2, <3>3, AnswerFacts DEF RefundedFirst
    <2>4. QED
      BY <2>2, <2>3
  <1>4. CASE op = "refund" /\ code = "ok" /\ RefundRuns(f)
    <2>1. Unwinder(f) /\ charged[f] # NoPayment
      BY <1>1, <1>4, UnwinderFacts, GroundFacts, SagaAssumption DEF RefundRuns, Ground
    <2>2. ChargesOf(b)' \subseteq ChargesOf(b)
      BY <1>1, <1>4 DEF RefundRuns, ChargesOf, PaymentIds
    <2>3. CASE g = f
      <3>1. /\ \/ pc[f] = "refund" /\ answer'[f] = "ok"
               \/ pc[f] = "crashed"
            /\ \A p \in Remote, j \in Attempts : <<f, p, j>> \notin inFlight'
        BY <1>4, Left
      <3>2. ~PastRefund(f)'
        BY <1>2, <3>1 DEF PastRefund, Remote
      <3>3. QED
        BY <1>2, <1>4, <2>3, <3>1, <3>2 DEF RefundedFirst, RefundRuns, Remote
    <2>4. CASE g # f
      <3>1. answer'[g] = answer[g]
        BY <2>4 DEF Leaves
      <3>2. ASSUME pc[g] = "refund" \/ \E j \in Attempts : <<g, "refund", j>> \in inFlight
            PROVE  payment'[charged[g]] = payment[charged[g]]
        <4>1. Unwinder(g)
          BY <3>2, UnwinderFacts, GroundFacts DEF Ground
        <4>2. charged[g] # NoPayment
          BY <1>1, <3>2, FlowFacts, GroundFacts DEF BookingInv, ChargeIsKnown, CancelInv, RequestInv
        <4>3. b # BookingOf(f)
          BY <2>1, <2>4, <4>1, OneUnwinder DEF Ground
        <4>4. charged[g] # charged[f]
          BY <2>1, <4>2, <4>3, HeldChargeIsOwn DEF Ground
        <4>5. charged[g] \in PaymentIds
          BY <1>1, <4>2 DEF TypeOK
        <4>6. QED
          BY <1>4, <4>4, <4>5 DEF RefundRuns
      <3>3. QED
        BY <1>1, <1>2, <2>2, <3>1, <3>2 DEF RefundedFirst
    <2>5. QED
      BY <2>3, <2>4
  <1>5. ASSUME op = "charge", f \in Bookings, NEW verdict, ChargeRuns(f, k, verdict)
        PROVE  RefundedFirst(g)'
    <2>1. CASE b = f
      <3>1. ~Unwinder(g)
        BY <1>1, <1>5, <2>1, ChargeIsFirst
      <3>2. /\ pc[g] # "refund" /\ ~PastRefund(g)
            /\ \A j \in Attempts : <<g, "refund", j>> \notin inFlight
        BY <3>1, UnwinderFacts, PastRefundUnwinds, GroundFacts DEF Ground
      <3>3. QED
        BY <1>2, <3>2 DEF RefundedFirst
    <2>2. CASE b # f
      <3>1. ChargesOf(b)' = ChargesOf(b)
        BY <1>1, <1>5, <2>2 DEF ChargeRuns, ChargesOf, PaymentIds
      <3>2. answer'[g] = answer[g]
        BY <1>5, <2>2, FlowFacts DEF Leaves
      <3>3. ASSUME pc[g] = "refund" \/ \E j \in Attempts : <<g, "refund", j>> \in inFlight
            PROVE  payment'[charged[g]] = payment[charged[g]]
        <4>1. charged[g] # NoPayment
          BY <1>1, <3>3, FlowFacts, GroundFacts DEF BookingInv, ChargeIsKnown, CancelInv, RequestInv
        <4>2. charged[g] # <<f, k>> /\ charged[g] \in PaymentIds
          BY <1>1, <2>2, <4>1, HeldChargeIsOwn DEF Ground, TypeOK
        <4>3. QED
          BY <1>5, <4>2 DEF ChargeRuns
      <3>4. QED
        BY <1>1, <1>2, <3>1, <3>2, <3>3 DEF RefundedFirst
    <2>3. QED
      BY <2>1, <2>2
  <1>6. QED
    BY <1>3, <1>4, <1>5 DEF Pays

(* A request that leaves the network without a payment being charged leaves *)
(* no new charge.                                                           *)
LEMMA ChargesShrink ==
    ASSUME Ground, PaidInv, NEW f \in Flows, NEW op \in Remote, NEW k \in Attempts, NEW code,
           Leaves(f, op, k, code), Pays(f, op, k, code), NEW b \in Bookings, ~(op = "charge" /\ f = b)
    PROVE  ChargesOf(b)' \subseteq ChargesOf(b)
  <1>1. \A j \in Attempts : <<b, j>> \in PaymentIds
    BY DEF PaymentIds
  <1>2. \A j \in Attempts : payment'[<<b, j>>] = "AUTHORIZED" => payment[<<b, j>>] = "AUTHORIZED"
    BY <1>1 DEF Pays, ChargeRuns, RefundRuns
  <1>3. QED
    BY <1>2 DEF ChargesOf

LEMMA ToldTrulyLeaves ==
    ASSUME Ground, PaidInv, NEW b \in Bookings,
           NEW f \in Flows, NEW op \in Remote, NEW k \in Attempts, NEW code,
           Leaves(f, op, k, code), Pays(f, op, k, code),
           \/ told' = told
           \/ op = "notify" /\ told' = [told EXCEPT ![BookingOf(f)] = @ \cup {Message(f)}]
    PROVE  ToldTruly(b)'
  <1>1. /\ ToldTruly(b) /\ TypeOK /\ <<f, op, k>> \in inFlight /\ RefundedFirst(f)
        /\ b \in FlowsOf(b) /\ b \in Flows
    BY GroundFacts, FlowFacts DEF PaidInv, Leaves, Flows, FlowsOf, BookingOf
  <1>2. path' = path /\ status' = status
    BY LeavesAnswer
  <1>3. "cancelled" \in told[b] => ChargesOf(b)' = {}
    <2>1. SUFFICES ASSUME "cancelled" \in told[b] PROVE ChargesOf(b)' = {}
      OBVIOUS
    <2>2. status[b] = "CANCELLED" /\ ChargesOf(b) = {}
      BY <1>1, <2>1 DEF ToldTruly
    <2>3. ~(op = "charge" /\ f = b)
      BY <1>1, <2>2, ChargeIsFirst
    <2>4. QED
      BY <2>2, <2>3, ChargesShrink
  <1>4. CASE told'[b] = told[b]
    BY <1>1, <1>2, <1>3, <1>4 DEF ToldTruly
  <1>5. CASE told'[b] # told[b]
    <2>1. op = "notify" /\ BookingOf(f) = b /\ told'[b] = told[b] \cup {Message(f)}
      BY <1>1, <1>5 DEF TypeOK
    <2>2. Message(f) = "failed" => path[b] = "chargeFailed"
      <3>1. SUFFICES ASSUME Message(f) = "failed" PROVE path[b] = "chargeFailed"
        OBVIOUS
      <3>2. path[f] = "chargeFailed"
        BY <3>1 DEF Message
      <3>3. f \in Bookings
        BY <3>2, FlowFacts, GroundFacts DEF CancelKnows
      <3>4. QED
        BY <2>1, <3>2, <3>3, FlowFacts
    <2>3. Message(f) = "cancelled" => status[b] = "CANCELLED" /\ ChargesOf(b) = {}
      <3>1. SUFFICES ASSUME Message(f) = "cancelled" PROVE status[b] = "CANCELLED" /\ ChargesOf(b) = {}
        OBVIOUS
      <3>2. path[f] = "cancelling"
        BY <3>1 DEF Message
      <3>3. f \in Cancels
        BY <3>2, FlowFacts, GroundFacts DEF BookingInv, FlowShape
      <3>4. charged[f] # NoPayment
        BY <1>1, <2>1, <3>3, GroundFacts DEF CancelKnows
      <3>5. status[b] = "CANCELLED"
        BY <2>1, <3>3, <3>4, FlowFacts, GroundFacts DEF CancelInv
      <3>6. PastRefund(f)
        BY <1>1, <2>1, <3>2 DEF PastRefund
      <3>7. QED
        BY <1>1, <2>1, <3>5, <3>6 DEF RefundedFirst
    <2>4. ChargesOf(b)' \subseteq ChargesOf(b)
      BY <2>1, ChargesShrink
    <2>5. QED
      BY <1>1, <1>2, <1>3, <2>1, <2>2, <2>3, <2>4 DEF ToldTruly
  <1>6. QED
    BY <1>4, <1>5

LEMMA PaidMoves ==
    ASSUME Ground, PaidInv, UnwindingGetsThrough, NEW f \in Flows, FlowMoves(f)
    PROVE  PaidInv'
  BY ReservedOnceMoves, ChargedOnceMoves, EndsDecidedMoves, ToldTrulyMoves, RefundedFirstMoves DEF PaidInv

LEMMA PaidLeaves ==
    ASSUME Ground, PaidInv, NEW f \in Flows, NEW op \in Remote, NEW k \in Attempts,
           Executes(f, op, k) \/ Fails(f, op, k)
    PROVE  PaidInv'
  <1>1. PICK code : /\ Leaves(f, op, k, code)
                    /\ Execute(f, op, k, code) \/ (ServicesRest /\ code \in Client!Retryable)
    BY DEF Executes, Fails
  <1>2. Pays(f, op, k, code)
    BY <1>1, LeavesPays DEF Ground
  <1>3. \/ SeatsStay
        \/ op = "reserve" /\ code = "ok" /\ SeatsTaken(BookingOf(f))
        \/ op = "release" /\ code = "ok" /\ NamesEvent(f) /\ SeatsReturned(BookingOf(f))
    BY <1>1, ExecuteMoves, GroundFacts DEF ServicesRest, SeatsStay
  <1>4. \/ told' = told
        \/ op = "notify" /\ told' = [told EXCEPT ![BookingOf(f)] = @ \cup {Message(f)}]
    BY <1>1, ExecuteTells DEF ServicesRest
  <1>5. ASSUME NEW b \in Bookings
        PROVE  ReservedOnce(b)' /\ ChargedOnce(b)' /\ ToldTruly(b)'
    BY <1>1, <1>2, <1>3, <1>4, ReservedOnceLeaves, ChargedOnceLeaves, ToldTrulyLeaves DEF Pays
  <1>6. ASSUME NEW b \in Bookings PROVE EndsDecided(b)'
    BY <1>1, LeavesAnswer DEF EndsDecided, PaidInv
  <1>7. ASSUME NEW g \in Flows PROVE RefundedFirst(g)'
    BY <1>1, <1>2, RefundedFirstLeaves
  <1>8. QED
    BY <1>5, <1>6, <1>7 DEF PaidInv

LEMMA NextPaid ==
    Ground /\ PaidInv /\ UnwindingGetsThrough /\ [Next]_vars => PaidInv'
  <1>1. SUFFICES ASSUME Ground, PaidInv, UnwindingGetsThrough, [Next]_vars PROVE PaidInv'
    OBVIOUS
  <1>2. CASE NothingMoves
    BY <1>1, <1>2 DEF NothingMoves, ServicesRest, PaidInv, ReservedOnce, ChargedOnce, Unpaid,
       EndsDecided, ToldTruly, ChargesOf, RefundedFirst, PastRefund
  <1>3. QED
    BY <1>1, <1>2, PaidMoves, PaidLeaves, Kinds DEF Ground

LEMMA InitPaid == Init => PaidInv
  <1>1. SUFFICES ASSUME Init PROVE PaidInv
    OBVIOUS
  <1>2. inFlight = {} /\ answer = [f \in Flows |-> "idle"]
    BY <1>1 DEF Init, Client!ClientInit
  <1>3. ASSUME NEW b \in Bookings PROVE Unpaid(b) /\ ChargesOf(b) = {}
    BY <1>1 DEF Init, Unpaid, ChargesOf, PaymentIds
  <1>4. ASSUME NEW b \in Bookings PROVE ReservedOnce(b) /\ ChargedOnce(b) /\ EndsDecided(b) /\ ToldTruly(b)
    BY <1>1, <1>2, <1>3 DEF Init, ReservedOnce, ChargedOnce, Unpaid, EndsDecided, ToldTruly, Flows, PaymentIds
  <1>5. ASSUME NEW f \in Flows PROVE RefundedFirst(f)
    BY <1>1, <1>2, <1>3, FlowFacts DEF Init, RefundedFirst, PastRefund
  <1>6. QED
    BY <1>4, <1>5 DEF PaidInv

LEMMA PaidInvariance ==
    OutcomesKnown => (Spec /\ []UnwindingGetsThrough => []PaidInv)
  <1>1. SUFFICES ASSUME OutcomesKnown PROVE Spec /\ []UnwindingGetsThrough => []PaidInv
    OBVIOUS
  <1>2. IInv /\ OnceInv /\ PaidInv /\ UnwindingGetsThrough /\ [Next]_vars => PaidInv'
    BY <1>1, NextPaid DEF Ground
  <1>3. Spec => []OnceInv
    BY <1>1, OnceInvariance
  <1>4. QED
    BY InitPaid, <1>2, <1>3, Invariance, PTL DEF Spec

-------------------------------------------------------------------------------
(* Fewer faults than a call makes attempts leave no refund and no release   *)
(* undone.                                                                  *)

(* What a step does to the client of g, and to the faults left.             *)
ClientStays(g) == attempt'[g] = attempt[g] /\ answer'[g] = answer[g]
ClientEnds(g) == attempt'[g] = 0 /\ answer'[g] = "idle"
ClientAdvances(g) ==
    \/ attempt'[g] = attempt[g] /\ answer'[g] \notin Client!Retryable
    \/ attempt'[g] = attempt[g] /\ faults' = faults + 1
    \/ attempt'[g] = attempt[g] + 1 /\ answer[g] \in Client!Retryable /\ answer'[g] = "idle"

ClientMoves(g) ==
    /\ faults' \in {faults, faults + 1}
    /\ ClientStays(g) \/ ClientEnds(g) \/ ClientAdvances(g)

LEMMA ReturnsMoves ==
    ASSUME TypeOK, AnswersArrive, NEW f \in Flows, NEW result, CallReturns(f, result),
           NEW g \in Flows
    PROVE  ClientMoves(g)
  BY DEF CallReturns, Client!EndCall, Fault, AnswersArrive, TypeOK, Client!ClientTypeOK,
     ClientMoves, ClientStays, ClientEnds

LEMMA FlowClientMoves ==
    ASSUME TypeOK, AnswersArrive, NEW f \in Flows, NEW g \in Flows,
           FlowStep(f) \/ Timeout(f) \/ HangUp(f) \/ Crash(f)
    PROVE  ClientMoves(g)
  <1> USE DEF clientVars
  <1>1. CASE Send(f)
    BY <1>1 DEF Send, Client!Send, Client!Retryable, TypeOK, Client!ClientTypeOK,
       ClientMoves, ClientStays, ClientAdvances
  <1>2. CASE Retry(f)
    BY <1>2 DEF Retry, Client!Retry, TypeOK, Client!ClientTypeOK, ClientMoves, ClientStays, ClientAdvances
  <1>3. CASE AfterGetEvent(f) \/ AfterReserve(f) \/ AfterCharge(f)
    BY <1>3, ReturnsMoves DEF AfterGetEvent, AfterReserve, AfterCharge
  <1>4. CASE AfterRefund(f) \/ AfterRelease(f) \/ AfterNotify(f)
    BY <1>4, ReturnsMoves DEF AfterRefund, AfterRelease, AfterNotify
  <1>5. CASE CreateBooking(f) \/ Confirm(f) \/ MarkFailed(f)
    BY <1>5 DEF CreateBooking, Confirm, MarkFailed, TableErrs, Fault, ClientMoves, ClientStays
  <1>6. CASE MarkCancelled(f)
    BY <1>6 DEF MarkCancelled, TableErrs, Fault, ClientMoves, ClientStays
  <1>7. CASE Timeout(f)
    BY <1>7 DEF Timeout, Fault, AnswersArrive
  <1>8. CASE HangUp(f)
    BY <1>8 DEF HangUp, Fault, ClientMoves, ClientStays
  <1>9. CASE Crash(f)
    BY <1>9 DEF Crash, Client!EndCall, Fault, TypeOK, Client!ClientTypeOK, ClientMoves, ClientStays, ClientEnds
  <1>10. QED
    BY <1>1, <1>2, <1>3, <1>4, <1>5, <1>6, <1>7, <1>8, <1>9 DEF FlowStep, CommonStep, BookStep

LEMMA ServiceClientMoves ==
    ASSUME TypeOK, AnswersArrive, NEW f \in Flows, NEW op \in Remote, NEW k \in Attempts,
           ServiceStep(f, op, k), NEW g \in Flows
    PROVE  ClientMoves(g)
  <1> USE DEF TypeOK, Client!ClientTypeOK, ClientMoves, ClientStays, ClientAdvances
  <1>1. CASE Serve(f, op, k)
    <2>1. PICK code \in Codes : Client!Answer(f, op, k, pc[f] = op, code)
      BY <1>1 DEF Serve
    <2>2. code \notin Client!Retryable
      BY DEF Codes, Client!Retryable
    <2>3. faults' = faults
      BY <1>1 DEF Serve
    <2>4. QED
      BY <2>1, <2>2, <2>3 DEF Client!Answer
  <1>2. CASE ServeButAnswerError(f, op, k)
    BY <1>2 DEF ServeButAnswerError, Fault, AnswersArrive
  <1>3. CASE ServerError(f, op, k) \/ Refuse(f, op, k)
    BY <1>3 DEF ServerError, Refuse, Client!Answer, Fault
  <1>4. CASE Discard(f, op, k)
    BY <1>4 DEF Discard, Client!Answer
  <1>5. QED
    BY <1>1, <1>2, <1>3, <1>4 DEF ServiceStep

LEMMA FaultsSpentStep ==
    ASSUME TypeOK, AnswersArrive, [Next]_vars, NEW g \in Flows, FaultsSpent(g)
    PROVE  FaultsSpent(g)'
  <1>1. ClientMoves(g)
    <2>1. CASE UNCHANGED vars
      BY <2>1 DEF vars, clientVars, ClientMoves, ClientStays
    <2>2. CASE \E e \in Events : DeleteEvent(e)
      BY <2>2 DEF DeleteEvent, Fault, clientVars, ClientMoves, ClientStays
    <2>3. QED
      BY <2>1, <2>2, FlowClientMoves, ServiceClientMoves DEF Next
  <1>2. attempt[g] \in Nat /\ faults \in Nat
    BY SagaAssumption DEF TypeOK, Client!ClientTypeOK, Client!Attempts
  <1>3. "idle" \notin Client!Retryable
    BY AnswerFacts
  <1>4. QED
    BY <1>1, <1>2, <1>3 DEF FaultsSpent, ClientMoves, ClientStays, ClientEnds, ClientAdvances

LEMMA FaultsSpentInvariance == AnswersArrive => (Spec => [](\A f \in Flows : FaultsSpent(f)))
  <1> DEFINE Spent == \A f \in Flows : FaultsSpent(f)
  <1>1. SUFFICES ASSUME AnswersArrive PROVE Spec => []Spent
    OBVIOUS
  <1>2. Init => Spent
    BY AnswerFacts DEF Init, Client!ClientInit, FaultsSpent
  <1>3. TypeOK /\ Spent /\ [Next]_vars => Spent'
    BY <1>1, FaultsSpentStep
  <1> HIDE DEF Spent
  <1>4. QED
    BY <1>2, <1>3, TypeCorrect, PTL DEF Spec

(* When answers arrive and a call is attempted more often than faults       *)
(* happen, no refund and no release uses up its retries: each is answered   *)
(* by its service, if only with a refusal (httpx, Client.Do).               *)
THEOREM UnwindingSucceeds ==
    AnswersArrive /\ MaxFaults <= Retries => (Spec => []UnwindingGetsThrough)
  <1> DEFINE Spent == \A f \in Flows : FaultsSpent(f)
  <1>1. SUFFICES ASSUME AnswersArrive, MaxFaults <= Retries PROVE Spec => []UnwindingGetsThrough
    OBVIOUS
  <1>2. TypeOK /\ Spent => UnwindingGetsThrough
    <2>1. SUFFICES ASSUME TypeOK, Spent, NEW f \in Flows, attempt[f] = Retries, answer[f] \in Client!Retryable
                   PROVE  FALSE
      BY DEF UnwindingGetsThrough
    <2>2. Retries < faults /\ faults \in 0..MaxFaults
      BY <2>1 DEF FaultsSpent, TypeOK
    <2>3. QED
      BY <1>1, <2>2, SagaAssumption
  <1>3. Spec => []Spent
    BY <1>1, FaultsSpentInvariance
  <1> HIDE DEF Spent
  <1>4. QED
    BY <1>2, <1>3, TypeCorrect, PTL

-------------------------------------------------------------------------------
(* Messages, and money at rest.                                             *)

(* When outcomes are known and no refund or release uses up its retries,    *)
(* what a message says is so: whoever is told that the booking failed or    *)
(* was cancelled is not charged, whatever crashes and whatever is deleted   *)
(* (saga.go, failBooking and Cancel).                                       *)
THEOREM MessagesTellTheTruth ==
    OutcomesKnown => (Spec /\ []UnwindingGetsThrough => []MessagesAreTrue)
  <1>1. PaidInv => MessagesAreTrue
    <2>1. SUFFICES ASSUME PaidInv, NEW b \in Bookings, told[b] \cap {"failed", "cancelled"} # {}
                   PROVE  ChargesOf(b) = {}
      BY DEF MessagesAreTrue
    <2>2. ChargedOnce(b) /\ ToldTruly(b)
      BY <2>1 DEF PaidInv
    <2>3. QED
      BY <2>1, <2>2 DEF ToldTruly, ChargedOnce, Unpaid, ChargesOf
  <1>2. SUFFICES ASSUME OutcomesKnown
                 PROVE  Spec /\ []UnwindingGetsThrough => []MessagesAreTrue
    OBVIOUS
  <1>3. Spec /\ []UnwindingGetsThrough => []PaidInv
    BY <1>2, PaidInvariance
  <1>4. QED
    BY <1>1, <1>3, PTL

(* No process dies.                                                         *)
Alive == \A f \in Flows : pc[f] # "crashed"

LEMMA AliveInvariance == OutcomesKnown /\ ProcessesLive => (Spec => []Alive)
  <1>1. SUFFICES ASSUME OutcomesKnown, ProcessesLive PROVE Spec => []Alive
    OBVIOUS
  <1>2. Init => Alive
    BY DEF Init, Alive
  <1>3. IInv /\ Alive /\ [Next]_vars => Alive'
    <2>1. SUFFICES ASSUME IInv, Alive, [Next]_vars, NEW g \in Flows PROVE pc'[g] # "crashed"
      BY DEF Alive
    <2>2. ASSUME NEW f \in Flows, FlowMoves(f) PROVE pc'[g] # "crashed"
      <3>1. CASE g # f
        BY <2>1, <2>2, <3>1 DEF FlowMoves, OthersStay, Stays, Alive
      <3>2. CASE g = f
        BY <1>1, <2>1, <2>2, <3>2 DEF FlowMoves, Sends, Repeats, Crashes, Unwinds, BookingHears,
           BookingWrites, CancelWrites, Stays, Alive
      <3>3. QED
        BY <3>1, <3>2
    <2>3. CASE \E f \in Flows, op \in Remote, k \in Attempts : Executes(f, op, k) \/ Fails(f, op, k)
      BY <2>1, <2>3 DEF Executes, Fails, Leaves, Alive
    <2>4. CASE NothingMoves
      BY <2>1, <2>4 DEF NothingMoves, Alive
    <2>5. QED
      BY <1>1, <2>1, <2>2, <2>3, <2>4, Kinds
  <1>4. QED
    BY <1>2, <1>3, Invariance, PTL DEF Spec

(* How a booking can have ended, and who ended it.                          *)
LEMMA Endings ==
    ASSUME Ground, PaidInv, Alive, AtRest, NEW b \in Bookings
    PROVE  \/ path[b] = "booking" /\ status[b] = "none" /\ reserved[b] = 0
           \/ path[b] = "booking" /\ status[b] = "CONFIRMED"
           \/ path[b] = "booking" /\ status[b] = "CANCELLED"
              /\ \E c \in Cancels : TargetOf[c] = b /\ charged[c] # NoPayment /\ pc[c] = "done"
           \/ path[b] # "booking" /\ status[b] # "CONFIRMED" /\ pc[b] = "done"
  <1>1. /\ \A f \in Flows : pc[f] = "done"
        /\ b \in Flows /\ Cancels \subseteq Flows
    BY DEF AtRest, Stopped, Alive, Flows
  <1>2. BookingInv(b) /\ EndsDecided(b) /\ ReservedOnce(b) /\ NoHiddenCommits
    BY GroundFacts DEF PaidInv
  <1>3. CASE path[b] = "booking"
    BY <1>1, <1>2, <1>3 DEF EndsDecided, ReservedOnce
  <1>4. CASE path[b] # "booking"
    BY <1>1, <1>2, <1>4 DEF BookingInv, UnwindsCleanly
  <1>5. QED
    BY <1>3, <1>4

(* A confirmed booking has one charge, the one on its row.                  *)
LEMMA ConfirmedIsChargedOnce ==
    ASSUME Ground, PaidInv, NEW b \in Bookings, status[b] = "CONFIRMED"
    PROVE  \E k \in Attempts : ChargesOf(b) = {k}
  <1>1. paymentOf[b] # NoPayment /\ paymentOf[b][1] = b /\ payment[paymentOf[b]] = "AUTHORIZED"
    BY GroundFacts, InvBacked DEF BookingInv, RecordIsOwn, ConfirmedIsBacked, Ground
  <1>2. paymentOf[b] \in PaymentIds
    BY <1>1, GroundFacts DEF TypeOK, Table!BookingTypeOK
  <1>3. PICK k \in Attempts : paymentOf[b] = <<b, k>>
    BY <1>1, <1>2, OwnId
  <1>4. ChargedOnce(b)
    BY DEF PaidInv
  <1>5. QED
    BY <1>1, <1>3, <1>4 DEF ChargedOnce, ChargesOf

(* When outcomes are known, nothing crashes and no refund or release uses   *)
(* up its retries, exactly the confirmed bookings are paid for in the end,  *)
(* and each of them once (saga.go, Book and Cancel).                        *)
THEOREM MoneyComesOutRight ==
    OutcomesKnown /\ ProcessesLive =>
        (Spec /\ []UnwindingGetsThrough => []MoneyExactAtRest)
  <1>1. SUFFICES ASSUME OutcomesKnown, ProcessesLive
                 PROVE  Spec /\ []UnwindingGetsThrough => []MoneyExactAtRest
    OBVIOUS
  <1>2. IInv /\ OnceInv /\ PaidInv /\ Alive => MoneyExactAtRest
    <2>1. SUFFICES ASSUME IInv, OnceInv, PaidInv, Alive, AtRest, NEW b \in Bookings
                   PROVE  Cardinality(ChargesOf(b)) = IF status[b] = "CONFIRMED" THEN 1 ELSE 0
      BY DEF MoneyExactAtRest
    <2>2. Ground
      BY <1>1, <2>1 DEF Ground
    <2>3. CASE status[b] = "CONFIRMED"
      <3>1. PICK k \in Attempts : ChargesOf(b) = {k}
        BY <2>1, <2>2, <2>3, ConfirmedIsChargedOnce
      <3>2. QED
        BY <2>3, <3>1, FS_Singleton
    <2>4. CASE status[b] # "CONFIRMED"
      <3>1. BookingInv(b) /\ ChargedOnce(b) /\ b \in Flows /\ BookingOf(b) = b
        BY <2>1 DEF PaidInv, IInv, Flows, BookingOf
      <3>2. ASSUME status[b] = "none" PROVE ChargesOf(b) = {}
        BY <3>1, <3>2 DEF BookingInv, SeatsThenRowThenMoney, ChargesOf
      <3>3. ASSUME NEW c \in Cancels, TargetOf[c] = b, charged[c] # NoPayment, pc[c] = "done"
            PROVE  ChargesOf(b) = {}
        <4>1. c \in Flows /\ BookingOf(c) = b
          BY <3>3, FlowFacts DEF Flows
        <4>2. PastRefund(c) /\ RefundedFirst(c)
          BY <2>1, <3>3, <4>1 DEF PastRefund, PaidInv
        <4>3. QED
          BY <4>1, <4>2 DEF RefundedFirst
      <3>4. ASSUME path[b] # "booking", pc[b] = "done" PROVE ChargesOf(b) = {}
        <4>1. path[b] \in {"persistFailed", "chargeFailed", "confirmFailed"}
          BY <2>1, <3>1, <3>4 DEF BookingInv, FlowShape, IInv, TypeOK, Paths
        <4>2. CASE path[b] = "confirmFailed"
          BY <2>1, <3>1, <3>4, <4>2 DEF PaidInv, RefundedFirst, PastRefund
        <4>3. CASE path[b] # "confirmFailed"
          BY <3>1, <4>1, <4>3 DEF ChargedOnce, Unpaid, ChargesOf
        <4>4. QED
          BY <4>2, <4>3
      <3>5. ChargesOf(b) = {}
        BY <2>1, <2>2, <2>4, <3>2, <3>3, <3>4, Endings
      <3>6. QED
        BY <2>4, <3>5, FS_EmptySet
    <2>5. QED
      BY <2>3, <2>4
  <1>3. Spec => []OnceInv
    BY <1>1, OnceInvariance
  <1>4. Spec => []Alive
    BY <1>1, AliveInvariance
  <1>5. Spec /\ []UnwindingGetsThrough => []PaidInv
    BY <1>1, PaidInvariance
  <1>6. QED
    BY <1>2, <1>3, <1>4, <1>5, Invariance, PTL

-------------------------------------------------------------------------------
(* The saga implements the promise.                                         *)

DealStays(b) == DealOf(b)' = DealOf(b)
PurseStays(b) == PurseOf(b)' = PurseOf(b)

(* A step of the promise about one booking: what becomes of its deal, and   *)
(* of its purse.                                                            *)
DealMoves(b, old, new) ==
    /\ DealOf(b) \in old /\ DealOf(b)' = new
    /\ \A a \in Bookings : PurseStays(a) /\ (a # b => DealStays(a))

PurseMoves(b, old, new) ==
    /\ PurseOf(b) = old /\ PurseOf(b)' = new
    /\ \A a \in Bookings : DealStays(a) /\ (a # b => PurseStays(a))

LEMMA PromiseStutters ==
    ASSUME available' = available, \A b \in Bookings : DealStays(b) /\ PurseStays(b)
    PROVE  UNCHANGED Promise!promiseVars
  BY DEF Promise!promiseVars, DealStays, PurseStays

LEMMA PromiseDeals ==
    ASSUME NEW b \in Bookings
    PROVE  /\ DealMoves(b, {"open"}, "held") /\ available[EventOf[b]] >= SeatsOf[b]
                /\ available' = [available EXCEPT ![EventOf[b]] = @ - SeatsOf[b]]
                => Promise!Hold(b)
           /\ DealMoves(b, {"held"}, "sold") /\ PurseOf(b) = "paid" /\ available' = available
                => Promise!Sell(b)
           /\ DealMoves(b, {"sold"}, "returning") /\ available' = available => Promise!TakeBack(b)
           /\ DealMoves(b, {"held", "returning"}, "closed") /\ PurseOf(b) # "paid"
                /\ available' = [available EXCEPT ![EventOf[b]] = @ + SeatsOf[b]]
                => Promise!Return(b)
  BY DEF DealMoves, DealStays, PurseStays, Promise!Hold, Promise!Sell, Promise!TakeBack, Promise!Return

LEMMA PromisePurses ==
    ASSUME NEW b \in Bookings, available' = available
    PROVE  /\ PurseMoves(b, "unpaid", "paid") /\ DealOf(b) = "held" => Promise!Pay(b)
           /\ PurseMoves(b, "paid", "refunded") /\ DealOf(b) \in {"held", "returning"}
                => Promise!Reimburse(b)
  BY DEF PurseMoves, DealStays, PurseStays, Promise!Pay, Promise!Reimburse

LEMMA DealKept ==
    ASSUME NEW b \in Bookings, reserved'[b] = reserved[b], released'[b] = released[b],
           \/ status'[b] = status[b]
           \/ {status[b], status'[b]} \cap {"CONFIRMED", "CANCELLED"} = {}
    PROVE  DealStays(b)
  BY DEF DealStays, DealOf

LEMMA PurseKept ==
    ASSUME NEW b \in Bookings, \A k \in Attempts : payment'[<<b, k>>] = payment[<<b, k>>]
    PROVE  PurseStays(b)
  <1>1. ChargesOf(b)' = ChargesOf(b)
    BY DEF ChargesOf
  <1>2. QED
    BY <1>1 DEF PurseStays, PurseOf

(* The deal of a booking whose seats are out.                               *)
LEMMA SeatsOutDeal ==
    ASSUME TypeOK, NEW b \in Bookings, reserved[b] > 0, released[b] = 0
    PROVE  DealOf(b) = IF status[b] = "CONFIRMED" THEN "sold"
                       ELSE IF status[b] = "CANCELLED" THEN "returning" ELSE "held"
  <1>1. reserved[b] # 0 /\ ~(released[b] > 0)
    BY DEF TypeOK
  <1>2. QED
    BY <1>1 DEF DealOf

(* A flow that refunds or releases finds the seats of its booking out, and  *)
(* the booking not sold.                                                    *)
LEMMA UnwinderHolds ==
    ASSUME Ground, NEW f \in Flows, NEW op \in {"refund", "release"}, NEW k \in Attempts,
           <<f, op, k>> \in inFlight
    PROVE  /\ reserved[BookingOf(f)] > 0 /\ released[BookingOf(f)] = 0
           /\ DealOf(BookingOf(f)) \in {"held", "returning"}
  <1> DEFINE b == BookingOf(f)
  <1>1. /\ b \in Bookings /\ f \in FlowsOf(b) /\ TypeOK /\ BookingInv(b) /\ ReleasedOnce(b)
        /\ NoHiddenCommits
    BY FlowFacts, GroundFacts
  <1>2. Unwinder(f)
    BY UnwinderFacts, GroundFacts DEF Ground
  <1>3. released[b] = 0
    BY <1>1 DEF ReleasedOnce, TypeOK
  <1>4. reserved[b] > 0 /\ status[b] # "CONFIRMED"
    <2>1. CASE f \in Bookings
      BY <1>1, <1>2, <2>1, FlowFacts DEF Unwinder, ReleasedOnce, BookingInv, UnwindsCleanly
    <2>2. CASE f \in Cancels
      <3>1. status[b] = "CANCELLED"
        BY <1>2, <2>2, FlowFacts, GroundFacts DEF Unwinder, CancelInv
      <3>2. QED
        BY <1>1, <3>1 DEF BookingInv, SeatsThenRowThenMoney
    <2>3. QED
      BY <2>1, <2>2, FlowFacts
  <1>5. QED
    BY <1>1, <1>3, <1>4, SeatsOutDeal

LEMMA MoveKeepsPromise ==
    ASSUME Ground, PaidInv, NEW f \in Flows, FlowMoves(f)
    PROVE  [Promise!PromiseNext]_Promise!promiseVars
  <1>1. /\ UNCHANGED <<available, payment, reserved, released>> /\ TypeOK /\ BookingOf(f) \in Bookings
        /\ \A a \in Bookings : a # BookingOf(f) => RowStays(a)
    BY GroundFacts, FlowFacts DEF FlowMoves, ServicesRest, OthersStay
  <1>2. \A a \in Bookings : PurseStays(a)
    BY <1>1, PurseKept
  <1>3. \A a \in Bookings : a # BookingOf(f) => DealStays(a)
    BY <1>1, DealKept DEF RowStays
  <1>4. CASE DealStays(BookingOf(f))
    BY <1>1, <1>2, <1>3, <1>4, PromiseStutters
  <1>5. CASE f \in Bookings /\ ~DealStays(f)
    <2>1. BookingOf(f) = f /\ BookingInv(f) /\ ConfirmedIsBacked
      BY <1>5, FlowFacts, GroundFacts, InvBacked DEF Ground
    <2>2. \/ status'[f] = status[f]
          \/ {status[f], status'[f]} \cap {"CONFIRMED", "CANCELLED"} = {}
          \/ pc[f] = "confirm" /\ status'[f] = "CONFIRMED"
      BY <1>5, <2>1, FlowFacts DEF FlowMoves, Sends, Repeats, Crashes, Unwinds, Heard,
         BookingHears, BookingWrites, RowStays, BookingInv, RowFollowsFlow
    <2>3. pc[f] = "confirm" /\ status'[f] = "CONFIRMED"
      BY <1>1, <1>5, <2>1, <2>2, DealKept
    <2>4. /\ status[f] = "PENDING" /\ path[f] = "booking" /\ reserved[f] > 0
          /\ charged[f] # NoPayment /\ payment[charged[f]] = "AUTHORIZED"
      BY <2>1, <2>3 DEF BookingInv, FlowShape, RowFollowsFlow, SeatsThenRowThenMoney, ChargeIsKnown
    <2>5. released[f] = 0
      BY <1>1, <1>5, <2>1, <2>4 DEF BookingInv, UnwindsCleanly, TypeOK
    <2>6. DealOf(f) = "held"
      BY <1>1, <1>5, <2>4, <2>5, SeatsOutDeal
    <2>7. DealOf(f)' = "sold"
      BY <1>1, <1>5, <2>3, <2>4, <2>5 DEF DealOf, TypeOK
    <2>8. PurseOf(f) = "paid"
      <3>1. PICK k \in Attempts : charged[f] = <<f, k>>
        BY <2>1, <2>4, HeldChargeIsOwn DEF Ground
      <3>2. ChargesOf(f) # {}
        BY <2>4, <3>1 DEF ChargesOf
      <3>3. QED
        BY <3>2 DEF PurseOf
    <2>9. Promise!Sell(f)
      BY <1>1, <1>2, <1>3, <1>5, <2>1, <2>6, <2>7, <2>8, PromiseDeals DEF DealMoves
    <2>10. QED
      BY <1>5, <2>9 DEF Promise!PromiseNext
  <1>6. CASE f \in Cancels /\ ~DealStays(BookingOf(f))
    <2> DEFINE b == TargetOf[f]
    <2>1. BookingOf(f) = b /\ b \in Bookings /\ ConfirmedIsBacked
      BY <1>1, <1>6, FlowFacts, InvBacked DEF Ground
    <2>2. \/ status'[b] = status[b]
          \/ status[b] = "CONFIRMED" /\ status'[b] = "CANCELLED"
      BY <1>6, <2>1, FlowFacts DEF FlowMoves, Sends, Repeats, Crashes, Unwinds, Heard,
         CancelWrites, RowStays
    <2>3. status[b] = "CONFIRMED" /\ status'[b] = "CANCELLED"
      BY <1>1, <1>6, <2>1, <2>2, DealKept
    <2>4. reserved[b] > 0 /\ released[b] = 0
      BY <2>1, <2>3, GroundFacts DEF ConfirmedIsBacked
    <2>5. DealOf(b) = "sold"
      BY <1>1, <2>1, <2>3, <2>4, SeatsOutDeal
    <2>6. DealOf(b)' = "returning"
      BY <1>1, <2>1, <2>3, <2>4 DEF DealOf, TypeOK
    <2>7. Promise!TakeBack(b)
      BY <1>1, <1>2, <1>3, <2>1, <2>5, <2>6, PromiseDeals DEF DealMoves
    <2>8. QED
      BY <2>1, <2>7 DEF Promise!PromiseNext
  <1>7. QED
    BY <1>4, <1>5, <1>6, FlowFacts

LEMMA ExecutionKeepsPromise ==
    ASSUME Ground, PaidInv, NEW f \in Flows, NEW op \in Remote, NEW k \in Attempts,
           Executes(f, op, k) \/ Fails(f, op, k)
    PROVE  [Promise!PromiseNext]_Promise!promiseVars
  <1> DEFINE b == BookingOf(f)
  <1>1. PICK code : /\ Leaves(f, op, k, code)
                    /\ Execute(f, op, k, code) \/ (ServicesRest /\ code \in Client!Retryable)
    BY DEF Executes, Fails
  <1>2. Pays(f, op, k, code)
    BY <1>1, LeavesPays DEF Ground
  <1>3. \/ SeatsStay
        \/ op = "reserve" /\ code = "ok" /\ SeatsTaken(b)
        \/ op = "release" /\ code = "ok" /\ NamesEvent(f) /\ SeatsReturned(b)
    BY <1>1, ExecuteMoves, GroundFacts DEF ServicesRest, SeatsStay
  <1>4. /\ TypeOK /\ b \in Bookings /\ BookingInv(b) /\ ReservedOnce(b) /\ ReleasedOnce(b) /\ ChargedOnce(b)
        /\ <<f, op, k>> \in inFlight /\ status' = status /\ RequestInv(f, k)
        /\ \A a \in Bookings, j \in Attempts : <<a, j>> \in PaymentIds
        /\ f \in FlowsOf(b)
    BY <1>1, FlowFacts, GroundFacts DEF PaidInv, Leaves, Ground, IInv, PaymentIds
  <1>5. SeatsStay => available' = available /\ \A a \in Bookings : DealStays(a)
    BY <1>4, DealKept DEF SeatsStay
  <1>6. payment' = payment => \A a \in Bookings : PurseStays(a)
    BY PurseKept
  <1>7. CASE SeatsStay /\ payment' = payment
    BY <1>5, <1>6, <1>7, PromiseStutters
  <1>8. ASSUME op = "charge", f \in Bookings, NEW verdict \in {"AUTHORIZED", "DECLINED"},
               ChargeRuns(f, k, verdict), SeatsStay
        PROVE  [Promise!PromiseNext]_Promise!promiseVars
    <2>1. /\ b = f /\ Unpaid(f) /\ path[f] = "booking"
          /\ status[f] \notin {"none", "CONFIRMED", "CANCELLED"}
      BY <1>4, <1>8, ChargeIsFirst, FlowFacts
    <2>2. \A a \in Bookings : a # f => PurseStays(a)
      BY <1>4, <1>8, PurseKept DEF ChargeRuns
    <2>3. PurseOf(f) = "unpaid"
      BY <2>1 DEF Unpaid, PurseOf, ChargesOf
    <2>4. CASE verdict = "DECLINED"
      <3>1. \A j \in Attempts : payment'[<<f, j>>] \in {"none", "DECLINED"}
        BY <1>4, <1>8, <2>1, <2>4 DEF ChargeRuns, Unpaid
      <3>2. PurseOf(f)' = "unpaid"
        BY <3>1 DEF PurseOf, ChargesOf
      <3>3. QED
        BY <1>5, <1>8, <2>2, <2>3, <3>2, PromiseStutters DEF PurseStays
    <2>5. CASE verdict = "AUTHORIZED"
      <3>1. k \in ChargesOf(f)'
        BY <1>8, <2>5 DEF ChargeRuns, ChargesOf
      <3>2. PurseOf(f)' = "paid"
        BY <3>1 DEF PurseOf
      <3>3. reserved[f] > 0 /\ released[f] = 0
        BY <1>4, <2>1 DEF BookingInv, SeatsThenRowThenMoney, UnwindsCleanly, TypeOK
      <3>4. DealOf(f) = "held"
        BY <1>4, <2>1, <3>3, SeatsOutDeal
      <3>5. Promise!Pay(f)
        BY <1>5, <1>8, <2>2, <2>3, <3>2, <3>4, PromisePurses DEF PurseMoves
      <3>6. QED
        BY <1>8, <3>5 DEF Promise!PromiseNext
    <2>6. QED
      BY <2>4, <2>5
  <1>9. CASE op = "refund" /\ RefundRuns(f) /\ SeatsStay
    <2>1. PICK j \in Attempts : charged[f] = <<b, j>>
      BY <1>4, <1>9, HeldChargeIsOwn DEF RequestInv, Ground
    <2>2. \A a \in Bookings : a # b => PurseStays(a)
      BY <1>4, <1>9, <2>1, PurseKept DEF RefundRuns
    <2>3. PurseOf(b) = "paid"
      <3>1. j \in ChargesOf(b)
        BY <1>9, <2>1 DEF RefundRuns, ChargesOf
      <3>2. QED
        BY <3>1 DEF PurseOf
    <2>4. PurseOf(b)' = "refunded"
      <3>1. payment'[<<b, j>>] = "REFUNDED"
        BY <1>9, <2>1 DEF RefundRuns
      <3>2. \A i \in Attempts : payment'[<<b, i>>] # "AUTHORIZED"
        BY <1>4, <1>9, <2>1, <3>1 DEF RefundRuns, ChargedOnce
      <3>3. ChargesOf(b)' = {}
        BY <3>2 DEF ChargesOf
      <3>4. QED
        BY <3>1, <3>3 DEF PurseOf
    <2>5. DealOf(b) \in {"held", "returning"}
      BY <1>4, <1>9, UnwinderHolds
    <2>6. Promise!Reimburse(b)
      BY <1>4, <1>5, <1>9, <2>2, <2>3, <2>4, <2>5, PromisePurses DEF PurseMoves
    <2>7. QED
      BY <1>4, <2>6 DEF Promise!PromiseNext
  <1>10. CASE op = "reserve" /\ code = "ok" /\ SeatsTaken(b)
    <2>1. b = f /\ f \in Bookings
      BY <1>4, <1>10, FlowFacts DEF RequestInv
    <2>2. \A a \in Bookings : PurseStays(a)
      BY <1>2, <1>6, <1>10 DEF Pays
    <2>3. /\ reserved[b] = 0 /\ reserved'[b] = 1 /\ released'[b] = released[b]
          /\ \A a \in Bookings : a # b => reserved'[a] = reserved[a] /\ released'[a] = released[a]
      BY <1>4, <1>10, <2>1 DEF ReservedOnce, SeatsTaken, TypeOK
    <2>4. \A a \in Bookings : a # b => DealStays(a)
      BY <1>4, <2>3, DealKept
    <2>5. status[b] = "none" /\ released[b] = 0
      BY <1>4, <2>3 DEF BookingInv, SeatsThenRowThenMoney, ReleasedOnce, TypeOK
    <2>6. DealOf(b) = "open" /\ DealOf(b)' = "held"
      BY <1>4, <2>3, <2>5 DEF DealOf
    <2>7. Promise!Hold(b)
      BY <1>4, <1>10, <2>2, <2>4, <2>6, PromiseDeals DEF DealMoves, SeatsTaken
    <2>8. QED
      BY <1>4, <2>7 DEF Promise!PromiseNext
  <1>11. CASE op = "release" /\ code = "ok" /\ SeatsReturned(b)
    <2>1. \A a \in Bookings : PurseStays(a)
      BY <1>2, <1>6, <1>11 DEF Pays
    <2>2. /\ reserved[b] > 0 /\ released[b] = 0 /\ DealOf(b) \in {"held", "returning"}
      BY <1>4, <1>11, UnwinderHolds
    <2>3. /\ reserved'[b] = reserved[b] /\ released'[b] = 1
          /\ \A a \in Bookings : a # b => reserved'[a] = reserved[a] /\ released'[a] = released[a]
      BY <1>4, <1>11, <2>2 DEF SeatsReturned, TypeOK
    <2>4. \A a \in Bookings : a # b => DealStays(a)
      BY <1>4, <2>3, DealKept
    <2>5. DealOf(b)' = "closed"
      BY <1>4, <2>2, <2>3 DEF DealOf, TypeOK
    <2>6. PurseOf(b) # "paid"
      <3>1. ChargesOf(b) = {}
        BY <1>4, <1>11 DEF PaidInv, RefundedFirst, PastRefund
      <3>2. QED
        BY <3>1 DEF PurseOf
    <2>7. Promise!Return(b)
      BY <1>4, <1>11, <2>1, <2>2, <2>4, <2>5, <2>6, PromiseDeals DEF DealMoves, SeatsReturned
    <2>8. QED
      BY <1>4, <2>7 DEF Promise!PromiseNext
  <1>12. op \in {"charge", "refund"} => SeatsStay
    BY <1>3
  <1>13. QED
    BY <1>2, <1>3, <1>7, <1>8, <1>9, <1>10, <1>11, <1>12 DEF Pays

LEMMA InitKeepsPromise == Init => Promise!PromiseInit
  <1>1. SUFFICES ASSUME Init PROVE Promise!PromiseInit
    OBVIOUS
  <1>2. ASSUME NEW b \in Bookings PROVE DealOf(b) = "open" /\ PurseOf(b) = "unpaid"
    <2>1. reserved[b] = 0 /\ status[b] = "none" /\ \A k \in Attempts : payment[<<b, k>>] = "none"
      BY <1>1 DEF Init, PaymentIds
    <2>2. DealOf(b) = "open"
      BY <2>1 DEF DealOf
    <2>3. ChargesOf(b) = {}
      BY <2>1 DEF ChargesOf
    <2>4. PurseOf(b) = "unpaid"
      BY <2>1, <2>3 DEF PurseOf
    <2>5. QED
      BY <2>2, <2>4
  <1>3. QED
    BY <1>1, <1>2 DEF Init, Promise!PromiseInit

(* When outcomes are known and no refund or release uses up its retries,    *)
(* the saga implements the promise: seats are held before money is taken, a *)
(* booking is sold only while its seats are held and its money taken, and   *)
(* seats go back on sale only once no money is kept for them.  A crash may  *)
(* end a flow, and an event may be deleted, at any step (saga.go, Book and  *)
(* Cancel).                                                                 *)
THEOREM PromiseIsKept ==
    OutcomesKnown => (Spec /\ []UnwindingGetsThrough => KeepsPromise)
  <1>1. SUFFICES ASSUME OutcomesKnown
                 PROVE  Spec /\ []UnwindingGetsThrough => KeepsPromise
    OBVIOUS
  <1>2. IInv /\ OnceInv /\ PaidInv /\ [Next]_vars => [Promise!PromiseNext]_Promise!promiseVars
    <2>1. SUFFICES ASSUME IInv, OnceInv, PaidInv, [Next]_vars
                   PROVE  [Promise!PromiseNext]_Promise!promiseVars
      OBVIOUS
    <2>2. Ground
      BY <1>1, <2>1 DEF Ground
    <2>3. CASE NothingMoves
      BY <2>3, DealKept, PurseKept, PromiseStutters DEF NothingMoves, ServicesRest
    <2>4. QED
      BY <1>1, <2>1, <2>2, <2>3, MoveKeepsPromise, ExecutionKeepsPromise, Kinds
  <1>3. Spec => []OnceInv
    BY <1>1, OnceInvariance
  <1>4. Spec /\ []UnwindingGetsThrough => []PaidInv
    BY <1>1, PaidInvariance
  <1>5. QED
    BY InitKeepsPromise, <1>2, <1>3, <1>4, Invariance, PTL DEF Spec, KeepsPromise, Promise!PromiseSpec

-------------------------------------------------------------------------------
(* Seats at rest, of events that are still listed.                          *)

LEMMA ListingStays ==
    ASSUME TypeOK, [Next]_vars, NEW e \in Events, listing'[e] = "listed"
    PROVE  listing[e] = "listed"
  <1> USE DEF inventoryVars
  <1>1. ASSUME NEW f \in Flows, FlowStep(f) \/ Timeout(f) \/ HangUp(f) \/ Crash(f)
        PROVE  listing' = listing
    BY <1>1 DEF FlowStep, CommonStep, BookStep, Send, Retry, AfterRefund, AfterRelease, AfterNotify,
       AfterGetEvent, AfterReserve, CreateBooking, AfterCharge, Confirm, MarkFailed, MarkCancelled,
       Timeout, HangUp, Crash
  <1>2. ASSUME NEW f \in Flows, NEW op \in Remote, NEW k \in Attempts, ServiceStep(f, op, k)
        PROVE  listing' = listing
    <2>1. ASSUME NEW code, Execute(f, op, k, code) PROVE listing' = listing
      BY <2>1 DEF Execute, ExecuteInventory, ExecutePayment, ExecuteNotify, Inventory!GetEvent,
         Inventory!ReserveSeats, Inventory!ReleaseSeats, Inventory!AdjustSeats, Inventory!inventoryVars
    <2>2. QED
      BY <1>2, <2>1 DEF ServiceStep, Serve, ServeButAnswerError, ServerError, Refuse, Discard
  <1>3. CASE UNCHANGED vars
    BY <1>3 DEF vars
  <1>4. ASSUME NEW d \in Events, DeleteEvent(d) PROVE listing[e] = "listed"
    BY <1>4 DEF DeleteEvent, Inventory!DeleteEvent, TypeOK, Inventory!InventoryTypeOK
  <1>5. QED
    BY <1>1, <1>2, <1>3, <1>4 DEF Next

(* The release of a flow finds room for its seats.                          *)
LEMMA ReleaseSucceeds ==
    ASSUME Ground, SeatsCounted,
           NEW f \in Flows, listing[EventOf[BookingOf(f)]] = "listed", NamesEvent(f),
           NEW k \in Attempts, <<f, "release", k>> \in inFlight,
           NEW code, Execute(f, "release", k, code)
    PROVE  code = "ok"
  <1> DEFINE b == BookingOf(f)
             e == EventOf[b]
             holds == [a \in Bookings |-> IF a = b THEN 1 ELSE 0]
  <1>1. /\ b \in Bookings /\ e \in Events /\ SeatsOf[b] \in 1..10
        /\ available[e] \in Int /\ Capacity[e] \in Int /\ available[e] >= 0
    BY FlowFacts, GroundFacts, SagaAssumption DEF TypeOK, Inventory!InventoryTypeOK
  <1>2. reserved[b] > 0 /\ released[b] = 0
    BY UnwinderHolds
  <1>3. available[e] + Cardinality(SeatsFor(e, holds)) <= Capacity[e]
    <2>1. holds \in [Bookings -> {0, 1}]
      OBVIOUS
    <2>2. \A a \in Bookings : holds[a] = 1 => reserved[a] > 0 /\ released[a] = 0
      BY <1>2
    <2> HIDE DEF holds
    <2>3. QED
      BY <1>1, <2>1, <2>2, Room, GroundFacts DEF Ground
  <1>4. SeatsFor(e, holds) = Block(b, 1)
    <2>1. ASSUME NEW s PROVE s \in SeatsFor(e, holds) <=> s \in Block(b, 1)
      <3>1. s \in SeatsFor(e, holds) <=>
                \E a \in Bookings :
                    EventOf[a] = e /\ s \in ({a} \X (1..holds[a])) \X (1..SeatsOf[a])
        BY SeatsForMember
      <3>2. \A a \in Bookings : 1..holds[a] = IF a = b THEN {1} ELSE {}
        <4>1. 1..1 = {1} /\ 1..0 = {}
          OBVIOUS
        <4>2. \A a \in Bookings : holds[a] = IF a = b THEN 1 ELSE 0
          OBVIOUS
        <4> HIDE DEF holds
        <4>3. QED
          BY <4>1, <4>2
      <3> HIDE DEF holds
      <3>3. s \in SeatsFor(e, holds) <=> s \in ({b} \X {1}) \X (1..SeatsOf[b])
        BY <1>1, <3>1, <3>2
      <3>4. {b} \X {1} = {<<b, 1>>}
        OBVIOUS
      <3>5. QED
        BY <3>3, <3>4 DEF Block
    <2>2. QED
      BY <2>1
  <1>5. available[e] + SeatsOf[b] <= Capacity[e]
    BY <1>1, <1>3, <1>4, BlockSize
  <1>6. Inventory!ReleaseSeats(e, SeatsOf[b], code)
    BY DEF Execute, ExecuteInventory, ExecutePayment, ExecuteNotify
  <1>7. Inventory!AdjustSeats(e, SeatsOf[b], code)
    BY <1>1, <1>6 DEF Inventory!ReleaseSeats, Inventory!MaxSeatsPerRequest
  <1>8. QED
    BY <1>1, <1>5, <1>7 DEF Inventory!AdjustSeats

LEMMA ReturnedMoves ==
    ASSUME Ground, UnwindingGetsThrough, NEW f \in Flows, FlowMoves(f),
           NEW g \in Flows, Returned(g)
    PROVE  Returned(g)'
  <1>1. /\ OneRequest(g) /\ released' = released
        /\ g \in Bookings => BookingInv(g) /\ g \notin Cancels
        /\ g \in Cancels => CancelKnows(g) /\ g \notin Bookings
    BY GroundFacts, FlowFacts DEF FlowMoves, ServicesRest
  <1>2. CASE g # f
    BY <1>1, <1>2 DEF FlowMoves, OthersStay, Stays, Waits, Returned
  <1>3. CASE g = f /\ Sends(f)
    BY <1>1, <1>3, AnswerFacts DEF Sends, Stays, Returned
  <1>4. CASE g = f /\ Repeats(f)
    BY <1>1, <1>4, AnswerFacts DEF Repeats, Stays, Returned
  <1>5. CASE g = f /\ Crashes(f)
    BY <1>5 DEF Crashes, Returned
  <1>6. CASE g = f /\ Unwinds(f)
    <2>1. CASE pc[g] = "refund"
      BY <1>6, <2>1, AnswerFacts DEF Unwinds, Heard, Returned
    <2>2. CASE pc[g] = "release"
      <3>1. answer[g] \in Codes
        BY <1>6, <2>2, GroundFacts DEF Unwinds, Heard, UnwindingGetsThrough
      <3>2. answer[g] \in Client!Unanswered \cup Client!Retryable \cup {"ok"}
        BY <2>2 DEF Returned
      <3>3. answer[g] = "ok"
        BY <3>1, <3>2 DEF Codes, Client!Unanswered, Client!Retryable
      <3>4. released[BookingOf(g)] = 1
        BY <2>2, <3>3 DEF Returned
      <3>5. pc'[g] \in {"notify", "done"}
        BY <1>6, <2>2 DEF Unwinds
      <3>6. QED
        BY <1>1, <3>4, <3>5, FlowFacts DEF Returned
    <2>3. CASE pc[g] = "notify"
      BY <1>1, <1>6, <2>3 DEF Unwinds, Returned
    <2>4. QED
      BY <1>6, <2>1, <2>2, <2>3 DEF Unwinds
  <1>7. CASE g = f /\ f \in Bookings /\ BookingHears(f)
    BY <1>1, <1>7 DEF BookingHears, Returned, BookingInv, FlowShape
  <1>8. CASE g = f /\ f \in Bookings /\ BookingWrites(f)
    <2>1. answer'[g] = "idle"
      BY <1>1, <1>8 DEF BookingWrites, Waits, OneRequest, Remote
    <2>2. QED
      BY <1>1, <1>8, <2>1, AnswerFacts DEF BookingWrites, Returned, BookingInv, FlowShape
  <1>9. CASE g = f /\ f \in Cancels /\ CancelWrites(f)
    BY <1>1, <1>9 DEF CancelWrites, CancelKnows, Returned
  <1>10. QED
    BY <1>2, <1>3, <1>4, <1>5, <1>6, <1>7, <1>8, <1>9, GroundFacts DEF FlowMoves

LEMMA ReturnedLeaves ==
    ASSUME Ground, OnceInv', SeatsCounted,
           NEW f \in Flows, NEW op \in Remote, NEW k \in Attempts,
           Executes(f, op, k) \/ Fails(f, op, k),
           NEW g \in Flows, listing[EventOf[BookingOf(g)]] = "listed", NamesEvent(g), Returned(g)
    PROVE  Returned(g)'
  <1> DEFINE b == BookingOf(g)
  <1>1. PICK code : /\ Leaves(f, op, k, code)
                    /\ Execute(f, op, k, code) \/ (ServicesRest /\ code \in Client!Retryable)
    BY DEF Executes, Fails
  <1>2. \/ SeatsStay /\ ~(op \in {"reserve", "release"} /\ code = "ok")
        \/ op = "reserve" /\ code = "ok" /\ SeatsTaken(BookingOf(f))
        \/ op = "release" /\ code = "ok" /\ NamesEvent(f) /\ SeatsReturned(BookingOf(f))
    BY <1>1, ExecuteMoves, GroundFacts, AnswerFacts DEF ServicesRest, SeatsStay
  <1>3. /\ TypeOK /\ b \in Bookings /\ released[b] \in Nat /\ released'[b] <= 1
        /\ <<f, op, k>> \in inFlight /\ UNCHANGED <<pc, path, charged>>
        /\ \A a \in Bookings : released[a] \in Nat /\ released'[a] <= 1
    BY <1>1, FlowFacts, GroundFacts DEF Leaves, TypeOK, OnceInv, ReleasedOnce
  <1>4. \A a \in Bookings : released[a] = 1 => released'[a] = 1
    BY <1>2, <1>3, FlowFacts DEF SeatsStay, SeatsTaken, SeatsReturned, TypeOK
  <1>5. CASE answer'[g] = answer[g] \/ pc[g] # "release"
    BY <1>3, <1>4, <1>5, FlowFacts DEF Returned
  <1>6. CASE answer'[g] # answer[g] /\ pc[g] = "release"
    <2>1. g = f /\ op = "release" /\ answer'[g] = code
      BY <1>1, <1>6 DEF Leaves, Awaited
    <2>2. code = "ok" \/ code \in Client!Retryable
      BY <1>1, <1>3, <2>1, ReleaseSucceeds
    <2>3. code = "ok" => released'[b] = 1
      <3>1. SUFFICES ASSUME code = "ok" PROVE released'[b] = 1
        OBVIOUS
      <3>2. SeatsReturned(b)
        BY <1>2, <2>1, <3>1
      <3>3. released'[b] = released[b] + 1
        BY <1>3, <3>2 DEF SeatsReturned, TypeOK
      <3>4. QED
        BY <1>3, <3>3
    <2>4. QED
      BY <1>3, <1>6, <2>1, <2>2, <2>3 DEF Returned
  <1>7. QED
    BY <1>5, <1>6

(* A flow whose release names no event stays one.                           *)
LEMMA NamelessStays ==
    ASSUME Ground, [Next]_vars, NEW g \in Flows, NamesEvent(g)'
    PROVE  NamesEvent(g)
  <1>1. SUFFICES ASSUME path[g] = "persistFailed" PROVE path'[g] = path[g]
    BY DEF NamesEvent
  <1>2. g \in Bookings /\ BookingInv(g)
    BY <1>1, FlowFacts, GroundFacts DEF CancelKnows
  <1>3. pc[g] \notin {"create", "charge", "confirm"}
    BY <1>1, <1>2 DEF BookingInv, FlowShape
  <1>4. ASSUME NEW f \in Flows, FlowMoves(f) PROVE path'[g] = path[g]
    <2>1. CASE g # f
      BY <1>4, <2>1 DEF FlowMoves, OthersStay, Stays
    <2>2. CASE g = f
      BY <1>2, <1>3, <1>4, <2>2, FlowFacts DEF FlowMoves, Sends, Repeats, Crashes, Unwinds,
         BookingHears, BookingWrites, Stays
    <2>3. QED
      BY <2>1, <2>2
  <1>5. CASE \E f \in Flows, op \in Remote, k \in Attempts : Executes(f, op, k) \/ Fails(f, op, k)
    BY <1>5 DEF Executes, Fails, Leaves
  <1>6. CASE NothingMoves
    BY <1>6 DEF NothingMoves
  <1>7. QED
    BY <1>4, <1>5, <1>6, Kinds DEF Ground

LEMMA ReturnedInvariance ==
    OutcomesKnown => (Spec /\ []UnwindingGetsThrough => []ReturnedInv)
  <1>1. SUFFICES ASSUME OutcomesKnown PROVE Spec /\ []UnwindingGetsThrough => []ReturnedInv
    OBVIOUS
  <1>2. Init => ReturnedInv
    BY FlowFacts DEF Init, ReturnedInv, Returned
  <1>3. IInv /\ OnceInv /\ OnceInv' /\ SeatsCounted /\ UnwindingGetsThrough /\ ReturnedInv /\ [Next]_vars
            => ReturnedInv'
    <2>1. SUFFICES ASSUME IInv, OnceInv, OnceInv', SeatsCounted, UnwindingGetsThrough, ReturnedInv,
                          [Next]_vars, NEW g \in Flows,
                          listing'[EventOf[BookingOf(g)]] = "listed", NamesEvent(g)'
                   PROVE  Returned(g)'
      BY DEF ReturnedInv
    <2>2. Ground
      BY <1>1, <2>1 DEF Ground
    <2>3. listing[EventOf[BookingOf(g)]] = "listed" /\ NamesEvent(g)
      BY <2>1, <2>2, ListingStays, NamelessStays, GroundFacts, FlowFacts, SagaAssumption
    <2>4. Returned(g)
      BY <2>1, <2>3 DEF ReturnedInv
    <2>5. CASE NothingMoves
      BY <2>4, <2>5 DEF NothingMoves, ServicesRest, Returned
    <2>6. QED
      BY <1>1, <2>1, <2>2, <2>3, <2>4, <2>5, ReturnedMoves, ReturnedLeaves, Kinds
  <1>4. Spec => []OnceInv
    BY <1>1, OnceInvariance
  <1>5. QED
    BY <1>2, <1>3, <1>4, Invariance, CountInvariance, PTL DEF Spec

(* When outcomes are known, nothing crashes and no refund or release uses   *)
(* up its retries, the seats of a listed event still out in the end are     *)
(* exactly those of the confirmed bookings and of those whose row could not *)
(* be inserted (saga.go, Book and Cancel).                                  *)
THEOREM SeatsComeOutRight ==
    OutcomesKnown /\ ProcessesLive =>
        (Spec /\ []UnwindingGetsThrough => []SeatsExactAtRest)
  <1>1. SUFFICES ASSUME OutcomesKnown, ProcessesLive
                 PROVE  Spec /\ []UnwindingGetsThrough => []SeatsExactAtRest
    OBVIOUS
  <1>2. IInv /\ OnceInv /\ PaidInv /\ ReturnedInv /\ Alive => SeatsExactAtRest
    <2>1. SUFFICES ASSUME IInv, OnceInv, PaidInv, ReturnedInv, Alive, AtRest, NEW b \in Bookings,
                          listing[EventOf[b]] = "listed"
                   PROVE  reserved[b] - released[b] =
                              IF status[b] = "CONFIRMED" \/ path[b] = "persistFailed" THEN 1 ELSE 0
      BY DEF SeatsExactAtRest
    <2>2. Ground
      BY <1>1, <2>1 DEF Ground
    <2>3. /\ BookingInv(b) /\ ReleasedOnce(b) /\ ReservedOnce(b) /\ b \in Flows
          /\ reserved[b] \in Nat /\ released[b] \in Nat /\ BookingOf(b) = b
      BY <2>1 DEF PaidInv, OnceInv, IInv, TypeOK, Flows, BookingOf
    <2>4. reserved[b] <= 1 /\ (reserved[b] = 0 => released[b] = 0)
      BY <2>3 DEF ReleasedOnce, ReservedOnce
    <2>5. CASE reserved[b] = 0 /\ status[b] = "none" /\ path[b] = "booking"
      BY <2>3, <2>4, <2>5
    <2>6. CASE status[b] = "CONFIRMED"
      <3>1. reserved[b] > 0 /\ released[b] = 0
        BY <2>1, <2>2, <2>6, InvBacked, GroundFacts DEF ConfirmedIsBacked
      <3>2. QED
        BY <2>3, <2>4, <2>6, <3>1
    <2>7. CASE /\ status[b] = "CANCELLED" /\ path[b] = "booking"
               /\ \E c \in Cancels : TargetOf[c] = b /\ charged[c] # NoPayment /\ pc[c] = "done"
      <3>1. PICK c \in Cancels : TargetOf[c] = b /\ charged[c] # NoPayment /\ pc[c] = "done"
        BY <2>7
      <3>2. c \in Flows /\ BookingOf(c) = b /\ NamesEvent(c)
        BY <2>2, <3>1, FlowFacts, GroundFacts DEF Flows, CancelKnows, NamesEvent
      <3>3. released[b] = 1
        BY <2>1, <3>1, <3>2 DEF ReturnedInv, Returned
      <3>4. QED
        BY <2>3, <2>4, <2>7, <3>3
    <2>8. CASE path[b] # "booking" /\ status[b] # "CONFIRMED" /\ pc[b] = "done"
      <3>1. path[b] = "persistFailed" => reserved[b] > 0 /\ released[b] = 0
        BY <2>3 DEF ReleasedOnce
      <3>2. path[b] # "persistFailed" => released[b] = 1
        BY <2>1, <2>3, <2>8 DEF ReturnedInv, Returned, NamesEvent
      <3>3. QED
        BY <2>3, <2>4, <2>8, <3>1, <3>2
    <2>9. QED
      BY <2>1, <2>2, <2>5, <2>6, <2>7, <2>8, Endings
  <1>3. Spec => []OnceInv
    BY <1>1, OnceInvariance
  <1>4. Spec => []Alive
    BY <1>1, AliveInvariance
  <1>5. Spec /\ []UnwindingGetsThrough => []PaidInv /\ []ReturnedInv
    BY <1>1, PaidInvariance, ReturnedInvariance
  <1>6. QED
    BY <1>2, <1>3, <1>4, <1>5, Invariance, PTL

-------------------------------------------------------------------------------
(* The hypothesis on the behaviour follows from a bound on its faults: when *)
(* outcomes are known and no more faults happen than a call has retries,    *)
(* messages are true and the promise is kept; when no process dies, either, *)
(* money and seats come out right (saga.go, Book and Cancel, with the       *)
(* retries of httpx, Client.Do).                                            *)
THEOREM FewFaultsAreMasked ==
    OutcomesKnown /\ MaxFaults <= Retries =>
        /\ Spec => []MessagesAreTrue
        /\ Spec => KeepsPromise
        /\ ProcessesLive => (Spec => []MoneyExactAtRest)
        /\ ProcessesLive => (Spec => []SeatsExactAtRest)
  <1>1. SUFFICES ASSUME OutcomesKnown, MaxFaults <= Retries
                 PROVE  /\ Spec => []MessagesAreTrue
                        /\ Spec => KeepsPromise
                        /\ ProcessesLive => (Spec => []MoneyExactAtRest)
                        /\ ProcessesLive => (Spec => []SeatsExactAtRest)
    OBVIOUS
  <1>2. Spec => []UnwindingGetsThrough
    BY <1>1, UnwindingSucceeds DEF OutcomesKnown
  <1>3. Spec => []MessagesAreTrue
    <2>1. Spec /\ []UnwindingGetsThrough => []MessagesAreTrue
      BY <1>1, MessagesTellTheTruth
    <2>2. QED
      BY <1>2, <2>1, PTL
  <1>4. Spec => KeepsPromise
    <2>1. Spec /\ []UnwindingGetsThrough => KeepsPromise
      BY <1>1, PromiseIsKept
    <2>2. QED
      BY <1>2, <2>1, PTL
  <1>5. ASSUME ProcessesLive PROVE Spec => []MoneyExactAtRest
    <2>1. Spec /\ []UnwindingGetsThrough => []MoneyExactAtRest
      BY <1>1, <1>5, MoneyComesOutRight
    <2>2. QED
      BY <1>2, <2>1, PTL
  <1>6. ASSUME ProcessesLive PROVE Spec => []SeatsExactAtRest
    <2>1. Spec /\ []UnwindingGetsThrough => []SeatsExactAtRest
      BY <1>1, <1>6, SeatsComeOutRight
    <2>2. QED
      BY <1>2, <2>1, PTL
  <1>7. QED
    BY <1>3, <1>4, <1>5, <1>6

(* The invariants behind these theorems hold together as far as the faults  *)
(* allow: the saga does everything once.                                    *)
THEOREM FlowsActOnce == Spec => []OnceOnly
  <1> DEFINE Spent == \A f \in Flows : FaultsSpent(f)
             Few == OutcomesKnown /\ MaxFaults <= Retries
  <1>1. OutcomesKnown => AnswersArrive
    BY DEF OutcomesKnown
  <1>2. CASE ~AnswersArrive
    <2>1. OnceOnly
      BY <1>1, <1>2 DEF OnceOnly
    <2>2. QED
      BY <2>1, PTL
  <1>3. CASE AnswersArrive /\ ~OutcomesKnown
    <2>1. Spent => OnceOnly
      BY <1>3 DEF OnceOnly
    <2>2. Spec => []Spent
      BY <1>3, FaultsSpentInvariance
    <2> HIDE DEF Spent
    <2>3. QED
      BY <2>1, <2>2, PTL
  <1>4. CASE OutcomesKnown /\ ~Few
    <2>1. OnceInv /\ Spent => OnceOnly
      BY <1>4 DEF OnceOnly
    <2>2. (Spec => []OnceInv) /\ (Spec => []Spent)
      BY <1>1, <1>4, OnceInvariance, FaultsSpentInvariance
    <2> HIDE DEF Spent
    <2>3. QED
      BY <2>1, <2>2, PTL
  <1>5. CASE Few
    <2>1. OnceInv /\ Spent /\ PaidInv /\ ReturnedInv => OnceOnly
      BY DEF OnceOnly
    <2>2. (Spec => []OnceInv) /\ (Spec => []Spent)
      BY <1>1, <1>5, OnceInvariance, FaultsSpentInvariance
    <2>3. Spec => []UnwindingGetsThrough
      BY <1>1, <1>5, UnwindingSucceeds
    <2>4. /\ Spec /\ []UnwindingGetsThrough => []PaidInv
          /\ Spec /\ []UnwindingGetsThrough => []ReturnedInv
      BY <1>5, PaidInvariance, ReturnedInvariance
    <2> HIDE DEF Spent, Few
    <2>5. QED
      BY <2>1, <2>2, <2>3, <2>4, PTL
  <1>6. QED
    BY <1>2, <1>3, <1>4, <1>5
===============================================================================
