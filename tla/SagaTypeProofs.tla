---------------------------- MODULE SagaTypeProofs ----------------------------
(***************************************************************************)
(* Type correctness of the saga and conservation of seats, for every set   *)
(* of events, bookings, cancellations and faults, and every number of      *)
(* retries.                                                                *)
(***************************************************************************)
EXTENDS SagaInvariant, FiniteSetTheorems, TLAPS

-------------------------------------------------------------------------------
(* Type correctness.                                                        *)

LEMMA InitType == Init => TypeOK
  <1>1. SUFFICES ASSUME Init PROVE TypeOK
    OBVIOUS
  <1>2. Inventory!InventoryTypeOK
    BY <1>1, SagaAssumption DEF Init, Inventory!InventoryTypeOK
  <1>3. PaymentsOf!PaymentTypeOK /\ Table!BookingTypeOK
    BY <1>1 DEF Init, PaymentsOf!PaymentTypeOK, Table!BookingTypeOK
  <1>4. Client!ClientTypeOK
    BY <1>1, SagaAssumption DEF Init, Client!ClientInit, Client!ClientTypeOK,
       Client!Attempts, Client!Unanswered
  <1>5. QED
    BY <1>1, <1>2, <1>3, <1>4, SagaAssumption DEF Init, TypeOK, Paths, Remote, Local

LEMMA EndCallType ==
    ASSUME NEW f \in Flows, Client!ClientTypeOK, Client!EndCall(f)
    PROVE  Client!ClientTypeOK'
  BY SagaAssumption DEF Client!EndCall, Client!ClientTypeOK, Client!Attempts, Client!Unanswered

LEMMA AnswerType ==
    ASSUME Client!ClientTypeOK, NEW f \in Flows, NEW op, NEW k, NEW awaited \in BOOLEAN,
           NEW code \in Codes \cup {"lost", "internal_error"},
           Client!Answer(f, op, k, awaited, code)
    PROVE  Client!ClientTypeOK'
  BY DEF Client!Answer, Client!ClientTypeOK, Client!Retryable

LEMMA FaultType ==
    ASSUME faults \in 0..MaxFaults, NEW kind, Fault(kind)
    PROVE  faults' \in 0..MaxFaults
  BY SagaAssumption DEF Fault

LEMMA ExecuteType ==
    ASSUME TypeOK, NEW f \in Flows, NEW op \in Remote, NEW k \in Attempts,
           NEW code \in Codes, Execute(f, op, k, code)
    PROVE  /\ Inventory!InventoryTypeOK'
           /\ PaymentsOf!PaymentTypeOK'
           /\ told' \in [Bookings -> SUBSET {"confirmed", "failed", "cancelled"}]
           /\ reserved' \in [Bookings -> Nat]
           /\ released' \in [Bookings -> Nat]
  <1>1. CASE ExecuteInventory(f, op, code)
    <2> DEFINE b == BookingOf(f)
               e == EventOf[b]
    <2>1. b \in Bookings /\ e \in Events /\ SeatsOf[b] \in Int /\ Capacity[e] \in Nat
      BY SagaAssumption DEF BookingOf, Flows
    <2>2. PaymentsOf!PaymentTypeOK' /\ told' \in [Bookings -> SUBSET {"confirmed", "failed", "cancelled"}]
      BY <1>1 DEF ExecuteInventory, TypeOK, PaymentsOf!PaymentTypeOK
    <2>3. reserved' \in [Bookings -> Nat] /\ released' \in [Bookings -> Nat]
      BY <1>1, <2>1 DEF ExecuteInventory, TypeOK, Count
    <2>4. CASE Inventory!GetEvent(e, code)
      BY <2>2, <2>3, <2>4 DEF Inventory!GetEvent, Inventory!inventoryVars,
         TypeOK, Inventory!InventoryTypeOK
    <2>5. ASSUME NEW delta \in Int, Inventory!AdjustSeats(e, delta, code)
          PROVE  Inventory!InventoryTypeOK'
      BY <2>1, <2>5 DEF Inventory!AdjustSeats, Inventory!inventoryVars,
         TypeOK, Inventory!InventoryTypeOK
    <2>6. CASE Inventory!ReserveSeats(e, SeatsOf[b], code)
      <3>1. CASE UNCHANGED inventoryVars
        BY <3>1, <2>2, <2>3 DEF inventoryVars, TypeOK, Inventory!InventoryTypeOK
      <3>2. CASE Inventory!AdjustSeats(e, -SeatsOf[b], code)
        <4>1. -SeatsOf[b] \in Int
          BY <2>1
        <4>2. QED
          BY <3>2, <4>1, <2>5, <2>2, <2>3
      <3>3. QED
        BY <2>6, <3>1, <3>2 DEF Inventory!ReserveSeats, Inventory!inventoryVars, inventoryVars
    <2>7. CASE Inventory!ReleaseSeats(e, SeatsOf[b], code)
      <3>1. CASE UNCHANGED inventoryVars
        BY <3>1, <2>2, <2>3 DEF inventoryVars, TypeOK, Inventory!InventoryTypeOK
      <3>2. CASE Inventory!AdjustSeats(e, SeatsOf[b], code)
        BY <3>2, <2>1, <2>5, <2>2, <2>3
      <3>3. QED
        BY <2>7, <3>1, <3>2 DEF Inventory!ReleaseSeats, Inventory!inventoryVars, inventoryVars
    <2>8. CASE UNCHANGED inventoryVars
      BY <2>2, <2>3, <2>8 DEF inventoryVars, TypeOK, Inventory!InventoryTypeOK
    <2>9. QED
      BY <1>1, <2>4, <2>6, <2>7, <2>8 DEF ExecuteInventory
  <1>2. CASE ExecutePayment(f, op, k, code)
    <2>1. PaymentsOf!PaymentTypeOK'
      BY <1>2, SagaAssumption DEF ExecutePayment, PaymentsOf!Charge, PaymentsOf!Refund,
         PaymentsOf!PaymentTypeOK, TypeOK
    <2>2. QED
      BY <1>2, <2>1 DEF ExecutePayment, TypeOK, inventoryVars, Inventory!InventoryTypeOK
  <1>3. CASE ExecuteNotify(f, op, code)
    <2>1. Message(f) \in {"confirmed", "failed", "cancelled"}
      BY DEF Message
    <2>2. told' \in [Bookings -> SUBSET {"confirmed", "failed", "cancelled"}]
      BY <1>3, <2>1 DEF ExecuteNotify, TypeOK
    <2>3. QED
      BY <1>3, <2>2 DEF ExecuteNotify, TypeOK, inventoryVars, Inventory!InventoryTypeOK,
         PaymentsOf!PaymentTypeOK
  <1>4. QED
    BY <1>1, <1>2, <1>3 DEF Execute

(* A call that comes back leaves the clients and the fault count well       *)
(* typed, and so does a write the table fails.                              *)
LEMMA CallReturnsType ==
    ASSUME TypeOK, NEW f \in Flows, NEW result, CallReturns(f, result)
    PROVE  Client!ClientTypeOK' /\ faults' \in 0..MaxFaults
  <1>1. Client!ClientTypeOK'
    BY EndCallType DEF CallReturns, TypeOK
  <1>2. faults' \in 0..MaxFaults
    BY FaultType DEF CallReturns, TypeOK
  <1>3. QED
    BY <1>1, <1>2

LEMMA UpdateStatusType ==
    ASSUME Table!BookingTypeOK, NEW b \in Bookings, NEW new \in Table!Statuses,
           NEW from, NEW p \in PaymentIds \cup {NoPayment}, NEW code,
           Table!UpdateStatus(b, new, from, p, code)
    PROVE  Table!BookingTypeOK'
  BY DEF Table!UpdateStatus, Table!BookingTypeOK, Table!bookingVars

LEMMA TableErrsType ==
    ASSUME TypeOK, NEW f \in Flows, NEW b \in Bookings, NEW new \in Table!Statuses,
           NEW from, NEW p \in PaymentIds \cup {NoPayment},
           TableErrs(f, Table!UpdateStatus(b, new, from, p, "ok"))
    PROVE  Table!BookingTypeOK' /\ faults' \in 0..MaxFaults
  <1>1. Table!BookingTypeOK'
    <2>1. CASE UNCHANGED bookingVars
      BY <2>1 DEF bookingVars, TypeOK, Table!BookingTypeOK
    <2>2. CASE Table!UpdateStatus(b, new, from, p, "ok")
      BY <2>2, UpdateStatusType DEF TypeOK
    <2>3. QED
      BY <2>1, <2>2 DEF TableErrs
  <1>2. faults' \in 0..MaxFaults
    BY FaultType DEF TableErrs, TypeOK
  <1>3. QED
    BY <1>1, <1>2

LEMMA NextType == TypeOK /\ [Next]_vars => TypeOK'
  <1> SUFFICES ASSUME TypeOK, [Next]_vars PROVE TypeOK'
    OBVIOUS
  <1> USE DEF inventoryVars, bookingVars, clientVars, flowVars, historyVars
  <1> DEFINE Steps == Remote \cup Local \cup {"done", "crashed"}
             ServicesTypeOK ==
                 /\ Inventory!InventoryTypeOK
                 /\ PaymentsOf!PaymentTypeOK
                 /\ told \in [Bookings -> SUBSET {"confirmed", "failed", "cancelled"}]
                 /\ reserved \in [Bookings -> Nat]
                 /\ released \in [Bookings -> Nat]
             FlowTypeOK ==
                 /\ pc \in [Flows -> Steps]
                 /\ path \in [Flows -> Paths]
                 /\ charged \in [Flows -> PaymentIds \cup {NoPayment}]
                 /\ hungUp \in [Flows -> BOOLEAN]
  <1>1. TypeOK <=> /\ ServicesTypeOK
                   /\ Table!BookingTypeOK
                   /\ Client!ClientTypeOK
                   /\ FlowTypeOK
                   /\ faults \in 0..MaxFaults
    BY DEF TypeOK
  <1>2. TypeOK' <=> /\ ServicesTypeOK'
                    /\ Table!BookingTypeOK'
                    /\ Client!ClientTypeOK'
                    /\ FlowTypeOK'
                    /\ faults' \in 0..MaxFaults
    BY DEF TypeOK
  <1>3. ASSUME UNCHANGED <<inventoryVars, payment, historyVars>> PROVE ServicesTypeOK'
    BY <1>1, <1>3 DEF Inventory!InventoryTypeOK, PaymentsOf!PaymentTypeOK
  <1>4. ASSUME UNCHANGED bookingVars PROVE Table!BookingTypeOK'
    BY <1>1, <1>4 DEF Table!BookingTypeOK
  <1>5. ASSUME UNCHANGED clientVars PROVE Client!ClientTypeOK'
    BY <1>1, <1>5 DEF Client!ClientTypeOK
  <1> HIDE DEF ServicesTypeOK
  <1>6. ASSUME NEW f \in Flows, CommonStep(f) PROVE TypeOK'
    <2>1. CASE Send(f)
      <3>1. pc[f] \in Remote /\ attempt[f] \in Client!Attempts
        BY <2>1 DEF Send, TypeOK, Client!ClientTypeOK
      <3>2. Client!ClientTypeOK'
        BY <2>1, <3>1, <1>1 DEF Send, Client!Send, Client!ClientTypeOK, Client!Unanswered,
           Client!Requests
      <3>3. QED
        BY <2>1, <3>2, <1>1, <1>2, <1>3, <1>4 DEF Send
    <2>2. CASE Retry(f)
      <3>1. Client!ClientTypeOK'
        BY <2>2, <1>1, SagaAssumption DEF Retry, Client!Retry, Client!ClientTypeOK,
           Client!Unanswered, Client!Attempts
      <3>2. QED
        BY <2>2, <3>1, <1>1, <1>2, <1>3, <1>4 DEF Retry
    <2>3. CASE AfterRefund(f)
      <3>1. FlowTypeOK'
        BY <2>3, <1>1 DEF AfterRefund, Goto, Remote
      <3>2. QED
        BY <2>3, <3>1, <1>1, <1>2, <1>3, <1>4, CallReturnsType DEF AfterRefund
    <2>4. CASE AfterRelease(f)
      <3>1. FlowTypeOK'
        BY <2>4, <1>1 DEF AfterRelease, Goto, Remote
      <3>2. QED
        BY <2>4, <3>1, <1>1, <1>2, <1>3, <1>4, CallReturnsType DEF AfterRelease
    <2>5. CASE AfterNotify(f)
      <3>1. FlowTypeOK'
        BY <2>5, <1>1 DEF AfterNotify, Goto, Remote
      <3>2. QED
        BY <2>5, <3>1, <1>1, <1>2, <1>3, <1>4, CallReturnsType DEF AfterNotify
    <2>6. QED
      BY <1>6, <2>1, <2>2, <2>3, <2>4, <2>5 DEF CommonStep
  <1>7. ASSUME NEW f \in Bookings, BookStep(f) PROVE TypeOK'
    <2>0. f \in Flows /\ charged[f] \in PaymentIds \cup {NoPayment}
      BY <1>1 DEF Flows
    <2>1. CASE AfterGetEvent(f)
      <3>1. FlowTypeOK'
        BY <2>1, <1>1 DEF AfterGetEvent, Goto, Remote
      <3>2. QED
        BY <2>0, <2>1, <3>1, <1>1, <1>2, <1>3, <1>4, CallReturnsType DEF AfterGetEvent
    <2>2. CASE AfterReserve(f)
      <3>1. FlowTypeOK'
        BY <2>2, <1>1 DEF AfterReserve, Goto, Local
      <3>2. QED
        BY <2>0, <2>2, <3>1, <1>1, <1>2, <1>3, <1>4, CallReturnsType DEF AfterReserve
    <2>3. CASE CreateBooking(f)
      <3>1. FlowTypeOK'
        BY <2>3, <1>1 DEF CreateBooking, Goto, GoUnwind, Remote, Paths
      <3>2. ASSUME Table!Create(f, "ok") PROVE Table!BookingTypeOK'
        BY <3>2, <1>1 DEF Table!Create, Table!BookingTypeOK, Table!Statuses
      <3>3. Table!BookingTypeOK'
        BY <2>3, <3>2, <1>4 DEF CreateBooking, TableErrs
      <3>4. faults' \in 0..MaxFaults
        BY <2>3, <1>1, FaultType DEF CreateBooking, TableErrs
      <3>5. QED
        BY <2>3, <3>1, <3>3, <3>4, <1>2, <1>3, <1>5 DEF CreateBooking
    <2>4. CASE AfterCharge(f)
      <3>1. attempt[f] \in Attempts
        BY <2>0, <1>1 DEF Client!ClientTypeOK, Client!Attempts, Attempts
      <3>2. FlowTypeOK'
        BY <2>4, <3>1, <1>1 DEF AfterCharge, Goto, GoUnwind, Local, Paths, PaymentIds
      <3>3. QED
        BY <2>0, <2>4, <3>2, <1>1, <1>2, <1>3, <1>4, CallReturnsType DEF AfterCharge
    <2>5. CASE Confirm(f)
      <3>1. FlowTypeOK'
        BY <2>5, <1>1 DEF Confirm, Goto, GoUnwind, Remote, Paths
      <3>2. "CONFIRMED" \in Table!Statuses
        BY DEF Table!Statuses
      <3>3. Table!BookingTypeOK' /\ faults' \in 0..MaxFaults
        BY <2>0, <2>5, <3>2, <1>1, UpdateStatusType, TableErrsType DEF Confirm
      <3>4. QED
        BY <2>5, <3>1, <3>3, <1>2, <1>3, <1>5 DEF Confirm
    <2>6. CASE MarkFailed(f)
      <3>1. FlowTypeOK'
        BY <2>6, <1>1 DEF MarkFailed, Goto, Remote
      <3>2. "FAILED" \in Table!Statuses
        BY DEF Table!Statuses
      <3>3. Table!BookingTypeOK' /\ faults' \in 0..MaxFaults
        BY <2>0, <2>6, <3>2, <1>1, UpdateStatusType, TableErrsType DEF MarkFailed
      <3>4. QED
        BY <2>6, <3>1, <3>3, <1>2, <1>3, <1>5 DEF MarkFailed
    <2>7. QED
      BY <1>7, <2>1, <2>2, <2>3, <2>4, <2>5, <2>6 DEF BookStep
  <1>8. ASSUME NEW f \in Cancels, MarkCancelled(f) PROVE TypeOK'
    <2>1. f \in Flows /\ BookingOf(f) \in Bookings
      BY SagaAssumption DEF Flows, BookingOf
    <2>2. paymentOf[BookingOf(f)] \in PaymentIds \cup {NoPayment}
      BY <2>1, <1>1 DEF Table!BookingTypeOK
    <2>3. FlowTypeOK'
      BY <1>8, <2>2, <1>1 DEF MarkCancelled, AfterCancel, Goto, Remote
    <2>4. "CANCELLED" \in Table!Statuses
      BY DEF Table!Statuses
    <2>5. Table!BookingTypeOK' /\ faults' \in 0..MaxFaults
      BY <1>8, <2>1, <2>4, <1>1, UpdateStatusType, TableErrsType DEF MarkCancelled
    <2>6. QED
      BY <1>8, <2>3, <2>5, <1>2, <1>3, <1>5 DEF MarkCancelled
  <1>9. ASSUME NEW f \in Flows, Timeout(f) \/ HangUp(f) \/ Crash(f) PROVE TypeOK'
    <2>1. CASE Timeout(f)
      <3>1. Client!ClientTypeOK'
        BY <2>1, <1>1 DEF Timeout, Client!Timeout, Client!ClientTypeOK, Client!Retryable
      <3>2. QED
        BY <2>1, <3>1, <1>1, <1>2, <1>3, <1>4, FaultType DEF Timeout
    <2>2. CASE HangUp(f)
      BY <2>2, <1>1, <1>2, <1>3, <1>4, <1>5, FaultType DEF HangUp
    <2>3. CASE Crash(f)
      <3>1. FlowTypeOK'
        BY <2>3, <1>1 DEF Crash, Goto
      <3>2. QED
        BY <2>3, <3>1, <1>1, <1>2, <1>3, <1>4, FaultType, EndCallType DEF Crash
    <2>4. QED
      BY <1>9, <2>1, <2>2, <2>3
  <1>10. ASSUME NEW f \in Flows, NEW op \in Remote, NEW k \in Attempts,
                ServiceStep(f, op, k)
         PROVE  TypeOK'
    <2>0. "lost" \in Codes \cup {"lost", "internal_error"} /\ "ok" \in Codes
      BY DEF Codes
    <2>1. CASE Serve(f, op, k)
      <3>1. PICK code \in Codes : /\ Execute(f, op, k, code)
                                  /\ Client!Answer(f, op, k, pc[f] = op, code)
        BY <2>1 DEF Serve
      <3>2. Client!ClientTypeOK'
        BY <3>1, <1>1, AnswerType
      <3>3. ServicesTypeOK'
        BY <3>1, ExecuteType DEF ServicesTypeOK
      <3>4. QED
        BY <2>1, <3>2, <3>3, <1>1, <1>2, <1>4 DEF Serve
    <2>2. CASE ServeButAnswerError(f, op, k)
      <3>1. Client!ClientTypeOK'
        BY <2>2, <1>1, AnswerType DEF ServeButAnswerError
      <3>2. ServicesTypeOK'
        BY <2>0, <2>2, ExecuteType DEF ServicesTypeOK, ServeButAnswerError
      <3>3. QED
        BY <2>2, <3>1, <3>2, <1>1, <1>2, <1>4, FaultType DEF ServeButAnswerError
    <2>3. CASE ServerError(f, op, k)
      BY <2>3, <1>1, <1>2, <1>3, <1>4, AnswerType, FaultType DEF ServerError
    <2>4. CASE Refuse(f, op, k)
      BY <2>0, <2>4, <1>1, <1>2, <1>3, <1>4, AnswerType, FaultType DEF Refuse
    <2>5. CASE Discard(f, op, k)
      BY <2>0, <2>5, <1>1, <1>2, <1>3, <1>4, AnswerType DEF Discard
    <2>6. QED
      BY <1>10, <2>1, <2>2, <2>3, <2>4, <2>5 DEF ServiceStep
  <1>11. ASSUME NEW e \in Events, DeleteEvent(e) PROVE TypeOK'
    <2>1. ServicesTypeOK'
      BY <1>11, <1>1 DEF DeleteEvent, Inventory!DeleteEvent, Inventory!InventoryTypeOK,
         ServicesTypeOK, PaymentsOf!PaymentTypeOK
    <2>2. QED
      BY <1>11, <2>1, <1>1, <1>2, <1>4, <1>5, FaultType DEF DeleteEvent
  <1>12. CASE UNCHANGED vars
    BY <1>12, <1>1, <1>2, <1>3, <1>4, <1>5 DEF vars
  <1>13. QED
    BY <1>6, <1>7, <1>8, <1>9, <1>10, <1>11, <1>12 DEF Next, FlowStep

(* Every reachable state is well typed; with it, the seats on sale of an    *)
(* event never fall below zero nor exceed its total (event-service's        *)
(* contract for AdjustSeats).                                               *)
THEOREM TypeCorrect == Spec => []TypeOK
  <1>1. QED
    BY InitType, NextType, PTL DEF Spec

-------------------------------------------------------------------------------
(* Conservation of seats.  A sum of seats is the number of elements of a    *)
(* set, so that the facts about finite sets stand in for an induction.      *)

LEMMA SeatsForMember ==
    ASSUME NEW e, NEW times, NEW s
    PROVE  s \in SeatsFor(e, times) <=>
               \E b \in Bookings :
                   /\ EventOf[b] = e
                   /\ s \in ({b} \X (1..times[b])) \X (1..SeatsOf[b])
  BY DEF SeatsFor

(* The seats one booking takes or returns at a time.                        *)
Block(b, n) == {<<b, n>>} \X (1..SeatsOf[b])

LEMMA BlockSize ==
    ASSUME NEW b \in Bookings, NEW n
    PROVE  IsFiniteSet(Block(b, n)) /\ Cardinality(Block(b, n)) = SeatsOf[b]
  <1>1. SeatsOf[b] \in Nat /\ SeatsOf[b] >= 1
    BY SagaAssumption
  <1>2. IsFiniteSet(1..SeatsOf[b]) /\ Cardinality(1..SeatsOf[b]) = SeatsOf[b]
    BY <1>1, FS_Interval
  <1>3. IsFiniteSet({<<b, n>>}) /\ Cardinality({<<b, n>>}) = 1
    BY FS_Singleton
  <1>4. /\ IsFiniteSet(Block(b, n))
        /\ Cardinality(Block(b, n)) = Cardinality({<<b, n>>}) * Cardinality(1..SeatsOf[b])
    BY <1>2, <1>3, FS_Product DEF Block
  <1>5. QED
    BY <1>1, <1>2, <1>3, <1>4

LEMMA DisjointUnion ==
    ASSUME NEW S, NEW T, IsFiniteSet(S), IsFiniteSet(T), S \cap T = {}
    PROVE  /\ IsFiniteSet(S \cup T)
           /\ Cardinality(S \cup T) = Cardinality(S) + Cardinality(T)
           /\ Cardinality(S) \in Nat /\ Cardinality(T) \in Nat
  <1>1. /\ IsFiniteSet(S \cup T)
        /\ Cardinality(S \cup T) = Cardinality(S) + Cardinality(T) - Cardinality(S \cap T)
    BY FS_Union
  <1>2. Cardinality(S \cap T) = 0
    BY FS_EmptySet
  <1>3. Cardinality(S) \in Nat /\ Cardinality(T) \in Nat
    BY FS_CardinalityType
  <1>4. QED
    BY <1>1, <1>2, <1>3

(* Counting booking b once more adds its seats to its own event's.          *)
LEMMA OnceMore ==
    ASSUME NEW times \in [Bookings -> Nat], NEW b \in Bookings, NEW e,
           IsFiniteSet(SeatsFor(e, times))
    PROVE  LET more == [times EXCEPT ![b] = @ + 1]
           IN  /\ IsFiniteSet(SeatsFor(e, more))
               /\ Cardinality(SeatsFor(e, more)) =
                      Cardinality(SeatsFor(e, times)) + IF EventOf[b] = e THEN SeatsOf[b] ELSE 0
  <1> DEFINE more == [times EXCEPT ![b] = @ + 1]
             n == times[b] + 1
  <1>1. /\ times[b] \in Nat /\ more[b] = n
        /\ \A a \in Bookings : a # b => more[a] = times[a]
    OBVIOUS
  <1>2. 1..n = (1..times[b]) \cup {n} /\ n \notin 1..times[b]
    BY <1>1
  <1> HIDE DEF n
  <1>3. ({b} \X (1..more[b])) \X (1..SeatsOf[b]) =
            (({b} \X (1..times[b])) \X (1..SeatsOf[b])) \cup Block(b, n)
    BY <1>1, <1>2 DEF Block
  <1> HIDE DEF more
  <1>4. CASE EventOf[b] = e
    <2>1. SeatsFor(e, more) = SeatsFor(e, times) \cup Block(b, n)
      <3>1. ASSUME NEW s PROVE s \in SeatsFor(e, more) <=> s \in SeatsFor(e, times) \cup Block(b, n)
        <4>1. s \in SeatsFor(e, more) <=>
                  \/ s \in ({b} \X (1..more[b])) \X (1..SeatsOf[b])
                  \/ \E a \in Bookings : /\ a # b /\ EventOf[a] = e
                                         /\ s \in ({a} \X (1..more[a])) \X (1..SeatsOf[a])
          BY <1>4, SeatsForMember
        <4>2. s \in SeatsFor(e, times) <=>
                  \/ s \in ({b} \X (1..times[b])) \X (1..SeatsOf[b])
                  \/ \E a \in Bookings : /\ a # b /\ EventOf[a] = e
                                         /\ s \in ({a} \X (1..times[a])) \X (1..SeatsOf[a])
          BY <1>4, SeatsForMember
        <4>3. \A a \in Bookings : a # b =>
                  ({a} \X (1..more[a])) \X (1..SeatsOf[a]) = ({a} \X (1..times[a])) \X (1..SeatsOf[a])
          BY <1>1
        <4>4. QED
          BY <1>3, <4>1, <4>2, <4>3
      <3>2. QED
        BY <3>1
    <2>2. SeatsFor(e, times) \cap Block(b, n) = {}
      BY <1>2, SeatsForMember DEF Block
    <2>3. IsFiniteSet(Block(b, n)) /\ Cardinality(Block(b, n)) = SeatsOf[b]
      BY BlockSize
    <2>4. /\ IsFiniteSet(SeatsFor(e, times) \cup Block(b, n))
          /\ Cardinality(SeatsFor(e, times) \cup Block(b, n))
                 = Cardinality(SeatsFor(e, times)) + Cardinality(Block(b, n))
      BY <2>2, <2>3, DisjointUnion
    <2>5. QED
      BY <1>4, <2>1, <2>3, <2>4 DEF more
  <1>5. CASE EventOf[b] # e
    <2>1. \A s : s \in SeatsFor(e, more) <=> s \in SeatsFor(e, times)
      BY <1>1, <1>5, SeatsForMember
    <2>2. SeatsFor(e, more) = SeatsFor(e, times)
      BY <2>1
    <2>3. Cardinality(SeatsFor(e, times)) \in Nat
      BY FS_CardinalityType
    <2>4. QED
      BY <1>5, <2>2, <2>3 DEF more
  <1>6. QED
    BY <1>4, <1>5

(* The only steps that move seats take or return those of one booking.      *)
SeatsStay == UNCHANGED <<available, reserved, released>>

SeatsTaken(b) ==
    /\ available[EventOf[b]] >= SeatsOf[b]
    /\ available' = [available EXCEPT ![EventOf[b]] = @ - SeatsOf[b]]
    /\ reserved' = [reserved EXCEPT ![b] = @ + 1]
    /\ released' = released

SeatsReturned(b) ==
    /\ available' = [available EXCEPT ![EventOf[b]] = @ + SeatsOf[b]]
    /\ released' = [released EXCEPT ![b] = @ + 1]
    /\ reserved' = reserved

LEMMA ExecuteMoves ==
    ASSUME TypeOK, NEW f \in Flows, NEW op \in Remote, NEW k \in Attempts, NEW code,
           Execute(f, op, k, code)
    PROVE  \/ SeatsStay /\ ~(op \in {"reserve", "release"} /\ code = "ok")
           \/ op = "reserve" /\ code = "ok" /\ SeatsTaken(BookingOf(f))
           \/ op = "release" /\ code = "ok" /\ NamesEvent(f) /\ SeatsReturned(BookingOf(f))
  <1> DEFINE b == BookingOf(f)
             e == EventOf[b]
  <1>1. b \in Bookings /\ e \in Events /\ SeatsOf[b] \in Nat /\ available[e] \in Int
    BY SagaAssumption DEF BookingOf, Flows, TypeOK, Inventory!InventoryTypeOK
  <1>2. CASE ExecutePayment(f, op, k, code) \/ ExecuteNotify(f, op, code)
    BY <1>2 DEF ExecutePayment, ExecuteNotify, inventoryVars, SeatsStay
  <1>3. CASE op = "reserve" /\ ExecuteInventory(f, op, code)
    <2>1. /\ Inventory!ReserveSeats(e, SeatsOf[b], code)
          /\ reserved' = Count(reserved, b, code) /\ released' = released
      BY <1>3 DEF ExecuteInventory
    <2>2. \/ code # "ok" /\ available' = available
          \/ /\ code = "ok" /\ available[e] + (-SeatsOf[b]) \in 0..Capacity[e]
             /\ available' = [available EXCEPT ![e] = @ + (-SeatsOf[b])]
      BY <2>1 DEF Inventory!ReserveSeats, Inventory!AdjustSeats, Inventory!inventoryVars
    <2>3. CASE code # "ok"
      BY <2>1, <2>2, <2>3 DEF Count, SeatsStay
    <2>4. CASE code = "ok"
      <3>1. available[e] >= SeatsOf[b]
        BY <1>1, <2>2, <2>4, SagaAssumption
      <3>2. [available EXCEPT ![e] = @ + (-SeatsOf[b])] = [available EXCEPT ![e] = @ - SeatsOf[b]]
        BY <1>1
      <3>3. QED
        BY <1>3, <2>1, <2>2, <2>4, <3>1, <3>2 DEF Count, SeatsTaken
    <2>5. QED
      BY <2>3, <2>4
  <1>4. CASE op = "release" /\ NamesEvent(f) /\ ExecuteInventory(f, op, code)
    <2>1. /\ Inventory!ReleaseSeats(e, SeatsOf[b], code)
          /\ released' = Count(released, b, code) /\ reserved' = reserved
      BY <1>4 DEF ExecuteInventory
    <2>2. \/ code # "ok" /\ available' = available
          \/ code = "ok" /\ available' = [available EXCEPT ![e] = @ + SeatsOf[b]]
      BY <2>1 DEF Inventory!ReleaseSeats, Inventory!AdjustSeats, Inventory!inventoryVars
    <2>3. QED
      BY <1>4, <2>1, <2>2 DEF Count, SeatsStay, SeatsReturned
  <1>5. CASE op = "getEvent" /\ ExecuteInventory(f, op, code)
    BY <1>5 DEF ExecuteInventory, Inventory!GetEvent, Inventory!inventoryVars, SeatsStay
  <1>6. CASE op = "release" /\ ~NamesEvent(f) /\ ExecuteInventory(f, op, code)
    BY <1>6 DEF ExecuteInventory, inventoryVars, SeatsStay
  <1>7. QED
    BY <1>2, <1>3, <1>4, <1>5, <1>6 DEF Execute, ExecuteInventory

LEMMA NextMoves ==
    ASSUME TypeOK, [Next]_vars
    PROVE  SeatsStay \/ \E b \in Bookings : SeatsTaken(b) \/ SeatsReturned(b)
  <1> USE DEF inventoryVars, historyVars
  <1>1. ASSUME NEW f \in Flows, FlowStep(f) \/ Timeout(f) \/ HangUp(f) \/ Crash(f)
        PROVE  SeatsStay
    BY <1>1 DEF FlowStep, CommonStep, BookStep, Send, Retry, AfterRefund, AfterRelease, AfterNotify,
       AfterGetEvent, AfterReserve, CreateBooking, AfterCharge, Confirm, MarkFailed, MarkCancelled,
       Timeout, HangUp, Crash, SeatsStay
  <1>2. ASSUME NEW f \in Flows, NEW op \in Remote, NEW k \in Attempts, ServiceStep(f, op, k)
        PROVE  SeatsStay \/ \E b \in Bookings : SeatsTaken(b) \/ SeatsReturned(b)
    <2>1. BookingOf(f) \in Bookings
      BY SagaAssumption DEF BookingOf, Flows
    <2>2. CASE \E code : Execute(f, op, k, code)
      BY <2>1, <2>2, ExecuteMoves
    <2>3. CASE ~ \E code : Execute(f, op, k, code)
      BY <1>2, <2>3 DEF ServiceStep, Serve, ServeButAnswerError, ServerError, Refuse, Discard, SeatsStay
    <2>4. QED
      BY <2>2, <2>3
  <1>3. CASE UNCHANGED vars \/ \E e \in Events : DeleteEvent(e)
    BY <1>3 DEF vars, DeleteEvent, Inventory!DeleteEvent, SeatsStay
  <1>4. QED
    BY <1>1, <1>2, <1>3 DEF Next

SeatsCounted ==
    /\ \A e \in Events :
           IsFiniteSet(SeatsFor(e, reserved)) /\ IsFiniteSet(SeatsFor(e, released))
    /\ SeatsConserved

LEMMA InitCounted == Init => SeatsCounted
  <1>1. SUFFICES ASSUME Init, NEW e \in Events
                 PROVE  /\ IsFiniteSet(SeatsFor(e, reserved))
                        /\ IsFiniteSet(SeatsFor(e, released))
                        /\ available[e] + Cardinality(SeatsFor(e, reserved))
                               = Capacity[e] + Cardinality(SeatsFor(e, released))
    BY DEF SeatsCounted, SeatsConserved
  <1>2. SeatsFor(e, reserved) = {} /\ SeatsFor(e, released) = {}
    <2>1. \A b \in Bookings : reserved[b] = 0 /\ released[b] = 0
      BY <1>1 DEF Init
    <2>2. \A s : s \notin SeatsFor(e, reserved) /\ s \notin SeatsFor(e, released)
      BY <2>1, SeatsForMember
    <2>3. QED
      BY <2>2
  <1>3. IsFiniteSet({}) /\ Cardinality({}) = 0
    BY FS_EmptySet
  <1>4. available[e] = Capacity[e]
    BY <1>1 DEF Init
  <1>5. QED
    BY <1>2, <1>3, <1>4

LEMMA NextCounted == TypeOK /\ SeatsCounted /\ [Next]_vars => SeatsCounted'
  <1>1. SUFFICES ASSUME TypeOK, SeatsCounted, [Next]_vars, NEW e \in Events
                 PROVE  /\ IsFiniteSet(SeatsFor(e, reserved'))
                        /\ IsFiniteSet(SeatsFor(e, released'))
                        /\ available'[e] + Cardinality(SeatsFor(e, reserved'))
                               = Capacity[e] + Cardinality(SeatsFor(e, released'))
    BY DEF SeatsCounted, SeatsConserved, SeatsFor
  <1>2. /\ IsFiniteSet(SeatsFor(e, reserved)) /\ IsFiniteSet(SeatsFor(e, released))
        /\ available[e] + Cardinality(SeatsFor(e, reserved))
               = Capacity[e] + Cardinality(SeatsFor(e, released))
    BY <1>1 DEF SeatsCounted, SeatsConserved
  <1>3. /\ Cardinality(SeatsFor(e, reserved)) \in Nat
        /\ Cardinality(SeatsFor(e, released)) \in Nat
        /\ available \in [Events -> Int] /\ Capacity[e] \in Nat
        /\ reserved \in [Bookings -> Nat] /\ released \in [Bookings -> Nat]
    BY <1>1, <1>2, FS_CardinalityType, SagaAssumption DEF TypeOK, Inventory!InventoryTypeOK
  <1>4. CASE SeatsStay
    BY <1>2, <1>4 DEF SeatsStay
  <1>5. ASSUME NEW b \in Bookings, SeatsTaken(b)
        PROVE  /\ IsFiniteSet(SeatsFor(e, reserved'))
               /\ IsFiniteSet(SeatsFor(e, released'))
               /\ available'[e] + Cardinality(SeatsFor(e, reserved'))
                      = Capacity[e] + Cardinality(SeatsFor(e, released'))
    <2>1. SeatsOf[b] \in Nat /\ EventOf[b] \in Events
      BY SagaAssumption
    <2>2. available'[e] = available[e] - IF EventOf[b] = e THEN SeatsOf[b] ELSE 0
      BY <1>3, <1>5, <2>1 DEF SeatsTaken
    <2>3. /\ IsFiniteSet(SeatsFor(e, reserved'))
          /\ Cardinality(SeatsFor(e, reserved')) =
                 Cardinality(SeatsFor(e, reserved)) + IF EventOf[b] = e THEN SeatsOf[b] ELSE 0
      BY <1>2, <1>3, <1>5, OnceMore DEF SeatsTaken
    <2>4. released' = released
      BY <1>5 DEF SeatsTaken
    <2>5. QED
      BY <1>2, <1>3, <2>1, <2>2, <2>3, <2>4
  <1>6. ASSUME NEW b \in Bookings, SeatsReturned(b)
        PROVE  /\ IsFiniteSet(SeatsFor(e, reserved'))
               /\ IsFiniteSet(SeatsFor(e, released'))
               /\ available'[e] + Cardinality(SeatsFor(e, reserved'))
                      = Capacity[e] + Cardinality(SeatsFor(e, released'))
    <2>1. SeatsOf[b] \in Nat /\ EventOf[b] \in Events
      BY SagaAssumption
    <2>2. available'[e] = available[e] + IF EventOf[b] = e THEN SeatsOf[b] ELSE 0
      BY <1>3, <1>6, <2>1 DEF SeatsReturned
    <2>3. /\ IsFiniteSet(SeatsFor(e, released'))
          /\ Cardinality(SeatsFor(e, released')) =
                 Cardinality(SeatsFor(e, released)) + IF EventOf[b] = e THEN SeatsOf[b] ELSE 0
      BY <1>2, <1>3, <1>6, OnceMore DEF SeatsReturned
    <2>4. reserved' = reserved
      BY <1>6 DEF SeatsReturned
    <2>5. QED
      BY <1>2, <1>3, <2>1, <2>2, <2>3, <2>4
  <1>7. QED
    BY <1>1, <1>4, <1>5, <1>6, NextMoves

LEMMA CountInvariance == Spec => []SeatsCounted
  <1>1. QED
    BY InitCounted, NextCounted, TypeCorrect, PTL DEF Spec

(* Whatever fails, and however often a booking's seats were taken and       *)
(* returned: what is on sale and what was taken adds up to the capacity and *)
(* what was returned.                                                       *)
THEOREM SeatsAreConserved == Spec => []SeatsConserved
  <1>1. SeatsCounted => SeatsConserved
    BY DEF SeatsCounted
  <1>2. QED
    BY CountInvariance, <1>1, PTL
===============================================================================
