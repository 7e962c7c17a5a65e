------------------------------- MODULE RowProofs -------------------------------
(***************************************************************************)
(* Proofs about RowPostgres, for any number of bookings, payments and      *)
(* calls.  The invariant says what a committed change leaves behind on its *)
(* row; the rows never go back to a status a second such change allows.    *)
(***************************************************************************)
EXTENDS RowPostgres, TLAPS

USE DEF Table!BookingTypeOK, Table!Statuses, PaymentTable!PaymentTypeOK

(* Type correctness of the two tables and of their handlers.                *)
THEOREM RowTypeCorrect == Spec => []RowTypeOK
<1>1. Init => RowTypeOK
  BY DEF Init, RowTypeOK
<1>2. RowTypeOK /\ [Next]_vars => RowTypeOK'
  <2> SUFFICES ASSUME RowTypeOK, [Next]_vars PROVE RowTypeOK'
    OBVIOUS
  <2> USE RowAssumption DEF RowTypeOK, Handlers
  <2>1. ASSUME NEW h \in Handlers, Update(h) PROVE RowTypeOK'
    <3>0. h \in Updates => KeptPayment(h) \in PaymentIds \cup {NoPayment}
      BY DEF KeptPayment, NewPayment
    <3>1. ASSUME Change(h)
          PROVE  /\ Table!BookingTypeOK' /\ PaymentTable!PaymentTypeOK'
                 /\ applied' \subseteq Handlers
      BY <3>0, <3>1 DEF Change, ChangeBooking, ChangePayment, NewStatus
    <3>2. CASE Change(h) /\ Return(h)
      BY <3>0, <3>1, <3>2 DEF Return, Reply
    <3>3. CASE Change(h) /\ Reply(h, "internal_error") /\ UNCHANGED returned
      BY <3>1, <3>3 DEF Reply
    <3>4. CASE /\ stage' = [stage EXCEPT ![h] = "readBack"]
               /\ UNCHANGED <<tableVars, reply, returned, applied>>
      BY <3>4 DEF tableVars
    <3>5. CASE Reply(h, "internal_error") /\ UNCHANGED <<tableVars, returned, applied>>
      BY <3>5 DEF tableVars, Reply
    <3>6. QED
      BY <2>1, <3>2, <3>3, <3>4, <3>5 DEF Update
  <2>2. ASSUME NEW h \in Handlers, ReadBack(h) PROVE RowTypeOK'
    BY <2>2 DEF ReadBack, Reason, Reply, tableVars
  <2>3. ASSUME NEW b \in Bookings, CreateBooking(b) PROVE RowTypeOK'
    BY <2>3 DEF CreateBooking, Table!Create
  <2>4. ASSUME NEW p \in PaymentIds, CreatePayment(p) PROVE RowTypeOK'
    BY <2>4 DEF CreatePayment
  <2>5. CASE UNCHANGED vars
    BY <2>5 DEF vars, tableVars
  <2>6. QED
    BY <2>1, <2>2, <2>3, <2>4, <2>5 DEF Next
<1>3. QED
  BY <1>1, <1>2, PTL DEF Spec

-------------------------------------------------------------------------------
(* The mark a committed change leaves on its row for good.                  *)
Mark(h) ==
    /\ h \in Updates =>
           /\ Transition[h] = "confirm" =>
                  /\ status[BookingOf[h]] \in {"CONFIRMED", "CANCELLED"}
                  /\ paymentOf[BookingOf[h]] = ChargeOf[h]
           /\ Transition[h] = "fail" => status[BookingOf[h]] = "FAILED"
           /\ Transition[h] = "cancel" => status[BookingOf[h]] = "CANCELLED"
    /\ h \in Refunds => payment[RefundOf[h]] = "REFUNDED"

(* What a call has been answered and what it has done go together; the row  *)
(* a cancellation was returned still bears the payment it was shown.        *)
Account(h) ==
    /\ stage[h] # "answered" => h \notin applied /\ reply[h] = "none"
    /\ reply[h] = "ok" => h \in applied
    /\ h \in Updates /\ reply[h] = "ok" => returned[h] = paymentOf[BookingOf[h]]

RowInv ==
    /\ \A h \in applied : Mark(h)
    /\ \A h \in Handlers : Account(h)
    /\ OneWinner

(* A committed change leaves its mark, wipes out no other, and finds none   *)
(* of its own kind on its row.                                              *)
LEMMA ChangeMarks ==
    ASSUME NEW h \in Handlers, RowTypeOK, RowInv, Matches(h), Change(h), h \notin applied
    PROVE  /\ \A g \in applied' : Mark(g)'
           /\ OneWinner'
           /\ \A g \in Handlers \ {h} :
                  g \in Updates /\ reply[g] = "ok" =>
                      paymentOf'[BookingOf[g]] = paymentOf[BookingOf[g]]
<1> USE RowAssumption DEF RowTypeOK, Handlers
<1>1. CASE h \in Updates
  <2> DEFINE b == BookingOf[h]
  <2>1. /\ status[b] \in AllowedFrom(h)
        /\ status' = [status EXCEPT ![b] = NewStatus(h)]
        /\ paymentOf' = [paymentOf EXCEPT ![b] = KeptPayment(h)]
        /\ payment' = payment
        /\ applied' = applied \cup {h}
    BY <1>1 DEF Matches, Change, ChangeBooking, ChangePayment
  <2>2. KeptPayment(h) = IF Transition[h] = "confirm" THEN ChargeOf[h] ELSE paymentOf[b]
    BY <1>1 DEF KeptPayment, NewPayment
  <2>3. Mark(h)'
    BY <1>1, <2>1, <2>2 DEF Mark, NewStatus
  <2>4. ASSUME NEW g \in applied PROVE Mark(g)'
    <3>1. CASE g \in Updates /\ BookingOf[g] = b
      <4>1. Mark(g)
        BY DEF RowInv
      <4>2. Transition[g] = "confirm" /\ Transition[h] = "cancel"
        BY <1>1, <2>1, <3>1, <4>1 DEF Mark, AllowedFrom
      <4>3. QED
        BY <2>1, <2>2, <3>1, <4>1, <4>2 DEF Mark, NewStatus
    <3>2. CASE ~(g \in Updates /\ BookingOf[g] = b)
      BY <2>1, <3>2 DEF Mark, RowInv
    <3>3. QED
      BY <3>1, <3>2
  <2>5. ASSUME NEW g \in applied PROVE ~SameRequest(g, h) /\ ~SameRequest(h, g)
    <3>1. Mark(g)
      BY DEF RowInv
    <3>2. QED
      BY <1>1, <2>1, <3>1 DEF Mark, AllowedFrom, SameRequest
  <2>6. OneWinner'
    <3>1. ASSUME NEW x \in applied', NEW y \in applied', SameRequest(x, y) PROVE x = y
      BY <2>1, <2>5, <3>1 DEF RowInv, OneWinner
    <3>2. QED
      BY <3>1 DEF OneWinner, SameRequest
  <2>7. ASSUME NEW g \in Handlers \ {h}, g \in Updates, reply[g] = "ok"
        PROVE  paymentOf'[BookingOf[g]] = paymentOf[BookingOf[g]]
    <3>1. CASE BookingOf[g] = b
      <4>1. g \in applied /\ Mark(g)
        BY <2>7 DEF RowInv, Account
      <4>2. Transition[h] # "confirm"
        BY <1>1, <2>1, <2>7, <3>1, <4>1 DEF Mark, AllowedFrom
      <4>3. QED
        BY <2>1, <2>2, <3>1, <4>2
    <3>2. CASE BookingOf[g] # b
      BY <2>1, <2>7, <3>2
    <3>3. QED
      BY <3>1, <3>2
  <2>8. QED
    BY <2>1, <2>3, <2>4, <2>6, <2>7
<1>2. CASE h \in Refunds
  <2>1. /\ payment[RefundOf[h]] = "AUTHORIZED"
        /\ payment' = [payment EXCEPT ![RefundOf[h]] = "REFUNDED"]
        /\ status' = status /\ paymentOf' = paymentOf
        /\ applied' = applied \cup {h}
    BY <1>2 DEF Matches, Change, ChangeBooking, ChangePayment
  <2>2. ASSUME NEW g \in applied PROVE Mark(g)'
    BY <2>1 DEF Mark, RowInv
  <2>3. Mark(h)'
    BY <1>2, <2>1 DEF Mark
  <2>4. ASSUME NEW g \in applied PROVE ~SameRequest(g, h) /\ ~SameRequest(h, g)
    <3>1. Mark(g)
      BY DEF RowInv
    <3>2. QED
      BY <1>2, <2>1, <3>1 DEF Mark, SameRequest
  <2>5. OneWinner'
    <3>1. ASSUME NEW x \in applied', NEW y \in applied', SameRequest(x, y) PROVE x = y
      BY <2>1, <2>4, <3>1 DEF RowInv, OneWinner
    <3>2. QED
      BY <3>1 DEF OneWinner, SameRequest
  <2>6. QED
    BY <2>1, <2>2, <2>3, <2>5
<1>3. QED
  BY <1>1, <1>2

(* The invariant holds of every reachable state.                            *)
LEMMA RowInvariance == Spec => []RowInv
<1>1. Init => RowInv
  BY DEF Init, RowInv, Account, OneWinner
<1>2. RowTypeOK /\ RowInv /\ [Next]_vars => RowInv'
  <2> SUFFICES ASSUME RowTypeOK, RowInv, [Next]_vars PROVE RowInv'
    OBVIOUS
  <2> USE RowAssumption DEF RowTypeOK, Handlers
  <2>1. ASSUME NEW h \in Handlers, Update(h) PROVE RowInv'
    <3>0. stage[h] = "update" /\ h \notin applied /\ reply[h] = "none"
      BY <2>1 DEF Update, RowInv, Account
    <3>1. CASE Matches(h) /\ Change(h) /\ Return(h)
      <4>1. Account(h)'
        BY <3>0, <3>1 DEF Account, Change, ChangeBooking, ChangePayment, Return, Reply
      <4>2. ASSUME NEW g \in Handlers \ {h} PROVE Account(g)'
        BY <3>0, <3>1, ChangeMarks DEF RowInv, Account, Change, ChangeBooking, ChangePayment, Return, Reply
      <4>3. QED
        BY <3>0, <3>1, <4>1, <4>2, ChangeMarks DEF RowInv
    <3>2. CASE Matches(h) /\ Change(h) /\ Reply(h, "internal_error") /\ UNCHANGED returned
      <4>1. Account(h)'
        BY <3>0, <3>2 DEF Account, Change, ChangeBooking, ChangePayment, Reply
      <4>2. ASSUME NEW g \in Handlers \ {h} PROVE Account(g)'
        BY <3>0, <3>2, ChangeMarks DEF RowInv, Account, Change, ChangeBooking, ChangePayment, Reply
      <4>3. QED
        BY <3>0, <3>2, <4>1, <4>2, ChangeMarks DEF RowInv
    <3>3. CASE /\ stage' = [stage EXCEPT ![h] = "readBack"]
               /\ UNCHANGED <<tableVars, reply, returned, applied>>
      BY <3>0, <3>3 DEF RowInv, Account, Mark, OneWinner, SameRequest, tableVars
    <3>4. CASE Reply(h, "internal_error") /\ UNCHANGED <<tableVars, returned, applied>>
      BY <3>0, <3>4 DEF RowInv, Account, Mark, OneWinner, SameRequest, tableVars, Reply
    <3>5. QED
      BY <2>1, <3>1, <3>2, <3>3, <3>4 DEF Update
  <2>2. ASSUME NEW h \in Handlers, ReadBack(h) PROVE RowInv'
    BY <2>2 DEF ReadBack, Reason, Reply, RowInv, Account, Mark, OneWinner, SameRequest, tableVars
  <2>3. ASSUME NEW b \in Bookings, CreateBooking(b) PROVE RowInv'
    BY <2>3 DEF CreateBooking, Table!Create, RowInv, Account, Mark, OneWinner, SameRequest
  <2>4. ASSUME NEW p \in PaymentIds, CreatePayment(p) PROVE RowInv'
    BY <2>4 DEF CreatePayment, RowInv, Account, Mark, OneWinner, SameRequest
  <2>5. CASE UNCHANGED vars
    BY <2>5 DEF vars, tableVars, RowInv, Account, Mark, OneWinner, SameRequest
  <2>6. QED
    BY <2>1, <2>2, <2>3, <2>4, <2>5 DEF Next
<1>3. QED
  BY <1>1, <1>2, RowTypeCorrect, PTL DEF Spec

(* However many calls race for one transition of a row, at most one of them *)
(* makes it: of any number of cancellations of a booking only one goes on   *)
(* to refund, and no payment is refunded twice.                             *)
THEOREM OneCallWins == Spec => []OneWinner
BY RowInvariance, PTL DEF RowInv

(* The cancellation that wins is handed the payment the confirmation        *)
(* recorded on the booking.                                                 *)
THEOREM CancelsKnowThePayment == Spec => []CancelKnowsPayment
<1>1. RowTypeOK /\ RowInv => CancelKnowsPayment
  BY DEF RowInv, Account, Mark, CancelKnowsPayment, Handlers
<1>2. QED
  BY <1>1, RowTypeCorrect, RowInvariance, PTL

-------------------------------------------------------------------------------
outcomes == [h \in Handlers |-> OutcomeOf(h)]

(* A step of one handler settles at most the outcome of its own call.       *)
LEMMA OneOutcomeSettled ==
    ASSUME NEW h \in Handlers, RowTypeOK,
           applied' = applied \/ applied' = applied \cup {h},
           \A g \in Handlers \ {h} : stage'[g] = stage[g] /\ reply'[g] = reply[g]
    PROVE  outcomes' = [outcomes EXCEPT ![h] = OutcomeOf(h)']
BY DEF outcomes, OutcomeOf

(* A committed change is the call of the ledger, answered ok.               *)
LEMMA ChangeIsCall ==
    ASSUME NEW h \in Handlers, RowTypeOK, Matches(h), Change(h)
    PROVE  Rows!Call(h, "ok")
<1> USE RowAssumption DEF RowTypeOK, Handlers
<1>1. CASE h \in Updates
  <2>1. Transition[h] \in {"confirm", "fail", "cancel"}
    BY <1>1
  <2>2. /\ status[BookingOf[h]] \in AllowedFrom(h)
        /\ status' = [status EXCEPT ![BookingOf[h]] = NewStatus(h)]
        /\ paymentOf' = [paymentOf EXCEPT ![BookingOf[h]] = KeptPayment(h)]
        /\ payment' = payment
    BY <1>1 DEF Matches, Change, ChangeBooking, ChangePayment
  <2>3. CASE Transition[h] = "confirm"
    BY <1>1, <2>2, <2>3
       DEF AllowedFrom, NewStatus, KeptPayment, NewPayment, Rows!Call, Rows!Table!UpdateStatus
  <2>4. CASE Transition[h] = "fail"
    BY <1>1, <2>2, <2>4
       DEF AllowedFrom, NewStatus, KeptPayment, NewPayment, Rows!Call, Rows!Table!UpdateStatus
  <2>5. CASE Transition[h] = "cancel"
    BY <1>1, <2>2, <2>5
       DEF AllowedFrom, NewStatus, KeptPayment, NewPayment, Rows!Call, Rows!Table!UpdateStatus
  <2>6. QED
    BY <2>1, <2>3, <2>4, <2>5
<1>2. CASE h \in Refunds
  BY <1>2 DEF Matches, Change, ChangeBooking, ChangePayment, Rows!Call, Rows!PaymentTable!Refund
<1>3. QED
  BY <1>1, <1>2

(* A change that matched no row is the call of the ledger, refused.         *)
LEMMA MismatchIsRefusal ==
    ASSUME NEW h \in Handlers, RowTypeOK, ~Matches(h), UNCHANGED tableVars
    PROVE  \E code \in {"booking_not_found", "not_cancellable",
                        "payment_not_found", "not_refundable"} : Rows!Call(h, code)
<1> USE RowAssumption DEF RowTypeOK, Handlers, tableVars
<1>1. CASE h \in Updates
  <2>1. Transition[h] \in {"confirm", "fail", "cancel"}
    BY <1>1
  <2>2. status[BookingOf[h]] \notin AllowedFrom(h)
    BY <1>1 DEF Matches
  <2>3. CASE status[BookingOf[h]] = "none"
    <3>1. Rows!Call(h, "booking_not_found")
      BY <1>1, <2>1, <2>3 DEF Rows!Call, Rows!Table!UpdateStatus, Rows!Table!bookingVars
    <3>2. QED
      BY <3>1
  <2>4. CASE status[BookingOf[h]] # "none"
    <3>1. Rows!Call(h, "not_cancellable")
      BY <1>1, <2>1, <2>2, <2>4
         DEF AllowedFrom, Rows!Call, Rows!Table!UpdateStatus, Rows!Table!bookingVars
    <3>2. QED
      BY <3>1
  <2>5. QED
    BY <2>3, <2>4
<1>2. CASE h \in Refunds
  <2>1. payment[RefundOf[h]] \in {"none", "DECLINED", "REFUNDED"}
    BY <1>2 DEF Matches
  <2>2. Rows!Call(h, "payment_not_found") \/ Rows!Call(h, "not_refundable")
    BY <1>2, <2>1 DEF Rows!Call, Rows!PaymentTable!Refund
  <2>3. QED
    BY <2>2
<1>3. QED
  BY <1>1, <1>2

(* Every step is one of the ledger, with the outcomes read off the state.   *)
LEMMA StepIsOfRowLedger ==
    ASSUME RowTypeOK, RowInv, [Next]_vars
    PROVE  [Rows!LedgerNext]_<<status, paymentOf, payment, outcomes>>
<1> USE DEF RowTypeOK
<1>1. ASSUME NEW h \in Handlers, Update(h) PROVE Rows!LedgerNext
  <2>1. stage[h] = "update" /\ h \notin applied /\ reply[h] = "none" /\ outcomes[h] = "open"
    BY <1>1 DEF Update, RowInv, Account, outcomes, OutcomeOf
  <2>2. ASSUME Matches(h), Change(h),
               Return(h) \/ (Reply(h, "internal_error") /\ UNCHANGED returned)
        PROVE  Rows!Apply(h)
    <3>1. OutcomeOf(h)' = "applied"
      BY <2>2 DEF OutcomeOf, Change, ChangeBooking, ChangePayment
    <3>2. outcomes' = [outcomes EXCEPT ![h] = "applied"]
      BY <2>2, <3>1, OneOutcomeSettled DEF Change, ChangeBooking, ChangePayment, Return, Reply
    <3>3. QED
      BY <2>1, <2>2, <3>2, ChangeIsCall DEF Rows!Apply, Rows!Settle, outcomes
  <2>3. ASSUME ~Matches(h), stage' = [stage EXCEPT ![h] = "readBack"],
               UNCHANGED <<tableVars, reply, returned, applied>>
        PROVE  Rows!Refuse(h)
    <3>1. OutcomeOf(h)' = "refused"
      BY <2>1, <2>3 DEF OutcomeOf
    <3>2. outcomes' = [outcomes EXCEPT ![h] = "refused"]
      BY <2>3, <3>1, OneOutcomeSettled
    <3>3. QED
      BY <2>1, <2>3, <3>2, MismatchIsRefusal DEF Rows!Refuse, Rows!Settle, outcomes
  <2>4. ASSUME Reply(h, "internal_error"), UNCHANGED <<tableVars, returned, applied>>
        PROVE  Rows!Unheard(h)
    <3>1. OutcomeOf(h)' = "unheard"
      BY <2>1, <2>4 DEF OutcomeOf, Reply
    <3>2. outcomes' = [outcomes EXCEPT ![h] = "unheard"]
      BY <2>4, <3>1, OneOutcomeSettled DEF Reply
    <3>3. QED
      BY <2>1, <2>4, <3>2 DEF Rows!Unheard, Rows!Settle, outcomes, tableVars
  <2>5. QED
    BY <1>1, <2>2, <2>3, <2>4 DEF Update, Rows!LedgerNext, Handlers
<1>2. ASSUME NEW h \in Handlers, ReadBack(h)
      PROVE  Rows!LedgerNext \/ UNCHANGED <<status, paymentOf, payment, outcomes>>
  <2>1. h \notin applied /\ reply[h] = "none" /\ outcomes[h] = "refused"
    BY <1>2 DEF ReadBack, RowInv, Account, outcomes, OutcomeOf
  <2>2. OutcomeOf(h)' \in {"refused", "unheard"}
    BY <1>2, <2>1 DEF ReadBack, Reason, Reply, OutcomeOf
  <2>3. outcomes' = [outcomes EXCEPT ![h] = OutcomeOf(h)']
    BY <1>2, OneOutcomeSettled DEF ReadBack, Reply
  <2>4. CASE OutcomeOf(h)' = "refused"
    <3>1. outcomes' = outcomes
      BY <2>1, <2>3, <2>4 DEF outcomes
    <3>2. QED
      BY <1>2, <3>1 DEF ReadBack, tableVars
  <2>5. CASE OutcomeOf(h)' = "unheard"
    <3>1. Rows!Unheard(h)
      BY <1>2, <2>1, <2>3, <2>5 DEF Rows!Unheard, Rows!Settle, ReadBack, tableVars, outcomes
    <3>2. QED
      BY <3>1 DEF Rows!LedgerNext, Handlers
  <2>6. QED
    BY <2>2, <2>4, <2>5
<1>3. ASSUME NEW b \in Bookings, CreateBooking(b) PROVE Rows!LedgerNext
  <2>1. outcomes' = outcomes
    BY <1>3 DEF CreateBooking, outcomes, OutcomeOf
  <2>2. Rows!Insert
    BY <1>3, <2>1 DEF CreateBooking, Table!Create, Rows!Insert, Rows!Table!Create, outcomes
  <2>3. QED
    BY <2>2 DEF Rows!LedgerNext
<1>4. ASSUME NEW p \in PaymentIds, CreatePayment(p) PROVE Rows!LedgerNext
  <2>1. outcomes' = outcomes
    BY <1>4 DEF CreatePayment, outcomes, OutcomeOf
  <2>2. \E code \in {"ok", "payment_declined"} : Rows!PaymentTable!Charge(p, TRUE, code)
    BY <1>4, RowAssumption DEF CreatePayment, Rows!PaymentTable!Charge
  <2>3. Rows!Insert
    BY <1>4, <2>1, <2>2 DEF CreatePayment, Rows!Insert, outcomes
  <2>4. QED
    BY <2>3 DEF Rows!LedgerNext
<1>5. CASE UNCHANGED vars
  BY <1>5 DEF vars, tableVars, outcomes, OutcomeOf
<1>6. QED
  BY <1>1, <1>2, <1>3, <1>4, <1>5 DEF Next

(* The statements of UpdateStatus and Refund implement the row store: each  *)
(* call takes effect at one moment, on a row its guard allows, or is        *)
(* refused because there was a moment at which the row did not.             *)
THEOREM RowsAreKept == Spec => KeepsRows
<1>1. Init => Rows!LedgerInit
  BY DEF Init, Rows!LedgerInit, OutcomeOf, Handlers
<1>2. RowTypeOK /\ RowInv /\ [Next]_vars => [Rows!LedgerNext]_Rows!ledgerVars
  BY StepIsOfRowLedger DEF Rows!ledgerVars, outcomes
<1>3. QED
  BY <1>1, <1>2, RowTypeCorrect, RowInvariance, PTL DEF Spec, KeepsRows, Rows!LedgerSpec
================================================================================
