------------------------------ MODULE RowPostgres ------------------------------
(***************************************************************************)
(* The PostgreSQL tables of booking-service and payment-service, shared by *)
(* the replicas of each.  A handler calls UpdateStatus on a booking or     *)
(* Refund on a payment: a guarded UPDATE and, when that matched no row, a  *)
(* SELECT that finds out why.  Other handlers run between the two.         *)
(***************************************************************************)
CONSTANTS
    Bookings, PaymentIds, NoPayment, Verdicts,
    Updates,                        \* the calls of UpdateStatus
    BookingOf, Transition,          \* what each of them asks for
    ChargeOf,                       \* the payment a confirmation records
    Refunds, RefundOf               \* the calls of Refund

Handlers == Updates \cup Refunds

ASSUME RowAssumption ==
    /\ Updates \cap Refunds = {}
    /\ BookingOf \in [Updates -> Bookings]
    /\ Transition \in [Updates -> {"confirm", "fail", "cancel"}]
    /\ ChargeOf \in [Updates -> PaymentIds]
    /\ RefundOf \in [Refunds -> PaymentIds]
    /\ Verdicts \subseteq {"AUTHORIZED", "DECLINED"}
    /\ NoPayment \notin PaymentIds

VARIABLES
    status, paymentOf,  \* the bookings table
    payment,            \* the payments table
    stage,              \* stage[h]: the statement h is at
    reply,              \* reply[h]: what h was answered
    returned,           \* returned[h]: the payment id on the row h was returned
    applied             \* the handlers whose change was committed

tableVars == <<status, paymentOf, payment>>
vars == <<tableVars, stage, reply, returned, applied>>

Table == INSTANCE BookingStore
PaymentTable == INSTANCE PaymentService

RowTypeOK ==
    /\ Table!BookingTypeOK
    /\ PaymentTable!PaymentTypeOK
    /\ stage \in [Handlers -> {"update", "readBack", "answered"}]
    /\ reply \in [Handlers -> {"none", "ok", "not_found", "not_allowed", "internal_error"}]
    /\ returned \in [Handlers -> PaymentIds \cup {NoPayment}]
    /\ applied \subseteq Handlers

Init ==
    /\ status = [b \in Bookings |-> "none"]
    /\ paymentOf = [b \in Bookings |-> NoPayment]
    /\ payment = [p \in PaymentIds |-> "none"]
    /\ stage = [h \in Handlers |-> "update"]
    /\ reply = [h \in Handlers |-> "none"]
    /\ returned = [h \in Handlers |-> NoPayment]
    /\ applied = {}

-------------------------------------------------------------------------------
(* The calls of the saga: a confirmation and a failure leave PENDING, a     *)
(* cancellation leaves CONFIRMED; only the first writes a payment id.       *)
AllowedFrom(h) == IF Transition[h] = "cancel" THEN {"CONFIRMED"} ELSE {"PENDING"}

NewStatus(h) ==
    CASE Transition[h] = "confirm" -> "CONFIRMED"
      [] Transition[h] = "fail" -> "FAILED"
      [] OTHER -> "CANCELLED"

NewPayment(h) == IF Transition[h] = "confirm" THEN ChargeOf[h] ELSE NoPayment

(* Variant: the WHERE clause selects by id alone and the status is checked  *)
(* by the caller beforehand.                                                *)
MatchesById(h) ==
    \/ h \in Updates /\ status[BookingOf[h]] # "none"
    \/ h \in Refunds /\ payment[RefundOf[h]] # "none"

(* The WHERE clause of the UPDATE.                                          *)
Matches(h) ==
    \/ h \in Updates /\ status[BookingOf[h]] \in AllowedFrom(h)
    \/ h \in Refunds /\ payment[RefundOf[h]] = "AUTHORIZED"

(* Variant: an empty payment id overwrites the one on the row.              *)
KeptPaymentDropped(h) == NewPayment(h)

(* CASE WHEN $3 = '' THEN payment_id ELSE $3 END.                           *)
KeptPayment(h) ==
    IF NewPayment(h) = NoPayment THEN paymentOf[BookingOf[h]] ELSE NewPayment(h)

ChangeBooking(h) ==
    /\ status' = [status EXCEPT ![BookingOf[h]] = NewStatus(h)]
    /\ paymentOf' = [paymentOf EXCEPT ![BookingOf[h]] = KeptPayment(h)]
    /\ UNCHANGED payment

ChangePayment(h) ==
    /\ payment' = [payment EXCEPT ![RefundOf[h]] = "REFUNDED"]
    /\ UNCHANGED <<status, paymentOf>>

Change(h) ==
    /\ \/ h \in Updates /\ ChangeBooking(h)
       \/ h \in Refunds /\ ChangePayment(h)
    /\ applied' = applied \cup {h}

Reply(h, code) ==
    /\ stage' = [stage EXCEPT ![h] = "answered"]
    /\ reply' = [reply EXCEPT ![h] = code]

(* RETURNING: the row as the statement left it.                             *)
Return(h) ==
    /\ Reply(h, "ok")
    /\ returned' = [returned EXCEPT ![h] = IF h \in Updates THEN KeptPayment(h) ELSE RefundOf[h]]

(* The UPDATE changes the row, or matches none, or answers an error whether *)
(* it was committed or not.  The saga confirms and fails only bookings it   *)
(* has inserted; anyone may cancel or refund under any id.                  *)
Update(h) ==
    /\ stage[h] = "update"
    /\ h \in Updates /\ Transition[h] # "cancel" => status[BookingOf[h]] # "none"
    /\ \/ Matches(h) /\ Change(h) /\ Return(h)
       \/ Matches(h) /\ Change(h) /\ Reply(h, "internal_error") /\ UNCHANGED returned
       \/ /\ ~Matches(h)
          /\ stage' = [stage EXCEPT ![h] = "readBack"]
          /\ UNCHANGED <<tableVars, reply, returned, applied>>
       \/ Reply(h, "internal_error") /\ UNCHANGED <<tableVars, returned, applied>>

Missing(h) ==
    \/ h \in Updates /\ status[BookingOf[h]] = "none"
    \/ h \in Refunds /\ payment[RefundOf[h]] = "none"

(* Variant: the read-back looks at the status again, and takes a row that   *)
(* has it now for its own change.                                           *)
ReasonByStatus(h) ==
    IF Missing(h) THEN "not_found"
    ELSE IF h \in Updates /\ status[BookingOf[h]] = NewStatus(h) THEN "ok"
    ELSE "not_allowed"

(* Variant: the read-back answers pgx.ErrNoRows as it is.                   *)
ReasonUntranslated(h) == IF Missing(h) THEN "no_rows" ELSE "not_allowed"

(* What the row read back says of the refusal: ErrNotFound, or              *)
(* ErrNotCancellable and ErrNotRefundable.                                  *)
Reason(h) == IF Missing(h) THEN "not_found" ELSE "not_allowed"

ReadBack(h) ==
    /\ stage[h] = "readBack"
    /\ Reply(h, Reason(h)) \/ Reply(h, "internal_error")
    /\ UNCHANGED <<tableVars, returned, applied>>

CreateBooking(b) ==
    /\ status[b] = "none"
    /\ Table!Create(b, "ok")
    /\ UNCHANGED <<payment, stage, reply, returned, applied>>

CreatePayment(p) ==
    /\ payment[p] = "none"
    /\ \E verdict \in Verdicts : payment' = [payment EXCEPT ![p] = verdict]
    /\ UNCHANGED <<status, paymentOf, stage, reply, returned, applied>>

Next ==
    \/ \E h \in Handlers : Update(h) \/ ReadBack(h)
    \/ \E b \in Bookings : CreateBooking(b)
    \/ \E p \in PaymentIds : CreatePayment(p)

Spec == Init /\ [][Next]_vars

-------------------------------------------------------------------------------
SameRequest(g, h) ==
    \/ /\ {g, h} \subseteq Updates
       /\ BookingOf[g] = BookingOf[h]
       /\ Transition[g] = Transition[h]
    \/ {g, h} \subseteq Refunds /\ RefundOf[g] = RefundOf[h]

(* Of the calls that race for one transition of one row at most one makes   *)
(* it, whatever the others are answered: "two concurrent cancel requests    *)
(* cannot both succeed", and no payment is refunded twice.                  *)
OneWinner == \A g, h \in applied : SameRequest(g, h) => g = h

(* The cancellation that succeeds is handed the payment the confirmation    *)
(* recorded, which is the one it goes on to refund.                         *)
CancelKnowsPayment ==
    \A h, g \in Updates :
        /\ reply[h] = "ok" /\ Transition[h] = "cancel"
        /\ g \in applied /\ Transition[g] = "confirm" /\ BookingOf[g] = BookingOf[h]
        => returned[h] = ChargeOf[g]

(* The calls keep the promise of a row store: refused as soon as the UPDATE *)
(* matched no row, before the handler knows its reason.                     *)
OutcomeOf(h) ==
    IF h \in applied \/ reply[h] = "ok" THEN "applied"
    ELSE IF reply[h] = "internal_error" THEN "unheard"
    ELSE IF stage[h] = "update" THEN "open"
    ELSE "refused"

Rows == INSTANCE RowLedger WITH outcome <- [h \in Handlers |-> OutcomeOf(h)]

(* Each call takes effect at one moment, on a row in a status it allows, or *)
(* is refused because there was a moment at which the row was not.          *)
KeepsRows == Rows!LedgerSpec
===============================================================================
