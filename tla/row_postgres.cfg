CONSTANTS
    b1 = b1
    b2 = b2
    p1 = p1
    p2 = p2
    NoPayment = NoPayment
    confirm1 = confirm1
    cancel1 = cancel1
    cancel2 = cancel2
    fail2 = fail2
    cancel3 = cancel3
    refund1 = refund1
    refund2 = refund2
    Bookings = {b1, b2}
    PaymentIds = {p1}
    Verdicts = {"AUTHORIZED", "DECLINED"}
    Updates = {confirm1, cancel1, cancel2, fail2, cancel3}
    BookingOf <- FirstOrSecond
    Transition <- Asked
    ChargeOf <- FirstPayment
    Refunds = {refund1, refund2}
    RefundOf <- SamePayment

SPECIFICATION Spec
INVARIANTS
    RowTypeOK
    OneWinner
    CancelKnowsPayment
PROPERTIES
    KeepsRows
CHECK_DEADLOCK FALSE
