CONSTANTS
    b1 = b1
    b2 = b2
    b3 = b3
    c1 = c1
    c2 = c2
    show = show
    gratis = gratis
    NoPayment = NoPayment
    Events = {show}
    Capacity <- TwoSeats
    FreeEvents = {}
    Bookings = {b1}
    EventOf <- AllShow
    SeatsOf <- FirstWantsTwo
    Cancels = {c1, c2}
    TargetOf <- CancelsFirst
    Verdicts = {"AUTHORIZED", "DECLINED"}
    Retries = 2
    FaultKinds = {"refused", "error", "lostCommit", "timeout", "storeError", "hangup", "crash", "delete"}
    MaxFaults = 2

SPECIFICATION Spec
INVARIANTS
    IInv
    TypeOK
    SeatsConserved
    PaidAfterHeld
    RecordedPaymentIsOwn
    OneCancelUnwinds
    RefundedOnlyWhenUnwinding
PROPERTIES
    Lifecycle
CHECK_DEADLOCK FALSE
