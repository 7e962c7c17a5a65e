CONSTANTS
    b1 = b1
    b2 = b2
    b3 = b3
    c1 = c1
    c2 = c2
    show = show
    gratis = gratis
    NoPayment = NoPayment
    Events = {show}
    Capacity <- TwoSeats
    FreeEvents = {}
    Bookings = {b1, b2}
    EventOf <- AllShow
    SeatsOf <- FirstWantsTwo
    Cancels = {c1}
    TargetOf <- CancelsFirst
    Verdicts = {"AUTHORIZED", "DECLINED"}
    Retries = 2
    FaultKinds = {"refused", "error", "storeError", "delete"}
    MaxFaults = 2

SPECIFICATION Spec
INVARIANTS
    SeatsExactAtRest
    MoneyExactAtRest
    MessagesAreTrue
    ConfirmedIsBacked
    OnceOnly
PROPERTIES
    KeepsPromise
CHECK_DEADLOCK FALSE
