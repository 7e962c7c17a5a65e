CONSTANTS
    b1 = b1
    b2 = b2
    b3 = b3
    c1 = c1
    c2 = c2
    show = show
    gratis = gratis
    NoPayment = NoPayment
    Events = {show, gratis}
    Capacity <- TwoSeats
    FreeEvents = {gratis}
    Bookings = {b1, b2, b3}
    EventOf <- ThirdIsFree
    SeatsOf <- FirstWantsTwo
    Cancels = {c1, c2}
    TargetOf <- CancelsFirst
    Verdicts = {"AUTHORIZED", "DECLINED"}
    Retries = 2
    FaultKinds = {}
    MaxFaults = 0

SPECIFICATION Spec
INVARIANTS
    NoOverselling
    SeatsExactAtRest
CHECK_DEADLOCK FALSE
