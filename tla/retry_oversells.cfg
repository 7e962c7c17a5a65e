CONSTANTS
    b1 = b1
    b2 = b2
    b3 = b3
    c1 = c1
    c2 = c2
    show = show
    gratis = gratis
    NoPayment = NoPayment
    Events = {show}
    Capacity <- TwoSeats
    FreeEvents = {}
    Bookings = {b1, b2, b3}
    EventOf <- AllShow
    SeatsOf <- ThirdWantsTwo
    Cancels = {c1}
    TargetOf <- CancelsFirst
    Verdicts = {"AUTHORIZED"}
    Retries = 1
    FaultKinds = {"timeout"}
    MaxFaults = 1

SPECIFICATION Spec
INVARIANTS
    NoOverselling
CHECK_DEADLOCK FALSE
