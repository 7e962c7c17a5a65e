CONSTANTS
    big = big
    small = small
    h1 = h1
    h2 = h2
    h3 = h3
    h4 = h4
    h5 = h5
    Events = {big, small}
    Capacity <- SmallOrBig
    Handlers = {h1, h2, h3, h4, h5}
    EventOf <- LastIsSmall
    DeltaOf <- Adjustments

SPECIFICATION Spec
INVARIANTS
    TypeOK
    SeatsAddUp
PROPERTIES
    KeepsLedger
CHECK_DEADLOCK FALSE
