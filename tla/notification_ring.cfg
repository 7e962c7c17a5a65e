CONSTANTS
    n1 = n1
    n2 = n2
    n3 = n3
    n4 = n4
    b1 = b1
    b2 = b2
    Notices = {n1, n2, n3, n4}
    Bookings = {b1, b2}
    BookingOf <- EvenAndOdd
    Random <- Position
    Size = 2
    DefaultSize = 3
    MaxClock = 2

SPECIFICATION Spec
INVARIANTS
    RingTypeOK
    FeedShowsLatest
CHECK_DEADLOCK FALSE
