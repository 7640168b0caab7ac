SPECIFICATION Spec
CONSTANTS
    s1 = s1
    s2 = s2
    s3 = s3
    b1 = b1
    b2 = b2
    Bookings = {b1, b2}
    Slots = {s1, s2, s3}
    Overlapping <- Chain
    NoSlot = NoSlot
    MaxPending = 1
INVARIANT NoDoubleBooking
CHECK_DEADLOCK FALSE
