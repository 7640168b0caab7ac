SPECIFICATION FairSpec
CONSTANTS
    s1 = s1
    s2 = s2
    s3 = s3
    Bookings = {b1, b2}
    Slots = {s1, s2}
    Overlapping <- Disjoint
    NoSlot = NoSlot
    MaxPending = 1
INVARIANT OnlyOvertakenDoubles
PROPERTIES ImplementsCalendar HoldsDoNotBlockForever
CHECK_DEADLOCK FALSE
