SPECIFICATION Spec
CONSTANTS
    x = x
    y = y
    o = o
    s1 = s1
    s2 = s2
    h1 = h1
    h2 = h2
    e1 = e1
    e2 = e2
    i1 = i1
    i2 = i2
    b1 = b1
    Users = {x, y, o}
    Stylists = {x, y}
    Salons = {s1, s2}
    Handlers = {h1, h2}
    NoUser = NoUser
    Worker = x
    HourIds = {i1, i2}
    Editors = {e1, e2}
    Reservations = {b1}
    Spans <- Day
    Openings <- OpenDays
    Lengths = {1, 2}
    Horizon = 4
    Step15 = 1
    Freelance = Freelance
    PageLimit = 1
    Own = Own
INVARIANT FreshBookingsInHours
CHECK_DEADLOCK FALSE
