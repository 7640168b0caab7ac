SPECIFICATION Spec
CONSTANTS
    s = s
    u = u
    e = e
    c1 = c1
    c2 = c2
    p1 = p1
    p2 = p2
    w1 = w1
    v1 = v1
    v2 = v2
    r1 = r1
    r2 = r2
    k1 = k1
    k2 = k2
    o1 = o1
    o2 = o2
    n1 = n1
    n2 = n2
    ph1 = ph1
    ph2 = ph2
    Users = {s, u}
    Stylist = s
    Bookings = {1, 2}
    Referees = {e}
    Claims = {c1, c2}
    Passes = {p1, p2}
    Writers = {w1}
    MaxRows = 2
    MaxLoose = 1
    MaxCrashes = 1
    CompletionCredit = 1
    ReviewCredit = 1
    RewardAmount = 1
    CancelPenalty = 1
    Threshold = 1
    SpendAmount = 1
    PlanCreditPrice = 1
    Nobody = Nobody
    Savers = {v1, v2}
    Reminders = {r1, r2}
    Period = 4
    MaxDay = 6
    MaxPeriods = 2
    Codes = {k1, k2}
    Orders = {o1, o2}
    OffTimes = {o2}
    Price = 3
    Share = 2
    Values = {50}
    Limits = {1}
    Caps = {1}
    Unlimited = 9
    Senders = {n1, n2}
    Phones = {ph1, ph2}
    SilverMax = 2
    GoldMax = 3
    MaxLost = 1
    NoCode = NoCode
    tale1 = tale1
    tale2 = tale2
    Tales = {tale1, tale2}
    Viewers = {u}
    Sights = {sight1}
    MaxStops = 1
    NoTale = NoTale
    NoViewer = NoViewer
INVARIANTS LedgerExplainsBalance RemindedOncePerPeriod PurchasedPlanLasts AnsweredWithinLimit CampaignsApartKeepTheirBounds
PROPERTIES NotifiedIsNotAwardedAgain ExpiredStoriesGo
CHECK_DEADLOCK FALSE
