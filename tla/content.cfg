SPECIFICATION Spec
CONSTANTS
    u1 = u1
    b1 = b1
    w1 = w1
    w2 = w2
    p1 = p1
    p2 = p2
    Members = {u1, u2}
    Things = {q, a1}
    Question = q
    Visits = {v1, v2, v3}
    Nobody = Nobody
    People = {u1, u2}
    Author = u1
    Moderator = mod
    Remarks = {c1, c2}
    Taps = {t1, t2}
    NoRemark = NoRemark
    NoOne = NoOne
    Talks = {k1, k2}
    MaxMessages = 3
    PageSize = 1
    Replies = {r1, r2}
    MaxPosts = 3
    NoStatus = NoStatus
    Bookings = {b1, b2, b3}
    Legacy = b1
    Reviewers = {u1, u2}
    Stars = {2, 5}
    Desk = {m1, m2}
    NoBooking = NoBooking
    NobodyWrote = NobodyWrote
    Services = {h1, h2}
    Places = {p1, p2}
    Bodies <- BodiesDef
    Writers = {w1, w2}
    NoPolicy = NoPolicy
    NoPlace = NoPlace
    AllServices = AllServices
    Treatments = {s1, x1}
    Custom = {x1}
    Keys = {i1, i2, i3}
    Tasks = {j1, j2}
    MaxPictures = 2
INVARIANTS CountersFollowRows NumbersTellTheTruth FirstContactAnnouncedOnce NothingUnreadIsMissed TurnFollowsMessages RatingCountsWhatIsShown TermsShownAreTermsApplied NothingShownIsMissing
CHECK_DEADLOCK FALSE
