SPECIFICATION Spec
CONSTANTS
    p1 = p1
    p2 = p2
    p3 = p3
    p4 = p4
    a = a
    b = b
    g2 = g2
    g3 = g3
    Paths = {p1, p2, p3, p4}
    Pages = {a, b}
    Requests = {r1, r2}
    MaxChain = 1
    NoPath = NoPath
    NoPage = NoPage
    Phones = {u}
    Tokens = {t1, t2, t3}
    Clients = {c1, c2}
    NoToken = NoToken
    People = {u}
    ForeignIds = {f1, f2}
    Names = {n1, n2}
    Images = {g1, g2, g3}
    NameEdits = {e1, e2}
    Desks = {d1, d2}
    NoId = NoId
    NoImage = NoImage
    NoPerson = NoPerson
    Members = {u}
    Forms = {w1, w2}
    RoleSets = {{"owner"}, {"stylist"}}
    Answered = {"personal", "workplace"}
    Changes = {k1, k2, k3}
    Sums = {1, 2}
INVARIANTS OldAddressesLeadHome OneTokenPerSession ApprovedIdWasReviewed TickMatchesDecision RolesKeepTheirBacking WalletNeverDrifts
CHECK_DEADLOCK FALSE
