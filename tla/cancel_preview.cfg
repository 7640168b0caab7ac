SPECIFICATION Spec
CONSTANTS
    deposit = deposit
    topup = topup
    a1 = a1
    a2 = a2
    a3 = a3
    a4 = a4
    r1 = r1
    r2 = r2
    Scenes = {"ledger"}
    Orders = {deposit, topup}
    Deposits = {deposit}
    Callbacks = {a1, a2}
    Sweepers = {a3, a4}
    NoOrder = NoOrder
    Calls = {a1}
    Prices <- SomePrices
    Percents <- SomePercents
    FreeCounts <- SomeFreeCounts
    Limits <- SomeLimits
    None = None
    Bookings = {r1, r2}
    Price <- SamePrice
    PaymentModes = {TRUE}
    Requests = {a1, a2}
    Admins = {a3, a4}
    Amounts <- OneDeposit
    RefundPercents <- SomeRefundPercents
INVARIANT CancelKeepsThePreview
CHECK_DEADLOCK FALSE
