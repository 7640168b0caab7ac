SPECIFICATION Spec
CONSTANTS
    deposit = deposit
    topup = topup
    a1 = a1
    a2 = a2
    a3 = a3
    a4 = a4
    r1 = r1
    r2 = r2
    Scenes = {"claims"}
    Orders = {deposit, topup}
    Deposits = {deposit}
    Callbacks = {a1, a2}
    Sweepers = {a3, a4}
    NoOrder = NoOrder
    Calls = {a1, a2, a3, a4}
    Prices <- SomePrices
    Percents <- SomePercents
    FreeCounts <- SomeFreeCounts
    Limits <- SomeLimits
    None = None
    Bookings = {r1}
    Price <- SamePrice
    PaymentModes = {TRUE}
    Requests = {a1}
    Admins = {a3}
    Amounts <- OneDeposit
    RefundPercents <- SomeRefundPercents
INVARIANT BalanceIsNotYetSettled
CHECK_DEADLOCK FALSE
