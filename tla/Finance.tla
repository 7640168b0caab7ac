------------------------------ MODULE Finance ------------------------------
(***************************************************************************)
(* The money arithmetic of a booking: what is charged when it is made, what *)
(* a cancel returns and withholds, and what the adjustments on record add  *)
(* up to.  Amounts are whole Toman, percents whole numbers.                *)
(*                                                                         *)
(* A ledger holds, for each type of adjustment, the sum of the entries of  *)
(* that type: computeFinance never looks at single entries.                *)
(***************************************************************************)
EXTENDS Integers

Larger(m, n) == IF m >= n THEN m ELSE n
Smaller(m, n) == IF m <= n THEN m ELSE n

\* Math.round(n * percent / 100), which rounds halves up.
PercentOf(n, percent) == (n * percent + 50) \div 100
ClampPercent(percent) == Smaller(100, Larger(0, percent))

-----------------------------------------------------------------------------
(* What a booking costs at once and on site *)

DepositPercent(p) ==
    CASE p < 100000 -> 50
      [] 100000 <= p /\ p <= 300000 -> 30
      [] OTHER -> 20

RawDeposit(price) == PercentOf(Larger(0, price), DepositPercent(Larger(0, price)))
DepositAmount(price) == Smaller(500000, Larger(30000, RawDeposit(price)))

CalculateBookingFee(price) ==
    LET p == Larger(0, price) IN
    CASE p <= 200000 -> 10000
      [] 200000 < p /\ p <= 500000 -> 15000
      [] 500000 < p /\ p <= 1000000 -> 20000
      [] OTHER -> 25000

PayableOnSite(price) == Larger(0, Larger(0, price) - DepositAmount(price))

\* The credit a booking uses, and what is left for the gateway.
CreditUsed(requested, balance, charge) ==
    IF requested > 0 /\ charge > 0 THEN Smaller(Smaller(requested, balance), charge) ELSE 0
NetCharge(charge, credit) == Larger(0, charge - credit)

-----------------------------------------------------------------------------
(* What a cancel or a reschedule moves *)

CalculateRefund(deposit, percent) == PercentOf(deposit, ClampPercent(percent))
CalculatePenalty(deposit, percent) == PercentOf(deposit, ClampPercent(percent))

\* The first free reschedules of the customer cost nothing.
ReschedulePenalty(paid, used, free, percent) ==
    IF used < free THEN 0 ELSE PercentOf(paid, ClampPercent(percent))

PenaltyTypes == {"penalty_reschedule", "penalty_cancellation"}
AdjustmentTypes ==
    PenaltyTypes \cup {"deposit", "booking_fee", "payable_on_site", "refund", "debt"}

\* computeFinance, with the types that the code creates: no penalty for a no-show
\* or a violation is ever pushed.
TotalPenalties(ledger) == ledger["penalty_reschedule"] + ledger["penalty_cancellation"]
NetRefund(ledger) ==
    IF TotalPenalties(ledger) >= ledger["refund"] THEN 0 ELSE ledger["refund"] - TotalPenalties(ledger)
Debt(ledger) ==
    IF TotalPenalties(ledger) >= ledger["refund"] THEN TotalPenalties(ledger) - ledger["refund"] ELSE 0

\* all of computeFinance: the price is what was asked online and on site
ComputeFinance(ledger, isActive) ==
    LET price == ledger["deposit"] + ledger["payable_on_site"] IN
    [totalDeposit |-> ledger["deposit"],
     totalPaidOnline |-> ledger["deposit"] + ledger["booking_fee"],
     payableOnSite |-> IF isActive THEN Larger(0, price - ledger["deposit"] + TotalPenalties(ledger)) ELSE 0,
     totalPenalties |-> TotalPenalties(ledger),
     netRefund |-> NetRefund(ledger),
     debt |-> Debt(ledger)]

EmptyLedger == [t \in AdjustmentTypes |-> 0]
Push(ledger, entries) == [t \in AdjustmentTypes |-> ledger[t] + entries[t]]

\* The entries of a new booking.
BookingEntries(price) ==
    [EmptyLedger EXCEPT !["deposit"] = DepositAmount(price),
                        !["booking_fee"] = CalculateBookingFee(price),
                        !["payable_on_site"] = PayableOnSite(price)]

\* The entries of a cancel whose call had read the ledger as it then was.
CancelEntries(ledger, deposit, percent) ==
    LET moved == [EmptyLedger EXCEPT
                    !["refund"] = CalculateRefund(deposit, percent),
                    !["penalty_cancellation"] = CalculatePenalty(deposit, 100 - percent)]
    IN  [moved EXCEPT !["debt"] = Debt(Push(ledger, moved))]
=============================================================================
