----------------------------- MODULE Settlement -----------------------------
(***************************************************************************)
(* How a stylist is paid: requests that claim closed bookings, the balance *)
(* they are tested against, and the decisions of the admins, while bookings *)
(* still complete and are cancelled.                                       *)
(*                                                                         *)
(* Each query is one step and nothing is transactional: a request reads the *)
(* bookings, then the settlements, and creates its own settlement at the   *)
(* end; a decision reads the status, then saves another.  One stylist: no  *)
(* query mixes two.                                                        *)
(***************************************************************************)
EXTENDS Finance, FiniteSets, Functions

CONSTANTS
    Bookings,        \* the stylist's bookings
    Price,           \* the price of each
    PaymentModes,    \* whether bookings have to be paid online
    Requests,        \* settlement requests, each for one settlement at most
    Admins,          \* who decide on settlements, one at a time each
    None,            \* the settlement of an admin who has read none
    Amounts,         \* what a request by amount asks for
    RefundPercents         \* refund percents that policies yield

ASSUME SettlementAssumption ==
    /\ IsFiniteSet(Bookings) /\ IsFiniteSet(Requests)
    /\ Price \in [Bookings -> Nat]
    /\ PaymentModes \subseteq BOOLEAN
    /\ None \notin Requests
    /\ Amounts \subseteq Nat \ {0}
    /\ RefundPercents \subseteq 0..100

VARIABLES
    booking,      \* the reservation documents
    readers,   \* who has read each booking in order to cancel it
    request,      \* where each request stands
    settlement,   \* the settlement of each request
    decision,     \* the settlement each admin has read, and its status then
    late,         \* bookings cancelled by a call when they were closed already, or
                  \* opened again by a late payment
    overruled     \* settlements whose final status a decision read earlier overwrote

settlementVars == <<booking, readers, request, settlement, decision, late, overruled>>

BookingStates == [status : {"pending", "confirmed", "completed", "cancelled"},
                  payment : {"awaiting", "paid", "not_required"},
                  refund : Nat, penalty : Nat]

\* A booking as createReservation leaves it: a hold to be paid, or confirmed at once.
\* refund and penalty are the sums of its refund and penalty_cancellation entries.
Created(requiresPayment) ==
    [status |-> IF requiresPayment THEN "pending" ELSE "confirmed",
     payment |-> IF requiresPayment THEN "awaiting" ELSE "not_required",
     refund |-> 0, penalty |-> 0]

Cancellers == {"policy", "leave"}
Stages == {"idle", "chosen", "totalled", "funded", "informed", "ready", "over"}
RequestKinds == {"none", "itemised", "amount"}

\* gross and excluded are locals of the call; known is kept to state the properties: the
\* settlements in existence when the request looked for claimed bookings, without the
\* pending ones if these do not concern it.
IdleRequest == [stage |-> "idle", kind |-> "none", claim |-> {}, amount |-> 0,
                gross |-> 0, excluded |-> {}, known |-> {}]

SettlementStatuses == {"none", "pending", "approved", "paid", "rejected"}
NoSettlement == [status |-> "none", claim |-> {}, amount |-> 0]
Refused == [IdleRequest EXCEPT !.stage = "over"]
NoDecision == [on |-> None, seen |-> "none"]

\* The amounts are left untyped: PricesAreKept and AmountIsWhatIsOwed say what they are.
SettlementTypeOK ==
    /\ booking \in [Bookings -> BookingStates]
    /\ readers \in [Bookings -> SUBSET Cancellers]
    /\ DOMAIN request = Requests /\ DOMAIN settlement = Requests
    /\ \A q \in Requests :
          /\ DOMAIN request[q] = DOMAIN IdleRequest
          /\ request[q].stage \in Stages
          /\ request[q].kind \in RequestKinds
          /\ request[q].claim \in SUBSET Bookings
          /\ request[q].excluded \in SUBSET Bookings
          /\ request[q].known \in SUBSET Requests
          /\ DOMAIN settlement[q] = DOMAIN NoSettlement
          /\ settlement[q].status \in SettlementStatuses
          /\ settlement[q].claim \in SUBSET Bookings
    /\ decision \in [Admins -> [on : Requests \cup {None}, seen : SettlementStatuses]]
    /\ late \in SUBSET Bookings
    /\ overruled \in SUBSET Requests

SettlementInit ==
    /\ booking \in [Bookings -> {Created(requiresPayment) : requiresPayment \in PaymentModes}]
    /\ readers = [r \in Bookings |-> {}]
    /\ request = [q \in Requests |-> IdleRequest]
    /\ settlement = [q \in Requests |-> NoSettlement]
    /\ decision = [a \in Admins |-> NoDecision]
    /\ late = {}
    /\ overruled = {}

-----------------------------------------------------------------------------
(* The bookings *)

\* confirmPaidReservation, also of a hold that was cancelled meanwhile.
ConfirmPaidBooking(r) ==
    /\ booking[r].payment = "awaiting"
    /\ booking' = [booking EXCEPT ![r].status = "confirmed", ![r].payment = "paid"]
    /\ late' = IF booking[r].status = "cancelled" THEN late \cup {r} ELSE late
    /\ UNCHANGED <<readers, request, settlement, decision, overruled>>

\* completeDueReservations.
CompleteDue(r) ==
    /\ booking[r].status = "confirmed"
    /\ booking' = [booking EXCEPT ![r].status = "completed"]
    /\ UNCHANGED <<readers, request, settlement, decision, late, overruled>>

\* Variant that stops at what is cancelled only.
MayBeCancelledOnce(r) == booking[r].status # "cancelled"

MayBeCancelled(r) == booking[r].status \in {"pending", "confirmed"}

\* The guard of a cancel, on the document it read; leaveSalon finds confirmed ones.
ReadBookingToCancel(r, who) ==
    /\ IF who = "leave" THEN booking[r].status = "confirmed" ELSE MayBeCancelled(r)
    /\ readers' = [readers EXCEPT ![r] = @ \cup {who}]
    /\ UNCHANGED <<booking, request, settlement, decision, late, overruled>>

\* applyCancellationFinance and the save, whatever the booking has become since;
\* the sum of its debt entries is no part of a settlement.
SaveCancelled(r, percent) ==
    /\ "policy" \in readers[r]
    /\ booking' = [booking EXCEPT
          ![r].status = "cancelled",
          ![r].refund = @ + CalculateRefund(DepositAmount(Price[r]), percent),
          ![r].penalty = @ + CalculatePenalty(DepositAmount(Price[r]), 100 - percent)]
    /\ readers' = [readers EXCEPT ![r] = @ \ {"policy"}]
    /\ late' = IF MayBeCancelled(r) THEN late ELSE late \cup {r}
    /\ UNCHANGED <<request, settlement, decision, overruled>>

\* leaveSalon's updateMany: no money moves.
SaveLeave(r) ==
    /\ "leave" \in readers[r]
    /\ booking' = [booking EXCEPT ![r].status = "cancelled"]
    /\ readers' = [readers EXCEPT ![r] = @ \ {"leave"}]
    /\ late' = IF booking[r].status = "completed" THEN late \cup {r} ELSE late
    /\ UNCHANGED <<request, settlement, decision, overruled>>

\* A cancel throws before it has saved.
FailCancel(r, who) ==
    /\ who \in readers[r]
    /\ readers' = [readers EXCEPT ![r] = @ \ {who}]
    /\ UNCHANGED <<booking, request, settlement, decision, late, overruled>>

BookingStep(r) ==
    \/ ConfirmPaidBooking(r)
    \/ CompleteDue(r)
    \/ \E who \in Cancellers : ReadBookingToCancel(r, who) \/ FailCancel(r, who)
    \/ \E percent \in RefundPercents : SaveCancelled(r, percent)
    \/ SaveLeave(r)

-----------------------------------------------------------------------------
(* What a booking is worth to the stylist *)

HasCancellationFinance(r) == booking[r].refund > 0 \/ booking[r].penalty > 0

CancelledStylistPayout(r) == Larger(0, DepositAmount(Price[r]) - booking[r].refund)

\* A completed booking is worth its deposit, whatever refunds are on record.
NetStylistAmount(r) ==
    IF booking[r].status = "cancelled" THEN CancelledStylistPayout(r) ELSE DepositAmount(Price[r])

TotalNet(claim) == SumFunction([r \in claim |-> NetStylistAmount(r)])

Settlable(r) ==
    /\ booking[r].payment \in {"paid", "not_required"}
    /\ \/ booking[r].status = "completed"
       \/ /\ booking[r].status = "cancelled"
          /\ HasCancellationFinance(r)
          /\ CancelledStylistPayout(r) > 0

\* totalDeposits: what the completed bookings paid online left after the fees.  The
\* sum of the penalties of the cancelled ones is always 0: the projection before the
\* $group drops the amount that it sums.
CompletedDeposits == {r \in Bookings : booking[r].payment = "paid" /\ booking[r].status = "completed"}
NetDeposits(done) == SumFunction([r \in done |-> DepositAmount(Price[r]) - CalculateBookingFee(Price[r])])
GrossBalance == NetDeposits(CompletedDeposits)

WithStatus(statuses) == {q \in Requests : settlement[q].status \in statuses}
ClaimedBy(requests) == UNION {settlement[q].claim : q \in requests}
TotalAmount(requests) == SumFunction([q \in requests |-> settlement[q].amount])

-----------------------------------------------------------------------------
(* A request for chosen bookings *)

\* The bookings are read, tested and priced.
Choose(q, claim) ==
    /\ request[q].stage = "idle"
    /\ \A r \in claim : Settlable(r)
    /\ request' = [request EXCEPT ![q] = [IdleRequest EXCEPT !.stage = "chosen", !.kind = "itemised",
                                            !.claim = claim, !.amount = TotalNet(claim)]]
    /\ UNCHANGED <<booking, readers, settlement, decision, late, overruled>>

\* getExcludedReservationIds: none of them is in a settlement that is not rejected.
CheckExcluded(q) ==
    /\ request[q].stage = "chosen"
    /\ request' = [request EXCEPT ![q] =
          IF request[q].claim \cap ClaimedBy(WithStatus({"pending", "approved", "paid"})) = {}
          THEN [@ EXCEPT !.stage = "ready", !.known = WithStatus(SettlementStatuses \ {"none"})]
          ELSE Refused]
    /\ UNCHANGED <<booking, readers, settlement, decision, late, overruled>>

-----------------------------------------------------------------------------
(* A request for an amount *)

ReadDeposits(q, wanted) ==
    /\ request[q].stage = "idle"
    /\ request' = [request EXCEPT ![q] = [IdleRequest EXCEPT !.stage = "totalled", !.kind = "amount",
                                            !.amount = wanted, !.gross = GrossBalance]]
    /\ UNCHANGED <<booking, readers, settlement, decision, late, overruled>>

\* getSettlementBalance: availableBalance.  Only open settlements are subtracted.
Available(gross) == Larger(0, gross - TotalAmount(WithStatus({"pending", "approved"})))

\* The test against it.
CheckBalance(q) ==
    /\ request[q].stage = "totalled"
    /\ request' = [request EXCEPT ![q] =
          IF request[q].amount <= Available(request[q].gross)
          THEN [@ EXCEPT !.stage = "funded", !.gross = 0]
          ELSE Refused]
    /\ UNCHANGED <<booking, readers, settlement, decision, late, overruled>>

\* getSettledReservationIds: a pending settlement keeps nothing from being selected.
ReadSettled(q) ==
    /\ request[q].stage = "funded"
    /\ request' = [request EXCEPT ![q].stage = "informed",
                                  ![q].excluded = ClaimedBy(WithStatus({"approved", "paid"})),
                                  ![q].known = WithStatus(SettlementStatuses \ {"none", "pending"})]
    /\ UNCHANGED <<booking, readers, settlement, decision, late, overruled>>

\* What the greedy loop can end with, whatever the order the bookings come in: a
\* claim within the amount that no other booking would still fit into.
Selections(q) ==
    LET available == {r \in Bookings \ request[q].excluded : Settlable(r) /\ NetStylistAmount(r) > 0}
        Fits(claim) == TotalNet(claim) <= request[q].amount
    IN  {claim \in SUBSET available :
            Fits(claim) /\ \A r \in available \ claim : ~ Fits(claim \cup {r})}

Select(q, claim) ==
    /\ request[q].stage = "informed"
    /\ claim \in Selections(q)
    /\ request' = [request EXCEPT ![q] =
          IF claim # {}
          THEN [@ EXCEPT !.stage = "ready", !.excluded = {},
                         !.claim = claim, !.amount = TotalNet(claim)]
          ELSE Refused]
    /\ UNCHANGED <<booking, readers, settlement, decision, late, overruled>>

-----------------------------------------------------------------------------
Create(q) ==
    /\ request[q].stage = "ready"
    /\ settlement' = [settlement EXCEPT ![q] = [status |-> "pending", claim |-> request[q].claim,
                                                 amount |-> request[q].amount]]
    /\ request' = [request EXCEPT ![q].stage = "over", ![q].claim = {}, ![q].amount = 0]
    /\ UNCHANGED <<booking, readers, decision, late, overruled>>

\* A query throws.
FailRequest(q) ==
    /\ request[q].stage \notin {"idle", "over"}
    /\ request' = [request EXCEPT ![q] = Refused]
    /\ UNCHANGED <<booking, readers, settlement, decision, late, overruled>>

RequestStep(q) ==
    \/ \E claim \in SUBSET Bookings \ {{}} : Choose(q, claim)
    \/ CheckExcluded(q)
    \/ \E wanted \in Amounts : ReadDeposits(q, wanted)
    \/ CheckBalance(q)
    \/ ReadSettled(q)
    \/ \E claim \in SUBSET Bookings : Select(q, claim)
    \/ Create(q)
    \/ FailRequest(q)

-----------------------------------------------------------------------------
(* adminUpdateSettlement *)

\* Variant without the guard against what was processed.
ReadAnySettlement(a, q) ==
    /\ decision[a].on = None
    /\ settlement[q].status # "none"
    /\ decision' = [decision EXCEPT ![a] = [on |-> q, seen |-> settlement[q].status]]
    /\ UNCHANGED <<booking, readers, request, settlement, late, overruled>>

ReadSettlement(a, q) ==
    /\ decision[a].on = None
    /\ settlement[q].status \in {"pending", "approved"}
    /\ decision' = [decision EXCEPT ![a] = [on |-> q, seen |-> settlement[q].status]]
    /\ UNCHANGED <<booking, readers, request, settlement, late, overruled>>

\* The save writes the status only when it differs from the one that was read, and
\* asks nothing of the one on record.
Decide(a, status) ==
    LET q == decision[a].on
        stale == decision[a].seen \in {"pending", "approved"}
                    /\ settlement[q].status \in {"paid", "rejected"} \ {status}
    IN
    /\ q # None
    /\ IF status = decision[a].seen
       THEN UNCHANGED <<settlement, overruled>>
       ELSE /\ settlement' = [settlement EXCEPT ![q].status = status]
            /\ overruled' = IF stale THEN overruled \cup {q} ELSE overruled
    /\ decision' = [decision EXCEPT ![a] = NoDecision]
    /\ UNCHANGED <<booking, readers, request, late>>

FailDecision(a) ==
    /\ decision[a].on # None
    /\ decision' = [decision EXCEPT ![a] = NoDecision]
    /\ UNCHANGED <<booking, readers, request, settlement, late, overruled>>

AdminStep(a) ==
    \/ \E q \in Requests : ReadSettlement(a, q)
    \/ \E status \in {"approved", "rejected", "paid"} : Decide(a, status)
    \/ FailDecision(a)

SettlementNext ==
    \/ \E r \in Bookings : BookingStep(r)
    \/ \E q \in Requests : RequestStep(q)
    \/ \E a \in Admins : AdminStep(a)

SettlementSpec == SettlementInit /\ [][SettlementNext]_settlementVars

-----------------------------------------------------------------------------
(* What the stylist and the admins are shown *)

\* one line of getReservationDetails
Details(r) ==
    [status |-> booking[r].status,
     depositAmount |-> DepositAmount(Price[r]),
     totalPenalties |-> booking[r].penalty,
     netRefund |-> Larger(0, booking[r].refund - booking[r].penalty),
     debt |-> Larger(0, booking[r].penalty - booking[r].refund),
     netAmount |-> NetStylistAmount(r)]

\* the bookings that are offered for a request
SettlableReservations ==
    {r \in Bookings \ ClaimedBy(WithStatus({"pending", "approved", "paid"})) : Settlable(r)}
GetSettlableReservations == [r \in SettlableReservations |-> Details(r)]

\* listStylistSettlements, adminListSettlements
SettlementPage(q) ==
    [amount |-> settlement[q].amount, status |-> settlement[q].status,
     reservations |-> [r \in settlement[q].claim |-> Details(r)]]
ListSettlements(statuses) == [q \in WithStatus(statuses) |-> SettlementPage(q)]

-----------------------------------------------------------------------------
(* Properties *)

Live(q) == settlement[q].status \in {"pending", "approved", "paid"}

\* Two live settlements share a booking only if the second did not find the first
\* when it looked, or if a stale decision has brought the first back from a rejection;
\* a request for an amount does not look for pending ones.
KnownClaimsStayApart ==
    \A q \in Requests : \A p \in request[q].known \ (overruled \cup {q}) :
        Live(p) /\ Live(q) => settlement[p].claim \cap settlement[q].claim = {}

\* The amount that was promised stays the worth of the bookings claimed, however
\* long the decision takes, but for bookings that changed late.
AmountIsWhatIsOwed ==
    \A q \in Requests :
        settlement[q].status # "none" /\ settlement[q].claim \cap late = {}
        => settlement[q].amount = TotalNet(settlement[q].claim)

\* The pages of a settlement add up, but for bookings that changed late: its amount is
\* the sum of the lines, and in each line the stylist's share and the customer's refund
\* (after the penalties, and what these left as debt) make up the deposit.  No booking
\* gets lost: when its settlement is rejected it is offered again, unless another live
\* settlement has it.
PagesShowWhatIsOwed ==
    \A q \in WithStatus(SettlementStatuses \ {"none"}) : settlement[q].claim \cap late = {} =>
        LET page == SettlementPage(q) IN
        /\ page.amount = SumFunction([r \in settlement[q].claim |-> page.reservations[r].netAmount])
        /\ \A r \in settlement[q].claim :
              LET line == page.reservations[r] IN
              /\ line.netAmount + line.netRefund + line.totalPenalties - line.debt = line.depositAmount
              /\ r \in DOMAIN GetSettlableReservations
                    \/ \E p \in DOMAIN ListSettlements({"pending", "approved", "paid"}) :
                           r \in settlement[p].claim

\* "Total confirmed deposits that are not yet settled, minus pending settlement
\* requests": what the stylist may ask for is within what the completed bookings that
\* no paid settlement has taken have left.
BalanceIsNotYetSettled ==
    Available(GrossBalance) <=
        NetDeposits(CompletedDeposits \ ClaimedBy(WithStatus({"paid"})))

\* Why these hold, as an inductive invariant.  A decision rests on an open status; a
\* request that is not over has no settlement, and knows only what was created.
CallsMatchRecords ==
    /\ \A a \in Admins : decision[a].on # None =>
          /\ decision[a].seen \in {"pending", "approved"}
          /\ settlement[decision[a].on].status # "none"
    /\ \A q \in Requests :
          /\ settlement[q].status # "none" => request[q].stage = "over"
          /\ settlement[q].status = "none" => settlement[q].claim = {}
          /\ request[q].stage \in {"idle", "chosen", "totalled", "funded"} => request[q].known = {}
          /\ \A p \in request[q].known : settlement[p].status # "none"

\* What a request claims, or is about to, is disjoint from what it knows to be claimed.
RequestsKeepAway ==
    \A q \in Requests : \A p \in request[q].known \ (overruled \cup {q}) : Live(p) =>
        /\ request[q].stage = "informed" => settlement[p].claim \subseteq request[q].excluded
        /\ request[q].stage = "ready" => settlement[p].claim \cap request[q].claim = {}
        /\ settlement[p].claim \cap settlement[q].claim = {}

\* Money is on record for cancelled bookings only, within the deposit, and only holds
\* await a payment.
MoneyMatchesStatus ==
    \A r \in Bookings :
        /\ booking[r].status \in {"confirmed", "completed"} => booking[r].payment # "awaiting"
        /\ r \notin late =>
              /\ booking[r].status # "cancelled" => booking[r].refund = 0
              /\ booking[r].refund <= DepositAmount(Price[r])

\* What is claimed, or about to be, stays settlable, and its price is kept.
ClaimsAreSettlable ==
    \A q \in Requests : \A r \in (request[q].claim \cup settlement[q].claim) \ late : Settlable(r)
PricesAreKept ==
    \A q \in Requests :
        request[q].stage \in {"chosen", "ready"} /\ request[q].claim \cap late = {}
        => request[q].amount = TotalNet(request[q].claim)

SettlementInv ==
    /\ SettlementTypeOK
    /\ CallsMatchRecords
    /\ RequestsKeepAway
    /\ MoneyMatchesStatus
    /\ ClaimsAreSettlable
    /\ PricesAreKept
    /\ AmountIsWhatIsOwed
=============================================================================
