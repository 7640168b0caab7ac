-------------------------- MODULE SettlementProofs --------------------------
(***************************************************************************)
(* That claims stay apart and keep their price, and that the pages say so, *)
(* for any number of bookings, requests and admins.                        *)
(***************************************************************************)
EXTENDS Settlement, FinanceProofs

USE SettlementAssumption

\* A deposit is a whole amount, and a cancel refunds no more of it than there is.
LEMMA RefundBounds ==
  ASSUME NEW r \in Bookings, NEW percent \in RefundPercents
  PROVE  /\ DepositAmount(Price[r]) \in Nat
         /\ CalculateRefund(DepositAmount(Price[r]), percent) \in Nat
         /\ CalculatePenalty(DepositAmount(Price[r]), 100 - percent) \in Nat
         /\ CalculateRefund(DepositAmount(Price[r]), percent) <= DepositAmount(Price[r])
<1>1. Price[r] \in Int /\ percent \in 0..100
  OBVIOUS
<1>2. DepositAmount(Price[r]) \in Nat
  BY <1>1, DepositType, Zenon
<1>3. /\ CalculateRefund(DepositAmount(Price[r]), percent) \in 0..DepositAmount(Price[r])
      /\ CalculatePenalty(DepositAmount(Price[r]), 100 - percent) \in 0..DepositAmount(Price[r])
  BY <1>1, <1>2, RefundAndPenalty, Zenon
<1>4. QED
  BY <1>2, <1>3

\* The deposit of every booking is a whole amount.
LEMMA Deposits == \A r \in Bookings : DepositAmount(Price[r]) \in Nat
<1>1. \A r \in Bookings : Price[r] \in Int
  OBVIOUS
<1>2. QED
  BY <1>1, DepositType, Zenon

\* A step of a booking keeps the types.
LEMMA BookingTypes ==
  ASSUME SettlementTypeOK, NEW r \in Bookings, BookingStep(r)
  PROVE  SettlementTypeOK'
<1>0. UNCHANGED <<request, settlement, decision, overruled>>
  BY DEF BookingStep, ConfirmPaidBooking, CompleteDue, ReadBookingToCancel, SaveCancelled, SaveLeave, FailCancel
<1>1. late' \in SUBSET Bookings
  <2>1. late' = late \/ late' = late \cup {r}
    BY DEF BookingStep, ConfirmPaidBooking, CompleteDue, ReadBookingToCancel, SaveCancelled, SaveLeave, FailCancel
  <2>2. QED
    BY <2>1 DEF SettlementTypeOK
<1> USE DEF SettlementTypeOK
<1>2. readers' \in [Bookings -> SUBSET Cancellers]
  <2>1. \/ UNCHANGED readers
        \/ \E who \in Cancellers : readers' = [readers EXCEPT ![r] = @ \cup {who}]
        \/ \E who \in Cancellers : readers' = [readers EXCEPT ![r] = @ \ {who}]
    BY DEF BookingStep, ConfirmPaidBooking, CompleteDue, ReadBookingToCancel, SaveCancelled, SaveLeave, FailCancel,
           Cancellers
  <2>2. QED
    BY <2>1
<1>3. booking' \in [Bookings -> BookingStates]
  <2>1. ASSUME NEW percent \in RefundPercents, SaveCancelled(r, percent)
        PROVE  booking' \in [Bookings -> BookingStates]
    <3> DEFINE d == DepositAmount(Price[r])
               refunded == CalculateRefund(d, percent)
               charged == CalculatePenalty(d, 100 - percent)
    <3>1. refunded \in Nat /\ charged \in Nat
      BY RefundBounds
    <3> HIDE DEF refunded, charged
    <3>2. booking[r] \in BookingStates
      OBVIOUS
    <3>3. booking[r].refund + refunded \in Nat /\ booking[r].penalty + charged \in Nat
      BY <3>1, <3>2 DEF BookingStates
    <3>4. [booking[r] EXCEPT !.status = "cancelled", !.refund = @ + refunded,
                             !.penalty = @ + charged] \in BookingStates
      BY <3>2, <3>3 DEF BookingStates
    <3>5. booking' = [booking EXCEPT ![r] = [booking[r] EXCEPT
                         !.status = "cancelled", !.refund = @ + refunded, !.penalty = @ + charged]]
      BY <2>1 DEF SaveCancelled, refunded, charged
    <3>6. QED
      BY <3>4, <3>5
  <2>2. CASE \E who \in Cancellers : ReadBookingToCancel(r, who) \/ FailCancel(r, who)
    BY <2>2 DEF ReadBookingToCancel, FailCancel
  <2>3. CASE ConfirmPaidBooking(r)
    <3>1. booking[r] \in BookingStates
      OBVIOUS
    <3>2. [booking[r] EXCEPT !.status = "confirmed", !.payment = "paid"] \in BookingStates
      BY <3>1 DEF BookingStates
    <3>3. booking' = [booking EXCEPT ![r] = [booking[r] EXCEPT !.status = "confirmed",
                                                               !.payment = "paid"]]
      BY <2>3 DEF ConfirmPaidBooking
    <3>4. QED
      BY <3>2, <3>3
  <2>4. CASE CompleteDue(r)
    <3>1. [booking[r] EXCEPT !.status = "completed"] \in BookingStates
      BY DEF BookingStates
    <3>2. booking' = [booking EXCEPT ![r] = [booking[r] EXCEPT !.status = "completed"]]
      BY <2>4 DEF CompleteDue
    <3>3. QED
      BY <3>1, <3>2
  <2>5. CASE SaveLeave(r)
    <3>1. [booking[r] EXCEPT !.status = "cancelled"] \in BookingStates
      BY DEF BookingStates
    <3>2. booking' = [booking EXCEPT ![r] = [booking[r] EXCEPT !.status = "cancelled"]]
      BY <2>5 DEF SaveLeave
    <3>3. QED
      BY <3>1, <3>2
  <2>6. QED
    BY <2>1, <2>2, <2>3, <2>4, <2>5 DEF BookingStep
<1>4. QED
  BY <1>0, <1>1, <1>2, <1>3

\* A step of a request keeps the types.
LEMMA RequestTypes ==
  ASSUME SettlementTypeOK, NEW q \in Requests, RequestStep(q)
  PROVE  SettlementTypeOK'
<1> USE DEF SettlementTypeOK, Stages, RequestKinds, SettlementStatuses
<1>0. UNCHANGED <<booking, readers, decision, late, overruled>>
  BY DEF RequestStep, Choose, CheckExcluded, ReadDeposits, CheckBalance, ReadSettled, Select,
         Create, FailRequest
<1>1. ASSUME NEW claim \in SUBSET Bookings \ {{}}, Choose(q, claim) PROVE SettlementTypeOK'
  BY <1>0, <1>1 DEF Choose, IdleRequest
<1>2. CASE CheckExcluded(q)
  BY <1>0, <1>2 DEF CheckExcluded, IdleRequest, Refused, WithStatus
<1>3. ASSUME NEW wanted \in Amounts, ReadDeposits(q, wanted) PROVE SettlementTypeOK'
  BY <1>0, <1>3 DEF ReadDeposits, IdleRequest
<1>4. CASE CheckBalance(q)
  BY <1>0, <1>4 DEF CheckBalance, IdleRequest, Refused, WithStatus
<1>5. CASE ReadSettled(q)
  <2> DEFINE found == ClaimedBy(WithStatus({"approved", "paid"}))
             decided == WithStatus(SettlementStatuses \ {"none", "pending"})
  <2>1. found \in SUBSET Bookings /\ decided \in SUBSET Requests
    BY DEF ClaimedBy, WithStatus
  <2>2. /\ request' = [request EXCEPT ![q].stage = "informed", ![q].excluded = found,
                                      ![q].known = decided]
        /\ UNCHANGED settlement
    BY <1>5 DEF ReadSettled
  <2> HIDE DEF found, decided
  <2>3. QED
    BY <1>0, <2>1, <2>2 DEF IdleRequest
<1>6. ASSUME NEW claim \in SUBSET Bookings, Select(q, claim) PROVE SettlementTypeOK'
  BY <1>0, <1>6 DEF Select, IdleRequest, Refused
<1>7. CASE Create(q)
  BY <1>0, <1>7 DEF Create, NoSettlement, IdleRequest
<1>8. CASE FailRequest(q)
  BY <1>0, <1>8 DEF FailRequest, Refused, IdleRequest
<1>9. QED
  BY <1>1, <1>2, <1>3, <1>4, <1>5, <1>6, <1>7, <1>8 DEF RequestStep

\* A step of an admin keeps the types.
LEMMA AdminTypes ==
  ASSUME SettlementTypeOK, NEW a \in Admins, AdminStep(a)
  PROVE  SettlementTypeOK'
<1> USE DEF SettlementTypeOK, SettlementStatuses, NoDecision, NoSettlement
<1>1. ASSUME NEW q \in Requests, ReadSettlement(a, q) PROVE SettlementTypeOK'
  BY <1>1 DEF ReadSettlement
<1>2. ASSUME NEW status \in {"approved", "rejected", "paid"}, Decide(a, status) PROVE SettlementTypeOK'
  BY <1>2 DEF Decide
<1>3. CASE FailDecision(a)
  BY <1>3 DEF FailDecision
<1>4. QED
  BY <1>1, <1>2, <1>3 DEF AdminStep

\* The variables keep their types in every step.
LEMMA StepTypes == SettlementTypeOK /\ [SettlementNext]_settlementVars => SettlementTypeOK'
<1>1. ASSUME SettlementTypeOK, UNCHANGED settlementVars PROVE SettlementTypeOK'
  BY <1>1 DEF SettlementTypeOK, settlementVars
<1>2. QED
  BY <1>1, BookingTypes, RequestTypes, AdminTypes DEF SettlementNext

\* The variables have their types at the start.
LEMMA InitTypes == SettlementInit => SettlementTypeOK
  BY DEF SettlementInit, SettlementTypeOK, Created, BookingStates, IdleRequest, NoSettlement, NoDecision, Stages,
         RequestKinds, SettlementStatuses, Cancellers

\* The variables keep their types for any number of bookings, requests and admins.
THEOREM TypeCorrect == SettlementSpec => []SettlementTypeOK
  BY InitTypes, StepTypes, PTL DEF SettlementSpec

-----------------------------------------------------------------------------
\* What a decision rests on, and what a request has on record, in every step.
LEMMA StepCalls == SettlementTypeOK /\ CallsMatchRecords /\ [SettlementNext]_settlementVars => CallsMatchRecords'
<1> SUFFICES ASSUME SettlementTypeOK, CallsMatchRecords, [SettlementNext]_settlementVars PROVE CallsMatchRecords'
  OBVIOUS
<1> USE DEF SettlementTypeOK, CallsMatchRecords
<1>1. ASSUME NEW r \in Bookings, BookingStep(r) PROVE CallsMatchRecords'
  BY <1>1 DEF BookingStep, ConfirmPaidBooking, CompleteDue, ReadBookingToCancel, SaveCancelled, SaveLeave, FailCancel
<1>2. ASSUME NEW q \in Requests, RequestStep(q) PROVE CallsMatchRecords'
  <2>1. ASSUME NEW claim, Choose(q, claim) PROVE CallsMatchRecords'
    BY <2>1 DEF Choose, IdleRequest
  <2>2. CASE CheckExcluded(q)
    BY <2>2 DEF CheckExcluded, IdleRequest, Refused, WithStatus
  <2>3. ASSUME NEW wanted, ReadDeposits(q, wanted) PROVE CallsMatchRecords'
    BY <2>3 DEF ReadDeposits, IdleRequest
  <2>4. CASE CheckBalance(q)
    BY <2>4 DEF CheckBalance, IdleRequest, Refused
  <2>5. CASE ReadSettled(q)
    <3> DEFINE found == ClaimedBy(WithStatus({"approved", "paid"}))
               decided == WithStatus(SettlementStatuses \ {"none", "pending"})
    <3>1. \A p \in decided : settlement[p].status # "none"
      BY DEF WithStatus
    <3>2. /\ request' = [request EXCEPT ![q].stage = "informed", ![q].excluded = found,
                                        ![q].known = decided]
          /\ UNCHANGED <<settlement, decision>>
          /\ request[q].stage = "funded"
      BY <2>5 DEF ReadSettled
    <3> HIDE DEF found, decided
    <3>3. QED
      BY <3>1, <3>2 DEF IdleRequest
  <2>6. ASSUME NEW claim, Select(q, claim) PROVE CallsMatchRecords'
    BY <2>6 DEF Select, IdleRequest, Refused
  <2>7. CASE Create(q)
    BY <2>7 DEF Create, IdleRequest
  <2>8. CASE FailRequest(q)
    BY <2>8 DEF FailRequest, IdleRequest, Refused
  <2>9. QED
    BY <1>2, <2>1, <2>2, <2>3, <2>4, <2>5, <2>6, <2>7, <2>8 DEF RequestStep
<1>3. ASSUME NEW a \in Admins, AdminStep(a) PROVE CallsMatchRecords'
  <2>1. ASSUME NEW q \in Requests, ReadSettlement(a, q) PROVE CallsMatchRecords'
    BY <2>1 DEF ReadSettlement
  <2>2. ASSUME NEW status \in {"approved", "rejected", "paid"}, Decide(a, status) PROVE CallsMatchRecords'
    <3>1. /\ decision' = [decision EXCEPT ![a] = NoDecision] /\ request' = request
          /\ settlement' = settlement \/ settlement' = [settlement EXCEPT ![decision[a].on].status = status]
      BY <2>2 DEF Decide
    <3>2. \A q \in Requests : /\ settlement'[q].claim = settlement[q].claim
                              /\ settlement'[q].status # settlement[q].status =>
                                    q = decision[a].on /\ settlement'[q].status = status
      BY <3>1 DEF NoSettlement
    <3>3. decision[a].on # None
      BY <2>2 DEF Decide
    <3>4. \A q \in Requests : settlement'[q].status = "none" <=> settlement[q].status = "none"
      BY <3>2, <3>3
    <3>5. \A b \in Admins : decision'[b].on # None => decision'[b] = decision[b]
      BY <3>1 DEF NoDecision
    <3>6. \A b \in Admins : decision'[b].on # None => decision[b].on \in Requests
      BY <3>5
    <3>7. QED
      BY <3>1, <3>2, <3>4, <3>5, <3>6
  <2>3. CASE FailDecision(a)
    BY <2>3 DEF FailDecision, NoDecision
  <2>4. QED
    BY <1>3, <2>1, <2>2, <2>3 DEF AdminStep
<1>4. CASE UNCHANGED settlementVars
  BY <1>4 DEF settlementVars
<1>5. QED
  BY <1>1, <1>2, <1>3, <1>4 DEF SettlementNext

\* Claims stay apart in every step of a request.
LEMMA RequestApart ==
  ASSUME SettlementTypeOK, CallsMatchRecords, RequestsKeepAway, NEW q \in Requests, RequestStep(q)
  PROVE  RequestsKeepAway'
<1> USE DEF SettlementTypeOK, CallsMatchRecords, RequestsKeepAway, Live, IdleRequest
<1>1. ASSUME NEW claim, Choose(q, claim) PROVE RequestsKeepAway'
  BY <1>1 DEF Choose
<1>2. CASE CheckExcluded(q)
  BY <1>2 DEF CheckExcluded, Refused, WithStatus, ClaimedBy
<1>3. ASSUME NEW wanted, ReadDeposits(q, wanted) PROVE RequestsKeepAway'
  BY <1>3 DEF ReadDeposits
<1>4. CASE CheckBalance(q)
  BY <1>4 DEF CheckBalance, Refused
<1>5. CASE ReadSettled(q)
  <2> DEFINE found == ClaimedBy(WithStatus({"approved", "paid"}))
             decided == WithStatus(SettlementStatuses \ {"none", "pending"})
  <2>1. \A p \in decided : Live(p) => settlement[p].claim \subseteq found
    BY DEF WithStatus, ClaimedBy
  <2>2. /\ request' = [request EXCEPT ![q].stage = "informed", ![q].excluded = found,
                                      ![q].known = decided]
        /\ UNCHANGED <<settlement, overruled>>
        /\ settlement[q].claim = {}
    BY <1>5 DEF ReadSettled
  <2> HIDE DEF found, decided
  <2>3. QED
    BY <2>1, <2>2
<1>6. ASSUME NEW claim, Select(q, claim) PROVE RequestsKeepAway'
  BY <1>6 DEF Select, Selections, Refused
<1>7. CASE Create(q)
  BY <1>7 DEF Create
<1>8. CASE FailRequest(q)
  BY <1>8 DEF FailRequest, Refused
<1>9. QED
  BY <1>1, <1>2, <1>3, <1>4, <1>5, <1>6, <1>7, <1>8 DEF RequestStep

\* A decision brings no settlement back from a rejection unless it overrules it.
LEMMA AdminApart ==
  ASSUME SettlementTypeOK, CallsMatchRecords, RequestsKeepAway, NEW a \in Admins, AdminStep(a)
  PROVE  RequestsKeepAway'
<1> USE DEF SettlementTypeOK, CallsMatchRecords, RequestsKeepAway, Live
<1>1. ASSUME NEW q \in Requests, ReadSettlement(a, q) PROVE RequestsKeepAway'
  BY <1>1 DEF ReadSettlement
<1>2. ASSUME NEW status \in {"approved", "rejected", "paid"}, Decide(a, status)
      PROVE  RequestsKeepAway'
  <2> DEFINE d == decision[a].on
  <2>1. request' = request /\ overruled \subseteq overruled'
    BY <1>2 DEF Decide
  <2>2. \/ settlement' = settlement
        \/ settlement' = [settlement EXCEPT ![d] = [settlement[d] EXCEPT !.status = status]]
    BY <1>2 DEF Decide
  <2>3. \A p \in Requests \ {d} : settlement'[p] = settlement[p]
    <3>1. DOMAIN settlement = Requests
      OBVIOUS
    <3> HIDE DEF d, SettlementTypeOK, CallsMatchRecords, RequestsKeepAway
    <3>2. QED
      BY <2>2, <3>1
  <2>4. \A p \in Requests : settlement'[p].claim = settlement[p].claim
    <3>1. DOMAIN settlement = Requests /\ \A p \in Requests : "claim" \in DOMAIN settlement[p]
      BY DEF NoSettlement
    <3> HIDE DEF d, SettlementTypeOK, CallsMatchRecords, RequestsKeepAway
    <3>2. QED
      BY <2>2, <3>1
  <2>5. ASSUME NEW q \in Requests, NEW p \in request[q].known, p \notin overruled', Live(p)'
        PROVE  Live(p)
    <3>1. p \in Requests
      BY <2>5
    <3>2. CASE p # d
      BY <2>3, <2>5, <3>1, <3>2
    <3>3. CASE p = d
      BY <1>2, <2>5, <3>1, <3>3 DEF Decide, NoSettlement, SettlementStatuses
    <3>4. QED
      BY <3>2, <3>3
  <2>6. QED
    BY <2>1, <2>4, <2>5
<1>3. CASE FailDecision(a)
  BY <1>3 DEF FailDecision
<1>4. QED
  BY <1>1, <1>2, <1>3 DEF AdminStep

\* Claims stay apart in every step.
LEMMA StepApart ==
  SettlementTypeOK /\ CallsMatchRecords /\ RequestsKeepAway /\ [SettlementNext]_settlementVars => RequestsKeepAway'
<1>1. ASSUME RequestsKeepAway, NEW r \in Bookings, BookingStep(r) PROVE RequestsKeepAway'
  BY <1>1 DEF RequestsKeepAway, Live, BookingStep, ConfirmPaidBooking, CompleteDue, ReadBookingToCancel,
              SaveCancelled, SaveLeave, FailCancel
<1>2. ASSUME RequestsKeepAway, UNCHANGED settlementVars PROVE RequestsKeepAway'
  BY <1>2 DEF RequestsKeepAway, Live, settlementVars
<1>3. QED
  BY <1>1, <1>2, RequestApart, AdminApart DEF SettlementNext

-----------------------------------------------------------------------------
\* The fields of a booking after a step of it; no other booking changes.
LEMMA BookingEffect ==
  ASSUME SettlementTypeOK, NEW r \in Bookings, BookingStep(r)
  PROVE  /\ UNCHANGED <<request, settlement, decision, overruled>>
         /\ \A x \in Bookings \ {r} : booking'[x] = booking[x]
         /\ late \subseteq late' /\ late' \subseteq late \cup {r}
         /\ \/ booking'[r] = booking[r]
            \/ /\ booking[r].payment = "awaiting"
               /\ booking'[r].status = "confirmed" /\ booking'[r].payment = "paid"
               /\ booking'[r].refund = booking[r].refund
               /\ booking[r].status = "cancelled" => r \in late'
            \/ /\ booking[r].status = "confirmed" /\ booking'[r].status = "completed"
               /\ booking'[r].payment = booking[r].payment
               /\ booking'[r].refund = booking[r].refund
            \/ /\ booking'[r].status = "cancelled"
               /\ booking'[r].refund = booking[r].refund
               /\ booking[r].status = "completed" => r \in late'
            \/ /\ booking'[r].status = "cancelled"
               /\ MayBeCancelled(r) \/ r \in late'
               /\ \E percent \in RefundPercents : booking'[r].refund
                     = booking[r].refund + CalculateRefund(DepositAmount(Price[r]), percent)
<1> USE DEF SettlementTypeOK
<1>0. booking[r] \in BookingStates
  OBVIOUS
<1>1. CASE ConfirmPaidBooking(r)
  BY <1>0, <1>1 DEF ConfirmPaidBooking, BookingStates
<1>2. CASE CompleteDue(r)
  BY <1>0, <1>2 DEF CompleteDue, BookingStates
<1>3. ASSUME NEW who \in Cancellers, ReadBookingToCancel(r, who) \/ FailCancel(r, who)
      PROVE  UNCHANGED <<booking, late, request, settlement, decision, overruled>>
  BY <1>3 DEF ReadBookingToCancel, FailCancel
<1>4. ASSUME NEW percent \in RefundPercents, SaveCancelled(r, percent)
      PROVE  /\ UNCHANGED <<request, settlement, decision, overruled>>
             /\ \A x \in Bookings \ {r} : booking'[x] = booking[x]
             /\ late \subseteq late' /\ late' \subseteq late \cup {r}
             /\ booking'[r].status = "cancelled"
             /\ MayBeCancelled(r) \/ r \in late'
             /\ booking'[r].refund
                     = booking[r].refund + CalculateRefund(DepositAmount(Price[r]), percent)
  BY <1>0, <1>4 DEF SaveCancelled, BookingStates
<1>5. CASE SaveLeave(r)
  BY <1>0, <1>5 DEF SaveLeave, BookingStates
<1>6. QED
  BY <1>1, <1>2, <1>3, <1>4, <1>5 DEF BookingStep

\* Money stays with what is cancelled, and within the deposit, in every step.
LEMMA StepMoney == SettlementTypeOK /\ MoneyMatchesStatus /\ [SettlementNext]_settlementVars => MoneyMatchesStatus'
<1> SUFFICES ASSUME SettlementTypeOK, MoneyMatchesStatus, [SettlementNext]_settlementVars PROVE MoneyMatchesStatus'
  OBVIOUS
<1>1. ASSUME NEW r \in Bookings, BookingStep(r) PROVE MoneyMatchesStatus'
  <2>1. \A x \in Bookings : booking[x] \in BookingStates /\ booking'[x] \in BookingStates
    BY <1>1, BookingTypes DEF SettlementTypeOK
  <2>2. \A percent \in RefundPercents :
           /\ DepositAmount(Price[r]) \in Nat
           /\ CalculateRefund(DepositAmount(Price[r]), percent) \in Nat
           /\ CalculateRefund(DepositAmount(Price[r]), percent) <= DepositAmount(Price[r])
    BY RefundBounds
  <2>3. QED
    BY <1>1, <2>1, <2>2, BookingEffect DEF MoneyMatchesStatus, BookingStates, MayBeCancelled
<1>2. ASSUME UNCHANGED <<booking, late>> PROVE MoneyMatchesStatus'
  BY <1>2 DEF MoneyMatchesStatus
<1>3. QED
  BY <1>1, <1>2 DEF SettlementNext, settlementVars, RequestStep, Choose, CheckExcluded, ReadDeposits, CheckBalance,
     ReadSettled, Select, Create, FailRequest, AdminStep, ReadSettlement, Decide, FailDecision

-----------------------------------------------------------------------------
\* A settlable booking is not touched by any step, unless it is late.
LEMMA SettlableKept ==
  ASSUME SettlementTypeOK, NEW r \in Bookings, BookingStep(r),
         NEW x \in Bookings, Settlable(x), x \notin late'
  PROVE  booking'[x] = booking[x]
<1>1. /\ booking[x] \in BookingStates
      /\ booking[x].status \in {"completed", "cancelled"} /\ booking[x].payment # "awaiting"
  BY DEF SettlementTypeOK, Settlable
<1> USE <1>1
<1>2. CASE ConfirmPaidBooking(r)
  BY <1>2 DEF ConfirmPaidBooking, SettlementTypeOK
<1>3. CASE CompleteDue(r)
  BY <1>3 DEF CompleteDue, SettlementTypeOK
<1>4. ASSUME NEW who \in Cancellers, ReadBookingToCancel(r, who) \/ FailCancel(r, who)
      PROVE  booking'[x] = booking[x]
  BY <1>4 DEF ReadBookingToCancel, FailCancel
<1>5. ASSUME NEW percent \in RefundPercents, SaveCancelled(r, percent) PROVE booking'[x] = booking[x]
  <2>1. CASE x = r
    BY <1>5, <2>1 DEF SaveCancelled, MayBeCancelled
  <2>2. CASE x # r
    BY <1>5, <2>2 DEF SaveCancelled, SettlementTypeOK
  <2>3. QED
    BY <2>1, <2>2
<1>6. CASE SaveLeave(r)
  <2>1. ASSUME x = r PROVE booking[x].status = "cancelled"
    BY <1>6, <2>1 DEF SaveLeave
  <2>2. booking' = [booking EXCEPT ![r].status = "cancelled"]
    BY <1>6 DEF SaveLeave
  <2>3. ASSUME x = r PROVE [booking[x] EXCEPT !.status = "cancelled"] = booking[x]
    BY <2>1, <2>3 DEF BookingStates
  <2>4. QED
    BY <2>2, <2>3 DEF SettlementTypeOK
<1>7. QED
  BY <1>2, <1>3, <1>4, <1>5, <1>6 DEF BookingStep

\* So the worth of a claim is kept.
LEMMA TotalKept ==
  ASSUME SettlementTypeOK, NEW r \in Bookings, BookingStep(r),
         NEW claim \in SUBSET Bookings, claim \cap late' = {}, \A x \in claim : Settlable(x)
  PROVE  TotalNet(claim)' = TotalNet(claim)
<1>1. \A x \in claim : NetStylistAmount(x)' = NetStylistAmount(x)
  BY SettlableKept DEF NetStylistAmount, CancelledStylistPayout
<1>2. [x \in claim |-> NetStylistAmount(x)]' = [x \in claim |-> NetStylistAmount(x)]
  BY <1>1
<1>3. QED
  BY <1>2 DEF TotalNet

\* Claimed bookings stay settlable in every step.
LEMMA StepSettlable ==
  SettlementTypeOK /\ ClaimsAreSettlable /\ [SettlementNext]_settlementVars => ClaimsAreSettlable'
<1> SUFFICES ASSUME SettlementTypeOK, ClaimsAreSettlable, [SettlementNext]_settlementVars
             PROVE  ClaimsAreSettlable'
  OBVIOUS
<1>1. ASSUME NEW r \in Bookings, BookingStep(r) PROVE ClaimsAreSettlable'
  <2>1. UNCHANGED <<request, settlement>> /\ late \subseteq late'
    BY <1>1, BookingEffect
  <2>2. \A x \in Bookings : Settlable(x) /\ x \notin late' => Settlable(x)'
    BY <1>1, SettlableKept DEF Settlable, HasCancellationFinance, CancelledStylistPayout
  <2>3. QED
    BY <2>1, <2>2 DEF ClaimsAreSettlable, SettlementTypeOK
<1>2. ASSUME NEW q \in Requests, RequestStep(q) PROVE ClaimsAreSettlable'
  <2>1. UNCHANGED <<booking, late>>
    BY <1>2 DEF RequestStep, Choose, CheckExcluded, ReadDeposits, CheckBalance, ReadSettled,
       Select, Create, FailRequest
  <2>2. \A x \in Requests :
           \A r \in (request'[x].claim \cup settlement'[x].claim) \ late : Settlable(r)
    <3> USE DEF SettlementTypeOK, ClaimsAreSettlable, IdleRequest
    <3>1. ASSUME NEW claim \in SUBSET Bookings, Choose(q, claim) PROVE <2>2
      BY <3>1 DEF Choose
    <3>2. CASE CheckExcluded(q)
      BY <3>2 DEF CheckExcluded, Refused
    <3>3. ASSUME NEW wanted, ReadDeposits(q, wanted) PROVE <2>2
      BY <3>3 DEF ReadDeposits
    <3>4. CASE CheckBalance(q)
      BY <3>4 DEF CheckBalance, Refused
    <3>5. CASE ReadSettled(q)
      BY <3>5 DEF ReadSettled
    <3>6. ASSUME NEW claim \in SUBSET Bookings, Select(q, claim) PROVE <2>2
      <4>1. \A r \in claim : Settlable(r)
        BY <3>6 DEF Select, Selections
      <4>2. QED
        BY <3>6, <4>1 DEF Select, Refused
    <3>7. CASE Create(q)
      BY <3>7 DEF Create, NoSettlement
    <3>8. CASE FailRequest(q)
      BY <3>8 DEF FailRequest, Refused
    <3>9. QED
      BY <1>2, <3>1, <3>2, <3>3, <3>4, <3>5, <3>6, <3>7, <3>8 DEF RequestStep
  <2>3. QED
    BY <2>1, <2>2 DEF ClaimsAreSettlable, Settlable, HasCancellationFinance, CancelledStylistPayout
<1>3. ASSUME NEW a \in Admins, AdminStep(a) PROVE ClaimsAreSettlable'
  <2>1. /\ UNCHANGED <<booking, late, request>>
        /\ \A q \in Requests : settlement'[q].claim = settlement[q].claim
    BY <1>3 DEF AdminStep, ReadSettlement, Decide, FailDecision, SettlementTypeOK, NoSettlement
  <2>2. QED
    BY <2>1 DEF ClaimsAreSettlable, Settlable, HasCancellationFinance, CancelledStylistPayout
<1>4. CASE UNCHANGED settlementVars
  BY <1>4 DEF settlementVars, ClaimsAreSettlable, Settlable, HasCancellationFinance, CancelledStylistPayout
<1>5. QED
  BY <1>1, <1>2, <1>3, <1>4 DEF SettlementNext

-----------------------------------------------------------------------------
\* The price of a request and the amount of a settlement are kept in every step.
LEMMA StepPrices ==
  /\ SettlementTypeOK /\ CallsMatchRecords /\ MoneyMatchesStatus /\ ClaimsAreSettlable
  /\ PricesAreKept /\ AmountIsWhatIsOwed /\ [SettlementNext]_settlementVars
  => PricesAreKept' /\ AmountIsWhatIsOwed'
<1> SUFFICES ASSUME SettlementTypeOK, CallsMatchRecords, MoneyMatchesStatus, ClaimsAreSettlable,
                    PricesAreKept, AmountIsWhatIsOwed, [SettlementNext]_settlementVars
             PROVE  PricesAreKept' /\ AmountIsWhatIsOwed'
  OBVIOUS
<1>1. ASSUME NEW r \in Bookings, BookingStep(r)
      PROVE  PricesAreKept' /\ AmountIsWhatIsOwed'
  <2>1. UNCHANGED <<request, settlement>> /\ late \subseteq late'
    BY <1>1, BookingEffect
  <2>2. ASSUME NEW q \in Requests, request[q].stage \in {"chosen", "ready"},
               request[q].claim \cap late' = {}
        PROVE  request[q].amount = TotalNet(request[q].claim)'
    <3>1. /\ request[q].claim \in SUBSET Bookings
          /\ \A x \in request[q].claim : Settlable(x)
      BY <2>1, <2>2 DEF SettlementTypeOK, ClaimsAreSettlable
    <3>2. request[q].amount = TotalNet(request[q].claim)
      BY <2>1, <2>2 DEF PricesAreKept
    <3>3. TotalNet(request[q].claim)' = TotalNet(request[q].claim)
      BY <1>1, <2>1, <2>2, <3>1, TotalKept DEF TotalNet
    <3>4. QED
      BY <3>2, <3>3
  <2>3. ASSUME NEW q \in Requests, settlement[q].claim \cap late' = {},
               settlement[q].status # "none"
        PROVE  settlement[q].amount = TotalNet(settlement[q].claim)'
    <3>1. /\ settlement[q].claim \in SUBSET Bookings
          /\ \A x \in settlement[q].claim : Settlable(x)
      BY <2>1, <2>3 DEF SettlementTypeOK, ClaimsAreSettlable
    <3>2. settlement[q].amount = TotalNet(settlement[q].claim)
      BY <2>1, <2>3 DEF AmountIsWhatIsOwed
    <3>3. TotalNet(settlement[q].claim)' = TotalNet(settlement[q].claim)
      BY <1>1, <2>1, <2>3, <3>1, TotalKept DEF TotalNet
    <3>4. QED
      BY <3>2, <3>3
  <2>4. QED
    BY <2>1, <2>2, <2>3 DEF PricesAreKept, AmountIsWhatIsOwed
<1>2. ASSUME NEW q \in Requests, RequestStep(q)
      PROVE  PricesAreKept' /\ AmountIsWhatIsOwed'
  <2> DEFINE Kept ==
        \A x \in Requests :
          /\ request'[x].stage \in {"chosen", "ready"} /\ request'[x].claim \cap late = {}
             => request'[x].amount = TotalNet(request'[x].claim)
          /\ settlement'[x].status # "none" /\ settlement'[x].claim \cap late = {}
             => settlement'[x].amount = TotalNet(settlement'[x].claim)
  <2>1. UNCHANGED <<booking, late>>
    BY <1>2 DEF RequestStep, Choose, CheckExcluded, ReadDeposits, CheckBalance, ReadSettled,
       Select, Create, FailRequest
  <2>2. Kept
    <3> USE DEF SettlementTypeOK, CallsMatchRecords, PricesAreKept, AmountIsWhatIsOwed, IdleRequest
    <3>1. ASSUME NEW claim, Choose(q, claim) PROVE Kept
      BY <3>1 DEF Choose
    <3>2. CASE CheckExcluded(q)
      BY <3>2 DEF CheckExcluded, Refused
    <3>3. ASSUME NEW wanted, ReadDeposits(q, wanted) PROVE Kept
      BY <3>3 DEF ReadDeposits
    <3>4. CASE CheckBalance(q)
      BY <3>4 DEF CheckBalance, Refused
    <3>5. CASE ReadSettled(q)
      <4> DEFINE found == ClaimedBy(WithStatus({"approved", "paid"}))
                 decided == WithStatus(SettlementStatuses \ {"none", "pending"})
      <4>1. /\ request' = [request EXCEPT ![q].stage = "informed", ![q].excluded = found,
                                          ![q].known = decided]
            /\ UNCHANGED settlement
        BY <3>5 DEF ReadSettled
      <4> HIDE DEF found, decided
      <4>2. QED
        BY <4>1
    <3>6. ASSUME NEW claim, Select(q, claim) PROVE Kept
      BY <3>6 DEF Select, Refused
    <3>7. CASE Create(q)
      BY <3>7 DEF Create
    <3>8. CASE FailRequest(q)
      BY <3>8 DEF FailRequest, Refused
    <3>9. QED
      BY <1>2, <3>1, <3>2, <3>3, <3>4, <3>5, <3>6, <3>7, <3>8 DEF RequestStep
  <2>3. ASSUME NEW x \in Requests
        PROVE  /\ TotalNet(request[x].claim)' = TotalNet(request'[x].claim)
               /\ TotalNet(settlement[x].claim)' = TotalNet(settlement'[x].claim)
    BY <2>1 DEF TotalNet, NetStylistAmount, CancelledStylistPayout
  <2>4. QED
    BY <2>1, <2>2, <2>3 DEF PricesAreKept, AmountIsWhatIsOwed
<1>3. ASSUME NEW a \in Admins, AdminStep(a)
      PROVE  PricesAreKept' /\ AmountIsWhatIsOwed'
  <2>1. /\ UNCHANGED <<booking, late, request>>
        /\ \A q \in Requests :
              /\ settlement'[q].claim = settlement[q].claim
              /\ settlement'[q].amount = settlement[q].amount
              /\ settlement'[q].status # "none" => settlement[q].status # "none"
    BY <1>3 DEF AdminStep, ReadSettlement, Decide, FailDecision, SettlementTypeOK, NoSettlement,
       CallsMatchRecords
  <2>2. QED
    BY <2>1 DEF PricesAreKept, AmountIsWhatIsOwed, TotalNet, NetStylistAmount,
       CancelledStylistPayout
<1>4. CASE UNCHANGED settlementVars
  BY <1>4 DEF settlementVars, PricesAreKept, AmountIsWhatIsOwed, TotalNet, NetStylistAmount, CancelledStylistPayout
<1>5. QED
  BY <1>1, <1>2, <1>3, <1>4 DEF SettlementNext

\* In every reachable state the inductive invariant holds, for any number of bookings,
\* requests and admins, all prices and all policies.
THEOREM SettlementInvariantHolds == SettlementSpec => []SettlementInv
<1>1. SettlementInit => SettlementInv
  <2>1. SettlementInit => SettlementTypeOK
    BY InitTypes
  <2>2. SettlementInit => CallsMatchRecords /\ RequestsKeepAway /\ ClaimsAreSettlable
                  /\ PricesAreKept /\ AmountIsWhatIsOwed
    BY DEF SettlementInit, CallsMatchRecords, RequestsKeepAway, ClaimsAreSettlable, PricesAreKept,
           AmountIsWhatIsOwed, IdleRequest, NoSettlement, NoDecision
  <2>3. SettlementInit => MoneyMatchesStatus
    BY Deposits DEF SettlementInit, MoneyMatchesStatus, Created
  <2>4. QED
    BY <2>1, <2>2, <2>3 DEF SettlementInv
<1>2. SettlementInv /\ [SettlementNext]_settlementVars => SettlementInv'
  BY StepTypes, StepCalls, StepApart, StepMoney, StepSettlable, StepPrices DEF SettlementInv
<1>3. QED
  BY <1>1, <1>2, PTL DEF SettlementSpec

\* Two live settlements share a booking only if the second could not see the first.
THEOREM ClaimsStayApart == SettlementSpec => []KnownClaimsStayApart
<1>1. SettlementInv => KnownClaimsStayApart
  BY DEF SettlementInv, RequestsKeepAway, KnownClaimsStayApart
<1>2. QED
  BY <1>1, SettlementInvariantHolds, PTL

\* A settlement is worth what its bookings are worth, however late it is paid.
THEOREM AmountStaysOwed == SettlementSpec => []AmountIsWhatIsOwed
  BY SettlementInvariantHolds, PTL DEF SettlementInv

\* The lines of a settlement add up: the stylist's share and the refund are the deposit.
LEMMA LinesAddUp ==
  ASSUME SettlementInv, NEW q \in Requests, NEW r \in settlement[q].claim \ late
  PROVE  /\ r \in Bookings /\ Settlable(r)
         /\ Details(r).netAmount + Details(r).netRefund + Details(r).totalPenalties - Details(r).debt
                = Details(r).depositAmount
<1>1. /\ r \in Bookings /\ booking[r] \in BookingStates /\ Settlable(r)
      /\ booking[r].status # "cancelled" => booking[r].refund = 0
      /\ booking[r].refund <= DepositAmount(Price[r])
  BY DEF SettlementInv, SettlementTypeOK, ClaimsAreSettlable, MoneyMatchesStatus
<1>2. booking[r].refund \in Nat /\ booking[r].penalty \in Nat /\ DepositAmount(Price[r]) \in Nat
  BY <1>1, Deposits DEF BookingStates
<1>3. NetStylistAmount(r) + booking[r].refund = DepositAmount(Price[r])
  BY <1>1, <1>2 DEF NetStylistAmount, CancelledStylistPayout, Larger
<1>4. NetStylistAmount(r) \in Int
  BY <1>2 DEF NetStylistAmount, CancelledStylistPayout, Larger
<1> DEFINE refund == booking[r].refund  penalty == booking[r].penalty
<1>5. Larger(0, refund - penalty) - Larger(0, penalty - refund) = refund - penalty
      /\ Larger(0, refund - penalty) \in Int /\ Larger(0, penalty - refund) \in Int
  BY <1>2 DEF Larger
<1>6. QED
  BY <1>1, <1>2, <1>3, <1>4, <1>5 DEF Details

\* The pages of stylist and admins are true: settlements add up, and no booking of a
\* rejected one is lost.
THEOREM PagesStayTrue == SettlementSpec => []PagesShowWhatIsOwed
<1>1. ASSUME SettlementInv, NEW q \in Requests, settlement[q].status # "none",
             settlement[q].claim \cap late = {}
      PROVE  /\ SettlementPage(q).amount
                   = SumFunction([r \in settlement[q].claim |-> SettlementPage(q).reservations[r].netAmount])
             /\ \A r \in settlement[q].claim :
                   LET line == SettlementPage(q).reservations[r] IN
                   /\ line.netAmount + line.netRefund + line.totalPenalties - line.debt = line.depositAmount
                   /\ r \in DOMAIN GetSettlableReservations
                         \/ \E p \in DOMAIN ListSettlements({"pending", "approved", "paid"}) :
                                r \in settlement[p].claim
  <2>1. \A r \in settlement[q].claim : SettlementPage(q).reservations[r] = Details(r)
    BY DEF SettlementPage
  <2>2. [r \in settlement[q].claim |-> SettlementPage(q).reservations[r].netAmount]
           = [r \in settlement[q].claim |-> NetStylistAmount(r)]
    <3>1. \A r : Details(r).netAmount = NetStylistAmount(r)
      BY DEF Details
    <3>2. \A r \in settlement[q].claim :
             SettlementPage(q).reservations[r].netAmount = NetStylistAmount(r)
      BY <2>1, <3>1, Zenon
    <3>3. QED
      BY <3>2, Zenon
  <2>3. SettlementPage(q).amount = TotalNet(settlement[q].claim)
    BY <1>1 DEF SettlementPage, SettlementInv, AmountIsWhatIsOwed
  <2>4. ASSUME NEW r \in settlement[q].claim
        PROVE  r \in DOMAIN GetSettlableReservations
                  \/ \E p \in DOMAIN ListSettlements({"pending", "approved", "paid"}) : r \in settlement[p].claim
    <3>1. r \in Bookings /\ Settlable(r)
      BY <1>1, <2>4, LinesAddUp
    <3>2. QED
      BY <3>1 DEF GetSettlableReservations, SettlableReservations, ListSettlements, ClaimedBy
  <2>5. QED
    BY <1>1, <2>1, <2>2, <2>3, <2>4, LinesAddUp DEF TotalNet
<1>2. SettlementInv => PagesShowWhatIsOwed
  BY <1>1 DEF PagesShowWhatIsOwed, WithStatus
<1>3. QED
  BY <1>2, SettlementInvariantHolds, PTL
=============================================================================
