------------------------ MODULE BookingLedgerProofs ------------------------
(* The records of a booking's money agree for any number of racing calls, *)
(* any prices and any policies                                            *)
EXTENDS BookingLedger, FinanceProofs

USE LedgerAssumption DEF CancelKinds, MoveKinds, Kinds

\* A ledger stays one when the sum of a type is replaced.
LEMMA LedgerExcept ==
  ASSUME NEW l \in Ledgers, NEW t, NEW n \in Nat
  PROVE  [l EXCEPT ![t] = n] \in Ledgers
  BY DEF Ledgers

\* An empty ledger, a sum of ledgers and the entries of a cancel are ledgers,
\* and a sum adds up type by type.
LEMMA LedgerTypes ==
  /\ EmptyLedger \in Ledgers
  /\ \A l, m \in Ledgers :
        /\ Push(l, m) \in Ledgers
        /\ \A t \in AdjustmentTypes : Push(l, m)[t] = l[t] + m[t]
  /\ \A l \in Ledgers, deposit \in Nat, percent \in 0..100 :
        CancelEntries(l, deposit, percent) \in Ledgers
<1>1. EmptyLedger \in Ledgers
  BY DEF EmptyLedger, Ledgers
<1>2. ASSUME NEW l \in Ledgers, NEW m \in Ledgers
      PROVE  /\ Push(l, m) \in Ledgers
             /\ \A t \in AdjustmentTypes : Push(l, m)[t] = l[t] + m[t]
  BY DEF Push, Ledgers
<1>3. ASSUME NEW l \in Ledgers, NEW deposit \in Nat, NEW percent \in 0..100
      PROVE  CancelEntries(l, deposit, percent) \in Ledgers
  <2> DEFINE moved == [EmptyLedger EXCEPT
                         !["refund"] = CalculateRefund(deposit, percent),
                         !["penalty_cancellation"] = CalculatePenalty(deposit, 100 - percent)]
  <2>1. CalculateRefund(deposit, percent) \in Nat /\ CalculatePenalty(deposit, 100 - percent) \in Nat
    <3>1. /\ CalculateRefund(deposit, percent) \in 0..deposit
          /\ CalculatePenalty(deposit, 100 - percent) \in 0..deposit
      BY RefundAndPenalty, Zenon
    <3>2. QED
      BY <3>1
  <2>2. moved \in Ledgers
    BY <1>1, <2>1, LedgerExcept
  <2>3. Debt(Push(l, moved)) \in Nat
    BY <2>2, <1>2, RefundOrDebt
  <2>4. CancelEntries(l, deposit, percent) = [moved EXCEPT !["debt"] = Debt(Push(l, moved))]
    BY DEF CancelEntries
  <2> HIDE DEF moved
  <2>5. [moved EXCEPT !["debt"] = Debt(Push(l, moved))] \in Ledgers
    BY <2>2, <2>3, LedgerExcept, Zenon
  <2>6. QED
    BY <2>4, <2>5, Zenon
<1>4. QED
  BY <1>1, <1>2, <1>3

\* The entries of a booking charge it nothing but the deposit and the fee.
LEMMA BookingTypes ==
  ASSUME NEW price \in Int
  PROVE  /\ BookingEntries(price) \in Ledgers
         /\ \A t \in PenaltyTypes \cup {"refund"} : BookingEntries(price)[t] = 0
<1> DEFINE first == [EmptyLedger EXCEPT !["deposit"] = DepositAmount(price)]
           second == [first EXCEPT !["booking_fee"] = CalculateBookingFee(price)]
<1>1. first \in Ledgers
  BY LedgerTypes, LedgerExcept, DepositType
<1>2. second \in Ledgers
  BY <1>1, LedgerExcept, FeeTypes
<1>3. BookingEntries(price) \in Ledgers
  BY <1>2, LedgerExcept, FeeTypes DEF BookingEntries
<1>4. \A t \in PenaltyTypes \cup {"refund"} : BookingEntries(price)[t] = 0
  BY DEF BookingEntries, EmptyLedger, AdjustmentTypes, PenaltyTypes
<1>5. QED
  BY <1>3, <1>4

\* The penalty of a reschedule is a natural number.
LEMMA PenaltyType ==
  ASSUME NEW paid \in Nat, NEW used \in Nat, NEW free \in Nat, NEW percent \in 0..100
  PROVE  ReschedulePenalty(paid, used, free, percent) \in Nat
<1>1. ClampPercent(percent) \in 0..100
  BY ClampBounds
<1>2. PercentOf(paid, ClampPercent(percent)) \in 0..paid
  BY <1>1, PercentBounds
<1>3. QED
  BY <1>2 DEF ReschedulePenalty

\* Nothing is booked and no call has begun.
LEMMA InitLedger == LedgerInit => LedgerInv
<1> SUFFICES ASSUME LedgerInit PROVE LedgerInv
  OBVIOUS
<1>1. NotBooked \in Rows
  BY LedgerTypes DEF NotBooked, Rows, Ledgers, Outcomes, NoOutcome
<1>2. LedgerTypeOK
  BY <1>1 DEF LedgerInit, LedgerTypeOK, Idle
<1>3. /\ row.ledger = EmptyLedger /\ row.moves = 0 /\ row.charged = 0
      /\ row.rescheduleCount = 0 /\ row.outcome = NoOutcome
      /\ row.maxReschedules = 0
      /\ \A c \in Calls : call[c].kind = "idle"
  BY DEF LedgerInit, NotBooked, Idle
<1>4. \A t \in AdjustmentTypes : row.ledger[t] = 0
  BY <1>3 DEF EmptyLedger
<1>5. QED
  BY <1>2, <1>3, <1>4
     DEF LedgerInit, LedgerInv, NothingBeforeBooking, SeenMatchesVersion, CancelShutsMovesOut,
         HistoryMatchesLedger, MovesWithinLimit, OutcomeStandsUnlessBlurred,
         CancelMoneyMeansCancelled, CancelMoney, AdjustmentTypes, PenaltyTypes

\* What nothing has been read into is a row.
LEMMA InitTypes == NotBooked \in Rows
  BY LedgerTypes DEF NotBooked, Rows, Ledgers, Outcomes, NoOutcome

\* The parts of a row, each with its type.
LEMMA RowParts ==
  ASSUME NEW r \in Rows
  PROVE  /\ r.ledger \in Ledgers /\ r.outcome \in Outcomes
         /\ r.deposit \in Nat /\ r.maxReschedules \in Int
         /\ r.moves \in Nat /\ r.charged \in Nat /\ r.rescheduleCount \in Nat
         /\ r.version \in Nat
  BY DEF Rows, Ledgers

\* The steps that only change the status or the payment.
LEMMA StepStatus ==
  ASSUME LedgerInv, Elapse \/ ConfirmPaid \/ Complete \/ UNCHANGED ledgerVars
  PROVE  LedgerInv'
<1>0. USE DEF LedgerInv, LedgerTypeOK, NothingBeforeBooking, SeenMatchesVersion, CancelShutsMovesOut,
              HistoryMatchesLedger, MovesWithinLimit, OutcomeStandsUnlessBlurred,
              CancelMoneyMeansCancelled, CancelMoney
<1>1. CASE Elapse
  BY <1>1 DEF Elapse
<1>2. CASE ConfirmPaid
  BY <1>2 DEF ConfirmPaid, Rows
<1>3. CASE Complete
  BY <1>3 DEF Complete, Rows
<1>4. CASE UNCHANGED ledgerVars
  BY <1>4 DEF ledgerVars
<1>5. QED
  BY <1>1, <1>2, <1>3, <1>4

\* A booking comes into being: no call has read anything, no money has moved.
LEMMA StepBook ==
  ASSUME LedgerInv, NEW price \in Prices, NEW limit \in Limits, NEW requiresPayment \in BOOLEAN,
         Book(price, limit, requiresPayment)
  PROVE  LedgerInv'
<1>1. /\ row = NotBooked
      /\ \A c \in Calls : call[c].kind = "idle"
      /\ call' = call /\ started' = started /\ blurred' = blurred
  BY DEF Book, LedgerInv, NothingBeforeBooking
<1>2. DepositAmount(price) \in Nat
  <2>1. price \in Int
    OBVIOUS
  <2>2. QED
    BY <2>1, DepositType, Zenon
<1>3. /\ row' \in Rows
      /\ row'.status # "none"
      /\ row'.ledger = BookingEntries(price) /\ row'.moves = 0 /\ row'.charged = 0
      /\ row'.rescheduleCount = 0 /\ row'.outcome = NoOutcome
  <2>1. BookingEntries(price) \in [AdjustmentTypes -> Nat]
    <3>1. price \in Int
      OBVIOUS
    <3>2. QED
      BY <3>1, BookingTypes DEF Ledgers
  <2>2. QED
    BY <1>1, <1>2, <2>1 DEF Book, NotBooked, Rows, Outcomes
<1>4. \A t \in PenaltyTypes \cup {"refund"} : row'.ledger[t] = 0
  <2>1. price \in Int
    OBVIOUS
  <2>2. QED
    BY <1>3, <2>1, BookingTypes
<1>5. row'.maxReschedules \in Int
  BY <1>3, RowParts
<1>6. QED
  BY <1>1, <1>3, <1>4, <1>5
     DEF LedgerInv, LedgerTypeOK, NothingBeforeBooking, SeenMatchesVersion, CancelShutsMovesOut,
         HistoryMatchesLedger, MovesWithinLimit, OutcomeStandsUnlessBlurred,
         CancelMoneyMeansCancelled, CancelMoney, AdjustmentTypes, PenaltyTypes

\* A call reads the row as it is, or ends without having written.
LEMMA StepCall ==
  ASSUME LedgerInv, NEW c \in Calls, (\E kind \in Kinds : Read(c, kind)) \/ Fail(c)
  PROVE  LedgerInv'
<1>1. /\ row' = row /\ started' = started /\ blurred' = blurred
      /\ row.status # "none"
  BY DEF Read, Fail, MayCancel, Cancellable, MayMove, MayLeave, LedgerInv, NothingBeforeBooking,
         NotBooked
<1>2. LedgerTypeOK'
  BY <1>1, InitTypes DEF Read, Fail, EndCall, Over, LedgerInv, LedgerTypeOK
<1>3. SeenMatchesVersion'
  BY <1>1, RowParts DEF Read, Fail, EndCall, Over, MayMove, LedgerInv, LedgerTypeOK, SeenMatchesVersion
<1>4. CancelShutsMovesOut'
  BY <1>1 DEF Read, Fail, EndCall, Over, MayMove, LedgerInv, LedgerTypeOK, CancelShutsMovesOut
<1>5. QED
  BY <1>1, <1>2, <1>3, <1>4
     DEF LedgerInv, NothingBeforeBooking, HistoryMatchesLedger, MovesWithinLimit,
         OutcomeStandsUnlessBlurred, CancelMoneyMeansCancelled, CancelMoney

\* A cancel raises the version, so that no reschedule can save after it.
LEMMA StepCancel ==
  ASSUME LedgerInv, NEW c \in Calls, NEW percent \in Percents, Cancel(c, percent)
  PROVE  LedgerInv'
<1> DEFINE seen == call[c].seen
           entries == CancelEntries(seen.ledger, row.deposit, percent)
           total == Push(seen.ledger, entries)
<1>1. /\ call[c].kind \in CancelKinds
      /\ row' = [row EXCEPT !.status = "cancelled", !.ledger = Push(row.ledger, entries),
                            !.version = row.version + 1,
                            !.outcome = [percent |-> percent, refund |-> NetRefund(total),
                                         penalty |-> TotalPenalties(total)]]
      /\ blurred' = (blurred \/ row.ledger # seen.ledger)
      /\ call' = [call EXCEPT ![c] = Over]
      /\ started' = started
  BY DEF Cancel, EndCall
<1>2. /\ row \in Rows /\ seen \in Rows
      /\ percent \in 0..100 /\ row.status # "none"
  BY <1>1 DEF LedgerInv, LedgerTypeOK, NothingBeforeBooking
<1>3. /\ entries \in Ledgers /\ total \in Ledgers /\ Push(row.ledger, entries) \in Ledgers
      /\ row'.ledger["penalty_reschedule"] =
            row.ledger["penalty_reschedule"] + entries["penalty_reschedule"]
      /\ entries["penalty_reschedule"] = 0
  <2>1. entries \in Ledgers
    BY <1>2, RowParts, LedgerTypes
  <2>2. total \in Ledgers /\ Push(row.ledger, entries) \in Ledgers
    BY <1>2, <2>1, RowParts, LedgerTypes
  <2>3. row'.ledger = Push(row.ledger, entries)
    BY <1>1, <1>2 DEF Rows
  <2>4. entries["penalty_reschedule"] = 0
    BY DEF CancelEntries, EmptyLedger, AdjustmentTypes, PenaltyTypes
  <2> HIDE DEF entries
  <2>5. row.ledger \in Ledgers /\ "penalty_reschedule" \in AdjustmentTypes
    BY <1>2, RowParts DEF AdjustmentTypes, PenaltyTypes
  <2>6. Push(row.ledger, entries)["penalty_reschedule"] =
            row.ledger["penalty_reschedule"] + entries["penalty_reschedule"]
    BY <2>1, <2>5, LedgerTypes, Zenon
  <2>7. QED
    BY <2>1, <2>2, <2>3, <2>4, <2>6
<1>4. NetRefund(total) \in Nat /\ TotalPenalties(total) \in Nat
  BY <1>3, RefundOrDebt DEF TotalPenalties, Ledgers, AdjustmentTypes, PenaltyTypes
<1> HIDE DEF entries, total, seen
<1> DEFINE out == [percent |-> percent, refund |-> NetRefund(total), penalty |-> TotalPenalties(total)]
<1>5. /\ out \in Outcomes
       /\ out.refund = NetRefund(total) /\ out.penalty = TotalPenalties(total)
  BY <1>2, <1>4 DEF Outcomes
<1>6. row' = [row EXCEPT !.status = "cancelled", !.ledger = Push(row.ledger, entries),
                          !.version = row.version + 1, !.outcome = out]
  BY <1>1
<1> HIDE DEF out
<1>7. /\ row' \in Rows /\ row'.status = "cancelled" /\ row'.payment = row.payment
      /\ row'.version = row.version + 1 /\ row'.ledger = Push(row.ledger, entries)
      /\ row'.moves = row.moves /\ row'.charged = row.charged
      /\ row'.rescheduleCount = row.rescheduleCount
      /\ row'.maxReschedules = row.maxReschedules
      /\ row'.outcome.refund = NetRefund(total)
      /\ row'.outcome.penalty = TotalPenalties(total)
  <2> DEFINE pushed == Push(row.ledger, entries)
  <2>1. /\ pushed \in [AdjustmentTypes -> Nat] /\ row.version + 1 \in Nat
        /\ row' = [row EXCEPT !.status = "cancelled", !.ledger = pushed,
                              !.version = row.version + 1, !.outcome = out]
    BY <1>2, <1>3, <1>6, RowParts DEF Ledgers
  <2> HIDE DEF pushed
  <2>2. row' \in Rows
    BY <1>2, <1>5, <2>1 DEF Rows
  <2>3. /\ row'.status = "cancelled" /\ row'.payment = row.payment
        /\ row'.version = row.version + 1 /\ row'.ledger = pushed
        /\ row'.moves = row.moves /\ row'.charged = row.charged
        /\ row'.rescheduleCount = row.rescheduleCount
        /\ row'.maxReschedules = row.maxReschedules /\ row'.outcome = out
    BY <1>2, <2>1 DEF Rows
  <2>4. QED
    BY <1>5, <2>2, <2>3 DEF pushed
<1>8. /\ LedgerTypeOK' /\ NothingBeforeBooking' /\ MovesWithinLimit' /\ CancelMoneyMeansCancelled'
  BY <1>1, <1>7, LedgerTypes, InitTypes
     DEF LedgerInv, LedgerTypeOK, NothingBeforeBooking, MovesWithinLimit, CancelMoneyMeansCancelled, Over
<1>9. SeenMatchesVersion' /\ CancelShutsMovesOut'
  BY <1>1, <1>2, <1>7, RowParts
     DEF LedgerInv, LedgerTypeOK, SeenMatchesVersion, CancelShutsMovesOut, Over
<1>10. HistoryMatchesLedger'
  BY <1>2, <1>3, <1>7, RowParts
     DEF LedgerInv, HistoryMatchesLedger, Ledgers, AdjustmentTypes, PenaltyTypes
<1>11. OutcomeStandsUnlessBlurred'
  BY <1>1, <1>7 DEF OutcomeStandsUnlessBlurred, total
<1>12. QED
  BY <1>8, <1>9, <1>10, <1>11 DEF LedgerInv

\* A reschedule that saves had read the history still on record.
LEMMA StepMove ==
  ASSUME LedgerInv, NEW c \in Calls, NEW free \in FreeCounts, NEW percent \in Percents,
         Move(c, free, percent)
  PROVE  LedgerInv'
<1> DEFINE seen == call[c].seen
           customer == call[c].kind = "customer_move"
           penalty == IF customer THEN ReschedulePenalty(row.deposit, seen.moves, free, percent) ELSE 0
           more == IF customer THEN 1 ELSE 0
<1>1. /\ call[c].kind \in MoveKinds
      /\ call' = [call EXCEPT ![c] = Over]
      /\ blurred' = blurred
      /\ row \in Rows /\ seen \in Rows /\ row.status # "none"
  BY DEF Move, EndCall, LedgerInv, LedgerTypeOK, NothingBeforeBooking
<1>2. penalty \in Nat /\ more \in 0..1
  <2>1. row.deposit \in Nat /\ seen.moves \in Nat /\ free \in Nat /\ percent \in 0..100
    BY <1>1, RowParts
  <2>2. ReschedulePenalty(row.deposit, seen.moves, free, percent) \in Nat
    BY <2>1, PenaltyType
  <2>3. QED
    BY <2>2
<1>3. CASE row.version # seen.version
  <2>1. row' = row /\ started' = started
    BY <1>3 DEF Move
  <2>2. LedgerTypeOK' /\ SeenMatchesVersion' /\ CancelShutsMovesOut'
    BY <1>1, <2>1, InitTypes DEF LedgerInv, LedgerTypeOK, SeenMatchesVersion, CancelShutsMovesOut, Over
  <2>3. QED
    BY <1>1, <2>1, <2>2
       DEF LedgerInv, NothingBeforeBooking, HistoryMatchesLedger, MovesWithinLimit,
           OutcomeStandsUnlessBlurred, CancelMoneyMeansCancelled, CancelMoney
<1>4. CASE row.version = seen.version
  <2>1. /\ row' = [row EXCEPT !.ledger["penalty_reschedule"] = @ + penalty,
                              !.moves = seen.moves + more,
                              !.charged = seen.charged + penalty,
                              !.rescheduleCount = IF customer THEN seen.moves + 1 ELSE @,
                              !.version = @ + 1]
        /\ started' = FALSE
    BY <1>4 DEF Move
  <2>2. /\ seen.moves = row.moves /\ seen.charged = row.charged
        /\ seen.maxReschedules = row.maxReschedules /\ WithinLimit(seen)
        /\ blurred \/ row.outcome = NoOutcome
    BY <1>1, <1>4, RowParts DEF LedgerInv, SeenMatchesVersion, CancelShutsMovesOut
  <2> HIDE DEF penalty, seen
  <2>3. /\ row' \in Rows /\ row'.status = row.status /\ row'.payment = row.payment
        /\ row'.outcome = row.outcome /\ row'.maxReschedules = row.maxReschedules
        /\ row'.version = row.version + 1
        /\ row'.moves = row.moves + more /\ row'.charged = row.charged + penalty
        /\ row'.rescheduleCount = IF customer THEN row.moves + 1 ELSE row.rescheduleCount
        /\ row'.ledger = [row.ledger EXCEPT !["penalty_reschedule"] = @ + penalty]
    <3> DEFINE charged == [row.ledger EXCEPT !["penalty_reschedule"] = @ + penalty]
    <3>1. charged \in Ledgers
      BY <1>1, <1>2, RowParts, LedgerExcept DEF Ledgers, AdjustmentTypes, PenaltyTypes
    <3>2. row' = [row EXCEPT !.ledger = charged, !.moves = seen.moves + more,
                             !.charged = seen.charged + penalty,
                             !.rescheduleCount = IF customer THEN seen.moves + 1 ELSE @,
                             !.version = @ + 1]
      BY <1>1, <2>1 DEF Rows
    <3> HIDE DEF charged
    <3>3. /\ charged \in [AdjustmentTypes -> Nat]
          /\ seen.moves + more \in Nat /\ seen.charged + penalty \in Nat
          /\ seen.moves + 1 \in Nat /\ row.version + 1 \in Nat
      BY <1>1, <1>2, <3>1, RowParts DEF Ledgers
    <3>4. row' \in Rows
      BY <1>1, <3>2, <3>3 DEF Rows
    <3>5. /\ row'.status = row.status /\ row'.payment = row.payment
          /\ row'.outcome = row.outcome /\ row'.maxReschedules = row.maxReschedules
          /\ row'.version = row.version + 1
          /\ row'.moves = seen.moves + more /\ row'.charged = seen.charged + penalty
          /\ row'.rescheduleCount = IF customer THEN seen.moves + 1 ELSE row.rescheduleCount
          /\ row'.ledger = charged
      BY <1>1, <3>2 DEF Rows
    <3>6. QED
      BY <2>2, <3>4, <3>5 DEF charged
  <2>4. /\ row'.ledger["penalty_reschedule"] = row.ledger["penalty_reschedule"] + penalty
        /\ row'.ledger["refund"] = row.ledger["refund"]
        /\ row'.ledger["penalty_cancellation"] = row.ledger["penalty_cancellation"]
    BY <1>1, <2>3, RowParts DEF Ledgers, AdjustmentTypes, PenaltyTypes
  <2>5. LedgerTypeOK' /\ NothingBeforeBooking'
    BY <1>1, <2>1, <2>3, InitTypes DEF LedgerInv, LedgerTypeOK, NothingBeforeBooking, Over
  <2>6. SeenMatchesVersion' /\ CancelShutsMovesOut'
    BY <1>1, <2>2, <2>3, RowParts
       DEF LedgerInv, LedgerTypeOK, SeenMatchesVersion, CancelShutsMovesOut, Over
  <2>7. HistoryMatchesLedger' /\ MovesWithinLimit'
    BY <1>1, <1>2, <2>2, <2>3, <2>4, RowParts
       DEF LedgerInv, HistoryMatchesLedger, MovesWithinLimit, WithinLimit
  <2>8. OutcomeStandsUnlessBlurred' /\ CancelMoneyMeansCancelled'
    BY <1>1, <2>2, <2>3, <2>4
       DEF LedgerInv, OutcomeStandsUnlessBlurred, CancelMoneyMeansCancelled, CancelMoney
  <2>9. QED
    BY <2>5, <2>6, <2>7, <2>8 DEF LedgerInv
<1>5. QED
  BY <1>3, <1>4

\* leaveSalon changes the status and no money.
LEMMA StepLeave ==
  ASSUME LedgerInv, NEW c \in Calls, Leave(c)
  PROVE  LedgerInv'
<1>1. /\ row' = [row EXCEPT !.status = "cancelled"]
      /\ call' = [call EXCEPT ![c] = Over]
      /\ started' = started /\ blurred' = blurred /\ row \in Rows /\ row.status # "none"
  BY DEF Leave, EndCall, LedgerInv, LedgerTypeOK, NothingBeforeBooking
<1>2. /\ row' \in Rows /\ row'.status = "cancelled" /\ row'.payment = row.payment
      /\ row'.version = row.version /\ row'.ledger = row.ledger /\ row'.moves = row.moves
      /\ row'.charged = row.charged /\ row'.rescheduleCount = row.rescheduleCount
      /\ row'.maxReschedules = row.maxReschedules /\ row'.outcome = row.outcome
  BY <1>1 DEF Rows
<1>3. QED
  BY <1>1, <1>2, InitTypes
     DEF LedgerInv, LedgerTypeOK, NothingBeforeBooking, SeenMatchesVersion, CancelShutsMovesOut,
         HistoryMatchesLedger, MovesWithinLimit, OutcomeStandsUnlessBlurred,
         CancelMoneyMeansCancelled, CancelMoney, Over

\* Every step preserves the invariant.
LEMMA StepLedger == LedgerInv /\ [LedgerNext]_ledgerVars => LedgerInv'
  BY StepStatus, StepBook, StepCall, StepCancel, StepMove, StepLeave, Zenon DEF LedgerNext, Request

\* In every reachable state the inductive invariant holds, for any number of
\* requests, all prices and all policies.
THEOREM LedgerInvariantHolds == LedgerSpec => []LedgerInv
  BY InitLedger, StepLedger, PTL DEF LedgerSpec

\* The variables keep their types.
THEOREM TypeCorrect == LedgerSpec => []LedgerTypeOK
  BY LedgerInvariantHolds, PTL DEF LedgerInv

\* The reschedule history and the penalties pushed for it agree.
THEOREM HistoryMatches == LedgerSpec => []HistoryMatchesLedger
  BY LedgerInvariantHolds, PTL DEF LedgerInv

\* The parts of the invoice agree.
THEOREM InvoiceHolds == LedgerSpec => []InvoiceAgrees
<1>1. ASSUME LedgerInv PROVE InvoiceAgrees
  <2>1. /\ Invoice(row).penaltyDetails["penalty_reschedule"] = row.ledger["penalty_reschedule"]
        /\ Invoice(row).rescheduleHistory.charged = row.charged
        /\ Invoice(row).rescheduleHistory.entries = row.moves
        /\ Invoice(row).rescheduleCount = row.rescheduleCount
        /\ Invoice(row).policyViolation = PolicyViolation(row)
        /\ Invoice(row).finance = ComputeFinance(row.ledger, row.status # "cancelled")
    BY DEF Invoice, PenaltyTypes
  <2>2. ASSUME ~ blurred, PolicyViolation(row) # NoViolation
        PROVE  /\ Invoice(row).finance.payableOnSite = 0
               /\ Invoice(row).finance.netRefund = row.outcome.refund
               /\ PolicyViolation(row).amount + row.charged = row.outcome.penalty
    <3>1. row.status = "cancelled" /\ row.outcome # NoOutcome
      BY <2>2 DEF PolicyViolation
    <3>2. PolicyViolation(row).amount = row.ledger["penalty_cancellation"]
      BY <2>2 DEF PolicyViolation
    <3>3. /\ Invoice(row).finance.payableOnSite = 0
          /\ Invoice(row).finance.netRefund = NetRefund(row.ledger)
      BY <2>1, <3>1 DEF ComputeFinance
    <3>4. row.outcome.refund = NetRefund(row.ledger) /\ row.outcome.penalty = TotalPenalties(row.ledger)
      BY <1>1, <2>2, <3>1 DEF LedgerInv, OutcomeStandsUnlessBlurred
    <3>5. row.ledger["penalty_reschedule"] = row.charged
      BY <1>1 DEF LedgerInv, HistoryMatchesLedger
    <3>6. row.ledger["penalty_cancellation"] \in Nat /\ row.charged \in Nat
      BY <1>1, RowParts DEF LedgerInv, LedgerTypeOK, Ledgers, AdjustmentTypes, PenaltyTypes
    <3>7. QED
      BY <3>2, <3>3, <3>4, <3>5, <3>6 DEF TotalPenalties
  <2>3. QED
    BY <1>1, <2>1, <2>2 DEF InvoiceAgrees, LedgerInv, HistoryMatchesLedger
<1>2. QED
  BY <1>1, LedgerInvariantHolds, PTL

\* The customer's reschedules stay within the limit of the booking.
THEOREM LimitHolds == LedgerSpec => []MovesWithinLimit
  BY LedgerInvariantHolds, PTL DEF LedgerInv

\* The snapshot of a cancel agrees with the adjustments until a cancel blurs it.
THEOREM OutcomeStands == LedgerSpec => []OutcomeStandsUnlessBlurred
  BY LedgerInvariantHolds, PTL DEF LedgerInv

\* Money of a cancel is on record for a cancelled booking only.
THEOREM CancelMoneyHolds == LedgerSpec => []CancelMoneyMeansCancelled
  BY LedgerInvariantHolds, PTL DEF LedgerInv

\* Only a late payment opens a cancelled booking again.
THEOREM CancelledStays == LedgerSpec => CancelledIsFinal
<1>1. ASSUME LedgerInv, [LedgerNext]_ledgerVars, row.status = "cancelled", row'.status # "cancelled"
      PROVE  row.payment = "awaiting" /\ row'.payment = "paid"
  <2>1. row \in Rows
    BY <1>1 DEF LedgerInv, LedgerTypeOK
  <2>2. CASE ConfirmPaid
    BY <2>1, <2>2 DEF ConfirmPaid, Rows
  <2>3. ASSUME NEW c \in Calls, Request(c) PROVE row'.status \in {row.status, "cancelled"}
    BY <2>1, <2>3 DEF Request, Read, Cancel, Move, Leave, Fail, Rows
  <2>4. CASE Elapse \/ Complete \/ UNCHANGED ledgerVars
    BY <1>1, <2>4 DEF Elapse, Complete, ledgerVars
  <2>5. ASSUME NEW price, NEW limit, NEW requiresPayment, Book(price, limit, requiresPayment)
        PROVE  FALSE
    BY <1>1, <2>5 DEF Book
  <2>6. QED
    BY <1>1, <2>2, <2>3, <2>4, <2>5 DEF LedgerNext
<1>2. QED
  BY <1>1, LedgerInvariantHolds, PTL DEF LedgerSpec, CancelledIsFinal
=============================================================================
