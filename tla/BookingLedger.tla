--------------------------- MODULE BookingLedger ---------------------------
(***************************************************************************)
(* The money on record for one booking: its financialAdjustments, its      *)
(* rescheduleHistory and its cancellationOutcome, while cancels and        *)
(* reschedules of the customer, the stylist and the admin race.            *)
(*                                                                         *)
(* A call reads the document, computes, and saves what it changed.  A save *)
(* that only pushes onto an array raises the version and tests nothing; one *)
(* that replaces an array (rescheduleHistory) is refused when the version  *)
(* has moved; updateMany knows no version.  Policies are resolved anew by  *)
(* each call, so their percents are inputs.                                *)
(***************************************************************************)
EXTENDS Finance

CONSTANTS
    Calls,           \* the cancel and reschedule requests
    Prices,          \* net prices of the services
    Percents,        \* refund and penalty percents that policies yield
    FreeCounts,      \* freeRescheduleCount that policies yield
    Limits           \* maxReschedules that a booking may be given; negative: none

ASSUME LedgerAssumption ==
    /\ Prices \subseteq Nat
    /\ Percents \subseteq 0..100
    /\ FreeCounts \subseteq Nat
    /\ Limits \subseteq Int

VARIABLES
    row,        \* the reservation document
    started,    \* its start has gone by
    call,       \* where each request stands, and what it read
    blurred     \* a cancel was saved over money it had not read, or a late payment
                \* has opened a cancelled hold again

ledgerVars == <<row, started, call, blurred>>

CancelKinds == {"customer", "stylist", "admin"}
MoveKinds == {"customer_move", "stylist_move"}
Kinds == CancelKinds \cup MoveKinds \cup {"leave"}

\* moves and charged stand for rescheduleHistory: its entries by the customer
\* and the sum of their penalties.
NoOutcome == [percent |-> -1, refund |-> -1, penalty |-> -1]
Outcomes == [percent : Nat, refund : Nat, penalty : Nat] \cup {NoOutcome}
Rows == [status : {"none", "pending", "confirmed", "completed", "cancelled"},
         payment : {"awaiting", "paid", "not_required"},
         deposit : Nat, maxReschedules : Int,
         ledger : [AdjustmentTypes -> Nat],
         moves : Nat, charged : Nat, rescheduleCount : Nat,
         outcome : Outcomes,
         version : Nat]

NotBooked == [status |-> "none", payment |-> "not_required", deposit |-> 0, maxReschedules |-> 0,
              ledger |-> EmptyLedger, moves |-> 0, charged |-> 0, rescheduleCount |-> 0,
              outcome |-> NoOutcome, version |-> 0]

Idle == [kind |-> "idle", seen |-> NotBooked]
Over == [kind |-> "over", seen |-> NotBooked]

LedgerTypeOK ==
    /\ row \in Rows
    /\ started \in BOOLEAN
    /\ call \in [Calls -> [kind : Kinds \cup {"idle", "over"}, seen : Rows]]
    /\ blurred \in BOOLEAN

LedgerInit ==
    /\ row = NotBooked
    /\ started = FALSE
    /\ call = [c \in Calls |-> Idle]
    /\ blurred = FALSE

-----------------------------------------------------------------------------
\* createReservation: the deposit of the price and its entries, and whether it has
\* to be paid.
Book(price, limit, requiresPayment) ==
    /\ row.status = "none"
    /\ row' = [row EXCEPT !.status = IF requiresPayment THEN "pending" ELSE "confirmed",
                          !.payment = IF requiresPayment THEN "awaiting" ELSE "not_required",
                          !.deposit = DepositAmount(price),
                          !.ledger = BookingEntries(price),
                          !.maxReschedules = limit]
    /\ UNCHANGED <<started, call, blurred>>

\* confirmPaidReservation, also of a hold that was cancelled meanwhile.
ConfirmPaid ==
    /\ row.payment = "awaiting"
    /\ row' = [row EXCEPT !.status = "confirmed", !.payment = "paid"]
    /\ blurred' = (blurred \/ row.status = "cancelled")
    /\ UNCHANGED <<started, call>>

\* The start of the slot goes by.
Elapse ==
    /\ row.status # "none"
    /\ ~ started
    /\ started' = TRUE
    /\ UNCHANGED <<row, call, blurred>>

\* Variant without the status in the filter of the update.
CompleteAll ==
    /\ started
    /\ row.status \notin {"none", "completed"}
    /\ row' = [row EXCEPT !.status = "completed"]
    /\ UNCHANGED <<started, call, blurred>>

\* completeDueReservations.
Complete ==
    /\ started
    /\ row.status = "confirmed"
    /\ row' = [row EXCEPT !.status = "completed"]
    /\ UNCHANGED <<started, call, blurred>>

-----------------------------------------------------------------------------
Cancellable(r) == r.status \in {"pending", "confirmed"}

\* The customer may cancel what has not started, the stylist what is confirmed
\* and has not started, the admin whatever is not over.
MayCancel(kind) ==
    /\ Cancellable(row)
    /\ kind \in {"customer", "stylist"} => ~ started
    /\ kind = "stylist" => row.status = "confirmed"

\* The limit counts the customer's reschedules and stops the stylist's too.
WithinLimit(r) == r.maxReschedules >= 0 => r.moves < r.maxReschedules

MayMove == row.status = "confirmed" /\ ~ started /\ WithinLimit(row)

\* leaveSalon finds the confirmed future bookings.
MayLeave == row.status = "confirmed" /\ ~ started

Read(c, kind) ==
    /\ call[c].kind = "idle"
    /\ \/ kind \in CancelKinds /\ MayCancel(kind)
       \/ kind \in MoveKinds /\ MayMove
       \/ kind = "leave" /\ MayLeave
    /\ call' = [call EXCEPT ![c] = [kind |-> kind, seen |-> row]]
    /\ UNCHANGED <<row, started, blurred>>

EndCall(c) == call' = [call EXCEPT ![c] = Over]

\* Variant that leaves the version alone.
CancelWithoutVersion(c, percent) ==
    LET seen == call[c].seen
        entries == CancelEntries(seen.ledger, row.deposit, percent)
        total == Push(seen.ledger, entries)
    IN
    /\ call[c].kind \in CancelKinds
    /\ row' = [row EXCEPT !.status = "cancelled", !.ledger = Push(@, entries),
                          !.outcome = [percent |-> percent, refund |-> NetRefund(total),
                                       penalty |-> TotalPenalties(total)]]
    /\ blurred' = (blurred \/ row.ledger # seen.ledger)
    /\ EndCall(c)
    /\ UNCHANGED started

\* applyCancellationFinance and the save: the entries are computed from the
\* ledger the call read and pushed onto the one on record.
Cancel(c, percent) ==
    LET seen == call[c].seen
        entries == CancelEntries(seen.ledger, row.deposit, percent)
        total == Push(seen.ledger, entries)
    IN
    /\ call[c].kind \in CancelKinds
    /\ row' = [row EXCEPT !.status = "cancelled", !.ledger = Push(@, entries), !.version = @ + 1,
                          !.outcome = [percent |-> percent, refund |-> NetRefund(total),
                                       penalty |-> TotalPenalties(total)]]
    /\ blurred' = (blurred \/ row.ledger # seen.ledger)
    /\ EndCall(c)
    /\ UNCHANGED started

\* Variant that replaces the history whatever the version has become.
MoveUnversioned(c, free, percent) ==
    LET seen == call[c].seen
        customer == call[c].kind = "customer_move"
        penalty == IF customer THEN ReschedulePenalty(row.deposit, seen.moves, free, percent) ELSE 0
    IN
    /\ call[c].kind \in MoveKinds
    /\ row' = [row EXCEPT !.ledger["penalty_reschedule"] = @ + penalty,
                          !.moves = seen.moves + (IF customer THEN 1 ELSE 0),
                          !.charged = seen.charged + penalty,
                          !.rescheduleCount = IF customer THEN seen.moves + 1 ELSE @,
                          !.version = @ + 1]
    /\ started' = FALSE
    /\ EndCall(c)
    /\ UNCHANGED blurred

\* rescheduleReservation: the save is refused when the version has moved.  The
\* new slot is in the future; the stylist's reschedules cost and count nothing.
Move(c, free, percent) ==
    LET seen == call[c].seen
        customer == call[c].kind = "customer_move"
        penalty == IF customer THEN ReschedulePenalty(row.deposit, seen.moves, free, percent) ELSE 0
    IN
    /\ call[c].kind \in MoveKinds
    /\ IF row.version = seen.version
       THEN /\ row' = [row EXCEPT !.ledger["penalty_reschedule"] = @ + penalty,
                                  !.moves = seen.moves + (IF customer THEN 1 ELSE 0),
                                  !.charged = seen.charged + penalty,
                                  !.rescheduleCount = IF customer THEN seen.moves + 1 ELSE @,
                                  !.version = @ + 1]
            /\ started' = FALSE
       ELSE UNCHANGED <<row, started>>
    /\ EndCall(c)
    /\ UNCHANGED blurred

\* leaveSalon: an updateMany by the ids found, with no money moved.
Leave(c) ==
    /\ call[c].kind = "leave"
    /\ row' = [row EXCEPT !.status = "cancelled"]
    /\ EndCall(c)
    /\ UNCHANGED <<started, blurred>>

\* A policy lookup or the save throws, or the process stops.
Fail(c) ==
    /\ call[c].kind \in Kinds
    /\ EndCall(c)
    /\ UNCHANGED <<row, started, blurred>>

Request(c) ==
    \/ \E kind \in Kinds : Read(c, kind)
    \/ \E percent \in Percents : Cancel(c, percent)
    \/ \E free \in FreeCounts, percent \in Percents : Move(c, free, percent)
    \/ Leave(c)
    \/ Fail(c)

LedgerNext ==
    \/ \E price \in Prices, limit \in Limits, requiresPayment \in BOOLEAN :
          Book(price, limit, requiresPayment)
    \/ ConfirmPaid
    \/ Elapse
    \/ Complete
    \/ \E c \in Calls : Request(c)

LedgerSpec == LedgerInit /\ [][LedgerNext]_ledgerVars
-----------------------------------------------------------------------------
(* Properties *)

CancelMoney(r) == r.ledger["refund"] + r.ledger["penalty_cancellation"]

\* The two records of a reschedule agree under every race: the penalties pushed
\* onto the adjustments are those of the history, which replaces the array, and
\* the count is that of the customer's entries.
HistoryMatchesLedger ==
    /\ row.ledger["penalty_reschedule"] = row.charged
    /\ row.rescheduleCount = row.moves

\* However many reschedules run at once, the customer's never exceed the limit
\* the booking was made with.
MovesWithinLimit == row.maxReschedules >= 0 => row.moves <= row.maxReschedules

\* The snapshot of a cancel stays true to the adjustments, unless the cancel was
\* saved over money it had not read: nothing that runs after it, and no
\* reschedule that was under way, charges a booking once it is cancelled.
OutcomeStandsUnlessBlurred ==
    ~ blurred /\ row.outcome # NoOutcome
    => /\ row.outcome.refund = NetRefund(row.ledger)
       /\ row.outcome.penalty = TotalPenalties(row.ledger)

\* A cancelled booking is never opened again but by the late payment of a hold.
CancelledIsFinal ==
    [][row.status = "cancelled" /\ row'.status # "cancelled"
          => row.payment = "awaiting" /\ row'.payment = "paid"]_ledgerVars

\* Refund and penalty of a booking that needed no payment are on record only when
\* it is cancelled, although cancels save over whatever the row has become.
CancelMoneyMeansCancelled ==
    row.payment = "not_required" /\ CancelMoney(row) > 0 => row.status = "cancelled"

\* Why these hold, as an inductive invariant: nobody reads what is not booked, ...
NothingBeforeBooking ==
    row.status = "none" =>
        /\ row = NotBooked
        /\ \A c \in Calls : call[c].kind = "idle"

\* ... what a reschedule read is still on record while the version stands, ...
SeenMatchesVersion ==
    \A c \in Calls : call[c].kind \in MoveKinds =>
        LET seen == call[c].seen IN
        /\ WithinLimit(seen)
        /\ seen.maxReschedules = row.maxReschedules
        /\ seen.version <= row.version
        /\ seen.version = row.version => seen.moves = row.moves /\ seen.charged = row.charged

\* ... and a cancel leaves no reschedule with the version of the document.
CancelShutsMovesOut ==
    ~ blurred /\ row.outcome # NoOutcome =>
        /\ row.status = "cancelled"
        /\ \A c \in Calls : call[c].kind \in MoveKinds => call[c].seen.version < row.version

LedgerInv ==
    /\ LedgerTypeOK
    /\ NothingBeforeBooking
    /\ SeenMatchesVersion
    /\ CancelShutsMovesOut
    /\ HistoryMatchesLedger
    /\ MovesWithinLimit
    /\ OutcomeStandsUnlessBlurred
    /\ CancelMoneyMeansCancelled

-----------------------------------------------------------------------------
(* The invoice *)

NoViolation == [percent |-> -1, amount |-> -1]

\* The policy a cancelled booking was charged under, if it was charged.
PolicyViolation(r) ==
    IF r.status = "cancelled" /\ r.outcome # NoOutcome /\ r.ledger["penalty_cancellation"] > 0
    THEN [percent |-> r.outcome.percent, amount |-> r.ledger["penalty_cancellation"]]
    ELSE NoViolation

\* getReservationInvoice: computed from the adjustments, beside what the row has kept.
Invoice(r) ==
    [finance |-> ComputeFinance(r.ledger, r.status # "cancelled"),
     penaltyDetails |-> [t \in PenaltyTypes |-> r.ledger[t]],
     policyViolation |-> PolicyViolation(r),
     rescheduleHistory |-> [entries |-> r.moves, charged |-> r.charged],
     rescheduleCount |-> r.rescheduleCount]

\* The parts of an invoice come from fields that are written apart, and still
\* agree: the penalties for reschedules are those its history lists, the count is
\* that of the history; and, unless a cancel was saved over money it had not
\* read, an invoice that names a violated policy asks nothing on site, and the
\* violation and the reschedules listed are all the cancel has charged.
InvoiceAgrees ==
    LET i == Invoice(row) IN
    /\ i.penaltyDetails["penalty_reschedule"] = i.rescheduleHistory.charged
    /\ i.rescheduleCount = i.rescheduleHistory.entries
    /\ ~ blurred /\ i.policyViolation # NoViolation =>
          /\ i.finance.payableOnSite = 0
          /\ i.finance.netRefund = row.outcome.refund
          /\ i.policyViolation.amount + i.rescheduleHistory.charged = row.outcome.penalty

\* What previewReservationPolicy shows as the refund of a cancel: the percent of
\* the deposit that the policy grants right now.
PreviewedRefund(deposit, percent) == PercentOf(deposit, ClampPercent(percent))

\* The preview shows "the refund/penalty that a cancel would incur right now":
\* a cancel that meets no rival, of a booking never charged for a reschedule,
\* records the refund that was previewed for its percent.
CancelKeepsThePreview ==
    ~ blurred /\ row.outcome # NoOutcome /\ row.charged = 0
    => row.outcome.refund = PreviewedRefund(row.deposit, row.outcome.percent)
=============================================================================
