---------------------------- MODULE SlotBooking ----------------------------
(***************************************************************************)
(* The calendar of one stylist: the createReservation calls that race for  *)
(* its slots, the reservation rows they leave in MongoDB, and everything   *)
(* that later changes a row's status or slot (payment callback, release,   *)
(* hold sweep, cancel, reschedule, auto-complete).                         *)
(*                                                                         *)
(* There is no database transaction: every await in the source is a point  *)
(* where another call may run, so a handler is as many actions as it makes *)
(* round trips.  Reservations of other stylists never meet these: every    *)
(* query of the flow filters on stylistId.                                 *)
(***************************************************************************)
EXTENDS Naturals, FiniteSets

CONSTANTS
    Bookings,          \* the createReservation calls, each with the row it creates
    Slots,             \* (date, startTime, endTime) of the stylist
    Overlapping,       \* pairs of slots on the same date that overlap
    NoSlot,
    MaxPending         \* bound on the cancel and reschedule calls in flight

ASSUME SlotsAssumption ==
    /\ NoSlot \notin Slots
    /\ Overlapping \subseteq Slots \X Slots
    /\ \A s \in Slots : <<s, s>> \in Overlapping
    /\ \A s, t \in Slots : <<s, t>> \in Overlapping => <<t, s>> \in Overlapping

ASSUME BoundAssumption == MaxPending \in Nat

VARIABLES
    pc,         \* how far the createReservation call of a booking has come
    asked,      \* the slot a running call asks for
    id,         \* the _id of its document, 0 before the document is built
    lastId,     \* the ids handed out so far
    status,     \* the row's status, "none" when there is no row
    payment,    \* the row's paymentStatus
    slot,       \* the row's date and times
    unchecked,  \* rows that took their slot by a reschedule or a late payment
    move,       \* the slot a rescheduleReservation call is about to save
    cancelling, \* rows a cancel call has read and is about to save
    swept,      \* rows a releaseExpiredHolds call has found and will delete
    past,       \* slots whose start has gone by
    behind      \* bookings whose insert landed after a younger one passed its re-check

callVars == <<pc, asked, id, lastId, behind>>
rowVars  == <<status, payment, slot, unchecked>>
laterVars == <<move, cancelling, swept>>
vars == <<callVars, rowVars, laterVars, past>>

CallSteps == {"idle", "checked", "built", "inserted", "losing", "passed",
              "undoing", "answered", "refused", "lost", "failed", "crashed"}
Statuses  == {"none", "pending", "confirmed", "cancelled", "completed"}
Payments  == {"none", "awaiting", "paid", "not_required"}

\* Calls that got past the re-check; a crashed call is not counted among them.
Passed == {"passed", "undoing", "failed", "answered"}
\* Calls that are over, with their row or without it.
Ended == {"answered", "refused", "lost", "failed", "crashed"}

Overlaps(s, t) == <<s, t>> \in Overlapping
Active(b) == status[b] \in {"pending", "confirmed"}
Awaiting(b) == payment[b] = "awaiting"
HasRow(b) == status[b] # "none"

TypeOK ==
    /\ pc \in [Bookings -> CallSteps]
    /\ asked \in [Bookings -> Slots \cup {NoSlot}]
    /\ id \in [Bookings -> Nat]
    /\ lastId \in Nat
    /\ status \in [Bookings -> Statuses]
    /\ payment \in [Bookings -> Payments]
    /\ slot \in [Bookings -> Slots \cup {NoSlot}]
    /\ move \in [Bookings -> Slots \cup {NoSlot}]
    /\ cancelling \subseteq Bookings
    /\ swept \subseteq Bookings
    /\ unchecked \subseteq Bookings
    /\ past \subseteq Slots
    /\ behind \subseteq Bookings

Init ==
    /\ pc = [b \in Bookings |-> "idle"]
    /\ asked = [b \in Bookings |-> NoSlot]
    /\ id = [b \in Bookings |-> 0]
    /\ lastId = 0
    /\ status = [b \in Bookings |-> "none"]
    /\ payment = [b \in Bookings |-> "none"]
    /\ slot = [b \in Bookings |-> NoSlot]
    /\ move = [b \in Bookings |-> NoSlot]
    /\ cancelling = {}
    /\ swept = {}
    /\ unchecked = {}
    /\ past = {}
    /\ behind = {}

-----------------------------------------------------------------------------
(* createReservation *)

\* Another active row already stands on a slot that overlaps s.
Taken(s, b) == \E c \in Bookings \ {b} : Active(c) /\ Overlaps(slot[c], s)

Goto(b, step) == pc' = [pc EXCEPT ![b] = step]

\* The call is over and its locals are gone.
Finish(b, outcome) ==
    /\ Goto(b, outcome)
    /\ asked' = [asked EXCEPT ![b] = NoSlot]

\* The guards up to and including the clash check.  Those on the customer, the
\* stylist, the workplace and the working hours refuse in the same way and
\* touch no row: what they leave here is the choice of s.
CheckSlot(b, s) ==
    /\ pc[b] = "idle"
    /\ s \notin past
    /\ IF Taken(s, b)
       THEN Finish(b, "refused")
       ELSE Goto(b, "checked") /\ asked' = [asked EXCEPT ![b] = s]
    /\ UNCHANGED <<id, lastId, behind, rowVars, laterVars, past>>

\* new Reservation(...): the document, with its _id, exists before the insert.
BuildDocument(b) ==
    /\ pc[b] = "checked"
    /\ lastId' = lastId + 1
    /\ id' = [id EXCEPT ![b] = lastId + 1]
    /\ Goto(b, "built")
    /\ UNCHANGED <<asked, behind, rowVars, laterVars, past>>

\* The discount code, a policy lookup or the insert throws, or the process
\* stops, before anything is written.
Abandon(b) ==
    /\ pc[b] \in {"checked", "built"}
    /\ Finish(b, "refused")
    /\ UNCHANGED <<id, lastId, behind, rowVars, laterVars, past>>

\* A younger document is on record and has passed its re-check.
OvertakenBy(b, c) == pc[c] \in Passed /\ id[b] < id[c]

\* The insert reaches MongoDB, over any connection of the pool and hence in any order
\* of the ids; requiresPayment makes the row a hold.
Insert(b, requiresPayment) ==
    /\ pc[b] = "built"
    /\ behind' = IF \E c \in Bookings : OvertakenBy(b, c) THEN behind \cup {b} ELSE behind
    /\ status' = [status EXCEPT ![b] = IF requiresPayment THEN "pending" ELSE "confirmed"]
    /\ payment' = [payment EXCEPT ![b] = IF requiresPayment THEN "awaiting" ELSE "not_required"]
    /\ slot' = [slot EXCEPT ![b] = asked[b]]
    /\ Goto(b, "inserted")
    /\ UNCHANGED <<asked, id, lastId, unchecked, laterVars, past>>

\* Variant of the loser rule: only a confirmed row beats.
ConfirmedBeats(c, b) == status[c] = "confirmed" /\ Overlaps(slot[c], asked[b]) /\ id[c] < id[b]

\* An overlapping active row with a smaller _id beats b.
Beats(c, b) == Active(c) /\ Overlaps(slot[c], asked[b]) /\ id[c] < id[b]

Recheck(b) ==
    /\ pc[b] = "inserted"
    /\ Goto(b, IF \E c \in Bookings \ {b} : Beats(c, b) THEN "losing" ELSE "passed")
    /\ UNCHANGED <<asked, id, lastId, behind, rowVars, laterVars, past>>

\* After the re-check the discount is consumed, the credit spent and the
\* payment started; each of them may throw.
FailAfterRecheck(b) ==
    /\ pc[b] = "passed"
    /\ Goto(b, "undoing")
    /\ UNCHANGED <<asked, id, lastId, behind, rowVars, laterVars, past>>

Answer(b) ==
    /\ pc[b] = "passed"
    /\ Finish(b, "answered")
    /\ UNCHANGED <<id, lastId, behind, rowVars, laterVars, past>>

DeleteRow(b) ==
    /\ status' = [status EXCEPT ![b] = "none"]
    /\ payment' = [payment EXCEPT ![b] = "none"]
    /\ slot' = [slot EXCEPT ![b] = NoSlot]
    /\ unchecked' = unchecked \ {b}

\* reservation.deleteOne().catch(() => {}): a failed delete leaves the row
\* while the customer is told the booking failed.
UndoCreate(b) ==
    /\ pc[b] \in {"losing", "undoing"}
    /\ Finish(b, IF pc[b] = "losing" THEN "lost" ELSE "failed")
    /\ DeleteRow(b) \/ UNCHANGED rowVars
    /\ UNCHANGED <<id, lastId, behind, laterVars, past>>

\* The process serving the call stops; nothing resumes it after a restart.
Crash(b) ==
    /\ pc[b] \in {"inserted", "losing", "passed", "undoing"}
    /\ Finish(b, "crashed")
    /\ UNCHANGED <<id, lastId, behind, rowVars, laterVars, past>>

-----------------------------------------------------------------------------
(* The life of a row *)

\* confirmPaidReservation filters on paymentStatus alone, so it also takes a
\* hold that was cancelled while the customer was at the gateway.
ConfirmPaid(b) ==
    /\ pc[b] = "answered"
    /\ Awaiting(b)
    /\ status' = [status EXCEPT ![b] = "confirmed"]
    /\ payment' = [payment EXCEPT ![b] = "paid"]
    /\ unchecked' = IF Active(b) THEN unchecked ELSE unchecked \cup {b}
    /\ UNCHANGED <<callVars, slot, laterVars, past>>

\* Variant that releases whatever the row has become.
ReleaseAny(b) ==
    /\ pc[b] = "answered"
    /\ HasRow(b)
    /\ DeleteRow(b)
    /\ UNCHANGED <<callVars, laterVars, past>>

ReleaseUnpaid(b) ==
    /\ pc[b] = "answered"
    /\ Awaiting(b)
    /\ DeleteRow(b)
    /\ UNCHANGED <<callVars, laterVars, past>>

\* Variant of the sweep that looks for pending holds only.
FindExpiredPending(b) ==
    /\ pc[b] \in Ended
    /\ Awaiting(b) /\ status[b] = "pending"
    /\ b \notin swept
    /\ swept' = swept \cup {b}
    /\ UNCHANGED <<callVars, rowVars, move, cancelling, past>>

\* releaseExpiredHolds: the find, by an age no running call can have, ...
FindExpired(b) ==
    /\ pc[b] \in Ended
    /\ Awaiting(b)
    /\ b \notin swept
    /\ swept' = swept \cup {b}
    /\ UNCHANGED <<callVars, rowVars, move, cancelling, past>>

\* ... and the deleteMany, by _id alone: whatever became of the row since.
\* deleteMany removes its rows one by one, so each is a step of its own.
DeleteExpired(b) ==
    /\ b \in swept
    /\ swept' = swept \ {b}
    /\ DeleteRow(b)
    /\ UNCHANGED <<callVars, move, cancelling, past>>

\* The bound on the calls below, which read a row and save it later.
MayBegin ==
    Cardinality(cancelling) + Cardinality({c \in Bookings : move[c] # NoSlot}) < MaxPending

\* The cancel calls of the customer, the stylist and the admin, and a stylist
\* who leaves the salon: the read with its guards (the admin's has no test of
\* the start) ...
ReadForCancel(b) ==
    /\ Active(b)
    /\ b \notin cancelling
    /\ MayBegin
    /\ cancelling' = cancelling \cup {b}
    /\ UNCHANGED <<callVars, rowVars, move, swept, past>>

\* ... and the write.  It finds no document when the row is gone.  A save that
\* pushes adjustments bumps the version, so a reschedule read before it fails;
\* the updateMany of leaveSalon does not.
SaveCancel(b) ==
    /\ b \in cancelling
    /\ cancelling' = cancelling \ {b}
    /\ IF HasRow(b)
       THEN /\ status' = [status EXCEPT ![b] = "cancelled"]
            /\ move' \in {move, [move EXCEPT ![b] = NoSlot]}
       ELSE UNCHANGED <<status, move>>
    /\ UNCHANGED <<callVars, payment, slot, unchecked, swept, past>>

\* rescheduleReservation up to its clash check.  One call per row at a time:
\* the version test of save() lets only one of two succeed.
CheckMove(b, t) ==
    /\ status[b] = "confirmed"
    /\ slot[b] \notin past
    /\ move[b] = NoSlot
    /\ t \notin past
    /\ ~ Taken(t, b)
    /\ MayBegin
    /\ move' = [move EXCEPT ![b] = t]
    /\ UNCHANGED <<callVars, rowVars, cancelling, swept, past>>

\* The save, with no re-check after it.
SaveMove(b) ==
    /\ move[b] # NoSlot
    /\ move' = [move EXCEPT ![b] = NoSlot]
    /\ IF HasRow(b)
       THEN /\ slot' = [slot EXCEPT ![b] = move[b]]
            /\ unchecked' = unchecked \cup {b}
       ELSE UNCHANGED <<slot, unchecked>>
    /\ UNCHANGED <<callVars, status, payment, cancelling, swept, past>>

\* completeDueReservations: one conditional update per due row.
Complete(b) ==
    /\ status[b] = "confirmed"
    /\ slot[b] \in past
    /\ status' = [status EXCEPT ![b] = "completed"]
    /\ UNCHANGED <<callVars, payment, slot, unchecked, laterVars, past>>

\* The start of a slot goes by.
Elapse(s) ==
    /\ s \notin past
    /\ past' = past \cup {s}
    /\ UNCHANGED <<callVars, rowVars, laterVars>>

-----------------------------------------------------------------------------
Create(b) ==
    \/ \E s \in Slots : CheckSlot(b, s)
    \/ BuildDocument(b)
    \/ Abandon(b)
    \/ \E requiresPayment \in BOOLEAN : Insert(b, requiresPayment)
    \/ Recheck(b)
    \/ FailAfterRecheck(b)
    \/ Answer(b)
    \/ UndoCreate(b)

Lifecycle(b) ==
    \/ ConfirmPaid(b)
    \/ ReleaseUnpaid(b)
    \/ FindExpired(b)
    \/ DeleteExpired(b)
    \/ ReadForCancel(b)
    \/ SaveCancel(b)
    \/ \E t \in Slots : CheckMove(b, t)
    \/ SaveMove(b)
    \/ Complete(b)

Next ==
    \/ \E b \in Bookings : Create(b) \/ Crash(b) \/ Lifecycle(b)
    \/ \E s \in Slots : Elapse(s)

Spec == Init /\ [][Next]_vars

\* A running call goes on, and setInterval runs the sweep again and again; a
\* call that was never made, a payment, a cancel need not come.
FairSpec ==
    /\ Spec
    /\ \A b \in Bookings :
          /\ WF_vars(Create(b) /\ pc[b] # "idle")
          /\ WF_vars(FindExpired(b))
          /\ WF_vars(DeleteExpired(b))
-----------------------------------------------------------------------------
(* Properties *)

\* The bookings that hold a slot they were re-checked for.
Holds(b) == pc[b] \in Passed /\ Active(b) /\ b \notin unchecked

\* "This deterministically leaves exactly one booking per overlapping slot even
\* under concurrency": two bookings that passed the re-check never hold
\* overlapping slots, whatever ran between the steps of the two calls.
\* Moved and revived rows are outside it: their slot was not re-checked.
NoDoubleBooking ==
    \A b, c \in Bookings :
        b # c /\ Holds(b) /\ Holds(c) => ~ Overlaps(slot[b], slot[c])

\* What the re-check does promise: of two bookings that hold overlapping slots, the
\* one with the smaller _id reached the database after the other had passed its
\* re-check.  No other order of the steps of the two calls, no cancel, payment,
\* sweep, failed delete or crash between them leads to a double booking.
OnlyOvertakenDoubles ==
    \A b, c \in Bookings :
        b # c /\ Holds(b) /\ Holds(c) /\ Overlaps(slot[b], slot[c]) =>
            IF id[b] < id[c] THEN b \in behind ELSE c \in behind

\* The race is never lost by everybody: who is turned away by the re-check had
\* an older rival with a row, so the oldest of the inserted rows never loses.
LosersHadAnOlderRival ==
    \A b \in Bookings : pc[b] \in {"losing", "lost"} =>
        \E c \in Bookings :
            /\ 0 < id[c] /\ id[c] < id[b]
            /\ pc[c] \notin {"checked", "built", "refused"}

\* Why OnlyOvertakenDoubles holds, as an inductive invariant: ids are distinct, ...
IdsAreDistinct ==
    /\ \A b \in Bookings :
          /\ id[b] <= lastId
          /\ pc[b] \in {"idle", "checked"} => id[b] = 0
          /\ pc[b] \notin {"idle", "checked", "refused"} => id[b] > 0
    /\ \A b, c \in Bookings : b # c /\ id[b] = id[c] => id[b] = 0

\* ... a row comes from an insert and stands where its call asked until moved, ...
Inserted(b) == pc[b] \notin {"idle", "checked", "built", "refused"}
RowsComeFromInserts ==
    \A b \in Bookings :
        /\ HasRow(b) => Inserted(b)
        /\ pc[b] = "inserted" /\ HasRow(b) /\ b \notin unchecked => slot[b] = asked[b]

\* ... and a booking past its re-check meets an older overlapping row only if the
\* row came after the re-check.
NoOlderOverlap ==
    \A b, c \in Bookings :
        /\ b # c /\ id[b] < id[c]
        /\ Holds(c)
        /\ Active(b) /\ b \notin unchecked \cup behind
        => ~ Overlaps(slot[b], slot[c])

BookingInv ==
    /\ TypeOK
    /\ IdsAreDistinct
    /\ RowsComeFromInserts
    /\ NoOlderOverlap
    /\ LosersHadAnOlderRival

\* A hold whose customer never comes back from the gateway, or whose call
\* crashed, leaves its slot in the end: the sweep finds every one of them.
HoldsDoNotBlockForever ==
    \A b \in Bookings : Awaiting(b) ~> ~ Awaiting(b)

\* The re-checked bookings make a calendar without overlaps, but for those that came
\* behind: each step of the flow claims one free slot, drops one, makes a booking
\* firm, or leaves the calendar as it is.  Firm is what the customer was told is
\* booked, with nothing left to pay: its row is never deleted, by a failed call, a
\* release or a sweep, unless a sweep had found it while it was still unpaid.
HeldSlot == [b \in Bookings |-> IF Holds(b) /\ b \notin behind THEN slot[b] ELSE NoSlot]
FirmBookings ==
    {b \in Bookings : pc[b] = "answered" /\ payment[b] \in {"paid", "not_required"} /\ b \notin swept}
RecheckedCalendar == INSTANCE Calendar WITH held <- HeldSlot, firm <- FirmBookings
ImplementsCalendar == RecheckedCalendar!Spec

=============================================================================
