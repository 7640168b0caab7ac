------------------------- MODULE SlotBookingProofs -------------------------
(***************************************************************************)
(* That the re-check keeps the calendar free of overlaps, for any number   *)
(* of concurrent calls, any slots and any order of the inserts, but for    *)
(* the rows that arrive behind the re-check of a younger one.              *)
(***************************************************************************)
EXTENDS SlotBooking, TLAPS

\* The abbreviations of unchanged variables, opened in every step proof.
USE DEF callVars, rowVars, laterVars

\* Every step leaves the variables in their types.
LEMMA InitType == Init => TypeOK
  BY DEF Init, TypeOK, CallSteps, Statuses, Payments

\* ... as do the steps of all calls, of the sweep and of time.
LEMMA StepType == TypeOK /\ [Next]_vars => TypeOK'
  <1> SUFFICES ASSUME TypeOK, [Next]_vars
               PROVE  TypeOK'
    OBVIOUS
  <1> USE DEF TypeOK, CallSteps, Statuses, Payments, Goto, Finish
  <1>1. ASSUME NEW b \in Bookings, Create(b)
        PROVE  TypeOK'
    <2>1. ASSUME NEW s \in Slots, CheckSlot(b, s)
          PROVE  TypeOK'
      BY <2>1 DEF CheckSlot
    <2>2. CASE BuildDocument(b)
      BY <2>2 DEF BuildDocument
    <2>3. CASE Abandon(b)
      BY <2>3 DEF Abandon
    <2>4. ASSUME NEW p \in BOOLEAN, Insert(b, p)
          PROVE  TypeOK'
      BY <2>4 DEF Insert
    <2>5. CASE Recheck(b)
      BY <2>5 DEF Recheck
    <2>6. CASE FailAfterRecheck(b) \/ Answer(b)
      BY <2>6 DEF FailAfterRecheck, Answer
    <2>7. CASE UndoCreate(b)
      BY <2>7 DEF UndoCreate, DeleteRow
    <2>8. QED
      BY <1>1, <2>1, <2>2, <2>3, <2>4, <2>5, <2>6, <2>7 DEF Create
  <1>2. ASSUME NEW b \in Bookings, Crash(b)
        PROVE  TypeOK'
    BY <1>2 DEF Crash
  <1>3. ASSUME NEW b \in Bookings, Lifecycle(b)
        PROVE  TypeOK'
    <2>1. CASE ConfirmPaid(b)
      BY <2>1 DEF ConfirmPaid
    <2>2. CASE ReleaseUnpaid(b) \/ DeleteExpired(b)
      BY <2>2 DEF ReleaseUnpaid, DeleteExpired, DeleteRow
    <2>3. CASE FindExpired(b) \/ ReadForCancel(b)
      BY <2>3 DEF FindExpired, ReadForCancel
    <2>4. CASE SaveCancel(b)
      BY <2>4 DEF SaveCancel
    <2>5. ASSUME NEW t \in Slots, CheckMove(b, t)
          PROVE  TypeOK'
      BY <2>5 DEF CheckMove
    <2>6. CASE SaveMove(b)
      BY <2>6 DEF SaveMove
    <2>7. CASE Complete(b)
      BY <2>7 DEF Complete
    <2>8. QED
      BY <1>3, <2>1, <2>2, <2>3, <2>4, <2>5, <2>6, <2>7 DEF Lifecycle
  <1>4. ASSUME NEW s \in Slots, Elapse(s)
        PROVE  TypeOK'
    BY <1>4 DEF Elapse
  <1>5. CASE UNCHANGED vars
    BY <1>5 DEF vars
  <1>6. QED
    BY <1>1, <1>2, <1>3, <1>4, <1>5 DEF Next

\* The state of the calls, the rows and the running jobs stays well typed
\* through every handler, whatever interleaves with it.
THEOREM TypeCorrect == Spec => []TypeOK
  BY InitType, StepType, PTL DEF Spec

-----------------------------------------------------------------------------
\* The invariant behind the calendar, action by action.  Only four actions can
\* disturb it: building a document (ids), inserting it (rows and order), the
\* re-check (a new holder of a slot) and a reschedule (a row changes its slot).
LEMMA InitInv == Init => BookingInv
  BY InitType DEF Init, BookingInv, IdsAreDistinct, RowsComeFromInserts, HasRow,
     Inserted, NoOlderOverlap, Holds, Active, Passed,
     LosersHadAnOlderRival

\* A document is built: its id is new, its call has no row yet.
LEMMA BuildStep ==
  ASSUME BookingInv, NEW b \in Bookings, BuildDocument(b), TypeOK'
  PROVE  BookingInv'
  <1> USE DEF BookingInv, BuildDocument, Goto, TypeOK
  <1>1. IdsAreDistinct'
    BY DEF IdsAreDistinct
  <1>2. RowsComeFromInserts'
    BY DEF RowsComeFromInserts, HasRow, Inserted
  <1>3. NoOlderOverlap'
    BY DEF NoOlderOverlap, Holds, Active, Passed, RowsComeFromInserts, HasRow, Inserted
  <1>4. LosersHadAnOlderRival'
    BY DEF LosersHadAnOlderRival, IdsAreDistinct
  <1>5. QED
    BY <1>1, <1>2, <1>3, <1>4

\* A row is inserted: either it comes behind, or nobody past the re-check is younger.
LEMMA InsertStep ==
  ASSUME BookingInv, NEW b \in Bookings, NEW p \in BOOLEAN, Insert(b, p), TypeOK'
  PROVE  BookingInv'
  <1> USE DEF BookingInv, Insert, Goto, TypeOK
  <1>1. IdsAreDistinct'
    BY DEF IdsAreDistinct
  <1>2. RowsComeFromInserts'
    BY DEF RowsComeFromInserts, HasRow, Inserted
  <1>3. NoOlderOverlap'
    <2> SUFFICES ASSUME NEW a \in Bookings, NEW c \in Bookings, a # c, id[a] < id[c],
                        Holds(c)', Active(a)', a \notin unchecked \cup behind'
                 PROVE  ~ Overlaps(slot'[a], slot'[c])
      BY DEF NoOlderOverlap, Overlaps
    <2>1. c # b
      BY DEF Holds, Passed
    <2>2. Holds(c) /\ slot'[c] = slot[c]
      BY <2>1 DEF Holds, Active, Passed
    <2>3. a # b
      BY <2>2 DEF OvertakenBy, Holds
    <2>4. Active(a) /\ slot'[a] = slot[a] /\ a \notin behind
      BY <2>3 DEF Active
    <2>5. QED
      BY <2>2, <2>4 DEF NoOlderOverlap
  <1>4. LosersHadAnOlderRival'
    BY DEF LosersHadAnOlderRival
  <1>5. QED
    BY <1>1, <1>2, <1>3, <1>4

\* The re-check: the caller passes only if no active row with a smaller id
\* overlaps its slot, and loses only to such a row.
LEMMA RecheckStep ==
  ASSUME BookingInv, NEW b \in Bookings, Recheck(b), TypeOK'
  PROVE  BookingInv'
  <1> USE DEF BookingInv, Recheck, Goto, TypeOK
  <1>1. IdsAreDistinct' /\ RowsComeFromInserts'
    BY DEF IdsAreDistinct, RowsComeFromInserts, HasRow, Inserted
  <1>2. NoOlderOverlap'
    <2> SUFFICES ASSUME NEW a \in Bookings, NEW c \in Bookings, a # c, id[a] < id[c],
                        Holds(c)', Active(a), a \notin unchecked \cup behind
                 PROVE  ~ Overlaps(slot[a], slot[c])
      BY DEF NoOlderOverlap, Overlaps, Active
    <2>1. CASE c # b
      BY <2>1 DEF NoOlderOverlap, Holds, Active, Passed
    <2>2. CASE c = b
      <3>1. ~ Beats(a, b)
        BY <2>2 DEF Holds, Passed
      <3>2. slot[b] = asked[b]
        BY <2>2 DEF RowsComeFromInserts, Holds, Active, HasRow
      <3>3. QED
        BY <2>2, <3>1, <3>2 DEF Beats, Overlaps
    <2>3. QED
      BY <2>1, <2>2
  <1>3. LosersHadAnOlderRival'
    <2> SUFFICES ASSUME NEW l \in Bookings, pc'[l] \in {"losing", "lost"}
                 PROVE  \E c \in Bookings :
                            /\ 0 < id[c] /\ id[c] < id[l]
                            /\ pc'[c] \notin {"checked", "built", "refused"}
      BY DEF LosersHadAnOlderRival
    <2>1. CASE l = b
      <3>1. PICK c \in Bookings \ {b} : Beats(c, b)
        BY <2>1
      <3>2. Inserted(c) /\ 0 < id[c]
        BY <3>1 DEF Beats, Active, RowsComeFromInserts, HasRow, IdsAreDistinct, Inserted
      <3>3. QED
        BY <2>1, <3>1, <3>2 DEF Beats, Inserted
    <2>2. CASE l # b
      BY <2>2 DEF LosersHadAnOlderRival
    <2>3. QED
      BY <2>1, <2>2
  <1>4. QED
    BY <1>1, <1>2, <1>3

\* The other steps of a call change no row or delete its own one.
LEMMA CallStep ==
  ASSUME BookingInv, NEW b \in Bookings, TypeOK',
         \/ \E s \in Slots : CheckSlot(b, s)
         \/ Abandon(b) \/ FailAfterRecheck(b) \/ Answer(b) \/ UndoCreate(b) \/ Crash(b)
  PROVE  BookingInv'
  <1> USE DEF BookingInv, CheckSlot, Abandon, FailAfterRecheck, Answer, UndoCreate,
              Crash, DeleteRow, Goto, Finish, TypeOK
  <1>1. /\ id' = id /\ lastId' = lastId /\ behind' = behind
        /\ \A c \in Bookings : c # b => pc'[c] = pc[c] /\ asked'[c] = asked[c]
        /\ \A c \in Bookings :
              \/ status'[c] = "none"
              \/ status'[c] = status[c] /\ slot'[c] = slot[c] /\ (c \in unchecked' <=> c \in unchecked)
    OBVIOUS
  <1>2. \A c \in Bookings :
           /\ pc'[c] \notin {"inserted", "built"} \/ pc'[c] = pc[c]
           /\ Inserted(c)' <=> Inserted(c)
           /\ pc'[c] \in Passed => pc[c] \in Passed
           /\ pc'[c] \in {"losing", "lost"} => pc[c] \in {"losing", "lost"}
    BY DEF Inserted, Passed
  <1>3. IdsAreDistinct'
    BY <1>1 DEF IdsAreDistinct
  <1>4. RowsComeFromInserts'
    BY <1>1, <1>2 DEF RowsComeFromInserts, HasRow
  <1>5. NoOlderOverlap'
    BY <1>1, <1>2 DEF NoOlderOverlap, Holds, Active, Overlaps
  <1>6. LosersHadAnOlderRival'
    <2> SUFFICES ASSUME NEW l \in Bookings, pc'[l] \in {"losing", "lost"}
                 PROVE  \E c \in Bookings :
                            /\ 0 < id[c] /\ id[c] < id[l]
                            /\ pc'[c] \notin {"checked", "built", "refused"}
      BY <1>1 DEF LosersHadAnOlderRival
    <2>1. PICK c \in Bookings : /\ 0 < id[c] /\ id[c] < id[l]
                               /\ pc[c] \notin {"checked", "built", "refused"}
      BY <1>2 DEF LosersHadAnOlderRival
    <2>2. Inserted(c)
      BY <2>1 DEF Inserted, IdsAreDistinct
    <2>3. Inserted(c)'
      BY <1>2, <2>2
    <2>4. QED
      BY <2>1, <2>3 DEF Inserted
  <1>7. QED
    BY <1>3, <1>4, <1>5, <1>6

\* Nothing that happens to a row later activates it on a slot of its own choice
\* without leaving it unchecked.
LEMMA LifecycleStep ==
  ASSUME BookingInv, NEW b \in Bookings, Lifecycle(b), TypeOK'
  PROVE  BookingInv'
  <1> USE DEF BookingInv, TypeOK
  <1>1. /\ UNCHANGED callVars
        /\ \A c \in Bookings :
              \/ status'[c] = "none"
              \/ c \in unchecked' /\ (HasRow(c) \/ Inserted(c))
              \/ /\ status'[c] = status[c] \/ ~ Active(c)' \/ Active(c)
                 /\ HasRow(c) /\ slot'[c] = slot[c]
                 /\ c \in unchecked' <=> c \in unchecked
    BY DEF Lifecycle, ConfirmPaid, ReleaseUnpaid, FindExpired, DeleteExpired, DeleteRow,
       ReadForCancel, SaveCancel, CheckMove, SaveMove, Complete, HasRow, Inserted, Active
  <1>2. IdsAreDistinct'
    BY <1>1 DEF IdsAreDistinct
  <1>3. RowsComeFromInserts'
    BY <1>1 DEF RowsComeFromInserts, HasRow, Inserted
  <1>4. NoOlderOverlap'
    BY <1>1 DEF NoOlderOverlap, Holds, Active, Overlaps
  <1>5. LosersHadAnOlderRival'
    BY <1>1 DEF LosersHadAnOlderRival
  <1>6. QED
    BY <1>2, <1>3, <1>4, <1>5

\* Every step preserves the invariant.
LEMMA StepInv == BookingInv /\ [Next]_vars => BookingInv'
  <1> SUFFICES ASSUME BookingInv, [Next]_vars
               PROVE  BookingInv'
    OBVIOUS
  <1>1. TypeOK'
    BY StepType DEF BookingInv
  <1>2. ASSUME NEW b \in Bookings, Create(b) \/ Crash(b)
        PROVE  BookingInv'
    BY <1>1, <1>2, BuildStep, InsertStep, RecheckStep, CallStep DEF Create
  <1>3. ASSUME NEW b \in Bookings, Lifecycle(b)
        PROVE  BookingInv'
    BY <1>1, <1>3, LifecycleStep
  <1>4. CASE UNCHANGED vars \/ \E s \in Slots : Elapse(s)
    BY <1>1, <1>4 DEF vars, Elapse, BookingInv, IdsAreDistinct, RowsComeFromInserts,
       HasRow, Inserted, NoOlderOverlap, Holds, Active, LosersHadAnOlderRival
  <1>5. QED
    BY <1>2, <1>3, <1>4 DEF Next

\* The inductive invariant of the booking flow (createReservation and what later
\* changes its row) holds for any number of bookings and any slots, whatever the
\* order in which the inserts reach the database.
THEOREM InvariantHolds == Spec => []BookingInv
  BY InitInv, StepInv, PTL DEF Spec

\* Of two holders of overlapping slots one is older; the younger one did not pass the
\* re-check unless the older came behind it.
LEMMA InvImpliesOnlyOvertaken == BookingInv => OnlyOvertakenDoubles
  <1> SUFFICES ASSUME BookingInv, NEW b \in Bookings, NEW c \in Bookings,
                      b # c, Holds(b), Holds(c), Overlaps(slot[b], slot[c])
               PROVE  IF id[b] < id[c] THEN b \in behind ELSE c \in behind
    BY DEF OnlyOvertakenDoubles
  <1>1. id[b] # id[c] /\ id[b] \in Nat /\ id[c] \in Nat
    BY DEF BookingInv, TypeOK, IdsAreDistinct, Holds, Passed
  <1>2. Overlaps(slot[c], slot[b])
    BY SlotsAssumption DEF Overlaps
  <1>3. QED
    BY <1>1, <1>2 DEF BookingInv, NoOlderOverlap, Holds

\* Bookings past the re-check hold overlapping slots only if the older row came behind
\* the re-check of the younger, for any number of concurrent createReservation calls,
\* any order of inserts, crashes and failed rollbacks included.
THEOREM DoublesAreOvertaken == Spec => []OnlyOvertakenDoubles
  BY InvariantHolds, InvImpliesOnlyOvertaken, PTL

\* Whom the re-check turns away had an older rival on record, in any order of the
\* inserts: the oldest of the competing rows is never turned away.
THEOREM OldestRivalStays == Spec => []LosersHadAnOlderRival
  <1>1. BookingInv => LosersHadAnOlderRival
    BY DEF BookingInv
  <1>2. QED
    BY <1>1, InvariantHolds, PTL

-----------------------------------------------------------------------------
\* A step that gives no booking a slot it did not hold, and takes the slot from
\* at most one, is a Drop or leaves the calendar alone.
LEMMA DropOrStutter ==
  ASSUME TypeOK, NEW b \in Bookings,
         \A c \in Bookings : c # b => /\ Holds(c)' <=> Holds(c)
                                      /\ slot'[c] = slot[c]
                                      /\ c \in behind' <=> c \in behind,
         Holds(b)' => Holds(b) /\ slot'[b] = slot[b] /\ (b \in behind' <=> b \in behind),
         UNCHANGED FirmBookings
  PROVE  RecheckedCalendar!Drop(b) \/ UNCHANGED <<HeldSlot, FirmBookings>>
  <1>1. CASE HeldSlot[b] # NoSlot /\ ~ Holds(b)'
    BY <1>1 DEF RecheckedCalendar!Drop, HeldSlot
  <1>2. CASE HeldSlot[b] = NoSlot /\ ~ Holds(b)'
    BY <1>2 DEF HeldSlot
  <1>3. CASE Holds(b)'
    BY <1>3 DEF HeldSlot
  <1>4. QED
    BY <1>1, <1>2, <1>3

\* The re-check is the step that claims the slot.
LEMMA RecheckClaims ==
  ASSUME BookingInv, NEW b \in Bookings, Recheck(b)
  PROVE  \/ \E s \in Slots : RecheckedCalendar!Claim(b, s)
         \/ UNCHANGED <<HeldSlot, FirmBookings>>
  <1> USE DEF BookingInv, Recheck, Goto, TypeOK
  <1>1. /\ ~ Holds(b)
        /\ \A c \in Bookings : c # b => (Holds(c)' <=> Holds(c))
    BY DEF Holds, Passed, Active
  <1>2. UNCHANGED FirmBookings
    BY DEF FirmBookings
  <1>3. CASE ~ Holds(b)' \/ b \in behind \/ slot[b] = NoSlot
    BY <1>1, <1>2, <1>3 DEF HeldSlot
  <1>4. CASE Holds(b)' /\ b \notin behind /\ slot[b] # NoSlot
    <2>1. \A c \in Bookings : Holds(c) /\ c \notin behind => ~ Overlaps(slot[b], slot[c])
      <3> SUFFICES ASSUME NEW c \in Bookings, Holds(c), c \notin behind
                   PROVE  ~ Overlaps(slot[b], slot[c])
        OBVIOUS
      <3>1. Active(b) /\ b \notin unchecked /\ slot[b] = asked[b] /\ c # b
        BY <1>1, <1>4 DEF Holds, Active, RowsComeFromInserts, HasRow
      <3>2. CASE id[c] < id[b]
        <4>1. ~ Beats(c, b)
          BY <1>4, <3>1 DEF Holds, Passed
        <4>2. QED
          BY <3>1, <3>2, <4>1, SlotsAssumption DEF Beats, Holds, Overlaps
      <3>3. CASE id[b] < id[c]
        BY <1>4, <3>1, <3>3 DEF NoOlderOverlap
      <3>4. QED
        BY <3>1, <3>2, <3>3 DEF IdsAreDistinct
    <2>2. HeldSlot[b] = NoSlot /\ HeldSlot' = [HeldSlot EXCEPT ![b] = slot[b]]
      BY <1>1, <1>4 DEF HeldSlot
    <2>3. \A c \in Bookings : HeldSlot[c] # NoSlot => <<slot[b], HeldSlot[c]>> \notin Overlapping
      BY <2>1 DEF HeldSlot, Overlaps
    <2>4. QED
      BY <1>2, <1>4, <2>2, <2>3 DEF RecheckedCalendar!Claim, HeldSlot
  <1>5. QED
    BY <1>3, <1>4

\* A booking becomes firm when its call answers with nothing left to pay, or when its
\* payment is confirmed; neither moves a slot.
LEMMA FirmStep ==
  ASSUME BookingInv, NEW b \in Bookings, Answer(b) \/ ConfirmPaid(b)
  PROVE  RecheckedCalendar!MakeFirm(b) \/ UNCHANGED <<HeldSlot, FirmBookings>>
  <1> USE DEF BookingInv, TypeOK, Answer, ConfirmPaid, Goto, Finish
  <1>1. UNCHANGED HeldSlot
    BY DEF HeldSlot, Holds, Active, Passed
  <1>2. b \notin FirmBookings
    BY DEF FirmBookings, Awaiting
  <1>3. FirmBookings' = FirmBookings \/ FirmBookings' = FirmBookings \cup {b}
    BY <1>2 DEF FirmBookings
  <1>4. QED
    BY <1>1, <1>2, <1>3 DEF RecheckedCalendar!MakeFirm

\* Every other step of booking b drops its slot or leaves the calendar alone: in
\* particular it deletes the row of no firm booking.
LEMMA OtherStepsDrop ==
  ASSUME BookingInv, NEW b \in Bookings,
         \/ Create(b) /\ ~ Recheck(b) /\ ~ Answer(b)
         \/ Crash(b)
         \/ Lifecycle(b) /\ ~ ConfirmPaid(b)
  PROVE  RecheckedCalendar!Drop(b) \/ UNCHANGED <<HeldSlot, FirmBookings>>
  <1> USE DEF BookingInv, TypeOK, Goto, Finish, DeleteRow
  <1>1. /\ \A c \in Bookings : c # b => /\ Holds(c)' <=> Holds(c)
                                        /\ slot'[c] = slot[c]
                                        /\ c \in behind' <=> c \in behind
        /\ Holds(b)' => Holds(b) /\ slot'[b] = slot[b] /\ (b \in behind' <=> b \in behind)
    <2> USE DEF Holds, Active, Passed
    <2>1. CASE Create(b) /\ ~ Recheck(b) /\ ~ Answer(b)
      BY <2>1 DEF Create, CheckSlot, BuildDocument, Abandon, Insert,
         FailAfterRecheck, UndoCreate
    <2>2. CASE Crash(b)
      BY <2>2 DEF Crash
    <2>3. CASE Lifecycle(b) /\ ~ ConfirmPaid(b)
      BY <2>3 DEF Lifecycle, ReleaseUnpaid, FindExpired, DeleteExpired,
         ReadForCancel, SaveCancel, CheckMove, SaveMove, Complete, HasRow
    <2>4. QED
      BY <2>1, <2>2, <2>3
  <1>2. \A c \in Bookings :
           (pc[c] = "answered" /\ payment[c] \in {"paid", "not_required"} /\ c \notin swept)'
           <=> (pc[c] = "answered" /\ payment[c] \in {"paid", "not_required"} /\ c \notin swept)
    <2>1. CASE Create(b) /\ ~ Recheck(b) /\ ~ Answer(b)
      BY <2>1 DEF Create, CheckSlot, BuildDocument, Abandon, Insert,
         FailAfterRecheck, UndoCreate
    <2>2. CASE Crash(b)
      BY <2>2 DEF Crash
    <2>3. CASE Lifecycle(b) /\ ~ ConfirmPaid(b)
      BY <2>3 DEF Lifecycle, ReleaseUnpaid, FindExpired, DeleteExpired, Awaiting,
         ReadForCancel, SaveCancel, CheckMove, SaveMove, Complete, HasRow
    <2>4. QED
      BY <2>1, <2>2, <2>3
  <1>3. UNCHANGED FirmBookings
    BY <1>2 DEF FirmBookings
  <1>4. QED
    BY <1>1, <1>3, DropOrStutter

\* The flow implements the abstract calendar, for any order of the inserts: the re-check
\* is the one step that claims a slot, it claims none that overlaps a slot another
\* booking holds, and what the customer was told is booked and paid stays on record.
THEOREM RefinesCalendar == Spec => ImplementsCalendar
  <1>1. Init => RecheckedCalendar!Init
    BY DEF Init, RecheckedCalendar!Init, HeldSlot, Holds, Passed, FirmBookings
  <1>2. BookingInv /\ [Next]_vars => [RecheckedCalendar!Next]_<<HeldSlot, FirmBookings>>
    <2> SUFFICES ASSUME BookingInv, [Next]_vars
                 PROVE  RecheckedCalendar!Next \/ UNCHANGED <<HeldSlot, FirmBookings>>
      OBVIOUS
    <2>1. ASSUME NEW b \in Bookings, Recheck(b)
          PROVE  RecheckedCalendar!Next \/ UNCHANGED <<HeldSlot, FirmBookings>>
      BY <2>1, RecheckClaims DEF RecheckedCalendar!Next
    <2>2. ASSUME NEW b \in Bookings, Answer(b) \/ ConfirmPaid(b)
          PROVE  RecheckedCalendar!Next \/ UNCHANGED <<HeldSlot, FirmBookings>>
      BY <2>2, FirmStep DEF RecheckedCalendar!Next
    <2>3. ASSUME NEW b \in Bookings, Create(b) \/ Crash(b) \/ Lifecycle(b),
                 ~ Recheck(b), ~ Answer(b), ~ ConfirmPaid(b)
          PROVE  RecheckedCalendar!Next \/ UNCHANGED <<HeldSlot, FirmBookings>>
      BY <2>3, OtherStepsDrop DEF RecheckedCalendar!Next
    <2>4. CASE UNCHANGED vars \/ \E s \in Slots : Elapse(s)
      BY <2>4 DEF vars, Elapse, HeldSlot, Holds, Active, FirmBookings
    <2>5. QED
      BY <2>1, <2>2, <2>3, <2>4 DEF Next
  <1>3. QED
    BY <1>1, <1>2, InvariantHolds, PTL DEF Spec, ImplementsCalendar, RecheckedCalendar!Spec
=============================================================================
