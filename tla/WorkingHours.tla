---------------------------- MODULE WorkingHours ----------------------------
(***************************************************************************)
(* The working hours of one stylist at salons and freelance, the opening   *)
(* hours they are clipped to, the slots and days offered to customers, and *)
(* the reconciliation after a change, which never cancels a reservation:   *)
(* it raises or clears needsHoursUpdate.                                   *)
(*                                                                         *)
(* Time is one weekday in whole units; days do not interact.               *)
(***************************************************************************)
EXTENDS SalonMembership, FiniteSetsExt, Functions

CONSTANTS
    Worker,        \* the stylist
    HourIds,       \* documents of WorkingHour
    Editors,       \* requests that change hours
    Reservations,  \* future reservations of that weekday
    Spans,         \* the intervals entries are given
    Openings,      \* the interval sets a salon is opened for
    Lengths,       \* the durations of the stylist's services
    Horizon, Step15,   \* the end of the day and the granularity of slots
    Freelance

ASSUME HoursAssumption ==
    /\ Worker \in Stylists
    /\ Freelance \notin Salons
    /\ Horizon \in Nat /\ Step15 \in Nat \ {0}
    /\ Lengths # {} /\ Lengths \subseteq 1 .. Horizon
    /\ \A i \in Spans \cup UNION Openings : i \in (0 .. Horizon) \X (0 .. Horizon) /\ i[1] < i[2]

VARIABLES
    hours,         \* the stylist's WorkingHours
    opening,       \* Salon.openingHours
    editor,        \* what each request is at
    asking,        \* what the request that makes each reservation has found
    booked,        \* the reservations
    needsUpdate,   \* StylistProfile.needsHoursUpdate
    apart,         \* changes of hours came one after the other, and none was cut off
    unreconciled,  \* salons where hours changed with no reconciliation: the stylist
                   \* was rejected there, or left
    slipped        \* reservations made out of hours that changed since they were looked
                   \* up, and that no reconciliation has met yet

bookVars == <<asking, booked, slipped>>
hourVars == <<hours, opening, editor, needsUpdate, apart, unreconciled, bookVars>>

Intervals == (0 .. Horizon) \X (0 .. Horizon)
Places == Salons \cup {Freelance}
Entries == [place : Places, span : Intervals]
NoEntry == [place |-> Freelance, span |-> <<0, 0>>]
Bookings == [place : Places, span : Intervals, status : {"pending", "confirmed"}, offered : BOOLEAN]
NoBooking == [status |-> "none"]
NotAsking == [step |-> "none"]
Asking == [step : {"hours", "insert"}, at : SUBSET Places, place : Places, span : Intervals, offered : BOOLEAN]
Ready == [step |-> "ready"]
Editing == [step : {"clear", "insert", "patch", "compute", "sync"}, new : SUBSET Entries,
            id : HourIds \cup {Freelance}, read : Entries, flag : BOOLEAN]

HoursTypeOK ==
    /\ hours \in [HourIds -> Entries]
    /\ opening \in [Salons -> SUBSET Intervals]
    /\ editor \in [Editors -> Editing \cup {Ready}]
    /\ asking \in [Reservations -> Asking \cup {NotAsking}]
    /\ booked \in [Reservations -> Bookings \cup {NoBooking}]
    /\ needsUpdate \in BOOLEAN
    /\ apart \in BOOLEAN
    /\ unreconciled \subseteq Salons
    /\ slipped \subseteq Reservations

HoursInit ==
    /\ hours = [i \in HourIds |-> NoEntry]
    /\ opening \in [Salons -> Openings]
    /\ editor = [e \in Editors |-> Ready]
    /\ asking = [r \in Reservations |-> NotAsking]
    /\ booked = [r \in Reservations |-> NoBooking]
    /\ needsUpdate = FALSE
    /\ apart = TRUE
    /\ unreconciled = {}
    /\ slipped = {}

-----------------------------------------------------------------------------
(* Intervals, as in utils/time *)

Overlaps(a, b) == a[1] < b[2] /\ b[1] < a[2]
Contains(outer, inner) == inner[1] >= outer[1] /\ inner[2] <= outer[2]
Meet(a, b) == <<IF a[1] >= b[1] THEN a[1] ELSE b[1], IF a[2] <= b[2] THEN a[2] ELSE b[2]>>
Ordered(a) == a[1] < a[2]

Used == {i \in HourIds : hours[i] # NoEntry}
Membership(s) == link[<<Worker, s>>].status

\* clipToOpeningHours; nothing is left of the hours at a salon that is gone
Clip(entry) ==
    IF entry.place = Freelance THEN {entry.span}
    ELSE IF Exists(entry.place)
         THEN {part \in {Meet(entry.span, o) : o \in opening[entry.place]} : Ordered(part)}
         ELSE {}

EffectiveHours(p) == UNION {Clip(hours[i]) : i \in {j \in Used : hours[j].place = p}}

-----------------------------------------------------------------------------
(* Changing hours *)

\* ensureUsableSalons and assertInsideOpeningHours
EntryOK(entry) ==
    /\ Ordered(entry.span)
    /\ entry.place # Freelance =>
          /\ Membership(entry.place) \in {"active", "pending"}
          /\ Exists(entry.place)
          /\ \E o \in opening[entry.place] : Contains(o, entry.span)

NoOverlaps(entries) == \A a, b \in entries : a # b => ~Overlaps(a.span, b.span)

Begin(e, request) ==
    /\ editor[e] = Ready
    /\ editor' = [editor EXCEPT ![e] = request]
    /\ apart' = (apart /\ \A q \in Editors : editor[q] = Ready)

Request(step, new, id, read) == [step |-> step, new |-> new, id |-> id, read |-> read, flag |-> FALSE]

SetWorkingHours(e, entries) ==
    /\ \A x \in entries : EntryOK(x)
    /\ NoOverlaps(entries)
    /\ Begin(e, Request("clear", entries, Freelance, NoEntry))
    /\ UNCHANGED <<hours, opening, bookVars, needsUpdate, unreconciled>>

Reconcile(e) == editor' = [editor EXCEPT ![e] = Request("compute", {}, Freelance, NoEntry)]

\* "replace atomically (delete + insert)"
ClearHours(e) ==
    /\ editor[e].step = "clear"
    /\ hours' = [i \in HourIds |-> NoEntry]
    /\ editor' = [editor EXCEPT ![e].step = "insert"]
    /\ UNCHANGED <<opening, bookVars, needsUpdate, apart, unreconciled>>

InsertHours(e) ==
    /\ editor[e].step = "insert"
    /\ \E to \in [editor[e].new -> HourIds \ Used] :
          /\ \A a, b \in editor[e].new : a # b => to[a] # to[b]
          /\ hours' = [i \in HourIds |-> IF \E a \in editor[e].new : to[a] = i
                                         THEN CHOOSE a \in editor[e].new : to[a] = i ELSE hours[i]]
    /\ Reconcile(e)
    /\ UNCHANGED <<opening, bookVars, needsUpdate, apart, unreconciled>>

Others(i) == {hours[j] : j \in Used \ {i}}

PatchUnchecked(e, i, entry) ==
    /\ i \in Used
    /\ EntryOK(entry)
    /\ Begin(e, Request("patch", {entry}, i, hours[i]))
    /\ UNCHANGED <<hours, opening, bookVars, needsUpdate, unreconciled>>

UpdateWorkingHour(e, i, entry) ==
    /\ i \in Used
    /\ EntryOK(entry)
    /\ \A o \in Others(i) : ~Overlaps(o.span, entry.span)
    /\ Begin(e, Request("patch", {entry}, i, hours[i]))
    /\ UNCHANGED <<hours, opening, bookVars, needsUpdate, unreconciled>>

\* the save fails on an entry that was deleted
SavePatch(e) ==
    LET i == editor[e].id  read == editor[e].read  new == CHOOSE x \in editor[e].new : TRUE IN
    /\ editor[e].step = "patch"
    /\ IF i \in Used
       THEN /\ hours' = [hours EXCEPT ![i] =
                            [place |-> Unless(new.place = read.place, @.place, new.place),
                             span |-> <<Unless(new.span[1] = read.span[1], @.span[1], new.span[1]),
                                        Unless(new.span[2] = read.span[2], @.span[2], new.span[2])>>]]
            /\ Reconcile(e)
       ELSE UNCHANGED hours /\ editor' = [editor EXCEPT ![e] = Ready]
    /\ UNCHANGED <<opening, bookVars, needsUpdate, apart, unreconciled>>

DeleteWorkingHour(e, i) ==
    /\ i \in Used
    /\ hours' = [hours EXCEPT ![i] = NoEntry]
    /\ Begin(e, Request("compute", {}, Freelance, NoEntry))
    /\ UNCHANGED <<opening, bookVars, needsUpdate, unreconciled>>

\* updateSalon by the owner or an admin, and the reconciliation of the members
UpdateSalonHours(e, s, intervals) ==
    /\ Exists(s)
    /\ opening' = [opening EXCEPT ![s] = intervals]
    /\ IF Membership(s) \in {"active", "pending"}
       THEN Begin(e, Request("compute", {}, Freelance, NoEntry)) /\ UNCHANGED unreconciled
       ELSE /\ unreconciled' = unreconciled \cup {s}
            /\ UNCHANGED <<editor, apart>>
    /\ UNCHANGED <<hours, bookVars, needsUpdate>>

OutOfHours(r) ==
    /\ booked[r] # NoBooking
    /\ \A i \in EffectiveHours(booked[r].place) : ~Contains(i, booked[r].span)

\* the reads of one computation are taken together
FindAffected(e) ==
    /\ editor[e].step = "compute"
    /\ editor' = [editor EXCEPT ![e].step = "sync", ![e].flag = \E r \in Reservations : OutOfHours(r)]
    /\ slipped' = {}
    /\ UNCHANGED <<hours, opening, asking, booked, needsUpdate, apart, unreconciled>>

\* reconcileStylistHours: the flag is written when it differs
RaiseFlagOnly(e) ==
    /\ editor[e].step = "sync"
    /\ needsUpdate' = (needsUpdate /\ editor[e].flag)
    /\ editor' = [editor EXCEPT ![e] = Ready]
    /\ UNCHANGED <<hours, opening, bookVars, apart, unreconciled>>

SyncFlag(e) ==
    /\ editor[e].step = "sync"
    /\ needsUpdate' = editor[e].flag
    /\ editor' = [editor EXCEPT ![e] = Ready]
    /\ UNCHANGED <<hours, opening, bookVars, apart, unreconciled>>

CrashEditor(e) ==
    /\ editor[e] # Ready
    /\ editor' = [editor EXCEPT ![e] = Ready]
    /\ apart' = FALSE
    /\ UNCHANGED <<hours, opening, bookVars, needsUpdate, unreconciled>>

\* leaveSalon: the hours there go with the membership, and with force the confirmed
\* reservations that were found; pending ones stay
LeaveHours(h) ==
    LET m == handler[h].on
        confirmed == {r \in Reservations : booked[r].status = "confirmed" /\ booked[r].place = m[2]}
    IN  /\ handler[h].op = "leave"
        /\ m[1] = Worker
        /\ hours' = [i \in HourIds |-> IF hours[i].place = m[2] THEN NoEntry ELSE hours[i]]
        /\ booked' = [r \in Reservations |-> IF r \in confirmed THEN NoBooking ELSE booked[r]]
        /\ unreconciled' = unreconciled \cup {m[2]}
        /\ slipped' = slipped \ confirmed
        /\ UNCHANGED <<opening, editor, asking, needsUpdate, apart>>

-----------------------------------------------------------------------------
(* What is offered *)

\* buildSlots
BuildSlots(working, length, busy, minStart) ==
    {slot \in [place : Places, span : Intervals] :
        /\ slot.span[2] = slot.span[1] + length
        /\ slot.span[1] >= minStart
        /\ \A b \in busy : ~Overlaps(b, slot.span)
        /\ \E w \in working :
              /\ w.place = slot.place
              /\ Contains(w.span, slot.span)
              /\ (slot.span[1] - w.span[1]) % Step15 = 0}

Busy == {booked[r].span : r \in {q \in Reservations : booked[q] # NoBooking}}
Parts(entry, p) == {[place |-> p, span |-> part] : part \in Clip([entry EXCEPT !.place = p])}

\* getAvailability populates the salon of an entry: one whose salon is gone reads
\* as freelance
Populated(entry) == IF entry.place # Freelance /\ ~Exists(entry.place) THEN Freelance ELSE entry.place

GetAvailability(length, minStart) ==
    LET book == GetBookability(Worker)
        open == {i \in Used : LET p == Populated(hours[i])
                              IN  IF p = Freelance THEN book.freelance ELSE p \in book.salons}
    IN  IF book.bookable
        THEN BuildSlots(UNION {Parts(hours[i], Populated(hours[i])) : i \in open}, length, Busy, minStart)
        ELSE {}

\* getAvailableDays and computeDayAvailability compare the id
OpenByMembership(book) ==
    {i \in Used : IF hours[i].place = Freelance THEN place[Worker] # "salon" ELSE Membership(hours[i].place) = "active"}

OpenEntries(book) ==
    {i \in Used : IF hours[i].place = Freelance THEN book.freelance ELSE hours[i].place \in book.salons}

DayIsAvailable(mode, wanted, minStart) ==
    LET book == GetBookability(Worker)
        needed == IF mode = "any" THEN Min(wanted) ELSE SumFunctionOnSet([d \in wanted |-> d], wanted)
        working == UNION {Parts(hours[i], hours[i].place) : i \in OpenEntries(book)}
    IN  book.bookable /\ BuildSlots(working, needed, Busy, minStart) # {}

\* the shortest service probes the day
FoundBySearch(minStart) ==
    LET book == GetBookabilityMap(Stylists)[Worker]
        working == UNION {Parts(hours[i], hours[i].place) : i \in OpenEntries(book)}
    IN  book.bookable /\ BuildSlots(working, Min(Lengths), Busy, minStart) # {}

-----------------------------------------------------------------------------
(* Making a reservation: createReservation looks up the workplaces, then the  *)
(* hours, and inserts after more queries; whatever it found may have changed. *)

OpenPlaces == ResolveActiveSalons(Worker) \cup (IF place[Worker] = "freelance" THEN {Freelance} ELSE {})

\* an entry that contains the time, at one of those workplaces, and no clash
IsHost(i, span, at) ==
    /\ i \in Used
    /\ Contains(hours[i].span, span)
    /\ hours[i].place \in at
    /\ \A b \in Busy : ~Overlaps(b, span)

\* what is asked for would be found now
MayBook(i, span) == Worker \in accepting \ restricted /\ IsHost(i, span, OpenPlaces)

FindWorkplaces(r) ==
    /\ booked[r] = NoBooking /\ asking[r] = NotAsking
    /\ Worker \in accepting \ restricted /\ OpenPlaces # {}
    /\ asking' = [asking EXCEPT ![r] = [step |-> "hours", at |-> OpenPlaces, place |-> Freelance,
                                        span |-> <<0, 0>>, offered |-> FALSE]]
    /\ UNCHANGED <<hours, opening, editor, booked, needsUpdate, apart, unreconciled, slipped>>

FindHost(r, span) ==
    /\ asking[r].step = "hours"
    /\ \E i \in HourIds :
          /\ IsHost(i, span, asking[r].at)
          /\ asking' = [asking EXCEPT ![r] =
                [step |-> "insert", at |-> {}, place |-> hours[i].place, span |-> span,
                 offered |-> \E w \in EffectiveHours(hours[i].place) : Contains(w, span)]]
    /\ UNCHANGED <<hours, opening, editor, booked, needsUpdate, apart, unreconciled, slipped>>

InsertBooking(r) ==
    LET ask == asking[r] IN
    /\ ask.step = "insert"
    /\ \E status \in {"pending", "confirmed"} :
          booked' = [booked EXCEPT ![r] = [place |-> ask.place, span |-> ask.span, status |-> status,
                                           offered |-> ask.offered]]
    /\ slipped' = IF \E w \in EffectiveHours(ask.place) : Contains(w, ask.span) THEN slipped ELSE slipped \cup {r}
    /\ asking' = [asking EXCEPT ![r] = NotAsking]
    /\ UNCHANGED <<hours, opening, editor, needsUpdate, apart, unreconciled>>

\* it is refused, or the process stops
StopAsking(r) ==
    /\ asking[r] # NotAsking
    /\ asking' = [asking EXCEPT ![r] = NotAsking]
    /\ UNCHANGED <<hours, opening, editor, booked, needsUpdate, apart, unreconciled, slipped>>

\* it is cancelled or its day has come
EndBooking(r) ==
    /\ booked[r] # NoBooking
    /\ booked' = [booked EXCEPT ![r] = NoBooking]
    /\ slipped' = slipped \ {r}
    /\ UNCHANGED <<hours, opening, editor, asking, needsUpdate, apart, unreconciled>>

HoursNext ==
    \E e \in Editors :
        \/ \E entries \in SUBSET {x \in [place : Places, span : Spans] : EntryOK(x)} :
              Cardinality(entries) <= Cardinality(HourIds) /\ SetWorkingHours(e, entries)
        \/ \E i \in HourIds :
              \/ \E entry \in [place : Places, span : Spans] : UpdateWorkingHour(e, i, entry)
              \/ DeleteWorkingHour(e, i)
        \/ \E s \in Salons, intervals \in Openings : UpdateSalonHours(e, s, intervals)
        \/ ClearHours(e) \/ InsertHours(e) \/ SavePatch(e) \/ FindAffected(e) \/ SyncFlag(e) \/ CrashEditor(e)

BookNext ==
    \E r \in Reservations :
        \/ \E t \in 0 .. Horizon, d \in Lengths : t + d <= Horizon /\ FindHost(r, <<t, t + d>>)
        \/ FindWorkplaces(r) \/ InsertBooking(r) \/ StopAsking(r) \/ EndBooking(r)

\* the worker's own memberships, and the hours that go with one
WorkplaceNext ==
    \E h \in Handlers :
        \/ \E m \in {Worker} \X Salons :
              ApproveStylist(h, m) \/ RejectStylist(h, m) \/ InviteStylistToSalon(h, m)
              \/ RespondToSalonRequest(h, m) \/ LeaveSalon(h, m)
        \/ InsertLink(h) \/ SaveLink(h)

\* the worker does not leave a salon without the hours there
SalonHoursNext ==
    \/ (HoursNext \/ BookNext) /\ UNCHANGED membershipVars
    \/ \E h \in Handlers : DeleteLink(h) /\ LeaveHours(h)
    \/ /\ MembershipNext /\ UNCHANGED hourVars
       /\ \A h \in Handlers : DeleteLink(h) => handler[h].on[1] # Worker

HoursSpec == MembershipInit /\ HoursInit /\ [][SalonHoursNext]_<<membershipVars, hourVars>>

-----------------------------------------------------------------------------
(* Properties *)

(* "A stylist cannot be in two places at the same instant": hours changed   *)
(* one request at a time never overlap, across salons and freelance.         *)
HoursApartNeverOverlap ==
    apart => \A i, j \in Used : i # j => ~Overlaps(hours[i].span, hours[j].span)

(* When changes do not overlap and none is under way, a reservation that lies *)
(* outside the hours of a present workplace is flagged to the stylist.  The   *)
(* exceptions are those of the code: a booking that was never offered, hours  *)
(* that changed while a salon had rejected the stylist, or by leaving, and a  *)
(* reservation inserted after the hours it was looked up in were changed,     *)
(* which nothing flags until hours change again.                              *)
FlagFollowsHours ==
    (apart /\ \A e \in Editors : editor[e] = Ready) =>
        \A r \in Reservations :
            (/\ OutOfHours(r)
             /\ booked[r].offered /\ r \notin slipped
             /\ booked[r].place # Freelance =>
                   Exists(booked[r].place) /\ booked[r].place \notin unreconciled
                     /\ Membership(booked[r].place) \in {"active", "pending"})
            => needsUpdate

(* The three computations of free time agree while every entry's salon is   *)
(* there: a day is listed exactly when a slot is offered on it, in the "any" *)
(* mode when one of the services fits alone, and the search finds the        *)
(* stylist exactly then; what is offered has one entry, and can be booked.   *)
AvailabilityAgrees ==
    (\A i \in Used : hours[i].place # Freelance => Exists(hours[i].place)) =>
        \A minStart \in {0, 1} :
            /\ \A d \in Lengths :
                  DayIsAvailable("all", {d}, minStart) <=> GetAvailability(d, minStart) # {}
            /\ DayIsAvailable("any", Lengths, minStart)
                  <=> \E d \in Lengths : GetAvailability(d, minStart) # {}
            /\ FoundBySearch(minStart) <=> DayIsAvailable("any", Lengths, minStart)
            /\ apart => \A d \in Lengths : \A slot \in GetAvailability(d, minStart) :
                  \E i \in Used : MayBook(i, slot.span) /\ hours[i].place = slot.place
                     /\ \A j \in Used \ {i} : ~Contains(hours[j].span, slot.span)

(* "Out-of-hours slots can neither appear nor be freshly booked": what is     *)
(* booked lay inside the hours of its workplace, clipped to its opening.      *)
FreshBookingsInHours == \A r \in Reservations : booked[r] # NoBooking => booked[r].offered
=============================================================================
