# Verification of the Shuneh booking back end

The repository is the back end of a beauty-salon marketplace: Express and
TypeScript over MongoDB through mongoose, a payment gateway (Zibal), SMS, and a
few `setInterval` jobs. Apart from the wallet, nothing runs in a database
transaction: a handler is a sequence of awaits, and between any two of them every
other handler, job or server instance may run. The project models that: one
action per round trip where the order matters, one action per handler where a
single conditional update decides.

Paths below are relative to `src/src/modules/` unless they start with `src/`.
`RCS` is `reservation/reservation.customer.service.ts`.

## 1. The system

| Component | State | Operations | Talks to |
|---|---|---|---|
| Reservations (`RCS`) | `Reservation` documents: status, paymentStatus, slot, deposit, adjustments, reschedule history | create, confirm after payment, release, sweep, cancel, reschedule, preview | payment, credit, discount, policy, finance, membership |
| Auto-completion (`reservation/reservation.service.ts`) | status, completionNotifiedAt | complete what is due, award credit, invite to review | scheduler, credit |
| Payment (`payment/payment.service.ts`) | `PaymentTransaction`: initiated, pending, paid, failed | start, top-up, plan purchase, callback | gateway, reservations, wallet, plans |
| Finance, invoices (`finance/`, `invoice/`) | none | deposit, fee, refund, penalty, net of a ledger, the invoice of a booking | reservations, settlements, admin |
| Policies (`policy/policy.service.ts`) | policies of a stylist, a service, a salon; defaults per plan | set, resolve, preview, outcome of a cancel or reschedule | reservations |
| Credit (`credit/`, `referral/`) | credit wallets and their rows, settings cached for 60 s, referrals | spend, roll back, award, penalise, buy a plan, claim a referral | reservations, reviews |
| Wallet (`wallet/wallet.service.ts`) | `walletBalance`, its rows, the debt lock | one transactional change | payment, admin |
| Settlements (`settlement/settlement.service.ts`) | settlement requests with the reservations they claim | balance, request, decide, pages | reservations, admin |
| Discounts, campaigns (`discount/`, `campaign/`) | codes with their uses, the log of messages | edit, preview, resolve, consume, send | reservations, SMS |
| Plans (`plan/`) | tier, end, reminders and campaign switch of a stylist | buy, grant, downgrade, remind | payment, credit |
| Membership and invites (`stylist/`, `invite/`, `salon/`) | salons, memberships, invites | create, invite, claim, join, answer, leave | reservations, hours |
| Hours and search (`stylist/hoursReconcile.ts`, `stylist/public.service.ts`) | working and opening hours, flags on reservations | replace, edit, reconcile, free slots and days, bookability | reservations, membership |
| Sessions (`auth/auth.service.ts`) | accounts and refresh tokens | log in, exchange, revoke, ban | all |
| Identity, onboarding (`onboarding/`, `stylist/`, `admin/`) | foreign id, passport, card, name, roles, steps, private images | submit, review, choose roles, activate | admin |
| Redirects (`redirect/`) | one row per path | rename, edit, serve | the site |
| Community, social, stories, reviews (`community/`, `social/`, `review/`) | rows and the numbers beside them, pictures | like, comment, follow, moderate, purge | admin |
| Chat, tickets, messages (`chat/`, `ticket/`, `message/`) | threads, unread numbers, whose turn it is | send, read, answer, close | SMS |
| Catalogue and offers (`services/`, `stylist/`) | categories, services, offers with pictures | create, offer, delete | policies |
| Jobs (`src/src/jobs/scheduler.ts`) | none | hold sweep, auto-completion, plan expiry, story purge, on every instance | all |
| Blog, reports, media, geo, banks, features, SMS | documents, static data, I/O | read and write one document | - |

What makes it hard:

* Two bookings of one slot: the clash check runs before the row exists, so the
  code inserts first and re-checks afterwards, the smaller `_id` winning
  (`RCS` 345-367).
* A hold blocks its slot while the customer is at the gateway. Four parties
  decide its fate: the callback, the sweep (of every instance), a cancel, and the
  failure path of the call that made it. Each reads, and writes later.
* The callback of the gateway is a public GET without authentication: it may come
  twice, at any time, and say what it likes of the payment.
* mongoose: `save()` writes the paths that changed, not the document. A push onto
  an array raises the version without testing it; replacing an array tests it;
  `updateMany` and `findOneAndUpdate` know no version.
* Every number shown beside a list (likes, comments, ratings, unread messages,
  credit) is a second write next to the row it counts.
* A limit (uses of a code, messages of a month, one reminder per milestone) is
  tested in one round trip and consumed in a later one.
* The process may stop between any two awaits, and no job resumes a call. The
  only repairs are the sweep of holds and the purge of stories.

## 2. Modules

| Module | What it models |
|---|---|
| `Calendar` | What a calendar promises: bookings hold slots, no two hold overlapping ones, and a firm one is not taken away. Three actions, `Claim`, `Drop`, `MakeFirm`. |
| `SlotBooking` | One stylist's calendar: `createReservation` step by step, and everything that later changes status or slot of a row. |
| `HoldPayment` | The money of a hold: transaction, gateway session, credit, callbacks, sweeps, cancel, crashes; wallet top-ups as orders without a hold. |
| `Finance` | The arithmetic: deposit, fee, refund, penalty, what a ledger comes to. |
| `BookingLedger` | One booking's adjustments, reschedule history, cancellation outcome and invoice under racing cancels, reschedules and departures. Composes `Finance`. |
| `Settlement` | A stylist's settlement requests, the balance, the pages, and the decisions of the admins, while bookings complete and are cancelled. Composes `Finance`. |
| `CreditLedger` | Credit wallets and their rows: awards after completion, penalties, referrals, purchases, adjustments. |
| `PlanPeriod` | A stylist's paid plan: purchases, grants, the hourly downgrade, the reminders. |
| `DiscountCodes` | Codes from editing to consumption, and campaigns with their caps. |
| `Stories` | Stories that last a day, with picture, views, reports and the purge. |
| `SalonMembership` | Salons, invites, claims, memberships, profiles, and who can be booked. |
| `Discovery` | The search, the list of salons and the page of one, query by query while the rows change. Extends `SalonMembership`. |
| `WorkingHours` | Working and opening hours, reconciliation, free slots and days, a booking in three steps. Extends `SalonMembership`. |
| `Redirects` | Redirects by an admin and by renames, the cycle test, the served map. |
| `Sessions` | Accounts, refresh tokens and their exchange. |
| `IdentityReview` | Review of a foreign id, of the card behind the blue tick, of names; private images. |
| `Onboarding` | Roles, the steps, activation. |
| `Wallet` | The transactional change of a balance, with conflicts and retries. |
| `Community`, `Social`, `Reviews` | Rows and the numbers shown beside them. |
| `Conversations`, `Support` | Chat with unread numbers and announcements; tickets and the welcome message. |
| `Policies` | Setting, resolving and showing cancellation policies. |
| `Offering` | Catalogue, offers and their pictures. |
| `SlotBookingProofs`, `BookingLedgerProofs`, `FinanceProofs`, `SettlementProofs` | Theorems about the module they are named after; `FinanceProofs` also what a sum over a finite set is. |
| `SalonsAndHoldsProofs` | Theorems about `SalonMembership`, `Discovery`, `WorkingHours`, `HoldPayment`. |
| `AccountsProofs` | Theorems about `Redirects`, `Wallet`, `Onboarding`, `IdentityReview`, `Sessions`. |
| `PromotionsProofs` | Theorems about `CreditLedger`, `PlanPeriod`, `DiscountCodes`. |
| `ContentProofs` | Theorems about `Conversations`, `Support`, `Reviews`, `Policies`, `Community`, `Social`, `Offering`. |
| `MC*` | The instances for TLC. |

Two conventions run through all of them.

*Round trips.* A call is a record (`handler[h]`, `visit[v]`, `talk[t]`, `call[c]`,
`desk[d]`, `saver[s]`, ...) that says which await it is at and what it has read.
A save writes the fields that differ from what was read, as mongoose does. A call
may break off at any await: the actions `Crash...`, `BreakOff...`, `CutOff`,
`CutShort`, `Abandon` do that.

*Observers.* Without transactions many promises hold only while calls about the
same thing do not overlap. Where that is so, a variable records that they have
(`doubled` in `Sessions`, `crossed` in `IdentityReview`, `mixed` in `Onboarding`,
`apart` in `WorkingHours` and `Reviews`, `overlapped` in `DiscountCodes`, `singly`,
`inTurn`, `calm`, `undisputed`, `undisturbed`, and `late`, `blurred`, `overruled` in the
modules of the money). The property then says what the code does promise, and
section 5 what it does not. Others say by how much a promise fails: `behind` (the
bookings overtaken by a younger one), `unlogged` and `monthLost` (messages without a
row), `refused` (pictures the store did not delete), `due` and `unsent` (an SMS that is
still to be sent, or never will), `leaving` (what a deletion has not taken yet),
`meanwhile` (what others did to a ticket), `setAnew` (policies set since a booking),
`always` and `ever` (who was open throughout, or at some time). No action of a component is guarded by an
observer.

### SlotBooking and Calendar

`pc[b]` is how far the call has come, `asked[b]` its local slot, `status`,
`payment`, `slot` the row in the database. `CheckSlot` stands for all guards
before the insert (100 lines of validation that refuse in the same way and touch
no row). `BuildDocument` and `Insert` are two actions because mongoose gives the
document its `_id` before the insert is sent. `Recheck` is the query after the
insert, `UndoCreate` a `deleteOne().catch(() => {})`, which may leave the row.
`ConfirmPaid`, `ReleaseUnpaid` are single conditional updates. `FindExpired` and
`DeleteExpired` are the two halves of the sweep. `ReadForCancel` / `SaveCancel`
and `CheckMove` / `SaveMove` are the read and the save of cancels and
reschedules. `unchecked` and `past` are observers: the rows that took a slot
without a re-check (a reschedule, or a late payment of a cancelled hold), and the
slots whose start has gone by.

Inserts land in any order: the driver has up to 20 connections
(`src/src/config/db.ts` 20), and two server instances share no order at all. An older
document may therefore arrive after a younger one has passed its re-check. `behind`
holds the bookings to which that happened. With it `OnlyOvertakenDoubles` says
exactly what the re-check is worth, and the run `double_booking` shows the rest.

`HeldSlot` is the refinement mapping: a booking holds its slot from the moment
its re-check passes while its row is active, overtaken ones apart. A booking is firm
(`FirmBookings`) when its customer has been answered, nothing is left to pay and no
sweep has found it. `ImplementsCalendar` says that each step claims one free slot,
drops one, makes a booking firm, or stutters, and that no firm one is deleted. What
the code lets through besides is in section 5.

### HoldPayment

`step[o]` follows `createReservation` from its insert on: debit of the credit,
its ledger row, the transaction, the answer of the gateway. The gateway is
external: a session is open, then captured or declined, and it is trusted in one
thing: the verify call reports success only of a captured session. The callback is
trusted in nothing. `ReadTx` takes any transaction that has a track id, at any time,
with either value of `success`; `success=0` is believed without asking, and `Verify`
may also answer something other than success of a captured session (any result but
100 and 201, an amount that differs), or not get through. All of these but the last
save `failed` and release the hold. A link that cannot be saved onto the hold
(`RCS` 416-417) is a `StartFails` whose transaction is pending. Bookings
wholly paid by credit never become holds and are outside this module; what the
callback of a plan purchase does with the profile is in `PlanPeriod`.

`SaveFailed` has no condition, as in the code, and may overwrite a claim; `Claim` is
the conditional update that decides between two callbacks. A verified callback that
loses it shows success whatever it lost to. `PagesAreTrue` says what pages are worth
then, and `OnlySweepsRemovePaid` that such a `failed` takes no booking that was paid. `SweepFind`, `SweepDelete`, `SweepRefund` are
the three awaits of `releaseExpiredHolds`. `GrowOld` is the time to live
passing; a call does not run for minutes, so only ended calls' holds grow old.

### Finance and BookingLedger

A ledger is the sum of the entries per type: `computeFinance` looks at nothing
else. `Cancel` is `applyCancellationFinance` and its save (customer, stylist and,
written out again, admin): entries computed from the ledger the call had read,
pushed onto the one on record. `Move` is the save of `rescheduleReservation`,
refused when the version has moved. `Leave` is the `updateMany` of `leaveSalon`.
Policies are resolved anew by each call, so their percents and free counts are
inputs and need not agree between two calls. The reschedule history is kept as
the number of the customer's entries and the sum of their penalties. `started`
is the slot's start or, for `Complete`, its end: between the two only the admin
may act, and that order is included. Deleting unpaid holds belongs to the other
two modules.

### Settlement

`Choose`, `CheckExcluded`, `Create` are the awaits of a request for chosen
reservations; `ReadDeposits`, `CheckBalance`, `ReadSettled`, `Select`, `Create`
those of a request for an amount. `Selections` is what the greedy loop can end
with whatever order the query returns: the claims that fit and leave nothing out
that would still fit. `ReadSettlement` and `Decide` are the two halves of
`adminUpdateSettlement`; the save writes the status only when it differs from the
one that was read. Of a reservation only what a payout depends on is kept: status,
payment, and the sums of refund and cancellation penalty (the only entries that
`hasCancellationFinance` and `cancelledStylistPayout` look at); a hold that is
never paid is never settled, so its removal is left out. `GrossBalance` has no
penalties: the pipeline at `settlement/settlement.service.ts:115-124` projects
`isPenalty` alone and then sums an amount that is gone, which gives 0 always.
`getSettlableReservations` reads what is excluded and the rows in one state, and
the lines of a page leave out the penalties of reschedules, which no payout
depends on. `Available` is the balance as computed, without what was paid out; the
run `settled_balance` shows what that means.

`late` and `overruled` are observers. A booking is late when a cancel was saved
over it after it was closed, or a late payment opened it again (the races that
`BookingLedger` studies); a settlement is overruled when a decision that was read
before it became final overwrote it. `known` records what a request could see, so that
the properties speak of exactly what the code's checks can
promise without a transaction.

### CreditLedger

`Apply` is the update of a wallet, `RecordChange` its row; what lies between is in
`writing`, and `LoseChange` moves it to `lost`. `ApplyGuarded` is the conditional
update of spends and purchases, which alone tests the balance. The completion pass
(`FindDue`, `CompleteDue`, `AwardCompleted` for each row found, `NotifyCompleted`)
runs in several instances. `CheckPenalty` counts consecutive cancels against the
threshold of the settings. A referral is claimed in `ReadReferee`,
`CreateReferral`, `SetReferredBy`, `RewardReferrer`, with a crash between any two.
An award may always be dropped, because the cached settings may switch it off.

### PlanPeriod

A month is `Period` days. `StartActivatePlan`, `StartSetStylistPlan` and
`StartSetSmsCampaign` read the profile, `SavePlan` writes the fields that differ;
the downgrade is one `updateMany`, a reminder is claimed by a conditional update
(`ClaimMilestone`) and sent later. `period` counts renewals, and `paidUntil` is the end
of the plan that was bought; both serve the properties alone. `paidUntil` is 0 after
an admin's decision, and after a purchase that was saved over a tier which had changed
since it was read, because that save leaves the tier out.

### DiscountCodes

An order goes `ResolveDiscountForBooking` (limit, window, hours and services are
tested), `InsertBooking`, `ConsumeDiscount` (a conditional increment),
`FinishBooking`; a use stays counted when what follows fails. Limit, cap and value
may be edited and the code deleted meanwhile; `topLimit` remembers the highest limit
a code ever had. A campaign tests the month's count once and then takes one number
after the other: skip those that had a message of this code within a day, send, and write
the row (`SkipNext`, `SendNext`, `LogSend`). Between the last two it may stop
(`LoseRow`): the message is out and no row says so.

### Stories

`FindExpired`, `PurgePictures` and `PurgeRows` are the awaits of the purge; author
and admin delete picture and row in two steps of their own. `Delete` is
`storageProvider.delete`, which swallows its errors: any of the pictures may stay, the
row goes all the same, and nothing will ask again (`refused`). `MaxStops` bounds how
often the process stops in a purge.

### SalonMembership, Discovery and WorkingHours

`link` is the membership of a pair, who asked for it, and whether it is pending,
active, rejected or gone; `handler` holds a call that has read an invite or a link.
`welcome` is the observer of consent: pairs that the salon's owner has invited,
approved or created.

A page of `Discovery` is a record of what its queries have returned so far. The
search asks for stylists, links, active salons, blocked owners and restricted
stylists, one after the other; the list of salons for at most `PageLimit` of them and
then for their owners; the page of a salon for its owner, members, profiles and then
the bulk computation. Between any two the rows move (`Watch`). `more` says that the
list was cut off by its limit.

In `WorkingHours` one stylist (`Worker`) has a few hour documents on one weekday
in whole units. `ClearHours` and `InsertHours` are the two halves of a replacement,
`UpdateWorkingHour` and `SavePatch` of a patch; `FindAffected` and `SyncFlag` are
the reconciliation that follows each change, `Clip` the intersection with the
opening hours. `GetAvailability`, `DayIsAvailable` and `FoundBySearch` compute free
time as the three handlers do. A booking has three steps, `FindWorkplaces`, `FindHost`
and `InsertBooking`: hours and memberships may change between them, and a row that is
inserted after its hours changed is in `slipped`. `MayBook` is what
`createReservation` tests: the working hours, without the opening hours.

### Redirects, Sessions, IdentityReview, Onboarding, Wallet

`target` is the collection (unique by path), `Trail` the walk along it up to
`MaxChain`, `GetRedirectMap` what the site is served. A rename (`Rename`) is
followed by `DropStaleRedirect`, `FlattenRedirects` and `PointRedirect`, one round
trip each.

A session is named by its first token (`login`). `Refresh`, `RevokeRotated` and
`IssueTokens` are the awaits of an exchange. `doubled` holds sessions of which two
exchanges of one token overlapped, `closed` those whose client logged out.

`desk` is a call of a user or an admin that has read a row, `stored` the private
images; the reviews of the foreign id, the card and the name share it. In
`Onboarding` replacing `roles` tests the version and a push does not. In `Wallet` a
transaction that read before another write of the row is marked as in conflict and
run again or given up.

### Community, Social, Reviews, Conversations, Support, Policies, Offering

The likes of `Community` are rows, created or deleted first and counted by `$inc`
after. A heart or comment of `Social` saves the number it computed from the post it
had read, a deletion lowers the number by `$inc`, and a save is refused when a
number is negative (`jammed`). Deleting a post asks the store for its pictures and then
takes comments, hearts, bookmarks and the post at once, in any order, of which any may
fail or be cut off (`DeletePart`, `leaving`). A moderation of `Reviews` saves, aggregates and
stores in three steps. `conv` holds the last message, both unread numbers and
whether a reply is on record; the first message and the first reply are claimed by
conditional updates (`UpdateFirst`); the SMS is looked up and sent later (`SendSms`), or
never (`LoseSms`: no phone, an error that is swallowed, a crash). A ticket reply pushes
its message and writes the status only if it differs from the one read; `meanwhile` is
what others made of the ticket since. `Policies` reduces a list of rules
to a percent per threshold (`Normalize`), because that is all the code looks at;
`Resolve` gives the policy of a cancel, `BookingPolicy` the boxes of the booking
page, `PolicyOverview` the settings. A stylist may be a member of several salons, each
query may find another of them first, salons may be inactive, and of these three only
the overview asks whether they are. `Offering` has the tests and the writes of
catalogue, offers and pictures, with array replacement under the version: a service of
one's own is two inserts, a deletion is keys, rows and service, an arrangement is a
read and a save, and the store may refuse to delete.

## 3. Runs

| Run | Instance | Shows |
|---|---|---|
| `booking_race` | 2 calls, 2 disjoint slots, 1 cancel or reschedule in flight, inserts in any order | doubles only of overtaken bookings, refinement of `Calendar`, liveness of holds; no symmetry, because of liveness |
| `money` | scenes `hold` (a deposit with credit, a top-up, 2 callbacks, 2 sweepers), `ledger` (3 calls, 3 limits, percents 0, 50, 100), `claims` and `decisions` (2 bookings paid online, 2 requests of either kind, 2 admins) | payment applied once and only if captured, true pages, credit kept, paid rows kept; invoice and outcome of a cancel; claims apart, pages that add up |
| `promotions` | 2 users, 1 crash, a month of 4 days, 2 plan savers, 2 reminders; a code of limit 1 with 2 orders; 2 campaigns of 2 codes over 2 numbers, 1 lost row; 2 stories | wallets and rows, one award, one reminder, a bought plan, limits, caps, ends of stories |
| `salons` | 3 users of which 2 stylists, 2 salons, 2 handlers, pages of 1 salon; 2 hour documents, 2 editors, a day of 4 units, 1 booking | consent, pages, hours apart, flags, availability |
| `accounts` | 4 paths, 2 pages, 2 requests; 1 account, 3 tokens, 2 clients; 2 foreign ids, 3 images, 2 desks; 3 wallet changes of 1 or 2 | redirects, sessions, reviews of identity, roles, the wallet |
| `content` | 2 members, 3 visits; 2 remarks, 2 taps; 3 messages, pages of 1; 3 posts in a ticket; 3 bookings with reviews; 2 services, 2 salons, 3 policies; 3 pictures | numbers, unread messages, turns, ratings, terms, pictures |
| `double_booking`, `booking_reschedule`, `double_refund`, `cancel_preview`, `settled_balance`, `book_out_of_hours` | the smallest instance that can show it | disagreements of code and comments, section 5 |

*Scenes.* `MCMoney`, `MCPromotions`, `MCSalons`, `MCAccounts` and `MCContent` instantiate
several components that share no state, or that share state which one scene leaves
alone. The product of independent components shows nothing that the components do
not, so a behaviour chooses a scene at its start and plays that. A scene may also
narrow what is played: `edits` moves one page only; `claims` has one decision at a time
and both bookings, `decisions` two decisions and one booking; `purchases` lets plan
savers race, `reminders` the reminders; `campaigns` has two codes whose terms do not
matter; in `stories` viewers have to do with the first story. `pages` puts one page
together, while the rows change at most twice; `hours`, `bookings` and `leaving` split
`WorkingHours` into two racing editors, one editor with a booking, and departures.
`settings`, `seats` and `terms` split `Policies` into the editing of a list, memberships
of two salons that open and close, and a booking with its terms, of which one policy is
set anew. `leaving` in `content` is a deletion of a post beside one call at a time.
Scenes whose property stops claiming anything once calls have overlapped (`likes`,
`hearts`, `chat`, `ratings`, `offer`, `usernames`, `campaigns`) stop there too; `chat`
also sends its SMS at once. `sendings`, `ticket` and `inbox`, on the other hand, let all
overlap.

*Bounds.* `MaxPending` caps the cancels and reschedules in flight in
`SlotBooking`; creation calls are not capped. Two calls are enough for each race
of a pair. Two callbacks and two sweepers are enough for each race of equals: a
third would meet the same conditional updates. In the scenes of the settlements the price is one
whose deposit, fee and refund are different amounts, and the amount asked for is
one deposit; each property relates two requests. Three ledger calls let two
reschedules meet a cancel, or a cancel and a departure meet a reschedule; one price is enough, because amounts
enter linearly and `FinanceProofs` covers all prices. `MaxCrashes`, `MaxStops`,
`MaxLost`, `MaxRows`, `MaxLoose`, `MaxDay`, `MaxPeriods`, `MaxMessages`, `MaxPosts`, `MaxChain`
and `MaxPictures` cap what would be unbounded; `MaxChain` is the
code's MAX_CHAIN, made small so that a walk reaches it, and `MaxDay` leaves a
period and a half, so that a plan ends, is renewed and
reminded again. Three tokens let a session be exchanged twice; three visits let two
rivals meet while a third counts. Deadlock is not checked: when every call has
ended the system may stop.

*Fairness.* `FairSpec` of `SlotBooking` asks that a call which has begun goes on
(its promises settle), and that the sweep runs again and again (`setInterval` on a
living instance, errors caught so that the next tick runs). `StoryFairness` asks the
same of the three steps of the story purge, which a crash may cut only `MaxStops`
times. Nothing is assumed of
customers, payments, cancels, purchases or new calls, and a call may still crash
at any step. `HoldsDoNotBlockForever` holds although a hold may have been
cancelled or its call may have crashed, because the sweep looks at paymentStatus
and not at status; `ExpiredStoriesGo` although a picture may be gone before its row, and
but for the pictures that the store refused to delete.

Each property has a mutant: a variant of one definition with a plausible slip (the
re-check that only looks at confirmed rows, the claim without its condition, a
history saved whatever the version, a commit outside the transaction, a row
counted twice), kept in the module before the definition it varies, under which
TLC finds the property violated.

## 4. Theorems

All are proved for every value of the constants. Every safety property of a passing
run, invariant or action property, is stated by a theorem; of the properties of the passing runs only the two about liveness and
`PagesShowWhatWasThere` are not.

The proofs have one form. An invariant that is inductive is found, `Init` implies
it, every action keeps it (one lemma per action, or per group of actions that do the
same), it implies the property, and the temporal step combines the three. What the
invariant adds to the property is always of the same kind: what the calls under way
have read and will still do. TLC was asked first wherever an invariant was in doubt.

*Reservations and money*

* `SlotBookingProofs`: `TypeOK`, `BookingInv`, `OnlyOvertakenDoubles`,
  `LosersHadAnOlderRival`, and that the flow implements `Calendar`, for inserts in
  every order and every overlap relation that is reflexive and symmetric.
  `OnlyOvertakenDoubles` is not inductive: a call that is between insert and re-check is
  seen by others by its row alone. The invariant adds that ids are distinct, that a row
  stands where its call asked until it is moved, and that a booking past its re-check
  meets an older overlapping row only if that one came behind (`NoOlderOverlap`). Of two
  holders one is the older, which closes the argument.
* `SalonsAndHoldsProofs`, holds: `PaymentInv` and with it exactly-once, true pages,
  kept credit, and that only a sweep removes a paid booking (`OnlySweepsRemovePaid`), for
  callbacks that say anything at any time. The invariant ties transaction, session and
  call together (`SessionFollowsCall`), lets a callback know success only of a captured
  session and at most one of them hold the claim (`CallbacksAgree`), and lets
  credit come back only for an order that can no longer be paid
  (`RefundsFollowLoss`).
* `FinanceProofs`: the deposit lies in its limits for every price, the charge
  splits exactly, refund and penalty share out the deposit up to one Toman, a
  ledger comes to a refund or to a debt. And the sums over finite sets
  (`SumFunctionOnSet` of the community modules), which the library has no theorems
  about: that they are numbers, that one element can be taken out, that they depend
  on the summed values alone. A sum is a fold, defined by recursion, so its equation
  is a fixpoint; that equation and every fact after it are proved by the smallest
  set that violates them (`SmallestOf`, from well-foundedness of inclusion among
  finite sets), since an induction theorem cannot be instantiated.
* `BookingLedgerProofs`: `LedgerInv`, `InvoiceAgrees`, `OutcomeStandsUnlessBlurred`,
  `CancelledIsFinal`, and `HistoryMatchesLedger`, `MovesWithinLimit`,
  `CancelMoneyMeansCancelled`. Its core is `SeenMatchesVersion` (what a reschedule
  read is on record while the version stands) and `CancelShutsMovesOut` (a cancel
  leaves no reschedule with the current version), which rest on a push raising the
  version.
* `SettlementProofs`: `SettlementInv`, `AmountIsWhatIsOwed`, `KnownClaimsStayApart`,
  `PagesShowWhatIsOwed`. Amounts are kept by congruence: what a claim is worth is a
  function of its bookings, and these keep their worth once closed (`TotalKept`). Claims
  stay apart because a request knows only settlements that exist, whose claims are
  fixed (`RequestsKeepAway`), and because only a stale decision revives a rejected one.
* `AccountsProofs`, wallet: `WalletNeverDrifts`. The invariant says of each change
  under way which balance it has read and that a conflict keeps a stale one from
  committing; a commit then adds one row and its amount to both sides.
* `PromotionsProofs`: `LedgerExplainsBalance` (a wallet is what its listed rows, the rows
  in flight and the lost ones sum to; a step moves one change from one of the three
  places to the next, `LedgerInv`), the action property `NotifiedIsNotAwardedAgain`,
  `RemindedOncePerPeriod` (the milestone that a job has claimed is in the profile's
  list until the period ends), `PurchasedPlanLasts` (what a purchase is about to save is a
  paid tier, and a save that leaves the tier out had read the one on record, or nothing
  is claimed of it), `AnsweredWithinLimit` and `CampaignsApartKeepTheirBounds` (what
  resolves exists, holders of a discount are among its counted uses; while campaigns do
  not overlap every message has a row, is about to get one, or is counted as lost,
  `Accounted`, and one campaign and the log fit the month's cap together, `OneCampaign`).

*Salons and accounts*

* `SalonsAndHoldsProofs`, memberships: `OwnerAgreedOnce`. Consent is
  not visible in the state of one document: the invariant says which calls under way
  carry it. An invite has an addressee (`Addressed`), and a link begun by the owner,
  or one that a handler is about to activate, was welcome (`OwnerAsked`); then
  stale saves, deletions and re-creations leave `OwnerAgreedOnce` intact.
* `SalonsAndHoldsProofs`, pages: `PagesMissNobody`. Whoever is open throughout satisfies
  each query when it is asked, and what a query has returned stays in the page: so at
  each await everybody in `always` is among what was found so far (`PageInv`).
  `PagesShowWhatWasThere` needs to know when the one change came, and stays with TLC.
* `SalonsAndHoldsProofs`, hours: `HoursApartNeverOverlap`, `FlagFollowsHours`,
  `AvailabilityAgrees`. Hours are apart because a writer that is alone writes what it
  tested against what is there. The flag follows because, once a booking lies outside the
  hours, either the flag is set or the writer under way has yet to compute it or is about
  to set it (`Noticed`), bookings of salons that wait to be reconciled, and those inserted after
  their hours had changed, apart; a removal of a salon goes through the memberships
  (`HoursKeepMembership`: a behaviour of hours is one of memberships, so the theorems
  above hold of it too). The three computations of free time agree by their
  definitions, for any horizon, grid and duration.
* `AccountsProofs`: `OldAddressesLeadHome` (a rename has four awaits; while no other
  edit comes between, `Moving` says at each what leads home already and what still leads
  to the address being given up), `RolesKeepTheirBacking`,
  `ApprovedIdWasReviewed` and `TickMatchesDecision` (what a call that is alone for its
  person has read is on record, and images belong to one document), and
  `OneTokenPerSession` (a session is named by its first token, a call issues only
  after it has revoked, and of one session either one token lives or one exchange is
  about to issue, `OneWay`).

*Content* (`ContentProofs`)

* `FirstContactAnnouncedOnce`, for all interleavings and wherever a call stops: who holds
  the claim of an announcement is the only one that ever does, and the SMS it makes due
  is sent once or lost once (`OneSms`). `NothingUnreadIsMissed`: while sendings
  and readings take turns, a side whose unread number is 0, or that is about to reset it,
  has been shown what the other wrote as far as a page reaches back (`Seen`), unless a
  message of the other has yet to raise the number (`InStep`).
* `TurnFollowsMessages`, for all interleavings: each reply under way knows what others gave
  the ticket since it read it, and the status on record is the one that the last writer
  wanted or one of those (`Followed`); the welcomes are at most as many as the calls
  that found none (`WelcomesBounded`). `RatingCountsWhatIsShown`: one moderation at a
  time has read what is on record.
* `TermsShownAreTermsApplied`: resolving depends on the policies alone; a list of
  several services resolves to one of theirs, and to the common one where they agree;
  what was accepted of a service is what applies as long as no policy that decides it is
  set (`AcceptedApply`), and a copy of the list that is not old is the list
  (`CopiesFresh`).
* `CountersFollowRows`, `NumbersTellTheTruth`: a counter is the number of members whom
  the rows, without the calls that have written a row and not yet the counter, and
  with those that have deleted one and not yet the counter, give (`Tallied`); one call
  changes one member's part (`CountsSplit`), for any number of other calls. For posts
  the calls that have yet to save and those that have yet to lower are added on either
  side, with the comments deleted twice (`RemarksAgree`), which alone make a number
  negative (`Blamed`); while a deletion of the post is under way or was cut short the
  equations are inequalities, since rows go and the numbers stay.
* `NothingShownIsMissing`: the calls under way are about different services
  (`OneEach`) and each knows what it has read (`Knows`); every key of a picture is in
  one place: one position of one row, or with one call (`OnePlaceEach`); the store
  holds the keys that are shown, that a call answers for, or that it refused to delete
  (`StoreIsKept`). The proof
  found that the model had left out a list that names a picture twice, which the code
  accepts, and after which the property fails (section 5); the model now sends such
  lists, and the property stops claiming anything there.

Some results (`TypeOK` of the core modules, `LosersHadAnOlderRival`,
`OnlySweepsRemovePaid`, `AmountIsWhatIsOwed`, `HistoryMatchesLedger`,
`MovesWithinLimit`, `CancelMoneyMeansCancelled`, and the inductive invariants) are
not in a run: the theorem says more than the instance would.

Assumptions: the named ASSUMEs of the modules. They say that overlap is reflexive and
symmetric, that prices and amounts are natural numbers and percents lie in 0..100,
that a "none" is none of the values it stands beside, that bounds are natural numbers,
and that what is counted or summed is finite (bookings, requests, changes of a wallet
or of credit, orders and numbers, members and things, comments and taps, bookings with
reviews, stylists, edits of names): a database holds finitely many documents.

Only model-checked: liveness (`HoldsDoNotBlockForever`, `ExpiredStoriesGo`) and with it
ENABLED, which are outside the prover's reach, hence all of `Stories`;
`PagesShowWhatWasThere`; and the violations, which are about one behaviour each.

## 5. Where code and comments disagree

The findings of `PROJECT.json`, each with its run:

1. `double_booking` - the re-check is said to leave exactly one booking "deterministically"
   (`RCS` 348-350); ids are made before the inserts are sent, and if these land in the
   other order both bookings stay.
2. `booking_reschedule` - rescheduling is said to use the same mechanism as
   booking; it has no re-check.
3. `double_refund` - the return of credit is called idempotent; it is not.
4. `cancel_preview` - a cancel records less than its preview shows, because what
   is withheld is subtracted a second time as a penalty.
5. `settled_balance` - the balance is said to be of deposits "not yet settled"; what was
   paid out comes back into it (`settlement/settlement.service.ts` 98-100, 130).
6. `book_out_of_hours` - the clipping to the opening hours is said to decide what
   can be booked; it decides only what is offered.

Met on the way, without a run. The observers of section 2 are where most of these
are cut off.

Reservations and payment:

* A callback saves `failed` on the word of a query parameter, without a condition
  (`payment/payment.service.ts` 286-311): the transaction of a paid booking may then say
  that it failed. One that verified and lost the claim shows success, "already settled"
  (330-343), also when it lost to a `failed` and the hold is gone although the money
  was taken.

* The sweep "deletes awaiting holds" (`RCS` 531); it deletes by `_id` what was
  awaiting when it looked (535-544).
* Two cancels at once push two refunds (`RCS` 693-707); the cancel uses the policy
  of now and not the accepted snapshot (`src/src/models/Reservation.ts` 181-182).
* Two instances, or a pass that was cut off, award a completion twice; a
  reservation cancelled between find and update is awarded
  (`reservation/reservation.service.ts` 24-26).
* `debtBalance` is announced (`RCS` 118, 629-632, `src/src/models/User.ts` 82-86)
  and never raised. A free service is charged the minimum deposit and the fee,
  although `src/src/models/Reservation.ts` 158-160 speaks of no charge.
* A process that stops between claim and outcome leaves a payment that nothing
  applies; a plan purchase loses its plan in the same way.

Money of stylists, credit, plans, codes:

* A request for an amount takes reservations of pending settlements
  (`settlement/settlement.service.ts` 331, 459); a stale decision overrules a final
  one. The penalties of the balance add up to 0 always (115-124). Two requests for an
  amount may pass the same balance.
* `finance/finance.service.ts` 112 describes `netStylistShare` as a difference; the
  code returns the deposit. The wallet needs transactions while `RCS` 345 says the
  database has none; a top-up is said to record a pending row
  (`wallet/wallet.service.ts` 8-9), and none is made.
* A referral whose reward is lost in a crash is never rewarded again
  (`referral/referral.service.ts` 114, unique index).
* A campaign that stops between a message and its row sends it again and counts it not
  (`campaign/campaign.service.ts` 322-323); two at once exceed the month's cap.
* An edit of a code's type alone is validated without its value
  (`discount/discount.validators.ts` 38-40, 65-76), so a percentage may exceed 100.
* A paid tier without an end can arise; a purchase whose profile was downgraded between
  read and save of the same tier loses its tier (`plan/plan.service.ts`); a plan bought with credit leaves the
  campaign switch off (`src/src/models/StylistProfile.ts` 109-111); a reminder
  claimed before a renewal uses up the milestone of the new period. Policies of a
  higher plan stay in force after the downgrade (`policy/policy.service.ts` 118-120).

Salons and hours:

* An owner can approve his own invitation in the stylist's name
  (`salon/salon.service.ts` 496, 531-545, `src/src/models/StylistSalon.ts` 9-10).
  `cancelInvite` may remove a salon that was claimed meanwhile
  (`invite/invite.service.ts` 318-321, 333).
* `leaveSalon` leaves pending reservations; hours of a removed salon stay, are
  treated as freelance by `getAvailability` and not by `getAvailableDays`. The
  comment at `stylist/public.service.ts` 244 differs from bookability on
  `not_accepting`. The policy overview shows active salons only, while resolving
  takes any (`policy/policy.service.ts` 184, 261). A page mixed from queries between
  which two things changed may show what was never so. A booking inserted after its
  hours were changed is flagged by nobody.

Accounts:

* Two exchanges of one token both succeed (`auth/auth.service.ts` 138-150).
  `User.isActive` "cannot authenticate" (`src/src/models/User.ts` 38), but login and
  refresh still issue tokens.
* Edits of a redirect may close a loop (`redirect/redirect.service.ts` 70-72, 81).
* An approval racing a change of id approves an id nobody saw; a verification and
  a rejection at once leave the tick with status rejected; a person may wait in no
  list; the bytes of a replaced card are never deleted; `PATCH /me/personal`
  changes a verified name (`onboarding/onboarding.service.ts` 534-537).
* `setRoles` racing the answer to an invite loses the owner role;
  `saveStylistMedia` skips the remaining steps and activates a draft.

Content:

* Concurrent hearts lose updates; a comment deleted after an admin removed it is
  counted down twice, and a negative number makes later saves fail; a double tap
  in the community counts twice though commented "treat as already liked".
* A backlog longer than a page is reset to read; a reset racing a send loses the
  unread message; a stylist's racing message may suppress the announcement. "Exactly one
  SMS" (`chat/chat.service.ts` 323-325) is at most one: without a phone, after an
  error (372) or a crash there is none, and no later message makes one.
* A deletion of a post that stops half way leaves a post without its hearts, comments
  or pictures and with its old numbers (`social/social.service.ts` 421-426).
* A message racing a close or a choice of an admin reopens the ticket, or stays in a closed
  one or under the status chosen; the welcome message is "exactly once"
  (`message/message.service.ts` 72-76) by exists-then-create, which uploads at once pass
  together. Two moderations at once may store an old rating.
* Pictures whose deletion the store refuses stay for ever, since their row goes
  (`social/story.service.ts` 202, 212, `stylist/stylist.service.ts` 861, 952,
  `src/src/utils/storage.ts` 188-192, 262-269).
* `markSeen` after a deletion leaves a view; `deleteCover` may remove the reference
  to a new cover; a replaced portfolio picture racing a reorder leaves a reference
  to a deleted one; "only keys already attached" (`stylist/stylist.service.ts` 956-959)
  does not keep a list from naming one twice (`stylist/stylist.validators.ts` 115-120),
  and replacing one of the two places deletes the picture that the other shows; deleting a category or service races its use; `unpromoteStylist`
  leaves the promotion active.

## 6. Not modelled

* Validation, serialisation, notifications, queries that only read and on which
  nothing depends (transactions, reports, statistics, exports, distances, ranking).
* The blog: one writer, one document. Media, geo, banks, features: uploads as such,
  static data, switches. SMS: fire-and-forget I/O outside every guard.
* Admin listings, banners and the audit log; one-time codes and Google sign-in
  beyond the login they end in.
* The gateway's own behaviour beyond capture, decline and silence.
* Wall-clock time: starts and ages go by as steps; hours are one weekday in whole
  units.

## 7. Plan

Done: the modules of section 2, the runs of section 3, the theorems of section 4.
What would add most next:

1. An abstract specification of a credit wallet (one balance, one list) that
   `CreditLedger` without crashes and `Wallet` both implement, with the step
   refinements proved from `LedgerInv` and `WalletInv`.
2. Action properties as theorems: a settled decision that was not read before stays,
   a consumed use of a code is never given back, a revoked token never lives again.
3. The composition of `SlotBooking` with `HoldPayment`, so that slot and money of a
   hold are one state, and of `SalonMembership` with `BookingLedger` for departures.
4. Safety parts of `Stories` that its liveness rests on (a row whose day is over is
   served to nobody), checked and proved.
