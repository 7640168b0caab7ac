---------------------------- MODULE CreditLedger ----------------------------
(***************************************************************************)
(* Shuneh credit: the wallet of each user, its ledger rows, and all that   *)
(* changes them: spends on a booking, plan purchases, completion awards,   *)
(* five-star reviews, referral rewards, cancellation penalties, adjustments*)
(* by an admin and the return of a released hold's credit.                 *)
(*                                                                         *)
(* The wallet is updated first and the row is written by a second call, so *)
(* a change in between is "in flight": it is in the balance and in no row. *)
(* getCreditSettings is a cache that may switch every award off; an award  *)
(* that is off, or whose call fails, is dropped.                           *)
(***************************************************************************)
EXTENDS Integers, FiniteSets, Sequences, Functions

CONSTANTS
    Users,         \* the owners of wallets
    Stylist,       \* the user whose reservations are completed and cancelled
    Bookings,      \* the stylist's reservations, numbered in the order of startAt
    Referees,      \* users who come with a referral code
    Claims,        \* calls of claimReferral
    Passes,        \* runs of completeDueReservations
    Writers,       \* changes that may be between wallet and row at one time
    MaxRows,       \* bound on the rows of one reference
    MaxLoose,      \* bound on the rows without a reference
    MaxCrashes,    \* bound on the changes that lose their row
    CompletionCredit, ReviewCredit, RewardAmount, CancelPenalty, Threshold,
    SpendAmount, PlanCreditPrice,
    Nobody

ASSUME CreditAssumption ==
    /\ Stylist \in Users
    /\ Nobody \notin Users \cup Referees
    /\ Bookings \subseteq Nat
    /\ \A a \in {CompletionCredit, ReviewCredit, RewardAmount, CancelPenalty,
                 SpendAmount, PlanCreditPrice} : a \in Nat \ {0}
    /\ Threshold \in 1..10       \* the ten last reservations are looked at

VARIABLES
    balance,       \* CreditWallet.balance
    totalEarned,   \* CreditWallet.totalEarned
    totalSpent,    \* CreditWallet.totalSpent
    entries,       \* the CreditTransactions of each reference, oldest first
    writing,       \* the change each writer has in flight
    lost,          \* the changes whose row was never written
    resv,          \* the state of each reservation
    withCredit,    \* reservations with shunehCreditUsed > 0
    awaiting,      \* reservations whose payment has not arrived
    over,          \* reservations whose end has passed
    notified,      \* reservations with completionNotifiedAt
    passStep,      \* how far each completion pass is
    due,           \* the reservations a pass found
    toAward,       \* those it has yet to award
    penalising,    \* reservations whose cancel still owes its penalty check
    reviewed,      \* reservations with a review
    referral,      \* the Referral of each referee: the referrer
    referredBy,    \* User.referredBy of each referee
    claim          \* what each claimReferral call is at

walletVars == <<balance, totalEarned, totalSpent, entries, writing, lost>>
bookingVars == <<resv, withCredit, awaiting, over, notified, penalising, reviewed>>
passVars == <<passStep, due, toAward>>
referralVars == <<referral, referredBy, claim>>
creditVars == <<walletVars, bookingVars, passVars, referralVars>>

References == Bookings \cup Referees \cup {Nobody}
Reasons == {"completed_reservation", "five_star_review", "plan_purchase", "referral",
            "reservation_credit_use", "consecutive_cancellation_penalty",
            "admin_adjustment", "refund_rollback"}
Changes == [user : Users, amount : Int, reason : Reasons, ref : References]
Idle == [user |-> Nobody]
NoClaim == [step |-> "idle", referee |-> Nobody, referrer |-> Nobody]
ClaimStates == [step : {"idle", "read", "created", "reward"}, referee : Referees \cup {Nobody},
                referrer : Users \cup {Nobody}]
Ended == {"completed", "cancelled", "cancelled_by_stylist"}
ResvStates == Ended \cup {"none", "confirmed", "gone"}

CreditTypeOK ==
    /\ balance \in [Users -> Int]
    /\ totalEarned \in [Users -> Nat]
    /\ totalSpent \in [Users -> Nat]
    /\ entries \in [References -> Seq(Changes)]
    /\ writing \in [Writers -> Changes \cup {Idle}]
    /\ lost \in Seq(Changes)
    /\ resv \in [Bookings -> ResvStates]
    /\ withCredit \subseteq Bookings
    /\ awaiting \subseteq Bookings
    /\ over \subseteq Bookings
    /\ notified \subseteq Bookings
    /\ penalising \subseteq Bookings
    /\ reviewed \subseteq Bookings
    /\ passStep \in [Passes -> {"idle", "found", "updated"}]
    /\ due \in [Passes -> SUBSET Bookings]
    /\ toAward \in [Passes -> SUBSET Bookings]
    /\ referral \in [Referees -> Users \cup {Nobody}]
    /\ referredBy \in [Referees -> Users \cup {Nobody}]
    /\ claim \in [Claims -> ClaimStates]

CreditInit ==
    /\ balance = [u \in Users |-> 0]
    /\ totalEarned = [u \in Users |-> 0]
    /\ totalSpent = [u \in Users |-> 0]
    /\ entries = [f \in References |-> <<>>]
    /\ writing = [w \in Writers |-> Idle]
    /\ lost = <<>>
    /\ resv \in [Bookings -> {"none", "gone"}]
    /\ withCredit = {} /\ awaiting = {} /\ over = {} /\ notified = {} /\ penalising = {} /\ reviewed = {}
    /\ passStep = [p \in Passes |-> "idle"]
    /\ due = [p \in Passes |-> {}]
    /\ toAward = [p \in Passes |-> {}]
    /\ referral = [e \in Referees |-> Nobody]
    /\ referredBy = [e \in Referees |-> Nobody]
    /\ claim = [k \in Claims |-> NoClaim]

-----------------------------------------------------------------------------
(* A change of a wallet: the update, then the row *)

Change(u, a, why, f) == [user |-> u, amount |-> a, reason |-> why, ref |-> f]

RoomFor(c) == Len(entries[c.ref]) < IF c.ref = Nobody THEN MaxLoose ELSE MaxRows

\* the $inc of applyCreditChange, of the balance and one of the two totals: a debit
\* tests nothing, "penalty deductions must work even at 0 balance"
Apply(c) ==
    /\ RoomFor(c)
    /\ \E w \in Writers :
        /\ writing[w] = Idle
        /\ writing' = [writing EXCEPT ![w] = c]
    /\ balance' = [balance EXCEPT ![c.user] = @ + c.amount]
    /\ IF c.amount > 0
       THEN totalEarned' = [totalEarned EXCEPT ![c.user] = @ + c.amount] /\ UNCHANGED totalSpent
       ELSE totalSpent' = [totalSpent EXCEPT ![c.user] = @ - c.amount] /\ UNCHANGED totalEarned
    /\ UNCHANGED <<entries, lost>>

\* the conditional update of a spend or a plan purchase
ApplyGuarded(c) == balance[c.user] >= -c.amount /\ Apply(c)

\* with a unique index on the reference
RecordFirstOfReference(w) ==
    /\ writing[w] # Idle
    /\ entries' = [entries EXCEPT ![writing[w].ref] = IF @ = <<>> THEN <<writing[w]>> ELSE @]
    /\ writing' = [writing EXCEPT ![w] = Idle]
    /\ UNCHANGED <<balance, totalEarned, totalSpent, lost, bookingVars, passVars, referralVars>>

RecordChange(w) ==
    /\ writing[w] # Idle
    /\ entries' = [entries EXCEPT ![writing[w].ref] = Append(@, writing[w])]
    /\ writing' = [writing EXCEPT ![w] = Idle]
    /\ UNCHANGED <<balance, totalEarned, totalSpent, lost, bookingVars, passVars, referralVars>>

\* the process stops, or the create fails: the balance keeps the change
LoseChange(w) ==
    /\ writing[w] # Idle
    /\ Len(lost) < MaxCrashes
    /\ lost' = Append(lost, writing[w])
    /\ writing' = [writing EXCEPT ![w] = Idle]
    /\ UNCHANGED <<balance, totalEarned, totalSpent, entries, bookingVars, passVars, referralVars>>

AdminAdjust(u, a) ==
    /\ Apply(Change(u, a, "admin_adjustment", Nobody))
    /\ UNCHANGED <<bookingVars, passVars, referralVars>>

\* purchasePlanByCredit; what it writes to the profile is PlanPeriod!BuyByCredit
PurchasePlan ==
    /\ ApplyGuarded(Change(Stylist, -PlanCreditPrice, "plan_purchase", Nobody))
    /\ UNCHANGED <<bookingVars, passVars, referralVars>>

-----------------------------------------------------------------------------
(* Reservations, as far as credit follows from them *)

\* createReservation with credit (a hold) or without; the hold is removed again
\* when the spend is refused, which leaves everything as it was
Book(b, u) ==
    /\ resv[b] = "none"
    /\ resv' = [resv EXCEPT ![b] = "confirmed"]
    /\ \/ /\ awaiting' = awaiting \cup {b}
          /\ withCredit' = withCredit \cup {b}
          /\ ApplyGuarded(Change(u, -SpendAmount, "reservation_credit_use", b))
       \/ awaiting' \in {awaiting, awaiting \cup {b}} /\ UNCHANGED <<walletVars, withCredit>>
    /\ UNCHANGED <<over, notified, penalising, reviewed, passVars, referralVars>>

PayHold(b) ==
    /\ b \in awaiting
    /\ b \in withCredit => entries[b] # <<>>
    /\ awaiting' = awaiting \ {b}
    /\ resv' = [resv EXCEPT ![b] = "confirmed"]
    /\ UNCHANGED <<walletVars, withCredit, over, notified, penalising, reviewed, passVars, referralVars>>

\* rollbackCredit takes the first row of the reservation, whatever it was for; the
\* row of a review refers to the review
RollbackCredit(b) ==
    LET mine == {i \in DOMAIN entries[b] : entries[b][i].reason \notin {"refund_rollback", "five_star_review"}}
    IN  \/ /\ b \in withCredit
           /\ \E i \in mine :
                 /\ \A j \in mine : i <= j
                 /\ Apply(Change(entries[b][i].user, -entries[b][i].amount, "refund_rollback", b))
        \/ UNCHANGED walletVars

\* a hold is released or swept once; two sweeps at once are HoldPayment's subject
ReleaseHold(b) ==
    /\ b \in awaiting
    /\ awaiting' = awaiting \ {b}
    /\ resv' = [resv EXCEPT ![b] = "gone"]
    /\ RollbackCredit(b)
    /\ UNCHANGED <<withCredit, over, notified, penalising, reviewed, passVars, referralVars>>

CancelBooking(b, by) ==
    /\ resv[b] = "confirmed"
    /\ b \notin over
    /\ resv' = [resv EXCEPT ![b] = IF by = Stylist THEN "cancelled_by_stylist" ELSE "cancelled"]
    /\ penalising' = IF by = Stylist THEN penalising \cup {b} ELSE penalising
    /\ UNCHANGED <<walletVars, withCredit, awaiting, over, notified, reviewed, passVars, referralVars>>

\* how many of the stylist's other reservations, from the latest start back, were
\* cancelled by the stylist without one that was not
ConsecutiveCancels(b) ==
    LET ended == {q \in Bookings \ {b} : resv[q] \in Ended}
        cancelledByStylist(q) == resv[q] = "cancelled_by_stylist"
    IN  Cardinality({q \in ended : \A p \in ended : p >= q => cancelledByStylist(p)})

\* applyCancellationPenalty, which runs after the answer was sent
CheckPenalty(b) ==
    /\ b \in penalising
    /\ penalising' = penalising \ {b}
    /\ \/ /\ ConsecutiveCancels(b) >= Threshold
          /\ Apply(Change(Stylist, -CancelPenalty, "consecutive_cancellation_penalty", b))
       \/ UNCHANGED walletVars
    /\ UNCHANGED <<resv, withCredit, awaiting, over, notified, reviewed, passVars, referralVars>>

EndPasses(b) ==
    /\ over' = over \cup {b}
    /\ b \notin over
    /\ resv[b] \notin {"none", "gone"}
    /\ UNCHANGED <<walletVars, resv, withCredit, awaiting, notified, penalising, reviewed, passVars, referralVars>>

CreateReview(b) ==
    /\ resv[b] = "completed"
    /\ b \notin reviewed
    /\ reviewed' = reviewed \cup {b}
    /\ \/ Apply(Change(Stylist, ReviewCredit, "five_star_review", b))
       \/ UNCHANGED walletVars
    /\ UNCHANGED <<resv, withCredit, awaiting, over, notified, penalising, passVars, referralVars>>

-----------------------------------------------------------------------------
(* completeDueReservations, by the scheduler of each instance and by an admin *)

IsDue(b) == resv[b] = "confirmed" /\ b \in over

FindDueNotified(p) ==
    /\ passStep[p] = "idle"
    /\ \E b \in Bookings : IsDue(b)
    /\ passStep' = [passStep EXCEPT ![p] = "found"]
    /\ due' = [due EXCEPT ![p] = {b \in Bookings : IsDue(b)}]
    /\ toAward' = [toAward EXCEPT ![p] = {b \in Bookings : IsDue(b)}]
    /\ UNCHANGED <<walletVars, bookingVars, referralVars>>

FindDue(p) ==
    /\ passStep[p] = "idle"
    /\ \E b \in Bookings : IsDue(b)
    /\ passStep' = [passStep EXCEPT ![p] = "found"]
    /\ due' = [due EXCEPT ![p] = {b \in Bookings : IsDue(b)}]
    /\ toAward' = [toAward EXCEPT ![p] = {b \in Bookings : IsDue(b)} \ notified]
    /\ UNCHANGED <<walletVars, bookingVars, referralVars>>

CompleteDue(p) ==
    /\ passStep[p] = "found"
    /\ passStep' = [passStep EXCEPT ![p] = "updated"]
    /\ resv' = [b \in Bookings |-> IF IsDue(b) THEN "completed" ELSE resv[b]]
    /\ UNCHANGED <<walletVars, withCredit, awaiting, over, notified, penalising, reviewed, due, toAward, referralVars>>

AwardCompleted(p, b) ==
    /\ passStep[p] = "updated"
    /\ b \in toAward[p]
    /\ toAward' = [toAward EXCEPT ![p] = @ \ {b}]
    /\ \/ Apply(Change(Stylist, CompletionCredit, "completed_reservation", b))
       \/ UNCHANGED walletVars
    /\ UNCHANGED <<bookingVars, passStep, due, referralVars>>

\* the invitations go out; only rows that are still there are marked
NotifyCompleted(p) ==
    /\ passStep[p] = "updated"
    /\ due[p] # {}
    /\ due' = [due EXCEPT ![p] = {}]
    /\ notified' = notified \cup {b \in due[p] : resv[b] # "gone"}
    /\ UNCHANGED <<walletVars, resv, withCredit, awaiting, over, penalising, reviewed, passStep, toAward, referralVars>>

\* the pass is over, or the process stops and drops what it still had to do
EndPass(p) ==
    /\ passStep[p] # "idle"
    /\ passStep' = [passStep EXCEPT ![p] = "idle"]
    /\ due' = [due EXCEPT ![p] = {}]
    /\ toAward' = [toAward EXCEPT ![p] = {}]
    /\ UNCHANGED <<walletVars, bookingVars, referralVars>>

-----------------------------------------------------------------------------
(* claimReferral *)

ReadReferee(k, e, u) ==
    /\ claim[k].step = "idle"
    /\ referredBy[e] = Nobody
    /\ u # e
    /\ claim' = [claim EXCEPT ![k] = [step |-> "read", referee |-> e, referrer |-> u]]
    /\ UNCHANGED <<walletVars, bookingVars, passVars, referral, referredBy>>

\* the unique index on refereeId decides between claims
CreateReferral(k) ==
    /\ claim[k].step = "read"
    /\ IF referral[claim[k].referee] = Nobody
       THEN /\ referral' = [referral EXCEPT ![claim[k].referee] = claim[k].referrer]
            /\ claim' = [claim EXCEPT ![k].step = "created"]
       ELSE /\ claim' = [claim EXCEPT ![k] = NoClaim]
            /\ UNCHANGED referral
    /\ UNCHANGED <<walletVars, bookingVars, passVars, referredBy>>

SetReferredBy(k) ==
    /\ claim[k].step = "created"
    /\ referredBy' = [referredBy EXCEPT ![claim[k].referee] = claim[k].referrer]
    /\ claim' = [claim EXCEPT ![k].step = "reward"]
    /\ UNCHANGED <<walletVars, bookingVars, passVars, referral>>

RewardReferrer(k) ==
    /\ claim[k].step = "reward"
    /\ claim' = [claim EXCEPT ![k] = NoClaim]
    /\ \/ Apply(Change(claim[k].referrer, RewardAmount, "referral", claim[k].referee))
       \/ UNCHANGED walletVars
    /\ UNCHANGED <<bookingVars, passVars, referral, referredBy>>

CrashClaim(k) ==
    /\ claim[k].step # "idle"
    /\ claim' = [claim EXCEPT ![k] = NoClaim]
    /\ UNCHANGED <<walletVars, bookingVars, passVars, referral, referredBy>>

WalletNext ==
    \/ \E w \in Writers : RecordChange(w) \/ LoseChange(w)
    \/ \E u \in Users, a \in {-SpendAmount, SpendAmount} : AdminAdjust(u, a)
    \/ PurchasePlan

BookingNext ==
    \/ \E b \in Bookings, u \in Users : Book(b, u) \/ CancelBooking(b, u)
    \/ \E b \in Bookings : PayHold(b) \/ ReleaseHold(b) \/ CheckPenalty(b) \/ CreateReview(b)

PassNext ==
    \/ \E b \in Bookings : EndPasses(b)
    \/ \E p \in Passes :
        \/ FindDue(p) \/ CompleteDue(p) \/ NotifyCompleted(p) \/ EndPass(p)
        \/ \E b \in Bookings : AwardCompleted(p, b)

ReferralNext ==
    \E k \in Claims :
        \/ \E e \in Referees, u \in Users : ReadReferee(k, e, u)
        \/ CreateReferral(k) \/ SetReferredBy(k) \/ RewardReferrer(k) \/ CrashClaim(k)

CreditNext == WalletNext \/ BookingNext \/ PassNext \/ ReferralNext
CreditSpec == CreditInit /\ [][CreditNext]_creditVars

-----------------------------------------------------------------------------
(* What the pages show, and the properties *)

GetWallet(u) == [balance |-> balance[u], totalEarned |-> totalEarned[u], totalSpent |-> totalSpent[u]]

\* adminListAllTransactions, and listTransactions of one user, over all their pages
AllTransactions == UNION {{<<f, i>> : i \in DOMAIN entries[f]} : f \in References}
ListTransactions(u) == {t \in AllTransactions : entries[t[1]][t[2]].user = u}

\* adminListUsers: the wallets of stylists
AdminListUsers == [u \in {Stylist} |-> GetWallet(u)]
WalletPages(u) == {GetWallet(u)} \cup {AdminListUsers[v] : v \in {u} \cap {Stylist}}

\* what changes earn (sign 1) or spend (sign -1)
Worth(c, sign) == IF sign * c.amount > 0 THEN sign * c.amount ELSE 0
Listed(u, sign) == SumFunction([t \in ListTransactions(u) |-> Worth(entries[t[1]][t[2]], sign)])
InFlight(u) == {w \in Writers : writing[w] # Idle /\ writing[w].user = u}
Lost(u) == {i \in DOMAIN lost : lost[i].user = u}
Unlisted(u, sign) ==
    SumFunction([w \in InFlight(u) |-> Worth(writing[w], sign)]) + SumFunction([i \in Lost(u) |-> Worth(lost[i], sign)])

CountOf(why, f) ==
    Cardinality({i \in DOMAIN entries[f] : entries[f][i].reason = why})
      + Cardinality({i \in DOMAIN lost : lost[i].reason = why /\ lost[i].ref = f})
      + Cardinality({w \in Writers : writing[w] # Idle /\ writing[w].reason = why /\ writing[w].ref = f})

(* The wallet and its history agree up to the rows in flight and those that  *)
(* crashes lost: what the user and the admin are shown as earned and as spent *)
(* is what the rows list, and the balance is the difference.  No change of a  *)
(* wallet, by whichever call, goes without a row of its own.                  *)
LedgerExplainsBalance ==
    \A u \in Users : \A page \in WalletPages(u) :
        /\ page.totalEarned = Listed(u, 1) + Unlisted(u, 1)
        /\ page.totalSpent = Listed(u, -1) + Unlisted(u, -1)
        /\ page.balance = page.totalEarned - page.totalSpent

Behind(b) == b \in notified /\ \A p \in Passes : b \notin toAward[p]

(* completionNotifiedAt is a barrier: a reservation that carries it, and that *)
(* no pass under way has found before, is not found and not awarded again,    *)
(* not even when a late payment confirms it once more and it is due again.    *)
NotifiedIsNotAwardedAgain ==
    [][\A b \in Bookings :
          Behind(b) => /\ Behind(b)'
                       /\ CountOf("completed_reservation", b)' <= CountOf("completed_reservation", b)]_creditVars
=============================================================================
