------------------------------- MODULE Reviews -------------------------------
(***************************************************************************)
(* Reviews of one stylist (review/review.service.ts and the moderation in  *)
(* admin/admin.service.ts).  A review counts once an admin has approved    *)
(* it; every moderation saves the review, sums up the visible ones anew    *)
(* and stores the result on the profile, in three round trips.             *)
(***************************************************************************)
EXTENDS Integers, FiniteSets, Functions

CONSTANTS
    Bookings,    \* reservations with the stylist
    Legacy,      \* one of them, reviewed before there was any moderation
    Reviewers,   \* customers
    Stars,       \* ratings the model gives, of 1..5
    Desk,        \* moderations that may be under way at once
    NoBooking, NobodyWrote

ASSUME ReviewsAssumption ==
    /\ IsFiniteSet(Bookings) /\ Legacy \in Bookings
    /\ Stars \subseteq 1..5 /\ NoBooking \notin Bookings

VARIABLES
    completed,   \* the reservations that are completed
    review,      \* the Review rows, one per reservation
    profile,     \* ratingAverage, as the sum it is of, and ratingCount of the StylistProfile
    draft,       \* calls of createReview that have found no review yet
    moderation,  \* what each moderation is at, and the sum it has computed
    apart        \* no two moderations have overlapped, and none broke off

reviewsVars == <<completed, review, profile, draft, moderation, apart>>

ReviewStatuses == {"none", "legacy", "pending", "approved", "rejected"}
Nothing == [status |-> "none", stars |-> 0, by |-> NobodyWrote]
NoModeration == [step |-> "idle", booking |-> NoBooking, verdict |-> "approved", sum |-> 0, count |-> 0]

ReviewsTypeOK ==
    /\ completed \subseteq Bookings /\ draft \subseteq Bookings
    /\ review \in [Bookings -> [status : ReviewStatuses, stars : 0..5, by : Reviewers \cup {NobodyWrote}]]
    /\ profile \in [sum : Nat, count : Nat]
    /\ moderation \in [Desk -> [step : {"idle", "save", "aggregate", "update"}, booking : Bookings \cup {NoBooking},
                               verdict : {"approved", "rejected"}, sum : Nat, count : Nat]]
    /\ apart \in BOOLEAN

ReviewsInit ==
    /\ completed = {Legacy} /\ draft = {}
    /\ \E u \in Reviewers, n \in Stars :
          /\ review = [b \in Bookings |-> IF b = Legacy THEN [status |-> "legacy", stars |-> n, by |-> u] ELSE Nothing]
          /\ profile = [sum |-> n, count |-> 1]
    /\ moderation = [m \in Desk |-> NoModeration] /\ apart = TRUE

-----------------------------------------------------------------------------
Complete(b) ==
    /\ b \notin completed /\ completed' = completed \cup {b}
    /\ UNCHANGED <<review, profile, draft, moderation, apart>>

(* createReview *)

FindNoReview(b) ==
    /\ b \in completed /\ review[b] = Nothing /\ draft' = draft \cup {b}
    /\ UNCHANGED <<completed, review, profile, moderation, apart>>

\* a second review of the reservation is refused by the unique index
InsertReview(b, u, n) ==
    /\ b \in draft
    /\ review' = IF review[b] = Nothing THEN [review EXCEPT ![b] = [status |-> "pending", stars |-> n, by |-> u]] ELSE review
    /\ draft' = draft \ {b}
    /\ UNCHANGED <<completed, profile, moderation, apart>>

-----------------------------------------------------------------------------
(* moderateReview: from any status, and as often as an admin likes *)

Moderating == {m \in Desk : moderation[m].step # "idle"}
Onward(m, from, to) == moderation[m].step = from /\ moderation' = [moderation EXCEPT ![m].step = to]

FindReview(m, b, verdict) ==
    /\ m \notin Moderating /\ review[b] # Nothing
    /\ moderation' = [moderation EXCEPT ![m] = [NoModeration EXCEPT !.step = "save", !.booking = b, !.verdict = verdict]]
    /\ apart' = (apart /\ Moderating = {})
    /\ UNCHANGED <<completed, review, profile, draft>>

SaveVerdict(m) ==
    /\ Onward(m, "save", "aggregate")
    /\ review' = [review EXCEPT ![moderation[m].booking].status = moderation[m].verdict]
    /\ UNCHANGED <<completed, profile, draft, apart>>

\* VISIBLE_REVIEW_FILTER: a review without a status counts
Visible == {b \in Bookings : review[b].status \in {"approved", "legacy"}}

\* Mutant of Counted: the filter names the status that new reviews get.
ApprovedOnly == {b \in Bookings : review[b].status = "approved"}

Counted == Visible
StarsOf(bs) == SumFunctionOnSet([b \in Bookings |-> review[b].stars], bs)

\* recomputeStylistRating: the aggregation, then the update of the profile
Aggregate(m) ==
    /\ moderation[m].step = "aggregate"
    /\ moderation' = [moderation EXCEPT ![m] =
         [@ EXCEPT !.step = "update", !.sum = StarsOf(Counted), !.count = Cardinality(Counted)]]
    /\ UNCHANGED <<completed, review, profile, draft, apart>>

UpdateRating(m) ==
    /\ moderation[m].step = "update"
    /\ profile' = [sum |-> moderation[m].sum, count |-> moderation[m].count]
    /\ moderation' = [moderation EXCEPT ![m] = NoModeration]
    /\ UNCHANGED <<completed, review, draft, apart>>

\* the process stops, or a query throws, between two round trips
BreakOffModeration(m) ==
    /\ m \in Moderating /\ moderation' = [moderation EXCEPT ![m] = NoModeration] /\ apart' = FALSE
    /\ UNCHANGED <<completed, review, profile, draft>>

ReviewsNext ==
    \/ \E b \in Bookings : \/ Complete(b) \/ FindNoReview(b)
                           \/ \E u \in Reviewers, n \in Stars : InsertReview(b, u, n)
                           \/ \E m \in Desk, v \in {"approved", "rejected"} : FindReview(m, b, v)
    \/ \E m \in Desk : SaveVerdict(m) \/ Aggregate(m) \/ UpdateRating(m) \/ BreakOffModeration(m)

ReviewsSpec == ReviewsInit /\ [][ReviewsNext]_reviewsVars

-----------------------------------------------------------------------------
\* listStylistReviews: the public list, a review of the viewer's own, and the number of all
OwnReviews(u) == {b \in Bookings : review[b].by = u}
PublicPage(u) ==
    IF OwnReviews(u) = {} THEN {[items |-> Visible, total |-> Cardinality(Visible)]}
    ELSE {[items |-> Visible \ {b}, total |-> Cardinality(Visible)] : b \in OwnReviews(u)}

\* listReviews of the admin
AdminList(status) ==
    {b \in Bookings : IF status = "approved" THEN b \in Visible ELSE review[b].status = status}

\* When moderations take turns and none breaks off, the profile shows the mean and the number of
\* exactly the reviews that its public page lists or, for their author, sets apart; and no review
\* that waits for an admin is among them.  (moderateReview, recomputeStylistRating, createReview,
\* listStylistReviews, listReviews)
RatingCountsWhatIsShown ==
    apart /\ Moderating = {} =>
        /\ profile = [sum |-> StarsOf(Visible), count |-> Cardinality(Visible)]
        /\ \A u \in Reviewers : \A page \in PublicPage(u) :
              /\ page.total = profile.count
              /\ page.items \cap (AdminList("pending") \cup AdminList("rejected")) = {}
              /\ page.items \cup (OwnReviews(u) \cap Visible) = AdminList("approved")
=============================================================================
