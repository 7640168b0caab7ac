---------------------------- MODULE MCPromotions ----------------------------
(***************************************************************************)
(* CreditLedger, PlanPeriod, DiscountCodes and Stories for TLC.  The four  *)
(* share no state, so a behaviour moves one of them (three parts of the    *)
(* first, two of the third, and two sets of writers of the second): the    *)
(* scene chosen at the start, and the others stay as they were.            *)
(***************************************************************************)
EXTENDS CreditLedger, PlanPeriod, DiscountCodes, Stories

CONSTANTS s, u, e, c1, c2, p1, p2, w1, v1, v2, r1, r2, k1, k2, o1, o2, n1, n2, ph1, ph2, tale1, tale2

VARIABLE scene

Scenes == {"awards", "penalties", "referrals", "purchases", "reminders", "codes", "campaigns", "stories"}

creditRest == <<planVars, codeVars, storyVars>>
planRest == <<creditVars, codeVars, storyVars>>
codesRest == <<creditVars, planVars, storyVars>>

\* one reservation for the completion passes, two for consecutive cancels
Init ==
    /\ CreditInit /\ PlanInit /\ CodesInit /\ StoriesInit
    /\ scene \in Scenes
    /\ resv = [b \in Bookings |-> IF b = 1 \/ scene = "penalties" THEN "none" ELSE "gone"]
    /\ \A i \in Savers : saver[i] = NoSaver <=> scene = "purchases"
    /\ inWindow \subseteq IF scene = "codes" THEN {k1} ELSE {}

\* bookings use one code; campaigns, followed until two of them overlap, send two
\* whose terms do not matter
FirstCodeOnly == code'[k2] = NoDoc /\ k2 \notin inWindow'
CreatePlainCode == \E c \in Codes : CreateDiscountCode(c, "fixed", 50, Unlimited, TRUE, TRUE, Unlimited)

\* viewers have to do with one story; the other is there for the author and the pass
FirstTaleOnly == /\ \A g \in Sights : sight'[g].story # tale2
                 /\ \A v \in Viewers : report'[<<tale2, v>>] = "none"

Next ==
    /\ UNCHANGED scene
    /\ \/ scene \in {"awards", "penalties", "referrals"} /\ WalletNext /\ UNCHANGED creditRest
       \/ scene \in {"awards", "penalties"} /\ BookingNext /\ UNCHANGED creditRest
       \/ scene = "awards" /\ PassNext /\ UNCHANGED creditRest
       \/ scene = "referrals" /\ ReferralNext /\ UNCHANGED creditRest
       \/ scene \in {"purchases", "reminders"} /\ NextDay /\ UNCHANGED planRest
       \/ scene \in {"purchases", "reminders"} /\ ChangePlanNext /\ UNCHANGED planRest
       \/ scene \in {"purchases", "reminders"} /\ DowngradeExpiredPlans /\ UNCHANGED planRest
       \/ scene = "reminders" /\ ReminderNext /\ UNCHANGED planRest
       \/ scene = "codes" /\ EditNext /\ FirstCodeOnly /\ UNCHANGED codesRest
       \/ scene = "codes" /\ OrderNext /\ UNCHANGED codesRest
       \/ scene = "campaigns" /\ CreatePlainCode /\ UNCHANGED codesRest
       \/ scene = "campaigns" /\ ~overlapped /\ CampaignNext /\ UNCHANGED codesRest
       \/ scene = "stories" /\ StoriesNext /\ FirstTaleOnly /\ UNCHANGED <<creditVars, planVars, codeVars>>

Spec == Init /\ [][Next]_<<creditVars, planVars, codeVars, storyVars, scene>>
    /\ StoryFairness
=============================================================================
