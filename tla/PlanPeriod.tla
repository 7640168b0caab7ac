----------------------------- MODULE PlanPeriod -----------------------------
(***************************************************************************)
(* The paid plan of one stylist: purchases at the gateway, with credit and *)
(* by an admin, the admin's campaign switch, the hourly downgrade and the  *)
(* reminders before the end.  activatePlan, setStylistPlan and             *)
(* setStylistSmsCampaign read the profile and save it later; mongoose's    *)
(* save writes the paths that were changed on the document read, and tests *)
(* the version only when it replaces an array.                             *)
(*                                                                         *)
(* Time is a day count.  A month is Period days.                           *)
(***************************************************************************)
EXTENDS Naturals, FiniteSets

CONSTANTS
    Savers,        \* calls that read the profile and save it
    Reminders,     \* runs of sendPlanExpiryReminders
    Period,        \* the days of a plan
    MaxDay,        \* bound on the clock
    MaxPeriods     \* bound on the purchases with credit

ASSUME PlanAssumption == Period \in Nat \ {0} /\ MaxDay \in Nat /\ MaxPeriods \in Nat

NoEnd == MaxDay + Period + 1    \* planExpiresAt: null

VARIABLES
    day,           \* the current day
    profile,       \* the plan fields of the StylistProfile
    version,       \* mongoose's version of it
    saver,         \* what each saver read and is going to write
    reminder,      \* what each reminder run found
    period,        \* how many plan periods were begun
    sent,          \* <<period, milestone>> of every reminder sent
    repeated,      \* one was sent twice
    paidUntil      \* the end of the plan the stylist has bought; 0 once an admin decided, or
                   \* if the tier had changed under the purchase when it was saved

planVars == <<day, profile, version, saver, reminder, period, sent, repeated, paidUntil>>

Tiers == {"free", "silver", "gold"}
Paid == {"silver", "gold"}
Milestones == {1, 3, 5}
Days == 0 .. NoEnd
Profiles == [tier : Tiers, sms : BOOLEAN, until : Days, reminded : SUBSET Milestones]
NoSaver == [kind |-> "idle"]
Done == [kind |-> "done"]
Saving == [kind : {"purchase", "admin", "switch"}, tier : Tiers, sms : BOOLEAN, read : Profiles,
           version : Nat]
NoReminder == [step |-> "idle"]
Reminding == [step : {"found", "claimed"}, milestone : Milestones, period : Nat]

PlanTypeOK ==
    /\ day \in 0 .. MaxDay
    /\ profile \in Profiles
    /\ version \in Nat
    /\ saver \in [Savers -> Saving \cup {NoSaver, Done}]
    /\ reminder \in [Reminders -> Reminding \cup {NoReminder}]
    /\ period \in Nat
    /\ sent \subseteq Nat \X Milestones
    /\ repeated \in BOOLEAN
    /\ paidUntil \in Days

PlanInit ==
    /\ day = 0
    /\ profile = [tier |-> "free", sms |-> FALSE, until |-> NoEnd, reminded |-> {}]
    /\ version = 0
    /\ saver \in [Savers -> {NoSaver, Done}]    \* not every call is made
    /\ reminder = [r \in Reminders |-> NoReminder]
    /\ period = 0
    /\ sent = {}
    /\ repeated = FALSE
    /\ paidUntil = 0

PlanAllowsSmsCampaign(tier) == tier \in Paid
PlanExpiryDate == day + Period

\* expiryMilestoneFor
MilestoneFor(days) ==
    CASE days <= 1 -> 1
      [] days \in 2 .. 3 -> 3
      [] days \in 4 .. 5 -> 5

NextDay ==
    /\ day < MaxDay
    /\ day' = day + 1
    /\ UNCHANGED <<profile, version, saver, reminder, period, sent, repeated, paidUntil>>

-----------------------------------------------------------------------------
(* Calls that read and save.  Each saver makes one call. *)

ReadProfile(s, kind, tier, sms) ==
    /\ saver[s] = NoSaver
    /\ saver' = [saver EXCEPT ![s] = [kind |-> kind, tier |-> tier, sms |-> sms,
                                      read |-> profile, version |-> version]]
    /\ UNCHANGED <<day, profile, version, reminder, period, sent, repeated, paidUntil>>

\* a gateway payment was claimed (HoldPayment!Claim) and its outcome is applied
StartActivatePlan(s) == \E t \in Paid : ReadProfile(s, "purchase", t, PlanAllowsSmsCampaign(t))
StartSetStylistPlan(s) == \E t \in Tiers : ReadProfile(s, "admin", t, PlanAllowsSmsCampaign(t))
StartSetSmsCampaign(s) == \E on \in BOOLEAN : ReadProfile(s, "switch", profile.tier, on)

Unless(same, old, new) == IF same THEN old ELSE new

\* the fields that differ from the document read are written, the others are not;
\* replacing the list of reminders tests the version and raises it
SavePlan(s, until) ==
    LET mine == saver[s]
        clears == mine.read.reminded # {}
        sameEnd == until = mine.read.until /\ mine.kind = "admin"
        undercut == mine.tier = mine.read.tier /\ profile.tier # mine.tier
    IN  IF clears /\ version # mine.version
        THEN UNCHANGED <<profile, version, period, paidUntil>>
        ELSE /\ profile' = [tier |-> Unless(mine.tier = mine.read.tier, profile.tier, mine.tier),
                            sms |-> Unless(mine.sms = mine.read.sms, profile.sms, mine.sms),
                            until |-> Unless(sameEnd, profile.until, until),
                            reminded |-> IF clears THEN {} ELSE profile.reminded]
             /\ version' = IF clears THEN version + 1 ELSE version
             /\ period' = period + 1
             /\ paidUntil' = IF mine.kind = "purchase" /\ ~undercut THEN until ELSE 0

EndSaver(s) == saver' = [saver EXCEPT ![s] = Done]

\* the end of a purchase counts milliseconds from now, so it is always written
ActivatePlan(s) ==
    /\ saver[s].kind = "purchase"
    /\ SavePlan(s, PlanExpiryDate)
    /\ EndSaver(s)
    /\ UNCHANGED <<day, reminder, sent, repeated>>

\* the admin may give an end (at once, in a day); without one it is a month from the start
SetStylistPlan(s) ==
    /\ saver[s].kind = "admin"
    /\ \E until \in {day, day + 1, PlanExpiryDate} : SavePlan(s, IF saver[s].tier = "free" THEN NoEnd ELSE until)
    /\ EndSaver(s)
    /\ UNCHANGED <<day, reminder, sent, repeated>>

SetSmsCampaign(s) ==
    /\ saver[s].kind = "switch"
    /\ profile' = [profile EXCEPT !.sms = Unless(saver[s].sms = saver[s].read.sms, @, saver[s].sms)]
    /\ EndSaver(s)
    /\ UNCHANGED <<day, version, reminder, period, sent, repeated, paidUntil>>

CrashSaver(s) ==
    /\ saver[s] # NoSaver
    /\ saver[s].kind # "done"
    /\ EndSaver(s)
    /\ UNCHANGED <<day, profile, version, reminder, period, sent, repeated, paidUntil>>

\* purchasePlanByCredit after its debit: one update, which leaves the switch alone
BuyByCredit(t) ==
    /\ period < MaxPeriods
    /\ profile' = [profile EXCEPT !.tier = t, !.until = PlanExpiryDate, !.reminded = {}]
    /\ period' = period + 1
    /\ paidUntil' = PlanExpiryDate
    /\ UNCHANGED <<day, version, saver, reminder, sent, repeated>>

-----------------------------------------------------------------------------
(* The hourly job *)

\* Variant that counts the last day as over.
DowngradeOnLastDay ==
    /\ profile.tier \in Paid /\ profile.until <= day + 1
    /\ profile' = [profile EXCEPT !.tier = "free", !.sms = FALSE, !.until = NoEnd]
    /\ UNCHANGED <<day, version, saver, reminder, period, sent, repeated, paidUntil>>

DowngradeExpiredPlans ==
    /\ profile.tier \in Paid /\ profile.until <= day
    /\ profile' = [profile EXCEPT !.tier = "free", !.sms = FALSE, !.until = NoEnd]
    /\ UNCHANGED <<day, version, saver, reminder, period, sent, repeated, paidUntil>>

\* within the SMS window; outside it the run returns at once
FindExpiring(r) ==
    /\ reminder[r] = NoReminder
    /\ profile.tier \in Paid
    /\ profile.until > day /\ profile.until <= day + 5
    /\ reminder' = [reminder EXCEPT ![r] = [step |-> "found", milestone |-> MilestoneFor(profile.until - day),
                                            period |-> period]]
    /\ UNCHANGED <<day, profile, version, saver, period, sent, repeated, paidUntil>>

ClaimWithoutTest(r) ==
    /\ reminder[r].step = "found"
    /\ profile' = [profile EXCEPT !.reminded = @ \cup {reminder[r].milestone}]
    /\ reminder' = [reminder EXCEPT ![r] = [@ EXCEPT !.step = "claimed", !.period = period]]
    /\ UNCHANGED <<day, version, saver, period, sent, repeated, paidUntil>>

\* the conditional update asks for the milestone and not for the period
ClaimMilestone(r) ==
    /\ reminder[r].step = "found"
    /\ IF reminder[r].milestone \in profile.reminded
       THEN reminder' = [reminder EXCEPT ![r] = NoReminder] /\ UNCHANGED profile
       ELSE /\ profile' = [profile EXCEPT !.reminded = @ \cup {reminder[r].milestone}]
            /\ reminder' = [reminder EXCEPT ![r] = [@ EXCEPT !.step = "claimed", !.period = period]]
    /\ UNCHANGED <<day, version, saver, period, sent, repeated, paidUntil>>

SendReminder(r) ==
    LET mine == <<reminder[r].period, reminder[r].milestone>>
    IN  /\ reminder[r].step = "claimed"
        /\ sent' = sent \cup {mine}
        /\ repeated' = (repeated \/ mine \in sent)
        /\ reminder' = [reminder EXCEPT ![r] = NoReminder]
        /\ UNCHANGED <<day, profile, version, saver, period, paidUntil>>

\* no phone, the provider fails, or the process stops: the claim stands
LoseReminder(r) ==
    /\ reminder[r] # NoReminder
    /\ reminder' = [reminder EXCEPT ![r] = NoReminder]
    /\ UNCHANGED <<day, profile, version, saver, period, sent, repeated, paidUntil>>

ChangePlanNext ==
    \/ \E s \in Savers :
          \/ StartActivatePlan(s) \/ StartSetStylistPlan(s) \/ StartSetSmsCampaign(s)
          \/ ActivatePlan(s) \/ SetStylistPlan(s) \/ SetSmsCampaign(s) \/ CrashSaver(s)
    \/ \E t \in Paid : BuyByCredit(t)

ReminderNext ==
    \E r \in Reminders : FindExpiring(r) \/ ClaimMilestone(r) \/ SendReminder(r) \/ LoseReminder(r)

PlanNext == NextDay \/ ChangePlanNext \/ DowngradeExpiredPlans \/ ReminderNext

PlanSpec == PlanInit /\ [][PlanNext]_planVars

-----------------------------------------------------------------------------
(* Properties *)

(* A milestone is sent at most once in a plan period, however many runs of  *)
(* the job overlap and whatever purchases reset the list meanwhile.          *)
RemindedOncePerPeriod == ~repeated

(* A stylist has the plan that was bought until its month is over, whatever  *)
(* other purchases, switches and downgrades overlap (an update of one side,  *)
(* a read and a later save of the other), as long as no admin decides on the *)
(* plan.  Excused is the one race that the code loses: a save leaves out the *)
(* tier when it is the one that was read, although that was taken away since.*)
PurchasedPlanLasts == day < paidUntil => profile.tier \in Paid /\ profile.until >= paidUntil
=============================================================================
