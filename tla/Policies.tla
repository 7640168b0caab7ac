------------------------------ MODULE Policies ------------------------------
(***************************************************************************)
(* Which cancellation policy applies (policy/policy.service.ts), and who   *)
(* sets it: a stylist for one service or for all of them as far as the     *)
(* plan allows, an admin for a stylist, an owner for a salon.  A booking   *)
(* keeps the policies its customer accepted; cancelling resolves anew.     *)
(***************************************************************************)
EXTENDS Integers, Sequences, FiniteSets, TLC

CONSTANTS
    Services,    \* services of the stylist
    Places,      \* salons
    Bodies,      \* request bodies: a sequence of rules, and the reschedule terms
    Writers,     \* calls of the stylist's settings that may be under way at once
    NoPolicy, NoPlace, AllServices

ASSUME PoliciesAssumption ==
    /\ NoPlace \notin Places /\ AllServices \notin Services \cup Places /\ Services \cap Places = {}

VARIABLES
    plan,        \* planTier of the profile
    own,         \* its cancellationPolicy
    perService,  \* its servicePolicies
    ofSalon,     \* Salon.cancellationPolicy
    members,     \* the salons of the stylist's active memberships
    open,        \* the active salons
    draftPolicy, \* what each call is about, the body it validated, and whether its copy of the list is old
    booked,      \* a reservation: its services in order, its place, and the accepted policies
    setAnew      \* whose policies have been set since these were accepted: services, the
                 \* stylist's own (AllServices), salons

policyVars == <<plan, own, perService, ofSalon, members, open, draftPolicy, booked, setAnew>>

Tiers == {"free", "silver", "gold"}
NoDraft == [step |-> "idle"]
NoReservation == [services |-> <<>>, place |-> NoPlace, accepted |-> <<>>, created |-> FALSE]

-----------------------------------------------------------------------------
(* Bodies and policies *)

\* normalizePolicy: of two rules with one threshold the later counts
Hours(body) == {body.rules[i].hours : i \in DOMAIN body.rules}
LastRule(body, h) == CHOOSE i \in DOMAIN body.rules :
    body.rules[i].hours = h /\ \A j \in DOMAIN body.rules : body.rules[j].hours = h => j <= i
Normalize(body) ==
    [percent |-> [h \in Hours(body) |-> body.rules[LastRule(body, h)].percent],
     free |-> body.free, penalty |-> body.penalty]

System == [percent |-> (24 :> 100 @@ 6 :> 50 @@ 2 :> 0), free |-> 2, penalty |-> 5]

\* the highest threshold that is not above the notice
RefundPercentFor(p, notice) ==
    LET met == {h \in DOMAIN p.percent : h <= notice} IN
    IF met = {} THEN 0 ELSE p.percent[CHOOSE h \in met : \A k \in met : k <= h]

AssertShape(body) == body.rules # <<>> /\ \A i \in DOMAIN body.rules :
    body.rules[i].hours >= 0 /\ body.rules[i].percent \in 0..100
ValidateOwnerPolicy(body) == AssertShape(body) /\ \A h \in Hours(body) : h <= 720
ValidatePolicyForPlan(tier, body, one) ==
    /\ tier # "free" /\ (one => tier = "gold") /\ AssertShape(body)
    /\ \A h \in Hours(body) : IF tier = "silver" THEN h \in {12, 6, 2} ELSE h \in 0..720

Written == {Normalize(b) : b \in Bodies}
PolicyOrNot == Written \cup {NoPolicy}

PoliciesTypeOK ==
    /\ plan \in Tiers /\ own \in PolicyOrNot /\ perService \in [Services -> PolicyOrNot]
    /\ ofSalon \in [Places -> PolicyOrNot] /\ members \subseteq Places /\ open \subseteq Places
    /\ \A w \in Writers : draftPolicy[w].step \in {"idle", "save"}
    /\ setAnew \subseteq Services \cup Places \cup {AllServices}

PoliciesInit ==
    /\ plan = "free" /\ own = NoPolicy /\ perService = [s \in Services |-> NoPolicy]
    /\ ofSalon = [p \in Places |-> NoPolicy] /\ members = {} /\ open = Places
    /\ draftPolicy = [w \in Writers |-> NoDraft]
    /\ booked = NoReservation /\ setAnew = {}

-----------------------------------------------------------------------------
(* resolveCancellationPolicy, resolvePerServicePolicies *)

FirstWith(services) == {i \in DOMAIN services :
    perService[services[i]] # NoPolicy /\ \A j \in 1..(i - 1) : perService[services[j]] = NoPolicy}

Resolve(services, place) ==
    IF FirstWith(services) # {} THEN perService[services[CHOOSE i \in FirstWith(services) : TRUE]]
    ELSE IF own # NoPolicy THEN own
    ELSE IF place # NoPlace /\ ofSalon[place] # NoPolicy THEN ofSalon[place]
    ELSE System

\* Mutant of PolicyKey: compares the refunds only.
KeyOfRefunds(p) == p.percent

PolicyKey(p) == p
PerService(services, place) == [i \in DOMAIN services |-> Resolve(<<services[i]>>, place)]
Uniform(services, place) ==
    LET shown == PerService(services, place) IN Cardinality({PolicyKey(shown[i]) : i \in DOMAIN services}) <= 1
\* the single box: the policy of the first service
Common(services, place) == PerService(services, place)[1]

\* since the acceptance, if there is one
SetAnew(sources) == setAnew' = IF booked = NoReservation THEN {} ELSE setAnew \cup sources

-----------------------------------------------------------------------------
(* The settings of the stylist: the profile is read, then saved *)

\* setCancellationPolicy, setServiceCancellationPolicy
ReadToSet(w, target, body) ==
    /\ draftPolicy[w] = NoDraft /\ ValidatePolicyForPlan(plan, body, target # AllServices)
    /\ draftPolicy' = [draftPolicy EXCEPT ![w] = [step |-> "save", target |-> target,
         policy |-> Normalize(body), list |-> perService, old |-> FALSE]]
    /\ UNCHANGED <<plan, own, perService, ofSalon, members, open, booked, setAnew>>

\* clearCancellationPolicy, removeServiceCancellationPolicy: on any plan
ReadToClear(w, target) ==
    /\ draftPolicy[w] = NoDraft
    /\ draftPolicy' = [draftPolicy EXCEPT ![w] = [step |-> "save", target |-> target,
         policy |-> NoPolicy, list |-> perService, old |-> FALSE]]
    /\ UNCHANGED <<plan, own, perService, ofSalon, members, open, booked, setAnew>>

SaveOwn(w) ==
    /\ draftPolicy[w].step = "save" /\ draftPolicy[w].target = AllServices
    /\ own' = draftPolicy[w].policy
    /\ draftPolicy' = [draftPolicy EXCEPT ![w] = NoDraft]
    /\ SetAnew({AllServices})
    /\ UNCHANGED <<plan, perService, ofSalon, members, open, booked>>

\* the whole list is stored, and refused if another list was stored since it was read
SaveList(w) ==
    /\ draftPolicy[w].step = "save" /\ draftPolicy[w].target # AllServices
    /\ perService' = IF draftPolicy[w].old THEN perService
                     ELSE [draftPolicy[w].list EXCEPT ![draftPolicy[w].target] = draftPolicy[w].policy]
    /\ draftPolicy' = [v \in Writers |->
         IF v = w THEN NoDraft
         ELSE IF draftPolicy[v].step = "save" /\ ~draftPolicy[w].old THEN [draftPolicy[v] EXCEPT !.old = TRUE]
         ELSE draftPolicy[v]]
    /\ SetAnew(IF draftPolicy[w].old THEN {} ELSE {draftPolicy[w].target})
    /\ UNCHANGED <<plan, own, ofSalon, members, open, booked>>

(* Everybody else *)

\* a purchase, an expiry, an admin: the policies stay as they are
ChangePlan(tier) ==
    /\ plan' = tier
    /\ UNCHANGED <<own, perService, ofSalon, members, open, draftPolicy, booked, setAnew>>

\* setStylistCancellationPolicy of the admin asks for no plan
AdminSetPolicy(p) ==
    /\ p = NoPolicy \/ \E b \in Bodies : p = Normalize(b) /\ ValidateOwnerPolicy(b)
    /\ own' = p /\ SetAnew({AllServices})
    /\ UNCHANGED <<plan, perService, ofSalon, members, open, draftPolicy, booked>>

\* updateSalon
SetSalonPolicy(place, p) ==
    /\ p = NoPolicy \/ \E b \in Bodies : p = Normalize(b) /\ ValidateOwnerPolicy(b)
    /\ ofSalon' = [ofSalon EXCEPT ![place] = p]
    /\ SetAnew({place})
    /\ UNCHANGED <<plan, own, perService, members, open, draftPolicy, booked>>

JoinOrLeave(place) ==
    /\ members' = IF place \in members THEN members \ {place} ELSE members \cup {place}
    /\ UNCHANGED <<plan, own, perService, ofSalon, open, draftPolicy, booked, setAnew>>

\* setSalonStatus of the admin
SetStatus(place) ==
    /\ open' = IF place \in open THEN open \ {place} ELSE open \cup {place}
    /\ UNCHANGED <<plan, own, perService, ofSalon, members, draftPolicy, booked, setAnew>>

-----------------------------------------------------------------------------
(* createReservation: the place is found, the terms of the services are accepted, then the row is made *)

Orders == {q \in UNION {[1..n -> Services] : n \in 1..Cardinality(Services)} :
    \A i, j \in DOMAIN q : q[i] = q[j] => i = j}

\* without a salon for a freelancer
Bookable == (members \cap open) \cup {NoPlace}

AcceptTerms(q, place) ==
    /\ booked = NoReservation /\ place \in Bookable
    /\ booked' = [services |-> q, place |-> place, accepted |-> PerService(q, place), created |-> FALSE]
    /\ setAnew' = {}
    /\ UNCHANGED <<plan, own, perService, ofSalon, members, open, draftPolicy>>

CreateReservation ==
    /\ booked # NoReservation /\ booked' = [booked EXCEPT !.created = TRUE]
    /\ UNCHANGED <<plan, own, perService, ofSalon, members, open, draftPolicy, setAnew>>

SettingsNext ==
    \/ \E w \in Writers, t \in Services \cup {AllServices} :
          ReadToClear(w, t) \/ \E b \in Bodies : ReadToSet(w, t, b)
    \/ \E w \in Writers : SaveOwn(w) \/ SaveList(w)
    \/ \E t \in Tiers : ChangePlan(t)

OthersNext ==
    \/ \E p \in PolicyOrNot : AdminSetPolicy(p) \/ \E place \in Places : SetSalonPolicy(place, p)
    \/ \E place \in Places : JoinOrLeave(place) \/ SetStatus(place)

CustomerNext == CreateReservation \/ \E q \in Orders, place \in Bookable : AcceptTerms(q, place)

PoliciesNext == SettingsNext \/ OthersNext \/ CustomerNext

PoliciesSpec == PoliciesInit /\ [][PoliciesNext]_policyVars

-----------------------------------------------------------------------------
\* previewReservationPolicy and cancelReservation: the percent at a notice of so many hours
CancelPercent(notice) == RefundPercentFor(Resolve(booked.services, booked.place), notice)

\* the membership a query for one finds, whatever the state of its salon
Found == IF members = {} THEN {NoPlace} ELSE members

\* getStylistBookingPolicy without a salon: the membership found decides
BookingPolicy(q, found) == Resolve(q, found)

\* getStylistPolicyOverview: the settings screen of the stylist, and what it says of a service;
\* of a salon that is not active it says nothing
PolicyOverview(found) ==
    [plan |-> plan, own |-> own,
     perService |-> [s \in {t \in Services : perService[t] # NoPolicy} |-> perService[s]],
     salon |-> IF found = NoPlace \/ found \notin open THEN NoPolicy ELSE ofSalon[found],
     systemDefault |-> System]
Explained(s, found) ==
    LET o == PolicyOverview(found) IN
    IF s \in DOMAIN o.perService THEN o.perService[s]
    ELSE IF o.own # NoPolicy THEN o.own
    ELSE IF o.salon # NoPolicy THEN o.salon ELSE o.systemDefault

\* whose policies decide the terms of one service at a place
Deciding(s, place) ==
    {s} \cup IF perService[s] # NoPolicy THEN {}
             ELSE {AllServices} \cup IF own # NoPolicy THEN {} ELSE {place}
Applied(i) == PerService(booked.services, booked.place)[i]
Promised(i) == IF Deciding(booked.services[i], booked.place) \cap setAnew = {} THEN booked.accepted[i] ELSE Applied(i)

\* Where a customer is shown a single box for several services, its policy is the one that
\* cancelling them applies, in whichever order they were chosen; where there are several, it is
\* one of theirs.  What the settings screen tells the stylist of a service is what a booking of
\* it is offered in the salon found, or without one if that salon is not active; and it differs
\* from what the booking page says without a salon only if she has set no terms for the service,
\* and the two have found different memberships or one in a salon that is not active.  Cancelling refunds what the
\* accepted policy of one of the services promises, whatever becomes of the plan, of memberships
\* and of policies that do not decide that service: it departs from what was accepted only for a
\* service whose deciding policy was set anew since.
\* (resolveCancellationPolicy, resolvePerServicePolicies, getStylistBookingPolicyBreakdown,
\* createReservation, previewReservationPolicy, getStylistPolicyOverview)
TermsShownAreTermsApplied ==
    /\ \A q \in Orders, place \in Bookable \cup {booked.place} :
          LET shown == PerService(q, place) IN
          /\ Resolve(q, place) \in {shown[i] : i \in DOMAIN q}
          /\ Uniform(q, place) => Resolve(q, place) = Common(q, place)
    /\ \A s \in Services, seen \in Found :
          /\ Explained(s, seen) = Resolve(<<s>>, IF seen \in open THEN seen ELSE NoPlace)
          /\ \A found \in Found :
                \/ BookingPolicy(<<s>>, found) = Explained(s, seen)
                \/ own = NoPolicy /\ perService[s] = NoPolicy /\ (found # seen \/ found \notin open)
    /\ booked.created =>
          \A notice \in {0, 2, 6, 12, 24, 48} :
              CancelPercent(notice) \in {RefundPercentFor(Promised(i), notice) : i \in DOMAIN booked.services}
=============================================================================
