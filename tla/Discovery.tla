------------------------------ MODULE Discovery ------------------------------
(***************************************************************************)
(* What customers are shown of stylists and salons: the search, the list   *)
(* of salons and the page of one.  Each is put together from several       *)
(* queries, between which the rows of SalonMembership change.  Looking     *)
(* changes nothing, so one page under way stands for all.                  *)
(*                                                                         *)
(* Every stylist here has an account, a profile and a service; filters of  *)
(* the customer, distances and the order of a page are left out.           *)
(***************************************************************************)
EXTENDS SalonMembership

CONSTANTS
    PageLimit,    \* the salons that a list shows at most
    Own           \* the workplace of a freelancer

ASSUME DiscoveryAssumption == PageLimit \in Nat \ {0} /\ Own \notin Salons

VARIABLES
    page,         \* the page under way: which one, and what its queries have returned
    changes,      \* how often the rows changed since it was asked for: none, once, or more often
    always,       \* what was open ever since, with the same owner
    ever          \* what was open at some time since

pageVars == <<page, changes, always, ever>>

Workplaces == Stylists \X (Salons \cup {Own})
NoProfile == [freelance |-> FALSE, accepting |-> FALSE]
Closed == [of |-> "nothing", step |-> "closed", salon |-> Own, who |-> {}, profiles |-> [x \in Stylists |-> NoProfile],
           links |-> {}, salons |-> {}, more |-> FALSE, shown |-> {}]
PageStates == [of : {"nothing", "stylists", "salon", "salons"},
          step : {"closed", "owner", "members", "profiles", "links", "salons", "owners", "people", "list", "hide", "shown"},
          salon : Salons \cup {Own}, who : SUBSET Stylists,
          profiles : [Stylists -> [freelance : BOOLEAN, accepting : BOOLEAN]],
          links : SUBSET Pairs, salons : SUBSET (Salons \X (Users \cup {NoUser})), more : BOOLEAN,
          shown : SUBSET (Workplaces \cup Salons)]

DiscoveryTypeOK ==
    /\ page \in PageStates
    /\ changes \in 0..2
    /\ always \subseteq Workplaces \cup Salons
    /\ ever \subseteq Workplaces \cup Salons

DiscoveryInit == page = Closed /\ changes = 0 /\ always = {} /\ ever = {}

(* What is open at a moment: the salons that are active and whose owner is  *)
(* not restricted, and the workplaces at which a stylist can be booked.      *)

VisibleSalons == {s \in Salons : salon[s].status = "active" /\ salon[s].owner \notin restricted}

OpenWorkplaces ==
    {w \in Workplaces :
        /\ w[1] \in accepting \ restricted
        /\ \/ w[2] = Own /\ place[w[1]] = "freelance"
           \/ w[2] \in VisibleSalons /\ link[w].status = "active"}

Offer(of) == IF of = "salons" THEN VisibleSalons ELSE OpenWorkplaces

SalonOf(of, w) == IF of = "salons" THEN w ELSE w[2]
SameOwner(of, w) == SalonOf(of, w) \in Salons => salon'[SalonOf(of, w)].owner = salon[SalonOf(of, w)].owner

\* the rows change while a page is put together
Watch ==
    /\ UNCHANGED page
    /\ IF page = Closed
       THEN UNCHANGED <<changes, always, ever>>
       ELSE /\ changes' = IF UNCHANGED <<salon, link, place, accepting, restricted>> THEN changes
                          ELSE IF changes = 0 THEN 1 ELSE 2
            /\ always' = {w \in always : w \in Offer(page.of)' /\ SameOwner(page.of, w)}
            /\ ever' = ever \cup Offer(page.of)'

-----------------------------------------------------------------------------
(* The pages *)

Ask(asked) ==
    /\ page = Closed /\ page' = asked
    /\ changes' = 0 /\ always' = Offer(asked.of) /\ ever' = Offer(asked.of)
    /\ UNCHANGED membershipVars

Returned(answer) ==
    /\ page' = answer
    /\ UNCHANGED <<changes, always, ever, membershipVars>>

SearchStylists == Ask([Closed EXCEPT !.of = "stylists", !.step = "profiles"])
SearchSalons == Ask([Closed EXCEPT !.of = "salons", !.step = "list"])

\* a salon that is not active, or whose owner is restricted, has no page
GetSalonDetail(s) ==
    /\ salon[s].status = "active"
    /\ Ask([Closed EXCEPT !.of = "salon", !.salon = s, !.salons = {<<s, salon[s].owner>>}, !.step = "owner"])

CheckOwner ==
    /\ page.step = "owner"
    /\ \A p \in page.salons : p[2] \notin Restricted(Users)
    /\ Returned([page EXCEPT !.salons = {}, !.step = "members"])

(* getSalonBookableStylists, searchStylists *)

FindMembers ==
    /\ page.step = "members"
    /\ Returned([page EXCEPT !.who = {x \in Stylists : link[<<x, page.salon>>].status = "active"},
                             !.step = "profiles"])

\* the page of a salon asks for those who take reservations
FindProfiles ==
    LET found == IF page.of = "salon" THEN page.who \cap accepting ELSE Stylists IN
    /\ page.step = "profiles"
    /\ Returned([page EXCEPT !.who = found,
                             !.profiles = [x \in Stylists |-> IF x \in found THEN Profile(x) ELSE NoProfile],
                             !.step = "links"])

(* getBookabilityMap *)

FindLinks ==
    /\ page.step = "links"
    /\ Returned([page EXCEPT !.links = {m \in page.who \X Salons : link[m].status = "active"}, !.step = "salons"])

\* Variant that takes no more salons than a list.
FindFewSalons ==
    LET active == {s \in {m[2] : m \in page.links} : salon[s].status = "active"} IN
    /\ page.step = "salons"
    /\ \E some \in SUBSET active :
          /\ Cardinality(some) = IF Cardinality(active) <= PageLimit THEN Cardinality(active) ELSE PageLimit
          /\ Returned([page EXCEPT !.salons = {<<s, salon[s].owner>> : s \in some}, !.step = "owners"])

FindActiveSalons ==
    LET linked == {m[2] : m \in page.links} IN
    /\ page.step = "salons"
    /\ Returned([page EXCEPT !.salons = {<<s, salon[s].owner>> : s \in {t \in linked : salon[t].status = "active"}},
                             !.step = "owners"])

\* Variant that leaves the owners out of account.
FindNoOwners == page.step = "owners" /\ Returned([page EXCEPT !.step = "people"])

FindBlockedOwners ==
    LET blocked == Restricted({p[2] : p \in page.salons} \ {NoUser}) IN
    /\ page.step = "owners"
    /\ Returned([page EXCEPT !.salons = {p \in page.salons : p[2] \notin blocked}, !.step = "people"])

\* the last query, and what is decided from all of them
FindRestrictedStylists ==
    LET visible == {p[1] : p \in page.salons}
        map == [x \in page.who |->
                   DecideBookability(page.profiles[x], {s \in visible : <<x, s>> \in page.links},
                                     x \in Restricted(page.who))]
        places(x) == map[x].salons \cup (IF map[x].freelance THEN {Own} ELSE {})
        bookable == {w \in page.who \X (Salons \cup {Own}) : map[w[1]].bookable /\ w[2] \in places(w[1])}
    IN
    /\ page.step = "people"
    /\ Returned([page EXCEPT !.shown = {w \in bookable : page.of = "salon" => w[2] = page.salon}, !.step = "shown"])

(* searchSalons: no order is asked for, so it may be any fifty *)

FindSalons ==
    LET active == {s \in Salons : salon[s].status = "active"} IN
    /\ page.step = "list"
    /\ \E some \in SUBSET active :
          /\ Cardinality(some) = IF Cardinality(active) <= PageLimit THEN Cardinality(active) ELSE PageLimit
          /\ Returned([page EXCEPT !.salons = {<<s, salon[s].owner>> : s \in some}, !.more = some # active,
                                   !.step = "hide"])

HideBlockedOwners ==
    LET blocked == Restricted({p[2] : p \in page.salons} \ {NoUser}) IN
    /\ page.step = "hide"
    /\ Returned([page EXCEPT !.shown = {p[1] : p \in {q \in page.salons : q[2] \notin blocked}}, !.step = "shown"])

\* it has been shown, or the owner is restricted, or a query fails
ClosePage ==
    /\ page # Closed
    /\ page' = Closed /\ changes' = 0 /\ always' = {} /\ ever' = {}
    /\ UNCHANGED membershipVars

PageNext ==
    \/ SearchStylists \/ SearchSalons \/ \E s \in Salons : GetSalonDetail(s)
    \/ CheckOwner \/ FindMembers \/ FindProfiles \/ FindLinks \/ FindActiveSalons \/ FindBlockedOwners
    \/ FindRestrictedStylists \/ FindSalons \/ HideBlockedOwners \/ ClosePage

DiscoveryNext == PageNext \/ (MembershipNext /\ Watch)
DiscoverySpec == MembershipInit /\ DiscoveryInit /\ [][DiscoveryNext]_<<membershipVars, pageVars>>

-----------------------------------------------------------------------------
(* Properties *)

(* Who can be booked in a salon all the time that a page is put together is  *)
(* on it, and so is a salon that is open all that time: no change of         *)
(* something else, between whichever of its queries, hides them.  A list      *)
(* that is full may leave out any salon.                                      *)
PagesMissNobody ==
    page.step = "shown" /\ ~page.more =>
        {w \in always : page.of = "salon" => w[2] = page.salon} \subseteq page.shown

(* A page shows nobody who could not be booked at any time since it was asked *)
(* for, and no salon that was never open: it takes two changes between its    *)
(* queries to mix a page that was never true.                                 *)
PagesShowWhatWasThere == page.step = "shown" /\ changes <= 1 => page.shown \subseteq ever
=============================================================================
