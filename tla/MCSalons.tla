------------------------------ MODULE MCSalons ------------------------------
(***************************************************************************)
(* SalonMembership and WorkingHours for TLC.  A behaviour plays one scene, *)
(* and what the scene does not move stays as it was at its start.          *)
(***************************************************************************)
EXTENDS WorkingHours, Discovery, TLC

CONSTANTS x, y, o, s1, s2, h1, h2, e1, e2, i1, i2, b1

VARIABLE scene

Day == {<<0, 2>>, <<1, 3>>, <<2, 4>>}
OpenDays == {{<<0, 4>>}, {<<0, 2>>}}

Scenes == {"claims", "members", "pages", "hours", "bookings", "leaving"}

\* a salon of o in which the worker is an active member; another of y fills the list
OneSalon == [s \in Salons |-> IF s = s1 THEN [status |-> "active", owner |-> o] ELSE NoSalon]
TwoSalons == [OneSalon EXCEPT ![s2] = [status |-> "active", owner |-> y]]
OneMember == [m \in Pairs |-> IF m = <<Worker, s1>> THEN [status |-> "active", by |-> "stylist"] ELSE NoLink]
TwoMembers == [OneMember EXCEPT ![<<y, s2>>] = [status |-> "active", by |-> "stylist"]]

InitPages ==
    /\ \/ salon = OneSalon /\ link = OneMember
       \/ salon = TwoSalons /\ link = TwoMembers
    /\ welcome = {m \in Pairs : link[m] # NoLink}
    /\ place \in [Stylists -> {"salon", "freelance"}] /\ place[y] = "salon"
    /\ accepting \in {Stylists, Stylists \ {x}} /\ restricted \in SUBSET {x, o}
    /\ \A s \in Salons : opening[s] = {<<0, 4>>}

InitOthers ==
    /\ salon = IF scene = "claims" THEN [s \in Salons |-> NoSalon] ELSE OneSalon
    /\ link = IF scene = "claims" THEN [m \in Pairs |-> NoLink] ELSE OneMember
    /\ welcome = IF scene = "claims" THEN {} ELSE {<<Worker, s1>>}
    /\ place \in [Stylists -> IF scene \in {"hours", "bookings"} THEN {"freelance", "none"} ELSE {"none"}] /\ place[y] = "none"
    /\ accepting = Stylists /\ restricted = {}
    /\ \A s \in Salons \ {s1} : opening[s] = {<<0, 4>>}

Init ==
    /\ scene \in Scenes
    /\ invite = [s \in Salons |-> NoInvite] /\ late = {} /\ owners = {o}
    /\ handler = [h \in Handlers |-> Idle]
    /\ HoursInit /\ DiscoveryInit
    /\ IF scene = "pages" THEN InitPages ELSE InitOthers

\* one page, and at most two changes before it is shown; the request that makes one
\* writes as soon as it has read
PagesNext ==
    /\ \/ PageNext /\ \A h \in Handlers : handler[h] = Idle
       \/ /\ page.step \notin {"closed", "shown"} /\ changes < 2
          /\ \/ \E status \in {"active", "pending"} : SetSalonStatus(s1, status)
             \/ ProfileNext /\ place'[y] = place[y] /\ y \in accepting' /\ y \notin restricted'
             \/ LinkNext
          /\ Watch
    /\ handler'[h2] = Idle
    /\ handler'[h1] # Idle => handler'[h1].on = <<Worker, s1>> /\ handler'[h1].op \in {"join", "approve", "reject", "leave"}
    /\ scene' = IF page # Closed /\ page' = Closed THEN "shown" ELSE scene
    /\ UNCHANGED hourVars

OtherNext ==
    /\ \/ scene = "claims" /\ (InviteNext \/ SalonNext) /\ salon'[s2] = NoSalon /\ UNCHANGED hourVars
       \/ scene = "members" /\ LinkNext /\ UNCHANGED hourVars
       \/ scene \in {"hours", "bookings", "leaving"} /\ HoursNext /\ UNCHANGED membershipVars
       \/ scene \in {"bookings", "leaving"} /\ BookNext /\ UNCHANGED membershipVars
       \/ scene = "leaving" /\ WorkplaceNext /\ UNCHANGED hourVars
       \/ scene = "leaving" /\ \E h \in Handlers : DeleteLink(h) /\ LeaveHours(h)
    /\ scene \in {"bookings", "leaving"} => apart' /\ editor'[e2] = Ready /\ handler'[h2] = Idle
    /\ scene = "leaving" => /\ Cardinality(Used') <= 1
                            /\ editor'[e1] # Ready => \A new \in editor'[e1].new : new.place # Freelance
                            /\ asking'[b1].step = "insert" => asking'[b1].span \in Day
                            /\ asking[b1].step = "hours" => asking'[b1] # asking[b1]
    /\ UNCHANGED <<pageVars, scene>>

Next == (scene = "pages" /\ PagesNext) \/ OtherNext

Spec == Init /\ [][Next]_<<membershipVars, hourVars, pageVars, scene>>

Symmetry == Permutations({h1, h2}) \cup Permutations({i1, i2}) \cup Permutations({e1, e2})
=============================================================================
