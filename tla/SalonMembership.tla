-------------------------- MODULE SalonMembership --------------------------
(***************************************************************************)
(* Salons, the stylists' memberships in them, and the invites by which the *)
(* real owner of a salon claims it; who can be booked and who is listed    *)
(* follow from them.                                                       *)
(*                                                                         *)
(* A handler reads a document and saves it later.  mongoose's save writes  *)
(* the paths that differ from what was read, and fails on a document that  *)
(* was deleted; a membership deleted and made again is another document.   *)
(***************************************************************************)
EXTENDS Integers, FiniteSets

CONSTANTS
    Users,        \* accounts, by their phone
    Stylists,     \* those with a stylist profile
    Salons,       \* salons there may be; each has at most one invite
    Handlers,     \* requests that read and save
    NoUser

ASSUME MembershipAssumption == Stylists \subseteq Users /\ IsFiniteSet(Stylists) /\ NoUser \notin Users

VARIABLES
    salon,        \* status and ownerId of each Salon
    link,         \* the StylistSalon of each stylist and salon
    welcome,      \* links whose owner ever approved or invited the stylist
    invite,       \* the SalonInvite of each salon: status, requestedBy, targetPhone
    late,         \* invites past their expiresAt
    owners,       \* users with the owner role
    place,        \* StylistProfile.workplaceType
    accepting,    \* stylists with isAcceptingReservations
    restricted,   \* foreign nationals who are not approved
    handler       \* what each request has read

salonVars == <<salon, invite, late, owners>>
linkVars == <<link, welcome>>
profileVars == <<place, accepting, restricted>>
membershipVars == <<salonVars, linkVars, profileVars, handler>>

Pairs == Stylists \X Salons
NoSalon == [status |-> "none", owner |-> NoUser]
SalonDocs == [status : {"none", "pending", "active", "deleted"}, owner : Users \cup {NoUser}]
NoLink == [status |-> "none", by |-> "stylist"]
LinkDocs == [status : {"none", "pending", "active", "rejected"}, by : {"stylist", "owner"}]
NoInvite == [status |-> "none", by |-> NoUser, to |-> NoUser]
InviteDocs == [status : {"none", "pending", "expired", "completed", "deleted"},
               by : Stylists \cup {NoUser}, to : Users \cup {NoUser}]
Idle == [op |-> "idle"]
LinkOps == {"join", "invite", "approve", "reject", "reinvite", "accept", "decline", "leave"}
LinkCalls == [op : LinkOps, on : Pairs, seen : LinkDocs, alive : BOOLEAN]
InviteCalls == [op : {"claim", "enter", "activate", "complete", "cancel", "withdraw", "remove",
                      "resend", "expire"},
                salon : Salons, seen : InviteDocs, owner : Users \cup {NoUser}]

MembershipTypeOK ==
    /\ salon \in [Salons -> SalonDocs]
    /\ link \in [Pairs -> LinkDocs]
    /\ welcome \subseteq Pairs
    /\ invite \in [Salons -> InviteDocs]
    /\ late \subseteq Salons
    /\ owners \subseteq Users
    /\ place \in [Stylists -> {"none", "freelance", "salon"}]
    /\ accepting \subseteq Stylists
    /\ restricted \subseteq Users
    /\ handler \in [Handlers -> LinkCalls \cup InviteCalls \cup {Idle}]

MembershipInit ==
    /\ salon = [s \in Salons |-> NoSalon]
    /\ link = [m \in Pairs |-> NoLink]
    /\ welcome = {}
    /\ invite = [s \in Salons |-> NoInvite]
    /\ late = {}
    /\ owners = {}
    /\ place = [x \in Stylists |-> "none"]
    /\ accepting = Stylists
    /\ restricted = {}
    /\ handler = [h \in Handlers |-> Idle]

Exists(s) == salon[s].status \in {"pending", "active"}
Unless(same, old, new) == IF same THEN old ELSE new
Finish(h) == handler' = [handler EXCEPT ![h] = Idle]

-----------------------------------------------------------------------------
(* New salons *)

CreateOwnSalon(x, s) ==
    /\ salon[s] = NoSalon
    /\ salon' = [salon EXCEPT ![s] = [status |-> "active", owner |-> x]]
    /\ owners' = owners \cup {x}
    /\ link' = [link EXCEPT ![<<x, s>>] = [status |-> "active", by |-> "stylist"]]
    /\ welcome' = welcome \cup {<<x, s>>}
    /\ place' = [place EXCEPT ![x] = "salon"]
    /\ UNCHANGED <<invite, late, accepting, restricted, handler>>

CreateSalonInvite(x, s, to) ==
    /\ salon[s] = NoSalon
    /\ salon' = [salon EXCEPT ![s] = [status |-> "pending", owner |-> NoUser]]
    /\ invite' = [invite EXCEPT ![s] = [status |-> "pending", by |-> x, to |-> to]]
    /\ link' = [link EXCEPT ![<<x, s>>] = [status |-> "pending", by |-> "stylist"]]
    /\ place' = [place EXCEPT ![x] = "salon"]
    /\ UNCHANGED <<late, owners, welcome, accepting, restricted, handler>>

\* setSalonStatus of an admin
SetSalonStatus(s, status) ==
    /\ Exists(s)
    /\ salon' = [salon EXCEPT ![s].status = status]
    /\ UNCHANGED <<invite, late, owners, linkVars, profileVars, handler>>

-----------------------------------------------------------------------------
(* Memberships: a call finds the link, tests it, and writes it later *)

ReadLink(h, op, m) ==
    /\ handler[h] = Idle
    /\ handler' = [handler EXCEPT ![h] = [op |-> op, on |-> m, seen |-> link[m], alive |-> TRUE]]
    /\ UNCHANGED <<salonVars, linkVars, profileVars>>

Linked(m) == link[m].status # "none"

JoinSalon(h, m) == Exists(m[2]) /\ ~Linked(m) /\ ReadLink(h, "join", m)

\* requireSalonOwner let the owner through, and only the status is tested
ApproveStylist(h, m) ==
    /\ Exists(m[2]) /\ salon[m[2]].owner # NoUser
    /\ link[m].status \in {"pending", "rejected"}
    /\ ReadLink(h, "approve", m)

RejectStylist(h, m) ==
    /\ Exists(m[2]) /\ salon[m[2]].owner # NoUser
    /\ Linked(m)
    /\ ReadLink(h, "reject", m)

InviteStylistToSalon(h, m) ==
    /\ salon[m[2]].status = "active"
    /\ salon[m[2]].owner \notin {NoUser, m[1]}
    /\ \/ ~Linked(m) /\ ReadLink(h, "invite", m)
       \/ link[m].status = "rejected" /\ ReadLink(h, "reinvite", m)

\* a stylist answers what the owner asked
RespondUnasked(h, m) ==
    /\ link[m].status = "pending"
    /\ \E op \in {"accept", "decline"} : ReadLink(h, op, m)

RespondToSalonRequest(h, m) ==
    /\ link[m].status = "pending"
    /\ link[m].by = "owner"
    /\ \E op \in {"accept", "decline"} : ReadLink(h, op, m)

LeaveSalon(h, m) == Linked(m) /\ ReadLink(h, "leave", m)

Target(op) ==
    CASE op \in {"approve", "accept"} -> "active"
      [] op \in {"reject", "decline"} -> "rejected"
      [] op \in {"join", "invite", "reinvite"} -> "pending"

\* the unique index refuses a second link
InsertLink(h) ==
    LET m == handler[h].on  op == handler[h].op IN
    /\ op \in {"join", "invite"}
    /\ IF Linked(m)
       THEN UNCHANGED <<linkVars, place>>
       ELSE /\ link' = [link EXCEPT ![m] = [status |-> "pending", by |-> IF op = "join" THEN "stylist" ELSE "owner"]]
            /\ welcome' = IF op = "invite" THEN welcome \cup {m} ELSE welcome
            /\ place' = IF op = "join" THEN [place EXCEPT ![m[1]] = "salon"] ELSE place
    /\ Finish(h)
    /\ UNCHANGED <<salonVars, accepting, restricted>>

SaveLink(h) ==
    LET m == handler[h].on  op == handler[h].op  seen == handler[h].seen IN
    /\ op \in {"approve", "reject", "reinvite", "accept", "decline"}
    /\ IF handler[h].alive
       THEN /\ link' = [link EXCEPT ![m] =
                          [status |-> Unless(Target(op) = seen.status, link[m].status, Target(op)),
                           by |-> IF op = "reinvite" THEN Unless(seen.by = "owner", link[m].by, "owner")
                                                     ELSE link[m].by]]
            /\ welcome' = IF op \in {"approve", "reinvite"} THEN welcome \cup {m} ELSE welcome
       ELSE UNCHANGED linkVars
    /\ Finish(h)
    /\ UNCHANGED <<salonVars, profileVars>>

\* the requests that hold a link which is removed now
Orphaned(m, h) ==
    [q \in Handlers |-> CASE q = h -> Idle
                          [] q # h /\ handler[q].op \in LinkOps /\ handler[q].on = m ->
                                [handler[q] EXCEPT !.alive = FALSE]
                          [] OTHER -> handler[q]]

\* with the working hours there (WorkingHours!LeaveHours)
DeleteLink(h) ==
    LET m == handler[h].on IN
    /\ handler[h].op = "leave"
    /\ IF handler[h].alive
       THEN /\ link' = [link EXCEPT ![m] = NoLink]
            /\ welcome' = welcome \ {m}
            /\ handler' = Orphaned(m, h)
       ELSE UNCHANGED linkVars /\ Finish(h)
    /\ UNCHANGED <<salonVars, profileVars>>

-----------------------------------------------------------------------------
(* Invites *)

ReadInvite(h, op, s) ==
    /\ handler[h] = Idle
    /\ handler' = [handler EXCEPT ![h] = [op |-> op, salon |-> s, seen |-> invite[s], owner |-> NoUser]]
    /\ UNCHANGED <<salonVars, linkVars, profileVars>>

InviteExists(s) == invite[s].status \notin {"none", "deleted"}

ExpiryPasses(s) ==
    /\ InviteExists(s) /\ s \notin late
    /\ late' = late \cup {s}
    /\ UNCHANGED <<salon, invite, owners, linkVars, profileVars, handler>>

AcceptInvite(h, s) == invite[s].status = "pending" /\ s \notin late /\ ReadInvite(h, "claim", s)
CancelInvite(h, s) == invite[s].status \in {"pending", "expired"} /\ ReadInvite(h, "cancel", s)
ResendInvite(h, s) == invite[s].status \in {"pending", "expired"} /\ ReadInvite(h, "resend", s)
ExpireIfNeeded(h, s) == invite[s].status = "pending" /\ s \in late /\ ReadInvite(h, "expire", s)

At(h, op) == handler[h].op = op
Step(h, op) == handler' = [handler EXCEPT ![h].op = op]

GrantOwnerRole(h) ==
    /\ At(h, "claim")
    /\ owners' = owners \cup {handler[h].seen.to}
    /\ Step(h, "enter")
    /\ UNCHANGED <<salon, invite, late, linkVars, profileVars>>

ReadSalonToClaim(h) ==
    /\ At(h, "enter")
    /\ LET s == handler[h].salon IN
       handler' = [handler EXCEPT ![h] = IF Exists(s) THEN [@ EXCEPT !.op = "activate", !.owner = salon[s].owner]
                                                      ELSE Idle]
    /\ UNCHANGED <<salonVars, linkVars, profileVars>>

ClaimSalon(h) ==
    LET s == handler[h].salon  to == handler[h].seen.to IN
    /\ At(h, "activate")
    /\ IF Exists(s)
       THEN /\ salon' = [salon EXCEPT ![s] = [status |-> "active",
                                              owner |-> Unless(handler[h].owner = to, salon[s].owner, to)]]
            /\ Step(h, "complete")
       ELSE UNCHANGED salon /\ Finish(h)
    /\ UNCHANGED <<invite, late, owners, linkVars, profileVars>>

SaveInvite(h) ==
    LET s == handler[h].salon  seen == handler[h].seen IN
    /\ \/ At(h, "complete") /\ invite' = [invite EXCEPT ![s].status = IF InviteExists(s) THEN "completed" ELSE @]
                            /\ UNCHANGED late
       \/ At(h, "expire") /\ invite' = [invite EXCEPT ![s].status = IF InviteExists(s) THEN "expired" ELSE @]
                          /\ UNCHANGED late
       \/ At(h, "resend") /\ invite' = [invite EXCEPT ![s].status =
                                           IF InviteExists(s) THEN Unless(seen.status = "pending", @, "pending") ELSE @]
                          /\ late' = late \ {s}
    /\ Finish(h)
    /\ UNCHANGED <<salon, owners, linkVars, profileVars>>

DeleteInvite(h) ==
    /\ At(h, "cancel")
    /\ invite' = [invite EXCEPT ![handler[h].salon].status = "deleted"]
    /\ Step(h, "withdraw")
    /\ UNCHANGED <<salon, late, owners, linkVars, profileVars>>

\* "only if still unclaimed": the salon as it is read here
CheckUnclaimed(h) ==
    LET s == handler[h].salon IN
    /\ At(h, "withdraw")
    /\ handler' = [handler EXCEPT ![h] = IF salon[s].status = "pending" /\ salon[s].owner = NoUser
                                          THEN [@ EXCEPT !.op = "remove"] ELSE Idle]
    /\ UNCHANGED <<salonVars, linkVars, profileVars>>

\* the pending membership of the stylist and the salon, in this order
RemoveSalon(h) ==
    LET s == handler[h].salon  m == <<handler[h].seen.by, s>> IN
    /\ At(h, "remove")
    /\ IF link[m].status = "pending"
       THEN /\ link' = [link EXCEPT ![m] = NoLink]
            /\ welcome' = welcome \ {m}
            /\ handler' = Orphaned(m, h)
       ELSE UNCHANGED linkVars /\ Finish(h)
    /\ salon' = [salon EXCEPT ![s] = [status |-> "deleted", owner |-> NoUser]]
    /\ UNCHANGED <<invite, late, owners, profileVars>>

\* the process stops, or a call fails
CrashHandler(h) ==
    /\ handler[h] # Idle
    /\ Finish(h)
    /\ UNCHANGED <<salonVars, linkVars, profileVars>>

-----------------------------------------------------------------------------
(* The profile, and the approval of foreign nationals *)

SetWorkplaceType(x, type) ==
    /\ place' = [place EXCEPT ![x] = type]
    /\ UNCHANGED <<salonVars, linkVars, accepting, restricted, handler>>

SetFreelance(x) == SetWorkplaceType(x, "freelance")

SetAcceptingReservations(x, on) ==
    /\ accepting' = IF on THEN accepting \cup {x} ELSE accepting \ {x}
    /\ UNCHANGED <<salonVars, linkVars, place, restricted, handler>>

\* a user declares to be a foreign national, or an admin decides on one
DecideForeign(u) ==
    /\ restricted' = IF u \in restricted THEN restricted \ {u} ELSE restricted \cup {u}
    /\ UNCHANGED <<salonVars, linkVars, place, accepting, handler>>

-----------------------------------------------------------------------------
(* Who can be booked, for one stylist and for many at once *)

Restricted(ids) == ids \cap restricted

Profile(x) == [freelance |-> place[x] = "freelance", accepting |-> x \in accepting]

\* the reason is for the client; the salons are dropped for a restricted stylist
DecideBookability(profile, activeSalons, isRestricted) ==
    [bookable |-> /\ ~isRestricted
                  /\ profile.freelance \/ activeSalons # {}
                  /\ profile.accepting,
     freelance |-> profile.freelance,
     salons |-> IF isRestricted THEN {} ELSE activeSalons]

ResolveActiveSalons(x) ==
    LET active == {s \in Salons : link[<<x, s>>].status = "active" /\ salon[s].status = "active"}
        blocked == Restricted({salon[s].owner : s \in active} \ {NoUser})
    IN  {s \in active : salon[s].owner \notin blocked}

GetBookability(x) == DecideBookability(Profile(x), ResolveActiveSalons(x), x \in restricted)

\* the reads of the bulk query are taken apart in Discovery
GetBookabilityMap(xs) ==
    LET linked == {s \in Salons : \E x \in xs : link[<<x, s>>].status = "active"}
        activeSalons == {s \in linked : salon[s].status = "active"}
        blocked == Restricted({salon[s].owner : s \in activeSalons} \ {NoUser})
        visible == {s \in activeSalons : salon[s].owner \notin blocked}
    IN  [x \in xs |-> DecideBookability(Profile(x), {s \in visible : link[<<x, s>>].status = "active"},
                                        x \in Restricted(xs))]

-----------------------------------------------------------------------------

LinkNext ==
    \E h \in Handlers :
        \/ \E m \in Pairs :
              \/ JoinSalon(h, m) \/ ApproveStylist(h, m) \/ RejectStylist(h, m) \/ InviteStylistToSalon(h, m)
              \/ RespondToSalonRequest(h, m) \/ LeaveSalon(h, m)
        \/ InsertLink(h) \/ SaveLink(h) \/ DeleteLink(h) \/ CrashHandler(h)

InviteNext ==
    \/ \E x \in Stylists, s \in Salons, to \in Users : CreateSalonInvite(x, s, to)
    \/ \E s \in Salons : ExpiryPasses(s)
    \/ \E h \in Handlers :
          \/ \E s \in Salons : AcceptInvite(h, s) \/ CancelInvite(h, s) \/ ResendInvite(h, s) \/ ExpireIfNeeded(h, s)
          \/ GrantOwnerRole(h) \/ ReadSalonToClaim(h) \/ ClaimSalon(h) \/ SaveInvite(h)
          \/ DeleteInvite(h) \/ CheckUnclaimed(h) \/ RemoveSalon(h) \/ CrashHandler(h)

SalonNext ==
    \E s \in Salons :
        \/ \E x \in Stylists : CreateOwnSalon(x, s)
        \/ \E status \in {"active", "pending"} : SetSalonStatus(s, status)

ProfileNext ==
    \/ \E x \in Stylists :
          \/ SetWorkplaceType(x, "salon") \/ SetFreelance(x)
          \/ \E on \in BOOLEAN : SetAcceptingReservations(x, on)
    \/ \E u \in Users : DecideForeign(u)

MembershipNext == LinkNext \/ InviteNext \/ SalonNext \/ ProfileNext
MembershipSpec == MembershipInit /\ [][MembershipNext]_membershipVars

-----------------------------------------------------------------------------
(* Properties *)

(* Nobody works in a salon whose owner never approved or invited them, in   *)
(* whatever order requests, answers, departures and stale saves arrive.      *)
OwnerAgreedOnce == \A m \in Pairs : link[m].status = "active" => m \in welcome
=============================================================================
