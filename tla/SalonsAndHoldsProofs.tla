------------------------ MODULE SalonsAndHoldsProofs ------------------------
(***************************************************************************)
(* The two things a booking stands on.  That nobody works in a salon whose *)
(* owner did not agree, that a page put together query by query misses     *)
(* nobody who could be booked throughout, and that hours and what is       *)
(* offered agree; and that a payment is applied once and only if the       *)
(* gateway captured it, that the pages shown stay true, and that a paid    *)
(* booking keeps its credit: for any number of users, salons, requests,    *)
(* pages, orders, callbacks and servers.                                   *)
(***************************************************************************)
EXTENDS WorkingHours, Discovery, HoldPayment, FinanceProofs

(* Salons and memberships                                                  *)

USE DEF salonVars, linkVars, profileVars, membershipVars, Finish

\* A link that the owner began was welcome from the start; so is one that a
\* stylist is about to accept, unless it was deleted meanwhile.
OwnerAsked ==
    /\ \A m \in Pairs : link[m].by = "owner" => m \in welcome
    /\ \A h \in Handlers : handler[h].op = "accept" /\ handler[h].alive => handler[h].on \in welcome

\* An invite, and the request that claims its salon, is addressed to somebody.
Addressed ==
    /\ \A s \in Salons : InviteExists(s) => invite[s].to \in Users
    /\ \A h \in Handlers : handler[h].op \in {"claim", "enter", "activate", "complete"} => handler[h].seen.to \in Users

MembershipInv == MembershipTypeOK /\ Addressed /\ OwnerAsked /\ OwnerAgreedOnce

-----------------------------------------------------------------------------
(* Types *)

\* Requests that lose their link keep their types.
LEMMA OrphanedType ==
  ASSUME MembershipTypeOK, NEW m, NEW h \in Handlers
  PROVE  Orphaned(m, h) \in [Handlers -> LinkCalls \cup InviteCalls \cup {Idle}]
  <1>1. ASSUME NEW q \in Handlers
        PROVE  Orphaned(m, h)[q] \in LinkCalls \cup InviteCalls \cup {Idle}
    <2>1. CASE handler[q].op \in LinkOps
      <3>1. handler[q] \in LinkCalls
        BY <2>1 DEF MembershipTypeOK, InviteCalls, LinkOps, Idle
      <3>2. [handler[q] EXCEPT !.alive = FALSE] \in LinkCalls
        BY <3>1 DEF LinkCalls
      <3>3. QED
        BY <3>1, <3>2 DEF Orphaned
    <2>2. CASE handler[q].op \notin LinkOps
      BY <2>2 DEF Orphaned, MembershipTypeOK
    <2>3. QED
      BY <2>1, <2>2
  <1>2. QED
    BY <1>1 DEF Orphaned

\* An invite whose status alone is changed is an invite.
LEMMA WithStatus ==
  ASSUME MembershipTypeOK, NEW s \in Salons,
         NEW becomes \in {"none", "pending", "expired", "completed", "deleted"}
  PROVE  [invite[s] EXCEPT !.status = becomes] \in InviteDocs
  <1>1. invite[s] \in InviteDocs
    BY DEF MembershipTypeOK
  <1>2. QED
    BY <1>1 DEF InviteDocs

\* Its own status is one of those.
LEMMA ItsStatus ==
  ASSUME MembershipTypeOK, NEW s \in Salons
  PROVE  invite[s].status \in {"none", "pending", "expired", "completed", "deleted"}
  <1>1. invite[s] \in InviteDocs
    BY DEF MembershipTypeOK
  <1>2. QED
    BY <1>1 DEF InviteDocs

\* A request that loses its link goes on as it was, or has ended.
LEMMA OrphanedOps ==
  ASSUME MembershipTypeOK, NEW m, NEW h \in Handlers, NEW q \in Handlers
  PROVE  \/ Orphaned(m, h)[q] = Idle
         \/ Orphaned(m, h)[q] = handler[q] /\ (handler[q].op \in LinkOps => handler[q].on # m)
         \/ /\ handler[q].op \in LinkOps
            /\ Orphaned(m, h)[q].op = handler[q].op /\ Orphaned(m, h)[q].on = handler[q].on
            /\ ~Orphaned(m, h)[q].alive
  <1>1. CASE q # h /\ handler[q].op \in LinkOps /\ handler[q].on = m
    <2>1. handler[q] \in LinkCalls
      BY <1>1 DEF MembershipTypeOK, InviteCalls, LinkOps, Idle
    <2>2. Orphaned(m, h)[q] = [handler[q] EXCEPT !.alive = FALSE]
      BY <1>1 DEF Orphaned
    <2>3. QED
      BY <1>1, <2>1, <2>2 DEF LinkCalls
  <1>2. CASE ~(q # h /\ handler[q].op \in LinkOps /\ handler[q].on = m)
    BY <1>2 DEF Orphaned
  <1>3. QED
    BY <1>1, <1>2

\* Every action on links keeps the types.
LEMMA LinkTypes ==
  ASSUME MembershipTypeOK, LinkNext
  PROVE  MembershipTypeOK'
  <1> USE MembershipAssumption DEF MembershipTypeOK, LinkCalls, LinkOps, LinkDocs, Pairs, Idle
  <1>1. ASSUME NEW h \in Handlers, NEW m \in Pairs, NEW op \in LinkOps, ReadLink(h, op, m)
        PROVE  MembershipTypeOK'
    <2>1. [op |-> op, on |-> m, seen |-> link[m], alive |-> TRUE] \in LinkCalls
      OBVIOUS
    <2>2. QED
      BY <1>1, <2>1 DEF ReadLink
  <1>2. ASSUME NEW h \in Handlers, InsertLink(h)
        PROVE  MembershipTypeOK'
    <2>1. handler[h].on \in Pairs /\ handler[h].on[1] \in Stylists
      BY <1>2 DEF InsertLink, InviteCalls
    <2> DEFINE m == handler[h].on
               new == [status |-> "pending", by |-> IF handler[h].op = "join" THEN "stylist" ELSE "owner"]
    <2>2. new \in LinkDocs
      OBVIOUS
    <2>3. /\ link' = [link EXCEPT ![m] = new] \/ link' = link
          /\ welcome' = welcome \cup {m} \/ welcome' = welcome
          /\ place' = [place EXCEPT ![m[1]] = "salon"] \/ place' = place
          /\ handler' = [handler EXCEPT ![h] = Idle]
          /\ UNCHANGED <<salonVars, accepting, restricted>>
      BY <1>2 DEF InsertLink
    <2> HIDE DEF new
    <2>4. link' \in [Pairs -> LinkDocs]
      BY <2>1, <2>2, <2>3 DEF MembershipTypeOK
    <2>5. welcome' \subseteq Pairs
      BY <2>1, <2>3 DEF MembershipTypeOK
    <2>6. QED
      BY <2>1, <2>3, <2>4, <2>5
  <1>3. ASSUME NEW h \in Handlers, SaveLink(h)
        PROVE  MembershipTypeOK'
    <2> DEFINE m == handler[h].on  op == handler[h].op  seen == handler[h].seen
               now == [status |-> Unless(Target(op) = seen.status, link[m].status, Target(op)),
                       by |-> IF op = "reinvite" THEN Unless(seen.by = "owner", link[m].by, "owner")
                              ELSE link[m].by]
    <2>1. m \in Pairs /\ op \in {"approve", "reject", "reinvite", "accept", "decline"}
      BY <1>3 DEF SaveLink, InviteCalls
    <2>2. Target(op) \in {"active", "rejected", "pending"}
      BY <2>1 DEF Target
    <2>3. now \in LinkDocs
      BY <2>1, <2>2 DEF Unless
    <2>4. (link' = [link EXCEPT ![m] = now] \/ link' = link) /\ (welcome' = welcome \cup {m} \/ welcome' = welcome)
      BY <1>3 DEF SaveLink
    <2>5. QED
      BY <1>3, <2>1, <2>3, <2>4 DEF SaveLink
  <1>4. ASSUME NEW h \in Handlers, DeleteLink(h)
        PROVE  MembershipTypeOK'
    <2>1. handler[h].on \in Pairs
      BY <1>4 DEF DeleteLink, InviteCalls
    <2>2. Orphaned(handler[h].on, h) \in [Handlers -> LinkCalls \cup InviteCalls \cup {Idle}]
      BY OrphanedType
    <2>3. NoLink \in LinkDocs
      BY DEF NoLink
    <2>4. /\ link' = [link EXCEPT ![handler[h].on] = NoLink] \/ link' = link
          /\ welcome' \subseteq welcome
          /\ handler' = Orphaned(handler[h].on, h) \/ handler' = [handler EXCEPT ![h] = Idle]
          /\ UNCHANGED <<salonVars, profileVars>>
      BY <1>4 DEF DeleteLink
    <2>5. handler' \in [Handlers -> LinkCalls \cup InviteCalls \cup {Idle}]
      BY <2>2, <2>4
    <2>6. link' \in [Pairs -> LinkDocs]
      BY <2>1, <2>3, <2>4
    <2>7. QED
      BY <2>4, <2>5, <2>6
  <1>5. ASSUME NEW h \in Handlers, CrashHandler(h)
        PROVE  MembershipTypeOK'
    BY <1>5 DEF CrashHandler
  <1>6. QED
    BY <1>1, <1>2, <1>3, <1>4, <1>5
       DEF LinkNext, JoinSalon, ApproveStylist, RejectStylist, InviteStylistToSalon, RespondToSalonRequest, LeaveSalon

\* What a request on an invite is at.
InviteOps == {"claim", "enter", "activate", "complete", "cancel", "withdraw", "remove", "resend", "expire"}

\* What such a request carries, and that it can go on to any of its steps.
LEMMA InviteRequest ==
  ASSUME MembershipTypeOK, NEW h \in Handlers, handler[h].op \in InviteOps
  PROVE  /\ handler[h] \in InviteCalls
         /\ handler[h].salon \in Salons
         /\ handler[h].seen \in InviteDocs
         /\ handler[h].owner \in Users \cup {NoUser}
         /\ \A op \in InviteOps : /\ [handler[h] EXCEPT !.op = op] \in InviteCalls
                                  /\ [handler[h] EXCEPT !.op = op].op = op
                                  /\ [handler[h] EXCEPT !.op = op].seen = handler[h].seen
  <1>1. handler[h] \in InviteCalls
    BY DEF MembershipTypeOK, LinkCalls, LinkOps, InviteOps, Idle
  <1>2. QED
    BY <1>1 DEF InviteCalls, InviteOps

\* Every action on invites keeps the types.
LEMMA InviteTypes ==
  ASSUME MembershipTypeOK, Addressed, InviteNext
  PROVE  MembershipTypeOK'
  <1> USE MembershipAssumption DEF MembershipTypeOK, InviteDocs, SalonDocs, Idle
  <1>1. ASSUME NEW x \in Stylists, NEW s \in Salons, NEW to \in Users, CreateSalonInvite(x, s, to)
        PROVE  MembershipTypeOK'
    BY <1>1 DEF CreateSalonInvite, LinkDocs, Pairs
  <1>2. ASSUME NEW s \in Salons, ExpiryPasses(s)
        PROVE  MembershipTypeOK'
    BY <1>2 DEF ExpiryPasses
  <1>3. ASSUME NEW h \in Handlers, NEW s \in Salons,
               NEW op \in {"claim", "cancel", "resend", "expire"}, ReadInvite(h, op, s)
        PROVE  MembershipTypeOK'
    <2>1. [op |-> op, salon |-> s, seen |-> invite[s], owner |-> NoUser] \in InviteCalls
      BY DEF InviteCalls
    <2>2. QED
      BY <1>3, <2>1 DEF ReadInvite
  <1>4. \A h \in Handlers : handler[h].op \in InviteOps =>
           /\ handler[h] \in InviteCalls
           /\ handler[h].salon \in Salons
           /\ handler[h].seen \in InviteDocs
           /\ handler[h].owner \in Users \cup {NoUser}
           /\ \A op \in InviteOps : [handler[h] EXCEPT !.op = op] \in InviteCalls
    BY InviteRequest
  <1> USE DEF InviteOps
  <1>5. ASSUME NEW h \in Handlers, GrantOwnerRole(h) \/ ReadSalonToClaim(h) \/ DeleteInvite(h) \/ CheckUnclaimed(h)
        PROVE  MembershipTypeOK'
    <2>1. handler[h].op \in InviteOps
      BY <1>5 DEF GrantOwnerRole, ReadSalonToClaim, DeleteInvite, CheckUnclaimed, At
    <2> DEFINE s == handler[h].salon
    <2>2. CASE GrantOwnerRole(h)
      <3>1. handler[h].seen.to \in Users
        BY <2>2 DEF Addressed, GrantOwnerRole, At
      <3>2. QED
        BY <1>4, <2>1, <2>2, <3>1 DEF GrantOwnerRole, Step
    <2>3. CASE ReadSalonToClaim(h)
      <3> DEFINE next == [handler[h] EXCEPT !.op = "activate", !.owner = salon[s].owner]
      <3>1. salon[s].owner \in Users \cup {NoUser}
        BY <1>4, <2>1
      <3>2. next \in InviteCalls
        <4>1. handler[h] \in InviteCalls
          BY <1>4, <2>1
        <4>2. PICK c \in InviteCalls, o \in Users \cup {NoUser} : c = handler[h] /\ o = salon[s].owner
          BY <3>1, <4>1
        <4>3. [c EXCEPT !.op = "activate", !.owner = o] \in InviteCalls
          BY <4>2 DEF InviteCalls
        <4>4. QED
          BY <4>2, <4>3
      <3>3. handler' = [handler EXCEPT ![h] = next] \/ handler' = [handler EXCEPT ![h] = Idle]
        BY <2>3 DEF ReadSalonToClaim
      <3>4. QED
        BY <2>3, <3>2, <3>3 DEF ReadSalonToClaim
    <2>4. CASE DeleteInvite(h)
      <3>1. [invite[s] EXCEPT !.status = "deleted"] \in InviteDocs
        <4>1. s \in Salons
          BY <1>4, <2>1
        <4> HIDE DEF MembershipTypeOK, InviteDocs
        <4>2. QED
          BY <4>1, WithStatus
      <3>2. QED
        BY <1>4, <2>1, <2>4, <3>1 DEF DeleteInvite, Step
    <2>5. CASE CheckUnclaimed(h)
      BY <1>4, <2>1, <2>5 DEF CheckUnclaimed
    <2>6. QED
      BY <1>5, <2>2, <2>3, <2>4, <2>5
  <1>6. ASSUME NEW h \in Handlers, ClaimSalon(h)
        PROVE  MembershipTypeOK'
    <2> DEFINE s == handler[h].salon
               to == handler[h].seen.to
               now == [status |-> "active", owner |-> Unless(handler[h].owner = to, salon[s].owner, to)]
               next == [handler[h] EXCEPT !.op = "complete"]
    <2>1. handler[h].op = "activate" /\ s \in Salons /\ to \in Users /\ next \in InviteCalls
      BY <1>4, <1>6 DEF ClaimSalon, At, Addressed
    <2>2. now \in SalonDocs
      BY <2>1 DEF Unless
    <2>3. /\ salon' = [salon EXCEPT ![s] = now] \/ salon' = salon
          /\ handler' = [handler EXCEPT ![h] = next] \/ handler' = [handler EXCEPT ![h] = Idle]
          /\ UNCHANGED <<invite, late, owners, linkVars, profileVars>>
      BY <1>6 DEF ClaimSalon, Step
    <2> HIDE DEF now, next
    <2>4. salon' \in [Salons -> SalonDocs]
      BY <2>1, <2>2, <2>3
    <2>5. handler' \in [Handlers -> LinkCalls \cup InviteCalls \cup {Idle}]
      BY <2>1, <2>3
    <2>6. QED
      BY <2>3, <2>4, <2>5
  <1>7. ASSUME NEW h \in Handlers, SaveInvite(h)
        PROVE  MembershipTypeOK'
    <2> DEFINE s == handler[h].salon
    <2>1. s \in Salons
      BY <1>4, <1>7 DEF SaveInvite, At
    <2>2. \A becomes \in {"completed", "expired", "pending", invite[s].status} :
              [invite[s] EXCEPT !.status = becomes] \in InviteDocs
      <3> HIDE DEF MembershipTypeOK, InviteDocs
      <3>1. invite[s].status \in {"none", "pending", "expired", "completed", "deleted"}
        BY <2>1, ItsStatus
      <3>2. QED
        BY <2>1, <3>1, WithStatus
    <2>3. /\ \E becomes \in {"completed", "expired", "pending", invite[s].status} :
                 invite' = [invite EXCEPT ![s] = [invite[s] EXCEPT !.status = becomes]]
          /\ late' \subseteq late
          /\ handler' = [handler EXCEPT ![h] = Idle]
          /\ UNCHANGED <<salon, owners, linkVars, profileVars>>
      BY <1>7 DEF SaveInvite, Unless
    <2>4. invite' \in [Salons -> InviteDocs]
      <3>1. PICK becomes \in {"completed", "expired", "pending", invite[s].status} :
                 invite' = [invite EXCEPT ![s] = [invite[s] EXCEPT !.status = becomes]]
        BY <2>3
      <3>2. [invite[s] EXCEPT !.status = becomes] \in InviteDocs
        BY <2>2
      <3>3. QED
        BY <2>1, <3>1, <3>2
    <2>5. QED
      BY <2>3, <2>4
  <1>8. ASSUME NEW h \in Handlers, RemoveSalon(h)
        PROVE  MembershipTypeOK'
    <2> DEFINE s == handler[h].salon
               m == <<handler[h].seen.by, s>>
    <2>1. s \in Salons
      BY <1>4, <1>8 DEF RemoveSalon, At
    <2>2. /\ salon' = [salon EXCEPT ![s] = [status |-> "deleted", owner |-> NoUser]]
          /\ link' = [link EXCEPT ![m] = NoLink] \/ link' = link
          /\ welcome' \subseteq welcome
          /\ handler' = Orphaned(m, h) \/ handler' = [handler EXCEPT ![h] = Idle]
          /\ UNCHANGED <<invite, late, owners, profileVars>>
      BY <1>8 DEF RemoveSalon
    <2>3. handler' \in [Handlers -> LinkCalls \cup InviteCalls \cup {Idle}]
      BY <2>2, OrphanedType
    <2>4. link' \in [Pairs -> LinkDocs]
      <3>1. NoLink \in LinkDocs
        BY DEF NoLink, LinkDocs
      <3>2. QED
        BY <2>2, <3>1
    <2>5. QED
      BY <2>1, <2>2, <2>3, <2>4
  <1>9. ASSUME NEW h \in Handlers, CrashHandler(h)
        PROVE  MembershipTypeOK'
    BY <1>9 DEF CrashHandler
  <1>10. QED
    BY <1>1, <1>2, <1>3, <1>5, <1>6, <1>7, <1>8, <1>9
       DEF InviteNext, AcceptInvite, CancelInvite, ResendInvite, ExpireIfNeeded

\* Every action of the invariant's types.
LEMMA MembershipTypes ==
  ASSUME MembershipTypeOK, Addressed, [MembershipNext]_membershipVars
  PROVE  MembershipTypeOK'
  <1>1. CASE SalonNext
    <2>1. ASSUME NEW s \in Salons, NEW x \in Stylists, CreateOwnSalon(x, s)
          PROVE  MembershipTypeOK'
      BY <2>1, MembershipAssumption DEF CreateOwnSalon, MembershipTypeOK, SalonDocs, LinkDocs, Pairs
    <2>2. ASSUME NEW s \in Salons, NEW becomes \in {"active", "pending"}, SetSalonStatus(s, becomes)
          PROVE  MembershipTypeOK'
      <3>1. [salon[s] EXCEPT !.status = becomes] \in SalonDocs
        BY DEF MembershipTypeOK, SalonDocs
      <3>2. QED
        BY <2>2, <3>1 DEF SetSalonStatus, MembershipTypeOK
    <2>3. QED
      BY <1>1, <2>1, <2>2 DEF SalonNext
  <1>2. CASE ProfileNext
    BY <1>2 DEF ProfileNext, SetWorkplaceType, SetFreelance, SetAcceptingReservations, DecideForeign, MembershipTypeOK
  <1>3. CASE UNCHANGED membershipVars
    BY <1>3 DEF MembershipTypeOK
  <1>4. QED
    BY <1>1, <1>2, <1>3, LinkTypes, InviteTypes DEF MembershipNext

-----------------------------------------------------------------------------
(* Invites are addressed *)

\* Actions on invites keep the address that an invite began with.
LEMMA StayAddressed ==
  ASSUME MembershipTypeOK, Addressed, [MembershipNext]_membershipVars
  PROVE  Addressed'
  <1> USE DEF MembershipTypeOK, Idle
  <1>1. ASSUME invite' = invite,
               \A h \in Handlers :
                  \/ handler'[h] = handler[h] \/ handler'[h] = Idle
                  \/ handler'[h].op \notin {"claim", "enter", "activate", "complete"}
                  \/ /\ handler[h].op \in {"claim", "enter", "activate", "complete"}
                     /\ handler'[h].seen = handler[h].seen
        PROVE  Addressed'
    BY <1>1 DEF Addressed, InviteExists
  <1>2. CASE LinkNext
    <2>1. ASSUME NEW h \in Handlers, NEW m \in Pairs, NEW op \in LinkOps, ReadLink(h, op, m)
          PROVE  Addressed'
      BY <1>1, <2>1 DEF ReadLink, LinkOps
    <2>2. ASSUME NEW h \in Handlers, InsertLink(h) \/ SaveLink(h) \/ CrashHandler(h)
          PROVE  Addressed'
      BY <1>1, <2>2 DEF InsertLink, SaveLink, CrashHandler
    <2>3. ASSUME NEW h \in Handlers, DeleteLink(h)
          PROVE  Addressed'
      BY <1>1, <2>3, OrphanedOps DEF DeleteLink, LinkOps
    <2>4. QED
      BY <1>2, <2>1, <2>2, <2>3
         DEF LinkNext, LinkOps, JoinSalon, ApproveStylist, RejectStylist, InviteStylistToSalon, RespondToSalonRequest,
             LeaveSalon
  <1>3. ASSUME NEW x \in Stylists, NEW s \in Salons, NEW to \in Users, CreateSalonInvite(x, s, to)
        PROVE  Addressed'
    BY <1>3 DEF CreateSalonInvite, Addressed, InviteExists
  <1>4. ASSUME NEW h \in Handlers, NEW s \in Salons,
               \/ AcceptInvite(h, s) \/ CancelInvite(h, s) \/ ResendInvite(h, s) \/ ExpireIfNeeded(h, s)
        PROVE  Addressed'
    <2>1. AcceptInvite(h, s) => invite[s].to \in Users
      BY DEF AcceptInvite, Addressed, InviteExists
    <2>2. QED
      BY <1>4, <2>1 DEF AcceptInvite, CancelInvite, ResendInvite, ExpireIfNeeded, ReadInvite, Addressed, InviteExists
  <1>5. ASSUME NEW h \in Handlers,
               \/ GrantOwnerRole(h) \/ ReadSalonToClaim(h) \/ ClaimSalon(h) \/ CheckUnclaimed(h)
        PROVE  Addressed'
    <2>1. handler[h] \in InviteCalls /\ handler[h].op \in {"claim", "enter", "activate", "withdraw"} /\ invite' = invite
      BY <1>5, InviteRequest DEF GrantOwnerRole, ReadSalonToClaim, ClaimSalon, CheckUnclaimed, At, InviteOps
    <2>2. \/ handler'[h] = Idle
          \/ handler'[h].op = "remove"
          \/ handler[h].op \in {"claim", "enter", "activate"} /\ handler'[h].seen = handler[h].seen
      <3>1. CASE GrantOwnerRole(h)
        BY <2>1, <3>1 DEF GrantOwnerRole, At, Step, InviteCalls
      <3>2. CASE ReadSalonToClaim(h)
        <4>1. \A o : \A c \in InviteCalls : [c EXCEPT !.op = "activate", !.owner = o].seen = c.seen
          BY DEF InviteCalls
        <4>2. QED
          BY <2>1, <3>2, <4>1 DEF ReadSalonToClaim, At
      <3>3. CASE ClaimSalon(h)
        BY <2>1, <3>3 DEF ClaimSalon, At, Step, InviteCalls
      <3>4. CASE CheckUnclaimed(h)
        BY <2>1, <3>4 DEF CheckUnclaimed, At, InviteCalls
      <3>5. QED
        BY <1>5, <3>1, <3>2, <3>3, <3>4
    <2>3. \A g \in Handlers \ {h} : handler'[g] = handler[g]
      BY <1>5 DEF GrantOwnerRole, ReadSalonToClaim, ClaimSalon, CheckUnclaimed, Step
    <2>4. QED
      BY <1>1, <2>1, <2>2, <2>3
  <1>6. ASSUME NEW h \in Handlers, SaveInvite(h) \/ DeleteInvite(h)
        PROVE  Addressed'
    <2> DEFINE s == handler[h].salon
    <2>1. PICK becomes \in {"completed", "expired", "pending", "deleted", invite[s].status} :
              /\ invite' = [invite EXCEPT ![s] = [invite[s] EXCEPT !.status = becomes]]
              /\ InviteExists(s) \/ becomes \in {"deleted", invite[s].status}
      BY <1>6 DEF SaveInvite, DeleteInvite, Unless
    <2>2. \A t \in Salons : InviteExists(t)' => InviteExists(t) /\ invite'[t].to = invite[t].to
      BY <2>1 DEF InviteExists, InviteDocs
    <2>3. \A g \in Handlers : handler'[g] = handler[g] \/ handler'[g] = Idle \/ handler'[g].op = "withdraw"
      <3>1. DeleteInvite(h) => [handler[h] EXCEPT !.op = "withdraw"].op = "withdraw"
        BY InviteRequest DEF DeleteInvite, At, InviteOps
      <3>2. QED
        BY <1>6, <3>1 DEF SaveInvite, DeleteInvite, Step
    <2>4. QED
      BY <2>2, <2>3 DEF Addressed
  <1>7. ASSUME NEW h \in Handlers, RemoveSalon(h)
        PROVE  Addressed'
    <2> DEFINE m == <<handler[h].seen.by, handler[h].salon>>
    <2>1. invite' = invite /\ (handler' = Orphaned(m, h) \/ handler' = [handler EXCEPT ![h] = Idle])
      BY <1>7 DEF RemoveSalon
    <2> HIDE DEF m
    <2>2. QED
      BY <1>1, <2>1, OrphanedOps DEF LinkOps
  <1>8. CASE (\E s \in Salons : ExpiryPasses(s)) \/ (\E h \in Handlers : CrashHandler(h))
    BY <1>1, <1>8 DEF ExpiryPasses, CrashHandler
  <1>9. CASE SalonNext \/ ProfileNext \/ UNCHANGED membershipVars
    BY <1>1, <1>9
       DEF SalonNext, CreateOwnSalon, SetSalonStatus, ProfileNext, SetWorkplaceType, SetFreelance,
           SetAcceptingReservations, DecideForeign
  <1>10. QED
    BY <1>2, <1>3, <1>4, <1>5, <1>6, <1>7, <1>8, <1>9 DEF MembershipNext, InviteNext

-----------------------------------------------------------------------------
(* Whom the owner agreed to *)

\* A step that leaves links and welcomes as they are, and begins no acceptance
\* but of what the owner asked.
LEMMA OthersStayAgreed ==
  ASSUME MembershipTypeOK, OwnerAsked, OwnerAgreedOnce, link' = link, welcome' = welcome,
         \A h \in Handlers : \/ handler'[h] = handler[h] \/ handler'[h].op # "accept"
                             \/ handler'[h].on \in Pairs /\ link[handler'[h].on].by = "owner"
  PROVE  OwnerAsked' /\ OwnerAgreedOnce'
  BY DEF OwnerAsked, OwnerAgreedOnce

\* A link that is deleted takes its welcome with it, and the requests that hold
\* it can no longer save it.
LEMMA DeletedStaysAgreed ==
  ASSUME MembershipTypeOK, OwnerAsked, OwnerAgreedOnce, NEW m, NEW h \in Handlers,
         link' = [link EXCEPT ![m] = NoLink], welcome' = welcome \ {m}, handler' = Orphaned(m, h)
  PROVE  OwnerAsked' /\ OwnerAgreedOnce'
  <1>1. ASSUME NEW q \in Handlers, handler'[q].op = "accept", handler'[q].alive
        PROVE  handler'[q].on \in welcome'
    BY <1>1, OrphanedOps DEF LinkOps, Idle, OwnerAsked
  <1>2. \A x \in Pairs : x = m => link'[x] = NoLink
    BY DEF MembershipTypeOK
  <1>3. \A x \in Pairs : x # m => link'[x] = link[x]
    BY DEF MembershipTypeOK
  <1>4. QED
    BY <1>1, <1>2, <1>3 DEF OwnerAsked, OwnerAgreedOnce, NoLink

\* Every action keeps that the owner agreed.
LEMMA StayAgreed ==
  ASSUME MembershipTypeOK, OwnerAsked, OwnerAgreedOnce, [MembershipNext]_membershipVars
  PROVE  OwnerAsked' /\ OwnerAgreedOnce'
  <1> USE DEF MembershipTypeOK
  <1>1. ASSUME NEW h \in Handlers, NEW m \in Pairs, NEW op \in LinkOps, ReadLink(h, op, m),
               op = "accept" => link[m].by = "owner"
        PROVE  OwnerAsked' /\ OwnerAgreedOnce'
    BY <1>1, OthersStayAgreed DEF ReadLink
  <1>2. ASSUME NEW h \in Handlers, InsertLink(h)
        PROVE  OwnerAsked' /\ OwnerAgreedOnce'
    <2> DEFINE m == handler[h].on
    <2>1. m \in Pairs /\ handler[h].op \in {"join", "invite"}
      BY <1>2 DEF InsertLink, LinkCalls, InviteCalls, Idle
    <2>2. CASE Linked(m)
      BY <1>2, <2>2, OthersStayAgreed DEF InsertLink, Idle
    <2>3. CASE ~Linked(m)
      <3>1. /\ link' = [link EXCEPT ![m] = [status |-> "pending",
                                            by |-> IF handler[h].op = "join" THEN "stylist" ELSE "owner"]]
            /\ welcome' = IF handler[h].op = "invite" THEN welcome \cup {m} ELSE welcome
            /\ handler' = [handler EXCEPT ![h] = Idle]
        BY <1>2, <2>3 DEF InsertLink
      <3>2. QED
        BY <2>1, <3>1 DEF OwnerAsked, OwnerAgreedOnce, Idle
    <2>4. QED
      BY <2>2, <2>3
  <1>3. ASSUME NEW h \in Handlers, SaveLink(h)
        PROVE  OwnerAsked' /\ OwnerAgreedOnce'
    <2> DEFINE m == handler[h].on  op == handler[h].op  seen == handler[h].seen
               becomes == Unless(Target(op) = seen.status, link[m].status, Target(op))
               by == IF op = "reinvite" THEN Unless(seen.by = "owner", link[m].by, "owner") ELSE link[m].by
    <2>1. m \in Pairs /\ op \in {"approve", "reject", "reinvite", "accept", "decline"}
      BY <1>3 DEF SaveLink, LinkCalls, InviteCalls, Idle
    <2>2. CASE ~handler[h].alive
      BY <1>3, <2>2, OthersStayAgreed DEF SaveLink, Idle
    <2>3. CASE handler[h].alive
      <3>1. /\ link' = [link EXCEPT ![m] = [status |-> becomes, by |-> by]]
            /\ welcome' = IF op \in {"approve", "reinvite"} THEN welcome \cup {m} ELSE welcome
            /\ handler' = [handler EXCEPT ![h] = Idle]
        BY <1>3, <2>3 DEF SaveLink
      <3>2. becomes = "active" => m \in welcome'
        BY <2>1, <2>3, <3>1 DEF Unless, Target, OwnerAsked, OwnerAgreedOnce
      <3>3. by = "owner" => m \in welcome'
        BY <2>1, <3>1 DEF Unless, OwnerAsked
      <3> HIDE DEF becomes, by
      <3>4. QED
        BY <2>1, <3>1, <3>2, <3>3 DEF OwnerAsked, OwnerAgreedOnce, Idle
    <2>4. QED
      BY <2>2, <2>3
  <1>4. ASSUME NEW h \in Handlers, DeleteLink(h)
        PROVE  OwnerAsked' /\ OwnerAgreedOnce'
    <2>1. CASE ~handler[h].alive
      BY <1>4, <2>1, OthersStayAgreed DEF DeleteLink, Idle
    <2>2. CASE handler[h].alive
      BY <1>4, <2>2, DeletedStaysAgreed DEF DeleteLink
    <2>3. QED
      BY <2>1, <2>2
  <1>5. ASSUME NEW h \in Handlers, RemoveSalon(h)
        PROVE  OwnerAsked' /\ OwnerAgreedOnce'
    <2> DEFINE m == <<handler[h].seen.by, handler[h].salon>>
    <2>1. \/ link' = [link EXCEPT ![m] = NoLink] /\ welcome' = welcome \ {m} /\ handler' = Orphaned(m, h)
          \/ link' = link /\ welcome' = welcome /\ handler' = [handler EXCEPT ![h] = Idle]
      BY <1>5 DEF RemoveSalon
    <2> HIDE DEF m
    <2>2. QED
      BY <2>1, DeletedStaysAgreed, OthersStayAgreed DEF Idle
  <1>6. ASSUME NEW x \in Stylists, NEW s \in Salons,
               CreateOwnSalon(x, s) \/ \E to \in Users : CreateSalonInvite(x, s, to)
        PROVE  OwnerAsked' /\ OwnerAgreedOnce'
    BY <1>6 DEF CreateOwnSalon, CreateSalonInvite, OwnerAsked, OwnerAgreedOnce
  <1>7. ASSUME NEW h \in Handlers,
               \/ GrantOwnerRole(h) \/ ReadSalonToClaim(h) \/ ClaimSalon(h) \/ SaveInvite(h) \/ DeleteInvite(h)
               \/ CheckUnclaimed(h) \/ CrashHandler(h)
        PROVE  OwnerAsked' /\ OwnerAgreedOnce'
    <2>1. link' = link /\ welcome' = welcome /\ \A g \in Handlers \ {h} : handler'[g] = handler[g]
      BY <1>7
         DEF GrantOwnerRole, ReadSalonToClaim, ClaimSalon, SaveInvite, DeleteInvite, CheckUnclaimed, CrashHandler, Step
    <2>2. handler'[h].op # "accept"
      <3>1. handler[h].op \in InviteOps => handler[h] \in InviteCalls
        BY InviteRequest
      <3>2. CASE CrashHandler(h) \/ SaveInvite(h)
        BY <3>2 DEF CrashHandler, SaveInvite, Idle
      <3>3. CASE ReadSalonToClaim(h)
        <4>1. \A o : \A c \in InviteCalls : [c EXCEPT !.op = "activate", !.owner = o].op = "activate"
          BY DEF InviteCalls
        <4>2. QED
          BY <3>1, <3>3, <4>1 DEF ReadSalonToClaim, At, InviteOps, Idle
      <3>4. CASE GrantOwnerRole(h) \/ ClaimSalon(h)
        BY <3>1, <3>4 DEF GrantOwnerRole, ClaimSalon, At, Step, InviteOps, InviteCalls, Idle
      <3>5. CASE DeleteInvite(h) \/ CheckUnclaimed(h)
        BY <3>1, <3>5 DEF DeleteInvite, CheckUnclaimed, At, Step, InviteOps, InviteCalls, Idle
      <3>6. QED
        BY <1>7, <3>2, <3>3, <3>4, <3>5
    <2>3. QED
      BY <2>1, <2>2, OthersStayAgreed
  <1>8. ASSUME NEW h \in Handlers, NEW s \in Salons,
               \/ AcceptInvite(h, s) \/ CancelInvite(h, s) \/ ResendInvite(h, s) \/ ExpireIfNeeded(h, s)
        PROVE  OwnerAsked' /\ OwnerAgreedOnce'
    BY <1>8, OthersStayAgreed DEF AcceptInvite, CancelInvite, ResendInvite, ExpireIfNeeded, ReadInvite
  <1>9. CASE \/ \E s \in Salons : ExpiryPasses(s) \/ \E becomes \in {"active", "pending"} : SetSalonStatus(s, becomes)
             \/ ProfileNext \/ UNCHANGED membershipVars
    BY <1>9, OthersStayAgreed
       DEF ExpiryPasses, SetSalonStatus, ProfileNext, SetWorkplaceType, SetFreelance, SetAcceptingReservations,
           DecideForeign
  <1>10. QED
    BY <1>1, <1>2, <1>3, <1>4, <1>5, <1>6, <1>7, <1>8, <1>9
       DEF MembershipNext, LinkNext, InviteNext, SalonNext, LinkOps, JoinSalon, ApproveStylist, RejectStylist,
           InviteStylistToSalon, RespondToSalonRequest, LeaveSalon

-----------------------------------------------------------------------------
(* Theorems *)

\* The invariant holds in every state: types, the addresses of invites, and the
\* owner's part in every membership.
THEOREM MembershipInvariantHolds == MembershipSpec => []MembershipInv
  <1>1. MembershipInit => MembershipInv
    BY MembershipAssumption
       DEF MembershipInit, MembershipInv, MembershipTypeOK, Addressed, InviteExists, OwnerAsked, OwnerAgreedOnce, Idle,
           SalonDocs, NoSalon, LinkDocs, NoLink, InviteDocs, NoInvite, Pairs
  <1>2. MembershipInv /\ [MembershipNext]_membershipVars => MembershipInv'
    BY MembershipTypes, StayAddressed, StayAgreed DEF MembershipInv
  <1>3. QED
    BY <1>1, <1>2, PTL DEF MembershipSpec

\* Nobody works in a salon whose owner never approved or invited them, although
\* a call tests the membership in one round trip and saves it in a later one
\* (salon.service.ts, stylist.service.ts).
THEOREM OwnerAgreed == MembershipSpec => []OwnerAgreedOnce
  <1>1. MembershipInv => OwnerAgreedOnce
    BY DEF MembershipInv
  <1>2. QED
    BY <1>1, MembershipInvariantHolds, PTL

-----------------------------------------------------------------------------
(* What the views show *)

\* Where a stylist can be booked: an active membership in an active salon whose
\* owner, if it has one, is not restricted.
OpenSalons(x) ==
    {s \in Salons : link[<<x, s>>].status = "active" /\ salon[s].status = "active" /\ salon[s].owner \notin restricted}

\* The one-by-one resolution and the bulk one come to the same salons, whoever
\* else is asked for in bulk.
LEMMA BulkAgrees ==
  ASSUME MembershipTypeOK, NEW xs \in SUBSET Stylists, NEW x \in xs
  PROVE  /\ ResolveActiveSalons(x) = OpenSalons(x)
         /\ GetBookabilityMap(xs)[x] = GetBookability(x)
  <1> USE MembershipAssumption DEF MembershipTypeOK, Restricted
  <1>1. ResolveActiveSalons(x) = OpenSalons(x)
    BY DEF ResolveActiveSalons, OpenSalons
  <1> DEFINE linked == {s \in Salons : \E y \in xs : link[<<y, s>>].status = "active"}
             activeSalons == {s \in linked : salon[s].status = "active"}
             blocked == Restricted({salon[s].owner : s \in activeSalons} \ {NoUser})
             visible == {s \in activeSalons : salon[s].owner \notin blocked}
             mine == {s \in visible : link[<<x, s>>].status = "active"}
  <1>2. mine = OpenSalons(x)
    BY DEF OpenSalons
  <1>3. GetBookabilityMap(xs)[x] = DecideBookability(Profile(x), mine, x \in Restricted(xs))
    BY DEF GetBookabilityMap
  <1>4. (x \in Restricted(xs)) = (x \in restricted)
    OBVIOUS
  <1>5. QED
    BY <1>1, <1>2, <1>3, <1>4 DEF GetBookability

\* What a page has found of somebody, or of a salon, that is open all the time.
Finds(w) ==
    /\ page.of = "salons" /\ page.step = "hide" => page.more \/ <<w, salon[w].owner>> \in page.salons
    /\ page.of = "salons" /\ page.step = "shown" => page.more \/ w \in page.shown
    /\ page.of # "salons" /\ (page.of = "salon" => w[2] = page.salon) =>
          /\ page.of = "salon" /\ page.step = "profiles" => w[1] \in page.who
          /\ page.step \in {"links", "salons", "owners", "people"} =>
                /\ w[1] \in page.who /\ page.profiles[w[1]].accepting
                /\ w[2] = Own => page.profiles[w[1]].freelance
          /\ page.step \in {"salons", "owners", "people"} /\ w[2] # Own => w \in page.links
          /\ page.step \in {"owners", "people"} /\ w[2] # Own => <<w[2], salon[w[2]].owner>> \in page.salons
          /\ page.step = "shown" => w \in page.shown

PageInv ==
    /\ page \in PageStates
    /\ page.of = "salons" => page.step \in {"list", "hide", "shown"}
    /\ page.of # "salons" => page.step \notin {"list", "hide"}
    /\ page.of = "salon" => page.salon # Own
    /\ page.step # "closed" => \A w \in always : w \in Offer(page.of) /\ Finds(w)

\* The page that is closed, and one that is asked for.
LEMMA ClosedIs ==
  /\ Closed \in PageStates /\ Closed.of = "nothing" /\ Closed.step = "closed" /\ Closed.salon = Own /\ Closed.salons = {}
  <1>1. Closed.profiles \in [Stylists -> [freelance : BOOLEAN, accepting : BOOLEAN]]
    BY DEF Closed, NoProfile
  <1>2. ASSUME NEW p \in [Stylists -> [freelance : BOOLEAN, accepting : BOOLEAN]]
        PROVE  [of |-> "nothing", step |-> "closed", salon |-> Own, who |-> {}, profiles |-> p, links |-> {},
                salons |-> {}, more |-> FALSE, shown |-> {}] \in PageStates
    BY DEF PageStates
  <1>3. QED
    BY <1>1, <1>2 DEF Closed

\* The rows move: what stays open keeps what was found of it.
LEMMA RowsMove ==
  ASSUME MembershipTypeOK, PageInv, Watch
  PROVE  PageInv'
  <1>1. page' = page
    BY DEF Watch
  <1>2. CASE page.step = "closed"
    BY <1>1, <1>2 DEF PageInv
  <1>3. CASE page.step # "closed"
    <2>1. page # Closed
      BY <1>3 DEF Closed
    <2>2. always' = {w \in always : w \in Offer(page.of)' /\ SameOwner(page.of, w)}
      BY <2>1 DEF Watch
    <2>3. ASSUME NEW w \in always'
          PROVE  (w \in Offer(page.of) /\ Finds(w))'
      <3>1. w \in always /\ w \in Offer(page.of)' /\ SameOwner(page.of, w) /\ Finds(w)
        BY <1>3, <2>2, <2>3 DEF PageInv
      <3>2. CASE page.of = "salons"
        <4>1. w \in Salons /\ salon'[w].owner = salon[w].owner
          BY <1>1, <3>1, <3>2 DEF Offer, VisibleSalons, SameOwner, SalonOf
        <4>2. QED
          BY <1>1, <3>1, <3>2, <4>1 DEF Finds
      <3>3. CASE page.of # "salons"
        <4>1. w[2] = Own \/ w[2] \in Salons
          BY <1>1, <3>1, <3>3 DEF Offer, OpenWorkplaces, Workplaces
        <4>2. w[2] # Own => salon'[w[2]].owner = salon[w[2]].owner
          BY <3>1, <3>3, <4>1 DEF SameOwner, SalonOf
        <4>3. QED
          BY <1>1, <3>1, <3>3, <4>2 DEF Finds
      <3>4. QED
        BY <3>2, <3>3
    <2>4. QED
      BY <1>1, <2>3 DEF PageInv
  <1>4. QED
    BY <1>2, <1>3

\* One query after the other.
LEMMA PageOpens ==
  ASSUME MembershipTypeOK, PageInv, NEW asked, Ask(asked), asked \in PageStates,
         asked.of = "salons" => asked.step = "list",
         asked.of = "stylists" => asked.step = "profiles",
         asked.of = "salon" => asked.step = "owner" /\ asked.salon # Own, asked.of # "nothing"
  PROVE  PageInv'
  <1>1. page' = asked /\ always' = Offer(asked.of) /\ salon' = salon /\ Offer(asked.of)' = Offer(asked.of)
    BY DEF Ask, membershipVars, salonVars, linkVars, profileVars, Offer, VisibleSalons, OpenWorkplaces
  <1>2. asked.of \in {"stylists", "salon", "salons"}
    BY DEF PageStates
  <1>3. \A w \in always' : Finds(w)'
    BY <1>1, <1>2 DEF Finds
  <1>4. \A w \in always' : (w \in Offer(page.of) /\ Finds(w))'
    BY <1>1, <1>3
  <1>5. /\ page'.of = "salons" => page'.step \in {"list", "hide", "shown"}
        /\ page'.of # "salons" => page'.step \notin {"list", "hide"}
        /\ page'.of = "salon" => page'.salon # Own
    BY <1>1, <1>2
  <1>6. QED
    BY <1>1, <1>4, <1>5 DEF PageInv

\* An answer changes the page and nothing else.
LEMMA PageGoesOn ==
  ASSUME PageInv, NEW answer, Returned(answer), answer \in PageStates, answer.of = page.of, page.step # "closed",
         answer.of = "salons" => answer.step \in {"hide", "shown"},
         answer.of # "salons" => answer.step \notin {"list", "hide"}, answer.salon = page.salon,
         \A w \in always : w \in Offer(page.of) /\ Finds(w) => Finds(w)'
  PROVE  PageInv'
  <1>1. page' = answer /\ always' = always /\ \A of : Offer(of)' = Offer(of)
    BY DEF Returned, membershipVars, salonVars, linkVars, profileVars, Offer, VisibleSalons, OpenWorkplaces
  <1>2. QED
    BY <1>1 DEF PageInv

LEMMA PageStep ==
  ASSUME MembershipTypeOK, PageInv, PageNext
  PROVE  PageInv'
  <1> USE DiscoveryAssumption, MembershipAssumption
  <1>1. page \in PageStates
    BY DEF PageInv
  <1>2. CASE SearchStylists
    <2>1. PICK asked : asked = [Closed EXCEPT !.of = "stylists", !.step = "profiles"]
      OBVIOUS
    <2>2. Ask(asked) /\ asked \in PageStates /\ asked.of = "stylists" /\ asked.step = "profiles"
      BY <1>2, <2>1, ClosedIs DEF SearchStylists, PageStates
    <2>3. QED
      BY <2>2, PageOpens
  <1>3. CASE SearchSalons
    <2>1. PICK asked : asked = [Closed EXCEPT !.of = "salons", !.step = "list"]
      OBVIOUS
    <2>2. Ask(asked) /\ asked \in PageStates /\ asked.of = "salons" /\ asked.step = "list"
      BY <1>3, <2>1, ClosedIs DEF SearchSalons, PageStates
    <2>3. QED
      BY <2>2, PageOpens
  <1>4. ASSUME NEW s \in Salons, GetSalonDetail(s)
        PROVE  PageInv'
    <2>1. PICK mine \in SUBSET (Salons \X (Users \cup {NoUser})) : mine = {<<s, salon[s].owner>>}
      <3>1. salon[s] \in SalonDocs
        BY DEF MembershipTypeOK
      <3>2. salon[s].owner \in Users \cup {NoUser}
        BY <3>1 DEF SalonDocs
      <3>3. {<<s, salon[s].owner>>} \in SUBSET (Salons \X (Users \cup {NoUser}))
        BY <3>2
      <3>4. QED
        BY <3>3
    <2>2. PICK asked \in PageStates : /\ asked = [Closed EXCEPT !.of = "salon", !.salon = s, !.salons = mine, !.step = "owner"]
                                     /\ asked.of = "salon" /\ asked.step = "owner" /\ asked.salon = s
      <3>1. [Closed EXCEPT !.of = "salon", !.salon = s, !.salons = mine, !.step = "owner"] \in PageStates
        BY ClosedIs DEF PageStates
      <3>2. QED
        BY <3>1, ClosedIs DEF PageStates
    <2>3. /\ Ask(asked) /\ asked \in PageStates /\ asked.of = "salon" /\ asked.step = "owner"
          /\ asked.salon # Own
      BY <1>4, <2>1, <2>2 DEF GetSalonDetail
    <2>4. QED
      BY <2>3, PageOpens
  <1>5. CASE CheckOwner
    <2>1. PICK answer : answer = [page EXCEPT !.salons = {}, !.step = "members"]
      OBVIOUS
    <2>2. Returned(answer) /\ page' = answer /\ page.step = "owner"
      BY <1>5, <2>1 DEF CheckOwner, Returned
    <2>3. answer \in PageStates /\ answer.of = page.of /\ answer.step = "members" /\ answer.salon = page.salon
      BY <1>1, <2>1 DEF PageStates
    <2>4. page.of # "salons"
      BY <2>2 DEF PageInv
    <2>5. \A w \in always : Finds(w)'
      BY <2>2, <2>3, <2>4 DEF Finds
    <2>6. QED
      BY <2>2, <2>3, <2>4, <2>5, PageGoesOn
  <1>6. CASE FindMembers
    <2> DEFINE got == {x \in Stylists : link[<<x, page.salon>>].status = "active"}
    <2>1. got \in SUBSET Stylists
      OBVIOUS
    <2>3. PICK answer \in PageStates :
            /\ answer = [page EXCEPT !.who = got, !.step = "profiles"]
            /\ answer.of = page.of /\ answer.step = "profiles" /\ answer.salon = page.salon
            /\ answer.who = got
      <3> HIDE DEF got
      <3>1. [page EXCEPT !.who = got, !.step = "profiles"] \in PageStates
        BY <1>1, <2>1 DEF PageStates
      <3>2. QED
        BY <1>1, <3>1 DEF PageStates
    <2>2. Returned(answer) /\ page' = answer /\ page.step = "members"
      BY <1>6, <2>3, Zenon DEF FindMembers, Returned
    <2>4. page.of # "salons"
      BY <2>2 DEF PageInv
    <2>5. ASSUME NEW w \in always, w \in Offer(page.of)
          PROVE  Finds(w)'
      <3>1. w \in Workplaces /\ w = <<w[1], w[2]>> /\ w[1] \in Stylists /\ (w[2] = Own \/ link[w].status = "active")
        BY <2>4, <2>5 DEF Offer, OpenWorkplaces, Workplaces
      <3>2. ASSUME page.of = "salon", w[2] = page.salon
            PROVE  w[1] \in got
        <4>1. link[<<w[1], page.salon>>].status = "active" \/ w[2] = Own
          BY <3>1, <3>2
        <4>2. page.salon # Own
          BY <1>1, <2>2, <3>2 DEF PageInv
        <4>3. QED
          BY <2>3, <3>1, <3>2, <4>1, <4>2
      <3>3. QED
        BY <2>2, <2>3, <2>4, <3>2 DEF Finds
    <2>6. QED
      BY <2>2, <2>3, <2>4, <2>5, PageGoesOn
  <1>7. CASE FindProfiles
    <2> DEFINE got == IF page.of = "salon" THEN page.who \cap accepting ELSE Stylists
               seen == [x \in Stylists |-> IF x \in got THEN Profile(x) ELSE NoProfile]
    <2>3. PICK answer \in PageStates :
            /\ answer = [page EXCEPT !.who = got, !.profiles = seen, !.step = "links"]
            /\ answer.of = page.of /\ answer.step = "links" /\ answer.salon = page.salon
            /\ answer.who = got /\ answer.profiles = seen
      <3>1. got \in SUBSET Stylists
        BY <1>1 DEF PageStates
      <3>2. seen \in [Stylists -> [freelance : BOOLEAN, accepting : BOOLEAN]]
        BY DEF Profile, NoProfile
      <3> HIDE DEF got, seen
      <3>3. [page EXCEPT !.who = got, !.profiles = seen, !.step = "links"] \in PageStates
        BY <1>1, <3>1, <3>2 DEF PageStates
      <3>4. QED
        BY <1>1, <3>3 DEF PageStates
    <2>2. Returned(answer) /\ page' = answer /\ page.step = "profiles"
      BY <1>7, <2>3, Zenon DEF FindProfiles, Returned
    <2>4. page.of # "salons"
      BY <2>2 DEF PageInv
    <2>5. ASSUME NEW w \in always, w \in Offer(page.of), Finds(w)
          PROVE  Finds(w)'
      <3>1. w[1] \in Stylists /\ w[1] \in accepting /\ (w[2] = Own => place[w[1]] = "freelance")
        BY <2>4, <2>5 DEF Offer, OpenWorkplaces, Workplaces, VisibleSalons
      <3>2. ASSUME page.of = "salon" => w[2] = page.salon
            PROVE  w[1] \in got /\ seen[w[1]].accepting /\ (w[2] = Own => seen[w[1]].freelance)
        <4>1. w[1] \in got
          BY <2>2, <2>4, <2>5, <3>1, <3>2 DEF Finds
        <4>2. seen[w[1]] = Profile(w[1])
          BY <3>1, <4>1
        <4>3. QED
          BY <3>1, <4>1, <4>2 DEF Profile
      <3> HIDE DEF got, seen
      <3>3. QED
        BY <2>2, <2>3, <2>4, <3>2 DEF Finds
    <2> HIDE DEF got, seen
    <2>6. QED
      BY <2>2, <2>3, <2>4, <2>5, PageGoesOn
  <1>8. CASE FindLinks
    <2> DEFINE got == {m \in page.who \X Salons : link[m].status = "active"}
    <2>3. got \in SUBSET Pairs
      BY <1>1 DEF PageStates, Pairs
    <2>4. PICK answer \in PageStates :
            /\ answer = [page EXCEPT !.links = got, !.step = "salons"]
            /\ answer.of = page.of /\ answer.step = "salons" /\ answer.salon = page.salon
            /\ answer.who = page.who /\ answer.profiles = page.profiles /\ answer.links = got
      <3> HIDE DEF got
      <3>1. [page EXCEPT !.links = got, !.step = "salons"] \in PageStates
        BY <1>1, <2>3 DEF PageStates
      <3>2. QED
        BY <1>1, <3>1 DEF PageStates
    <2>2. Returned(answer) /\ page' = answer /\ page.step = "links"
      BY <1>8, <2>4, Zenon DEF FindLinks, Returned
    <2>5. page.of # "salons"
      BY <2>2 DEF PageInv
    <2>6. ASSUME NEW w \in always, w \in Offer(page.of), Finds(w)
          PROVE  Finds(w)'
      <3>1. w = <<w[1], w[2]>> /\ (w[2] # Own => w[2] \in Salons /\ link[w].status = "active")
        BY <2>5, <2>6 DEF Offer, OpenWorkplaces, Workplaces, VisibleSalons
      <3>2. (page.of = "salon" => w[2] = page.salon) /\ w[2] # Own => w \in got
        BY <2>2, <2>5, <2>6, <3>1 DEF Finds
      <3>3. QED
        BY <2>2, <2>4, <2>5, <2>6, <3>2 DEF Finds
    <2>7. QED
      BY <2>2, <2>4, <2>5, <2>6, PageGoesOn
  <1>9. CASE FindActiveSalons
    <2> DEFINE linked == {m[2] : m \in page.links}
               got == {<<s, salon[s].owner>> : s \in {t \in linked : salon[t].status = "active"}}
    <2>3. got \in SUBSET (Salons \X (Users \cup {NoUser}))
      BY <1>1 DEF PageStates, Pairs, MembershipTypeOK, SalonDocs
    <2>4. PICK answer \in PageStates :
            /\ answer = [page EXCEPT !.salons = got, !.step = "owners"]
            /\ answer.of = page.of /\ answer.step = "owners" /\ answer.salon = page.salon
            /\ answer.who = page.who /\ answer.profiles = page.profiles /\ answer.links = page.links
            /\ answer.salons = got
      <3> HIDE DEF got
      <3>1. [page EXCEPT !.salons = got, !.step = "owners"] \in PageStates
        BY <1>1, <2>3 DEF PageStates
      <3>2. QED
        BY <1>1, <3>1 DEF PageStates
    <2>2. Returned(answer) /\ page' = answer /\ page.step = "salons"
      BY <1>9, <2>4, Zenon DEF FindActiveSalons, Returned
    <2>5. page.of # "salons"
      BY <2>2 DEF PageInv
    <2>6. ASSUME NEW w \in always, w \in Offer(page.of), Finds(w)
          PROVE  Finds(w)'
      <3>1. w[2] # Own => salon[w[2]].status = "active"
        BY <2>5, <2>6 DEF Offer, OpenWorkplaces, Workplaces, VisibleSalons
      <3>2. (page.of = "salon" => w[2] = page.salon) /\ w[2] # Own => w \in page.links
        BY <2>2, <2>5, <2>6 DEF Finds
      <3>3. (page.of = "salon" => w[2] = page.salon) /\ w[2] # Own => <<w[2], salon[w[2]].owner>> \in got
        BY <3>1, <3>2
      <3>4. salon' = salon
        BY <2>2 DEF Returned, membershipVars, salonVars
      <3> HIDE DEF got
      <3>5. QED
        BY <2>2, <2>4, <2>5, <2>6, <3>3, <3>4 DEF Finds
    <2>7. QED
      BY <2>2, <2>4, <2>5, <2>6, PageGoesOn
  <1>10. CASE FindBlockedOwners
    <2> DEFINE blocked == Restricted({p[2] : p \in page.salons} \ {NoUser})
               got == {p \in page.salons : p[2] \notin blocked}
    <2>3. got \in SUBSET (Salons \X (Users \cup {NoUser}))
      BY <1>1 DEF PageStates
    <2>4. PICK answer \in PageStates :
            /\ answer = [page EXCEPT !.salons = got, !.step = "people"]
            /\ answer.of = page.of /\ answer.step = "people" /\ answer.salon = page.salon
            /\ answer.who = page.who /\ answer.profiles = page.profiles /\ answer.links = page.links
            /\ answer.salons = got
      <3> HIDE DEF got
      <3>1. [page EXCEPT !.salons = got, !.step = "people"] \in PageStates
        BY <1>1, <2>3 DEF PageStates
      <3>2. QED
        BY <1>1, <3>1 DEF PageStates
    <2>2. Returned(answer) /\ page' = answer /\ page.step = "owners"
      BY <1>10, <2>4, Zenon DEF FindBlockedOwners, Returned
    <2>5. page.of # "salons"
      BY <2>2 DEF PageInv
    <2>6. ASSUME NEW w \in always, w \in Offer(page.of), Finds(w)
          PROVE  Finds(w)'
      <3>1. w[2] # Own => salon[w[2]].owner \notin restricted
        BY <2>5, <2>6 DEF Offer, OpenWorkplaces, Workplaces, VisibleSalons
      <3>2. (page.of = "salon" => w[2] = page.salon) /\ w[2] # Own => <<w[2], salon[w[2]].owner>> \in page.salons
        BY <2>2, <2>5, <2>6 DEF Finds
      <3>3. (page.of = "salon" => w[2] = page.salon) /\ w[2] # Own => <<w[2], salon[w[2]].owner>> \in got
        BY <3>1, <3>2 DEF Restricted
      <3>4. salon' = salon
        BY <2>2 DEF Returned, membershipVars, salonVars
      <3> HIDE DEF got
      <3>5. QED
        BY <2>2, <2>4, <2>5, <2>6, <3>3, <3>4 DEF Finds
    <2>7. QED
      BY <2>2, <2>4, <2>5, <2>6, PageGoesOn
  <1>11. CASE FindRestrictedStylists
    <2> DEFINE visible == {p[1] : p \in page.salons}
               open(x) == {s \in visible : <<x, s>> \in page.links}
               map == [x \in page.who |-> DecideBookability(page.profiles[x], open(x), x \in Restricted(page.who))]
               places(x) == map[x].salons \cup (IF map[x].freelance THEN {Own} ELSE {})
               bookable == {w \in page.who \X (Salons \cup {Own}) : map[w[1]].bookable /\ w[2] \in places(w[1])}
               got == {w \in bookable : page.of = "salon" => w[2] = page.salon}
    <2>3. got \in SUBSET (Workplaces \cup Salons)
      <3>1. page.who \in SUBSET Stylists
        BY <1>1 DEF PageStates
      <3> HIDE DEF map, places
      <3>2. QED
        BY <3>1 DEF Workplaces
    <2>4. PICK answer \in PageStates :
            /\ answer = [page EXCEPT !.shown = got, !.step = "shown"]
            /\ answer.of = page.of /\ answer.step = "shown" /\ answer.salon = page.salon
            /\ answer.shown = got
      <3> HIDE DEF got
      <3>1. [page EXCEPT !.shown = got, !.step = "shown"] \in PageStates
        BY <1>1, <2>3 DEF PageStates
      <3>2. QED
        BY <1>1, <3>1 DEF PageStates
    <2>2. Returned(answer) /\ page' = answer /\ page.step = "people"
      BY <1>11, <2>4, Zenon DEF FindRestrictedStylists, Returned
    <2>5. page.of # "salons"
      BY <2>2 DEF PageInv
    <2>6. ASSUME NEW w \in always, w \in Offer(page.of), Finds(w)
          PROVE  Finds(w)'
      <3>1. /\ w = <<w[1], w[2]>> /\ w[1] \in Stylists /\ w[2] \in Salons \cup {Own}
            /\ w[1] \notin restricted
        BY <2>5, <2>6 DEF Offer, OpenWorkplaces, Workplaces
      <3>2. ASSUME page.of = "salon" => w[2] = page.salon
            PROVE  w \in got
        <4>1. /\ w[1] \in page.who /\ page.profiles[w[1]].accepting
              /\ w[2] = Own => page.profiles[w[1]].freelance
              /\ w[2] # Own => w \in page.links /\ <<w[2], salon[w[2]].owner>> \in page.salons
          BY <2>2, <2>5, <2>6, <3>2 DEF Finds
        <4>2. w[2] # Own => w[2] \in open(w[1])
          BY <3>1, <4>1
        <4>3. w[1] \notin Restricted(page.who)
          BY <3>1 DEF Restricted
        <4>4. map[w[1]] = DecideBookability(page.profiles[w[1]], open(w[1]), w[1] \in Restricted(page.who))
          BY <4>1
        <4> HIDE DEF open, map
        <4>5. map[w[1]].bookable /\ w[2] \in places(w[1])
          BY <4>1, <4>2, <4>3, <4>4 DEF DecideBookability
        <4>6. QED
          BY <3>1, <3>2, <4>1, <4>5
      <3> HIDE DEF got
      <3>3. QED
        BY <2>2, <2>4, <2>5, <3>2 DEF Finds
    <2> HIDE DEF got
    <2>7. QED
      BY <2>2, <2>4, <2>5, <2>6, PageGoesOn
  <1>12. CASE FindSalons
    <2> DEFINE active == {s \in Salons : salon[s].status = "active"}
    <2>1. PICK some \in SUBSET active :
             Returned([page EXCEPT !.salons = {<<s, salon[s].owner>> : s \in some}, !.more = some # active, !.step = "hide"])
      BY <1>12, Zenon DEF FindSalons
    <2>2. PICK got : got = {<<s, salon[s].owner>> : s \in some}
      OBVIOUS
    <2>3. PICK rest \in BOOLEAN : rest <=> some # active
      <3>1. (some # active) \in BOOLEAN
        OBVIOUS
      <3>2. QED
        BY <3>1
    <2>4. PICK answer : answer = [page EXCEPT !.salons = got, !.more = rest, !.step = "hide"]
      OBVIOUS
    <2>5. (some # active) = rest
      BY <2>3
    <2>6. Returned(answer) /\ page' = answer /\ salon' = salon
      BY <2>1, <2>2, <2>4, <2>5 DEF Returned, membershipVars, salonVars
    <2>7. page.step = "list" /\ page.of = "salons"
      BY <1>12 DEF FindSalons, PageInv
    <2>8. got \in SUBSET (Salons \X (Users \cup {NoUser}))
      BY <2>2 DEF MembershipTypeOK, SalonDocs
    <2>9. /\ answer \in PageStates /\ answer.of = page.of /\ answer.step = "hide" /\ answer.salon = page.salon
          /\ answer.salons = got /\ answer.more = rest
      BY <1>1, <2>4, <2>8 DEF PageStates
    <2>10. ASSUME NEW w \in always, w \in Offer(page.of)
           PROVE  Finds(w)'
      <3>1. w \in active
        BY <2>7, <2>10 DEF Offer, VisibleSalons
      <3>2. rest \/ <<w, salon[w].owner>> \in got
        BY <2>2, <2>3, <3>1
      <3>3. QED
        BY <2>6, <2>7, <2>9, <3>2 DEF Finds
    <2>11. QED
      BY <2>6, <2>7, <2>9, <2>10, PageGoesOn
  <1>13. CASE HideBlockedOwners
    <2> DEFINE blocked == Restricted({p[2] : p \in page.salons} \ {NoUser})
               got == {p[1] : p \in {q \in page.salons : q[2] \notin blocked}}
    <2>4. got \in SUBSET (Workplaces \cup Salons)
      <3>1. page.salons \in SUBSET (Salons \X (Users \cup {NoUser}))
        BY <1>1 DEF PageStates
      <3>2. \A p \in page.salons : p[1] \in Salons
        BY <3>1
      <3>3. QED
        BY <3>2
    <2>5. PICK answer \in PageStates :
            /\ answer = [page EXCEPT !.shown = got, !.step = "shown"]
            /\ answer.of = page.of /\ answer.step = "shown" /\ answer.salon = page.salon
            /\ answer.more = page.more /\ answer.shown = got
      <3> HIDE DEF got
      <3>1. [page EXCEPT !.shown = got, !.step = "shown"] \in PageStates
        BY <1>1, <2>4 DEF PageStates
      <3>2. QED
        BY <1>1, <3>1 DEF PageStates
    <2>2. Returned(answer) /\ page' = answer /\ page.step = "hide"
      BY <1>13, <2>5, Zenon DEF HideBlockedOwners, Returned
    <2>3. page.of = "salons"
      BY <2>2 DEF PageInv
    <2>6. ASSUME NEW w \in always, w \in Offer(page.of), Finds(w)
          PROVE  Finds(w)'
      <3>1. w \in Salons /\ salon[w].owner \notin restricted
        BY <2>3, <2>6 DEF Offer, VisibleSalons
      <3>2. page.more \/ <<w, salon[w].owner>> \in page.salons
        BY <2>2, <2>3, <2>6 DEF Finds
      <3>3. page.more \/ w \in got
        <4>1. salon[w].owner \notin blocked
          BY <3>1 DEF Restricted
        <4> HIDE DEF blocked
        <4>2. QED
          BY <3>2, <4>1
      <3> HIDE DEF got
      <3>4. QED
        BY <2>2, <2>3, <2>5, <3>3 DEF Finds
    <2> HIDE DEF got
    <2>7. QED
      BY <2>2, <2>3, <2>5, <2>6, PageGoesOn
  <1>14. CASE ClosePage
    BY <1>14, ClosedIs DEF ClosePage, PageInv
  <1>15. QED
    BY <1>2, <1>3, <1>4, <1>5, <1>6, <1>7, <1>8, <1>9, <1>10, <1>11, <1>12, <1>13, <1>14 DEF PageNext

\* Whoever can be booked all the time is on the page, whatever changes between its
\* queries (salon.service.ts, public.service.ts, bookability.ts).
THEOREM PagesAreComplete == DiscoverySpec => []PagesMissNobody
  <1>1. DiscoverySpec => MembershipSpec
    <2>1. PageNext => UNCHANGED membershipVars
      <3>1. (\E asked : Ask(asked)) \/ (\E answer : Returned(answer)) \/ ClosePage => UNCHANGED membershipVars
        BY DEF Ask, Returned, ClosePage
      <3>2. SearchStylists \/ SearchSalons \/ (\E s \in Salons : GetSalonDetail(s)) => \E asked : Ask(asked)
        BY Zenon DEF SearchStylists, SearchSalons, GetSalonDetail
      <3>3. CheckOwner \/ FindMembers \/ FindProfiles \/ FindLinks => \E answer : Returned(answer)
        BY Zenon DEF CheckOwner, FindMembers, FindProfiles, FindLinks
      <3>4. FindActiveSalons \/ FindBlockedOwners \/ FindRestrictedStylists => \E answer : Returned(answer)
        BY Zenon DEF FindActiveSalons, FindBlockedOwners, FindRestrictedStylists
      <3>5. FindSalons \/ HideBlockedOwners => \E answer : Returned(answer)
        BY Zenon DEF FindSalons, HideBlockedOwners
      <3> HIDE DEF membershipVars
      <3>6. QED
        BY <3>1, <3>2, <3>3, <3>4, <3>5 DEF PageNext
    <2>2. DiscoveryNext \/ UNCHANGED <<membershipVars, pageVars>> => [MembershipNext]_membershipVars
      BY <2>1 DEF DiscoveryNext
    <2>3. QED
      BY <2>2, PTL DEF DiscoverySpec, MembershipSpec
  <1>2. DiscoverySpec => []MembershipTypeOK
    BY <1>1, MembershipInvariantHolds, PTL DEF MembershipInv
  <1>3. MembershipInit /\ DiscoveryInit => PageInv
    BY ClosedIs DEF DiscoveryInit, PageInv
  <1>4. MembershipTypeOK /\ PageInv /\ [DiscoveryNext]_<<membershipVars, pageVars>> => PageInv'
    <2>1. ASSUME PageInv, UNCHANGED <<membershipVars, pageVars>>
          PROVE  PageInv'
      BY <2>1 DEF PageInv, Finds, Offer, VisibleSalons, OpenWorkplaces, pageVars, membershipVars, salonVars, linkVars, profileVars
    <2>2. QED
      BY <2>1, RowsMove, PageStep DEF DiscoveryNext
  <1>5. PageInv => PagesMissNobody
    BY DEF PageInv, PagesMissNobody, Finds
  <1>6. QED
    BY <1>2, <1>3, <1>4, <1>5, PTL DEF DiscoverySpec

HIDE DEF salonVars, linkVars, profileVars, membershipVars, Finish

-----------------------------------------------------------------------------
(* Working hours and availability                                          *)

USE DEF bookVars

\* Customers can be served at p from some entry that contains the span.
Covered(p, span) == \E i \in EffectiveHours(p) : Contains(i, span)

\* A reservation that lies outside the hours, and whose stylist must be told.
Misplaced(r) ==
    /\ OutOfHours(r) /\ booked[r].offered /\ r \notin slipped
    /\ booked[r].place # Freelance => Exists(booked[r].place) /\ booked[r].place \notin unreconciled

\* Nobody books, or is about to, at a salon that never was.
WasThere(p) == p # Freelance => salon[p].status # "none"
Placed ==
    \A r \in Reservations :
        /\ booked[r] # NoBooking => WasThere(booked[r].place)
        /\ asking[r].step = "hours" => \A p \in asking[r].at : WasThere(p)
        /\ asking[r].step = "insert" => WasThere(asking[r].place)

\* One change at a time, and what the one under way has read and will write.
Asked == \A e \in Editors : editor[e].step = "patch" => \E entry \in Entries : editor[e].new = {entry}
OneChange == \A e, f \in Editors : editor[e] # Ready /\ editor[f] # Ready => e = f
Replaces(e) ==
    /\ editor[e].step = "insert" => Used = {}
    /\ editor[e].step \in {"clear", "insert"} => NoOverlaps(editor[e].new)
Patches(e) ==
    editor[e].step = "patch" =>
        /\ editor[e].id \in HourIds
        /\ hours[editor[e].id] \in {NoEntry, editor[e].read}
        /\ \E entry \in Entries :
              /\ editor[e].new = {entry}
              /\ \A j \in Used : j # editor[e].id => ~Overlaps(hours[j].span, entry.span)
NoClash == \A i, j \in Used : i # j => ~Overlaps(hours[i].span, hours[j].span)

\* What is misplaced is flagged, or about to be.
Noticed ==
    \A r \in Reservations : Misplaced(r) =>
        /\ (\A e \in Editors : editor[e].step \in {"ready", "patch"}) => needsUpdate
        /\ \A e \in Editors : editor[e].step = "sync" => editor[e].flag

OneByOne == apart => OneChange /\ NoClash /\ Noticed /\ \A e \in Editors : Replaces(e) /\ Patches(e)

HoursInv == HoursTypeOK /\ Asked /\ Placed /\ OneByOne

-----------------------------------------------------------------------------

\* No entry is one of the entries, and is of no salon.
LEMMA NoEntryIsOne == NoEntry \in Entries /\ NoEntry.place = Freelance
  BY HoursAssumption DEF NoEntry, Entries, Places, Intervals

\* A writer is ready, or at one of the steps of a request.
LEMMA EditorTypes ==
  ASSUME HoursTypeOK, NEW e \in Editors
  PROVE  /\ editor[e] = Ready \/ editor[e] \in Editing
         /\ editor[e] = Ready <=> editor[e].step = "ready"
         /\ editor[e] # Ready <=> editor[e].step \in {"clear", "insert", "patch", "compute", "sync"}
  BY DEF HoursTypeOK, Ready, Editing

\* A salon that was there once does not come back.
LEMMA SalonsAge ==
  ASSUME MembershipTypeOK, [MembershipNext]_membershipVars, NEW s \in Salons, salon[s].status # "none"
  PROVE  salon'[s].status # "none" /\ (Exists(s)' => Exists(s))
  <1> USE DEF MembershipTypeOK, SalonDocs, Exists, salonVars, membershipVars
  <1>1. CASE salon' = salon
    BY <1>1
  <1>2. ASSUME NEW x \in Stylists, NEW q \in Salons,
               CreateOwnSalon(x, q) \/ \E to \in Users : CreateSalonInvite(x, q, to)
        PROVE  salon'[s] = salon[s]
    BY <1>2 DEF CreateOwnSalon, CreateSalonInvite, NoSalon
  <1>3. ASSUME NEW q \in Salons, NEW becomes \in {"active", "pending"}, SetSalonStatus(q, becomes)
        PROVE  salon'[s].status # "none" /\ (Exists(s)' => Exists(s))
    BY <1>3 DEF SetSalonStatus
  <1>4. ASSUME NEW h \in Handlers, ClaimSalon(h)
        PROVE  salon'[s].status # "none" /\ (Exists(s)' => Exists(s))
    BY <1>4 DEF ClaimSalon
  <1>5. ASSUME NEW h \in Handlers, RemoveSalon(h)
        PROVE  salon'[s].status # "none" /\ (Exists(s)' => Exists(s))
    BY <1>5 DEF RemoveSalon
  <1>6. CASE LinkNext
    BY <1>1, <1>6
       DEF LinkNext, JoinSalon, ApproveStylist, RejectStylist, InviteStylistToSalon, RespondToSalonRequest, LeaveSalon,
           ReadLink, InsertLink, SaveLink, DeleteLink, CrashHandler
  <1>7. CASE InviteNext
    BY <1>1, <1>2, <1>4, <1>5, <1>7
       DEF InviteNext, ExpiryPasses, AcceptInvite, CancelInvite, ResendInvite, ExpireIfNeeded, ReadInvite,
           GrantOwnerRole, ReadSalonToClaim, SaveInvite, DeleteInvite, CheckUnclaimed, CrashHandler
  <1>8. CASE SalonNext
    BY <1>1, <1>2, <1>3, <1>8 DEF SalonNext
  <1>9. CASE ProfileNext
    BY <1>1, <1>9 DEF ProfileNext, SetWorkplaceType, SetFreelance, SetAcceptingReservations, DecideForeign
  <1>10. QED
    BY <1>1, <1>6, <1>7, <1>8, <1>9 DEF MembershipNext

\* Out of hours is not covered.
LEMMA OutOfHoursIs ==
  ASSUME NEW r \in Reservations
  PROVE  OutOfHours(r) <=> booked[r] # NoBooking /\ ~Covered(booked[r].place, booked[r].span)
  BY DEF OutOfHours, Covered

\* A span that is covered stays so when the entries that cover it do.
LEMMA CoveredStays ==
  ASSUME HoursTypeOK, NEW p \in Places, NEW span,
         \A i \in HourIds : hours[i].place = p /\ hours[i] # NoEntry => hours'[i] = hours[i],
         p # Freelance => opening'[p] = opening[p] /\ (Exists(p) => Exists(p)'),
         Covered(p, span)
  PROVE  Covered(p, span)'
  <1>1. PICK i \in HourIds : /\ hours[i] # NoEntry /\ hours[i].place = p
                             /\ \E part \in Clip(hours[i]) : Contains(part, span)
    BY DEF Covered, EffectiveHours, Used
  <1>2. PICK part \in Clip(hours[i]) : Contains(part, span)
    BY <1>1
  <1>3. hours'[i] = hours[i] /\ hours'[i] # NoEntry
    BY <1>1
  <1>4. part \in Clip(hours[i])'
    BY <1>1, <1>2, <1>3 DEF Clip
  <1>5. part \in EffectiveHours(p)'
    BY <1>1, <1>3, <1>4 DEF EffectiveHours, Used
  <1>6. QED
    BY <1>2, <1>5 DEF Covered, Contains

\* What is misplaced now was so before, when only hours of salons with no
\* reconciliation went and no salon came back.
LEMMA StillMisplaced ==
  ASSUME HoursTypeOK, Placed, NEW r \in Reservations, booked'[r] = booked[r], r \in slipped => r \in slipped',
         \A i \in HourIds : hours[i] # NoEntry =>
              hours'[i] = hours[i] \/ (hours[i].place \in unreconciled' /\ hours[i].place # Freelance),
         \A s \in Salons \ unreconciled' : opening'[s] = opening[s],
         unreconciled \subseteq unreconciled',
         \A s \in Salons : salon[s].status # "none" => (Exists(s)' => Exists(s)),
         Misplaced(r)'
  PROVE  Misplaced(r)
  <1>1. booked'[r] = booked[r] /\ booked[r] # NoBooking /\ booked[r] \in Bookings
    BY DEF Misplaced, OutOfHours, HoursTypeOK
  <1>2. PICK p \in Places, w \in Intervals : p = booked[r].place /\ w = booked[r].span
    BY <1>1 DEF Bookings
  <1>3. ~Covered(p, w)' /\ booked'[r].offered /\ (p # Freelance => Exists(p)' /\ p \notin unreconciled')
    BY <1>1, <1>2 DEF Misplaced, OutOfHours, Covered
  <1>4. p # Freelance => p \in Salons /\ Exists(p)
    BY <1>1, <1>2, <1>3 DEF Placed, WasThere, Places
  <1>5. ~Covered(p, w)
    <2>1. SUFFICES ASSUME Covered(p, w)
                   PROVE  FALSE
      OBVIOUS
    <2>2. \A i \in HourIds : hours[i].place = p /\ hours[i] # NoEntry => hours'[i] = hours[i]
      BY <1>3
    <2>3. p # Freelance => opening'[p] = opening[p] /\ (Exists(p) => Exists(p)')
      BY <1>3, <1>4
    <2>4. QED
      BY <1>3, <2>1, <2>2, <2>3, CoveredStays
  <1>6. OutOfHours(r)
    BY <1>1, <1>2, <1>5, OutOfHoursIs
  <1>7. QED
    BY <1>1, <1>2, <1>3, <1>4, <1>6 DEF Misplaced

\* A request that begins when every other is over is the only one.
LEMMA RequestTypes ==
  ASSUME NEW phase \in {"clear", "insert", "patch", "compute", "sync"}, NEW new \in SUBSET Entries,
         NEW id \in HourIds \cup {Freelance}, NEW read \in Entries
  PROVE  \E c \in Editing : /\ c = Request(phase, new, id, read)
                            /\ c.step = phase /\ c.new = new /\ c.id = id /\ c.read = read /\ c # Ready
  <1>1. Request(phase, new, id, read) \in Editing
    BY DEF Request, Editing
  <1>2. QED
    BY <1>1 DEF Request, Ready

\* A request that begins keeps the types, and apart only if no other is under way.
LEMMA Begun ==
  ASSUME HoursTypeOK, Asked, NEW e \in Editors, NEW c \in Editing, Begin(e, c),
         c.step = "patch" => \E entry \in Entries : c.new = {entry}
  PROVE  /\ Asked'
         /\ editor' \in [Editors -> Editing \cup {Ready}]
         /\ editor[e] = Ready /\ editor'[e] = c /\ \A q \in Editors \ {e} : editor'[q] = editor[q]
         /\ apart' \in BOOLEAN
         /\ apart' => apart /\ \A q \in Editors : editor[q] = Ready
  <1>1. /\ editor' \in [Editors -> Editing \cup {Ready}]
        /\ editor[e] = Ready /\ editor'[e] = c /\ \A q \in Editors \ {e} : editor'[q] = editor[q]
        /\ apart' \in BOOLEAN
        /\ apart' => apart /\ \A q \in Editors : editor[q] = Ready
    BY DEF Begin, HoursTypeOK
  <1>2. Asked'
    BY <1>1 DEF Asked
  <1>3. QED
    BY <1>1, <1>2

\* Nothing is misplaced now that was not, while hours, openings and bookings stay.
LEMMA NothingMisplaced ==
  ASSUME HoursTypeOK, Placed, UNCHANGED <<hours, opening, bookVars, unreconciled, membershipVars>>, NEW r \in Reservations
  PROVE  Misplaced(r)' => Misplaced(r)
  <1>1. salon' = salon
    BY DEF membershipVars, salonVars
  <1>2. \A s \in Salons : salon[s].status # "none" => (Exists(s)' => Exists(s))
    BY <1>1 DEF Exists
  <1>3. QED
    BY <1>2, StillMisplaced

\* What no salon and no booking moves stays placed.
LEMMA PlacedStays ==
  ASSUME Placed, booked' = booked, asking' = asking, salon' = salon
  PROVE  Placed'
  BY DEF Placed, WasThere

\* Changes one by one stay so when one editor goes on and the others are ready.
LEMMA OneEdits ==
  ASSUME NEW e \in Editors,
         apart' => /\ \A q \in Editors \ {e} : editor'[q] = Ready
                   /\ NoClash' /\ Noticed' /\ Replaces(e)' /\ Patches(e)'
  PROVE  OneByOne'
  <1>1. apart' => \A q \in Editors \ {e} : Replaces(q)' /\ Patches(q)'
    BY DEF Replaces, Patches, Ready
  <1>2. apart' => OneChange'
    BY DEF OneChange
  <1>3. QED
    BY <1>1, <1>2 DEF OneByOne

\* An editor that has just changed hours has nothing to keep but that they do not clash.
LEMMA Computes ==
  ASSUME NEW e \in Editors, editor'[e].step = "compute",
         apart' => NoClash' /\ \A q \in Editors \ {e} : editor'[q] = Ready
  PROVE  OneByOne'
  <1>1. Replaces(e)' /\ Patches(e)'
    BY DEF Replaces, Patches
  <1>2. apart' => Noticed'
    BY DEF Noticed, Ready
  <1>3. QED
    BY <1>1, <1>2, OneEdits

\* A request under way goes on: when changes come one by one, the others are ready.
LEMMA GoesOn ==
  ASSUME HoursInv, NEW e \in Editors, editor[e] # Ready, NEW c \in Editing \cup {Ready}, c.step # "patch",
         editor' = [editor EXCEPT ![e] = c]
  PROVE  /\ Asked'
         /\ editor' \in [Editors -> Editing \cup {Ready}] /\ editor'[e] = c
         /\ apart => \A q \in Editors \ {e} : editor[q] = Ready /\ editor'[q] = Ready
  <1>1. /\ editor' \in [Editors -> Editing \cup {Ready}] /\ editor'[e] = c
        /\ \A q \in Editors \ {e} : editor'[q] = editor[q]
    BY DEF HoursInv, HoursTypeOK
  <1>2. Asked'
    BY <1>1 DEF HoursInv, Asked
  <1>3. apart => \A q \in Editors \ {e} : editor[q] = Ready /\ editor'[q] = Ready
    BY <1>1 DEF HoursInv, OneByOne, OneChange
  <1>4. QED
    BY <1>1, <1>2, <1>3

\* Every action keeps the invariant, one lemma per action of the services.
LEMMA SetWorkingHoursStep ==
  ASSUME HoursInv, NEW e \in Editors, NEW entries \in SUBSET [place : Places, span : Spans],
         SetWorkingHours(e, entries), UNCHANGED membershipVars
  PROVE  HoursInv'
  <1> USE DEF HoursInv
  <1>1. entries \in SUBSET Entries
    BY HoursAssumption DEF Entries, Intervals
  <1>2. PICK c \in Editing : /\ c = Request("clear", entries, Freelance, NoEntry) /\ c.step = "clear"
                             /\ c.new = entries /\ c # Ready
    BY <1>1, RequestTypes, NoEntryIsOne
  <1>3. Begin(e, c) /\ NoOverlaps(entries) /\ UNCHANGED <<hours, opening, bookVars, needsUpdate, unreconciled>>
    BY <1>2 DEF SetWorkingHours
  <1>4. /\ Asked' /\ editor' \in [Editors -> Editing \cup {Ready}]
        /\ editor[e] = Ready /\ editor'[e] = c /\ \A q \in Editors \ {e} : editor'[q] = editor[q]
        /\ apart' \in BOOLEAN
        /\ apart' => apart /\ \A q \in Editors : editor[q] = Ready
    BY <1>2, <1>3, Begun
  <1>5. HoursTypeOK' /\ Asked' /\ Placed'
    BY <1>3, <1>4, PlacedStays DEF HoursTypeOK, membershipVars, salonVars
  <1>6. ASSUME apart'
        PROVE  /\ \A q \in Editors \ {e} : editor'[q] = Ready
               /\ NoClash' /\ Noticed' /\ Replaces(e)' /\ Patches(e)'
    <2>1. NoClash'
      BY <1>3, <1>4, <1>6 DEF OneByOne, NoClash, Used, Overlaps
    <2>2. Noticed' /\ Patches(e)'
      BY <1>2, <1>4, <1>6 DEF Noticed, Patches, Ready
    <2>3. Replaces(e)'
      BY <1>2, <1>3, <1>4 DEF Replaces, NoOverlaps, Overlaps
    <2>4. QED
      BY <1>4, <1>6, <2>1, <2>2, <2>3
  <1>7. QED
    BY <1>5, <1>6, OneEdits

LEMMA UpdateWorkingHourStep ==
  ASSUME HoursInv, NEW e \in Editors, NEW i \in HourIds, NEW entry \in [place : Places, span : Spans],
         UpdateWorkingHour(e, i, entry), UNCHANGED membershipVars
  PROVE  HoursInv'
  <1> USE DEF HoursInv
  <1>1. entry \in Entries /\ hours[i] \in Entries
    BY HoursAssumption DEF Entries, Intervals, HoursTypeOK
  <1>2. PICK c \in Editing : /\ c = Request("patch", {entry}, i, hours[i]) /\ c.step = "patch"
                             /\ c.new = {entry} /\ c.id = i /\ c.read = hours[i] /\ c # Ready
    BY <1>1, RequestTypes
  <1>3. /\ Begin(e, c) /\ UNCHANGED <<hours, opening, bookVars, needsUpdate, unreconciled>>
        /\ \A j \in Used : j # i => ~Overlaps(hours[j].span, entry.span)
    BY <1>2 DEF UpdateWorkingHour, Others
  <1>4. /\ Asked' /\ editor' \in [Editors -> Editing \cup {Ready}]
        /\ editor[e] = Ready /\ editor'[e] = c /\ \A q \in Editors \ {e} : editor'[q] = editor[q]
        /\ apart' \in BOOLEAN
        /\ apart' => apart /\ \A q \in Editors : editor[q] = Ready
    BY <1>1, <1>2, <1>3, Begun
  <1>5. HoursTypeOK' /\ Asked' /\ Placed'
    BY <1>3, <1>4, PlacedStays DEF HoursTypeOK, membershipVars, salonVars
  <1>6. ASSUME apart'
        PROVE  /\ \A q \in Editors \ {e} : editor'[q] = Ready
               /\ NoClash' /\ Noticed' /\ Replaces(e)' /\ Patches(e)'
    <2>1. apart /\ \A q \in Editors : editor[q] = Ready
      BY <1>4, <1>6
    <2>2. \A r \in Reservations : Misplaced(r)' => Misplaced(r)
      BY <1>3, NothingMisplaced
    <2>3. Noticed'
      BY <1>2, <1>3, <1>4, <2>1, <2>2 DEF OneByOne, Noticed, Ready
    <2>4. NoClash' /\ Replaces(e)'
      BY <1>2, <1>3, <1>4, <2>1 DEF OneByOne, NoClash, Used, Overlaps, Replaces
    <2>5. Patches(e)'
      <3>1. \A j \in Used' : j # i => ~Overlaps(hours'[j].span, entry.span)
        BY <1>3 DEF Used
      <3>2. /\ editor'[e].id \in HourIds /\ hours'[editor'[e].id] \in {NoEntry, editor'[e].read}
            /\ editor'[e].new = {entry} /\ editor'[e].id = i
        BY <1>2, <1>3, <1>4
      <3>3. QED
        BY <1>1, <3>1, <3>2 DEF Patches, Overlaps
    <2>6. QED
      BY <1>4, <2>1, <2>3, <2>4, <2>5
  <1>7. QED
    BY <1>5, <1>6, OneEdits

LEMMA DeleteWorkingHourStep ==
  ASSUME HoursInv, NEW e \in Editors, NEW i \in HourIds, DeleteWorkingHour(e, i), UNCHANGED membershipVars
  PROVE  HoursInv'
  <1> USE DEF HoursInv
  <1>1. PICK c \in Editing : /\ c = Request("compute", {}, Freelance, NoEntry) /\ c.step = "compute" /\ c # Ready
    BY RequestTypes, NoEntryIsOne
  <1>2. /\ Begin(e, c) /\ UNCHANGED <<opening, bookVars, needsUpdate, unreconciled>>
        /\ hours' = [hours EXCEPT ![i] = NoEntry]
    BY <1>1 DEF DeleteWorkingHour
  <1>3. /\ Asked' /\ editor' \in [Editors -> Editing \cup {Ready}]
        /\ editor[e] = Ready /\ editor'[e] = c /\ \A q \in Editors \ {e} : editor'[q] = editor[q]
        /\ apart' \in BOOLEAN
        /\ apart' => apart /\ \A q \in Editors : editor[q] = Ready
    BY <1>1, <1>2, Begun
  <1>4. HoursTypeOK' /\ Asked' /\ Placed'
    BY <1>2, <1>3, PlacedStays, NoEntryIsOne DEF HoursTypeOK, membershipVars, salonVars
  <1>5. \A j \in Used' : j \in Used /\ hours'[j] = hours[j]
    BY <1>2 DEF HoursTypeOK, Used
  <1>6. apart' => NoClash'
    BY <1>3, <1>5 DEF OneByOne, NoClash, Overlaps
  <1>7. QED
    BY <1>1, <1>3, <1>4, <1>6, Computes

LEMMA UpdateSalonHoursStep ==
  ASSUME HoursInv, NEW e \in Editors, NEW s \in Salons, NEW intervals \in Openings,
         UpdateSalonHours(e, s, intervals), UNCHANGED membershipVars
  PROVE  HoursInv'
  <1> USE DEF HoursInv
  <1>1. PICK c \in Editing : /\ c = Request("compute", {}, Freelance, NoEntry) /\ c.step = "compute" /\ c # Ready
    BY RequestTypes, NoEntryIsOne
  <1>2. /\ opening' = [opening EXCEPT ![s] = intervals] /\ UNCHANGED <<hours, bookVars, needsUpdate>>
        /\ \/ Begin(e, c) /\ UNCHANGED unreconciled
           \/ unreconciled' = unreconciled \cup {s} /\ UNCHANGED <<editor, apart>>
    BY <1>1 DEF UpdateSalonHours
  <1>3. opening' \in [Salons -> SUBSET Intervals]
    BY <1>2, HoursAssumption DEF HoursTypeOK, Intervals
  <1>4. salon' = salon /\ Placed'
    BY <1>2, PlacedStays DEF membershipVars, salonVars
  <1>5. CASE Begin(e, c) /\ UNCHANGED unreconciled
    <2>1. /\ Asked' /\ editor' \in [Editors -> Editing \cup {Ready}]
          /\ editor[e] = Ready /\ editor'[e] = c /\ \A q \in Editors \ {e} : editor'[q] = editor[q]
          /\ apart' \in BOOLEAN
          /\ apart' => apart /\ \A q \in Editors : editor[q] = Ready
      BY <1>1, <1>5, Begun
    <2>2. HoursTypeOK' /\ Asked'
      BY <1>2, <1>3, <1>5, <2>1 DEF HoursTypeOK
    <2>3. apart' => NoClash'
      BY <1>2, <2>1 DEF OneByOne, NoClash, Used, Overlaps
    <2>4. QED
      BY <1>1, <1>4, <2>1, <2>2, <2>3, Computes
  <1>6. CASE unreconciled' = unreconciled \cup {s} /\ UNCHANGED <<editor, apart>>
    <2>1. HoursTypeOK' /\ Asked'
      BY <1>2, <1>3, <1>6 DEF HoursTypeOK, Asked
    <2>2. \A r \in Reservations : Misplaced(r)' => Misplaced(r)
      <3>1. \A q \in Salons \ unreconciled' : opening'[q] = opening[q]
        BY <1>2, <1>6 DEF HoursTypeOK
      <3>2. \A q \in Salons : salon[q].status # "none" => (Exists(q)' => Exists(q))
        BY <1>4 DEF Exists
      <3>3. QED
        BY <1>2, <1>6, <3>1, <3>2, StillMisplaced
    <2>3. apart' => Noticed'
      BY <1>2, <1>6, <2>2 DEF OneByOne, Noticed
    <2>4. apart' => OneChange' /\ NoClash' /\ \A q \in Editors : Replaces(q)' /\ Patches(q)'
      BY <1>2, <1>6 DEF OneByOne, OneChange, NoClash, Used, Replaces, Patches, NoOverlaps, Overlaps
    <2>5. QED
      BY <1>4, <2>1, <2>3, <2>4 DEF OneByOne
  <1>7. QED
    BY <1>2, <1>5, <1>6

LEMMA ClearHoursStep ==
  ASSUME HoursInv, NEW e \in Editors, ClearHours(e), UNCHANGED membershipVars
  PROVE  HoursInv'
  <1> USE DEF HoursInv
  <1>1. editor[e] \in Editing /\ editor[e].step = "clear" /\ editor[e] # Ready
    BY EditorTypes DEF ClearHours
  <1>2. PICK c \in Editing : c = [editor[e] EXCEPT !.step = "insert"] /\ c.step = "insert" /\ c.new = editor[e].new
    <2>1. [editor[e] EXCEPT !.step = "insert"] \in Editing
      BY <1>1 DEF Editing
    <2>2. QED
      BY <1>1, <2>1 DEF Editing
  <1>3. /\ hours' = [i \in HourIds |-> NoEntry] /\ editor' = [editor EXCEPT ![e] = c]
        /\ UNCHANGED <<opening, bookVars, needsUpdate, apart, unreconciled>>
    BY <1>2 DEF ClearHours
  <1>4. /\ Asked' /\ editor' \in [Editors -> Editing \cup {Ready}] /\ editor'[e] = c
        /\ apart => \A q \in Editors \ {e} : editor[q] = Ready /\ editor'[q] = Ready
    BY <1>1, <1>2, <1>3, GoesOn
  <1>5. HoursTypeOK' /\ Asked' /\ Placed'
    BY <1>3, <1>4, PlacedStays, NoEntryIsOne DEF HoursTypeOK, membershipVars, salonVars
  <1>6. ASSUME apart'
        PROVE  /\ \A q \in Editors \ {e} : editor'[q] = Ready
               /\ NoClash' /\ Noticed' /\ Replaces(e)' /\ Patches(e)'
    <2>1. Used' = {}
      BY <1>3 DEF Used
    <2>2. NoOverlaps(editor[e].new)
      BY <1>1, <1>3, <1>6 DEF OneByOne, Replaces
    <2>3. NoClash' /\ Noticed' /\ Patches(e)'
      BY <1>2, <1>3, <1>4, <1>6, <2>1 DEF NoClash, Noticed, Patches, Ready
    <2>4. Replaces(e)'
      BY <1>2, <1>4, <2>1, <2>2 DEF Replaces, NoOverlaps, Overlaps
    <2>5. QED
      BY <1>3, <1>4, <1>6, <2>3, <2>4
  <1>7. QED
    BY <1>5, <1>6, OneEdits

LEMMA InsertHoursStep ==
  ASSUME HoursInv, NEW e \in Editors, InsertHours(e), UNCHANGED membershipVars
  PROVE  HoursInv'
  <1> USE DEF HoursInv
  <1>1. editor[e] \in Editing /\ editor[e].step = "insert" /\ editor[e] # Ready
    BY EditorTypes DEF InsertHours
  <1>2. PICK c \in Editing : /\ c = Request("compute", {}, Freelance, NoEntry) /\ c.step = "compute"
    BY RequestTypes, NoEntryIsOne
  <1>3. /\ editor' = [editor EXCEPT ![e] = c]
        /\ UNCHANGED <<opening, bookVars, needsUpdate, apart, unreconciled>>
    BY <1>2 DEF InsertHours, Reconcile
  <1>4. PICK new \in SUBSET Entries : new = editor[e].new
    BY <1>1 DEF Editing
  <1>5. PICK to \in [new -> HourIds \ Used] :
          /\ \A a, b \in new : a # b => to[a] # to[b]
          /\ hours' = [i \in HourIds |-> IF \E a \in new : to[a] = i THEN CHOOSE a \in new : to[a] = i ELSE hours[i]]
    BY <1>4 DEF InsertHours
  <1>6. \A i \in HourIds : \/ hours'[i] = hours[i]
                           \/ hours'[i] \in new /\ to[hours'[i]] = i
    BY <1>5
  <1>7. hours' \in [HourIds -> Entries]
    BY <1>5, <1>6 DEF HoursTypeOK
  <1>8. /\ Asked' /\ editor' \in [Editors -> Editing \cup {Ready}] /\ editor'[e] = c
        /\ apart => \A q \in Editors \ {e} : editor[q] = Ready /\ editor'[q] = Ready
    BY <1>1, <1>2, <1>3, GoesOn
  <1>9. HoursTypeOK' /\ Asked' /\ Placed'
    BY <1>3, <1>7, <1>8, PlacedStays DEF HoursTypeOK, membershipVars, salonVars
  <1>10. apart' => NoClash'
    <2>1. SUFFICES ASSUME apart, NEW i \in HourIds, NEW j \in HourIds, i # j, hours'[i] # NoEntry, hours'[j] # NoEntry
                   PROVE  ~Overlaps(hours'[i].span, hours'[j].span)
      BY <1>3 DEF NoClash, Used, Overlaps
    <2>2. hours[i] = NoEntry /\ hours[j] = NoEntry /\ NoOverlaps(new)
      BY <1>1, <1>4, <2>1 DEF OneByOne, Replaces, Used
    <2>3. hours'[i] \in new /\ hours'[j] \in new /\ hours'[i] # hours'[j]
      BY <1>6, <2>1, <2>2
    <2>4. QED
      BY <2>2, <2>3 DEF NoOverlaps
  <1>11. QED
    BY <1>2, <1>3, <1>8, <1>9, <1>10, Computes

\* What a patch writes is what was asked, when the entry is as it was read.
Patched(was, read, new) ==
    [place |-> Unless(new.place = read.place, was.place, new.place),
     span |-> <<Unless(new.span[1] = read.span[1], was.span[1], new.span[1]),
                Unless(new.span[2] = read.span[2], was.span[2], new.span[2])>>]

\* A patched entry is an entry, with the new span if the one it changes was read.
LEMMA PatchedIs ==
  ASSUME NEW was \in Entries, NEW read \in Entries, NEW new \in Entries
  PROVE  /\ Patched(was, read, new) \in Entries
         /\ was = read => /\ Patched(was, read, new).span[1] = new.span[1]
                          /\ Patched(was, read, new).span[2] = new.span[2]
  <1>1. /\ was.place \in Places /\ was.span \in (0 .. Horizon) \X (0 .. Horizon)
        /\ new.place \in Places /\ new.span \in (0 .. Horizon) \X (0 .. Horizon)
    BY DEF Entries, Intervals
  <1>2. PICK p \in Places, a \in 0 .. Horizon, b \in 0 .. Horizon :
          /\ p = Unless(new.place = read.place, was.place, new.place)
          /\ a = Unless(new.span[1] = read.span[1], was.span[1], new.span[1])
          /\ b = Unless(new.span[2] = read.span[2], was.span[2], new.span[2])
    BY <1>1 DEF Unless
  <1>3. Patched(was, read, new) = [place |-> p, span |-> <<a, b>>]
    BY <1>2 DEF Patched
  <1>4. was = read => a = new.span[1] /\ b = new.span[2]
    BY <1>2 DEF Unless
  <1>5. QED
    BY <1>3, <1>4 DEF Entries, Intervals

LEMMA SavePatchStep ==
  ASSUME HoursInv, NEW e \in Editors, SavePatch(e), UNCHANGED membershipVars
  PROVE  HoursInv'
  <1> USE DEF HoursInv
  <1>1. editor[e] \in Editing /\ editor[e].step = "patch" /\ editor[e] # Ready
    BY EditorTypes DEF SavePatch
  <1>2. PICK i \in HourIds \cup {Freelance}, read \in Entries :
           i = editor[e].id /\ read = editor[e].read
    BY <1>1 DEF Editing
  <1>3. PICK new : new = CHOOSE x \in editor[e].new : TRUE
    OBVIOUS
  <1>4. UNCHANGED <<opening, bookVars, needsUpdate, apart, unreconciled>>
    BY DEF SavePatch
  <1>5. CASE i \in Used
    <2>1. PICK c \in Editing : /\ c = Request("compute", {}, Freelance, NoEntry) /\ c.step = "compute"
      BY RequestTypes, NoEntryIsOne
    <2>2. i \in HourIds /\ hours[i] \in Entries
      BY <1>5 DEF Used, HoursTypeOK
    <2>3. /\ editor' = [editor EXCEPT ![e] = c]
          /\ hours' = [hours EXCEPT ![i] = Patched(hours[i], read, new)]
      BY <1>2, <1>3, <1>5, <2>1, <2>2 DEF SavePatch, Reconcile, HoursTypeOK, Patched
    <2>4. /\ Asked' /\ editor' \in [Editors -> Editing \cup {Ready}] /\ editor'[e] = c
          /\ apart => \A q \in Editors \ {e} : editor[q] = Ready /\ editor'[q] = Ready
      BY <1>1, <2>1, <2>3, GoesOn
    <2>5. new \in Entries
      BY <1>1, <1>3 DEF Asked
    <2>6. hours' \in [HourIds -> Entries]
      BY <2>2, <2>3, <2>5, PatchedIs DEF HoursTypeOK
    <2>7. HoursTypeOK' /\ Asked' /\ Placed'
      BY <1>4, <2>4, <2>6, PlacedStays DEF HoursTypeOK, membershipVars, salonVars
    <2>8. apart' => NoClash'
      <3>1. SUFFICES ASSUME apart
                     PROVE  NoClash'
        BY <1>4
      <3>2. PICK entry \in Entries :
              /\ editor[e].new = {entry}
              /\ \A j \in Used : j # i => ~Overlaps(hours[j].span, entry.span)
        BY <1>1, <1>2, <3>1 DEF OneByOne, Patches
      <3>3. new = entry
        BY <1>3, <3>2
      <3>4. hours[i] = read
        BY <1>1, <1>2, <1>5, <3>1 DEF OneByOne, Patches, Used
      <3>5. hours'[i].span[1] = entry.span[1] /\ hours'[i].span[2] = entry.span[2]
        BY <2>2, <2>3, <3>3, <3>4, PatchedIs DEF HoursTypeOK
      <3>6. \A j \in Used' : j # i => j \in Used /\ hours'[j] = hours[j]
        BY <2>3 DEF Used, HoursTypeOK
      <3>7. \A j \in Used' : j # i => ~Overlaps(hours'[j].span, hours'[i].span) /\ ~Overlaps(hours'[i].span, hours'[j].span)
        BY <3>2, <3>5, <3>6 DEF Overlaps
      <3>8. \A j, k \in Used' : j # k /\ j # i /\ k # i => ~Overlaps(hours'[j].span, hours'[k].span)
        BY <3>1, <3>6 DEF OneByOne, NoClash
      <3>9. QED
        BY <3>7, <3>8 DEF NoClash, Overlaps
    <2>9. QED
      BY <1>4, <2>1, <2>4, <2>7, <2>8, Computes
  <1>6. CASE i \notin Used
    <2>1. editor' = [editor EXCEPT ![e] = Ready] /\ hours' = hours
      BY <1>2, <1>6 DEF SavePatch
    <2>2. /\ Asked' /\ editor' \in [Editors -> Editing \cup {Ready}] /\ editor'[e] = Ready
          /\ apart => \A q \in Editors \ {e} : editor[q] = Ready /\ editor'[q] = Ready
      BY <1>1, <2>1, GoesOn DEF Ready
    <2>3. HoursTypeOK' /\ Asked' /\ Placed'
      BY <1>4, <2>1, <2>2, PlacedStays DEF HoursTypeOK, membershipVars, salonVars
    <2>4. \A r \in Reservations : Misplaced(r)' => Misplaced(r)
      BY <1>4, <2>1, NothingMisplaced
    <2>5. apart' => Noticed'
      BY <1>1, <1>4, <2>2, <2>4 DEF OneByOne, Noticed, Ready
    <2>6. apart' => NoClash' /\ Replaces(e)' /\ Patches(e)'
      BY <1>4, <2>1, <2>2 DEF OneByOne, NoClash, Used, Overlaps, Replaces, Patches, Ready
    <2>7. QED
      BY <1>4, <2>2, <2>3, <2>5, <2>6, OneEdits
  <1>7. QED
    BY <1>5, <1>6

LEMMA FindAffectedStep ==
  ASSUME HoursInv, NEW e \in Editors, FindAffected(e), UNCHANGED membershipVars
  PROVE  HoursInv'
  <1> USE DEF HoursInv
  <1>1. editor[e] \in Editing /\ editor[e].step = "compute" /\ editor[e] # Ready
    BY EditorTypes DEF FindAffected
  <1>2. PICK affected \in BOOLEAN : affected <=> \E r \in Reservations : OutOfHours(r)
    <2>1. (\E r \in Reservations : OutOfHours(r)) \in BOOLEAN
      OBVIOUS
    <2>2. QED
      BY <2>1
  <1>3. PICK c \in Editing : /\ c = [editor[e] EXCEPT !.step = "sync", !.flag = affected]
                             /\ c.step = "sync" /\ c.flag = affected
    <2>1. [editor[e] EXCEPT !.step = "sync", !.flag = affected] \in Editing
      BY <1>1 DEF Editing
    <2>2. QED
      BY <1>1, <2>1 DEF Editing
  <1>4. /\ editor' = [editor EXCEPT ![e] = c] /\ slipped' = {}
        /\ UNCHANGED <<hours, opening, asking, booked, needsUpdate, apart, unreconciled>>
    <2>1. (\E r \in Reservations : OutOfHours(r)) = affected
      BY <1>2
    <2>2. QED
      BY <1>3, <2>1, Zenon DEF FindAffected
  <1>5. /\ Asked' /\ editor' \in [Editors -> Editing \cup {Ready}] /\ editor'[e] = c
        /\ apart => \A q \in Editors \ {e} : editor[q] = Ready /\ editor'[q] = Ready
    BY <1>1, <1>3, <1>4, GoesOn
  <1>6. HoursTypeOK' /\ Placed'
    BY <1>4, <1>5, PlacedStays DEF HoursTypeOK, membershipVars, salonVars
  <1>7. \A r \in Reservations : Misplaced(r)' => affected
    BY <1>2, <1>4 DEF Misplaced, OutOfHours, EffectiveHours, Clip, Used, Contains, Meet, Ordered, Exists, membershipVars, salonVars
  <1>8. ASSUME apart'
        PROVE  /\ \A q \in Editors \ {e} : editor'[q] = Ready
               /\ NoClash' /\ Noticed' /\ Replaces(e)' /\ Patches(e)'
    <2>1. apart
      BY <1>4, <1>8
    <2>2. Noticed'
      <3>1. \A q \in Editors : q = e \/ editor'[q].step = "ready"
        BY <1>5, <2>1 DEF Ready
      <3>2. editor'[e].step = "sync" /\ editor'[e].flag = affected
        BY <1>3, <1>5
      <3>3. \A r \in Reservations : Misplaced(r)' => editor'[e].flag
        BY <1>7, <3>2
      <3>4. QED
        BY <3>1, <3>2, <3>3 DEF Noticed
    <2>3. NoClash'
      BY <1>4, <2>1 DEF OneByOne, NoClash, Used, Overlaps
    <2>4. Replaces(e)' /\ Patches(e)'
      BY <1>3, <1>5 DEF Replaces, Patches
    <2>5. QED
      BY <1>5, <2>1, <2>2, <2>3, <2>4
  <1>9. QED
    BY <1>5, <1>6, <1>8, OneEdits

LEMMA SyncFlagStep ==
  ASSUME HoursInv, NEW e \in Editors, SyncFlag(e), UNCHANGED membershipVars
  PROVE  HoursInv'
  <1> USE DEF HoursInv
  <1>1. editor[e] \in Editing /\ editor[e].step = "sync" /\ editor[e] # Ready /\ editor[e].flag \in BOOLEAN
    BY EditorTypes DEF SyncFlag, Editing
  <1>2. /\ needsUpdate' = editor[e].flag /\ editor' = [editor EXCEPT ![e] = Ready]
        /\ UNCHANGED <<hours, opening, bookVars, apart, unreconciled>>
    BY DEF SyncFlag
  <1>3. /\ Asked' /\ editor' \in [Editors -> Editing \cup {Ready}] /\ editor'[e] = Ready
        /\ apart => \A q \in Editors \ {e} : editor[q] = Ready /\ editor'[q] = Ready
    BY <1>1, <1>2, GoesOn DEF Ready
  <1>4. HoursTypeOK' /\ Placed'
    BY <1>1, <1>2, <1>3, PlacedStays DEF HoursTypeOK, membershipVars, salonVars
  <1>5. \A r \in Reservations : Misplaced(r)' => Misplaced(r)
    BY <1>2, NothingMisplaced
  <1>6. ASSUME apart'
        PROVE  /\ \A q \in Editors \ {e} : editor'[q] = Ready
               /\ NoClash' /\ Noticed' /\ Replaces(e)' /\ Patches(e)'
    <2>1. apart
      BY <1>2, <1>6
    <2>2. \A r \in Reservations : Misplaced(r) => editor[e].flag
      BY <1>1, <2>1 DEF OneByOne, Noticed
    <2>3. Noticed'
      BY <1>2, <1>3, <1>5, <2>1, <2>2 DEF Noticed, Ready
    <2>4. NoClash'
      BY <1>2, <2>1 DEF OneByOne, NoClash, Used, Overlaps
    <2>5. Replaces(e)' /\ Patches(e)'
      BY <1>3 DEF Replaces, Patches, Ready
    <2>6. QED
      BY <1>3, <2>1, <2>3, <2>4, <2>5
  <1>7. QED
    BY <1>3, <1>4, <1>6, OneEdits

LEMMA CrashEditorStep ==
  ASSUME HoursInv, NEW e \in Editors, CrashEditor(e), UNCHANGED membershipVars
  PROVE  HoursInv'
  <1> USE DEF HoursInv
  <1>1. /\ editor[e] # Ready /\ editor' = [editor EXCEPT ![e] = Ready] /\ apart' = FALSE
        /\ UNCHANGED <<hours, opening, bookVars, needsUpdate, unreconciled>>
    BY DEF CrashEditor
  <1>2. Asked' /\ editor' \in [Editors -> Editing \cup {Ready}]
    BY <1>1, GoesOn DEF Ready
  <1>3. HoursTypeOK' /\ Placed'
    BY <1>1, <1>2, PlacedStays DEF HoursTypeOK, membershipVars, salonVars
  <1>4. QED
    BY <1>1, <1>2, <1>3 DEF OneByOne

\* Bookings, memberships and departures leave the requests as they are; it is
\* enough that entries only go and that nothing more is misplaced.
LEMMA EditorsStay ==
  ASSUME HoursInv, UNCHANGED <<editor, needsUpdate, apart>>,
         \A i \in HourIds : hours'[i] \in {hours[i], NoEntry},
         \A r \in Reservations : Misplaced(r)' => Misplaced(r)
  PROVE  Asked' /\ OneByOne'
  <1> USE DEF HoursInv
  <1>1. Asked'
    BY DEF Asked
  <1>2. \A j \in Used' : j \in Used /\ hours'[j] = hours[j]
    BY DEF Used
  <1>3. SUFFICES ASSUME apart
                 PROVE  OneByOne'
    BY <1>1 DEF OneByOne
  <1>4. OneChange' /\ Noticed'
    BY <1>3 DEF OneByOne, OneChange, Noticed
  <1>5. NoClash'
    BY <1>2, <1>3 DEF OneByOne, NoClash, Overlaps
  <1>6. ASSUME NEW e \in Editors
        PROVE  Replaces(e)' /\ Patches(e)'
    <2>1. Replaces(e) /\ Patches(e)
      BY <1>3 DEF OneByOne
    <2>2. Replaces(e)'
      BY <1>2, <2>1 DEF Replaces, NoOverlaps, Overlaps
    <2>3. Patches(e)'
      BY <1>2, <2>1 DEF Patches, Overlaps
    <2>4. QED
      BY <2>2, <2>3
  <1>7. QED
    BY <1>4, <1>5, <1>6 DEF OneByOne

\* A request that is looking, or gives up, changes nothing but what it found.
LEMMA AskingMoves ==
  ASSUME HoursInv, asking' \in [Reservations -> Asking \cup {NotAsking}],
         UNCHANGED <<hours, opening, editor, booked, needsUpdate, apart, unreconciled, slipped, membershipVars>>,
         \A r \in Reservations :
            /\ asking'[r].step = "hours" => \A p \in asking'[r].at : WasThere(p)
            /\ asking'[r].step = "insert" => WasThere(asking'[r].place)
  PROVE  HoursInv'
  <1> USE DEF HoursInv
  <1>1. salon' = salon /\ \A s \in Salons : salon[s].status # "none" => (Exists(s)' => Exists(s))
    BY DEF Exists, membershipVars, salonVars
  <1>2. HoursTypeOK'
    BY DEF HoursTypeOK
  <1>3. Placed'
    BY <1>1 DEF Placed, WasThere
  <1>4. \A q \in Reservations : Misplaced(q)' => Misplaced(q)
    BY <1>1, StillMisplaced
  <1>5. QED
    BY <1>2, <1>3, <1>4, EditorsStay

LEMMA FindWorkplacesStep ==
  ASSUME HoursInv, MembershipTypeOK, NEW r \in Reservations, FindWorkplaces(r), UNCHANGED membershipVars
  PROVE  HoursInv'
  <1> DEFINE at == OpenPlaces
             ask == [step |-> "hours", at |-> at, place |-> Freelance, span |-> <<0, 0>>, offered |-> FALSE]
  <1>1. asking' = [asking EXCEPT ![r] = ask]
        /\ UNCHANGED <<hours, opening, editor, booked, needsUpdate, apart, unreconciled, slipped>>
    BY DEF FindWorkplaces
  <1>2. at \in SUBSET Places /\ \A p \in at : WasThere(p)
    BY DEF OpenPlaces, ResolveActiveSalons, Places, WasThere
  <1> HIDE DEF at
  <1>3. ask \in Asking
    BY <1>2, HoursAssumption DEF Asking, Intervals, Places
  <1>4. \A q \in Reservations : asking'[q] = IF q = r THEN ask ELSE asking[q]
    BY <1>1 DEF HoursInv, HoursTypeOK
  <1>5. asking' \in [Reservations -> Asking \cup {NotAsking}]
    BY <1>1, <1>3 DEF HoursInv, HoursTypeOK
  <1>6. ASSUME NEW q \in Reservations
        PROVE  /\ asking'[q].step = "hours" => \A p \in asking'[q].at : WasThere(p)
               /\ asking'[q].step = "insert" => WasThere(asking'[q].place)
    <2>1. CASE q = r
      BY <1>2, <1>4, <2>1
    <2>2. CASE q # r
      BY <1>4, <2>2 DEF HoursInv, Placed
    <2>3. QED
      BY <2>1, <2>2
  <1>7. QED
    BY <1>1, <1>5, <1>6, AskingMoves

LEMMA FindHostStep ==
  ASSUME HoursInv, NEW r \in Reservations, NEW w \in Intervals, FindHost(r, w), UNCHANGED membershipVars
  PROVE  HoursInv'
  <1>1. PICK i \in HourIds :
          /\ IsHost(i, w, asking[r].at)
          /\ asking' = [asking EXCEPT ![r] =
                [step |-> "insert", at |-> {}, place |-> hours[i].place, span |-> w,
                 offered |-> \E v \in EffectiveHours(hours[i].place) : Contains(v, w)]]
    BY DEF FindHost
  <1>2. UNCHANGED <<hours, opening, editor, booked, needsUpdate, apart, unreconciled, slipped>> /\ asking[r].step = "hours"
    BY DEF FindHost
  <1>3. PICK p \in Places : p = hours[i].place
    BY DEF HoursInv, HoursTypeOK, Entries
  <1>4. WasThere(p)
    BY <1>1, <1>2, <1>3 DEF IsHost, HoursInv, Placed
  <1>5. PICK covered \in BOOLEAN : covered = \E v \in EffectiveHours(hours[i].place) : Contains(v, w)
    <2>1. (\E v \in EffectiveHours(hours[i].place) : Contains(v, w)) \in BOOLEAN
      OBVIOUS
    <2>2. QED
      BY <2>1
  <1>6. PICK ask \in Asking : /\ ask = [step |-> "insert", at |-> {}, place |-> p, span |-> w, offered |-> covered]
                              /\ ask.step = "insert" /\ ask.place = p
    <2>1. [step |-> "insert", at |-> {}, place |-> p, span |-> w, offered |-> covered] \in Asking
      BY DEF Asking
    <2>2. QED
      BY <2>1
  <1>7. asking' = [asking EXCEPT ![r] = ask]
    BY <1>1, <1>3, <1>5, <1>6, Zenon
  <1>8. /\ asking' \in [Reservations -> Asking \cup {NotAsking}]
        /\ \A q \in Reservations : asking'[q] = IF q = r THEN ask ELSE asking[q]
    BY <1>7 DEF HoursInv, HoursTypeOK
  <1>9. ASSUME NEW q \in Reservations
        PROVE  /\ asking'[q].step = "hours" => \A s \in asking'[q].at : WasThere(s)
               /\ asking'[q].step = "insert" => WasThere(asking'[q].place)
    <2>1. CASE q = r
      BY <1>4, <1>6, <1>8, <2>1
    <2>2. CASE q # r
      BY <1>8, <2>2 DEF HoursInv, Placed
    <2>3. QED
      BY <2>1, <2>2
  <1>10. QED
    BY <1>2, <1>8, <1>9, AskingMoves

LEMMA StopAskingStep ==
  ASSUME HoursInv, NEW r \in Reservations, StopAsking(r), UNCHANGED membershipVars
  PROVE  HoursInv'
  <1>1. UNCHANGED <<hours, opening, editor, booked, needsUpdate, apart, unreconciled, slipped>>
    BY DEF StopAsking
  <1>2. /\ asking' \in [Reservations -> Asking \cup {NotAsking}]
        /\ \A q \in Reservations : asking'[q] = IF q = r THEN NotAsking ELSE asking[q]
    BY DEF StopAsking, HoursInv, HoursTypeOK
  <1>3. \A q \in Reservations : /\ asking'[q].step = "hours" => \A s \in asking'[q].at : WasThere(s)
                                /\ asking'[q].step = "insert" => WasThere(asking'[q].place)
    BY <1>2 DEF NotAsking, HoursInv, Placed
  <1>4. QED
    BY <1>1, <1>2, <1>3, AskingMoves

\* What is inserted lies in the hours of this moment, or has slipped through.
LEMMA InsertBookingStep ==
  ASSUME HoursInv, NEW r \in Reservations, InsertBooking(r), UNCHANGED membershipVars
  PROVE  HoursInv'
  <1> USE DEF HoursInv
  <1>1. asking[r] \in Asking /\ asking[r].step = "insert"
    BY DEF InsertBooking, HoursTypeOK, NotAsking
  <1>2. PICK p \in Places, w \in Intervals : p = asking[r].place /\ w = asking[r].span
    BY <1>1 DEF Asking
  <1>3. PICK state \in {"pending", "confirmed"} :
          booked' = [booked EXCEPT ![r] = [place |-> p, span |-> w, status |-> state, offered |-> asking[r].offered]]
    BY <1>2 DEF InsertBooking
  <1>4. /\ UNCHANGED <<hours, opening, editor, needsUpdate, apart, unreconciled>>
        /\ asking' = [asking EXCEPT ![r] = NotAsking]
    BY DEF InsertBooking
  <1>5. slipped' = IF Covered(p, w) THEN slipped ELSE slipped \cup {r}
    BY <1>2 DEF InsertBooking, Covered
  <1>6. PICK b \in Bookings : /\ b = [place |-> p, span |-> w, status |-> state, offered |-> asking[r].offered]
                              /\ b.place = p /\ b.span = w
    <2>1. [place |-> p, span |-> w, status |-> state, offered |-> asking[r].offered] \in Bookings
      BY <1>1 DEF Bookings, Asking
    <2>2. QED
      BY <2>1
  <1>7. /\ booked' \in [Reservations -> Bookings \cup {NoBooking}]
        /\ booked'[r] = b /\ \A q \in Reservations \ {r} : booked'[q] = booked[q]
    BY <1>3, <1>6 DEF HoursTypeOK
  <1>8. /\ asking' \in [Reservations -> Asking \cup {NotAsking}]
        /\ asking'[r] = NotAsking /\ \A q \in Reservations \ {r} : asking'[q] = asking[q]
    BY <1>4 DEF HoursTypeOK
  <1>9. HoursTypeOK'
    BY <1>4, <1>5, <1>7, <1>8 DEF HoursTypeOK
  <1>10. Placed'
    <2>1. WasThere(p) /\ salon' = salon
      BY <1>1, <1>2 DEF Placed, membershipVars, salonVars
    <2>2. QED
      BY <1>6, <1>7, <1>8, <2>1 DEF Placed, WasThere, NotAsking
  <1>11. ASSUME NEW q \in Reservations, Misplaced(q)'
         PROVE  Misplaced(q)
    <2>1. Covered(p, w)' <=> Covered(p, w)
      BY <1>4 DEF Covered, EffectiveHours, Clip, Used, Contains, Meet, Ordered, Exists, membershipVars, salonVars
    <2>2. q # r
      BY <1>5, <1>6, <1>7, <1>11, <2>1 DEF Misplaced, OutOfHours, Covered
    <2>3. booked'[q] = booked[q] /\ (q \in slipped => q \in slipped')
      BY <1>5, <1>7, <2>2
    <2>4. salon' = salon /\ \A s \in Salons : salon[s].status # "none" => (Exists(s)' => Exists(s))
      BY DEF Exists, membershipVars, salonVars
    <2>5. QED
      BY <1>4, <1>11, <2>3, <2>4, StillMisplaced
  <1>12. Asked' /\ OneByOne'
    BY <1>4, <1>11, EditorsStay
  <1>13. QED
    BY <1>9, <1>10, <1>12

LEMMA EndBookingStep ==
  ASSUME HoursInv, NEW r \in Reservations, EndBooking(r), UNCHANGED membershipVars
  PROVE  HoursInv'
  <1> USE DEF HoursInv
  <1>1. /\ booked' = [booked EXCEPT ![r] = NoBooking] /\ slipped' = slipped \ {r}
        /\ UNCHANGED <<hours, opening, editor, asking, needsUpdate, apart, unreconciled>>
    BY DEF EndBooking
  <1>2. salon' = salon /\ \A s \in Salons : salon[s].status # "none" => (Exists(s)' => Exists(s))
    BY DEF Exists, membershipVars, salonVars
  <1>3. HoursTypeOK' /\ Placed'
    BY <1>1, <1>2 DEF HoursTypeOK, Placed, WasThere
  <1>4. ASSUME NEW q \in Reservations, Misplaced(q)'
        PROVE  Misplaced(q)
    <2>1. q # r
      BY <1>1, <1>4 DEF Misplaced, OutOfHours, HoursTypeOK
    <2>2. booked'[q] = booked[q] /\ (q \in slipped => q \in slipped')
      BY <1>1, <2>1 DEF HoursTypeOK
    <2>3. QED
      BY <1>1, <1>2, <1>4, <2>2, StillMisplaced
  <1>5. QED
    BY <1>1, <1>3, <1>4, EditorsStay

LEMMA LeaveHoursStep ==
  ASSUME HoursInv, MembershipTypeOK, NEW h \in Handlers, DeleteLink(h), LeaveHours(h)
  PROVE  HoursInv'
  <1> USE DEF HoursInv
  <1>1. PICK m : m = handler[h].on
    OBVIOUS
  <1>2. /\ m[1] = Worker
        /\ hours' = [i \in HourIds |-> IF hours[i].place = m[2] THEN NoEntry ELSE hours[i]]
        /\ unreconciled' = unreconciled \cup {m[2]}
        /\ UNCHANGED <<opening, editor, asking, needsUpdate, apart>>
        /\ \A r \in Reservations : booked'[r] = NoBooking \/ (booked'[r] = booked[r] /\ (r \in slipped => r \in slipped'))
        /\ slipped' \subseteq slipped
        /\ booked' \in [Reservations -> Bookings \cup {NoBooking}]
    BY <1>1 DEF LeaveHours, HoursTypeOK
  <1>3. m[2] \in Salons
    <2>1. handler[h] \in LinkCalls
      BY DEF LeaveHours, MembershipTypeOK, LinkCalls, InviteCalls, Idle
    <2>2. QED
      BY <1>1, <2>1 DEF LinkCalls, Pairs
  <1>4. salon' = salon /\ \A s \in Salons : salon[s].status # "none" => (Exists(s)' => Exists(s))
    BY DEF DeleteLink, Exists, salonVars
  <1>5. HoursTypeOK'
    BY <1>2, <1>3, NoEntryIsOne DEF HoursTypeOK
  <1>6. Placed'
    BY <1>2, <1>4 DEF Placed, WasThere
  <1>7. \A i \in HourIds : /\ hours'[i] \in {hours[i], NoEntry}
                           /\ hours'[i] = hours[i] \/ (hours[i].place \in unreconciled' /\ hours[i].place # Freelance)
    BY <1>2, <1>3, HoursAssumption
  <1>8. ASSUME NEW q \in Reservations, Misplaced(q)'
        PROVE  Misplaced(q)
    <2>1. booked'[q] = booked[q] /\ (q \in slipped => q \in slipped')
      BY <1>2, <1>8 DEF Misplaced, OutOfHours
    <2>2. QED
      BY <1>2, <1>4, <1>7, <1>8, <2>1, StillMisplaced
  <1>9. QED
    BY <1>2, <1>5, <1>6, <1>7, <1>8, EditorsStay

\* Salons and memberships move under the hours and keep the invariant.
LEMMA MembershipsMove ==
  ASSUME HoursInv, MembershipTypeOK, [MembershipNext]_membershipVars, UNCHANGED hourVars
  PROVE  HoursInv'
  <1> USE DEF HoursInv
  <1>1. UNCHANGED <<hours, opening, editor, booked, asking, slipped, needsUpdate, apart, unreconciled>>
    BY DEF hourVars
  <1>2. \A s \in Salons : salon[s].status # "none" => salon'[s].status # "none" /\ (Exists(s)' => Exists(s))
    BY SalonsAge
  <1>3. HoursTypeOK'
    BY <1>1 DEF HoursTypeOK
  <1>4. Placed'
    <2>1. \A p \in Places : WasThere(p) => WasThere(p)'
      BY <1>2 DEF WasThere, Places
    <2>2. ASSUME NEW r \in Reservations
          PROVE  /\ booked[r] # NoBooking => booked[r].place \in Places
                 /\ asking[r].step = "hours" => asking[r].at \subseteq Places
                 /\ asking[r].step = "insert" => asking[r].place \in Places
      BY DEF HoursTypeOK, Bookings, Asking, NotAsking
    <2>3. QED
      BY <1>1, <2>1, <2>2 DEF Placed
  <1>5. \A r \in Reservations : Misplaced(r)' => Misplaced(r)
    BY <1>1, <1>2, StillMisplaced
  <1>6. QED
    BY <1>1, <1>3, <1>4, <1>5, EditorsStay

\* Hours begin with the invariant.
LEMMA HoursBegin ==
  ASSUME HoursInit
  PROVE  HoursInv
  <1>1. HoursTypeOK
    BY NoEntryIsOne, HoursAssumption DEF HoursInit, HoursTypeOK, Intervals
  <1>2. Used = {} /\ \A e \in Editors : editor[e] = Ready
    BY DEF HoursInit, Used
  <1>3. \A r \in Reservations : ~Misplaced(r)
    BY DEF HoursInit, Misplaced, OutOfHours
  <1>4. Asked /\ Placed
    BY DEF HoursInit, Asked, Placed, Ready, NotAsking
  <1>5. OneByOne
    BY <1>2, <1>3 DEF OneByOne, OneChange, NoClash, Noticed, Replaces, Patches, Ready
  <1>6. QED
    BY <1>1, <1>4, <1>5 DEF HoursInv

\* Every step of hours or memberships keeps the invariant.
LEMMA HoursGoOn ==
  ASSUME HoursInv, MembershipTypeOK, [SalonHoursNext]_<<membershipVars, hourVars>>
  PROVE  HoursInv'
  <1>1. ASSUME HoursNext, UNCHANGED membershipVars
        PROVE  HoursInv'
    BY <1>1, SetWorkingHoursStep, UpdateWorkingHourStep, DeleteWorkingHourStep, UpdateSalonHoursStep, ClearHoursStep,
       InsertHoursStep, SavePatchStep, FindAffectedStep, SyncFlagStep, CrashEditorStep
       DEF HoursNext
  <1>2. ASSUME BookNext, UNCHANGED membershipVars
        PROVE  HoursInv'
    <2>1. ASSUME NEW r \in Reservations, NEW t \in 0 .. Horizon, NEW d \in Lengths, t + d <= Horizon, FindHost(r, <<t, t + d>>)
          PROVE  HoursInv'
      <3>1. <<t, t + d>> \in Intervals
        BY <2>1, HoursAssumption DEF Intervals
      <3>2. QED
        BY <1>2, <2>1, <3>1, FindHostStep
    <2>2. QED
      BY <1>2, <2>1, FindWorkplacesStep, InsertBookingStep, StopAskingStep, EndBookingStep DEF BookNext
  <1>3. QED
    BY <1>1, <1>2, LeaveHoursStep, MembershipsMove DEF SalonHoursNext, membershipVars, hourVars

\* The salons and memberships move as they do without hours.
LEMMA HoursKeepMembership == HoursSpec => MembershipSpec
  <1>1. [SalonHoursNext]_<<membershipVars, hourVars>> => [MembershipNext]_membershipVars
    BY DEF SalonHoursNext, MembershipNext, LinkNext
  <1>2. QED
    BY <1>1, PTL DEF HoursSpec, MembershipSpec

\* The invariant of hours holds in every state: types, bookings at salons that were
\* there and, while changes take turns, hours that do not clash and a flag that
\* is set, or about to be (stylist.service.ts, salon.service.ts, workingHours.ts).
THEOREM HoursInvariantHolds == HoursSpec => []HoursInv
  <1>1. HoursInit => HoursInv
    BY HoursBegin
  <1>2. MembershipInv /\ HoursInv /\ [SalonHoursNext]_<<membershipVars, hourVars>> => HoursInv'
    BY HoursGoOn DEF MembershipInv
  <1>3. HoursSpec => []MembershipInv
    BY HoursKeepMembership, MembershipInvariantHolds, PTL
  <1>4. QED
    BY <1>1, <1>2, <1>3, PTL DEF HoursSpec

\* Working hours of a stylist do not overlap, at whatever places, while changes of
\* his hours take turns (setWorkingHours, updateWorkingHour).
THEOREM HoursNeverOverlap == HoursSpec => []HoursApartNeverOverlap
  <1>1. HoursInv => HoursApartNeverOverlap
    BY DEF HoursInv, OneByOne, NoClash, HoursApartNeverOverlap
  <1>2. QED
    BY <1>1, HoursInvariantHolds, PTL

\* Whenever an upcoming booking lies outside the hours, the stylist is told to
\* update, or a writer is about to tell him, while changes take turns and no salon
\* waits to be reconciled (syncHoursFlag, findAffectedReservations).
THEOREM FlagFollows == HoursSpec => []FlagFollowsHours
  <1>1. HoursInv => FlagFollowsHours
    BY DEF HoursInv, OneByOne, Noticed, Misplaced, FlagFollowsHours, Ready
  <1>2. QED
    BY <1>1, HoursInvariantHolds, PTL

-----------------------------------------------------------------------------
(* What is offered *)

\* The places where the stylist works, and what can be offered there.
Working == UNION {Parts(hours[i], hours[i].place) : i \in OpenEntries(GetBookability(Worker))}
Offered(length, minStart) == BuildSlots(Working, length, Busy, minStart)
AllThere == \A i \in Used : hours[i].place # Freelance => Exists(hours[i].place)

\* Whether the salon of an entry is looked up or its id compared, the slots are
\* the same while every salon is there.
LEMMA SlotsAre ==
  ASSUME AllThere, NEW length, NEW minStart
  PROVE  GetAvailability(length, minStart) = IF GetBookability(Worker).bookable THEN Offered(length, minStart) ELSE {}
  <1> DEFINE book == GetBookability(Worker)
             open == {i \in Used : LET p == Populated(hours[i])
                                   IN  IF p = Freelance THEN book.freelance ELSE p \in book.salons}
  <1>1. \A i \in Used : Populated(hours[i]) = hours[i].place
    BY DEF AllThere, Populated
  <1>2. open = OpenEntries(book)
    BY <1>1 DEF OpenEntries
  <1>3. \A i \in OpenEntries(book) : i \in Used
    BY DEF OpenEntries
  <1>4. {Parts(hours[i], Populated(hours[i])) : i \in open} = {Parts(hours[i], hours[i].place) : i \in OpenEntries(book)}
    BY <1>1, <1>2, <1>3
  <1>5. GetAvailability(length, minStart)
          = IF book.bookable
            THEN BuildSlots(UNION {Parts(hours[i], Populated(hours[i])) : i \in open}, length, Busy, minStart) ELSE {}
    BY DEF GetAvailability
  <1>6. QED
    BY <1>4, <1>5 DEF Offered, Working

\* The sum of one duration is the duration.
LEMMA SumOfOne ==
  ASSUME NEW d \in Nat
  PROVE  SumFunctionOnSet([x \in {d} |-> x], {d}) = d
  <1> DEFINE f == [x \in {d} |-> x]
  <1>1. IsFiniteSet({d}) /\ {d} # {}
    BY FS_Singleton
  <1>2. First({d}) = d /\ Rest({d}) = {}
    BY FirstOf DEF Rest
  <1>3. SumFunctionOnSet(f, {d}) = f[d] + SumFunctionOnSet(f, {})
    BY <1>1, <1>2, SumUnfolds
  <1>4. QED
    BY <1>3, SumOfNone

\* The shortest service is one of the services.
LEMMA ShortestIs == Min(Lengths) \in Lengths /\ \A d \in Lengths : Min(Lengths) <= d
  <1>1. Lengths \in SUBSET Nat /\ Lengths # {}
    BY HoursAssumption
  <1>2. \E m \in Lengths : \A d \in Lengths : m <= d
    BY <1>1, LeastOf
  <1>3. QED
    BY <1>2 DEF Min

\* What is busy are intervals.
LEMMA BusyTypes == HoursTypeOK => Busy \subseteq Intervals
  BY DEF HoursTypeOK, Busy, Bookings

\* What is offered at a place lies within an entry there.
LEMMA WorkingIs ==
  ASSUME HoursTypeOK, NEW w \in Working
  PROVE  /\ w.span \in Intervals
         /\ \E i \in OpenEntries(GetBookability(Worker)) :
               i \in Used /\ w.place = hours[i].place /\ Contains(hours[i].span, w.span)
  <1>1. PICK i \in OpenEntries(GetBookability(Worker)) : w \in Parts(hours[i], hours[i].place)
    BY DEF Working
  <1>2. i \in Used /\ i \in HourIds /\ hours[i] \in Entries
    BY <1>1 DEF OpenEntries, Used, HoursTypeOK
  <1>3. [hours[i] EXCEPT !.place = hours[i].place] = hours[i]
    BY <1>2 DEF Entries
  <1>4. PICK part \in Clip(hours[i]) : w = [place |-> hours[i].place, span |-> part]
    BY <1>1, <1>3 DEF Parts
  <1>5. PICK p \in Places, v \in Intervals : p = hours[i].place /\ v = hours[i].span
    BY <1>2 DEF Entries
  <1>6. part \in Intervals /\ Contains(v, part)
    <2>1. CASE p = Freelance
      BY <1>4, <1>5, <2>1, HoursAssumption DEF Clip, Contains, Intervals
    <2>2. CASE p # Freelance
      <3>1. p \in Salons /\ opening[p] \in SUBSET Intervals
        BY <2>2 DEF Places, HoursTypeOK
      <3>2. PICK o \in Intervals : part = Meet(v, o)
        BY <1>4, <1>5, <2>2, <3>1 DEF Clip
      <3>3. Meet(v, o) \in Intervals /\ Contains(v, Meet(v, o))
        BY HoursAssumption DEF Meet, Intervals, Contains
      <3>4. QED
        BY <3>2, <3>3
    <2>3. QED
      BY <2>1, <2>2
  <1>7. QED
    BY <1>1, <1>2, <1>4, <1>5, <1>6

\* Where a service fits, the shortest one does.
LEMMA ShorterFits ==
  ASSUME HoursTypeOK, NEW minStart \in {0, 1}, NEW d \in Lengths, Offered(d, minStart) # {}
  PROVE  Offered(Min(Lengths), minStart) # {}
  <1>1. PICK slot \in Offered(d, minStart) : TRUE
    OBVIOUS
  <1>2. PICK p \in Places, s \in Intervals : p = slot.place /\ s = slot.span
    BY <1>1 DEF Offered, BuildSlots
  <1>3. /\ s[1] \in 0 .. Horizon /\ s[2] \in 0 .. Horizon /\ s[2] = s[1] + d /\ s[1] >= minStart
        /\ \A b \in Busy : ~Overlaps(b, s)
    BY <1>1, <1>2 DEF Offered, BuildSlots, Intervals
  <1>4. PICK w \in Working : w.place = p /\ Contains(w.span, s) /\ (s[1] - w.span[1]) % Step15 = 0
    BY <1>1, <1>2 DEF Offered, BuildSlots
  <1>5. PICK least \in Nat : least = Min(Lengths) /\ least <= d /\ least \in Lengths /\ d \in Nat
    <2>1. \A x \in Lengths : x \in Nat
      BY HoursAssumption
    <2>2. Min(Lengths) \in Lengths /\ Min(Lengths) <= d
      BY ShortestIs
    <2>3. QED
      BY <2>1, <2>2
  <1>6. PICK t \in Nat : t = s[1] /\ t + least \in 0 .. Horizon /\ t + least <= s[2] /\ t \in 0 .. Horizon
    BY <1>3, <1>5, HoursAssumption
  <1>7. PICK short \in [place : Places, span : Intervals] :
           short.place = p /\ short.span[1] = t /\ short.span[2] = t + least
    <2>1. [place |-> p, span |-> <<t, t + least>>] \in [place : Places, span : Intervals]
      BY <1>6 DEF Intervals
    <2>2. QED
      BY <2>1
  <1>8. \A b \in Busy : ~Overlaps(b, short.span)
    <2>1. SUFFICES ASSUME NEW b \in Busy, Overlaps(b, short.span)
                   PROVE  FALSE
      OBVIOUS
    <2>2. b[1] \in Nat /\ b[2] \in Nat
      BY BusyTypes, HoursAssumption DEF Intervals
    <2>3. Overlaps(b, s)
      BY <1>3, <1>6, <1>7, <2>1, <2>2 DEF Overlaps
    <2>4. QED
      BY <1>3, <2>3
  <1>9. w.span \in Intervals
    BY <1>4, WorkingIs
  <1>10. Contains(w.span, short.span)
    <2>1. w.span[1] \in Nat /\ w.span[2] \in Nat
      BY <1>9, HoursAssumption DEF Intervals
    <2>2. QED
      BY <1>2, <1>3, <1>4, <1>6, <1>7, <2>1 DEF Contains
  <1>11. short \in Offered(least, minStart)
    BY <1>3, <1>4, <1>6, <1>7, <1>8, <1>10 DEF Offered, BuildSlots
  <1>12. QED
    BY <1>5, <1>11

\* What is offered can be booked, and has one entry while hours do not overlap.
LEMMA OfferedIsBookable ==
  ASSUME HoursTypeOK, MembershipTypeOK, GetBookability(Worker).bookable,
         NEW minStart \in {0, 1}, NEW d \in Lengths, NEW slot \in Offered(d, minStart)
  PROVE  \E i \in Used : /\ MayBook(i, slot.span) /\ hours[i].place = slot.place
                         /\ NoClash => \A j \in Used \ {i} : ~Contains(hours[j].span, slot.span)
  <1>1. PICK p \in Places, s \in Intervals : p = slot.place /\ s = slot.span
    BY DEF Offered, BuildSlots
  <1>2. /\ s[1] \in Nat /\ s[2] \in Nat /\ s[1] < s[2]
        /\ \A b \in Busy : ~Overlaps(b, s)
    BY <1>1, HoursAssumption DEF Offered, BuildSlots, Intervals
  <1>3. PICK w \in Working : w.place = p /\ Contains(w.span, s)
    BY <1>1 DEF Offered, BuildSlots
  <1>4. PICK i \in OpenEntries(GetBookability(Worker)) :
           i \in Used /\ w.place = hours[i].place /\ Contains(hours[i].span, w.span)
    BY <1>3, WorkingIs
  <1>5. \A j \in Used : hours[j].span[1] \in Nat /\ hours[j].span[2] \in Nat
    BY HoursAssumption DEF Used, HoursTypeOK, Entries, Intervals
  <1>6. Contains(hours[i].span, s)
    <2>1. w.span[1] \in Nat /\ w.span[2] \in Nat
      BY <1>3, WorkingIs, HoursAssumption DEF Intervals
    <2>2. QED
      BY <1>2, <1>3, <1>4, <1>5, <2>1 DEF Contains
  <1>7. Worker \in accepting \ restricted /\ hours[i].place \in OpenPlaces
    BY <1>4 DEF GetBookability, DecideBookability, Profile, OpenEntries, OpenPlaces
  <1>8. MayBook(i, s)
    BY <1>2, <1>4, <1>6, <1>7 DEF MayBook, IsHost
  <1>9. ASSUME NoClash, NEW j \in Used, j # i, Contains(hours[j].span, s)
        PROVE  FALSE
    <2>1. Overlaps(hours[i].span, hours[j].span)
      BY <1>2, <1>4, <1>5, <1>6, <1>9 DEF Contains, Overlaps
    <2>2. QED
      BY <1>4, <1>9, <2>1 DEF NoClash
  <1>10. QED
    BY <1>1, <1>3, <1>4, <1>8, <1>9

\* The filter of the search, the calendar and the slots of the page give the same
\* answer in every state, and what is offered can be booked (getAvailability,
\* dayIsAvailable, the availability of the public search).
THEOREM AvailabilityStaysTrue == HoursSpec => []AvailabilityAgrees
  <1>1. ASSUME HoursInv, MembershipTypeOK, AllThere, NEW m \in {0, 1}
        PROVE  /\ \A d \in Lengths :
                     DayIsAvailable("all", {d}, m) <=> GetAvailability(d, m) # {}
               /\ DayIsAvailable("any", Lengths, m)
                     <=> \E d \in Lengths : GetAvailability(d, m) # {}
               /\ FoundBySearch(m) <=> DayIsAvailable("any", Lengths, m)
               /\ apart => \A d \in Lengths : \A slot \in GetAvailability(d, m) :
                     \E i \in Used : MayBook(i, slot.span) /\ hours[i].place = slot.place
                        /\ \A j \in Used \ {i} : ~Contains(hours[j].span, slot.span)
    <2> DEFINE bookable == GetBookability(Worker).bookable
    <2>1. \A d \in Lengths : GetAvailability(d, m) = IF bookable THEN Offered(d, m) ELSE {}
      BY <1>1, SlotsAre
    <2>2. \A d \in Lengths : DayIsAvailable("all", {d}, m) <=> bookable /\ Offered(d, m) # {}
      <3>1. \A d \in Lengths : SumFunctionOnSet([x \in {d} |-> x], {d}) = d
        <4>1. SUFFICES ASSUME NEW d \in Lengths
                       PROVE  SumFunctionOnSet([x \in {d} |-> x], {d}) = d
          BY Zenon
        <4>2. d \in Nat
          BY HoursAssumption
        <4>3. QED
          BY <4>2, SumOfOne
      <3>2. SUFFICES ASSUME NEW d \in Lengths
                     PROVE  DayIsAvailable("all", {d}, m) <=> bookable /\ Offered(d, m) # {}
        OBVIOUS
      <3>3. DayIsAvailable("all", {d}, m)
              <=> bookable /\ BuildSlots(Working, SumFunctionOnSet([x \in {d} |-> x], {d}), Busy, m) # {}
        BY DEF DayIsAvailable, Working
      <3>4. QED
        BY <3>1, <3>3 DEF Offered
    <2>3. DayIsAvailable("any", Lengths, m) <=> bookable /\ Offered(Min(Lengths), m) # {}
      BY DEF DayIsAvailable, Offered, Working
    <2>4. FoundBySearch(m) <=> bookable /\ Offered(Min(Lengths), m) # {}
      <3>1. GetBookabilityMap(Stylists)[Worker] = GetBookability(Worker)
        BY <1>1, BulkAgrees, HoursAssumption
      <3>2. QED
        BY <3>1 DEF FoundBySearch, Offered, Working
    <2>5. Offered(Min(Lengths), m) # {} <=> \E d \in Lengths : Offered(d, m) # {}
      BY <1>1, ShorterFits, ShortestIs DEF HoursInv
    <2>6. ASSUME apart, NEW d \in Lengths, NEW slot \in GetAvailability(d, m)
          PROVE  \E i \in Used : MayBook(i, slot.span) /\ hours[i].place = slot.place
                        /\ \A j \in Used \ {i} : ~Contains(hours[j].span, slot.span)
      <3>1. bookable /\ slot \in Offered(d, m) /\ NoClash /\ HoursTypeOK
        BY <1>1, <2>1, <2>6 DEF HoursInv, OneByOne
      <3>2. QED
        BY <1>1, <3>1, OfferedIsBookable
    <2> HIDE DEF bookable
    <2>7. QED
      BY <2>1, <2>2, <2>3, <2>4, <2>5, <2>6
  <1>2. HoursInv /\ MembershipTypeOK => AvailabilityAgrees
    BY <1>1 DEF AvailabilityAgrees, AllThere
  <1>3. HoursSpec => []MembershipInv
    BY HoursKeepMembership, MembershipInvariantHolds, PTL
  <1>4. MembershipInv => MembershipTypeOK
    BY DEF MembershipInv
  <1>5. QED
    BY <1>2, <1>3, <1>4, HoursInvariantHolds, PTL

-----------------------------------------------------------------------------
(* The payment of a hold                                                   *)

\* The abbreviations of unchanged variables and of single updates, opened in
\* every step proof.
USE DEF orderVars, rowVars, creditVars, cbVars, sweepVars,
        GoTo, SetTx, CbGoto, Show, Awaiting

\* Every step leaves the variables in their types.
LEMMA InitType == HoldInit => HoldTypeOK
  BY DEF HoldInit, HoldTypeOK, Steps, TxStatuses, Sessions, HoldStatuses, Payments, CbSteps, Pages

\* The steps of an order, action by action.
LEMMA OrderType ==
  ASSUME HoldTypeOK, NEW o \in Orders, Order(o)
  PROVE  HoldTypeOK'
  <1> USE DEF HoldTypeOK, Steps, Running, TxStatuses, Sessions, HoldStatuses, Payments
  <1>1. CASE Hold(o)
    BY <1>1 DEF Hold
  <1>2. CASE DebitCredit(o)
    BY <1>2 DEF DebitCredit
  <1>3. CASE RecordSpend(o)
    BY <1>3 DEF RecordSpend
  <1>4. CASE StartPayment(o)
    BY <1>4 DEF StartPayment
  <1>5. CASE GatewayAccepts(o)
    BY <1>5 DEF GatewayAccepts
  <1>6. CASE StartFails(o)
    BY <1>6 DEF StartFails
  <1>7. CASE RefundFailedStart(o)
    BY <1>7 DEF RefundFailedStart, RefundCredit
  <1>8. CASE RemoveHold(o)
    BY <1>8 DEF RemoveHold, DeleteRows
  <1>9. CASE CrashCall(o)
    BY <1>9 DEF CrashCall
  <1>10. CASE EndSession(o)
    BY <1>10 DEF EndSession
  <1>11. CASE GrowOld(o)
    BY <1>11 DEF GrowOld
  <1>12. CASE ReadForCancel(o)
    BY <1>12 DEF ReadForCancel
  <1>13. CASE SaveCancel(o)
    BY <1>13 DEF SaveCancel
  <1>14. QED
    BY <1>1, <1>2, <1>3, <1>4, <1>5, <1>6, <1>7, <1>8, <1>9, <1>10, <1>11, <1>12, <1>13
       DEF Order

\* The steps of a callback.
LEMMA CallbackType ==
  ASSUME HoldTypeOK, NEW k \in Callbacks, Callback(k)
  PROVE  HoldTypeOK'
  <1> USE DEF HoldTypeOK, TxStatuses, HoldStatuses, Payments, CbSteps, Pages
  <1>1. ASSUME NEW o \in Orders, NEW success \in BOOLEAN, ReadTx(k, o, success)
        PROVE  HoldTypeOK'
    BY <1>1 DEF ReadTx
  <1>2. CASE Verify(k)
    BY <1>2 DEF Verify
  <1>3. CASE SaveFailed(k)
    <2>1. /\ tx' \in [Orders -> TxStatuses]
          /\ UNCHANGED <<step, gateway, rowVars, creditVars, applied, cbOrder, sweepVars, old, cancelling>>
      BY <1>3 DEF SaveFailed
    <2>2. cbStep' \in [Callbacks -> CbSteps] /\ told' \in [Callbacks -> Pages]
      BY <1>3 DEF SaveFailed
    <2>3. QED
      BY <2>1, <2>2
  <1>4. CASE Claim(k)
    BY <1>4 DEF Claim
  <1>5. CASE ApplyOutcome(k)
    BY <1>5 DEF ApplyOutcome
  <1>6. CASE Release(k)
    BY <1>6 DEF Release, DeleteRows
  <1>7. CASE RefundReleased(k)
    BY <1>7 DEF RefundReleased, RefundCredit
  <1>8. CASE CrashCallback(k)
    BY <1>8 DEF CrashCallback
  <1>9. QED
    BY <1>1, <1>2, <1>3, <1>4, <1>5, <1>6, <1>7, <1>8 DEF Callback

\* The steps of a sweep.
LEMMA SweepType ==
  ASSUME HoldTypeOK, NEW s \in Sweepers, Sweep(s)
  PROVE  HoldTypeOK'
  <1> USE DEF HoldTypeOK, HoldStatuses, Payments
  <1>1. CASE SweepFind(s)
    BY <1>1 DEF SweepFind
  <1>2. CASE SweepDelete(s)
    BY <1>2 DEF SweepDelete, DeleteRows
  <1>3. CASE SweepRefund(s)
    BY <1>3 DEF SweepRefund, RefundCredit
  <1>4. CASE CrashSweep(s)
    BY <1>4 DEF CrashSweep
  <1>5. QED
    BY <1>1, <1>2, <1>3, <1>4 DEF Sweep

\* A step of any actor.
LEMMA StepType == HoldTypeOK /\ [HoldNext]_holdVars => HoldTypeOK'
  <1>1. CASE UNCHANGED holdVars
    BY <1>1 DEF holdVars, HoldTypeOK
  <1>2. QED
    BY <1>1, OrderType, CallbackType, SweepType DEF HoldNext

\* The orders, callbacks, holds and sweeps stay well typed through every handler.
THEOREM TypeCorrect == HoldSpec => []HoldTypeOK
  BY InitType, StepType, PTL DEF HoldSpec

-----------------------------------------------------------------------------
\* The invariant behind the payment, action by action.  An order takes its
\* transaction to a session and back only before any callback can exist.
LEMMA OrderStep ==
  ASSUME PaymentInv, HoldTypeOK', NEW o \in Orders, Order(o)
  PROVE  PaymentInv'
  <1> USE DEF PaymentInv, HoldTypeOK, TxStatuses, Sessions, SessionFollowsCall, CallbacksAgree,
          RefundsFollowLoss, PaidMeansCaptured, OutcomeAppliedOnce, PagesAreTrue
  <1>1. CASE Hold(o)
    BY <1>1 DEF Hold
  <1>2. CASE DebitCredit(o)
    BY <1>2 DEF DebitCredit
  <1>3. CASE RecordSpend(o)
    BY <1>3 DEF RecordSpend
  <1>4. CASE StartPayment(o)
    BY <1>4 DEF StartPayment
  <1>5. CASE GatewayAccepts(o)
    BY <1>5 DEF GatewayAccepts
  <1>6. CASE StartFails(o)
    BY <1>6 DEF StartFails
  <1>7. CASE RefundFailedStart(o)
    BY <1>7 DEF RefundFailedStart, RefundCredit
  <1>8. CASE RemoveHold(o)
    BY <1>8 DEF RemoveHold, DeleteRows
  <1>9. CASE CrashCall(o)
    BY <1>9 DEF CrashCall, Running
  <1>10. CASE EndSession(o)
    BY <1>10 DEF EndSession
  <1>11. CASE GrowOld(o)
    BY <1>11 DEF GrowOld, Running
  <1>12. CASE ReadForCancel(o)
    BY <1>12 DEF ReadForCancel
  <1>13. CASE SaveCancel(o)
    BY <1>13 DEF SaveCancel
  <1>14. QED
    BY <1>1, <1>2, <1>3, <1>4, <1>5, <1>6, <1>7, <1>8, <1>9, <1>10, <1>11, <1>12, <1>13
       DEF Order

\* A callback decides by what it read, by what the gateway verifies and by the
\* conditional update of claimPaid; a 'failed' may be saved over any of it.
LEMMA CallbackStep ==
  ASSUME PaymentInv, HoldTypeOK', NEW k \in Callbacks, Callback(k)
  PROVE  PaymentInv'
  <1> USE DEF PaymentInv, HoldTypeOK, TxStatuses, Sessions, SessionFollowsCall, CallbacksAgree,
          RefundsFollowLoss, PaidMeansCaptured, OutcomeAppliedOnce, PagesAreTrue
  <1>1. ASSUME NEW o \in Orders, NEW success \in BOOLEAN, ReadTx(k, o, success)
        PROVE  PaymentInv'
    BY <1>1 DEF ReadTx
  <1>2. CASE Verify(k)
    BY <1>2 DEF Verify
  <1>3. CASE SaveFailed(k)
    BY <1>3 DEF SaveFailed
  <1>4. CASE Claim(k)
    BY <1>4 DEF Claim
  <1>5. CASE ApplyOutcome(k)
    BY <1>5 DEF ApplyOutcome
  <1>6. CASE Release(k)
    BY <1>6 DEF Release, DeleteRows
  <1>7. CASE RefundReleased(k)
    BY <1>7 DEF RefundReleased, RefundCredit
  <1>8. CASE CrashCallback(k)
    BY <1>8 DEF CrashCallback
  <1>9. QED
    BY <1>1, <1>2, <1>3, <1>4, <1>5, <1>6, <1>7, <1>8 DEF Callback

\* A sweep refunds what it has deleted, and a deleted hold is never paid.
LEMMA SweepStep ==
  ASSUME PaymentInv, HoldTypeOK', NEW s \in Sweepers, Sweep(s)
  PROVE  PaymentInv'
  <1> USE DEF PaymentInv, HoldTypeOK, TxStatuses, Sessions, SessionFollowsCall, CallbacksAgree,
          RefundsFollowLoss, PaidMeansCaptured, OutcomeAppliedOnce, PagesAreTrue
  <1>1. CASE SweepFind(s)
    BY <1>1 DEF SweepFind
  <1>2. CASE SweepDelete(s)
    BY <1>2 DEF SweepDelete, DeleteRows
  <1>3. CASE SweepRefund(s)
    BY <1>3 DEF SweepRefund, RefundCredit
  <1>4. CASE CrashSweep(s)
    BY <1>4 DEF CrashSweep
  <1>5. QED
    BY <1>1, <1>2, <1>3, <1>4 DEF Sweep

\* A step of any actor.
LEMMA StepInv == PaymentInv /\ [HoldNext]_holdVars => PaymentInv'
  <1> SUFFICES ASSUME PaymentInv, [HoldNext]_holdVars
               PROVE  PaymentInv'
    OBVIOUS
  <1>1. HoldTypeOK'
    BY StepType DEF PaymentInv
  <1>2. CASE UNCHANGED holdVars
    BY <1>1, <1>2 DEF holdVars, PaymentInv, SessionFollowsCall, CallbacksAgree,
       RefundsFollowLoss, PaidMeansCaptured, OutcomeAppliedOnce, PagesAreTrue
  <1>3. QED
    BY <1>1, <1>2, OrderStep, CallbackStep, SweepStep DEF HoldNext

\* Nothing has happened yet.
LEMMA InitInv == HoldInit => PaymentInv
  BY InitType DEF HoldInit, PaymentInv, SessionFollowsCall, CallbacksAgree,
     RefundsFollowLoss, PaidMeansCaptured, OutcomeAppliedOnce, PagesAreTrue

\* The inductive invariant holds in every reachable state.
THEOREM InvariantHolds == HoldSpec => []PaymentInv
  BY InitInv, StepInv, PTL DEF HoldSpec

\* No reservation is paid and no top-up credited without captured money.
THEOREM PaidMeansCapturedHolds == HoldSpec => []PaidMeansCaptured
  <1>1. PaymentInv => PaidMeansCaptured
    BY DEF PaymentInv
  <1>2. QED
    BY <1>1, InvariantHolds, PTL

\* claimPaid makes one callback of many apply the outcome of a payment.
THEOREM AppliedOnce == HoldSpec => []OutcomeAppliedOnce
  <1>1. PaymentInv => OutcomeAppliedOnce
    BY DEF PaymentInv
  <1>2. QED
    BY <1>1, InvariantHolds, PTL

\* Success is shown of captured money alone, and a failure shown stays a failure.
THEOREM PagesStayTrue == HoldSpec => []PagesAreTrue
  <1>1. PaymentInv => PagesAreTrue
    BY DEF PaymentInv
  <1>2. QED
    BY <1>1, InvariantHolds, PTL

\* The credit of a paid booking is never returned by a release, a sweep or a
\* failed start: these refund only what can no longer be paid.
THEOREM CreditStaysSpent == HoldSpec => []PaidBookingKeepsItsCredit
  <1>1. PaymentInv => PaidBookingKeepsItsCredit
    BY OrdersAssumption DEF PaymentInv, HoldTypeOK, SessionFollowsCall, PaidMeansCaptured,
       RefundsFollowLoss, PaidBookingKeepsItsCredit
  <1>2. QED
    BY <1>1, InvariantHolds, PTL

-----------------------------------------------------------------------------
\* Whoever deletes a hold filters on its paymentStatus, or gave up on it before
\* it was asked for; only the sweep's deleteMany does neither.
LEMMA RemovalStep ==
  ASSUME PaymentInv, [HoldNext]_holdVars, NEW o \in Deposits,
         payment[o] = "paid", payment'[o] # "paid"
  PROVE  \E s \in Sweepers : o \in found[s] /\ sweepStep'[s] = "deleted"
  <1> DEFINE Swept == \E s \in Sweepers : o \in found[s] /\ sweepStep'[s] = "deleted"
  <1> USE OrdersAssumption DEF PaymentInv, HoldTypeOK, SessionFollowsCall, PaidMeansCaptured,
       DeleteRows
  <1>1. ASSUME NEW p \in Orders, Order(p)
        PROVE  Swept
    BY <1>1 DEF Order, Hold, DebitCredit, RecordSpend, StartPayment, GatewayAccepts,
       StartFails, RefundFailedStart, RemoveHold, CrashCall, EndSession, GrowOld,
       ReadForCancel, SaveCancel
  <1>2. ASSUME NEW k \in Callbacks, Callback(k)
        PROVE  Swept
    BY <1>2 DEF Callback, ReadTx, Verify, SaveFailed, Claim, ApplyOutcome, Release,
       RefundReleased, CrashCallback
  <1>3. ASSUME NEW s \in Sweepers, Sweep(s)
        PROVE  Swept
    BY <1>3 DEF Sweep, SweepFind, SweepDelete, SweepRefund, CrashSweep
  <1>4. CASE UNCHANGED holdVars
    BY <1>4 DEF holdVars
  <1>5. QED
    BY <1>1, <1>2, <1>3, <1>4 DEF HoldNext

\* Releases and failed starts never remove a paid booking.
THEOREM OnlyTheSweepRemovesPaid == HoldSpec => OnlySweepsRemovePaid
  <1>1. PaymentInv /\ [HoldNext]_holdVars =>
          [\A o \in Deposits :
             payment[o] = "paid" /\ payment'[o] # "paid" =>
                 \E s \in Sweepers : o \in found[s] /\ sweepStep'[s] = "deleted"]_holdVars
    BY RemovalStep
  <1>2. QED
    BY <1>1, InvariantHolds, PTL DEF HoldSpec, OnlySweepsRemovePaid
=============================================================================
