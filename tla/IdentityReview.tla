--------------------------- MODULE IdentityReview ---------------------------
(***************************************************************************)
(* What admins review of a person: a foreign national's id and passport, a *)
(* stylist's national card for the blue tick, and a change of name.        *)
(*                                                                         *)
(* Every call reads a document, and later saves the fields it changed; a   *)
(* field that keeps the value it was read with is not written.             *)
(***************************************************************************)
EXTENDS Integers, FiniteSets

CONSTANTS
    People,      \* users, stylists with an active and complete profile
    ForeignIds, Names,
    Images,      \* private images that may be uploaded
    NameEdits,   \* ProfileEditRequests
    Desks,       \* calls under way
    NoId, NoImage, NoPerson

ASSUME ReviewAssumption ==
    /\ NoId \notin ForeignIds /\ NoImage \notin Images /\ NoPerson \notin People
    /\ IsFiniteSet(NameEdits)

VARIABLES
    person,      \* the User: foreign, foreignId, approval, passport
    tick,        \* the StylistProfile: the two sides of the card, verificationStatus, isVerified
    name,        \* the displayed name
    edit,        \* the name changes asked for
    stored,      \* private images in storage
    desk,        \* what each call is at
    approvedId,  \* the id the last approval was about
    crossed      \* people for whom two calls overlapped, or one was cut off

reviewVars == <<person, tick, name, edit, stored, desk, approvedId, crossed>>

Approvals == {"not_required", "awaiting_documents", "pending", "approved", "rejected"}
Persons == [foreign : BOOLEAN, id : ForeignIds \cup {NoId}, approval : Approvals,
            passport : Images \cup {NoImage}]
Ticks == [front : Images \cup {NoImage}, back : Images \cup {NoImage},
          status : {"incomplete", "pending", "verified", "rejected"}, verified : BOOLEAN]
NoEdit == [of |-> NoPerson, status |-> "none"]
EditDocs == [of : People, name : Names, status : {"pending", "approved", "rejected"}] \cup {NoEdit}
Vacant == [op |-> "vacant"]

\* seen and new are a person or a tick; purge are images to delete once it is saved
Desk(op, u, seen, new, purge) == [op |-> op, of |-> u, seen |-> seen, new |-> new, purge |-> purge]
DeskCalls ==
    [op : {"person", "approve"}, of : People, seen : Persons, new : Persons, purge : SUBSET Images]
    \cup [op : {"tick"}, of : People, seen : Ticks, new : Ticks, purge : SUBSET Images]
    \cup [op : {"purge"}, of : People, purge : SUBSET Images]
    \cup [op : {"insert"}, of : People, name : Names]
    \cup [op : {"rename", "accept", "refuse"}, of : People, doc : NameEdits, name : Names]

ReviewTypeOK ==
    /\ person \in [People -> Persons]
    /\ tick \in [People -> Ticks]
    /\ name \in [People -> Names]
    /\ edit \in [NameEdits -> EditDocs]
    /\ stored \subseteq Images
    /\ desk \in [Desks -> DeskCalls \cup {Vacant}]
    /\ approvedId \in [People -> ForeignIds \cup {NoId}]
    /\ crossed \subseteq People

ReviewInit ==
    /\ person = [u \in People |-> [foreign |-> FALSE, id |-> NoId, approval |-> "not_required", passport |-> NoImage]]
    /\ tick = [u \in People |-> [front |-> NoImage, back |-> NoImage, status |-> "incomplete", verified |-> FALSE]]
    /\ name \in [People -> Names]
    /\ edit = [e \in NameEdits |-> NoEdit]
    /\ stored = {}
    /\ desk = [d \in Desks |-> Vacant]
    /\ approvedId = [u \in People |-> NoId]
    /\ crossed = {}

\* save writes what differs from what was read
Saved(now, seen, new) == [f \in DOMAIN now |-> IF new[f] = seen[f] THEN now[f] ELSE new[f]]

Open(d, u, what) ==
    /\ desk[d] = Vacant
    /\ desk' = [desk EXCEPT ![d] = what]
    /\ crossed' = IF \E e \in Desks : desk[e] # Vacant /\ desk[e].of = u THEN crossed \cup {u} ELSE crossed
Close(d) == desk' = [desk EXCEPT ![d] = Vacant]
PurgeNext(d) ==
    desk' = [desk EXCEPT ![d] = IF @.purge = {} THEN Vacant ELSE [op |-> "purge", of |-> @.of, purge |-> @.purge]]

\* what a call may still write or delete
Mentioned(call) ==
    CASE call.op \in {"person", "approve"} -> {call.new.passport} \cup call.purge
      [] call.op = "tick" -> {call.new.front, call.new.back} \cup call.purge
      [] call.op = "purge" -> call.purge
      [] OTHER -> {}

\* an image is stored under an id no document has ever held
Fresh(image) ==
    /\ image \notin stored
    /\ \A u \in People : image \notin {person[u].passport, tick[u].front, tick[u].back}
    /\ \A d \in Desks : image \notin Mentioned(desk[d])

-----------------------------------------------------------------------------
(* Foreign nationals *)

Taken(u, id) == \E v \in People \ {u} : person[v].id = id

\* updatePersonal that keeps the approval on any change
PersonalKeepsApproval(d, u, id) ==
    LET p == person[u]
        new == IF id = NoId
               THEN [p EXCEPT !.foreign = FALSE, !.id = NoId, !.approval = "not_required"]
               ELSE [p EXCEPT !.foreign = TRUE, !.id = id,
                              !.approval = IF p.approval = "not_required" THEN "awaiting_documents" ELSE @]
    IN  /\ id # NoId => ~Taken(u, id)
        /\ Open(d, u, Desk("person", u, p, new, {}))
        /\ UNCHANGED <<person, tick, name, edit, stored, approvedId>>

\* NoId for an Iranian user
UpdatePersonal(d, u, id) ==
    LET p == person[u]
        gate == IF p.passport = NoImage THEN "awaiting_documents" ELSE "pending"
        new == IF id = NoId
               THEN [p EXCEPT !.foreign = FALSE, !.id = NoId, !.approval = "not_required"]
               ELSE [p EXCEPT !.foreign = TRUE, !.id = id,
                              !.approval = IF p.approval = "not_required" \/ p.id # id THEN gate ELSE @]
    IN  /\ id # NoId => ~Taken(u, id)
        /\ Open(d, u, Desk("person", u, p, new, {}))
        /\ UNCHANGED <<person, tick, name, edit, stored, approvedId>>

UploadPassportImage(d, u, image) ==
    LET p == person[u]
        new == [p EXCEPT !.passport = image, !.approval = IF p.approval = "approved" THEN @ ELSE "pending"]
    IN  /\ p.foreign
        /\ Fresh(image)
        /\ stored' = stored \cup {image}
        /\ Open(d, u, Desk("person", u, p, new, {p.passport} \ {NoImage}))
        /\ UNCHANGED <<person, tick, name, edit, approvedId>>

DecideForeign(d, u, decision) ==
    /\ person[u].foreign
    /\ Open(d, u, Desk("approve", u, person[u], [person[u] EXCEPT !.approval = decision], {}))
    /\ UNCHANGED <<person, tick, name, edit, stored, approvedId>>

\* the unique index on foreignId refuses a second holder
SavePerson(d) ==
    LET call == desk[d]  u == call.of  now == Saved(person[u], call.seen, call.new) IN
    /\ call.op \in {"person", "approve"}
    /\ IF now.id # NoId /\ Taken(u, now.id)
       THEN Close(d) /\ UNCHANGED <<person, approvedId>>
       ELSE /\ person' = [person EXCEPT ![u] = now]
            /\ approvedId' = IF call.op = "approve" /\ call.new.approval = "approved"
                             THEN [approvedId EXCEPT ![u] = call.seen.id] ELSE approvedId
            /\ PurgeNext(d)
    /\ UNCHANGED <<tick, name, edit, stored, crossed>>

PurgeImages(d) ==
    /\ desk[d].op = "purge"
    /\ stored' = stored \ desk[d].purge
    /\ Close(d)
    /\ UNCHANGED <<person, tick, name, edit, approvedId, crossed>>

-----------------------------------------------------------------------------
(* The blue tick *)

\* both sides must exist in the end; what was stored for a refused call stays
SaveVerificationDocuments(d, u, front, back) ==
    LET t == tick[u]
        new == [t EXCEPT !.front = IF front = NoImage THEN @ ELSE front, !.back = IF back = NoImage THEN @ ELSE back]
        images == {front, back} \ {NoImage}
    IN  /\ images # {} /\ (front = back => front = NoImage)
        /\ \A image \in images : Fresh(image)
        /\ stored' = stored \cup images
        /\ IF NoImage \in {new.front, new.back}
           THEN desk[d] = Vacant /\ UNCHANGED <<desk, crossed>>
           ELSE Open(d, u, Desk("tick", u, t, new, {}))
        /\ UNCHANGED <<person, tick, name, edit, approvedId>>

SubmitVerification(d, u) ==
    /\ NoImage \notin {tick[u].front, tick[u].back}
    /\ tick[u].status \in {"incomplete", "rejected"}
    /\ Open(d, u, Desk("tick", u, tick[u], [tick[u] EXCEPT !.status = "pending"], {}))
    /\ UNCHANGED <<person, tick, name, edit, stored, approvedId>>

\* verifyStylist and rejectVerification, whatever the status
DecideStatusOnly(d, u, status) ==
    /\ Open(d, u, Desk("tick", u, tick[u], [tick[u] EXCEPT !.status = status, !.front = NoImage, !.back = NoImage,
                                               !.verified = @ \/ status = "verified"],
                       {tick[u].front, tick[u].back} \ {NoImage}))
    /\ UNCHANGED <<person, tick, name, edit, stored, approvedId>>

DecideVerification(d, u, status) ==
    /\ Open(d, u, Desk("tick", u, tick[u], [front |-> NoImage, back |-> NoImage, status |-> status,
                                               verified |-> status = "verified"],
                       {tick[u].front, tick[u].back} \ {NoImage}))
    /\ UNCHANGED <<person, tick, name, edit, stored, approvedId>>

SaveTick(d) ==
    /\ desk[d].op = "tick"
    /\ tick' = [tick EXCEPT ![desk[d].of] = Saved(@, desk[d].seen, desk[d].new)]
    /\ PurgeNext(d)
    /\ UNCHANGED <<person, name, edit, stored, approvedId, crossed>>

-----------------------------------------------------------------------------
(* Names *)

RequestNameEdit(d, u, n) ==
    /\ n # name[u]
    /\ edit' = [e \in NameEdits |-> IF edit[e].of = u /\ edit[e].status = "pending" THEN NoEdit ELSE edit[e]]
    /\ Open(d, u, [op |-> "insert", of |-> u, name |-> n])
    /\ UNCHANGED <<person, tick, name, stored, approvedId>>

InsertEdit(d) ==
    /\ desk[d].op = "insert"
    /\ \E e \in NameEdits :
          /\ edit[e] = NoEdit
          /\ edit' = [edit EXCEPT ![e] = [of |-> desk[d].of, name |-> desk[d].name, status |-> "pending"]]
    /\ Close(d)
    /\ UNCHANGED <<person, tick, name, stored, approvedId, crossed>>

ReviewEdit(d, e, op) ==
    /\ edit[e].status = "pending"
    /\ Open(d, edit[e].of, [op |-> op, of |-> edit[e].of, doc |-> e, name |-> edit[e].name])
    /\ UNCHANGED <<person, tick, name, edit, stored, approvedId>>

\* the name first, and then the request
ApproveProfileEdit(d, e) == ReviewEdit(d, e, "rename")
RejectProfileEdit(d, e) == ReviewEdit(d, e, "refuse")

ApplyName(d) ==
    /\ desk[d].op = "rename"
    /\ name' = [name EXCEPT ![desk[d].of] = desk[d].name]
    /\ desk' = [desk EXCEPT ![d].op = "accept"]
    /\ UNCHANGED <<person, tick, edit, stored, approvedId, crossed>>

SaveEdit(d) ==
    LET e == desk[d].doc  verdict == IF desk[d].op = "accept" THEN "approved" ELSE "rejected" IN
    /\ desk[d].op \in {"accept", "refuse"}
    /\ edit' = [edit EXCEPT ![e] = IF @ = NoEdit THEN @ ELSE [@ EXCEPT !.status = verdict]]
    /\ Close(d)
    /\ UNCHANGED <<person, tick, name, stored, approvedId, crossed>>

\* PATCH /me/personal carries the name too
RenameInPersonal(u, n) ==
    /\ name' = [name EXCEPT ![u] = n]
    /\ UNCHANGED <<person, tick, edit, stored, desk, approvedId, crossed>>

CutOff(d) ==
    /\ desk[d] # Vacant
    /\ crossed' = crossed \cup {desk[d].of}
    /\ Close(d)
    /\ UNCHANGED <<person, tick, name, edit, stored, approvedId>>

ForeignNext ==
    \E d \in Desks :
        \/ \E u \in People :
              \/ \E id \in ForeignIds \cup {NoId} : UpdatePersonal(d, u, id)
              \/ \E image \in Images : UploadPassportImage(d, u, image)
              \/ \E decision \in {"approved", "rejected"} : DecideForeign(d, u, decision)
        \/ SavePerson(d) \/ PurgeImages(d) \/ CutOff(d)

TickNext ==
    \E d \in Desks :
        \/ \E u \in People :
              \/ \E front, back \in Images \cup {NoImage} : SaveVerificationDocuments(d, u, front, back)
              \/ SubmitVerification(d, u)
              \/ \E status \in {"verified", "rejected"} : DecideVerification(d, u, status)
        \/ SaveTick(d) \/ PurgeImages(d) \/ CutOff(d)

NameNext ==
    \/ \E u \in People, n \in Names : RenameInPersonal(u, n)
    \/ \E d \in Desks :
          \/ \E u \in People, n \in Names : RequestNameEdit(d, u, n)
          \/ \E e \in NameEdits : ApproveProfileEdit(d, e) \/ RejectProfileEdit(d, e)
          \/ InsertEdit(d) \/ ApplyName(d) \/ SaveEdit(d) \/ CutOff(d)

ReviewNext == ForeignNext \/ TickNext \/ NameNext
ReviewSpec == ReviewInit /\ [][ReviewNext]_reviewVars

-----------------------------------------------------------------------------
(* What the admin's pages show, and the properties *)

ListForeignApprovals(status) == {u \in People : person[u].foreign /\ status \in {"all", person[u].approval}}
ListVerifications(status) == {u \in People : tick[u].status = status}
ListProfileEdits(status) == {e \in NameEdits : edit[e].status = status}

\* the badges of the sidebar
PendingCounts ==
    [foreignApprovals |-> Cardinality({u \in People : person[u].foreign /\ person[u].approval = "pending"}),
     verifications |-> Cardinality({u \in People : tick[u].status = "pending"}),
     profileEdits |-> Cardinality({e \in NameEdits : edit[e].status = "pending"})]

\* the images an admin can open
ResolveUserPassport(u) == {person[u].passport} \cap stored
ResolveVerificationDocuments(u) == {tick[u].front, tick[u].back} \cap stored

(* "Re-enter the gate when newly foreign or the id changed": an approved id   *)
(* is the one an admin approved, unless calls for the person overlapped (an   *)
(* approval and a change of id write different fields).  "The review queue is *)
(* only entered once the passport image also exists", in any interleaving;    *)
(* and whoever waits is in the list, with an image that can be opened.        *)
ApprovedIdWasReviewed ==
    \A u \in People :
        /\ person[u].approval = "pending" => person[u].passport # NoImage
        /\ u \notin crossed =>
              /\ u \in ListForeignApprovals("approved") => person[u].id = approvedId[u]
              /\ person[u].approval = "awaiting_documents" => person[u].passport = NoImage
              /\ person[u].approval = "pending" =>
                    u \in ListForeignApprovals("pending") /\ ResolveUserPassport(u) # {}

(* The blue tick is shown exactly while the last decision stands; both sides *)
(* of the card of a listed request can be opened; and nobody asks for more    *)
(* than one change of name, so that the badge counts people.                  *)
TickMatchesDecision ==
    /\ \A u \in People \ crossed :
          /\ tick[u].verified <=> u \in ListVerifications("verified")
          /\ u \in ListVerifications("pending") => Cardinality(ResolveVerificationDocuments(u)) = 2
    /\ crossed = {} =>
          PendingCounts.profileEdits = Cardinality({edit[e].of : e \in ListProfileEdits("pending")})
=============================================================================
