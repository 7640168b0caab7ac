----------------------------- MODULE MCContent -----------------------------
(***************************************************************************)
(* Community, Social, Conversations, Support, Reviews, Policies and        *)
(* Offering for TLC.  They share no document that one of them writes and   *)
(* another reads, so a behaviour plays one of them: the scene chosen at    *)
(* the start, and the others stay as they were.                            *)
(***************************************************************************)
EXTENDS Community, Social, Conversations, Support, Reviews, Policies, Offering

CONSTANTS u1, b1, w1, w2, p1, p2

VARIABLE scene

Scenes == {"likes", "hearts", "leaving", "bookmarks", "chat", "sendings", "ticket", "inbox", "ratings", "settings", "seats", "terms", "offer"}

\* three bodies: of two rules with one threshold the later counts, two have the same refunds
TermsOfTwelve == <<[hours |-> 12, percent |-> 100], [hours |-> 2, percent |-> 0]>>
TermsOfTwo == <<[hours |-> 48, percent |-> 0], [hours |-> 12, percent |-> 30], [hours |-> 48, percent |-> 100]>>
BodiesDef == { [rules |-> TermsOfTwelve, free |-> 2, penalty |-> 5],
               [rules |-> TermsOfTwelve, free |-> 0, penalty |-> 50],
               [rules |-> TermsOfTwo, free |-> 2, penalty |-> 5] }

otherVars == <<communityVars, socialVars, chatVars, supportVars, reviewsVars, policyVars, offeringVars>>
Init ==
    /\ scene \in Scenes
    /\ CommunityInit /\ SocialInit /\ ChatInit /\ SupportInit /\ ReviewsInit /\ PoliciesInit /\ OfferingInit
    /\ scene # "ratings" => review[b1].stars = 2 /\ review[b1].by = u1
    /\ scene # "offer" => category

CommunityMoves == scene = "likes" /\ singly /\ CommunityNext

\* two calls at once with a post that stays, one at a time beside one deletion of it
Alone == \A s, t \in Taps : s = t \/ Idle(s) \/ Idle(t)
SocialMoves ==
    \/ scene = "hearts" /\ inTurn /\ ~jammed /\ (PostNext \/ TapNext) /\ leaving' = {}
    \/ /\ scene = "leaving" /\ inTurn /\ ~jammed /\ (PostNext \/ TapNext) /\ Alone'
       /\ leaving # {} => /\ "saves" \in leaving' /\ leaving' \subseteq leaving
                          /\ ("pictures" \in leaving) => DeletePictures /\ ~album'
       /\ post # "gone"
    \/ scene = "bookmarks" /\ (PostNext \/ MarkNext)

\* with readings as long as their property claims something and with an SMS that is sent at
\* once, and without readings
ChatMoves ==
    \/ scene = "chat" /\ calm /\ IF \E s \in Sides : due[s] > 0 THEN \E s \in Sides : SendSms(s) ELSE ChatNext
    \/ scene = "sendings" /\ ChatNext /\ Reading' = {} /\ UNCHANGED shown

SupportMoves == (scene = "ticket" /\ TicketNext) \/ (scene = "inbox" /\ InboxNext)

\* two calls of the settings, as far as the list goes; memberships of two salons and their terms;
\* a booking in one salon, with one call of the settings, one policy for all services, two for
\* one service, and one of them set anew
General == {NoPolicy, Normalize([rules |-> TermsOfTwelve, free |-> 2, penalty |-> 5])}
PolicyMoves ==
    \/ scene = "settings" /\ SettingsNext /\ own' = NoPolicy
    \/ scene = "seats" /\ OthersNext
    \/ /\ scene = "terms" /\ PoliciesNext /\ draftPolicy'[w2] = NoDraft
       /\ plan' \in {"free", "gold"} /\ members' \subseteq {p1} /\ open' = Places
       /\ own' \in General /\ ofSalon'[p1] \in General /\ ofSalon'[p2] = NoPolicy
       /\ draftPolicy'[w1] # NoDraft =>
            LET p == draftPolicy'[w1].policy IN
            p = NoPolicy \/ (draftPolicy'[w1].target = AllServices <=> p \in General)
       /\ booked' # NoReservation => plan' = "gold" /\ members' = {p1} /\ Cardinality(setAnew') <= 1

Next ==
    /\ UNCHANGED scene
    /\ \/ CommunityMoves /\ UNCHANGED <<socialVars, chatVars, supportVars, reviewsVars, policyVars, offeringVars>>
       \/ SocialMoves /\ UNCHANGED <<communityVars, chatVars, supportVars, reviewsVars, policyVars, offeringVars>>
       \/ ChatMoves /\ UNCHANGED <<communityVars, socialVars, supportVars, reviewsVars, policyVars, offeringVars>>
       \/ SupportMoves /\ UNCHANGED <<communityVars, socialVars, chatVars, reviewsVars, policyVars, offeringVars>>
       \/ scene = "ratings" /\ apart /\ ReviewsNext
            /\ UNCHANGED <<communityVars, socialVars, chatVars, supportVars, policyVars, offeringVars>>
       \/ PolicyMoves /\ UNCHANGED <<communityVars, socialVars, chatVars, supportVars, reviewsVars, offeringVars>>
       \/ scene = "offer" /\ undisputed /\ (CatalogueNext \/ OfferNext \/ PictureNext)
            /\ UNCHANGED <<communityVars, socialVars, chatVars, supportVars, reviewsVars, policyVars>>

Spec == Init /\ [][Next]_<<otherVars, scene>>
=============================================================================
