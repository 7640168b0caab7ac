------------------------------- MODULE Social -------------------------------
(***************************************************************************)
(* A post of the social network (social/social.service.ts and its          *)
(* moderation in admin/admin.service.ts): hearts and comments are rows of  *)
(* their own, and the post keeps their numbers.  A heart and a new comment *)
(* store the number they computed from the post they had read; a deletion  *)
(* lowers it by $inc.  A save of the post validates all that was loaded,   *)
(* and the schema wants both numbers to be at least 0.                     *)
(***************************************************************************)
EXTENDS Integers, FiniteSets

CONSTANTS
    People,      \* signed-in users
    Author,      \* the stylist who posts
    Moderator,   \* an admin
    Remarks,     \* PostComment rows there may be
    Taps,        \* calls that may be under way at once
    NoRemark, NoOne

ASSUME SocialAssumption == IsFiniteSet(People) /\ IsFiniteSet(Remarks) /\ IsFiniteSet(Taps)

VARIABLES
    post,        \* the Post: "none", "active", "removed" or "gone"
    total,       \* its likeCount and commentCount
    hearts,      \* PostLike rows
    saved,       \* SavedPost rows
    followers,   \* Follow rows of the author
    remark,      \* the PostComment rows
    banned,      \* users with socialBanned
    album,       \* whether the store has the post's pictures
    leaving,     \* what a deletion of the post has begun to take and has not taken
    tap,         \* what each call is at, and the numbers on the post it read
    inTurn,      \* no two calls that write one number have overlapped, none broke off
    jammed,      \* a save was refused because of a negative number
    twice        \* comments that were not active any more when they were deleted

socialVars == <<post, total, hearts, saved, followers, remark, banned, album, leaving, tap, inTurn, jammed, twice>>

Zero == [likes |-> 0, comments |-> 0]
NoTap == [step |-> "idle", who |-> NoOne, what |-> NoRemark, read |-> Zero]
LikeSteps == {"find", "liked", "unliked", "saveLikes"}
AddSteps == {"comment", "saveComment"}
DropSteps == {"drop", "hide", "lower"}
Parts == {"pictures", "comments", "hearts", "saves", "post"}

SocialTypeOK ==
    /\ post \in {"none", "active", "removed", "gone"}
    /\ total \in [likes : Nat, comments : Int]
    /\ hearts \subseteq People /\ saved \subseteq People /\ followers \subseteq People /\ banned \subseteq People
    /\ remark \in [Remarks -> [status : {"none", "active", "removed", "gone"}, by : People \cup {NoOne}]]
    /\ \A t \in Taps : tap[t].step \in {"idle"} \cup LikeSteps \cup AddSteps \cup DropSteps
    /\ album \in BOOLEAN /\ leaving \subseteq Parts
    /\ inTurn \in BOOLEAN /\ jammed \in BOOLEAN /\ twice \in Nat

SocialInit ==
    /\ post = "none" /\ total = Zero
    /\ hearts = {} /\ saved = {} /\ followers = {} /\ banned = {}
    /\ remark = [c \in Remarks |-> [status |-> "none", by |-> NoOne]]
    /\ album = FALSE /\ leaving = {}
    /\ tap = [t \in Taps |-> NoTap]
    /\ inTurn = TRUE /\ jammed = FALSE /\ twice = 0

Idle(t) == tap[t] = NoTap
Begin(t, step, u, c) == Idle(t) /\ tap' = [tap EXCEPT ![t] = [step |-> step, who |-> u, what |-> c, read |-> total]]
Then(t, from, step) == tap[t].step = from /\ tap' = [tap EXCEPT ![t].step = step]
End(t, from) == tap[t].step = from /\ tap' = [tap EXCEPT ![t] = NoTap]
Stands == post \in {"active", "removed"}
Liking == {t \in Taps : tap[t].step \in LikeSteps}
Adding == {t \in Taps : tap[t].step \in AddSteps}
Dropping(cs) == {t \in Taps : tap[t].step \in DropSteps /\ tap[t].what \in cs}

-----------------------------------------------------------------------------
(* Posts, bookmarks and followers *)

\* the author is a stylist of the gold plan, and the pictures have been stored
CreatePost ==
    /\ post = "none" /\ Author \notin banned
    /\ post' = "active" /\ album' = TRUE
    /\ UNCHANGED <<total, hearts, saved, followers, remark, banned, leaving, tap, inTurn, jammed, twice>>

\* deletePost finds the post; the author may ask again as long as it is found
DeletePost ==
    /\ Stands
    /\ leaving' = Parts
    /\ UNCHANGED <<post, total, hearts, saved, followers, remark, banned, album, tap, inTurn, jammed, twice>>

\* its pictures and its video go first, and nobody hears of a store that refuses
DeletePictures ==
    /\ "pictures" \in leaving
    /\ leaving' = leaving \ {"pictures"} /\ album' \in {album, FALSE}
    /\ UNCHANGED <<post, total, hearts, saved, followers, remark, banned, tap, inTurn, jammed, twice>>

\* then four queries at once, in any order: one that fails, or that a crash leaves undone,
\* takes nothing, and the others have taken what they took
DeletePart(part) ==
    /\ part \in leaving /\ "pictures" \notin leaving
    /\ leaving' = leaving \ {part}
    /\ post' = IF part = "post" THEN "gone" ELSE post
    /\ hearts' = IF part = "hearts" THEN {} ELSE hearts
    /\ saved' = IF part = "saves" THEN {} ELSE saved
    /\ remark' = IF part # "comments" THEN remark
                 ELSE [c \in Remarks |-> IF remark[c].status = "none" THEN remark[c] ELSE [status |-> "gone", by |-> NoOne]]
    /\ UNCHANGED <<total, followers, banned, album, tap, inTurn, jammed, twice>>

\* the admin's removal hides the post and leaves its rows
RemoveSocialPost ==
    /\ Stands
    /\ post' = "removed"
    /\ UNCHANGED <<total, hearts, saved, followers, remark, banned, tap, inTurn, jammed, twice, album, leaving>>

\* a second row is refused by the unique index, and there is no number to keep
Toggled(u, rows) == IF u \in rows THEN rows \ {u} ELSE rows \cup {u}

ToggleSavePost(u) ==
    /\ post = "active"
    /\ saved' = Toggled(u, saved)
    /\ UNCHANGED <<post, total, hearts, followers, remark, banned, tap, inTurn, jammed, twice, album, leaving>>

ToggleFollow(u) ==
    /\ u # Author /\ u \notin banned
    /\ followers' = Toggled(u, followers)
    /\ UNCHANGED <<post, total, hearts, saved, remark, banned, tap, inTurn, jammed, twice, album, leaving>>

SetSocialBan(u) ==
    /\ banned' = Toggled(u, banned)
    /\ UNCHANGED <<post, total, hearts, saved, followers, remark, tap, inTurn, jammed, twice, album, leaving>>

-----------------------------------------------------------------------------
(* toggleLike *)

ReadForLike(t, u) ==
    /\ u \notin banned /\ post = "active"
    /\ Begin(t, "find", u, NoRemark)
    /\ inTurn' = (inTurn /\ Liking = {})
    /\ UNCHANGED <<post, total, hearts, saved, followers, remark, banned, jammed, twice, album, leaving>>

FindHeart(t) ==
    /\ Then(t, "find", IF tap[t].who \in hearts THEN "liked" ELSE "unliked")
    /\ UNCHANGED <<post, total, hearts, saved, followers, remark, banned, inTurn, jammed, twice, album, leaving>>

ToSave(t, likes) == [tap[t] EXCEPT !.step = "saveLikes", !.read = [likes |-> likes, comments |-> tap[t].read.comments]]

\* a refused second row leaves the number as it was read
CreateHeart(t) ==
    /\ tap[t].step = "unliked"
    /\ hearts' = hearts \cup {tap[t].who}
    /\ tap' = [tap EXCEPT ![t] = IF tap[t].who \in hearts THEN NoTap
                                 ELSE ToSave(t, tap[t].read.likes + 1)]
    /\ UNCHANGED <<post, total, saved, followers, remark, banned, inTurn, jammed, twice, album, leaving>>

\* Math.max(0, ...): from 0 there is nothing to save
DeleteHeart(t) ==
    /\ tap[t].step = "liked"
    /\ hearts' = hearts \ {tap[t].who}
    /\ tap' = [tap EXCEPT ![t] = IF tap[t].read.likes = 0 THEN NoTap ELSE ToSave(t, tap[t].read.likes - 1)]
    /\ UNCHANGED <<post, total, saved, followers, remark, banned, inTurn, jammed, twice, album, leaving>>

\* refused when the post has gone or a loaded number is negative
SaveLikes(t) ==
    /\ End(t, "saveLikes")
    /\ LET valid == tap[t].read.comments >= 0 IN
          /\ total' = IF Stands /\ valid THEN [total EXCEPT !.likes = tap[t].read.likes] ELSE total
          /\ jammed' = (jammed \/ ~valid)
    /\ UNCHANGED <<post, hearts, saved, followers, remark, banned, inTurn, twice, album, leaving>>

-----------------------------------------------------------------------------
(* addComment, deleteComment and the admin's removeSocialComment *)

ReadForComment(t, u) ==
    /\ u \notin banned /\ post = "active"
    /\ Begin(t, "comment", u, NoRemark)
    /\ inTurn' = (inTurn /\ Adding = {} /\ Dropping(Remarks) = {})
    /\ UNCHANGED <<post, total, hearts, saved, followers, remark, banned, jammed, twice, album, leaving>>

CreateComment(t, c) ==
    /\ Then(t, "comment", "saveComment")
    /\ remark[c].status = "none"
    /\ remark' = [remark EXCEPT ![c] = [status |-> "active", by |-> tap[t].who]]
    /\ UNCHANGED <<post, total, hearts, saved, followers, banned, inTurn, jammed, twice, album, leaving>>

SaveComment(t) ==
    /\ End(t, "saveComment")
    /\ LET number == tap[t].read.comments + 1 IN
          /\ total' = IF Stands /\ number >= 0 THEN [total EXCEPT !.comments = number] ELSE total
          /\ jammed' = (jammed \/ number < 0)
    /\ UNCHANGED <<post, hearts, saved, followers, remark, banned, inTurn, twice, album, leaving>>

\* the row may be one that an admin has removed: its status is not looked at
FindComment(t, u, c) ==
    /\ remark[c].status \in {"active", "removed"}
    /\ u \in {remark[c].by, Moderator} \/ (Stands /\ u = Author)
    /\ Begin(t, "drop", u, c)
    /\ inTurn' = (inTurn /\ Adding = {} /\ Dropping({c}) = {})
    /\ UNCHANGED <<post, total, hearts, saved, followers, remark, banned, jammed, twice, album, leaving>>

DropComment(t) ==
    /\ Then(t, "drop", "lower")
    /\ twice' = twice + (IF remark[tap[t].what].status = "active" THEN 0 ELSE 1)
    /\ remark' = [remark EXCEPT ![tap[t].what] = [status |-> "gone", by |-> NoOne]]
    /\ UNCHANGED <<post, total, hearts, saved, followers, banned, inTurn, jammed, album, leaving>>

\* Mutant of ReadForRemoval: removes, and counts, once more what was removed.
ReadAnyForRemoval(t, c) ==
    /\ remark[c].status \in {"active", "removed"}
    /\ Begin(t, "hide", Moderator, c)
    /\ inTurn' = (inTurn /\ Adding = {} /\ Dropping({c}) = {})
    /\ UNCHANGED <<post, total, hearts, saved, followers, remark, banned, jammed, twice, album, leaving>>

\* an admin's removal is for a comment that he read as active
ReadForRemoval(t, c) ==
    /\ remark[c].status = "active"
    /\ Begin(t, "hide", Moderator, c)
    /\ inTurn' = (inTurn /\ Adding = {} /\ Dropping({c}) = {})
    /\ UNCHANGED <<post, total, hearts, saved, followers, remark, banned, jammed, twice, album, leaving>>

\* the save is refused when the row has gone
HideComment(t) ==
    /\ tap[t].step = "hide"
    /\ IF remark[tap[t].what].status = "gone" THEN End(t, "hide") /\ UNCHANGED remark
       ELSE /\ Then(t, "hide", "lower")
            /\ remark' = [remark EXCEPT ![tap[t].what].status = "removed"]
    /\ UNCHANGED <<post, total, hearts, saved, followers, banned, inTurn, jammed, twice, album, leaving>>

LowerComments(t) ==
    /\ End(t, "lower")
    /\ total' = IF Stands THEN [total EXCEPT !.comments = @ - 1] ELSE total
    /\ UNCHANGED <<post, hearts, saved, followers, remark, banned, inTurn, jammed, twice, album, leaving>>

-----------------------------------------------------------------------------
\* the process stops, or a query throws, between two round trips
BreakOffTap(t) ==
    /\ ~Idle(t) /\ tap' = [tap EXCEPT ![t] = NoTap] /\ inTurn' = FALSE
    /\ UNCHANGED <<post, total, hearts, saved, followers, remark, banned, jammed, twice, album, leaving>>

PostNext == CreatePost \/ DeletePost \/ DeletePictures \/ (\E part \in Parts : DeletePart(part)) \/ RemoveSocialPost
MarkNext == \E u \in People : ToggleSavePost(u) \/ ToggleFollow(u) \/ SetSocialBan(u)

TapNext ==
    \/ \E t \in Taps, u \in People : ReadForLike(t, u) \/ ReadForComment(t, u)
    \/ \E t \in Taps : \/ FindHeart(t) \/ CreateHeart(t) \/ DeleteHeart(t) \/ SaveLikes(t)
                       \/ SaveComment(t) \/ DropComment(t) \/ HideComment(t) \/ LowerComments(t) \/ BreakOffTap(t)
    \/ \E t \in Taps, c \in Remarks : \/ CreateComment(t, c) \/ ReadForRemoval(t, c)
                                      \/ \E u \in People \cup {Moderator} : FindComment(t, u, c)

SocialSpec == SocialInit /\ [][PostNext \/ MarkNext \/ TapNext]_socialVars

-----------------------------------------------------------------------------
\* hydratePosts, postView: what one viewer is shown of the post
PostView(u) ==
    [likeCount |-> total.likes, commentCount |-> total.comments, images |-> album,
     likedByMe |-> u \in hearts, savedByMe |-> u \in saved,
     isFollowing |-> u \in followers, followersCount |-> Cardinality(followers)]

\* getFeed and getHashtagPosts, of all or of those the viewer follows; getSavedPosts
Feed(u, mode) == IF post = "active" /\ (mode = "following" => u \in followers) THEN {PostView(u)} ELSE {}
SavedPosts(u) == {v \in Feed(u, "all") : v.savedByMe}
Pages(u) == Feed(u, "all") \cup Feed(u, "following") \cup SavedPosts(u)

\* getComments
ShownComments == {c \in Remarks : remark[c].status = "active"}

\* listSocialPosts and getSocialPost of the admin: hidden posts and comments too
AdminPost ==
    [likeCount |-> total.likes, commentCount |-> total.comments,
     comments |-> [c \in {d \in Remarks : remark[d].status \in {"active", "removed"}} |-> remark[c].status]]

\* When the calls that write one of the numbers take turns, every page of a viewer shows as
\* many hearts as there are, his own among them, and the number of comments falls short of
\* those shown, to him and to the admin, by exactly the comments that were deleted after an
\* admin had removed them; and only such a comment can make a later heart or comment fail.
\* A deletion of the post that is under way, or that a failed query or a crash cut short, may
\* have taken pictures and rows of a post that stands: the numbers are then too high, never
\* too low.  (toggleLike, addComment, deleteComment, deletePost, removeSocialComment)
NumbersTellTheTruth ==
    inTurn /\ Stands =>
        LET whole == leaving = {}
            active == {c \in DOMAIN AdminPost.comments : AdminPost.comments[c] = "active"}
        IN
        /\ jammed => twice > 0
        /\ \A u \in People : \A v \in Pages(u) : whole => v.images
        /\ ~jammed /\ Liking = {} =>
              /\ AdminPost.likeCount >= Cardinality(hearts)
              /\ whole => AdminPost.likeCount = Cardinality(hearts)
              /\ \A u \in People : \A v \in Pages(u) :
                    v.likeCount = AdminPost.likeCount /\ (v.likedByMe => v.likeCount > 0)
        /\ ~jammed /\ Adding = {} /\ Dropping(Remarks) = {} =>
              /\ AdminPost.commentCount + twice >= Cardinality(active)
              /\ whole => AdminPost.commentCount + twice = Cardinality(active)
              /\ ShownComments = active
              /\ \A u \in People : \A v \in Pages(u) : v.commentCount = AdminPost.commentCount
=============================================================================
