------------------------------- MODULE Stories -------------------------------
(***************************************************************************)
(* Stories that last a day (social/story.service.ts, the admin's removal   *)
(* in admin/admin.service.ts): a row, a stored picture, a StoryView row    *)
(* for everyone who has seen it, and reports about it.  The expired ones   *)
(* are purged by an hourly pass; author, admin and viewers act meanwhile.  *)
(***************************************************************************)
EXTENDS Integers, FiniteSets

CONSTANTS
    Tales,       \* stories
    Viewers,     \* signed-in users
    Sights,      \* calls of markSeen that may be under way at once
    MaxStops,    \* bound of the model: how often the process stops in the middle of a call
    NoTale, NoViewer

ASSUME StoriesAssumption == MaxStops \in Nat /\ NoTale \notin Tales

VARIABLES
    allowed,     \* the author may post: gold plan, and not banned
    tale,        \* the Story rows, and whether their day is over
    pictures,    \* stories whose picture is in the store
    refused,     \* those of them that the store last failed to delete
    seen,        \* StoryView rows
    report,      \* ContentReport rows: one per story and user
    posting,     \* stories whose picture was stored and whose row was not yet created
    erasing,     \* stories whose author's deletion has read the row and dropped the picture
    purge,       \* the pass: what it found
    sight,       \* what each markSeen has found
    stops

storyVars == <<allowed, tale, pictures, refused, seen, report, posting, erasing, purge, sight, stops>>

NoPurge == [step |-> "idle", found |-> {}]
NoSight == [story |-> NoTale, who |-> NoViewer]
Absent == [status |-> "none", expired |-> FALSE]

StoriesTypeOK ==
    /\ allowed \in BOOLEAN
    /\ tale \in [Tales -> [status : {"none", "active", "removed", "gone"}, expired : BOOLEAN]]
    /\ pictures \subseteq Tales /\ refused \subseteq Tales
    /\ posting \subseteq Tales /\ erasing \subseteq Tales
    /\ seen \subseteq Tales \X Viewers
    /\ report \in [Tales \X Viewers -> {"none", "open", "reviewed"}]
    /\ purge \in [step : {"idle", "pictures", "rows"}, found : SUBSET Tales]
    /\ sight \in [Sights -> [story : Tales \cup {NoTale}, who : Viewers \cup {NoViewer}]]
    /\ stops \in 0..MaxStops

StoriesInit ==
    /\ allowed = TRUE /\ tale = [t \in Tales |-> Absent] /\ pictures = {} /\ refused = {} /\ seen = {}
    /\ report = [p \in Tales \X Viewers |-> "none"]
    /\ posting = {} /\ erasing = {} /\ purge = NoPurge
    /\ sight = [g \in Sights |-> NoSight] /\ stops = 0

HasRow(t) == tale[t].status \in {"active", "removed"}
\* ACTIVE: what every reading filters by
Ring == {t \in Tales : tale[t].status = "active" /\ ~tale[t].expired}
Drop(ts) == [t \in Tales |-> IF t \in ts /\ HasRow(t) THEN [tale[t] EXCEPT !.status = "gone"] ELSE tale[t]]

-----------------------------------------------------------------------------
(* The author *)

\* a plan ends or is bought, an admin bans or lets go
ChangeAccess ==
    /\ allowed' = ~allowed
    /\ UNCHANGED <<tale, pictures, refused, seen, report, posting, erasing, purge, sight, stops>>

\* createStory: access is asked for, then the picture is stored, then the row created
StorePicture(t) ==
    /\ allowed /\ tale[t] = Absent /\ t \notin posting
    /\ posting' = posting \cup {t} /\ pictures' = pictures \cup {t}
    /\ UNCHANGED <<allowed, tale, refused, seen, report, erasing, purge, sight, stops>>

CreateStory(t) ==
    /\ t \in posting /\ posting' = posting \ {t}
    /\ tale' = [tale EXCEPT ![t] = [status |-> "active", expired |-> FALSE]]
    /\ UNCHANGED <<allowed, pictures, refused, seen, report, erasing, purge, sight, stops>>

\* storageProvider.delete of several pictures: what the store refuses stays, and
\* the caller does not hear of it
Delete(ts) ==
    \E kept \in SUBSET (ts \cap pictures) :
        /\ pictures' = (pictures \ ts) \cup kept
        /\ refused' = (refused \ ts) \cup kept

\* deleteStory: the picture, then the views and the row
DeletePicture(t) ==
    /\ HasRow(t) /\ t \notin erasing
    /\ erasing' = erasing \cup {t} /\ Delete({t})
    /\ UNCHANGED <<allowed, tale, seen, report, posting, purge, sight, stops>>

DeleteStory(t) ==
    /\ t \in erasing /\ erasing' = erasing \ {t}
    /\ tale' = Drop({t}) /\ seen' = {p \in seen : p[1] # t}
    /\ UNCHANGED <<allowed, pictures, refused, report, posting, purge, sight, stops>>

Expire(t) ==
    /\ HasRow(t) /\ ~tale[t].expired
    /\ tale' = [tale EXCEPT ![t].expired = TRUE]
    /\ UNCHANGED <<allowed, pictures, refused, seen, report, posting, erasing, purge, sight, stops>>

-----------------------------------------------------------------------------
(* Viewers and admins *)

FindStory(g, t, u) ==
    /\ sight[g] = NoSight /\ t \in Ring
    /\ sight' = [sight EXCEPT ![g] = [story |-> t, who |-> u]]
    /\ UNCHANGED <<allowed, tale, pictures, refused, seen, report, posting, erasing, purge, stops>>

\* a second view is refused by the unique index; that the story has gone is not noticed
MarkSeen(g) ==
    /\ sight[g] # NoSight
    /\ seen' = seen \cup {<<sight[g].story, sight[g].who>>}
    /\ sight' = [sight EXCEPT ![g] = NoSight]
    /\ UNCHANGED <<allowed, tale, pictures, refused, report, posting, erasing, purge, stops>>

\* a second report of one user is refused by the unique index, whatever became of the first
ReportStory(t, u) ==
    /\ HasRow(t)
    /\ report' = [report EXCEPT ![<<t, u>>] = IF @ = "none" THEN "open" ELSE @]
    /\ UNCHANGED <<allowed, tale, pictures, refused, seen, posting, erasing, purge, sight, stops>>

\* the row and its picture stay; the reports are reviewed by that
RemoveSocialStory(t) ==
    /\ HasRow(t)
    /\ tale' = [tale EXCEPT ![t].status = "removed"]
    /\ report' = [p \in DOMAIN report |-> IF p[1] = t /\ report[p] = "open" THEN "reviewed" ELSE report[p]]
    /\ UNCHANGED <<allowed, pictures, refused, seen, posting, erasing, purge, sight, stops>>

-----------------------------------------------------------------------------
(* purgeExpiredStories *)

Due == {t \in Tales : HasRow(t) /\ tale[t].expired}

\* Mutant of FindExpired: passes over what an admin has removed.
FindExpiredShown ==
    /\ purge = NoPurge /\ {t \in Due : tale[t].status = "active"} # {}
    /\ purge' = [step |-> "pictures", found |-> {t \in Due : tale[t].status = "active"}]
    /\ UNCHANGED <<allowed, tale, pictures, refused, seen, report, posting, erasing, sight, stops>>

FindExpired ==
    /\ purge = NoPurge /\ Due # {}
    /\ purge' = [step |-> "pictures", found |-> Due]
    /\ UNCHANGED <<allowed, tale, pictures, refused, seen, report, posting, erasing, sight, stops>>

PurgePictures ==
    /\ purge.step = "pictures" /\ purge' = [purge EXCEPT !.step = "rows"]
    /\ Delete(purge.found)
    /\ UNCHANGED <<allowed, tale, seen, report, posting, erasing, sight, stops>>

PurgeRows ==
    /\ purge.step = "rows" /\ purge' = NoPurge
    /\ tale' = Drop(purge.found) /\ seen' = {p \in seen : p[1] \notin purge.found}
    /\ UNCHANGED <<allowed, pictures, refused, report, posting, erasing, sight, stops>>

\* the process stops: what was under way is forgotten, what was written stays
StopStories ==
    /\ stops < MaxStops /\ stops' = stops + 1
    /\ posting' = {} /\ erasing' = {} /\ purge' = NoPurge /\ sight' = [g \in Sights |-> NoSight]
    /\ UNCHANGED <<allowed, tale, pictures, refused, seen, report>>

AuthorNext ==
    \/ ChangeAccess \/ StopStories
    \/ \E t \in Tales : StorePicture(t) \/ CreateStory(t) \/ DeletePicture(t) \/ DeleteStory(t) \/ Expire(t)

ViewerNext ==
    \/ \E t \in Tales : \/ RemoveSocialStory(t)
                        \/ \E u \in Viewers : ReportStory(t, u) \/ \E g \in Sights : FindStory(g, t, u)
    \/ \E g \in Sights : MarkSeen(g)

PurgeNext == FindExpired \/ PurgePictures \/ PurgeRows
StoriesNext == AuthorNext \/ ViewerNext \/ PurgeNext

\* the pass is started by a timer every hour, and once begun it runs to its end unless the process stops
StoryFairness ==
    /\ WF_storyVars(FindExpired) /\ WF_storyVars(PurgePictures) /\ WF_storyVars(PurgeRows)

-----------------------------------------------------------------------------

\* A story whose day is over goes, and its picture with it unless the store itself failed to
\* delete that one, whether or not an admin has removed the story, whoever else deletes it at
\* the same time, and although the process may stop between the picture and the row; and until
\* its day is over or somebody takes it down it stays with its picture.  (purgeExpiredStories,
\* deleteStory, removeSocialStory, startScheduledJobs)
ExpiredStoriesGo ==
    /\ \A t \in Tales : (t \in Due) ~> (~HasRow(t) /\ (t \in pictures => t \in refused))
    /\ [][\A t \in Tales :
             /\ t \in Ring \cap pictures /\ t \notin erasing \cup erasing'
             /\ ~tale'[t].expired /\ tale'[t].status # "removed"
             => t \in Ring' \cap pictures']_storyVars
=============================================================================
