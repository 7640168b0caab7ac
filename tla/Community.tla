----------------------------- MODULE Community -----------------------------
(***************************************************************************)
(* Questions and answers (community/community.service.ts): what is liked,  *)
(* saved and answered is kept in rows of its own, and the numbers shown    *)
(* are counters beside them, raised and lowered by $inc.  A call is cut at *)
(* its round trips.  Nothing in the code hides a question or an answer, so *)
(* their status is left out, and so is the count of views, which every     *)
(* reading raises and nothing reads.                                       *)
(***************************************************************************)
EXTENDS Integers, FiniteSets

CONSTANTS
    Members,     \* signed-in users
    Things,      \* a question and its answers: what can be liked
    Question,    \* the one of them that is the question
    Visits,      \* calls that may be under way at once
    Nobody

ASSUME CommunityAssumption ==
    /\ Question \in Things /\ Nobody \notin Members
    /\ IsFiniteSet(Members) /\ IsFiniteSet(Things)

VARIABLES
    muted,       \* members with User.socialBanned, shared with the social network
    posted,      \* the CommunityQuestion and CommunityAnswer rows
    answerCount,
    likeRows,    \* CommunityQuestionLike and CommunityAnswerLike rows of each thing
    likeCount,
    saveRows,    \* CommunityQuestionSave rows
    visit,       \* what each call is at
    singly       \* no two calls of one member about one thing have overlapped, and none broke off

communityVars == <<muted, posted, answerCount, likeRows, likeCount, saveRows, visit, singly>>

Away == [step |-> "away", who |-> Nobody, what |-> Question]
VisitSteps == {"away", "liked", "unliked", "raise", "lower", "answered"}

CommunityTypeOK ==
    /\ muted \subseteq Members /\ posted \subseteq Things /\ answerCount \in Nat
    /\ likeRows \in [Things -> SUBSET Members] /\ likeCount \in [Things -> Nat]
    /\ saveRows \subseteq Members /\ singly \in BOOLEAN
    /\ visit \in [Visits -> [step : VisitSteps, who : Members \cup {Nobody}, what : Things]]

CommunityInit ==
    /\ muted = {} /\ posted = {} /\ answerCount = 0
    /\ likeRows = [t \in Things |-> {}] /\ likeCount = [t \in Things |-> 0]
    /\ saveRows = {} /\ visit = [v \in Visits |-> Away] /\ singly = TRUE

At(v, step) == visit[v].step = step
GoTo(v, step) == visit' = [visit EXCEPT ![v] = [step |-> step, who |-> visit[v].who, what |-> visit[v].what]]
Leave(v) == visit' = [visit EXCEPT ![v] = Away]
Busy(m, t) == \E v \in Visits : visit[v].who = m /\ visit[v].what = t /\ ~At(v, "away") /\ ~At(v, "answered")

-----------------------------------------------------------------------------
CreateQuestion(m) ==
    /\ m \notin muted /\ Question \notin posted
    /\ posted' = posted \cup {Question}
    /\ UNCHANGED <<muted, answerCount, likeRows, likeCount, saveRows, visit, singly>>

\* addAnswer: the row, then the counter of the question
AddAnswer(v, m, t) ==
    /\ At(v, "away") /\ m \notin muted /\ Question \in posted /\ t \notin posted
    /\ posted' = posted \cup {t}
    /\ visit' = [visit EXCEPT ![v] = [step |-> "answered", who |-> m, what |-> t]]
    /\ UNCHANGED <<muted, answerCount, likeRows, likeCount, saveRows, singly>>

CountAnswer(v) ==
    /\ At(v, "answered") /\ Leave(v)
    /\ answerCount' = answerCount + 1
    /\ UNCHANGED <<muted, posted, likeRows, likeCount, saveRows, singly>>

-----------------------------------------------------------------------------
(* toggleLikeQuestion, toggleLikeAnswer *)

\* the ban, the thing and the row of the member are looked up
FindLike(v, m, t) ==
    /\ At(v, "away") /\ m \notin muted /\ t \in posted
    /\ visit' = [visit EXCEPT ![v] = [step |-> IF m \in likeRows[t] THEN "liked" ELSE "unliked", who |-> m, what |-> t]]
    /\ singly' = (singly /\ ~Busy(m, t))
    /\ UNCHANGED <<muted, posted, answerCount, likeRows, likeCount, saveRows>>

\* a second row is refused by the unique index, and the refusal is swallowed
CreateLike(v) ==
    /\ At(v, "unliked") /\ GoTo(v, "raise")
    /\ likeRows' = [likeRows EXCEPT ![visit[v].what] = @ \cup {visit[v].who}]
    /\ UNCHANGED <<muted, posted, answerCount, likeCount, saveRows, singly>>

DeleteLike(v) ==
    /\ At(v, "liked") /\ GoTo(v, "lower")
    /\ likeRows' = [likeRows EXCEPT ![visit[v].what] = @ \ {visit[v].who}]
    /\ UNCHANGED <<muted, posted, answerCount, likeCount, saveRows, singly>>

CountLike(v) ==
    /\ At(v, "raise") /\ Leave(v)
    /\ likeCount' = [likeCount EXCEPT ![visit[v].what] = @ + 1]
    /\ UNCHANGED <<muted, posted, answerCount, likeRows, saveRows, singly>>

\* Mutant of DiscountLike: counts the rows and stores their number.
DiscountByRecount(v) ==
    /\ At(v, "lower") /\ Leave(v)
    /\ likeCount' = [likeCount EXCEPT ![visit[v].what] = Cardinality(likeRows[visit[v].what])]
    /\ UNCHANGED <<muted, posted, answerCount, likeRows, saveRows, singly>>

\* the update asks for a counter above zero
DiscountLike(v) ==
    /\ At(v, "lower") /\ Leave(v)
    /\ likeCount' = [likeCount EXCEPT ![visit[v].what] = IF @ > 0 THEN @ - 1 ELSE @]
    /\ UNCHANGED <<muted, posted, answerCount, likeRows, saveRows, singly>>

-----------------------------------------------------------------------------
\* toggleSaveQuestion asks for no ban and keeps no counter
ToggleSave(m) ==
    /\ Question \in posted
    /\ saveRows' = IF m \in saveRows THEN saveRows \ {m} ELSE saveRows \cup {m}
    /\ UNCHANGED <<muted, posted, answerCount, likeRows, likeCount, visit, singly>>

SetBan(m) ==
    /\ muted' = IF m \in muted THEN muted \ {m} ELSE muted \cup {m}
    /\ UNCHANGED <<posted, answerCount, likeRows, likeCount, saveRows, visit, singly>>

\* the process stops, or a query throws, between two round trips
BreakOffVisit(v) ==
    /\ ~At(v, "away") /\ Leave(v) /\ singly' = FALSE
    /\ UNCHANGED <<muted, posted, answerCount, likeRows, likeCount, saveRows>>

CommunityNext ==
    \/ \E m \in Members : CreateQuestion(m) \/ ToggleSave(m) \/ SetBan(m)
    \/ \E v \in Visits, m \in Members, t \in Things : AddAnswer(v, m, t) \/ FindLike(v, m, t)
    \/ \E v \in Visits : \/ CountAnswer(v) \/ CreateLike(v) \/ DeleteLike(v)
                         \/ CountLike(v) \/ DiscountLike(v) \/ BreakOffVisit(v)

CommunitySpec == CommunityInit /\ [][CommunityNext]_communityVars

-----------------------------------------------------------------------------
(* What is shown *)

\* what a member sees of a question or an answer: the counter, and whether there is a row
ItemView(m, t) == [likeCount |-> likeCount[t], isLiked |-> m \in likeRows[t]]

QuestionView(m) ==
    [item |-> ItemView(m, Question), answerCount |-> answerCount, isSaved |-> m \in saveRows]

\* getQuestion: the question with its answers
GetQuestion(m) ==
    [question |-> QuestionView(m), answers |-> [t \in posted \ {Question} |-> ItemView(m, t)]]

\* listQuestions: the list of the unanswered goes by the counter
ListQuestions(sort) == {q \in posted \cap {Question} : sort = "unanswered" => answerCount = 0}

Who(t, step) == {visit[v].who : v \in {w \in Visits : At(w, step) /\ visit[w].what = t}}
Uncounted == {visit[v].what : v \in {w \in Visits : At(w, "answered")}}
LikedBy(t) == {m \in Members : ItemView(m, t).isLiked}

\* Calls of different members may overlap as they like: as long as no member taps the same
\* heart twice at once and no call breaks off, the number shown beside a heart is that of the
\* members who see it as liked, up to the calls that have written the row and not yet the
\* counter.  The same holds of the answers, and the list of the unanswered shows no question
\* with an answer that was counted.  (toggleLikeQuestion, toggleLikeAnswer, addAnswer)
CountersFollowRows ==
    singly => \A m \in Members :
        LET page == GetQuestion(m)
            counted == DOMAIN page.answers \ Uncounted
        IN
        /\ page.question.item.likeCount = Cardinality((LikedBy(Question) \ Who(Question, "raise")) \cup Who(Question, "lower"))
        /\ \A t \in DOMAIN page.answers :
              page.answers[t].likeCount = Cardinality((LikedBy(t) \ Who(t, "raise")) \cup Who(t, "lower"))
        /\ page.question.answerCount = Cardinality(counted)
        /\ Question \in ListQuestions("unanswered") => counted = {}
=============================================================================
