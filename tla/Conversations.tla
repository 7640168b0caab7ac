--------------------------- MODULE Conversations ---------------------------
(***************************************************************************)
(* The chat of a customer with a stylist (chat/chat.service.ts): messages  *)
(* are rows, the conversation keeps the last of them and what each side    *)
(* has not read yet.  A call reads the conversation and works with that    *)
(* copy.  The first message and the first reply are announced by an SMS,   *)
(* which the call sends when it has written all it had to write.           *)
(***************************************************************************)
EXTENDS Integers, Sequences, FiniteSets

CONSTANTS
    Talks,       \* calls that may be under way at once
    MaxMessages, \* bound of the model: messages in the thread
    PageSize     \* messages returned by one call of listMessages

ASSUME ConversationAssumption == MaxMessages \in Nat /\ PageSize \in Nat \ {0}

VARIABLES
    thread,      \* the senders of the ChatMessage rows, in the order of createdAt
    conv,        \* the ChatConversation
    announced,   \* SMS about a first message or a first reply, sent to each side
    due,         \* such SMS that a call has still to send
    unsent,      \* such SMS that nobody will send any more
    shown,       \* messages each side was shown or has marked as read
    talk,        \* what each call is at, and what it read of the conversation
    calm         \* no reading has overlapped a sending, no two sendings overlapped, none broke off,
                 \* and no page was too short for what was new

chatVars == <<thread, conv, announced, due, unsent, shown, talk, calm>>

Sides == {"customer", "stylist"}
Other(s) == IF s = "customer" THEN "stylist" ELSE "customer"
NoConv == [open |-> FALSE, last |-> 0, by |-> "nobody", replied |-> FALSE, unread |-> [s \in Sides |-> 0]]
NoTalk == [step |-> "idle"]

Sends == [step : {"send", "update", "again"}, side : Sides, message : 0..MaxMessages, first : BOOLEAN]
Lists == [step : {"list"}, side : Sides, behind : BOOLEAN, after : 0..MaxMessages]
Resets == [step : {"reset"}, side : Sides]

ChatTypeOK ==
    /\ thread \in Seq(Sides) /\ Len(thread) <= MaxMessages
    /\ conv \in [open : BOOLEAN, last : 0..MaxMessages, by : Sides \cup {"nobody"}, replied : BOOLEAN,
                 unread : [Sides -> Nat]]
    /\ announced \in [Sides -> Nat] /\ due \in [Sides -> Nat] /\ unsent \in [Sides -> Nat]
    /\ shown \in [Sides -> SUBSET (1..MaxMessages)]
    /\ talk \in [Talks -> {NoTalk} \cup Sends \cup Lists \cup Resets]
    /\ calm \in BOOLEAN

ChatInit ==
    /\ thread = <<>> /\ conv = NoConv
    /\ announced = [s \in Sides |-> 0] /\ due = [s \in Sides |-> 0] /\ unsent = [s \in Sides |-> 0]
    /\ shown = [s \in Sides |-> {}]
    /\ talk = [t \in Talks |-> NoTalk] /\ calm = TRUE

Doing(t, step) == talk[t].step = step
Quiet(t) == Doing(t, "idle")
Stop(t) == talk' = [talk EXCEPT ![t] = NoTalk]
Sending == {t \in Talks : Doing(t, "send") \/ Doing(t, "update") \/ Doing(t, "again")}
Reading == {t \in Talks : Doing(t, "list") \/ Doing(t, "reset")}

\* one upsert; a lost race for the unique index reads the row of the winner
GetOrCreateConversation ==
    /\ conv' = [conv EXCEPT !.open = TRUE]
    /\ UNCHANGED <<thread, announced, due, unsent, shown, talk, calm>>

-----------------------------------------------------------------------------
(* sendMessage *)

ReadToSend(t, s) ==
    /\ Quiet(t) /\ conv.open
    /\ talk' = [talk EXCEPT ![t] = [step |-> "send", side |-> s, message |-> 0,
         first |-> IF s = "customer" THEN conv.last = 0 ELSE ~conv.replied]]
    /\ calm' = (calm /\ Sending = {} /\ Reading = {})
    /\ UNCHANGED <<thread, conv, announced, due, unsent, shown>>

CreateMessage(t) ==
    /\ Doing(t, "send") /\ Len(thread) < MaxMessages
    /\ thread' = Append(thread, talk[t].side)
    /\ talk' = [talk EXCEPT ![t] = [@ EXCEPT !.step = "update", !.message = Len(thread) + 1]]
    /\ UNCHANGED <<conv, announced, due, unsent, shown, calm>>

FirstMessage(t) == talk[t].side = "customer" /\ talk[t].first
FirstReply(t) == talk[t].side = "stylist" /\ talk[t].first

\* Mutant of WithMessage: raises the number of the side that writes.
WithOwnMessage(t, c) ==
    [c EXCEPT !.last = talk[t].message, !.by = talk[t].side, !.unread[talk[t].side] = @ + 1]

\* the last message is replaced, the other side's number raised
WithMessage(t, c) ==
    [c EXCEPT !.last = talk[t].message, !.by = talk[t].side, !.unread[Other(talk[t].side)] = @ + 1]

\* an SMS falls due, and the call that has it to send writes nothing more
Announce(t) == due' = [due EXCEPT ![Other(talk[t].side)] = @ + 1]

\* Mutant of UpdateFirst: trusts the copy it read.
UpdateAsRead(t) ==
    /\ Doing(t, "update") /\ talk[t].first
    /\ conv' = [WithMessage(t, conv) EXCEPT !.replied = @ \/ FirstReply(t)]
    /\ Announce(t) /\ Stop(t)
    /\ UNCHANGED <<thread, announced, unsent, shown, calm>>

\* a first message or reply asks that it still be the first; the update says whether it was
UpdateFirst(t) ==
    /\ Doing(t, "update") /\ talk[t].first
    /\ IF (IF FirstMessage(t) THEN conv.last = 0 ELSE ~conv.replied)
       THEN /\ conv' = [WithMessage(t, conv) EXCEPT !.replied = @ \/ FirstReply(t)]
            /\ Announce(t) /\ Stop(t)
       ELSE /\ talk' = [talk EXCEPT ![t] = [@ EXCEPT !.step = "again"]]
            /\ UNCHANGED <<conv, due>>
    /\ UNCHANGED <<thread, announced, unsent, shown, calm>>

UpdateLater(t) ==
    /\ Doing(t, "again") \/ (Doing(t, "update") /\ ~talk[t].first)
    /\ conv' = WithMessage(t, conv) /\ Stop(t)
    /\ UNCHANGED <<thread, announced, due, unsent, shown, calm>>

\* chatFirstMessage or chatStylistReplied, after the user's phone has been looked up
SendSms(s) ==
    /\ due[s] > 0 /\ due' = [due EXCEPT ![s] = @ - 1]
    /\ announced' = [announced EXCEPT ![s] = @ + 1]
    /\ UNCHANGED <<thread, conv, unsent, shown, talk, calm>>

\* there is no phone, the lookup or the SMS throws and nobody hears of it, or the process stops
LoseSms(s) ==
    /\ due[s] > 0 /\ due' = [due EXCEPT ![s] = @ - 1]
    /\ unsent' = [unsent EXCEPT ![s] = @ + 1]
    /\ UNCHANGED <<thread, conv, announced, shown, talk, calm>>

-----------------------------------------------------------------------------
(* listMessages and markRead *)

\* after is the newest message the caller has, or 0 for the first page, which is the latest
ReadToList(t, s) ==
    /\ Quiet(t) /\ conv.open
    /\ \E after \in {0} \cup shown[s] :
          talk' = [talk EXCEPT ![t] = [step |-> "list", side |-> s, behind |-> conv.unread[s] > 0, after |-> after]]
    /\ calm' = (calm /\ Sending = {})
    /\ UNCHANGED <<thread, conv, announced, due, unsent, shown>>

Page(after) ==
    IF after = 0 THEN {m \in 1..Len(thread) : m > Len(thread) - PageSize}
    ELSE {m \in 1..Len(thread) : m > after /\ m <= after + PageSize}

\* the number is reset when the copy says that there is something to reset
ListMessages(t) ==
    /\ Doing(t, "list")
    /\ shown' = [shown EXCEPT ![talk[t].side] = @ \cup Page(talk[t].after)]
    /\ IF talk[t].behind
       THEN talk' = [talk EXCEPT ![t] = [step |-> "reset", side |-> talk[t].side]]
       ELSE Stop(t)
    /\ calm' = (calm /\ (talk[t].after = 0 \/ Len(thread) <= talk[t].after + PageSize))
    /\ UNCHANGED <<thread, conv, announced, due, unsent>>

ResetUnread(t) ==
    /\ Doing(t, "reset") /\ Stop(t)
    /\ conv' = [conv EXCEPT !.unread[talk[t].side] = 0]
    /\ UNCHANGED <<thread, announced, due, unsent, shown, calm>>

MarkRead(s) ==
    /\ conv.open
    /\ conv' = [conv EXCEPT !.unread[s] = 0]
    /\ shown' = [shown EXCEPT ![s] = 1..Len(thread)]
    /\ calm' = (calm /\ Sending = {})
    /\ UNCHANGED <<thread, announced, due, unsent, talk>>

\* the process stops, or a query throws, between two round trips
BreakOffTalk(t) ==
    /\ ~Quiet(t) /\ Stop(t) /\ calm' = FALSE
    /\ UNCHANGED <<thread, conv, announced, due, unsent, shown>>

ChatNext ==
    \/ GetOrCreateConversation
    \/ \E s \in Sides : MarkRead(s) \/ SendSms(s) \/ LoseSms(s) \/ \E t \in Talks : ReadToSend(t, s) \/ ReadToList(t, s)
    \/ \E t \in Talks : \/ CreateMessage(t) \/ UpdateFirst(t) \/ UpdateLater(t)
                        \/ ListMessages(t) \/ ResetUnread(t) \/ BreakOffTalk(t)

ChatSpec == ChatInit /\ [][ChatNext]_chatVars

-----------------------------------------------------------------------------
From(s) == {m \in 1..Len(thread) : thread[m] = s}

\* listConversations, and getUnreadCount over the conversations of one side
ListConversations(s) == [head |-> conv.last, unreadCount |-> conv.unread[s]]
GetUnreadCount(s) == IF conv.open THEN conv.unread[s] ELSE 0

\* However many sendings race, the first message of the customer makes at most one SMS to the
\* stylist, and a reply that is on record has made exactly one to the customer: one that was
\* sent, one that its call has still to send, or one that nobody will send any more.
\* (sendMessage: "the atomic null filters guarantee exactly one SMS even when sends race")
FirstContactAnnouncedOnce ==
    /\ announced["stylist"] + due["stylist"] + unsent["stylist"] <= 1
    /\ announced["customer"] + due["customer"] + unsent["customer"] = IF conv.replied THEN 1 ELSE 0

\* When sendings and readings take turns and no poll finds more than a page, the list of
\* conversations shows either side the newest message and the same number as the badge, and a
\* side whose badge shows nothing unread has been shown what the other wrote, as far as a page
\* reaches back.  (sendMessage, listMessages, markRead, listConversations, getUnreadCount)
NothingUnreadIsMissed ==
    calm /\ Sending = {} /\ Reading = {} =>
        \A s \in Sides :
            /\ ListConversations(s) = [head |-> Len(thread), unreadCount |-> GetUnreadCount(s)]
            /\ GetUnreadCount(s) = 0 =>
                  \A m \in From(Other(s)) : m > Len(thread) - PageSize => m \in shown[s]
=============================================================================
