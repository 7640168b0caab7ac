------------------------------- MODULE Support -------------------------------
(***************************************************************************)
(* A support ticket (ticket/ticket.service.ts) and the in-app messages of  *)
(* one user (message/message.service.ts).  A ticket says by its status     *)
(* whose turn it is; a reply reads the ticket and then pushes its message, *)
(* and the save writes the status only if it differs from the one read.    *)
(***************************************************************************)
EXTENDS Integers, Sequences, FiniteSets

CONSTANTS
    Replies,     \* calls that may be under way at once
    MaxPosts,    \* bound of the model: messages of the ticket, and in-app messages
    NoStatus

ASSUME SupportAssumption ==
    /\ MaxPosts \in Nat /\ IsFiniteSet(Replies)
    /\ NoStatus \notin {"open", "in_progress", "answered", "closed"}

VARIABLES
    ticket,      \* the SupportTicket: status, closedAt set, senders of its messages
    meanwhile,   \* the statuses that others gave it between the reading of the call that sent
                 \* the last message and its save, or the one an admin has chosen since
    reply,       \* what each call is at, the status it read and those others gave since
    inbox        \* the Message rows of the user, in the order of createdAt

supportVars == <<ticket, meanwhile, reply, inbox>>

TicketStatuses == {"open", "in_progress", "answered", "closed"}
Senders == {"user", "admin"}
NoReply == [step |-> "idle", read |-> NoStatus, since |-> {}]
NoTicket == [status |-> NoStatus, closedAt |-> FALSE, messages |-> <<>>]
Kinds == {"stylist_welcome", "admin_message"}

SupportTypeOK ==
    /\ ticket.status \in TicketStatuses \cup {NoStatus} /\ ticket.closedAt \in BOOLEAN
    /\ ticket.messages \in Seq(Senders)
    /\ meanwhile \in SUBSET TicketStatuses
    /\ reply \in [Replies -> [step : {"idle", "user", "admin", "welcome"},
                              read : TicketStatuses \cup {NoStatus}, since : SUBSET TicketStatuses]]
    /\ inbox \in Seq([kind : Kinds, isRead : BOOLEAN])

SupportInit ==
    /\ ticket = NoTicket /\ meanwhile = {}
    /\ reply = [r \in Replies |-> NoReply]
    /\ inbox = <<>>

Unused(r) == reply[r] = NoReply
Take(r, step, read) == Unused(r) /\ reply' = [reply EXCEPT ![r] = [step |-> step, read |-> read, since |-> {}]]
Replying == {r \in Replies : reply[r].step \in Senders}
Welcoming == {r \in Replies : reply[r].step = "welcome"}

-----------------------------------------------------------------------------
(* The ticket *)

CreateTicket ==
    /\ ticket = NoTicket
    /\ ticket' = [status |-> "open", closedAt |-> FALSE, messages |-> <<"user">>]
    /\ UNCHANGED <<meanwhile, reply, inbox>>

\* the calls that have read the ticket before it was given the status s
Missed(calls, s) ==
    [r \in Replies |->
        IF calls[r].step \in Senders /\ s # ticket.status
        THEN [calls[r] EXCEPT !.since = @ \cup {s}] ELSE calls[r]]

\* addMessage, adminAddMessage: a closed ticket takes no message
ReadTicket(r, who) ==
    /\ ticket.status \in TicketStatuses \ {"closed"}
    /\ Len(ticket.messages) + Cardinality(Replying) < MaxPosts
    /\ Take(r, who, ticket.status)
    /\ UNCHANGED <<ticket, meanwhile, inbox>>

Turn(who) == IF who = "user" THEN "open" ELSE "answered"

\* Mutant of Saved: the status is left alone.
SavedMessageOnly(t, read, who) == [t EXCEPT !.messages = Append(@, who)]

\* the message is pushed; a status equal to the one read is not written
Saved(t, read, who) ==
    [t EXCEPT !.messages = Append(@, who), !.status = IF read = Turn(who) THEN @ ELSE Turn(who)]

SaveReply(r, who) ==
    /\ reply[r].step = who
    /\ ticket' = Saved(ticket, reply[r].read, who)
    /\ meanwhile' = reply[r].since
    /\ reply' = Missed([reply EXCEPT ![r] = NoReply], ticket'.status)
    /\ UNCHANGED inbox

UpdateTicketStatus(status) ==
    /\ ticket # NoTicket
    /\ ticket' = [ticket EXCEPT !.status = status]
    /\ meanwhile' = {status} /\ reply' = Missed(reply, status)
    /\ UNCHANGED inbox

CloseTicket ==
    /\ ticket # NoTicket
    /\ ticket' = [ticket EXCEPT !.status = "closed", !.closedAt = TRUE]
    /\ meanwhile' = {"closed"} /\ reply' = Missed(reply, "closed")
    /\ UNCHANGED inbox

-----------------------------------------------------------------------------
(* In-app messages *)

Message(kind) == [kind |-> kind, isRead |-> FALSE]
Welcomes == {i \in DOMAIN inbox : inbox[i].kind = "stylist_welcome"}

\* sendMessageToUser and maybeSendMessage of the admin
SendMessage ==
    /\ Len(inbox) < MaxPosts
    /\ inbox' = Append(inbox, Message("admin_message"))
    /\ UNCHANGED <<ticket, meanwhile, reply>>

AlreadyWelcomed == Welcomes # {}

\* sendStylistWelcomeMessage: every upload asks whether there is one, then creates it
FindWelcome(r) ==
    /\ ~AlreadyWelcomed /\ Take(r, "welcome", NoStatus)
    /\ UNCHANGED <<ticket, meanwhile, inbox>>

CreateWelcome(r) ==
    /\ Len(inbox) < MaxPosts /\ reply[r].step = "welcome"
    /\ reply' = [reply EXCEPT ![r] = NoReply]
    /\ inbox' = Append(inbox, Message("stylist_welcome"))
    /\ UNCHANGED <<ticket, meanwhile>>

MarkMessageRead(i) ==
    /\ i \in DOMAIN inbox
    /\ inbox' = [inbox EXCEPT ![i].isRead = TRUE]
    /\ UNCHANGED <<ticket, meanwhile, reply>>

\* the process stops, or a query throws, between the reading and the write
BreakOffReply(r) ==
    /\ ~Unused(r) /\ reply' = [reply EXCEPT ![r] = NoReply]
    /\ UNCHANGED <<ticket, meanwhile, inbox>>

TicketNext ==
    \/ CreateTicket \/ CloseTicket \/ \E s \in TicketStatuses : UpdateTicketStatus(s)
    \/ \E r \in Replies, who \in Senders : ReadTicket(r, who) \/ SaveReply(r, who)
    \/ \E r \in Replies : BreakOffReply(r)

InboxNext ==
    \/ SendMessage \/ \E i \in 1..MaxPosts : MarkMessageRead(i)
    \/ \E r \in Replies : FindWelcome(r) \/ CreateWelcome(r) \/ BreakOffReply(r)

SupportSpec == SupportInit /\ [][TicketNext \/ InboxNext]_supportVars

-----------------------------------------------------------------------------
\* listMyTickets, listAllTickets: the filter by status
Listed(status) == ticket.status = status

\* However replies, choices of an admin and closings overlap, a ticket is in the list where the
\* next to act looks for it: under "open" after a message of the user, under "answered" after
\* one of an admin - unless it was given another status between that call's reading and its
\* save, or was since given one by an admin, and then it is under that.  And a stylist gets no
\* more welcomes than uploads were under way at once, whatever he has read: one, if uploads
\* take turns.  (addMessage, adminAddMessage, updateTicketStatus, closeTicket,
\* sendStylistWelcomeMessage)
TurnFollowsMessages ==
    /\ ticket # NoTicket =>
         \E s \in {Turn(ticket.messages[Len(ticket.messages)])} \cup meanwhile : Listed(s)
    /\ Cardinality(Welcomes) <= Cardinality(Replies)
=============================================================================
