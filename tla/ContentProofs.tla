--------------------------- MODULE ContentProofs ----------------------------
(***************************************************************************)
(* That the first contact is announced once and nothing unread is missed,  *)
(* that a ticket is where the next to act looks for it, that ratings and counters *)
(* count what is shown, that the terms accepted are those applied, and that an *)
(* offer is whole: for any number of calls, messages, reviews and pictures. *)
(***************************************************************************)
EXTENDS Conversations, Support, Reviews, Policies, Community, Social, Offering, FinanceProofs

(* Conversations                                                           *)

\* Calls whose message is a row and not yet in the conversation.
Pending == {t \in Talks : Doing(t, "update") \/ Doing(t, "again")}

\* A side has been shown what the other wrote, as far as a page reaches back.
Seen(s) == \A m \in From(Other(s)) : m > Len(thread) - PageSize => m \in shown[s]

\* Who has seen a message has seen those before it, as far as a page reaches back.
NoGaps ==
    \A s \in Sides :
        /\ shown[s] \subseteq 1..Len(thread)
        /\ \A a \in shown[s] : \A m \in 1..a : m > Len(thread) - PageSize => m \in shown[s]

Listening == \A t \in Talks : Doing(t, "list") => talk[t].after \in {0} \cup shown[talk[t].side]

Numbered == \A t \in Pending : talk[t].message \in 1..Len(thread)

NotOpen == ~conv.open => (\A t \in Talks : Quiet(t)) /\ conv.unread = [s \in Sides |-> 0]

\* The number of SMS is what the conversation says it is.
OneSms ==
    /\ announced["stylist"] + due["stylist"] + unsent["stylist"] <= 1
    /\ conv.last = 0 => announced["stylist"] + due["stylist"] + unsent["stylist"] = 0
    /\ announced["customer"] + due["customer"] + unsent["customer"] = IF conv.replied THEN 1 ELSE 0

\* Sendings and readings that take turns.
TakeTurns ==
    /\ Sending # {} => Reading = {}
    /\ \A t, u \in Sending : t = u

InStep ==
    calm =>
        /\ TakeTurns
        /\ Pending = {} => conv.last = Len(thread)
        /\ \A t \in Pending : talk[t].message = Len(thread)
        /\ \A s \in Sides :
              conv.unread[s] = 0 /\ (\A t \in Pending : talk[t].side = s) => Seen(s)
        /\ \A t \in Talks : \A s \in Sides : Doing(t, "reset") /\ talk[t].side = s => Seen(s)

ChatInv == ChatTypeOK /\ NoGaps /\ Listening /\ Numbered /\ NotOpen /\ OneSms /\ InStep

\* The other side of a conversation is the other one.
LEMMA OtherSide == \A s \in Sides : Other(s) \in Sides /\ Other(Other(s)) = s /\ Other(s) # s
  BY DEF Sides, Other

\* The conversation begins with the invariant; the lemmas below show that every
\* action keeps it, one lemma per action of chat.service.ts.
LEMMA ChatBegins ==
  ASSUME ChatInit
  PROVE  ChatInv
  <1>1. ChatTypeOK
    BY ConversationAssumption DEF ChatInit, ChatTypeOK, NoConv
  <1>2. \A t \in Talks : talk[t].step = "idle"
    BY DEF ChatInit, NoTalk
  <1>3. Pending = {} /\ Sending = {} /\ Reading = {} /\ Len(thread) = 0
    BY <1>2 DEF Pending, Sending, Reading, Doing, ChatInit
  <1>4. NoGaps /\ Listening /\ Numbered /\ NotOpen
    BY <1>2, <1>3 DEF NoGaps, Listening, Numbered, NotOpen, ChatInit, NoConv, Doing, Quiet
  <1>5. OneSms
    BY DEF OneSms, ChatInit, NoConv, Sides
  <1>6. InStep
    BY <1>2, <1>3 DEF InStep, TakeTurns, Seen, From, ChatInit, NoConv, Doing
  <1>7. QED
    BY <1>1, <1>4, <1>5, <1>6 DEF ChatInv

\* The records of the calls.
LEMMA TalkTypes ==
  ASSUME ChatTypeOK, NEW t \in Talks
  PROVE  /\ Doing(t, "send") \/ Doing(t, "update") \/ Doing(t, "again") => talk[t] \in Sends
         /\ Doing(t, "list") => talk[t] \in Lists
         /\ Doing(t, "reset") => talk[t] \in Resets
         /\ ~Quiet(t) => talk[t].side \in Sides
         /\ Quiet(t) \/ t \in Sending \/ t \in Reading
  BY DEF ChatTypeOK, Doing, Quiet, NoTalk, Sends, Lists, Resets, Sending, Reading

\* How many SMS there are is a number.
LEMMA SmsTypes ==
  ASSUME ChatTypeOK
  PROVE  \A s \in Sides : announced[s] \in Nat /\ due[s] \in Nat /\ unsent[s] \in Nat
  BY DEF ChatTypeOK

\* An SMS is sent or lost, and that was all its call had to do.
LEMMA SmsStep ==
  ASSUME ChatInv, NEW s \in Sides, SendSms(s) \/ LoseSms(s)
  PROVE  ChatInv'
  <1> USE DEF ChatInv
  <1>1. UNCHANGED <<thread, conv, shown, talk, calm>> /\ due[s] > 0 /\ due' = [due EXCEPT ![s] = due[s] - 1]
    BY DEF SendSms, LoseSms
  <1>2. /\ announced' \in [Sides -> Nat] /\ unsent' \in [Sides -> Nat] /\ due' \in [Sides -> Nat]
        /\ \A x \in Sides : announced'[x] + due'[x] + unsent'[x] = announced[x] + due[x] + unsent[x]
    <2>1. announced \in [Sides -> Nat] /\ unsent \in [Sides -> Nat] /\ due \in [Sides -> Nat]
      BY DEF ChatTypeOK
    <2>2. CASE SendSms(s)
      BY <1>1, <2>1, <2>2 DEF SendSms
    <2>3. CASE LoseSms(s)
      BY <1>1, <2>1, <2>3 DEF LoseSms
    <2>4. QED
      BY <2>2, <2>3
  <1>3. ChatTypeOK' /\ OneSms'
    BY <1>1, <1>2 DEF ChatTypeOK, OneSms, Sides
  <1>4. Pending' = Pending /\ Sending' = Sending /\ Reading' = Reading
    BY <1>1 DEF Pending, Sending, Reading, Doing
  <1>5. \A x \in Sides : Seen(x)' = Seen(x)
    BY <1>1 DEF Seen, From
  <1>6. NoGaps' /\ Listening' /\ Numbered' /\ NotOpen'
    BY <1>1, <1>4 DEF NoGaps, Listening, Numbered, NotOpen, Doing, Quiet
  <1>7. calm => \A t \in Talks : \A x \in Sides : Doing(t, "reset")' /\ talk'[t].side = x => Seen(x)'
    BY <1>1, <1>5, TalkTypes DEF InStep, Doing, Quiet
  <1>8. InStep'
    BY <1>1, <1>4, <1>5, <1>7 DEF InStep, TakeTurns
  <1>9. QED
    BY <1>3, <1>6, <1>8

LEMMA OpenStep ==
  ASSUME ChatInv, GetOrCreateConversation
  PROVE  ChatInv'
  <1> USE DEF ChatInv, GetOrCreateConversation
  <1>1. conv' = [conv EXCEPT !.open = TRUE] /\ UNCHANGED <<thread, announced, due, unsent, shown, talk, calm>>
    OBVIOUS
  <1>2. ChatTypeOK'
    BY <1>1 DEF ChatTypeOK
  <1>3. conv'.open /\ conv'.last = conv.last /\ conv'.replied = conv.replied /\ conv'.unread = conv.unread
    BY <1>1 DEF ChatTypeOK
  <1>4. Pending' = Pending /\ Sending' = Sending /\ Reading' = Reading
    BY <1>1 DEF Pending, Sending, Reading, Doing
  <1>5. \A s \in Sides : Seen(s)' = Seen(s)
    BY <1>1 DEF Seen, From
  <1>6. NoGaps' /\ Listening' /\ Numbered' /\ NotOpen' /\ OneSms'
    BY <1>1, <1>3, <1>4 DEF NoGaps, Listening, Numbered, NotOpen, OneSms, Doing
  <1>7. ASSUME calm
        PROVE  /\ TakeTurns'
               /\ Pending' = {} => conv'.last = Len(thread')
               /\ \A t \in Pending' : talk'[t].message = Len(thread')
               /\ \A s \in Sides :
                     conv'.unread[s] = 0 /\ (\A t \in Pending' : talk'[t].side = s) => Seen(s)'
    BY <1>1, <1>3, <1>4, <1>5, <1>7 DEF InStep, TakeTurns
  <1>8. ASSUME calm
        PROVE  \A t \in Talks : \A s \in Sides : Doing(t, "reset")' /\ talk'[t].side = s => Seen(s)'
    BY <1>1, <1>5, <1>8, TalkTypes DEF InStep, Doing, Quiet
  <1>9. InStep'
    BY <1>1, <1>7, <1>8 DEF InStep
  <1>10. QED
    BY <1>2, <1>6, <1>9

LEMMA ReadToSendStep ==
  ASSUME ChatInv, NEW t \in Talks, NEW s \in Sides, ReadToSend(t, s)
  PROVE  ChatInv'
  <1> USE DEF ChatInv
  <1>1. PICK r \in Sends : r.step = "send" /\ talk' = [talk EXCEPT ![t] = r]
    <2>1. PICK fst \in BOOLEAN : fst = IF s = "customer" THEN conv.last = 0 ELSE ~conv.replied
      BY DEF ChatTypeOK
    <2>2. [step |-> "send", side |-> s, message |-> 0, first |-> fst] \in Sends
      BY ConversationAssumption DEF Sends
    <2>3. QED
      BY <2>1, <2>2 DEF ReadToSend
  <1>2. Quiet(t) /\ conv.open /\ calm' = (calm /\ Sending = {} /\ Reading = {}) /\ UNCHANGED <<thread, conv, announced, due, unsent, shown>>
    BY DEF ReadToSend
  <1>3. talk'[t] = r /\ \A u \in Talks : u # t => talk'[u] = talk[u]
    BY <1>1 DEF ChatTypeOK
  <1>4. ChatTypeOK'
    BY <1>1, <1>2 DEF ChatTypeOK
  <1>5. Pending' = Pending /\ Sending' = Sending \cup {t} /\ Reading' = Reading /\ t \notin Pending
    BY <1>1, <1>2, <1>3 DEF Pending, Sending, Reading, Doing, Quiet
  <1>6. NoGaps' /\ OneSms' /\ NotOpen'
    BY <1>2 DEF NoGaps, OneSms, NotOpen
  <1>7. Listening' /\ Numbered'
    BY <1>1, <1>2, <1>3, <1>5 DEF Listening, Numbered, Doing, Pending
  <1>8. InStep'
    <2>1. SUFFICES ASSUME calm, Sending = {}, Reading = {}
                   PROVE  InStep'
      BY <1>2 DEF InStep
    <2>2. Sending' = {t} /\ Reading' = {} /\ Pending = {}
      BY <1>5, <2>1 DEF Pending, Sending
    <2>3. \A x \in Sides : Seen(x)' = Seen(x)
      BY <1>2 DEF Seen, From
    <2>4. \A u \in Talks : ~Doing(u, "reset")'
      BY <2>2 DEF Reading
    <2>5. QED
      BY <1>2, <1>5, <2>1, <2>2, <2>3, <2>4 DEF InStep, TakeTurns
  <1>9. QED
    BY <1>4, <1>6, <1>7, <1>8

LEMMA CreateMessageStep ==
  ASSUME ChatInv, NEW t \in Talks, CreateMessage(t)
  PROVE  ChatInv'
  <1> USE DEF ChatInv
  <1>1. PICK r \in Sends : r = talk[t] /\ r.step = "send"
    BY TalkTypes DEF CreateMessage, Doing
  <1>2. PICK n \in Nat : n = Len(thread) /\ n + 1 <= MaxMessages /\ n < n + 1 /\ n + 1 \in 1..MaxMessages
    <2>1. Len(thread) \in Nat /\ Len(thread) + 1 <= MaxMessages /\ MaxMessages \in Nat
      BY ConversationAssumption DEF CreateMessage, ChatTypeOK
    <2>2. QED
      BY <2>1
  <1>3. PICK q \in Sends : q = [r EXCEPT !.step = "update", !.message = n + 1]
    <2>1. r \in [step : {"send", "update", "again"}, side : Sides, message : 0..MaxMessages, first : BOOLEAN]
          /\ n + 1 \in 0..MaxMessages
      BY <1>2 DEF Sends
    <2>2. [r EXCEPT !.step = "update", !.message = n + 1] \in Sends
      BY <2>1 DEF Sends
    <2>3. QED
      BY <2>2
  <1>4. q.step = "update" /\ q.message = n + 1 /\ q.side = r.side /\ r.side \in Sides
    BY <1>1, <1>3 DEF Sends
  <1>5. thread' = Append(thread, r.side) /\ talk' = [talk EXCEPT ![t] = q] /\ UNCHANGED <<conv, announced, due, unsent, shown, calm>>
    BY <1>1, <1>2, <1>3 DEF CreateMessage
  <1>6. talk'[t] = q /\ \A u \in Talks : u # t => talk'[u] = talk[u]
    BY <1>5 DEF ChatTypeOK
  <1>7. /\ Len(thread') = n + 1 /\ thread'[n + 1] = r.side
        /\ \A m \in 1..n : thread'[m] = thread[m]
    BY <1>2, <1>4, <1>5 DEF ChatTypeOK
  <1>8. ChatTypeOK'
    BY <1>2, <1>4, <1>5, <1>7 DEF ChatTypeOK
  <1>9. Pending' = Pending \cup {t} /\ Sending' = Sending /\ Reading' = Reading /\ t \in Sending /\ t \notin Pending
    BY <1>1, <1>4, <1>6 DEF Pending, Sending, Reading, Doing
  <1>10. NoGaps'
    <2>1. SUFFICES ASSUME NEW x \in Sides
                   PROVE  /\ shown[x] \subseteq 1..Len(thread')
                          /\ \A a \in shown[x] : \A m \in 1..a : m > Len(thread') - PageSize => m \in shown[x]
      BY <1>5 DEF NoGaps
    <2>2. shown[x] \subseteq 1..n /\ \A a \in shown[x] : \A m \in 1..a : m > n - PageSize => m \in shown[x]
      BY <1>2 DEF NoGaps
    <2>3. QED
      BY <1>2, <1>7, <2>2, ConversationAssumption
  <1>11. OneSms' /\ NotOpen' /\ Listening'
    <2>1. OneSms'
      BY <1>5 DEF OneSms
    <2>2. conv.open
      BY <1>1 DEF NotOpen, Quiet, Doing
    <2>3. Listening'
      BY <1>4, <1>5, <1>6 DEF Listening, Doing
    <2>4. QED
      BY <1>5, <2>1, <2>2, <2>3 DEF NotOpen
  <1>12. Numbered'
    <2>1. \A u \in Pending : u # t /\ talk'[u] = talk[u] /\ talk[u].message \in 1..n
      BY <1>2, <1>6, <1>9 DEF Numbered, Pending
    <2>2. QED
      BY <1>2, <1>4, <1>6, <1>7, <1>9, <2>1 DEF Numbered
  <1>13. InStep'
    <2>1. SUFFICES ASSUME calm
                   PROVE  InStep'
      BY <1>5 DEF InStep
    <2>2. Sending = {t} /\ Pending = {} /\ Reading = {} /\ Pending' = {t}
      BY <1>9, <2>1 DEF InStep, TakeTurns, Pending, Sending
    <2>3. \A u \in Talks : ~Doing(u, "reset")'
      BY <1>9, <2>2 DEF Reading
    <2>4. ASSUME NEW x \in Sides, conv.unread[x] = 0, r.side = x
          PROVE  Seen(x)'
      <3>1. Seen(x)
        BY <2>1, <2>2, <2>4 DEF InStep
      <3>2. SUFFICES ASSUME NEW m \in 1..n + 1, thread'[m] = Other(x), m > n + 1 - PageSize
                     PROVE  m \in shown[x]
        BY <1>2, <1>5, <1>7, ConversationAssumption DEF Seen, From, Other
      <3>3. m # n + 1
        BY <1>7, <2>4, <3>2, OtherSide
      <3>4. m \in 1..n /\ thread[m] = Other(x) /\ m > n - PageSize
        BY <1>2, <1>7, <3>2, <3>3, ConversationAssumption
      <3>5. QED
        BY <1>2, <3>1, <3>4 DEF Seen, From
    <2>5. QED
      BY <1>4, <1>5, <1>6, <1>7, <1>9, <2>1, <2>2, <2>3, <2>4 DEF InStep, TakeTurns
  <1>14. QED
    BY <1>8, <1>10, <1>11, <1>12, <1>13

\* A call ends; what else changes is said by the other hypotheses.
LEMMA CallEnds ==
  ASSUME ChatTypeOK, NEW t \in Talks, talk' = [talk EXCEPT ![t] = NoTalk]
  PROVE  /\ talk' \in [Talks -> {NoTalk} \cup Sends \cup Lists \cup Resets]
         /\ talk'[t] = NoTalk /\ NoTalk.step = "idle"
         /\ \A u \in Talks : u # t => talk'[u] = talk[u]
         /\ Pending' = Pending \ {t} /\ Sending' = Sending \ {t} /\ Reading' = Reading \ {t}
  <1>1. /\ talk' \in [Talks -> {NoTalk} \cup Sends \cup Lists \cup Resets]
        /\ talk'[t] = NoTalk /\ NoTalk.step = "idle"
        /\ \A u \in Talks : u # t => talk'[u] = talk[u]
    BY DEF ChatTypeOK, NoTalk
  <1>2. QED
    BY <1>1 DEF Pending, Sending, Reading, Doing

\* The message gets into the conversation, and the call ends.
LEMMA MessageLands ==
  ASSUME ChatInv, NEW t \in Pending, talk' = [talk EXCEPT ![t] = NoTalk],
         NEW o \in Sides, o = Other(talk[t].side),
         conv'.open = conv.open, conv'.last = talk[t].message, conv'.unread = [conv.unread EXCEPT ![o] = @ + 1],
         UNCHANGED <<thread, shown, calm>>
  PROVE  NoGaps' /\ Listening' /\ Numbered' /\ NotOpen' /\ InStep' /\ conv'.last # 0
  <1> USE DEF ChatInv
  <1>1. t \in Talks /\ talk[t] \in Sends /\ ~Quiet(t) /\ t \in Sending /\ talk[t].side \in Sides
    BY TalkTypes DEF Pending, Sending, Doing, Quiet
  <1>2. /\ talk'[t] = NoTalk /\ NoTalk.step = "idle"
        /\ \A u \in Talks : u # t => talk'[u] = talk[u]
        /\ Pending' = Pending \ {t} /\ Sending' = Sending \ {t} /\ Reading' = Reading \ {t}
    BY <1>1, CallEnds
  <1>3. talk[t].message \in 1..Len(thread) /\ Len(thread) \in Nat
    BY DEF Numbered, ChatTypeOK
  <1>4. conv.open /\ conv.unread \in [Sides -> Nat]
    BY <1>1 DEF NotOpen, ChatTypeOK
  <1>5. NoGaps' /\ NotOpen'
    BY <1>4 DEF NoGaps, NotOpen
  <1>6. Listening' /\ Numbered'
    <2>1. Numbered'
      BY <1>1, <1>2 DEF Numbered, Pending
    <2>2. Listening'
      BY <1>2 DEF Listening, Doing
    <2>3. QED
      BY <2>1, <2>2
  <1>7. InStep'
    <2>1. SUFFICES ASSUME calm
                   PROVE  InStep'
      BY DEF InStep
    <2>2. Sending' = {} /\ Pending' = {} /\ Pending = {t} /\ Reading' = {}
      BY <1>1, <1>2, <2>1 DEF InStep, TakeTurns, Pending, Sending
    <2>3. conv'.last = Len(thread')
      BY <2>1 DEF InStep
    <2>4. ASSUME NEW x \in Sides, conv'.unread[x] = 0
          PROVE  Seen(x)'
      <3>1. x # o
        BY <1>4, <2>4
      <3>2. x = talk[t].side /\ conv.unread[x] = 0
        BY <1>1, <1>4, <2>4, <3>1 DEF Sides, Other
      <3>3. Seen(x)
        BY <2>1, <2>2, <3>2 DEF InStep
      <3>4. QED
        BY <3>3 DEF Seen, From, Other
    <2>5. \A u \in Talks : ~Doing(u, "reset")'
      BY <2>2 DEF Reading
    <2>6. QED
      BY <2>2, <2>3, <2>4, <2>5 DEF InStep, TakeTurns
  <1>8. QED
    BY <1>3, <1>5, <1>6, <1>7

LEMMA UpdateFirstStep ==
  ASSUME ChatInv, NEW t \in Talks, UpdateFirst(t)
  PROVE  ChatInv'
  <1> USE DEF ChatInv
  <1>1. PICK r \in Sends : r = talk[t] /\ r.step = "update" /\ r.first
    BY TalkTypes DEF UpdateFirst, Doing
  <1>2. r \in [step : {"send", "update", "again"}, side : Sides, message : 0..MaxMessages, first : BOOLEAN]
    BY DEF Sends
  <1>3. t \in Pending /\ t \in Sending
    BY <1>1 DEF Pending, Sending, Doing
  <1>4. UNCHANGED <<thread, shown, calm>>
    BY DEF UpdateFirst
  <1>5. FirstReply(t) \in BOOLEAN /\ (FirstReply(t) <=> r.side = "stylist") /\ (FirstMessage(t) <=> r.side = "customer")
    BY <1>1, <1>2 DEF FirstReply, FirstMessage
  <1>6. CASE IF FirstMessage(t) THEN conv.last = 0 ELSE ~conv.replied
    <2>1. /\ conv' = [WithMessage(t, conv) EXCEPT !.replied = conv.replied \/ FirstReply(t)]
          /\ Announce(t) /\ talk' = [talk EXCEPT ![t] = NoTalk]
      <3>1. WithMessage(t, conv).replied = conv.replied
        BY DEF WithMessage, ChatTypeOK
      <3>2. QED
        BY <1>6, <3>1 DEF UpdateFirst, Stop
    <2>2. PICK o \in Sides : o = Other(r.side) /\ o # r.side
      BY <1>2, OtherSide
    <2>3. /\ conv' \in [open : BOOLEAN, last : 0..MaxMessages, by : Sides \cup {"nobody"}, replied : BOOLEAN,
                 unread : [Sides -> Nat]]
          /\ conv'.open = conv.open /\ conv'.last = r.message /\ conv'.unread = [conv.unread EXCEPT ![o] = @ + 1]
          /\ conv'.replied = (conv.replied \/ FirstReply(t))
      <3>1. [conv.unread EXCEPT ![o] = @ + 1] \in [Sides -> Nat]
        BY DEF ChatTypeOK
      <3>2. WithMessage(t, conv) = [conv EXCEPT !.last = r.message, !.by = r.side, !.unread = [conv.unread EXCEPT ![o] = @ + 1]]
        BY <1>1, <2>2 DEF WithMessage, ChatTypeOK
      <3>3. /\ WithMessage(t, conv) \in [open : BOOLEAN, last : 0..MaxMessages, by : Sides \cup {"nobody"}, replied : BOOLEAN,
                 unread : [Sides -> Nat]]
            /\ WithMessage(t, conv).open = conv.open /\ WithMessage(t, conv).last = r.message
            /\ WithMessage(t, conv).unread = [conv.unread EXCEPT ![o] = @ + 1]
        BY <1>2, <3>1, <3>2 DEF ChatTypeOK
      <3>4. (conv.replied \/ FirstReply(t)) \in BOOLEAN
        OBVIOUS
      <3>5. QED
        BY <2>1, <3>3, <3>4
    <2>4. NoGaps' /\ Listening' /\ Numbered' /\ NotOpen' /\ InStep' /\ conv'.last # 0
      <3>1. /\ t \in Pending /\ talk' = [talk EXCEPT ![t] = NoTalk]
            /\ o = Other(talk[t].side) /\ UNCHANGED <<thread, shown, calm>>
            /\ conv'.open = conv.open /\ conv'.last = talk[t].message
            /\ conv'.unread = [conv.unread EXCEPT ![o] = @ + 1]
        BY <1>1, <1>3, <1>4, <2>1, <2>2, <2>3
      <3>2. QED
        BY <3>1, MessageLands
    <2>5. due' = [due EXCEPT ![o] = @ + 1] /\ UNCHANGED <<announced, unsent>>
      BY <1>1, <2>1, <2>2 DEF Announce, UpdateFirst
    <2>6. ChatTypeOK'
      <3>1. due' \in [Sides -> Nat]
        BY <2>5 DEF ChatTypeOK
      <3>2. talk' \in [Talks -> {NoTalk} \cup Sends \cup Lists \cup Resets]
        BY <2>1, CallEnds
      <3>3. QED
        BY <1>4, <2>3, <2>5, <3>1, <3>2 DEF ChatTypeOK
    <2>7. OneSms'
      <3>1. CASE r.side = "customer"
        <4>1. o = "stylist" /\ conv.last = 0 /\ conv'.replied = conv.replied
          BY <1>2, <1>5, <1>6, <2>2, <2>3, <3>1 DEF Other, ChatTypeOK
        <4>2. due'["stylist"] = due["stylist"] + 1 /\ due'["customer"] = due["customer"]
          BY <2>5, <4>1 DEF ChatTypeOK, Sides
        <4>3. QED
          BY <2>4, <2>5, <4>1, <4>2, SmsTypes DEF OneSms
      <3>2. CASE r.side = "stylist"
        <4>1. o = "customer" /\ ~conv.replied /\ conv'.replied
          BY <1>2, <1>5, <1>6, <2>2, <2>3, <3>2 DEF Other
        <4>2. due'["customer"] = due["customer"] + 1 /\ due'["stylist"] = due["stylist"]
          BY <2>5, <4>1 DEF ChatTypeOK, Sides
        <4>3. QED
          BY <2>4, <2>5, <4>1, <4>2, SmsTypes DEF OneSms
      <3>3. QED
        BY <1>2, <3>1, <3>2 DEF Sides
    <2>8. QED
      BY <2>4, <2>6, <2>7
  <1>7. CASE ~(IF FirstMessage(t) THEN conv.last = 0 ELSE ~conv.replied)
    <2>1. PICK q \in Sends : q = [r EXCEPT !.step = "again"]
      <3>1. [r EXCEPT !.step = "again"] \in Sends
        BY <1>2 DEF Sends
      <3>2. QED
        BY <3>1
    <2>2. q.step = "again" /\ q.side = r.side /\ q.message = r.message
      BY <1>2, <2>1
    <2>3. talk' = [talk EXCEPT ![t] = q] /\ UNCHANGED <<conv, announced, due, unsent>>
      BY <1>1, <1>7, <2>1 DEF UpdateFirst
    <2>4. talk'[t] = q /\ \A u \in Talks : u # t => talk'[u] = talk[u]
      BY <2>3 DEF ChatTypeOK
    <2>5. ChatTypeOK'
      BY <1>4, <2>3 DEF ChatTypeOK
    <2>6. Pending' = Pending /\ Sending' = Sending /\ Reading' = Reading
      BY <1>1, <2>2, <2>4 DEF Pending, Sending, Reading, Doing
    <2>7. \A u \in Talks : talk'[u].message = talk[u].message /\ talk'[u].side = talk[u].side
      BY <1>1, <2>2, <2>4
    <2>8. NoGaps' /\ OneSms' /\ Numbered' /\ Listening'
      BY <1>4, <2>2, <2>3, <2>4, <2>6, <2>7 DEF NoGaps, OneSms, Numbered, Listening, Pending, Doing
    <2>9. NotOpen'
      BY <1>1, <2>3 DEF NotOpen, Quiet, Doing
    <2>10. \A x \in Sides : Seen(x)' = Seen(x)
      BY <1>4 DEF Seen, From
    <2>11. InStep'
      <3>1. \A u \in Talks : Doing(u, "reset")' => Doing(u, "reset") /\ u # t
        BY <1>1, <2>2, <2>4 DEF Doing
      <3>2. calm => \A u \in Talks : \A x \in Sides : Doing(u, "reset")' /\ talk'[u].side = x => Seen(x)'
        BY <2>7, <2>10, <3>1, TalkTypes DEF InStep, Doing, Quiet
      <3>3. QED
        BY <1>4, <2>3, <2>6, <2>7, <2>10, <3>2 DEF InStep, TakeTurns, Pending
    <2>12. QED
      BY <2>5, <2>8, <2>9, <2>11
  <1>8. QED
    BY <1>6, <1>7

LEMMA UpdateLaterStep ==
  ASSUME ChatInv, NEW t \in Talks, UpdateLater(t)
  PROVE  ChatInv'
  <1> USE DEF ChatInv
  <1>1. PICK r \in Sends : r = talk[t]
    BY TalkTypes DEF UpdateLater, Doing
  <1>2. r \in [step : {"send", "update", "again"}, side : Sides, message : 0..MaxMessages, first : BOOLEAN]
    BY DEF Sends
  <1>3. t \in Pending
    BY DEF Pending, UpdateLater
  <1>4. conv' = WithMessage(t, conv) /\ talk' = [talk EXCEPT ![t] = NoTalk] /\ UNCHANGED <<thread, announced, due, unsent, shown, calm>>
    BY DEF UpdateLater, Stop
  <1>5. PICK o \in Sides : o = Other(r.side) /\ o # r.side
    BY <1>2, OtherSide
  <1>6. /\ conv' \in [open : BOOLEAN, last : 0..MaxMessages, by : Sides \cup {"nobody"}, replied : BOOLEAN,
               unread : [Sides -> Nat]]
        /\ conv'.open = conv.open /\ conv'.last = r.message /\ conv'.unread = [conv.unread EXCEPT ![o] = @ + 1]
        /\ conv'.replied = conv.replied
    <2>1. [conv.unread EXCEPT ![o] = @ + 1] \in [Sides -> Nat]
      BY DEF ChatTypeOK
    <2>2. conv' = [conv EXCEPT !.last = r.message, !.by = r.side, !.unread = [conv.unread EXCEPT ![o] = @ + 1]]
      BY <1>1, <1>4, <1>5 DEF WithMessage, ChatTypeOK
    <2>3. QED
      BY <1>2, <2>1, <2>2 DEF ChatTypeOK
  <1>7. NoGaps' /\ Listening' /\ Numbered' /\ NotOpen' /\ InStep' /\ conv'.last # 0
    <2>1. /\ t \in Pending /\ talk' = [talk EXCEPT ![t] = NoTalk]
          /\ o = Other(talk[t].side) /\ UNCHANGED <<thread, shown, calm>>
          /\ conv'.open = conv.open /\ conv'.last = talk[t].message
          /\ conv'.unread = [conv.unread EXCEPT ![o] = @ + 1]
      BY <1>1, <1>3, <1>4, <1>5, <1>6
    <2>2. QED
      BY <2>1, MessageLands
  <1>8. ChatTypeOK' /\ OneSms'
    BY <1>4, <1>6, <1>7, CallEnds DEF ChatTypeOK, OneSms
  <1>9. QED
    BY <1>7, <1>8

LEMMA ReadToListStep ==
  ASSUME ChatInv, NEW t \in Talks, NEW s \in Sides, ReadToList(t, s)
  PROVE  ChatInv'
  <1> USE DEF ChatInv
  <1>1. PICK a \in {0} \cup shown[s] :
           talk' = [talk EXCEPT ![t] = [step |-> "list", side |-> s, behind |-> conv.unread[s] > 0, after |-> a]]
    BY DEF ReadToList
  <1>2. PICK r \in Lists : r.step = "list" /\ r.side = s /\ r.after = a /\ talk' = [talk EXCEPT ![t] = r]
    <2>1. PICK new \in BOOLEAN : new = (conv.unread[s] > 0)
      <3>1. (conv.unread[s] > 0) \in BOOLEAN
        OBVIOUS
      <3>2. QED
        BY <3>1, Zenon
    <2>2. a \in 0..MaxMessages
      <3>1. shown[s] \in SUBSET (1..MaxMessages) /\ MaxMessages \in Nat
        BY ConversationAssumption DEF ChatTypeOK
      <3>2. QED
        BY <3>1
    <2>3. [step |-> "list", side |-> s, behind |-> new, after |-> a] \in Lists
      BY <2>2 DEF Lists
    <2>4. QED
      BY <1>1, <2>1, <2>3
  <1>3. Quiet(t) /\ conv.open /\ calm' = (calm /\ Sending = {}) /\ UNCHANGED <<thread, conv, announced, due, unsent, shown>>
    BY DEF ReadToList
  <1>4. talk'[t] = r /\ \A u \in Talks : u # t => talk'[u] = talk[u]
    BY <1>2 DEF ChatTypeOK
  <1>5. ChatTypeOK'
    BY <1>2, <1>3 DEF ChatTypeOK
  <1>6. Pending' = Pending /\ Sending' = Sending /\ t \notin Pending
    BY <1>2, <1>3, <1>4 DEF Pending, Sending, Doing, Quiet
  <1>7. NoGaps' /\ OneSms' /\ NotOpen'
    BY <1>3 DEF NoGaps, OneSms, NotOpen
  <1>8. Listening' /\ Numbered'
    <2>1. Numbered'
      BY <1>3, <1>4, <1>6 DEF Numbered, Pending
    <2>2. Listening'
      BY <1>2, <1>3, <1>4 DEF Listening, Doing
    <2>3. QED
      BY <2>1, <2>2
  <1>9. InStep'
    <2>1. SUFFICES ASSUME calm, Sending = {}
                   PROVE  InStep'
      BY <1>3 DEF InStep
    <2>2. Pending = {}
      BY <2>1 DEF Pending, Sending
    <2>3. \A x \in Sides : Seen(x)' = Seen(x)
      BY <1>3 DEF Seen, From
    <2>4. \A u \in Talks : Doing(u, "reset")' => Doing(u, "reset") /\ u # t
      BY <1>2, <1>4 DEF Doing
    <2>5. \A u \in Talks : \A x \in Sides : Doing(u, "reset")' /\ talk'[u].side = x => Seen(x)'
      BY <1>4, <2>1, <2>3, <2>4, TalkTypes DEF InStep, Doing, Quiet
    <2>6. QED
      BY <1>3, <1>6, <2>1, <2>2, <2>3, <2>5 DEF InStep, TakeTurns
  <1>10. QED
    BY <1>5, <1>7, <1>8, <1>9

\* What a page adds to what was shown leaves no gap, and unless it was too short nothing is left
\* that a page reaches back to.
LEMMA PageFollows ==
  ASSUME ChatTypeOK, NoGaps, NEW s \in Sides, NEW after \in {0} \cup shown[s]
  PROVE  /\ Page(after) \subseteq 1..Len(thread) /\ after \in Nat
         /\ \A a \in shown[s] \cup Page(after) : \A m \in 1..a :
               m > Len(thread) - PageSize => m \in shown[s] \cup Page(after)
         /\ after = 0 \/ Len(thread) <= after + PageSize =>
               \A m \in 1..Len(thread) : m > Len(thread) - PageSize => m \in shown[s] \cup Page(after)
  <1>1. /\ Len(thread) \in Nat /\ shown[s] \subseteq 1..Len(thread) /\ after \in Nat /\ PageSize \in Nat
        /\ \A a \in shown[s] : \A m \in 1..a : m > Len(thread) - PageSize => m \in shown[s]
    BY ConversationAssumption DEF ChatTypeOK, NoGaps
  <1>2. CASE after = 0
    BY <1>1, <1>2 DEF Page
  <1>3. CASE after # 0
    <2>1. after \in shown[s] /\ Page(after) = {m \in 1..Len(thread) : m > after /\ m <= after + PageSize}
      BY <1>3 DEF Page
    <2>2. ASSUME NEW m \in 1..Len(thread), m > Len(thread) - PageSize, m <= after + PageSize
          PROVE  m \in shown[s] \cup Page(after)
      <3>1. CASE m <= after
        <4>1. m \in 1..after
          BY <1>1, <3>1
        <4>2. QED
          BY <1>1, <2>1, <2>2, <4>1
      <3>2. CASE m > after
        BY <2>1, <2>2, <3>2
      <3>3. QED
        BY <1>1, <3>1, <3>2
    <2>3. ASSUME NEW a \in shown[s] \cup Page(after), NEW m \in 1..a, m > Len(thread) - PageSize
          PROVE  m \in shown[s] \cup Page(after)
      <3>1. CASE a \in shown[s]
        BY <1>1, <2>3, <3>1
      <3>2. CASE a \in Page(after)
        <4>1. m \in 1..Len(thread) /\ m <= after + PageSize
          BY <1>1, <2>1, <3>2
        <4>2. QED
          BY <2>2, <2>3, <4>1
      <3>3. QED
        BY <2>3, <3>1, <3>2
    <2>4. ASSUME Len(thread) <= after + PageSize, NEW m \in 1..Len(thread), m > Len(thread) - PageSize
          PROVE  m \in shown[s] \cup Page(after)
      <3>1. m <= after + PageSize
        BY <1>1, <2>4
      <3>2. QED
        BY <2>2, <2>4, <3>1
    <2>5. QED
      BY <1>1, <1>3, <2>1, <2>3, <2>4
  <1>4. QED
    BY <1>2, <1>3

LEMMA ListMessagesStep ==
  ASSUME ChatInv, NEW t \in Talks, ListMessages(t)
  PROVE  ChatInv'
  <1> USE DEF ChatInv
  <1>1. PICK r \in Lists : r = talk[t] /\ r.step = "list"
    BY TalkTypes DEF ListMessages, Doing
  <1>2. PICK s \in Sides : s = r.side
    BY DEF Lists
  <1>3. PICK after : after = r.after
    OBVIOUS
  <1>4. after \in {0} \cup shown[s]
    BY <1>1, <1>2, <1>3 DEF Listening, Doing
  <1>5. PICK page : page = Page(after)
    OBVIOUS
  <1>6. /\ shown' = [shown EXCEPT ![s] = @ \cup page]
        /\ calm' = (calm /\ (after = 0 \/ Len(thread) <= after + PageSize))
        /\ UNCHANGED <<thread, conv, announced, due, unsent>>
    BY <1>1, <1>2, <1>3, <1>5 DEF ListMessages
  <1>7. /\ page \subseteq 1..Len(thread)
        /\ \A a \in shown[s] \cup page : \A m \in 1..a : m > Len(thread) - PageSize => m \in shown[s] \cup page
        /\ after = 0 \/ Len(thread) <= after + PageSize =>
               \A m \in 1..Len(thread) : m > Len(thread) - PageSize => m \in shown[s] \cup page
    BY <1>4, <1>5, PageFollows
  <1>8. PICK q \in {NoTalk} \cup Resets :
           /\ talk' = [talk EXCEPT ![t] = q]
           /\ q.step \in {"idle", "reset"} /\ (q.step = "reset" => q.side = s)
    <2>1. [step |-> "reset", side |-> s] \in Resets
      BY DEF Resets
    <2>2. talk' = [talk EXCEPT ![t] = [step |-> "reset", side |-> s]] \/ talk' = [talk EXCEPT ![t] = NoTalk]
      BY <1>1, <1>2 DEF ListMessages, Stop
    <2>3. QED
      BY <2>1, <2>2 DEF NoTalk
  <1>9. talk'[t] = q /\ \A u \in Talks : u # t => talk'[u] = talk[u]
    BY <1>8 DEF ChatTypeOK
  <1>10. /\ shown'[s] = shown[s] \cup page
         /\ \A x \in Sides : shown[x] \subseteq shown'[x] /\ (x # s => shown'[x] = shown[x])
    BY <1>6 DEF ChatTypeOK
  <1>11. ChatTypeOK'
    <2>1. page \in SUBSET (1..MaxMessages)
      BY <1>7, ConversationAssumption DEF ChatTypeOK
    <2>2. QED
      BY <1>6, <1>8, <2>1 DEF ChatTypeOK
  <1>12. Pending' = Pending /\ Sending' = Sending /\ Reading' \in SUBSET Reading
    BY <1>1, <1>8, <1>9 DEF Pending, Sending, Reading, Doing
  <1>13. NoGaps'
    BY <1>6, <1>7, <1>10 DEF NoGaps
  <1>14. OneSms' /\ NotOpen'
    BY <1>1, <1>6 DEF OneSms, NotOpen, Quiet, Doing
  <1>15. Listening' /\ Numbered'
    <2>1. Numbered'
      BY <1>1, <1>6, <1>9, <1>12 DEF Numbered, Pending, Doing
    <2>2. Listening'
      BY <1>8, <1>9, <1>10, TalkTypes DEF Listening, Doing, Quiet
    <2>3. QED
      BY <2>1, <2>2
  <1>16. InStep'
    <2>1. SUFFICES ASSUME calm, after = 0 \/ Len(thread) <= after + PageSize
                   PROVE  InStep'
      BY <1>6 DEF InStep
    <2>2. t \in Reading
      BY <1>1 DEF Reading, Doing
    <2>3. Sending = {} /\ Pending = {}
      BY <2>1, <2>2 DEF InStep, TakeTurns, Pending, Sending
    <2>4. \A x \in Sides : Seen(x) => Seen(x)'
      BY <1>6, <1>10 DEF Seen, From, Other
    <2>5. Seen(s)'
      BY <1>6, <1>7, <1>10, <2>1 DEF Seen, From, Other
    <2>6. \A u \in Talks : \A x \in Sides : Doing(u, "reset")' /\ talk'[u].side = x => Seen(x)'
      BY <1>8, <1>9, <2>1, <2>4, <2>5, TalkTypes DEF InStep, Doing, Quiet
    <2>7. QED
      BY <1>6, <1>12, <2>1, <2>3, <2>4, <2>6 DEF InStep, TakeTurns
  <1>17. QED
    BY <1>11, <1>13, <1>14, <1>15, <1>16

LEMMA ResetUnreadStep ==
  ASSUME ChatInv, NEW t \in Talks, ResetUnread(t)
  PROVE  ChatInv'
  <1> USE DEF ChatInv
  <1>1. PICK s \in Sides : s = talk[t].side
    BY TalkTypes DEF ResetUnread, Doing, Quiet
  <1>2. /\ talk[t].step = "reset" /\ talk' = [talk EXCEPT ![t] = NoTalk]
        /\ conv' = [conv EXCEPT !.unread[s] = 0]
        /\ UNCHANGED <<thread, announced, due, unsent, shown, calm>>
    BY <1>1 DEF ResetUnread, Doing, Stop
  <1>3. /\ talk' \in [Talks -> {NoTalk} \cup Sends \cup Lists \cup Resets]
        /\ talk'[t] = NoTalk /\ NoTalk.step = "idle"
        /\ \A u \in Talks : u # t => talk'[u] = talk[u]
        /\ Pending' = Pending \ {t} /\ Sending' = Sending \ {t} /\ Reading' = Reading \ {t}
    BY <1>2, CallEnds
  <1>4. /\ conv' \in [open : BOOLEAN, last : 0..MaxMessages, by : Sides \cup {"nobody"}, replied : BOOLEAN,
               unread : [Sides -> Nat]]
        /\ conv'.open = conv.open /\ conv'.last = conv.last /\ conv'.replied = conv.replied
        /\ conv'.unread = [conv.unread EXCEPT ![s] = 0]
    BY <1>2 DEF ChatTypeOK
  <1>5. ChatTypeOK'
    BY <1>2, <1>3, <1>4 DEF ChatTypeOK
  <1>6. t \notin Pending /\ t \notin Sending /\ t \in Reading
    BY <1>2 DEF Pending, Sending, Reading, Doing
  <1>7. NoGaps' /\ OneSms' /\ NotOpen'
    BY <1>2, <1>4 DEF NoGaps, OneSms, NotOpen, Quiet, Doing
  <1>8. Listening' /\ Numbered'
    BY <1>2, <1>3, <1>6 DEF Listening, Numbered, Pending, Doing
  <1>9. InStep'
    <2>1. SUFFICES ASSUME calm
                   PROVE  InStep'
      BY <1>2 DEF InStep
    <2>2. Sending = {} /\ Pending = {}
      BY <1>6, <2>1 DEF InStep, TakeTurns, Pending, Sending
    <2>3. \A x \in Sides : Seen(x)' = Seen(x)
      BY <1>2 DEF Seen, From
    <2>4. Seen(s)
      BY <1>1, <1>2, <2>1 DEF InStep, Doing
    <2>5. \A x \in Sides : conv'.unread[x] = 0 => Seen(x)'
      BY <1>4, <2>1, <2>2, <2>3, <2>4 DEF InStep, ChatTypeOK
    <2>6. \A u \in Talks : \A x \in Sides : Doing(u, "reset")' /\ talk'[u].side = x => Seen(x)'
      BY <1>3, <2>1, <2>3, TalkTypes DEF InStep, Doing, Quiet
    <2>7. QED
      BY <1>2, <1>3, <1>4, <2>1, <2>2, <2>5, <2>6 DEF InStep, TakeTurns
  <1>10. QED
    BY <1>5, <1>7, <1>8, <1>9

LEMMA MarkReadStep ==
  ASSUME ChatInv, NEW s \in Sides, MarkRead(s)
  PROVE  ChatInv'
  <1> USE DEF ChatInv
  <1>1. /\ conv.open /\ conv' = [conv EXCEPT !.unread[s] = 0]
        /\ shown' = [shown EXCEPT ![s] = 1..Len(thread)]
        /\ calm' = (calm /\ Sending = {})
        /\ UNCHANGED <<thread, announced, due, unsent, talk>>
    BY DEF MarkRead
  <1>2. /\ conv' \in [open : BOOLEAN, last : 0..MaxMessages, by : Sides \cup {"nobody"}, replied : BOOLEAN,
               unread : [Sides -> Nat]]
        /\ conv'.open = conv.open /\ conv'.last = conv.last /\ conv'.replied = conv.replied
        /\ conv'.unread = [conv.unread EXCEPT ![s] = 0]
    BY <1>1 DEF ChatTypeOK
  <1>3. /\ shown'[s] = 1..Len(thread) /\ Len(thread) \in Nat
        /\ \A x \in Sides : shown[x] \subseteq shown'[x] /\ (x # s => shown'[x] = shown[x])
    BY <1>1 DEF ChatTypeOK, NoGaps
  <1>4. ChatTypeOK'
    <2>1. 1..Len(thread) \in SUBSET (1..MaxMessages)
      BY ConversationAssumption DEF ChatTypeOK
    <2>2. QED
      BY <1>1, <1>2, <2>1 DEF ChatTypeOK
  <1>5. Pending' = Pending /\ Sending' = Sending /\ Reading' = Reading
    BY <1>1 DEF Pending, Sending, Reading, Doing
  <1>6. NoGaps'
    BY <1>1, <1>3 DEF NoGaps
  <1>7. OneSms' /\ NotOpen' /\ Numbered'
    BY <1>1, <1>2, <1>5 DEF OneSms, NotOpen, Numbered
  <1>8. Listening'
    BY <1>1, <1>3, TalkTypes DEF Listening, Doing, Quiet
  <1>9. InStep'
    <2>1. SUFFICES ASSUME calm, Sending = {}
                   PROVE  InStep'
      BY <1>1 DEF InStep
    <2>2. Pending = {}
      BY <2>1 DEF Pending, Sending
    <2>3. \A x \in Sides : Seen(x) => Seen(x)'
      BY <1>1, <1>3 DEF Seen, From, Other
    <2>4. Seen(s)'
      BY <1>1, <1>3 DEF Seen, From, Other
    <2>5. \A x \in Sides : conv'.unread[x] = 0 => Seen(x)'
      BY <1>2, <2>1, <2>2, <2>3, <2>4 DEF InStep, ChatTypeOK
    <2>6. \A u \in Talks : \A x \in Sides : Doing(u, "reset")' /\ talk'[u].side = x => Seen(x)'
      BY <1>1, <2>1, <2>3, TalkTypes DEF InStep, Doing, Quiet
    <2>7. QED
      BY <1>1, <1>2, <1>5, <2>1, <2>2, <2>5, <2>6 DEF InStep, TakeTurns
  <1>10. QED
    BY <1>4, <1>6, <1>7, <1>8, <1>9

LEMMA BreakOffTalkStep ==
  ASSUME ChatInv, NEW t \in Talks, BreakOffTalk(t)
  PROVE  ChatInv'
  <1> USE DEF ChatInv
  <1>1. /\ ~Quiet(t) /\ talk' = [talk EXCEPT ![t] = NoTalk] /\ calm' = FALSE
        /\ UNCHANGED <<thread, conv, announced, due, unsent, shown>>
    BY DEF BreakOffTalk, Stop
  <1>2. /\ talk' \in [Talks -> {NoTalk} \cup Sends \cup Lists \cup Resets]
        /\ talk'[t] = NoTalk /\ NoTalk.step = "idle"
        /\ \A u \in Talks : u # t => talk'[u] = talk[u]
        /\ Pending' = Pending \ {t}
    BY <1>1, CallEnds
  <1>3. ChatTypeOK' /\ NoGaps' /\ OneSms' /\ NotOpen' /\ InStep'
    BY <1>1, <1>2 DEF ChatTypeOK, NoGaps, OneSms, NotOpen, InStep
  <1>4. Listening' /\ Numbered'
    BY <1>1, <1>2 DEF Listening, Numbered, Pending, Doing
  <1>5. QED
    BY <1>3, <1>4

\* Every step of the chat keeps its invariant.
LEMMA ChatGoesOn ==
  ASSUME ChatInv, [ChatNext]_chatVars
  PROVE  ChatInv'
  <1>1. CASE ChatNext
    BY <1>1, OpenStep, ReadToSendStep, CreateMessageStep, UpdateFirstStep, UpdateLaterStep, ReadToListStep,
       ListMessagesStep, ResetUnreadStep, MarkReadStep, SmsStep, BreakOffTalkStep DEF ChatNext
  <1>2. CASE UNCHANGED chatVars
    <2>1. UNCHANGED <<thread, conv, announced, due, unsent, shown, talk, calm>>
      BY <1>2 DEF chatVars
    <2>2. Pending' = Pending /\ Sending' = Sending /\ Reading' = Reading
      BY <2>1 DEF Pending, Sending, Reading, Doing
    <2>3. \A x \in Sides : Seen(x)' = Seen(x)
      BY <2>1 DEF Seen, From
    <2>4. ChatTypeOK' /\ NoGaps' /\ OneSms' /\ NotOpen' /\ Numbered' /\ Listening'
      BY <2>1, <2>2 DEF ChatInv, ChatTypeOK, NoGaps, OneSms, NotOpen, Numbered, Listening, Quiet, Doing
    <2>5. calm => \A u \in Talks : \A x \in Sides : Doing(u, "reset")' /\ talk'[u].side = x => Seen(x)'
      BY <2>1, <2>3, TalkTypes DEF ChatInv, InStep, Doing, Quiet
    <2>6. InStep'
      BY <2>1, <2>2, <2>3, <2>5 DEF ChatInv, InStep, TakeTurns
    <2>7. QED
      BY <2>4, <2>6 DEF ChatInv
  <1>3. QED
    BY <1>1, <1>2

\* The invariant of a conversation holds in every state: what its document knows of
\* the messages, of announcements and, while calls take turns, of what each side was
\* shown (chat.service.ts).
THEOREM ChatInvariantHolds == ChatSpec => []ChatInv
  BY ChatBegins, ChatGoesOn, PTL DEF ChatSpec

\* "The atomic null filters guarantee exactly one SMS even when sends race"
\* (sendMessage): a first message makes at most one, and a reply on record has made exactly
\* one, sent, still to be sent or lost, for any number of calls and messages.
THEOREM OneSmsEach == ChatSpec => []FirstContactAnnouncedOnce
  <1>1. ChatInv => FirstContactAnnouncedOnce
    BY DEF ChatInv, OneSms, FirstContactAnnouncedOnce
  <1>2. QED
    BY <1>1, ChatInvariantHolds, PTL

\* While sendings and readings take turns, a side whose badge shows nothing unread
\* was shown what the other wrote, as far as a page reaches back (listMessages,
\* markRead, getUnreadCount).
THEOREM NothingMissed == ChatSpec => []NothingUnreadIsMissed
  <1>1. ASSUME ChatInv
        PROVE  NothingUnreadIsMissed
    <2>1. SUFFICES ASSUME calm, Sending = {}, NEW s \in Sides
                   PROVE  /\ ListConversations(s) = [head |-> Len(thread), unreadCount |-> GetUnreadCount(s)]
                          /\ GetUnreadCount(s) = 0 =>
                                \A m \in From(Other(s)) : m > Len(thread) - PageSize => m \in shown[s]
      BY DEF NothingUnreadIsMissed
    <2>2. Pending = {}
      BY <2>1 DEF Pending, Sending
    <2>3. conv.last = Len(thread) /\ (conv.unread[s] = 0 => Seen(s))
      BY <1>1, <2>1, <2>2 DEF ChatInv, InStep
    <2>4. GetUnreadCount(s) = conv.unread[s]
      BY <1>1 DEF ChatInv, NotOpen, GetUnreadCount
    <2>5. QED
      BY <2>3, <2>4 DEF ListConversations, Seen
  <1>2. QED
    BY <1>1, ChatInvariantHolds, PTL

-----------------------------------------------------------------------------
(* Tickets and the inbox                                                   *)

ReplyRows == [step : {"idle", "user", "admin", "welcome"}, read : TicketStatuses \cup {NoStatus},
              since : SUBSET TicketStatuses]
Posts == [kind : Kinds, isRead : BOOLEAN]
Tickets == [status : TicketStatuses \cup {NoStatus}, closedAt : BOOLEAN, messages : Seq(Senders)]

\* A ticket has the status that a reply under way has read, or one it was given since.
StatusKnown ==
    \A r \in Replying : ticket.status \in TicketStatuses /\ ticket.status \in {reply[r].read} \cup reply[r].since

LastWriter == ticket.messages[Len(ticket.messages)]
Followed ==
    ticket # NoTicket =>
        Len(ticket.messages) > 0 /\ ticket.status \in TicketStatuses /\ ticket.status \in {Turn(LastWriter)} \cup meanwhile

\* Whoever is about to welcome the inbox has found no welcome in it.
WelcomesBounded ==
    /\ IsFiniteSet(Welcomes)
    /\ Cardinality(Welcomes) + Cardinality(Welcoming) <= Cardinality(Replies)

SupportInv == SupportTypeOK /\ ticket \in Tickets /\ StatusKnown /\ Followed /\ WelcomesBounded

\* The types of the calls under way.
LEMMA ReplyTypes ==
  ASSUME SupportTypeOK
  PROVE  /\ reply \in [Replies -> ReplyRows] /\ inbox \in Seq(Posts) /\ NoReply \in ReplyRows /\ NoReply.step = "idle"
         /\ Len(inbox) \in Nat /\ DOMAIN inbox = 1..Len(inbox) /\ \A i \in DOMAIN inbox : inbox[i] \in Posts
  <1>1. reply \in [Replies -> ReplyRows] /\ inbox \in Seq(Posts)
    BY DEF SupportTypeOK, ReplyRows, Posts
  <1>2. NoReply \in ReplyRows /\ NoReply.step = "idle"
    BY DEF ReplyRows, NoReply
  <1>3. Len(inbox) \in Nat /\ DOMAIN inbox = 1..Len(inbox) /\ \A i \in DOMAIN inbox : inbox[i] \in Posts
    BY <1>1
  <1>4. QED
    BY <1>1, <1>2, <1>3

\* The calls under way are finitely many.
LEMMA FewCalls ==
  /\ IsFiniteSet(Welcoming) /\ Cardinality(Welcoming) \in Nat /\ Cardinality(Replies) \in Nat
  /\ Cardinality(Welcoming) <= Cardinality(Replies)
  <1>1. Welcoming \subseteq Replies
    BY DEF Welcoming
  <1>2. QED
    BY <1>1, SupportAssumption, FS_Subset, FS_CardinalityType

\* Tickets begin with the invariant; every action of ticket.service.ts and
\* message.service.ts keeps it, one lemma per action.
LEMMA SupportBegins ==
  ASSUME SupportInit
  PROVE  SupportInv
  <1>1. SupportTypeOK /\ ticket \in Tickets /\ ticket = NoTicket
    BY DEF SupportInit, SupportTypeOK, NoTicket, NoReply, Tickets
  <1>2. \A r \in Replies : reply[r].step = "idle"
    BY DEF SupportInit, NoReply
  <1>3. Replying = {} /\ Welcoming = {} /\ Welcomes = {}
    BY <1>2 DEF Replying, Welcoming, Welcomes, Senders, SupportInit
  <1>4. WelcomesBounded
    BY <1>3, FS_EmptySet, FewCalls DEF WelcomesBounded
  <1>5. QED
    BY <1>1, <1>3, <1>4 DEF SupportInv, StatusKnown, Followed

\* A call begins or ends.
LEMMA OneCallChanges ==
  ASSUME SupportTypeOK, NEW r \in Replies, NEW c \in ReplyRows, NEW calls, calls = [reply EXCEPT ![r] = c]
  PROVE  /\ calls \in [Replies -> ReplyRows]
         /\ calls[r] = c /\ \A q \in Replies : q # r => calls[q] = reply[q]
  BY ReplyTypes

\* The calls under way hear of a status that the ticket is given.
LEMMA AllHear ==
  ASSUME SupportTypeOK, NEW calls \in [Replies -> ReplyRows], NEW s \in TicketStatuses
  PROVE  /\ Missed(calls, s) \in [Replies -> ReplyRows]
         /\ \A q \in Replies : /\ Missed(calls, s)[q].step = calls[q].step
                               /\ Missed(calls, s)[q].read = calls[q].read
                               /\ calls[q].since \subseteq Missed(calls, s)[q].since
                               /\ calls[q].step \in Senders /\ s # ticket.status => s \in Missed(calls, s)[q].since
  <1> DEFINE New(q) == IF calls[q].step \in Senders /\ s # ticket.status
                       THEN [calls[q] EXCEPT !.since = calls[q].since \cup {s}] ELSE calls[q]
  <1>1. Missed(calls, s) = [q \in Replies |-> New(q)]
    BY DEF Missed
  <1>2. ASSUME NEW q \in Replies
        PROVE  /\ New(q) \in ReplyRows /\ New(q).step = calls[q].step /\ New(q).read = calls[q].read
               /\ calls[q].since \subseteq New(q).since
               /\ (calls[q].step \in Senders /\ s # ticket.status) => s \in New(q).since
    <2>1. calls[q] \in ReplyRows
      OBVIOUS
    <2>2. PICK more \in SUBSET TicketStatuses : more = calls[q].since \cup {s}
      BY <2>1 DEF ReplyRows
    <2>3. CASE calls[q].step \in Senders /\ s # ticket.status
      <3>1. New(q) = [calls[q] EXCEPT !.since = more]
        BY <2>2, <2>3
      <3>2. [calls[q] EXCEPT !.since = more] \in ReplyRows
        BY <2>1 DEF ReplyRows
      <3>3. /\ [calls[q] EXCEPT !.since = more].step = calls[q].step
            /\ [calls[q] EXCEPT !.since = more].read = calls[q].read
            /\ [calls[q] EXCEPT !.since = more].since = more
        BY <2>1 DEF ReplyRows
      <3>4. QED
        BY <3>1, <3>2, <3>3, <2>2
    <2>4. CASE ~(calls[q].step \in Senders /\ s # ticket.status)
      BY <2>1, <2>4
    <2>5. QED
      BY <2>3, <2>4
  <1>3. \A q \in Replies : Missed(calls, s)[q] = New(q)
    BY <1>1
  <1> HIDE DEF New
  <1>4. QED
    BY <1>1, <1>2, <1>3

LEMMA CreateTicketStep ==
  ASSUME SupportInv, CreateTicket
  PROVE  SupportInv'
  <1> USE DEF SupportInv
  <1>1. /\ ticket = NoTicket /\ ticket' = [status |-> "open", closedAt |-> FALSE, messages |-> <<"user">>]
        /\ UNCHANGED <<meanwhile, reply, inbox>>
    BY DEF CreateTicket
  <1>2. /\ ticket'.status = "open" /\ ticket'.closedAt = FALSE /\ ticket'.messages = <<"user">>
        /\ "open" \in TicketStatuses
    BY <1>1 DEF TicketStatuses
  <1>3. <<"user">> \in Seq(Senders) /\ Len(<<"user">>) = 1 /\ <<"user">>[1] = "user"
    BY DEF Senders
  <1>4. SupportTypeOK' /\ ticket' \in Tickets
    BY <1>1, <1>2, <1>3 DEF SupportTypeOK, Tickets
  <1>5. Replying = {} /\ Replying' = {} /\ Welcoming' = Welcoming /\ Welcomes' = Welcomes
    BY <1>1, SupportAssumption DEF StatusKnown, NoTicket, TicketStatuses, Replying, Welcoming, Welcomes
  <1>6. Followed'
    BY <1>2, <1>3 DEF Followed, LastWriter, Turn
  <1>7. QED
    BY <1>4, <1>5, <1>6 DEF StatusKnown, WelcomesBounded

LEMMA ReadTicketStep ==
  ASSUME SupportInv, NEW r \in Replies, NEW who \in Senders, ReadTicket(r, who)
  PROVE  SupportInv'
  <1> USE DEF SupportInv
  <1>1. /\ ticket.status \in TicketStatuses /\ reply[r] = NoReply
        /\ reply' = [reply EXCEPT ![r] = [step |-> who, read |-> ticket.status, since |-> {}]]
        /\ UNCHANGED <<ticket, meanwhile, inbox>>
    BY DEF ReadTicket, Take, Unused
  <1>2. PICK c \in ReplyRows : /\ c = [step |-> who, read |-> ticket.status, since |-> {}]
                               /\ c.step = who /\ c.read = ticket.status
    <2>1. [step |-> who, read |-> ticket.status, since |-> {}] \in ReplyRows
      BY <1>1 DEF ReplyRows, Senders
    <2>2. QED
      BY <2>1
  <1>3. /\ reply' \in [Replies -> ReplyRows]
        /\ reply'[r] = c /\ \A q \in Replies : q # r => reply'[q] = reply[q]
    <2>1. reply' = [reply EXCEPT ![r] = c]
      BY <1>1, <1>2
    <2>2. QED
      BY <2>1, ReplyTypes
  <1>4. Welcoming' = Welcoming
    BY <1>1, <1>2, <1>3, ReplyTypes DEF Welcoming, Senders
  <1>5. SupportTypeOK'
    BY <1>1, <1>3 DEF SupportTypeOK, ReplyRows
  <1>6. Welcomes' = Welcomes
    BY <1>1 DEF Welcomes
  <1>7. StatusKnown'
    BY <1>1, <1>2, <1>3 DEF StatusKnown, Replying
  <1>8. QED
    BY <1>1, <1>4, <1>5, <1>6, <1>7 DEF Followed, LastWriter, WelcomesBounded

LEMMA SaveReplyStep ==
  ASSUME SupportInv, NEW r \in Replies, NEW who \in Senders, SaveReply(r, who)
  PROVE  SupportInv'
  <1> USE DEF SupportInv
  <1>1. /\ reply[r].step = who
        /\ ticket' = Saved(ticket, reply[r].read, who) /\ meanwhile' = reply[r].since
        /\ reply' = Missed([reply EXCEPT ![r] = NoReply], ticket'.status)
        /\ UNCHANGED inbox
    BY DEF SaveReply
  <1>2. /\ Turn(who) \in TicketStatuses /\ ticket.status \in TicketStatuses
        /\ ticket.status \in {reply[r].read} \cup reply[r].since
    BY <1>1 DEF Replying, Turn, TicketStatuses, StatusKnown
  <1>3. PICK st \in TicketStatuses : st = IF reply[r].read = Turn(who) THEN ticket.status ELSE Turn(who)
    BY <1>2
  <1>4. /\ Append(ticket.messages, who) \in Seq(Senders)
        /\ Len(Append(ticket.messages, who)) > 0
        /\ Append(ticket.messages, who)[Len(Append(ticket.messages, who))] = who
    <2>1. ticket.messages \in Seq(Senders)
      BY DEF Tickets
    <2>2. QED
      BY <2>1
  <1>5. /\ ticket' \in Tickets /\ ticket'.status = st /\ ticket'.messages = Append(ticket.messages, who)
    <2>1. ticket' = [ticket EXCEPT !.messages = Append(ticket.messages, who), !.status = st]
      BY <1>1, <1>3 DEF Saved
    <2>2. QED
      BY <1>4, <2>1 DEF Tickets
  <1> DEFINE calls == [reply EXCEPT ![r] = NoReply]
  <1>6. /\ calls \in [Replies -> ReplyRows] /\ calls[r] = NoReply
        /\ \A q \in Replies : q # r => calls[q] = reply[q]
    BY ReplyTypes
  <1> HIDE DEF calls
  <1>7. /\ reply' \in [Replies -> ReplyRows]
        /\ \A q \in Replies : /\ reply'[q].step = calls[q].step /\ reply'[q].read = calls[q].read
                              /\ calls[q].since \subseteq reply'[q].since
                              /\ calls[q].step \in Senders /\ st # ticket.status => st \in reply'[q].since
    <2>1. reply' = Missed(calls, st)
      BY <1>1, <1>5 DEF calls
    <2>2. QED
      BY <1>6, <2>1, AllHear
  <1>8. Welcoming' = Welcoming
    BY <1>1, <1>6, <1>7, ReplyTypes DEF Welcoming, Senders
  <1>9. Welcomes' = Welcomes
    BY <1>1 DEF Welcomes
  <1>10. meanwhile' \in SUBSET TicketStatuses
    BY <1>1, ReplyTypes DEF ReplyRows
  <1>11. SupportTypeOK'
    BY <1>1, <1>5, <1>7, <1>10 DEF SupportTypeOK, ReplyRows, Tickets
  <1>12. StatusKnown'
    <2>1. SUFFICES ASSUME NEW q \in Replying'
                   PROVE  st \in {reply'[q].read} \cup reply'[q].since
      BY <1>5 DEF StatusKnown
    <2>2. q \in Replies /\ q # r /\ q \in Replying /\ calls[q] = reply[q]
      BY <1>6, <1>7, ReplyTypes DEF Replying, Senders
    <2>3. CASE st = ticket.status
      BY <1>7, <2>2, <2>3 DEF StatusKnown
    <2>4. CASE st # ticket.status
      BY <1>7, <2>2, <2>4 DEF Replying
    <2>5. QED
      BY <2>3, <2>4
  <1>13. Followed'
    <2>1. LastWriter' = who /\ Len(ticket'.messages) > 0
      BY <1>4, <1>5 DEF LastWriter
    <2>2. st \in {Turn(who)} \cup meanwhile'
      BY <1>1, <1>2, <1>3
    <2>3. QED
      BY <1>5, <2>1, <2>2 DEF Followed
  <1>14. QED
    BY <1>5, <1>8, <1>9, <1>11, <1>12, <1>13 DEF WelcomesBounded

\* An admin chooses a status.
LEMMA ChooseStatusStep ==
  ASSUME SupportInv, CloseTicket \/ \E s \in TicketStatuses : UpdateTicketStatus(s)
  PROVE  SupportInv'
  <1> USE DEF SupportInv
  <1>1. PICK s \in TicketStatuses :
          /\ ticket # NoTicket
          /\ ticket' \in {[ticket EXCEPT !.status = s], [ticket EXCEPT !.status = s, !.closedAt = TRUE]}
          /\ meanwhile' = {s} /\ reply' = Missed(reply, s) /\ UNCHANGED inbox
    <2>1. CASE CloseTicket
      BY <2>1 DEF CloseTicket, TicketStatuses
    <2>2. ASSUME NEW s \in TicketStatuses, UpdateTicketStatus(s)
          PROVE  /\ ticket # NoTicket /\ ticket' = [ticket EXCEPT !.status = s]
                 /\ meanwhile' = {s} /\ reply' = Missed(reply, s) /\ UNCHANGED inbox
      BY <2>2, Zenon DEF UpdateTicketStatus
    <2>3. QED
      BY <2>1, <2>2, Zenon
  <1>2. ticket' \in Tickets /\ ticket'.status = s /\ ticket'.messages = ticket.messages
    BY <1>1 DEF Tickets
  <1>3. /\ reply' \in [Replies -> ReplyRows]
        /\ \A q \in Replies : /\ reply'[q].step = reply[q].step /\ reply'[q].read = reply[q].read
                              /\ reply[q].since \subseteq reply'[q].since
                              /\ reply[q].step \in Senders /\ s # ticket.status => s \in reply'[q].since
    BY <1>1, ReplyTypes, AllHear
  <1>4. SupportTypeOK'
    BY <1>1, <1>2, <1>3 DEF SupportTypeOK, ReplyRows, Tickets
  <1>5. Replying' = Replying /\ Welcoming' = Welcoming /\ Welcomes' = Welcomes
    BY <1>1, <1>3 DEF Replying, Welcoming, Welcomes
  <1>6. StatusKnown'
    <2>1. SUFFICES ASSUME NEW q \in Replying
                   PROVE  s \in {reply'[q].read} \cup reply'[q].since
      BY <1>2, <1>5 DEF StatusKnown
    <2>2. QED
      BY <1>3 DEF StatusKnown, Replying
  <1>7. Followed'
    BY <1>1, <1>2 DEF Followed
  <1>8. QED
    BY <1>2, <1>4, <1>5, <1>6, <1>7 DEF WelcomesBounded

\* A message comes to the inbox.
LEMMA PostArrives ==
  ASSUME SupportTypeOK, NEW kind \in Kinds, inbox' = Append(inbox, Message(kind))
  PROVE  /\ inbox' \in Seq([kind : Kinds, isRead : BOOLEAN])
         /\ Welcomes' = IF kind = "stylist_welcome" THEN Welcomes \cup {Len(inbox) + 1} ELSE Welcomes
  <1>1. PICK m \in Posts : m = Message(kind) /\ m.kind = kind
    <2>1. Message(kind) \in Posts /\ Message(kind).kind = kind
      BY DEF Message, Posts
    <2>2. QED
      BY <2>1
  <1>2. PICK n \in Nat : n = Len(inbox)
    BY ReplyTypes, Zenon
  <1>3. /\ inbox' \in Seq(Posts) /\ DOMAIN inbox = 1..n /\ DOMAIN inbox' = 1..n + 1 /\ inbox'[n + 1] = m
        /\ \A i \in 1..n : inbox'[i] = inbox[i]
    BY <1>1, <1>2, ReplyTypes
  <1>4. Welcomes' = IF kind = "stylist_welcome" THEN Welcomes \cup {n + 1} ELSE Welcomes
    BY <1>1, <1>3 DEF Welcomes
  <1>5. QED
    BY <1>2, <1>3, <1>4 DEF Posts

LEMMA SendMessageStep ==
  ASSUME SupportInv, SendMessage
  PROVE  SupportInv'
  <1> USE DEF SupportInv
  <1>1. inbox' = Append(inbox, Message("admin_message")) /\ UNCHANGED <<ticket, meanwhile, reply>>
    BY DEF SendMessage
  <1>2. inbox' \in Seq([kind : Kinds, isRead : BOOLEAN]) /\ Welcomes' = Welcomes
    BY <1>1, PostArrives DEF Kinds
  <1>3. Replying' = Replying /\ Welcoming' = Welcoming
    BY <1>1 DEF Replying, Welcoming
  <1>4. QED
    BY <1>1, <1>2, <1>3 DEF SupportTypeOK, StatusKnown, Followed, LastWriter, WelcomesBounded

LEMMA FindWelcomeStep ==
  ASSUME SupportInv, NEW r \in Replies, FindWelcome(r)
  PROVE  SupportInv'
  <1> USE DEF SupportInv
  <1>1. /\ Welcomes = {} /\ reply[r] = NoReply
        /\ reply' = [reply EXCEPT ![r] = [step |-> "welcome", read |-> NoStatus, since |-> {}]]
        /\ UNCHANGED <<ticket, meanwhile, inbox>>
    BY DEF FindWelcome, Take, Unused, AlreadyWelcomed
  <1>2. PICK c \in ReplyRows : c = [step |-> "welcome", read |-> NoStatus, since |-> {}] /\ c.step = "welcome"
    <2>1. [step |-> "welcome", read |-> NoStatus, since |-> {}] \in ReplyRows
      BY DEF ReplyRows
    <2>2. QED
      BY <2>1
  <1>3. /\ reply' \in [Replies -> ReplyRows]
        /\ reply'[r] = c /\ \A q \in Replies : q # r => reply'[q] = reply[q]
    <2>1. reply' = [reply EXCEPT ![r] = c]
      BY <1>1, <1>2
    <2>2. QED
      BY <2>1, ReplyTypes
  <1>4. Replying' = Replying /\ \A q \in Replying : reply'[q] = reply[q]
    BY <1>1, <1>2, <1>3, ReplyTypes DEF Senders, Replying
  <1>5. SupportTypeOK'
    BY <1>1, <1>3 DEF SupportTypeOK, ReplyRows
  <1>6. WelcomesBounded'
    <2>1. Welcomes' = {}
      BY <1>1 DEF Welcomes
    <2>2. Welcoming' \subseteq Replies
      BY DEF Welcoming
    <2>3. Cardinality(Welcoming') \in Nat /\ Cardinality(Welcoming') <= Cardinality(Replies)
      BY <2>2, SupportAssumption, FS_Subset, FS_CardinalityType
    <2>4. Cardinality(Welcomes') = 0 /\ IsFiniteSet(Welcomes')
      BY <2>1, FS_EmptySet
    <2>5. QED
      BY <2>3, <2>4 DEF WelcomesBounded
  <1>7. QED
    BY <1>1, <1>4, <1>5, <1>6 DEF StatusKnown, Followed, LastWriter

LEMMA CreateWelcomeStep ==
  ASSUME SupportInv, NEW r \in Replies, CreateWelcome(r)
  PROVE  SupportInv'
  <1> USE DEF SupportInv
  <1>1. /\ reply[r].step = "welcome" /\ reply' = [reply EXCEPT ![r] = NoReply]
        /\ inbox' = Append(inbox, Message("stylist_welcome"))
        /\ UNCHANGED <<ticket, meanwhile>>
    BY DEF CreateWelcome
  <1>2. r \in Welcoming
    BY <1>1 DEF Welcoming
  <1>3. /\ reply' \in [Replies -> ReplyRows]
        /\ reply'[r] = NoReply /\ \A q \in Replies : q # r => reply'[q] = reply[q]
    BY <1>1, ReplyTypes
  <1>4. /\ Replying' = Replying /\ \A q \in Replying : reply'[q] = reply[q]
        /\ Welcoming' = Welcoming \ {r}
    BY <1>1, <1>3, ReplyTypes DEF Replying, Welcoming, Senders
  <1>5. inbox' \in Seq([kind : Kinds, isRead : BOOLEAN]) /\ Welcomes' = Welcomes \cup {Len(inbox) + 1}
    BY <1>1, PostArrives DEF Kinds
  <1>6. SupportTypeOK'
    BY <1>1, <1>3, <1>5 DEF SupportTypeOK, ReplyRows
  <1>7. WelcomesBounded'
    <2>1. /\ IsFiniteSet(Welcomes') /\ Cardinality(Welcomes') \in Nat
          /\ Cardinality(Welcomes') <= Cardinality(Welcomes) + 1 /\ Cardinality(Welcomes) \in Nat
      <3>1. Cardinality(Welcomes') \in {Cardinality(Welcomes), Cardinality(Welcomes) + 1} /\ IsFiniteSet(Welcomes')
        BY <1>5, FS_AddElement DEF WelcomesBounded
      <3>2. QED
        BY <3>1, FS_CardinalityType DEF WelcomesBounded
    <2>2. Cardinality(Welcoming') = Cardinality(Welcoming) - 1
      BY <1>2, <1>4, FewCalls, FS_RemoveElement
    <2>3. QED
      BY <2>1, <2>2, FewCalls DEF WelcomesBounded
  <1>8. QED
    BY <1>1, <1>4, <1>6, <1>7 DEF StatusKnown, Followed, LastWriter

LEMMA MarkMessageReadStep ==
  ASSUME SupportInv, NEW i \in 1..MaxPosts, MarkMessageRead(i)
  PROVE  SupportInv'
  <1> USE DEF SupportInv
  <1>1. /\ i \in DOMAIN inbox /\ inbox' = [inbox EXCEPT ![i].isRead = TRUE]
        /\ UNCHANGED <<ticket, meanwhile, reply>>
    BY DEF MarkMessageRead
  <1>2. PICK m \in Posts : m = [inbox[i] EXCEPT !.isRead = TRUE] /\ m.kind = inbox[i].kind
    <2>1. inbox[i] \in [kind : Kinds, isRead : BOOLEAN]
      BY <1>1, ReplyTypes DEF Posts
    <2>2. [inbox[i] EXCEPT !.isRead = TRUE] \in Posts /\ [inbox[i] EXCEPT !.isRead = TRUE].kind = inbox[i].kind
      BY <2>1 DEF Posts
    <2>3. QED
      BY <2>2
  <1>3. inbox' = [inbox EXCEPT ![i] = m]
    BY <1>1, <1>2
  <1>4. inbox' \in Seq(Posts) /\ DOMAIN inbox' = DOMAIN inbox /\ \A j \in DOMAIN inbox : inbox'[j].kind = inbox[j].kind
    BY <1>1, <1>2, <1>3, ReplyTypes
  <1>5. Welcomes' = Welcomes
    BY <1>4 DEF Welcomes
  <1>6. Replying' = Replying /\ Welcoming' = Welcoming
    BY <1>1 DEF Replying, Welcoming
  <1>7. QED
    BY <1>1, <1>4, <1>5, <1>6 DEF SupportTypeOK, StatusKnown, Followed, LastWriter, WelcomesBounded, Posts

LEMMA BreakOffReplyStep ==
  ASSUME SupportInv, NEW r \in Replies, BreakOffReply(r)
  PROVE  SupportInv'
  <1> USE DEF SupportInv
  <1>1. reply' = [reply EXCEPT ![r] = NoReply] /\ UNCHANGED <<ticket, meanwhile, inbox>>
    BY DEF BreakOffReply
  <1>2. /\ reply' \in [Replies -> ReplyRows]
        /\ reply'[r] = NoReply /\ \A q \in Replies : q # r => reply'[q] = reply[q]
    BY <1>1, ReplyTypes
  <1>3. Welcomes' = Welcomes /\ Welcoming' = Welcoming \ {r}
    BY <1>1, <1>2, ReplyTypes DEF Welcomes, Welcoming
  <1>4. \A q \in Replying' : q \in Replying /\ reply'[q] = reply[q]
    BY <1>2, ReplyTypes DEF Replying, Senders
  <1>5. SupportTypeOK'
    BY <1>1, <1>2 DEF SupportTypeOK, ReplyRows
  <1>6. WelcomesBounded'
    <2>1. Cardinality(Welcoming') \in Nat /\ Cardinality(Welcoming') <= Cardinality(Welcoming)
      BY <1>3, FewCalls, FS_Subset, FS_CardinalityType
    <2>2. QED
      BY <1>3, <2>1, FewCalls, FS_CardinalityType DEF WelcomesBounded
  <1>7. QED
    BY <1>1, <1>4, <1>5, <1>6 DEF StatusKnown, Followed, LastWriter

\* Every step of tickets and messages keeps the invariant.
LEMMA SupportGoesOn ==
  ASSUME SupportInv, [TicketNext \/ InboxNext]_supportVars
  PROVE  SupportInv'
  <1>1. CASE TicketNext
    BY <1>1, CreateTicketStep, ChooseStatusStep, ReadTicketStep, SaveReplyStep, BreakOffReplyStep DEF TicketNext
  <1>2. CASE InboxNext
    BY <1>2, SendMessageStep, MarkMessageReadStep, FindWelcomeStep, CreateWelcomeStep, BreakOffReplyStep DEF InboxNext
  <1>3. CASE UNCHANGED supportVars
    <2>1. UNCHANGED <<ticket, meanwhile, reply, inbox>>
      BY <1>3 DEF supportVars
    <2>2. Replying' = Replying /\ Welcoming' = Welcoming /\ Welcomes' = Welcomes
      BY <2>1 DEF Replying, Welcoming, Welcomes
    <2>3. QED
      BY <2>1, <2>2 DEF SupportInv, SupportTypeOK, StatusKnown, Followed, LastWriter, WelcomesBounded
  <1>4. QED
    BY <1>1, <1>2, <1>3

\* The invariant of tickets and the inbox holds in every state: types, the statuses that
\* replies under way have read or missed, and how many welcomes there can still be
\* (ticket.service.ts, message.service.ts).
THEOREM SupportInvariantHolds == SupportSpec => []SupportInv
  BY SupportBegins, SupportGoesOn, PTL DEF SupportSpec

\* However writes overlap, a ticket is in the list of the side that is to act on its last
\* message, or under a status somebody gave it while that message was on its way or since;
\* and no more uploads welcome a stylist than were under way at once
\* (addMessage, adminAddMessage, updateTicketStatus, closeTicket, sendStylistWelcomeMessage).
THEOREM TurnFollows == SupportSpec => []TurnFollowsMessages
  <1>1. ASSUME SupportInv
        PROVE  TurnFollowsMessages
    <2>1. Cardinality(Welcomes) <= Cardinality(Replies)
      BY <1>1, FewCalls, FS_CardinalityType DEF SupportInv, WelcomesBounded
    <2>2. ticket # NoTicket => \E s \in {Turn(ticket.messages[Len(ticket.messages)])} \cup meanwhile : Listed(s)
      BY <1>1 DEF SupportInv, Followed, LastWriter, Listed
    <2>3. QED
      BY <2>1, <2>2 DEF TurnFollowsMessages
  <1>2. QED
    BY <1>1, SupportInvariantHolds, PTL

-----------------------------------------------------------------------------
(* Reviews                                                                 *)

Moderations == [step : {"idle", "save", "aggregate", "update"}, booking : Bookings \cup {NoBooking},
                verdict : {"approved", "rejected"}, sum : Nat, count : Nat]
Rows == [status : ReviewStatuses, stars : 0..5, by : Reviewers \cup {NobodyWrote}]

\* The rating of the reviews that are visible.
Rating == [sum |-> StarsOf(Visible), count |-> Cardinality(Visible)]

\* Moderations that take turns: the sum computed is the one of now, and the profile has it
\* except between the saving of a verdict and the update.
RatingFollows ==
    apart =>
        /\ \A m, k \in Moderating : m = k
        /\ \A m \in Desk : moderation[m].step = "update" =>
              [sum |-> moderation[m].sum, count |-> moderation[m].count] = Rating
        /\ (\A m \in Desk : moderation[m].step \in {"idle", "save"}) => profile = Rating

OnReviews == \A m \in Moderating : moderation[m].booking \in Bookings /\ review[moderation[m].booking] # Nothing

RatingInv == ReviewsTypeOK /\ OnReviews /\ RatingFollows

\* The types of a review and of a moderation.
LEMMA RowTypes ==
  ASSUME ReviewsTypeOK
  PROVE  /\ \A b \in Bookings : review[b] \in Rows /\ review[b].status \in ReviewStatuses /\ review[b].stars \in 0..5
         /\ \A m \in Desk : moderation[m] \in Moderations
         /\ Nothing \in Rows /\ Nothing.status = "none" /\ NoModeration \in Moderations
         /\ IsFiniteSet(Visible) /\ Visible \in SUBSET Bookings
  <1>1. \A b \in Bookings : review[b] \in [status : ReviewStatuses, stars : 0..5, by : Reviewers \cup {NobodyWrote}]
    BY DEF ReviewsTypeOK
  <1>2. \A m \in Desk : moderation[m] \in Moderations
    BY DEF ReviewsTypeOK, Moderations
  <1>3. Nothing \in Rows /\ Nothing.status = "none" /\ NoModeration \in Moderations
    BY DEF Nothing, Rows, ReviewStatuses, NoModeration, Moderations
  <1>4. Visible \in SUBSET Bookings
    BY DEF Visible
  <1>5. QED
    BY <1>1, <1>2, <1>3, <1>4, FS_Subset, ReviewsAssumption DEF Rows

\* The sum and the number are natural numbers.
LEMMA RatingTypes ==
  ASSUME ReviewsTypeOK
  PROVE  StarsOf(Visible) \in Nat /\ Cardinality(Visible) \in Nat
  <1> DEFINE stars == [b \in Bookings |-> review[b].stars]
  <1>1. stars = [b \in Bookings |-> review[b].stars]
    OBVIOUS
  <1>2. \A b \in Bookings : stars[b] \in Nat
    BY RowTypes
  <1> HIDE DEF stars
  <1>3. SumFunctionOnSet(stars, Visible) \in Nat
    BY <1>2, RowTypes, SumOfNats, ReviewsAssumption
  <1>4. QED
    BY <1>1, <1>3, RowTypes, FS_CardinalityType DEF StarsOf

\* Reviews that are visible before and after count the same.
LEMMA RatingStays ==
  ASSUME ReviewsTypeOK, Visible' = Visible, \A b \in Visible : review'[b].stars = review[b].stars
  PROVE  Rating' = Rating
  <1>1. PICK f, g, V : /\ f = [b \in Bookings |-> review[b].stars] /\ g = [b \in Bookings |-> review'[b].stars]
                       /\ V = Visible
    OBVIOUS
  <1>2. IsFiniteSet(V) /\ \A b \in V : f[b] = g[b]
    BY <1>1, RowTypes
  <1>3. SumFunctionOnSet(f, V) = SumFunctionOnSet(g, V)
    BY <1>2, SumAgrees
  <1>4. QED
    BY <1>1, <1>3 DEF Rating, StarsOf

\* Reviews begin with the invariant; every action of review.service.ts and
\* admin.service.ts keeps it, one lemma per action.
LEMMA RatingBegins ==
  ASSUME ReviewsInit
  PROVE  RatingInv
  <1>1. PICK u \in Reviewers, n \in Stars :
          /\ review = [b \in Bookings |-> IF b = Legacy THEN [status |-> "legacy", stars |-> n, by |-> u] ELSE Nothing]
          /\ profile = [sum |-> n, count |-> 1]
    BY DEF ReviewsInit
  <1>2. n \in 0..5 /\ n \in Nat
    BY ReviewsAssumption
  <1>3. ReviewsTypeOK
    <2>1. [status |-> "legacy", stars |-> n, by |-> u] \in Rows /\ Nothing \in Rows /\ NoModeration \in Moderations
      BY <1>2 DEF Rows, ReviewStatuses, Nothing, NoModeration, Moderations
    <2>2. QED
      BY <1>1, <1>2, <2>1, ReviewsAssumption DEF ReviewsInit, ReviewsTypeOK, Rows, Moderations
  <1>4. Moderating = {} /\ \A m \in Desk : moderation[m].step = "idle"
    BY DEF Moderating, ReviewsInit, NoModeration
  <1>5. Visible = {} \cup {Legacy}
    BY <1>1, ReviewsAssumption DEF Visible, Nothing
  <1>6. Cardinality(Visible) = 1
    BY <1>5, FS_Singleton
  <1>7. StarsOf(Visible) = n
    <2>1. PICK f : f = [b \in Bookings |-> review[b].stars]
      OBVIOUS
    <2>2. f[Legacy] = n
      BY <1>1, <2>1, ReviewsAssumption
    <2>3. SumFunctionOnSet(f, {} \cup {Legacy}) = f[Legacy] + SumFunctionOnSet(f, {})
      <3>1. IsFiniteSet({}) /\ Legacy \notin {} /\ f[Legacy] \in Int
        BY <1>2, <2>2, FS_EmptySet
      <3>2. \A x \in {} : f[x] = f[x] /\ f[x] \in Int
        OBVIOUS
      <3>3. QED
        BY <3>1, <3>2, SumWithOneMore
    <2>4. QED
      BY <1>2, <1>5, <2>1, <2>2, <2>3, SumOfNone DEF StarsOf
  <1>8. profile = Rating
    BY <1>1, <1>6, <1>7 DEF Rating
  <1>9. QED
    BY <1>3, <1>4, <1>8 DEF RatingInv, OnReviews, RatingFollows

\* Nothing of the rating moves.
LEMMA NoRatingMoves ==
  ASSUME RatingInv, UNCHANGED <<review, profile, moderation, apart>>
  PROVE  OnReviews' /\ RatingFollows'
  <1>1. Rating' = Rating /\ Moderating' = Moderating
    BY DEF Rating, StarsOf, Visible, Moderating
  <1>2. QED
    BY <1>1 DEF RatingInv, OnReviews, RatingFollows

LEMMA InsertReviewStep ==
  ASSUME RatingInv, NEW b \in Bookings, NEW u \in Reviewers, NEW n \in Stars, InsertReview(b, u, n)
  PROVE  RatingInv'
  <1> USE DEF RatingInv
  <1>1. PICK r \in Rows : r = [status |-> "pending", stars |-> n, by |-> u] /\ r.status = "pending"
    <2>1. [status |-> "pending", stars |-> n, by |-> u] \in Rows
      BY ReviewsAssumption DEF Rows, ReviewStatuses
    <2>2. QED
      BY <2>1
  <1>2. /\ review' = IF review[b] = Nothing THEN [review EXCEPT ![b] = r] ELSE review
        /\ draft' = draft \ {b} /\ UNCHANGED <<completed, profile, moderation, apart>>
    BY <1>1 DEF InsertReview
  <1>3. CASE review[b] = Nothing
    <2>1. review' \in [Bookings -> Rows] /\ review'[b] = r /\ \A c \in Bookings : c # b => review'[c] = review[c]
      BY <1>2, <1>3 DEF ReviewsTypeOK, Rows
    <2>2. ReviewsTypeOK'
      BY <1>2, <2>1 DEF ReviewsTypeOK, Rows
    <2>3. b \notin Visible /\ Visible' = Visible
      BY <1>1, <1>3, <2>1, RowTypes DEF Visible
    <2>4. Rating' = Rating
      BY <2>1, <2>3, RowTypes, RatingStays
    <2>5. r # Nothing
      BY <1>1, RowTypes
    <2>6. Moderating' = Moderating
      BY <1>2 DEF Moderating
    <2>7. OnReviews'
      BY <1>2, <2>1, <2>5, <2>6 DEF OnReviews
    <2>8. RatingFollows'
      BY <1>2, <2>4, <2>6 DEF RatingFollows
    <2>9. QED
      BY <2>2, <2>7, <2>8
  <1>4. CASE review[b] # Nothing
    <2>1. UNCHANGED <<review, profile, moderation, apart>>
      BY <1>2, <1>4
    <2>2. ReviewsTypeOK'
      BY <1>2, <2>1 DEF ReviewsTypeOK
    <2>3. QED
      BY <2>1, <2>2, NoRatingMoves
  <1>5. QED
    BY <1>3, <1>4

LEMMA FindReviewStep ==
  ASSUME RatingInv, NEW m \in Desk, NEW b \in Bookings, NEW v \in {"approved", "rejected"}, FindReview(m, b, v)
  PROVE  RatingInv'
  <1> USE DEF RatingInv
  <1>1. PICK r \in Moderations : r.step = "save" /\ r.booking = b /\ moderation' = [moderation EXCEPT ![m] = r]
    <2>1. [NoModeration EXCEPT !.step = "save", !.booking = b, !.verdict = v] \in Moderations
      BY DEF NoModeration, Moderations
    <2>2. [NoModeration EXCEPT !.step = "save", !.booking = b, !.verdict = v].step = "save"
          /\ [NoModeration EXCEPT !.step = "save", !.booking = b, !.verdict = v].booking = b
      BY DEF NoModeration
    <2>3. QED
      BY <2>1, <2>2 DEF FindReview
  <1>2. /\ m \notin Moderating /\ review[b] # Nothing /\ apart' = (apart /\ Moderating = {})
        /\ UNCHANGED <<completed, review, profile, draft>>
    BY DEF FindReview
  <1>3. moderation'[m] = r /\ \A k \in Desk : k # m => moderation'[k] = moderation[k]
    BY <1>1 DEF ReviewsTypeOK
  <1>4. ReviewsTypeOK'
    BY <1>1, <1>2 DEF ReviewsTypeOK, Moderations
  <1>5. Moderating' = Moderating \cup {m}
    BY <1>1, <1>3 DEF Moderating
  <1>6. OnReviews'
    BY <1>1, <1>2, <1>3, <1>5 DEF OnReviews, Moderating
  <1>7. RatingFollows'
    <2>1. SUFFICES ASSUME apart, Moderating = {}
                   PROVE  RatingFollows'
      BY <1>2 DEF RatingFollows
    <2>2. Rating' = Rating
      BY <1>2 DEF Rating, StarsOf, Visible
    <2>3. \A k \in Desk : moderation[k].step = "idle"
      BY <2>1 DEF Moderating
    <2>4. QED
      BY <1>1, <1>2, <1>3, <1>5, <2>1, <2>2, <2>3 DEF RatingFollows
  <1>8. QED
    BY <1>4, <1>6, <1>7

\* The step of a moderation, the others at rest if they take turns.
LEMMA TheOnlyOne ==
  ASSUME RatingInv, apart, NEW m \in Moderating
  PROVE  \A k \in Desk : k # m => moderation[k].step = "idle"
  BY DEF RatingInv, RatingFollows, Moderating

LEMMA SaveVerdictStep ==
  ASSUME RatingInv, NEW m \in Desk, SaveVerdict(m)
  PROVE  RatingInv'
  <1> USE DEF RatingInv
  <1>1. PICK r \in Moderations : r = moderation[m] /\ r.step = "save"
    BY RowTypes DEF SaveVerdict, Onward
  <1>2. m \in Moderating
    BY <1>1 DEF Moderating
  <1>3. PICK b \in Bookings : b = r.booking /\ review[b] # Nothing
    BY <1>1, <1>2 DEF OnReviews
  <1>4. PICK q \in Moderations : q = [r EXCEPT !.step = "aggregate"] /\ q.step = "aggregate" /\ q.booking = b
    <2>1. [r EXCEPT !.step = "aggregate"] \in Moderations
          /\ [r EXCEPT !.step = "aggregate"].step = "aggregate" /\ [r EXCEPT !.step = "aggregate"].booking = b
      BY <1>1, <1>3 DEF Moderations
    <2>2. QED
      BY <2>1
  <1>5. /\ moderation' = [moderation EXCEPT ![m] = q]
        /\ review' = [review EXCEPT ![b] = [@ EXCEPT !.status = r.verdict]]
        /\ UNCHANGED <<completed, profile, draft, apart>>
    <2>1. moderation' = [moderation EXCEPT ![m] = [r EXCEPT !.step = "aggregate"]]
      BY <1>1 DEF SaveVerdict, Onward
    <2>2. QED
      BY <1>1, <1>3, <1>4, <2>1 DEF SaveVerdict
  <1>6. PICK row \in Rows : row = [review[b] EXCEPT !.status = r.verdict] /\ row.status # "none"
    <2>1. review[b] \in [status : ReviewStatuses, stars : 0..5, by : Reviewers \cup {NobodyWrote}]
          /\ r.verdict \in {"approved", "rejected"}
      BY <1>1 DEF ReviewsTypeOK, Moderations
    <2>2. [review[b] EXCEPT !.status = r.verdict] \in Rows /\ [review[b] EXCEPT !.status = r.verdict].status # "none"
      BY <2>1 DEF Rows, ReviewStatuses
    <2>3. QED
      BY <2>2
  <1>7. /\ moderation'[m] = q /\ \A k \in Desk : k # m => moderation'[k] = moderation[k]
        /\ review'[b] = row /\ \A c \in Bookings : c # b => review'[c] = review[c]
    BY <1>5, <1>6 DEF ReviewsTypeOK
  <1>8. ReviewsTypeOK'
    <2>1. review' = [review EXCEPT ![b] = row]
      BY <1>5, <1>6 DEF ReviewsTypeOK
    <2>2. review' \in [Bookings -> Rows]
      BY <2>1 DEF ReviewsTypeOK, Rows
    <2>3. moderation' \in [Desk -> Moderations]
      BY <1>5 DEF ReviewsTypeOK, Moderations
    <2>4. QED
      BY <1>5, <2>2, <2>3 DEF ReviewsTypeOK, Moderations, Rows
  <1>9. Moderating' = Moderating
    BY <1>1, <1>4, <1>7 DEF Moderating
  <1>10. OnReviews'
    <2>1. row # Nothing
      BY <1>6, RowTypes
    <2>2. \A k \in Moderating : moderation'[k].booking = moderation[k].booking
      BY <1>1, <1>3, <1>4, <1>7 DEF Moderating
    <2>3. QED
      BY <1>7, <1>9, <2>1, <2>2 DEF OnReviews
  <1>11. RatingFollows'
    <2>1. SUFFICES ASSUME apart
                   PROVE  RatingFollows'
      BY <1>5 DEF RatingFollows
    <2>2. \A k \in Desk : k # m => moderation'[k].step = "idle"
      BY <1>2, <1>7, <2>1, TheOnlyOne
    <2>3. QED
      BY <1>4, <1>7, <1>9, <2>1, <2>2 DEF RatingFollows
  <1>12. QED
    BY <1>8, <1>10, <1>11

LEMMA AggregateStep ==
  ASSUME RatingInv, NEW m \in Desk, Aggregate(m)
  PROVE  RatingInv'
  <1> USE DEF RatingInv
  <1>1. PICK r \in Moderations : r = moderation[m] /\ r.step = "aggregate"
    BY RowTypes DEF Aggregate
  <1>2. PICK n \in Nat, c \in Nat : n = StarsOf(Visible) /\ c = Cardinality(Visible)
    BY RatingTypes
  <1>3. PICK q \in Moderations :
           /\ q = [r EXCEPT !.step = "update", !.sum = n, !.count = c]
           /\ q.step = "update" /\ q.sum = n /\ q.count = c /\ q.booking = r.booking
    <2>1. /\ [r EXCEPT !.step = "update", !.sum = n, !.count = c] \in Moderations
          /\ [r EXCEPT !.step = "update", !.sum = n, !.count = c].step = "update"
          /\ [r EXCEPT !.step = "update", !.sum = n, !.count = c].sum = n
          /\ [r EXCEPT !.step = "update", !.sum = n, !.count = c].count = c
          /\ [r EXCEPT !.step = "update", !.sum = n, !.count = c].booking = r.booking
      BY DEF Moderations
    <2>2. QED
      BY <2>1
  <1>4. moderation' = [moderation EXCEPT ![m] = q] /\ UNCHANGED <<completed, review, profile, draft, apart>>
    BY <1>1, <1>2, <1>3 DEF Aggregate, Counted
  <1>5. moderation'[m] = q /\ \A k \in Desk : k # m => moderation'[k] = moderation[k]
    BY <1>4 DEF ReviewsTypeOK
  <1>6. ReviewsTypeOK'
    BY <1>4 DEF ReviewsTypeOK, Moderations
  <1>7. Moderating' = Moderating /\ m \in Moderating
    BY <1>1, <1>3, <1>5 DEF Moderating
  <1>8. OnReviews'
    BY <1>1, <1>3, <1>4, <1>5, <1>7 DEF OnReviews, Moderating
  <1>9. RatingFollows'
    <2>1. SUFFICES ASSUME apart
                   PROVE  RatingFollows'
      BY <1>4 DEF RatingFollows
    <2>2. \A k \in Desk : k # m => moderation'[k].step = "idle"
      BY <1>5, <1>7, <2>1, TheOnlyOne
    <2>3. Rating' = Rating
      BY <1>4 DEF Rating, StarsOf, Visible
    <2>4. [sum |-> q.sum, count |-> q.count] = Rating
      BY <1>2, <1>3 DEF Rating
    <2>5. QED
      BY <1>3, <1>5, <1>7, <2>1, <2>2, <2>3, <2>4 DEF RatingFollows
  <1>10. QED
    BY <1>6, <1>8, <1>9

LEMMA UpdateRatingStep ==
  ASSUME RatingInv, NEW m \in Desk, UpdateRating(m)
  PROVE  RatingInv'
  <1> USE DEF RatingInv
  <1>1. PICK r \in Moderations : r = moderation[m] /\ r.step = "update"
    BY RowTypes DEF UpdateRating
  <1>2. /\ profile' = [sum |-> r.sum, count |-> r.count]
        /\ moderation' = [moderation EXCEPT ![m] = NoModeration]
        /\ UNCHANGED <<completed, review, draft, apart>>
    BY <1>1 DEF UpdateRating
  <1>3. moderation'[m] = NoModeration /\ NoModeration.step = "idle" /\ \A k \in Desk : k # m => moderation'[k] = moderation[k]
    BY <1>2 DEF ReviewsTypeOK, NoModeration
  <1>4. ReviewsTypeOK'
    <2>1. profile' \in [sum : Nat, count : Nat]
      BY <1>2 DEF Moderations
    <2>2. QED
      BY <1>2, <2>1, RowTypes DEF ReviewsTypeOK, Moderations
  <1>5. Moderating' = Moderating \ {m} /\ m \in Moderating
    BY <1>1, <1>3 DEF Moderating
  <1>6. OnReviews'
    BY <1>2, <1>3, <1>5 DEF OnReviews, Moderating
  <1>7. RatingFollows'
    <2>1. SUFFICES ASSUME apart
                   PROVE  RatingFollows'
      BY <1>2 DEF RatingFollows
    <2>2. \A k \in Desk : moderation'[k].step = "idle"
      BY <1>3, <1>5, <2>1, TheOnlyOne
    <2>3. Rating' = Rating
      BY <1>2 DEF Rating, StarsOf, Visible
    <2>4. profile' = Rating
      BY <1>1, <1>2, <2>1 DEF RatingFollows
    <2>5. QED
      BY <2>2, <2>3, <2>4 DEF RatingFollows, Moderating
  <1>8. QED
    BY <1>4, <1>6, <1>7

LEMMA BreakOffModerationStep ==
  ASSUME RatingInv, NEW m \in Desk, BreakOffModeration(m)
  PROVE  RatingInv'
  <1> USE DEF RatingInv
  <1>1. /\ moderation' = [moderation EXCEPT ![m] = NoModeration] /\ apart' = FALSE
        /\ UNCHANGED <<completed, review, profile, draft>>
    BY DEF BreakOffModeration
  <1>2. moderation'[m] = NoModeration /\ NoModeration.step = "idle" /\ \A k \in Desk : k # m => moderation'[k] = moderation[k]
    BY <1>1 DEF ReviewsTypeOK, NoModeration
  <1>3. ReviewsTypeOK' /\ RatingFollows'
    BY <1>1, RowTypes DEF ReviewsTypeOK, RatingFollows, Moderations
  <1>4. OnReviews'
    BY <1>1, <1>2 DEF OnReviews, Moderating
  <1>5. QED
    BY <1>3, <1>4

\* Every step of reviews keeps the invariant.
LEMMA RatingGoesOn ==
  ASSUME RatingInv, [ReviewsNext]_reviewsVars
  PROVE  RatingInv'
  <1>1. ASSUME NEW b \in Bookings, Complete(b) \/ FindNoReview(b)
        PROVE  RatingInv'
    <2>1. UNCHANGED <<review, profile, moderation, apart>> /\ completed' \subseteq Bookings /\ draft' \subseteq Bookings
      BY <1>1 DEF Complete, FindNoReview, RatingInv, ReviewsTypeOK
    <2>2. ReviewsTypeOK'
      BY <2>1 DEF RatingInv, ReviewsTypeOK
    <2>3. QED
      BY <2>1, <2>2, NoRatingMoves DEF RatingInv
  <1>2. CASE UNCHANGED reviewsVars
    <2>1. UNCHANGED <<completed, review, profile, draft, moderation, apart>>
      BY <1>2 DEF reviewsVars
    <2>2. ReviewsTypeOK'
      BY <2>1 DEF RatingInv, ReviewsTypeOK
    <2>3. QED
      BY <2>1, <2>2, NoRatingMoves DEF RatingInv
  <1>3. QED
    BY <1>1, <1>2, InsertReviewStep, FindReviewStep, SaveVerdictStep, AggregateStep, UpdateRatingStep,
       BreakOffModerationStep DEF ReviewsNext

\* The invariant of reviews holds in every state: types and, while moderations take
\* turns, the sum and the count they work with (recomputeStylistRating).
THEOREM RatingInvariantHolds == ReviewsSpec => []RatingInv
  BY RatingBegins, RatingGoesOn, PTL DEF ReviewsSpec

\* The rating on the profile is that of exactly the reviews the public page lists,
\* while moderations take turns (moderateReview, recomputeStylistRating,
\* listStylistReviews), for any number of reviews and reviewers.
THEOREM RatingCounts == ReviewsSpec => []RatingCountsWhatIsShown
  <1>1. ASSUME RatingInv
        PROVE  RatingCountsWhatIsShown
    <2>1. SUFFICES ASSUME apart, Moderating = {}
                   PROVE  /\ profile = [sum |-> StarsOf(Visible), count |-> Cardinality(Visible)]
                          /\ \A u \in Reviewers : \A page \in PublicPage(u) :
                                /\ page.total = profile.count
                                /\ page.items \cap (AdminList("pending") \cup AdminList("rejected")) = {}
                                /\ page.items \cup (OwnReviews(u) \cap Visible) = AdminList("approved")
      BY DEF RatingCountsWhatIsShown
    <2>2. \A m \in Desk : moderation[m].step = "idle"
      BY <2>1 DEF Moderating
    <2>3. profile = [sum |-> StarsOf(Visible), count |-> Cardinality(Visible)]
      BY <1>1, <2>1, <2>2 DEF RatingInv, RatingFollows, Rating
    <2>4. ASSUME NEW u \in Reviewers, NEW page \in PublicPage(u)
          PROVE  /\ page.total = profile.count
                 /\ page.items \cap (AdminList("pending") \cup AdminList("rejected")) = {}
                 /\ page.items \cup (OwnReviews(u) \cap Visible) = AdminList("approved")
      <3>1. AdminList("approved") = Visible /\ Visible \cap (AdminList("pending") \cup AdminList("rejected")) = {}
        BY DEF AdminList, Visible
      <3>2. page.total = Cardinality(Visible) /\ page.items \in SUBSET Visible /\ Visible \subseteq page.items \cup OwnReviews(u)
        BY <2>4 DEF PublicPage
      <3>3. QED
        BY <2>3, <3>1, <3>2
    <2>5. QED
      BY <2>3, <2>4
  <1>2. QED
    BY <1>1, RatingInvariantHolds, PTL

-----------------------------------------------------------------------------
(* Cancellation policies                                                   *)

\* Of a finite set with one element at most any two elements are one.
LEMMA OneAtMost ==
  ASSUME NEW S, IsFiniteSet(S), Cardinality(S) <= 1, NEW x \in S, NEW y \in S
  PROVE  x = y
  <1>1. IsFiniteSet(S \ {x}) /\ Cardinality(S \ {x}) = Cardinality(S) - 1
    BY FS_RemoveElement
  <1>2. Cardinality(S) \in Nat /\ Cardinality(S \ {x}) \in Nat
    BY <1>1, FS_CardinalityType
  <1>3. S \ {x} = {}
    BY <1>1, <1>2, FS_EmptySet
  <1>4. QED
    BY <1>3

\* A list of services is a sequence with a first element.
LEMMA OrderTypes ==
  ASSUME NEW q \in Orders
  PROVE  \E n \in Nat : n >= 1 /\ q \in [1..n -> Services]
  BY DEF Orders

\* What applies to one service: its own policy, or what applies to all.
Otherwise(place) ==
    IF own # NoPolicy THEN own
    ELSE IF place # NoPlace /\ ofSalon[place] # NoPolicy THEN ofSalon[place]
    ELSE System

\* For an order of one service its own policy applies, or else what applies otherwise.
LEMMA ResolveOne ==
  ASSUME NEW s, NEW place
  PROVE  Resolve(<<s>>, place) = IF perService[s] # NoPolicy THEN perService[s] ELSE Otherwise(place)
  <1> DEFINE q == <<s>>
  <1>1. DOMAIN q = {1} /\ q[1] = s
    OBVIOUS
  <1>2. FirstWith(q) = IF perService[s] # NoPolicy THEN {1} ELSE {}
    BY <1>1 DEF FirstWith
  <1>3. CASE perService[s] # NoPolicy
    <2>1. FirstWith(q) = {1} /\ (CHOOSE i \in FirstWith(q) : TRUE) = 1
      BY <1>2, <1>3
    <2>2. QED
      BY <1>1, <1>3, <2>1 DEF Resolve
  <1>4. CASE perService[s] = NoPolicy
    BY <1>2, <1>4 DEF Resolve, Otherwise
  <1>5. QED
    BY <1>3, <1>4

\* The terms of several services are the terms of one of them.
LEMMA ResolvesToOne ==
  ASSUME NEW n \in Nat, n >= 1, NEW q \in [1..n -> Services], NEW place
  PROVE  \E i \in 1..n : Resolve(q, place) = PerService(q, place)[i]
  <1>1. \A i \in 1..n : PerService(q, place)[i]
            = IF perService[q[i]] # NoPolicy THEN perService[q[i]] ELSE Otherwise(place)
    BY ResolveOne DEF PerService
  <1>2. CASE FirstWith(q) # {}
    <2>1. PICK i \in FirstWith(q) : i = (CHOOSE j \in FirstWith(q) : TRUE)
      BY <1>2
    <2>2. i \in 1..n /\ perService[q[i]] # NoPolicy /\ Resolve(q, place) = perService[q[i]]
      BY <1>2, <2>1 DEF FirstWith, Resolve
    <2>3. QED
      BY <1>1, <2>2
  <1>3. CASE FirstWith(q) = {}
    <2>1. 1 \in 1..n /\ 1 \in DOMAIN q
      OBVIOUS
    <2>2. perService[q[1]] = NoPolicy
      BY <1>3, <2>1 DEF FirstWith
    <2>3. Resolve(q, place) = Otherwise(place)
      BY <1>3 DEF Resolve, Otherwise
    <2>4. QED
      BY <1>1, <2>1, <2>2, <2>3
  <1>4. QED
    BY <1>2, <1>3

\* When all services have the same terms, these are the terms of all together.
LEMMA UniformTerms ==
  ASSUME NEW n \in Nat, n >= 1, NEW q \in [1..n -> Services], NEW place, Uniform(q, place)
  PROVE  Resolve(q, place) = Common(q, place)
  <1> DEFINE f == PerService(q, place)
             T == {f[i] : i \in 1..n}
  <1>1. DOMAIN q = 1..n /\ f \in Surjection(1..n, T)
    BY DEF PerService, Surjection
  <1>2. IsFiniteSet(1..n)
    BY FS_Interval
  <1>3. IsFiniteSet(T)
    BY <1>1, <1>2, FS_Surjection
  <1>4. T = {PolicyKey(PerService(q, place)[i]) : i \in DOMAIN q}
    BY <1>1 DEF PolicyKey
  <1>5. Cardinality(T) <= 1
    BY <1>4 DEF Uniform
  <1>6. Resolve(q, place) \in T
    BY ResolvesToOne
  <1>7. Common(q, place) \in T
    BY DEF Common
  <1>8. QED
    <2> HIDE DEF T
    <2>1. QED
      BY <1>3, <1>5, <1>6, <1>7, OneAtMost

-----------------------------------------------------------------------------

\* What was accepted for a service is what applies to it, unless its deciding policy was set
\* anew since; a copy of the list that is not old is the list.
AcceptedApply ==
    booked # NoReservation =>
        /\ booked.services \in Orders
        /\ \A i \in DOMAIN booked.services :
              Deciding(booked.services[i], booked.place) \cap setAnew = {} => booked.accepted[i] = Applied(i)
Draft(target, p, list, old) == [step |-> "save", target |-> target, policy |-> p, list |-> list, old |-> old]
CopiesFresh ==
    /\ perService = [s \in Services |-> perService[s]] /\ ofSalon = [p \in Places |-> ofSalon[p]]
    /\ draftPolicy = [w \in Writers |-> draftPolicy[w]]
    /\ \A w \in Writers : draftPolicy[w].step = "save" =>
          /\ draftPolicy[w] = Draft(draftPolicy[w].target, draftPolicy[w].policy, draftPolicy[w].list, draftPolicy[w].old)
          /\ draftPolicy[w].target \in Services \cup {AllServices}
          /\ ~draftPolicy[w].old => draftPolicy[w].list = perService

PolicyInv == AcceptedApply /\ CopiesFresh

\* What applies to one service in the next state.
LEMMA ResolveNext ==
  ASSUME NEW s, NEW place
  PROVE  Resolve(<<s>>, place)' = IF perService'[s] # NoPolicy THEN perService'[s] ELSE Otherwise(place)'
  <1> DEFINE q == <<s>>
  <1>1. DOMAIN q = {1} /\ q[1] = s
    OBVIOUS
  <1>2. FirstWith(q)' = IF perService'[s] # NoPolicy THEN {1} ELSE {}
    BY <1>1 DEF FirstWith
  <1>3. CASE perService'[s] # NoPolicy
    <2>1. FirstWith(q)' = {1} /\ (CHOOSE i \in FirstWith(q)' : TRUE) = 1
      BY <1>2, <1>3
    <2>2. QED
      BY <1>1, <1>3, <2>1 DEF Resolve
  <1>4. CASE perService'[s] = NoPolicy
    BY <1>2, <1>4 DEF Resolve, Otherwise
  <1>5. QED
    BY <1>3, <1>4

\* What applies to one of the services booked.
LEMMA AppliedIs ==
  ASSUME NEW i \in DOMAIN booked.services
  PROVE  Applied(i) = IF perService[booked.services[i]] # NoPolicy THEN perService[booked.services[i]]
                  ELSE Otherwise(booked.place)
  BY ResolveOne DEF Applied, PerService

\* What is not set anew stays as it is, so does what it decides.
LEMMA TermsStay ==
  ASSUME AcceptedApply, booked' = booked,
         booked # NoReservation =>
            /\ setAnew \subseteq setAnew'
            /\ \A s \in Services : s \notin setAnew' => perService'[s] = perService[s]
            /\ AllServices \notin setAnew' => own' = own
            /\ \A p \in Places \cup {NoPlace} : p \notin setAnew' /\ p # NoPlace => ofSalon'[p] = ofSalon[p],
         booked # NoReservation => booked.place \in Places \cup {NoPlace}
  PROVE  AcceptedApply'
  <1> SUFFICES ASSUME booked # NoReservation, NEW i \in DOMAIN booked.services,
                      Deciding(booked.services[i], booked.place)' \cap setAnew' = {}
               PROVE  booked.accepted[i] = Applied(i)'
    BY DEF AcceptedApply
  <1> DEFINE s == booked.services[i]
             p == booked.place
  <1>1. s \in Services
    BY OrderTypes DEF AcceptedApply
  <1>2. s \notin setAnew' /\ perService'[s] = perService[s]
    BY <1>1 DEF Deciding
  <1>3. Applied(i)' = IF perService'[s] # NoPolicy THEN perService'[s] ELSE Otherwise(p)'
    <2>1. Resolve(<<s>>, p)' = IF perService'[s] # NoPolicy THEN perService'[s] ELSE Otherwise(p)'
      BY ResolveNext
    <2>2. Applied(i)' = Resolve(<<s>>, p)'
      BY DEF Applied, PerService
    <2>3. QED
      BY <2>1, <2>2
  <1>4. CASE perService[s] # NoPolicy
    <2>1. Deciding(s, p) \cap setAnew = {}
      BY <1>2, <1>4 DEF Deciding
    <2>2. QED
      BY <1>2, <1>3, <1>4, <2>1, AppliedIs DEF AcceptedApply
  <1>5. CASE perService[s] = NoPolicy /\ own # NoPolicy
    <2>1. AllServices \notin setAnew'
      BY <1>2, <1>5 DEF Deciding
    <2>2. own' = own
      BY <2>1
    <2>3. Deciding(s, p) \cap setAnew = {}
      BY <1>2, <1>5, <2>1 DEF Deciding
    <2>4. QED
      BY <1>2, <1>3, <1>5, <2>2, <2>3, AppliedIs DEF AcceptedApply, Otherwise
  <1>6. CASE perService[s] = NoPolicy /\ own = NoPolicy
    <2>1. AllServices \notin setAnew'
      BY <1>2, <1>6 DEF Deciding
    <2>2. own' = own
      BY <2>1
    <2>3. p \notin setAnew'
      BY <1>2, <1>6, <2>2 DEF Deciding
    <2>4. p # NoPlace => ofSalon'[p] = ofSalon[p]
      BY <2>3
    <2>5. Deciding(s, p) \cap setAnew = {}
      BY <1>2, <1>6, <2>1, <2>3 DEF Deciding
    <2>6. QED
      BY <1>2, <1>3, <1>6, <2>2, <2>4, <2>5, AppliedIs DEF AcceptedApply, Otherwise
  <1>7. QED
    BY <1>4, <1>5, <1>6

\* The place of a booking is a salon, or none.
Booked(services, place, accepted, created) ==
    [services |-> services, place |-> place, accepted |-> accepted, created |-> created]
Placed ==
    /\ members \subseteq Places
    /\ booked # NoReservation =>
          /\ booked.place \in Places \cup {NoPlace}
          /\ booked = Booked(booked.services, booked.place, booked.accepted, booked.created)
TermsInv == PolicyInv /\ Placed

\* Records of a draft and of a booking, with one field written.
LEMMA DraftMarked ==
  ASSUME NEW a, NEW b, NEW c, NEW e, NEW f
  PROVE  /\ [Draft(a, b, c, e) EXCEPT !.old = f] = Draft(a, b, c, f)
         /\ Draft(a, b, c, e).step = "save" /\ Draft(a, b, c, e).target = a /\ Draft(a, b, c, e).policy = b
         /\ Draft(a, b, c, e).list = c /\ Draft(a, b, c, e).old = e
  <1>1. /\ Draft(a, b, c, e).step = "save" /\ Draft(a, b, c, e).target = a /\ Draft(a, b, c, e).policy = b
        /\ Draft(a, b, c, e).list = c /\ Draft(a, b, c, e).old = e
    BY DEF Draft
  <1>2. [Draft(a, b, c, e) EXCEPT !.old = f] = Draft(a, b, c, f)
    BY DEF Draft
  <1>3. QED
    BY <1>1, <1>2

LEMMA BookedKept ==
  ASSUME NEW a, NEW b, NEW c, NEW e, NEW f
  PROVE  /\ [Booked(a, b, c, e) EXCEPT !.created = f] = Booked(a, b, c, f)
         /\ Booked(a, b, c, e).services = a /\ Booked(a, b, c, e).place = b
         /\ Booked(a, b, c, e).accepted = c /\ Booked(a, b, c, e).created = e
  <1>1. /\ Booked(a, b, c, e).services = a /\ Booked(a, b, c, e).place = b
        /\ Booked(a, b, c, e).accepted = c /\ Booked(a, b, c, e).created = e
    BY DEF Booked
  <1>2. [Booked(a, b, c, e) EXCEPT !.created = f] = Booked(a, b, c, f)
    BY DEF Booked
  <1>3. QED
    BY <1>1, <1>2

\* A call of the settings begins.
LEMMA DraftBegins ==
  ASSUME TermsInv, NEW w \in Writers, NEW target \in Services \cup {AllServices}, NEW p,
         draftPolicy' = [draftPolicy EXCEPT ![w] = [step |-> "save", target |-> target,
            policy |-> p, list |-> perService, old |-> FALSE]],
         UNCHANGED <<own, perService, ofSalon, members, booked, setAnew>>
  PROVE  TermsInv'
  <1> USE DEF TermsInv, PolicyInv
  <1>1. CopiesFresh'
    <2>0. PICK no \in BOOLEAN : no = FALSE
      OBVIOUS
    <2> DEFINE d == Draft(target, p, perService, no)
    <2>1. d = Draft(d.target, d.policy, d.list, d.old) /\ d.target = target /\ d.list = perService
      BY DraftMarked
    <2>2. draftPolicy' = [draftPolicy EXCEPT ![w] = d]
      BY <2>0 DEF Draft
    <2> HIDE DEF d
    <2>3. draftPolicy' = [v \in Writers |-> IF v = w THEN d ELSE draftPolicy[v]]
      BY <2>2 DEF CopiesFresh
    <2>4. QED
      BY <2>1, <2>3 DEF CopiesFresh
  <1>2. AcceptedApply'
    BY TermsStay DEF Placed
  <1>3. QED
    BY <1>1, <1>2 DEF Placed

\* A call of the settings ends with the stylist's own terms.
LEMMA SaveOwnKeeps ==
  ASSUME TermsInv, NEW w \in Writers, SaveOwn(w)
  PROVE  TermsInv'
  <1> USE DEF TermsInv, PolicyInv
  <1>1. /\ draftPolicy' = [draftPolicy EXCEPT ![w] = NoDraft]
        /\ setAnew' = IF booked = NoReservation THEN {} ELSE setAnew \cup {AllServices}
        /\ UNCHANGED <<perService, ofSalon, members, booked>>
    BY DEF SaveOwn, SetAnew
  <1>2. draftPolicy' = [v \in Writers |-> IF v = w THEN NoDraft ELSE draftPolicy[v]]
    BY <1>1 DEF CopiesFresh
  <1>3. CopiesFresh'
    BY <1>1, <1>2 DEF CopiesFresh, NoDraft
  <1>4. AcceptedApply'
    BY <1>1, TermsStay DEF Placed
  <1>5. QED
    BY <1>1, <1>3, <1>4 DEF Placed

\* A call of the settings ends with the terms of one service.
LEMMA SaveListKeeps ==
  ASSUME TermsInv, NEW w \in Writers, SaveList(w)
  PROVE  TermsInv'
  <1> USE DEF TermsInv, PolicyInv
  <1> DEFINE d == draftPolicy[w]
             Marked(v) == IF v = w THEN NoDraft
                          ELSE IF draftPolicy[v].step = "save" /\ ~d.old THEN [draftPolicy[v] EXCEPT !.old = TRUE]
                          ELSE draftPolicy[v]
  <1>1. /\ d.step = "save" /\ d.target \in Services
        /\ perService' = IF d.old THEN perService ELSE [d.list EXCEPT ![d.target] = d.policy]
        /\ draftPolicy' = [v \in Writers |-> Marked(v)]
        /\ setAnew' = IF booked = NoReservation THEN {} ELSE setAnew \cup (IF d.old THEN {} ELSE {d.target})
        /\ UNCHANGED <<own, ofSalon, members, booked>>
    BY DEF SaveList, SetAnew, CopiesFresh
  <1>2. ~d.old => perService' = [s \in Services |-> IF s = d.target THEN d.policy ELSE perService[s]]
    BY <1>1 DEF CopiesFresh
  <1>3. perService' = [s \in Services |-> perService'[s]]
    BY <1>1, <1>2 DEF CopiesFresh
  <1>4. ASSUME NEW v \in Writers, draftPolicy'[v].step = "save"
        PROVE  /\ draftPolicy'[v] = Draft(draftPolicy'[v].target, draftPolicy'[v].policy, draftPolicy'[v].list, draftPolicy'[v].old)
               /\ draftPolicy'[v].target \in Services \cup {AllServices}
               /\ ~draftPolicy'[v].old => draftPolicy'[v].list = perService'
    <2>1. v # w /\ draftPolicy'[v] = Marked(v)
      BY <1>1, <1>4 DEF NoDraft
    <2>2. CASE draftPolicy[v].step = "save" /\ ~d.old
      <3>1. PICK yes \in BOOLEAN : yes = TRUE
        OBVIOUS
      <3>2. draftPolicy'[v] = [draftPolicy[v] EXCEPT !.old = yes]
        BY <2>1, <2>2, <3>1
      <3>3. /\ draftPolicy[v] = Draft(draftPolicy[v].target, draftPolicy[v].policy, draftPolicy[v].list, draftPolicy[v].old)
            /\ draftPolicy[v].target \in Services \cup {AllServices}
        BY <2>2 DEF CopiesFresh
      <3>4. draftPolicy'[v] = Draft(draftPolicy[v].target, draftPolicy[v].policy, draftPolicy[v].list, yes)
        BY <3>2, <3>3, DraftMarked
      <3>5. /\ draftPolicy'[v].target = draftPolicy[v].target /\ draftPolicy'[v].policy = draftPolicy[v].policy
            /\ draftPolicy'[v].list = draftPolicy[v].list /\ draftPolicy'[v].old = yes
        BY <3>4, DraftMarked
      <3>6. draftPolicy'[v] = Draft(draftPolicy'[v].target, draftPolicy'[v].policy, draftPolicy'[v].list, draftPolicy'[v].old)
        BY <3>4, <3>5
      <3>7. draftPolicy'[v].old
        BY <3>1, <3>5
      <3>8. QED
        BY <3>3, <3>5, <3>6, <3>7
    <2>3. CASE ~(draftPolicy[v].step = "save" /\ ~d.old)
      <3>1. draftPolicy'[v] = draftPolicy[v] /\ d.old
        BY <1>4, <2>1, <2>3
      <3>2. perService' = perService
        BY <1>1, <3>1
      <3>3. QED
        BY <1>4, <3>1, <3>2 DEF CopiesFresh
    <2>4. QED
      BY <2>2, <2>3
  <1>5. CopiesFresh'
    <2>1. draftPolicy' = [v \in Writers |-> draftPolicy'[v]]
      BY <1>1
    <2>2. ofSalon' = [p \in Places |-> ofSalon'[p]]
      BY <1>1 DEF CopiesFresh
    <2> HIDE DEF Marked, d
    <2>3. QED
      BY <1>3, <1>4, <2>1, <2>2 DEF CopiesFresh
  <1>6. AcceptedApply'
    <2>1. \A s \in Services : s \notin setAnew' /\ booked # NoReservation => perService'[s] = perService[s]
      BY <1>1, <1>2
    <2>2. QED
      BY <1>1, <2>1, TermsStay DEF Placed
  <1>7. QED
    BY <1>1, <1>5, <1>6 DEF Placed

\* Everybody else sets terms, moves, opens and closes.
LEMMA OthersKeep ==
  ASSUME TermsInv, OthersNext
  PROVE  TermsInv'
  <1> USE DEF TermsInv, PolicyInv
  <1>1. ASSUME NEW p, AdminSetPolicy(p)
        PROVE  TermsInv'
    <2>1. /\ setAnew' = IF booked = NoReservation THEN {} ELSE setAnew \cup {AllServices}
          /\ UNCHANGED <<perService, ofSalon, members, booked, draftPolicy>>
      BY <1>1 DEF AdminSetPolicy, SetAnew
    <2>2. AcceptedApply'
      BY <2>1, TermsStay DEF Placed
    <2>3. QED
      BY <2>1, <2>2 DEF Placed, CopiesFresh
  <1>2. ASSUME NEW p, NEW place \in Places, SetSalonPolicy(place, p)
        PROVE  TermsInv'
    <2>1. /\ setAnew' = IF booked = NoReservation THEN {} ELSE setAnew \cup {place}
          /\ ofSalon' = [ofSalon EXCEPT ![place] = p]
          /\ UNCHANGED <<own, perService, members, booked, draftPolicy>>
      BY <1>2 DEF SetSalonPolicy, SetAnew
    <2>2. ofSalon' = [x \in Places |-> IF x = place THEN p ELSE ofSalon[x]]
      BY <2>1 DEF CopiesFresh
    <2>3. \A x \in Places \cup {NoPlace} : x \notin setAnew' /\ x # NoPlace /\ booked # NoReservation => ofSalon'[x] = ofSalon[x]
      BY <2>1, <2>2
    <2>4. AcceptedApply'
      BY <2>1, <2>3, TermsStay DEF Placed
    <2>5. QED
      BY <2>1, <2>2, <2>4 DEF Placed, CopiesFresh
  <1>3. ASSUME NEW place \in Places, JoinOrLeave(place) \/ SetStatus(place)
        PROVE  TermsInv'
    <2>1. /\ UNCHANGED <<own, perService, ofSalon, booked, draftPolicy, setAnew>>
          /\ members' \subseteq Places
      BY <1>3 DEF JoinOrLeave, SetStatus, Placed
    <2>2. AcceptedApply'
      BY <2>1, TermsStay DEF Placed
    <2>3. QED
      BY <2>1, <2>2 DEF Placed, CopiesFresh
  <1>4. QED
    BY <1>1, <1>2, <1>3 DEF OthersNext

\* A customer accepts the terms and books.
LEMMA CustomerKeeps ==
  ASSUME TermsInv, CustomerNext
  PROVE  TermsInv'
  <1> USE DEF TermsInv, PolicyInv
  <1>1. ASSUME NEW q \in Orders, NEW place \in Bookable, AcceptTerms(q, place)
        PROVE  TermsInv'
    <2>1. /\ booked' = [services |-> q, place |-> place, accepted |-> PerService(q, place), created |-> FALSE]
          /\ UNCHANGED <<own, perService, ofSalon, members, draftPolicy>>
      BY <1>1 DEF AcceptTerms
    <2>2. /\ booked'.services = q /\ booked'.place = place /\ booked'.accepted = PerService(q, place)
          /\ booked' = Booked(booked'.services, booked'.place, booked'.accepted, booked'.created)
      <3>1. PICK no \in BOOLEAN : no = FALSE
        OBVIOUS
      <3>2. booked' = Booked(q, place, PerService(q, place), no)
        BY <2>1, <3>1 DEF Booked
      <3>3. QED
        BY <3>2, BookedKept
    <2>3. \A x, y : Resolve(x, y)' = Resolve(x, y)
      BY <2>1 DEF Resolve, FirstWith
    <2>4. \A i \in DOMAIN q : Applied(i)' = PerService(q, place)[i]
      BY <2>2, <2>3 DEF Applied, PerService
    <2>5. Orders' = Orders
      BY DEF Orders
    <2>6. AcceptedApply'
      BY <2>2, <2>4, <2>5 DEF AcceptedApply
    <2>7. place \in Places \cup {NoPlace} /\ CopiesFresh'
      BY <1>1, <2>1 DEF CopiesFresh, Bookable, Placed
    <2>8. QED
      BY <2>1, <2>2, <2>6, <2>7 DEF Placed
  <1>2. ASSUME CreateReservation
        PROVE  TermsInv'
    <2>1. /\ booked # NoReservation /\ booked' = [booked EXCEPT !.created = TRUE]
          /\ UNCHANGED <<own, perService, ofSalon, members, draftPolicy, setAnew>>
      BY <1>2 DEF CreateReservation
    <2>2. /\ booked'.services = booked.services /\ booked'.place = booked.place /\ booked'.accepted = booked.accepted
          /\ booked' = Booked(booked'.services, booked'.place, booked'.accepted, booked'.created)
      <3>1. PICK yes \in BOOLEAN : yes = TRUE
        OBVIOUS
      <3>2. booked' = [booked EXCEPT !.created = yes]
        BY <2>1, <3>1
      <3>3. booked = Booked(booked.services, booked.place, booked.accepted, booked.created)
        BY <2>1 DEF Placed
      <3>4. booked' = Booked(booked.services, booked.place, booked.accepted, yes)
        BY <3>2, <3>3, BookedKept
      <3>5. QED
        BY <3>4, BookedKept
    <2>3. \A x, y : Resolve(x, y)' = Resolve(x, y)
      BY <2>1 DEF Resolve, FirstWith
    <2>4. \A i \in DOMAIN booked.services : Applied(i)' = Applied(i)
      BY <2>2, <2>3 DEF Applied, PerService
    <2>5. Orders' = Orders /\ \A s, p : Deciding(s, p)' = Deciding(s, p)
      BY <2>1 DEF Orders, Deciding
    <2>6. AcceptedApply'
      BY <2>1, <2>2, <2>4, <2>5 DEF AcceptedApply
    <2>7. QED
      BY <2>1, <2>2, <2>6 DEF Placed, CopiesFresh
  <1>3. QED
    BY <1>1, <1>2 DEF CustomerNext

\* Every step keeps what was accepted for a service whose deciding policy is not set anew.
LEMMA TermsGoOn ==
  ASSUME TermsInv, [PoliciesNext]_policyVars
  PROVE  TermsInv'
  <1>1. CASE UNCHANGED policyVars
    <2>1. UNCHANGED <<own, perService, ofSalon, members, booked, draftPolicy, setAnew>>
      BY <1>1 DEF policyVars
    <2>2. AcceptedApply'
      BY <2>1, TermsStay DEF TermsInv, PolicyInv, Placed
    <2>3. QED
      BY <2>1, <2>2 DEF TermsInv, PolicyInv, Placed, CopiesFresh
  <1>2. CASE SettingsNext
    <2>1. ASSUME NEW w \in Writers, NEW t \in Services \cup {AllServices}, ReadToClear(w, t)
          PROVE  TermsInv'
      BY <2>1, DraftBegins DEF ReadToClear
    <2>2. ASSUME NEW w \in Writers, NEW t \in Services \cup {AllServices}, NEW b \in Bodies, ReadToSet(w, t, b)
          PROVE  TermsInv'
      BY <2>2, DraftBegins DEF ReadToSet
    <2>3. ASSUME NEW t, ChangePlan(t)
          PROVE  TermsInv'
      <3>1. UNCHANGED <<own, perService, ofSalon, members, booked, draftPolicy, setAnew>>
        BY <2>3 DEF ChangePlan
      <3>2. AcceptedApply'
        BY <3>1, TermsStay DEF TermsInv, PolicyInv, Placed
      <3>3. QED
        BY <3>1, <3>2 DEF TermsInv, PolicyInv, Placed, CopiesFresh
    <2>4. QED
      BY <1>2, <2>1, <2>2, <2>3, SaveOwnKeeps, SaveListKeeps DEF SettingsNext
  <1>3. QED
    BY <1>1, <1>2, OthersKeep, CustomerKeeps DEF PoliciesNext

\* What the settings screen says is what a booking is offered in the salon found, and it
\* differs from the booking page only as TermsShownAreTermsApplied says.
LEMMA ScreensAgree ==
  ASSUME NEW s \in Services, NEW seen \in Found, NEW found \in Found, members \subseteq Places
  PROVE  /\ Explained(s, seen) = Resolve(<<s>>, IF seen \in open THEN seen ELSE NoPlace)
         /\ \/ BookingPolicy(<<s>>, found) = Explained(s, seen)
            \/ own = NoPolicy /\ perService[s] = NoPolicy /\ (found # seen \/ found \notin open)
  <1> DEFINE o == PolicyOverview(seen)
             ps == {t \in Services : perService[t] # NoPolicy}
  <1>2. /\ DOMAIN o.perService = ps /\ \A t \in ps : o.perService[t] = perService[t]
        /\ o.own = own /\ o.systemDefault = System
        /\ o.salon = IF seen = NoPlace \/ seen \notin open THEN NoPolicy ELSE ofSalon[seen]
    BY DEF PolicyOverview
  <1>3. Explained(s, seen) = IF s \in DOMAIN o.perService THEN o.perService[s]
                             ELSE IF o.own # NoPolicy THEN o.own
                             ELSE IF o.salon # NoPolicy THEN o.salon ELSE o.systemDefault
    BY DEF Explained
  <1> HIDE DEF o
  <1>4. Explained(s, seen) = IF perService[s] # NoPolicy THEN perService[s]
                             ELSE IF own # NoPolicy THEN own
                             ELSE IF seen # NoPlace /\ seen \in open /\ ofSalon[seen] # NoPolicy THEN ofSalon[seen]
                             ELSE System
    BY <1>2, <1>3
  <1>5. Explained(s, seen) = Resolve(<<s>>, IF seen \in open THEN seen ELSE NoPlace)
    BY <1>4, ResolveOne DEF Otherwise
  <1>6. \/ BookingPolicy(<<s>>, found) = Explained(s, seen)
        \/ own = NoPolicy /\ perService[s] = NoPolicy /\ (found # seen \/ found \notin open)
    BY <1>4, ResolveOne DEF Otherwise, BookingPolicy
  <1>7. QED
    BY <1>5, <1>6

\* The boxes a customer is shown, the settings screen, the booking page and a cancel agree on
\* the terms, and a cancel departs from what was accepted only for a service whose deciding
\* policy was set anew (resolveCancellationPolicy, resolvePerServicePolicies,
\* getStylistPolicyOverview, getStylistBookingPolicy, previewReservationPolicy).
THEOREM TermsApply == PoliciesSpec => []TermsShownAreTermsApplied
  <1>1. PoliciesInit => TermsInv
    <2> SUFFICES ASSUME PoliciesInit
                 PROVE  TermsInv
      OBVIOUS
    <2>1. booked = NoReservation /\ members = {} /\ \A w \in Writers : draftPolicy[w].step # "save"
      BY DEF PoliciesInit, NoDraft
    <2>2. CopiesFresh
      BY <2>1 DEF PoliciesInit, CopiesFresh
    <2>3. QED
      BY <2>1, <2>2 DEF TermsInv, PolicyInv, AcceptedApply, Placed
  <1>2. TermsInv /\ [PoliciesNext]_policyVars => TermsInv'
    BY TermsGoOn
  <1>3. ASSUME TermsInv
        PROVE  TermsShownAreTermsApplied
    <2>1. ASSUME NEW q \in Orders, NEW place
          PROVE  /\ Resolve(q, place) \in {PerService(q, place)[i] : i \in DOMAIN q}
                 /\ Uniform(q, place) => Resolve(q, place) = Common(q, place)
      <3>1. PICK n \in Nat : n >= 1 /\ q \in [1..n -> Services]
        BY <2>1, OrderTypes
      <3>2. QED
        BY <3>1, ResolvesToOne, UniformTerms
    <2>2. ASSUME NEW s \in Services, NEW seen \in Found
          PROVE  /\ Explained(s, seen) = Resolve(<<s>>, IF seen \in open THEN seen ELSE NoPlace)
                 /\ \A found \in Found :
                       \/ BookingPolicy(<<s>>, found) = Explained(s, seen)
                       \/ own = NoPolicy /\ perService[s] = NoPolicy /\ (found # seen \/ found \notin open)
      BY <1>3, <2>2, ScreensAgree DEF TermsInv, Placed
    <2>3. ASSUME booked.created, NEW notice
          PROVE  CancelPercent(notice) \in {RefundPercentFor(Promised(i), notice) : i \in DOMAIN booked.services}
      <3>1. booked # NoReservation
        BY <2>3 DEF NoReservation
      <3>2. /\ booked.services \in Orders
            /\ \A i \in DOMAIN booked.services : Promised(i) = Applied(i)
        BY <1>3, <3>1 DEF TermsInv, PolicyInv, AcceptedApply, Promised
      <3>3. PICK i \in DOMAIN booked.services : Resolve(booked.services, booked.place) = Applied(i)
        BY <2>1, <3>2 DEF Applied
      <3>4. QED
        BY <3>2, <3>3 DEF CancelPercent
    <2>4. QED
      BY <2>1, <2>2, <2>3 DEF TermsShownAreTermsApplied
  <1>4. QED
    BY <1>1, <1>2, <1>3, PTL DEF PoliciesSpec

-----------------------------------------------------------------------------
(* Questions, answers and likes of the community                           *)

Counting == {"liked", "unliked", "raise", "lower"}

\* What a call has found and done, as long as no other call is about the same heart:
\* it is the only one, and knows whether there is a row.
Tapping(v) ==
    visit[v].step \in Counting =>
        /\ visit[v].step \in {"liked", "raise"} <=> visit[v].who \in likeRows[visit[v].what]
        /\ \A w \in Visits : visit[w].step \in Counting /\ visit[w].who = visit[v].who /\ visit[w].what = visit[v].what
              => w = v

\* The members a counter counts.
Tallied(t) == (likeRows[t] \ Who(t, "raise")) \cup Who(t, "lower")

\* An answer that is not counted yet is one call's.
Answering(v) ==
    visit[v].step = "answered" =>
        /\ visit[v].what \in posted \ {Question}
        /\ \A w \in Visits : visit[w].step = "answered" /\ visit[w].what = visit[v].what => w = v

CountedAnswers == (posted \ {Question}) \ Uncounted

SignedIn == \A v \in Visits : visit[v].step # "away" => visit[v].who \in Members

CommunityInv ==
    /\ CommunityTypeOK /\ SignedIn
    /\ \A v \in Visits : Answering(v)
    /\ singly =>
          /\ \A v \in Visits : Tapping(v)
          /\ \A t \in Things : likeCount[t] = Cardinality(Tallied(t))
          /\ answerCount = Cardinality(CountedAnswers)

-----------------------------------------------------------------------------

\* The types of a call under way.
LEMMA VisitTypes ==
  ASSUME CommunityTypeOK, NEW v \in Visits, NEW step \in VisitSteps, NEW m \in Members \cup {Nobody}, NEW t \in Things
  PROVE  [visit EXCEPT ![v] = [step |-> step, who |-> m, what |-> t]]
            \in [Visits -> [step : VisitSteps, who : Members \cup {Nobody}, what : Things]]
  BY DEF CommunityTypeOK

\* Every action leaves its types.
LEMMA CommunityTypes ==
  ASSUME CommunityTypeOK, SignedIn, [CommunityNext]_communityVars
  PROVE  CommunityTypeOK' /\ SignedIn'
  <1> USE CommunityAssumption
  <1>1. CASE UNCHANGED communityVars
    BY <1>1 DEF communityVars, CommunityTypeOK, SignedIn
  <1>2. ASSUME NEW m \in Members, CreateQuestion(m) \/ ToggleSave(m) \/ SetBan(m)
        PROVE  CommunityTypeOK' /\ SignedIn'
    BY <1>2 DEF CreateQuestion, ToggleSave, SetBan, CommunityTypeOK, SignedIn
  <1>3. ASSUME NEW v \in Visits, NEW m \in Members, NEW t \in Things, AddAnswer(v, m, t) \/ FindLike(v, m, t)
        PROVE  CommunityTypeOK' /\ SignedIn'
    <2>1. PICK step \in VisitSteps : visit' = [visit EXCEPT ![v] = [step |-> step, who |-> m, what |-> t]]
      BY <1>3 DEF AddAnswer, FindLike, VisitSteps
    <2>2. visit' \in [Visits -> [step : VisitSteps, who : Members \cup {Nobody}, what : Things]]
      BY <2>1, VisitTypes
    <2>3. SignedIn'
      BY <2>1 DEF SignedIn, CommunityTypeOK
    <2>4. singly' \in BOOLEAN
      BY <1>3, Zenon DEF AddAnswer, FindLike, CommunityTypeOK
    <2>5. QED
      BY <1>3, <2>2, <2>3, <2>4 DEF AddAnswer, FindLike, CommunityTypeOK
  <1>4. ASSUME NEW v \in Visits, CountAnswer(v) \/ CreateLike(v) \/ DeleteLike(v) \/ CountLike(v) \/ DiscountLike(v)
                                   \/ BreakOffVisit(v)
        PROVE  CommunityTypeOK' /\ SignedIn'
    <2>1. visit[v] \in [step : VisitSteps, who : Members \cup {Nobody}, what : Things] /\ visit[v].what \in Things
      BY DEF CommunityTypeOK
    <2>2. Away \in [step : VisitSteps, who : Members \cup {Nobody}, what : Things]
      BY DEF Away, VisitSteps
    <2>3. CASE CountAnswer(v) \/ BreakOffVisit(v)
      <3>1. visit' = [visit EXCEPT ![v] = Away]
        BY <2>3 DEF CountAnswer, BreakOffVisit, Leave
      <3>2. visit' \in [Visits -> [step : VisitSteps, who : Members \cup {Nobody}, what : Things]] /\ SignedIn'
        BY <2>2, <3>1 DEF CommunityTypeOK, SignedIn, Away
      <3>3. QED
        <4>1. CASE CountAnswer(v)
          BY <3>2, <4>1 DEF CountAnswer, CommunityTypeOK
        <4>2. CASE BreakOffVisit(v)
          BY <3>2, <4>2 DEF BreakOffVisit, CommunityTypeOK
        <4>3. QED
          BY <2>3, <4>1, <4>2
    <2>4. CASE CountLike(v) \/ DiscountLike(v)
      <3>1. likeCount[visit[v].what] \in Nat
        BY <2>1 DEF CommunityTypeOK
      <3>2. PICK n \in Nat : likeCount' = [likeCount EXCEPT ![visit[v].what] = n]
        BY <2>4, <3>1 DEF CountLike, DiscountLike
      <3>3. likeCount' \in [Things -> Nat]
        BY <3>2 DEF CommunityTypeOK
      <3>4. QED
        BY <2>2, <2>4, <3>3 DEF CountLike, DiscountLike, Leave, CommunityTypeOK, SignedIn, Away
    <2>5. CASE CreateLike(v) \/ DeleteLike(v)
      <3>1. visit' \in [Visits -> [step : VisitSteps, who : Members \cup {Nobody}, what : Things]]
        BY <2>1, <2>5, VisitTypes DEF CreateLike, DeleteLike, GoTo, VisitSteps
      <3>2. likeRows' \in [Things -> SUBSET Members]
        <4>1. CASE DeleteLike(v)
          BY <2>1, <4>1 DEF DeleteLike, CommunityTypeOK
        <4>2. CASE CreateLike(v)
          <5>1. visit[v].who \in Members
            BY <4>2 DEF CreateLike, At, SignedIn
          <5>2. QED
            BY <2>1, <4>2, <5>1 DEF CreateLike, CommunityTypeOK
        <4>3. QED
          BY <2>5, <4>1, <4>2
      <3>3. SignedIn'
        BY <2>1, <2>5 DEF CreateLike, DeleteLike, GoTo, At, SignedIn, CommunityTypeOK
      <3>4. QED
        BY <2>5, <3>1, <3>2, <3>3 DEF CreateLike, DeleteLike, CommunityTypeOK
    <2>6. QED
      BY <1>4, <2>3, <2>4, <2>5
  <1>5. QED
    BY <1>1, <1>2, <1>3, <1>4 DEF CommunityNext

-----------------------------------------------------------------------------
\* The members of the calls at a step about a thing, one call left out.
Others(v, t, step) ==
    {visit[w].who : w \in {u \in Visits \ {v} : visit[u].step = step /\ visit[u].what = t}}

\* The members of the calls at a step are those of one call and of the others.
LEMMA WhoSplits ==
  ASSUME NEW v \in Visits, NEW t \in Things, NEW step
  PROVE  Who(t, step) = Others(v, t, step) \cup {m \in {visit[v].who} : visit[v].step = step /\ visit[v].what = t}
  BY DEF Who, Others, At

\* One call goes on and the rows of its thing follow: the counted members are the others'
\* and what the call's own member comes to.
CountsSplit ==
    \A v \in Visits, t \in Things : \A m :
        m \in Tallied(t) <=>
            \/ m \in likeRows[t] /\ m \notin Others(v, t, "raise")
                 /\ ~(m = visit[v].who /\ visit[v].what = t /\ visit[v].step = "raise")
            \/ m \in Others(v, t, "lower")
            \/ m = visit[v].who /\ visit[v].what = t /\ visit[v].step = "lower"

\* The members counted are those that the rows and the calls under way give.
LEMMA CountedSplits == CountsSplit
  BY WhoSplits DEF Tallied, CountsSplit

\* The members counted of a thing are finitely many.
LEMMA CountedFinite ==
  ASSUME CommunityTypeOK, SignedIn, NEW t \in Things
  PROVE  IsFiniteSet(Tallied(t)) /\ Tallied(t) \subseteq Members
  <1>1. Tallied(t) \subseteq Members
    BY DEF Tallied, Who, At, SignedIn, CommunityTypeOK
  <1>2. QED
    BY <1>1, FS_Subset, CommunityAssumption

\* A call that found its heart goes on: the members counted stay the same until it writes the
\* counter, and then the counter moves as they do.
LEMMA TapGoesOn ==
  ASSUME CommunityInv, singly, NEW v \in Visits,
         CreateLike(v) \/ DeleteLike(v) \/ CountLike(v) \/ DiscountLike(v), CommunityTypeOK', SignedIn'
  PROVE  /\ \A w \in Visits : Tapping(w)'
         /\ \A t \in Things : likeCount'[t] = Cardinality(Tallied(t)')
  <1> USE CommunityAssumption
  <1>1. PICK m, t : m = visit[v].who /\ t = visit[v].what
    OBVIOUS
  <1>2. /\ m \in Members /\ t \in Things
        /\ visit[v].step \in Counting
        /\ visit[v].step \in {"liked", "raise"} <=> m \in likeRows[t]
        /\ \A w \in Visits \ {v} : visit[w].step \in Counting => ~(visit[w].who = m /\ visit[w].what = t)
    <2>1. visit[v].step \in Counting
      BY DEF CreateLike, DeleteLike, CountLike, DiscountLike, At, Counting
    <2>2. visit[v].step # "away"
      BY <2>1 DEF Counting
    <2>3. m \in Members /\ t \in Things
      BY <1>1, <2>2 DEF CommunityInv, CommunityTypeOK, SignedIn
    <2>4. Tapping(v)
      BY DEF CommunityInv
    <2>5. QED
      BY <1>1, <2>1, <2>3, <2>4 DEF Tapping
  <1>3. /\ \A w \in Visits \ {v} : visit'[w] = visit[w]
        /\ visit'[v] = Away \/ (visit'[v].who = m /\ visit'[v].what = t /\ visit'[v].step \in {"raise", "lower"})
        /\ CreateLike(v) => visit'[v].step = "raise"
        /\ DeleteLike(v) => visit'[v].step = "lower"
        /\ CountLike(v) \/ DiscountLike(v) => visit'[v] = Away
    <2>1. DOMAIN visit = Visits
      BY DEF CommunityInv, CommunityTypeOK
    <2>2. CASE CreateLike(v) \/ DeleteLike(v)
      <3>1. PICK step \in {"raise", "lower"} : visit' = [visit EXCEPT ![v] = [step |-> step, who |-> m, what |-> t]]
        BY <1>1, <2>2 DEF CreateLike, DeleteLike, GoTo
      <3>2. visit'[v] = [step |-> step, who |-> m, what |-> t] /\ \A w \in Visits \ {v} : visit'[w] = visit[w]
        BY <2>1, <3>1
      <3>3. visit[v].step \in {"liked", "unliked"}
        BY <2>2 DEF CreateLike, DeleteLike, At
      <3>4. (CreateLike(v) => visit'[v].step = "raise") /\ (DeleteLike(v) => visit'[v].step = "lower")
        <4>1. CASE CreateLike(v)
          <5>1. visit'[v] = [step |-> "raise", who |-> visit[v].who, what |-> visit[v].what] /\ ~DeleteLike(v)
            BY <2>1, <4>1 DEF CreateLike, DeleteLike, GoTo, At
          <5>2. QED
            BY <5>1
        <4>2. CASE DeleteLike(v)
          <5>1. visit'[v] = [step |-> "lower", who |-> visit[v].who, what |-> visit[v].what] /\ ~CreateLike(v)
            BY <2>1, <4>2 DEF CreateLike, DeleteLike, GoTo, At
          <5>2. QED
            BY <5>1
        <4>3. QED
          BY <2>2, <4>1, <4>2
      <3>5. ~CountLike(v) /\ ~DiscountLike(v)
        BY <3>3 DEF CountLike, DiscountLike, At
      <3>6. QED
        BY <3>2, <3>4, <3>5
    <2>3. CASE CountLike(v) \/ DiscountLike(v)
      <3>1. visit'[v] = Away /\ \A w \in Visits \ {v} : visit'[w] = visit[w]
        BY <2>1, <2>3 DEF CountLike, DiscountLike, Leave
      <3>2. ~CreateLike(v) /\ ~DeleteLike(v)
        BY <2>3 DEF CreateLike, DeleteLike, CountLike, DiscountLike, At
      <3>3. QED
        BY <3>1, <3>2
    <2>4. QED
      BY <2>2, <2>3
  <1>4. /\ \A x \in Things \ {t} : likeRows'[x] = likeRows[x]
        /\ CreateLike(v) => likeRows'[t] = likeRows[t] \cup {m}
        /\ DeleteLike(v) => likeRows'[t] = likeRows[t] \ {m}
        /\ CountLike(v) \/ DiscountLike(v) => likeRows' = likeRows
    BY <1>1, <1>2 DEF CreateLike, DeleteLike, CountLike, DiscountLike, CommunityInv, CommunityTypeOK
  <1>5. /\ m \notin Others(v, t, "raise") /\ m \notin Others(v, t, "lower")
        /\ \A x, step : Others(v, x, step)' = Others(v, x, step)
    BY <1>2, <1>3 DEF Others, Counting
  <1>6. ASSUME NEW x \in Things \ {t}
        PROVE  Tallied(x)' = Tallied(x)
    <2>1. CountsSplit'
      BY CountedSplits, PTL
    <2>2. visit'[v].what = x => visit'[v].step = "away"
      BY <1>3, <1>6 DEF Away
    <2>3. QED
      <3>1. \A y : y \in Tallied(x) <=> (y \in likeRows[x] /\ y \notin Others(v, x, "raise")) \/ y \in Others(v, x, "lower")
        BY <1>1, <1>6, CountedSplits DEF CountsSplit
      <3>2. \A y : y \in Tallied(x)' <=> (y \in likeRows'[x] /\ y \notin Others(v, x, "raise")) \/ y \in Others(v, x, "lower")
        BY <1>5, <1>6, <2>1, <2>2 DEF CountsSplit
      <3>3. QED
        BY <1>4, <3>1, <3>2
  <1>7. /\ CreateLike(v) \/ DeleteLike(v) => Tallied(t)' = Tallied(t)
        /\ CountLike(v) => m \notin Tallied(t) /\ Tallied(t)' = Tallied(t) \cup {m}
        /\ DiscountLike(v) => m \in Tallied(t) /\ Tallied(t)' = Tallied(t) \ {m}
    <2>1. CountsSplit'
      BY CountedSplits, PTL
    <2>2. \A y : y \in Tallied(t) <=>
            \/ y \in likeRows[t] /\ y \notin Others(v, t, "raise") /\ ~(y = m /\ visit[v].step = "raise")
            \/ y \in Others(v, t, "lower")
            \/ y = m /\ visit[v].step = "lower"
      BY <1>1, <1>2, CountedSplits DEF CountsSplit
    <2>3. \A y : y \in Tallied(t)' <=>
            \/ y \in likeRows'[t] /\ y \notin Others(v, t, "raise") /\ ~(y = m /\ visit'[v].step = "raise")
            \/ y \in Others(v, t, "lower")
            \/ y = m /\ visit'[v].step = "lower"
      BY <1>2, <1>3, <1>5, <2>1 DEF Away, CountsSplit
    <2>4. CASE CreateLike(v)
      <3>1. visit[v].step = "unliked" /\ visit'[v].step = "raise" /\ likeRows'[t] = likeRows[t] \cup {m} /\ m \notin likeRows[t]
        BY <1>2, <1>3, <1>4, <2>4 DEF CreateLike, At
      <3>2. ~CountLike(v) /\ ~DiscountLike(v)
        BY <3>1 DEF CountLike, DiscountLike, At
      <3>3. Tallied(t)' = Tallied(t)
        BY <1>5, <2>2, <2>3, <3>1
      <3>4. QED
        BY <3>2, <3>3
    <2>5. CASE DeleteLike(v)
      <3>1. visit[v].step = "liked" /\ visit'[v].step = "lower" /\ likeRows'[t] = likeRows[t] \ {m} /\ m \in likeRows[t]
        BY <1>2, <1>3, <1>4, <2>5 DEF DeleteLike, At
      <3>2. ~CountLike(v) /\ ~DiscountLike(v)
        BY <3>1 DEF CountLike, DiscountLike, At
      <3>3. Tallied(t)' = Tallied(t)
        BY <1>5, <2>2, <2>3, <3>1
      <3>4. QED
        BY <3>2, <3>3
    <2>6. CASE CountLike(v)
      <3>1. visit[v].step = "raise" /\ visit'[v].step = "away" /\ likeRows'[t] = likeRows[t] /\ m \in likeRows[t]
        BY <1>2, <1>3, <1>4, <2>6 DEF CountLike, At, Away
      <3>2. ~CreateLike(v) /\ ~DeleteLike(v) /\ ~DiscountLike(v)
        BY <3>1 DEF CreateLike, DeleteLike, DiscountLike, At
      <3>3. m \notin Tallied(t) /\ Tallied(t)' = Tallied(t) \cup {m}
        BY <1>5, <2>2, <2>3, <3>1
      <3>4. QED
        BY <3>2, <3>3
    <2>7. CASE DiscountLike(v)
      <3>1. visit[v].step = "lower" /\ visit'[v].step = "away" /\ likeRows'[t] = likeRows[t] /\ m \notin likeRows[t]
        BY <1>2, <1>3, <1>4, <2>7 DEF DiscountLike, At, Away
      <3>2. ~CreateLike(v) /\ ~DeleteLike(v) /\ ~CountLike(v)
        BY <3>1 DEF CreateLike, DeleteLike, CountLike, At
      <3>3. m \in Tallied(t) /\ Tallied(t)' = Tallied(t) \ {m}
        BY <1>5, <2>2, <2>3, <3>1
      <3>4. QED
        BY <3>2, <3>3
    <2>8. QED
      BY <2>4, <2>5, <2>6, <2>7
  <1>8. \A x \in Things : likeCount'[x] = Cardinality(Tallied(x)')
    <2>1. likeCount[t] = Cardinality(Tallied(t)) /\ likeCount[t] \in Nat /\ IsFiniteSet(Tallied(t))
      BY <1>2, CountedFinite DEF CommunityInv, CommunityTypeOK
    <2>2. likeCount'[t] = Cardinality(Tallied(t)')
      <3>1. CASE CreateLike(v) \/ DeleteLike(v)
        BY <1>7, <2>1, <3>1 DEF CreateLike, DeleteLike
      <3>2. CASE CountLike(v)
        <4>1. likeCount'[t] = likeCount[t] + 1
          BY <1>1, <1>2, <3>2 DEF CountLike, CommunityInv, CommunityTypeOK
        <4>2. Cardinality(Tallied(t) \cup {m}) = Cardinality(Tallied(t)) + 1
          BY <1>7, <2>1, <3>2, FS_AddElement
        <4>3. QED
          BY <1>7, <2>1, <3>2, <4>1, <4>2
      <3>3. CASE DiscountLike(v)
        <4>1. Cardinality(Tallied(t) \ {m}) = Cardinality(Tallied(t)) - 1 /\ Cardinality(Tallied(t) \ {m}) \in Nat
          BY <1>7, <2>1, <3>3, FS_RemoveElement, FS_CardinalityType, FS_Difference
        <4>2. likeCount'[t] = likeCount[t] - 1
          BY <1>1, <1>2, <2>1, <3>3, <4>1 DEF DiscountLike, CommunityInv, CommunityTypeOK
        <4>3. QED
          BY <1>7, <2>1, <3>3, <4>1, <4>2
      <3>4. QED
        BY <3>1, <3>2, <3>3
    <2>3. ASSUME NEW x \in Things \ {t}
          PROVE  likeCount'[x] = Cardinality(Tallied(x)')
      <3>1. likeCount'[x] = likeCount[x]
        BY <1>1, <1>2, <2>3 DEF CreateLike, DeleteLike, CountLike, DiscountLike, CommunityInv, CommunityTypeOK
      <3>2. QED
        BY <1>6, <3>1 DEF CommunityInv
    <2>4. QED
      BY <2>2, <2>3
  <1>9. ASSUME NEW w \in Visits
        PROVE  Tapping(w)'
    <2>1. CASE w = v
      <3>1. CASE CountLike(v) \/ DiscountLike(v)
        BY <1>3, <2>1, <3>1 DEF Tapping, Counting, Away
      <3>2. CASE CreateLike(v) \/ DeleteLike(v)
        <4>1. visit'[v].who = m /\ visit'[v].what = t /\ visit'[v].step \in {"raise", "lower"}
          BY <1>3, <3>2 DEF Away
        <4>2. visit'[v].step = "raise" <=> m \in likeRows'[t]
          BY <1>3, <1>4, <3>2, <4>1
        <4>3. \A u \in Visits \ {v} : visit'[u].step \in Counting => ~(visit'[u].who = m /\ visit'[u].what = t)
          BY <1>2, <1>3
        <4>4. QED
          BY <2>1, <4>1, <4>2, <4>3 DEF Tapping
      <3>3. QED
        BY <3>1, <3>2
    <2>2. CASE w # v
      <3>1. Tapping(w)
        BY DEF CommunityInv
      <3>2. visit'[w] = visit[w]
        BY <1>3, <2>2
      <3>3. SUFFICES ASSUME visit[w].step \in Counting
                     PROVE  Tapping(w)'
        BY <3>2 DEF Tapping
      <3>4. ~(visit[w].who = m /\ visit[w].what = t)
        BY <1>2, <2>2, <3>3
      <3>5. visit[w].who \in likeRows'[visit[w].what] <=> visit[w].who \in likeRows[visit[w].what]
        BY <1>4, <3>4 DEF CommunityInv, CommunityTypeOK
      <3>6. QED
        BY <1>3, <2>2, <3>1, <3>2, <3>3, <3>4, <3>5 DEF Tapping, Counting, Away
    <2>3. QED
      BY <2>1, <2>2
  <1>10. QED
    BY <1>8, <1>9

\* A call looks its heart up: it is the only one there, or calls have overlapped.
LEMMA TapBegins ==
  ASSUME CommunityInv, singly', NEW v \in Visits, NEW m \in Members, NEW t \in Things, FindLike(v, m, t)
  PROVE  /\ \A w \in Visits : Tapping(w)'
         /\ \A x \in Things : Tallied(x)' = Tallied(x)
  <1>1. singly /\ ~Busy(m, t)
    BY DEF FindLike
  <1>2. PICK step \in {"liked", "unliked"} :
           /\ visit' = [visit EXCEPT ![v] = [step |-> step, who |-> m, what |-> t]]
           /\ step = "liked" <=> m \in likeRows[t]
    BY DEF FindLike
  <1>3. visit'[v] = [step |-> step, who |-> m, what |-> t] /\ \A w \in Visits \ {v} : visit'[w] = visit[w]
    BY <1>2 DEF CommunityInv, CommunityTypeOK
  <1>4. visit[v].step = "away" /\ likeRows' = likeRows
    BY DEF FindLike, At
  <1>5. \A w \in Visits : visit[w].step \in Counting => ~(visit[w].who = m /\ visit[w].what = t)
    BY <1>1 DEF Busy, At, Counting
  <1>6. ASSUME NEW w \in Visits
        PROVE  Tapping(w)'
    <2>1. CASE w = v
      BY <1>2, <1>3, <1>4, <1>5, <2>1 DEF Tapping
    <2>2. CASE w # v
      <3>1. Tapping(w) /\ visit'[w] = visit[w]
        BY <1>1, <1>3, <2>2 DEF CommunityInv
      <3>2. QED
        BY <1>3, <1>4, <1>5, <2>2, <3>1 DEF Tapping
    <2>3. QED
      BY <2>1, <2>2
  <1>7. ASSUME NEW x \in Things
        PROVE  Tallied(x)' = Tallied(x)
    <2>1. \A w \in Visits : \A s \in {"raise", "lower"} : visit'[w].step = s <=> visit[w].step = s
      BY <1>3, <1>4
    <2>2. \A w \in Visits : visit[w].step \in {"raise", "lower"} => visit'[w] = visit[w]
      BY <1>3, <1>4
    <2>3. Who(x, "raise")' = Who(x, "raise") /\ Who(x, "lower")' = Who(x, "lower")
      BY <2>1, <2>2 DEF Who, At
    <2>4. QED
      BY <1>4, <2>3 DEF Tallied
  <1>8. QED
    BY <1>6, <1>7

\* What is answered and what is uncounted: an answer stands in posted until its call has counted it.
LEMMA AnswersGoOn ==
  ASSUME CommunityInv, CommunityTypeOK', NEW v \in Visits,
         (\E m \in Members, t \in Things : AddAnswer(v, m, t)) \/ CountAnswer(v)
  PROVE  /\ \A w \in Visits : Answering(w)'
         /\ singly => (answerCount' = Cardinality(CountedAnswers') /\ singly' /\ \A w \in Visits : Tapping(w)')
         /\ \A x \in Things : Tallied(x)' = Tallied(x)
  <1> USE CommunityAssumption
  <1>1. \A w \in Visits \ {v} : visit'[w] = visit[w]
    BY DEF AddAnswer, CountAnswer, Leave, CommunityInv, CommunityTypeOK
  <1>2. visit[v].step \notin Counting /\ visit'[v].step \notin Counting /\ likeRows' = likeRows /\ singly' = singly
    <2>1. CASE CountAnswer(v)
      BY <2>1 DEF CountAnswer, Leave, Away, At, Counting, CommunityInv, CommunityTypeOK
    <2>2. ASSUME NEW m \in Members, NEW t \in Things, AddAnswer(v, m, t)
          PROVE  visit[v].step \notin Counting /\ visit'[v].step \notin Counting /\ likeRows' = likeRows /\ singly' = singly
      BY <2>2 DEF AddAnswer, At, Counting, CommunityInv, CommunityTypeOK
    <2>3. QED
      BY <2>1, <2>2
  <1>3. \A x \in Things : Tallied(x)' = Tallied(x)
    <2>1. \A w \in Visits : \A s \in {"raise", "lower"} : visit'[w].step = s <=> visit[w].step = s
      BY <1>1, <1>2 DEF Counting
    <2>2. \A w \in Visits : visit[w].step \in {"raise", "lower"} => visit'[w] = visit[w]
      BY <1>1, <1>2 DEF Counting
    <2>3. \A x : Who(x, "raise")' = Who(x, "raise") /\ Who(x, "lower")' = Who(x, "lower")
      BY <2>1, <2>2 DEF Who, At
    <2>4. QED
      BY <1>2, <2>3 DEF Tallied
  <1>4. ASSUME singly, NEW w \in Visits
        PROVE  Tapping(w)'
    <2>1. Tapping(w)
      BY <1>4 DEF CommunityInv
    <2>2. QED
      BY <1>1, <1>2, <2>1 DEF Tapping
  <1>5. IsFiniteSet(CountedAnswers)
    BY FS_Subset DEF CountedAnswers, CommunityInv, CommunityTypeOK
  <1>6. CASE CountAnswer(v)
    <2>1. PICK t : t = visit[v].what
      OBVIOUS
    <2>2. visit[v].step = "answered" /\ visit'[v] = Away /\ posted' = posted /\ answerCount' = answerCount + 1
      BY <1>6 DEF CountAnswer, Leave, At, CommunityInv, CommunityTypeOK
    <2>3. Answering(v) /\ \A w \in Visits : Answering(w)
      BY DEF CommunityInv
    <2>4. t \in posted \ {Question} /\ \A w \in Visits \ {v} : visit[w].step = "answered" => visit[w].what # t
      BY <2>1, <2>2, <2>3 DEF Answering
    <2>5. t \notin CountedAnswers /\ CountedAnswers' = CountedAnswers \cup {t}
      <3>1. Uncounted' = Uncounted \ {t} /\ t \in Uncounted
        BY <1>1, <2>1, <2>2, <2>4 DEF Uncounted, At, Away
      <3>2. QED
        BY <2>2, <2>4, <3>1 DEF CountedAnswers
    <2>6. Cardinality(CountedAnswers') = Cardinality(CountedAnswers) + 1
      BY <1>5, <2>5, FS_AddElement
    <2>7. \A w \in Visits : Answering(w)'
      BY <1>1, <2>2, <2>3 DEF Answering, Away
    <2>8. QED
      BY <1>2, <1>3, <1>4, <2>2, <2>6, <2>7 DEF CommunityInv
  <1>7. ASSUME NEW m \in Members, NEW t \in Things, AddAnswer(v, m, t)
        PROVE  /\ \A w \in Visits : Answering(w)'
               /\ CountedAnswers' = CountedAnswers /\ answerCount' = answerCount
    <2>1. /\ visit'[v].step = "answered" /\ visit'[v].what = t /\ posted' = posted \cup {t}
          /\ visit[v].step = "away" /\ t \notin posted /\ t # Question /\ answerCount' = answerCount
      BY <1>7 DEF AddAnswer, At, CommunityInv, CommunityTypeOK
    <2>2. \A w \in Visits : Answering(w)
      BY DEF CommunityInv
    <2>3. Uncounted' = Uncounted \cup {t}
      BY <1>1, <2>1 DEF Uncounted, At
    <2>4. CountedAnswers' = CountedAnswers
      BY <2>1, <2>3 DEF CountedAnswers
    <2>5. \A w \in Visits : visit[w].step = "answered" => visit[w].what # t
      BY <2>1, <2>2 DEF Answering
    <2>6. ASSUME NEW w \in Visits
          PROVE  Answering(w)'
      <3>1. CASE w = v
        BY <1>1, <2>1, <2>5, <3>1 DEF Answering
      <3>2. CASE w # v
        BY <1>1, <2>1, <2>2, <2>5, <3>2 DEF Answering
      <3>3. QED
        BY <3>1, <3>2
    <2>7. QED
      BY <2>1, <2>4, <2>6
  <1>8. QED
    BY <1>2, <1>3, <1>4, <1>6, <1>7 DEF CommunityInv

\* Every step of the community keeps its invariant.
LEMMA CommunityGoesOn ==
  ASSUME CommunityInv, [CommunityNext]_communityVars
  PROVE  CommunityInv'
  <1>1. CommunityTypeOK' /\ SignedIn'
    BY CommunityTypes DEF CommunityInv
  <1>2. CASE UNCHANGED communityVars
    BY <1>1, <1>2 DEF communityVars, CommunityInv, Answering, Tapping, Tallied, Who, At, CountedAnswers, Uncounted
  <1>3. ASSUME NEW m \in Members, CreateQuestion(m) \/ ToggleSave(m) \/ SetBan(m)
        PROVE  CommunityInv'
    <2>1. /\ UNCHANGED <<answerCount, likeRows, likeCount, visit, singly>>
          /\ posted \subseteq posted' /\ posted' \ {Question} = posted \ {Question}
      BY <1>3 DEF CreateQuestion, ToggleSave, SetBan
    <2>2. CountedAnswers' = CountedAnswers
      BY <2>1 DEF CountedAnswers, Uncounted, At
    <2>3. \A x : Tallied(x)' = Tallied(x)
      BY <2>1 DEF Tallied, Who, At
    <2>4. \A w \in Visits : Answering(w)' /\ (singly => Tapping(w)')
      BY <2>1 DEF CommunityInv, Answering, Tapping
    <2>5. QED
      BY <1>1, <2>1, <2>2, <2>3, <2>4 DEF CommunityInv
  <1>4. ASSUME NEW v \in Visits,
               (\E m \in Members, t \in Things : AddAnswer(v, m, t)) \/ CountAnswer(v)
        PROVE  CommunityInv'
    <2>1. likeCount' = likeCount /\ singly' = singly
      BY <1>4 DEF AddAnswer, CountAnswer
    <2>2. /\ \A w \in Visits : Answering(w)'
          /\ singly => (answerCount' = Cardinality(CountedAnswers') /\ singly' /\ \A w \in Visits : Tapping(w)')
          /\ \A x \in Things : Tallied(x)' = Tallied(x)
      BY <1>1, <1>4, AnswersGoOn
    <2>3. QED
      BY <1>1, <2>1, <2>2 DEF CommunityInv
  <1>5. ASSUME NEW v \in Visits, NEW m \in Members, NEW t \in Things, FindLike(v, m, t)
        PROVE  CommunityInv'
    <2>1. /\ UNCHANGED <<posted, answerCount, likeCount>> /\ (singly' => singly)
          /\ visit[v].step = "away" /\ visit'[v].step # "answered"
          /\ \A w \in Visits \ {v} : visit'[w] = visit[w]
      BY <1>5 DEF FindLike, CommunityInv, CommunityTypeOK, At
    <2>2. Uncounted' = Uncounted
      BY <2>1 DEF Uncounted, At
    <2>3. CountedAnswers' = CountedAnswers
      BY <2>1, <2>2 DEF CountedAnswers
    <2>4. \A w \in Visits : Answering(w)'
      BY <2>1 DEF CommunityInv, Answering
    <2>5. singly' => (\A w \in Visits : Tapping(w)') /\ \A x \in Things : Tallied(x)' = Tallied(x)
      BY <1>5, TapBegins
    <2>6. QED
      BY <1>1, <2>1, <2>3, <2>4, <2>5 DEF CommunityInv
  <1>6. ASSUME NEW v \in Visits, CreateLike(v) \/ DeleteLike(v) \/ CountLike(v) \/ DiscountLike(v)
        PROVE  CommunityInv'
    <2>1. UNCHANGED <<posted, answerCount, singly>> /\ visit[v].step # "answered"
      BY <1>6 DEF CreateLike, DeleteLike, CountLike, DiscountLike, At
    <2>2. PICK r \in [step : {"raise", "lower", "away"}, who : Members \cup {Nobody}, what : Things] :
             visit' = [visit EXCEPT ![v] = r]
      <3>1. visit[v].who \in Members \cup {Nobody} /\ visit[v].what \in Things
        BY DEF CommunityInv, CommunityTypeOK
      <3>2. Away \in [step : {"raise", "lower", "away"}, who : Members \cup {Nobody}, what : Things]
        BY CommunityAssumption DEF Away
      <3>3. CASE CreateLike(v) \/ DeleteLike(v)
        BY <3>1, <3>3 DEF CreateLike, DeleteLike, GoTo
      <3>4. CASE CountLike(v) \/ DiscountLike(v)
        BY <3>2, <3>4 DEF CountLike, DiscountLike, Leave
      <3>5. QED
        BY <1>6, <3>3, <3>4
    <2>3. visit'[v].step # "answered" /\ \A w \in Visits \ {v} : visit'[w] = visit[w]
      BY <2>2 DEF CommunityInv, CommunityTypeOK
    <2>4. Uncounted' = Uncounted
      BY <2>1, <2>3 DEF Uncounted, At
    <2>5. CountedAnswers' = CountedAnswers
      BY <2>1, <2>4 DEF CountedAnswers
    <2>6. \A w \in Visits : Answering(w)'
      BY <2>1, <2>3 DEF CommunityInv, Answering
    <2>7. singly => (\A w \in Visits : Tapping(w)') /\ \A x \in Things : likeCount'[x] = Cardinality(Tallied(x)')
      BY <1>1, <1>6, TapGoesOn
    <2>8. QED
      BY <1>1, <2>1, <2>5, <2>6, <2>7 DEF CommunityInv
  <1>7. ASSUME NEW v \in Visits, BreakOffVisit(v)
        PROVE  CommunityInv'
    <2>1. singly' = FALSE /\ posted' = posted /\ visit' = [visit EXCEPT ![v] = Away]
      BY <1>7 DEF BreakOffVisit, Leave
    <2>2. \A w \in Visits : Answering(w)'
      BY <2>1 DEF CommunityInv, CommunityTypeOK, Answering, Away
    <2>3. QED
      BY <1>1, <2>1, <2>2 DEF CommunityInv
  <1>8. QED
    BY <1>2, <1>3, <1>4, <1>5, <1>6, <1>7 DEF CommunityNext

\* The community begins with the invariant.
LEMMA CommunityBegins == CommunityInit => CommunityInv
  <1> USE CommunityAssumption
  <1>1. SUFFICES ASSUME CommunityInit
                 PROVE  CommunityInv
    OBVIOUS
  <1>2. Away.step = "away" /\ \A v \in Visits : visit[v] = Away
    BY <1>1 DEF CommunityInit, Away
  <1>3. CommunityTypeOK /\ SignedIn
    BY <1>1, <1>2 DEF CommunityInit, CommunityTypeOK, SignedIn, Away, VisitSteps
  <1>4. \A v \in Visits : Answering(v) /\ Tapping(v)
    BY <1>2 DEF Answering, Tapping, Counting
  <1>5. CountedAnswers = {} /\ \A t \in Things : Tallied(t) = {}
    BY <1>1, <1>2 DEF CommunityInit, CountedAnswers, Tallied, Who, At
  <1>6. QED
    BY <1>1, <1>3, <1>4, <1>5, FS_EmptySet DEF CommunityInit, CommunityInv

\* The invariant of the community holds in every state: types, who is signed in, what
\* calls have found, and the counters (community.service.ts).
LEMMA CommunityHolds == CommunitySpec => []CommunityInv
  BY CommunityBegins, CommunityGoesOn, PTL DEF CommunitySpec

\* The numbers beside questions and answers follow the rows, however the calls of different
\* members overlap.  (toggleLikeQuestion, toggleLikeAnswer, addAnswer)
THEOREM CountersAgree == CommunitySpec => []CountersFollowRows
  <1>1. CommunityInv => CountersFollowRows
    <2>1. SUFFICES ASSUME CommunityInv, singly, NEW m \in Members
                   PROVE  LET page == GetQuestion(m)
                              counted == DOMAIN page.answers \ Uncounted
                          IN
                          /\ page.question.item.likeCount = Cardinality((LikedBy(Question) \ Who(Question, "raise")) \cup Who(Question, "lower"))
                          /\ \A t \in DOMAIN page.answers :
                                page.answers[t].likeCount = Cardinality((LikedBy(t) \ Who(t, "raise")) \cup Who(t, "lower"))
                          /\ page.question.answerCount = Cardinality(counted)
                          /\ Question \in ListQuestions("unanswered") => counted = {}
      BY DEF CountersFollowRows
    <2>2. PICK page : page = GetQuestion(m)
      OBVIOUS
    <2>3. /\ page.question.item.likeCount = likeCount[Question] /\ page.question.answerCount = answerCount
          /\ DOMAIN page.answers = posted \ {Question}
          /\ \A t \in posted \ {Question} : page.answers[t].likeCount = likeCount[t]
      BY <2>2 DEF GetQuestion, QuestionView, ItemView
    <2>4. posted \subseteq Things /\ Question \in Things
      BY <2>1, CommunityAssumption DEF CommunityInv, CommunityTypeOK
    <2>5. \A t \in Things : LikedBy(t) = likeRows[t]
      BY <2>1 DEF LikedBy, ItemView, CommunityInv, CommunityTypeOK
    <2>6. \A t \in Things : likeCount[t] = Cardinality((LikedBy(t) \ Who(t, "raise")) \cup Who(t, "lower"))
      BY <2>1, <2>5 DEF CommunityInv, Tallied
    <2>7. DOMAIN page.answers \ Uncounted = CountedAnswers
      BY <2>3 DEF CountedAnswers
    <2>8. answerCount = Cardinality(CountedAnswers)
      BY <2>1 DEF CommunityInv
    <2>9. IsFiniteSet(CountedAnswers)
      BY <2>1, FS_Subset, CommunityAssumption DEF CountedAnswers, CommunityInv, CommunityTypeOK
    <2>10. Question \in ListQuestions("unanswered") => CountedAnswers = {}
      BY <2>8, <2>9, FS_EmptySet DEF ListQuestions
    <2>11. QED
      BY <2>2, <2>3, <2>4, <2>6, <2>7, <2>8, <2>10
  <1>2. QED
    BY <1>1, CommunityHolds, PTL

-----------------------------------------------------------------------------
(* Likes and comments of posts                                             *)

TapSteps == {"idle"} \cup LikeSteps \cup AddSteps \cup DropSteps
TapRow == [step : TapSteps, who : People \cup {NoOne, Moderator}, what : Remarks \cup {NoRemark},
           read : [likes : Nat, comments : Int]]

\* A row of a call: who gives a heart or writes a comment is a user, and a comment is
\* looked up before it is dropped.
RowOK(r) ==
    /\ r \in TapRow
    /\ r.step \in LikeSteps \cup AddSteps => r.who \in People
    /\ r.step \in DropSteps => r.what \in Remarks
    /\ r.step = "idle" => r = NoTap

TapsOK == DOMAIN tap = Taps /\ tap = [t \in Taps |-> tap[t]] /\ \A t \in Taps : RowOK(tap[t])

Storing == {t \in Taps : tap[t].step = "saveComment"}
Lowering == {t \in Taps : tap[t].step = "lower"}

\* Nothing of the post has been taken.
Whole == leaving = {}

\* Whoever gives or takes a heart is alone, has read, or is about to save, a number that is not
\* below that of the rows, and is that of the rows while the post is whole.
HeartsAgree ==
    /\ \A s, t \in Taps : tap[s].step \in LikeSteps /\ tap[t].step \in LikeSteps => s = t
    /\ \A t \in Taps : tap[t].step \in LikeSteps =>
          /\ tap[t].read.likes >= Cardinality(hearts)
          /\ Whole => tap[t].read.likes = Cardinality(hearts)
          /\ tap[t].step = "liked" /\ tap[t].who \notin hearts => tap[t].read.likes > Cardinality(hearts)
          /\ tap[t].step = "unliked" => tap[t].who \notin hearts
    /\ (\A t \in Taps : tap[t].step # "saveLikes") =>
          total.likes >= Cardinality(hearts) /\ (Whole => total.likes = Cardinality(hearts))

\* The number on the post is short of the active comments by at most what is still to be
\* written and what was deleted when it was not active, and by exactly that while the post is whole.
NumbersCounted ==
    /\ total.comments + twice >= Cardinality(Lowering)
    /\ total.comments + twice + Cardinality(Storing) >= Cardinality(ShownComments) + Cardinality(Lowering)
    /\ Whole => total.comments + twice + Cardinality(Storing) = Cardinality(ShownComments) + Cardinality(Lowering)

\* Whoever adds a comment is alone, and whoever drops one is alone with it.
RemarksAgree ==
    /\ \A t \in Taps : tap[t].step \in AddSteps =>
          /\ tap[t].read.comments = total.comments
          /\ \A s \in Taps : tap[s].step \in AddSteps \cup DropSteps => s = t
    /\ \A t \in Taps : tap[t].step \in DropSteps =>
          /\ tap[t].step = "drop" => remark[tap[t].what].status \in {"active", "removed", "gone"}
          /\ tap[t].step = "hide" => remark[tap[t].what].status \in {"active", "gone"}
          /\ \A s \in Taps : tap[s].step \in DropSteps /\ tap[s].what = tap[t].what => s = t
    /\ NumbersCounted

\* A negative number has one cause.
Blamed ==
    /\ jammed => twice > 0
    /\ \A t \in Taps : tap[t].read.comments < 0 => twice > 0

Unposted ==
    /\ total = Zero /\ hearts = {} /\ ~jammed /\ twice = 0
    /\ \A c \in Remarks : remark[c].status = "none"
    /\ \A t \in Taps : tap[t] = NoTap
    /\ leaving = {}

SocialInv ==
    /\ SocialTypeOK /\ TapsOK
    /\ post = "none" => Unposted
    /\ Stands => (leaving = {} /\ album) \/ "post" \in leaving
    /\ inTurn /\ Stands => Blamed /\ (~jammed => HeartsAgree /\ RemarksAgree)

-----------------------------------------------------------------------------
\* A tap that is not under way is a row of the taps.
LEMMA NoTapIs == NoTap.step = "idle" /\ NoTap.read.comments = 0 /\ RowOK(NoTap)
  BY DEF NoTap, Zero, RowOK, TapRow, TapSteps, LikeSteps, AddSteps, DropSteps

\* A call moves on, and the others stay where they are.
LEMMA RowMoves ==
  ASSUME TapsOK, NEW t \in Taps, NEW r, tap' = [tap EXCEPT ![t] = r]
  PROVE  /\ tap'[t] = r /\ \A s \in Taps \ {t} : tap'[s] = tap[s]
         /\ RowOK(r) => TapsOK'
  <1>1. tap'[t] = r /\ \A s \in Taps \ {t} : tap'[s] = tap[s]
    BY DEF TapsOK
  <1>2. DOMAIN tap' = Taps /\ tap' = [s \in Taps |-> tap'[s]]
    BY DEF TapsOK
  <1>3. ASSUME RowOK(r)
        PROVE  TapsOK'
    <2>1. \A s \in Taps : RowOK(tap'[s])
      BY <1>1, <1>3 DEF TapsOK
    <2>2. QED
      BY <1>2, <2>1 DEF TapsOK, RowOK, TapRow, NoTap
  <1>4. QED
    BY <1>1, <1>3

\* What a call that begins keeps of the post.
LEMMA RowBegins ==
  ASSUME SocialTypeOK, TapsOK, NEW t \in Taps, NEW step \in TapSteps \ {"idle"},
         NEW u \in People \cup {Moderator}, NEW c \in Remarks \cup {NoRemark}, Begin(t, step, u, c),
         step \in LikeSteps \cup AddSteps => u \in People, step \in DropSteps => c \in Remarks
  PROVE  /\ TapsOK' /\ tap[t] = NoTap
         /\ tap'[t] = [step |-> step, who |-> u, what |-> c, read |-> total]
         /\ \A s \in Taps \ {t} : tap'[s] = tap[s]
  <1>1. PICK r : r = [step |-> step, who |-> u, what |-> c, read |-> total]
    OBVIOUS
  <1>2. RowOK(r)
    BY <1>1 DEF RowOK, TapRow, SocialTypeOK
  <1>3. QED
    BY <1>1, <1>2, RowMoves DEF Begin, Idle

\* A call goes from one step to another of the same number.
LEMMA RowSteps ==
  ASSUME TapsOK, NEW t \in Taps, NEW step,
         tap' = [tap EXCEPT ![t].step = step],
         \/ tap[t].step \in LikeSteps /\ step \in LikeSteps
         \/ tap[t].step \in AddSteps /\ step \in AddSteps
         \/ tap[t].step \in DropSteps /\ step \in DropSteps
  PROVE  /\ TapsOK' /\ tap'[t] = [tap[t] EXCEPT !.step = step]
         /\ tap'[t].step = step /\ tap'[t].read = tap[t].read /\ tap'[t].who = tap[t].who /\ tap'[t].what = tap[t].what
         /\ \A s \in Taps \ {t} : tap'[s] = tap[s]
  <1>1. PICK r : r = [tap[t] EXCEPT !.step = step]
    OBVIOUS
  <1>2. RowOK(tap[t])
    BY DEF TapsOK
  <1>3. r.step = step /\ r.read = tap[t].read /\ r.who = tap[t].who /\ r.what = tap[t].what
    BY <1>1, <1>2 DEF RowOK, TapRow
  <1>4. step \in TapSteps /\ step # "idle"
    BY DEF TapSteps, LikeSteps, AddSteps, DropSteps
  <1>5. r \in TapRow
    BY <1>1, <1>2, <1>4 DEF RowOK, TapRow
  <1>6. RowOK(r)
    <2>1. step \in LikeSteps \cup AddSteps => tap[t].who \in People
      BY <1>2, <1>4 DEF RowOK, LikeSteps, AddSteps, DropSteps
    <2>2. step \in DropSteps => tap[t].what \in Remarks
      BY <1>2, <1>4 DEF RowOK, LikeSteps, AddSteps, DropSteps
    <2>3. QED
      BY <1>3, <1>4, <1>5, <2>1, <2>2 DEF RowOK
  <1>7. tap' = [tap EXCEPT ![t] = r]
    BY <1>1 DEF TapsOK
  <1>8. QED
    BY <1>1, <1>3, <1>4, <1>6, <1>7, RowMoves

-----------------------------------------------------------------------------
\* A call of another number leaves the hearts alone.
LEMMA HeartsRest ==
  ASSUME HeartsAgree, NEW t \in Taps, \A s \in Taps \ {t} : tap'[s] = tap[s],
         tap[t].step \notin LikeSteps, tap'[t].step \notin LikeSteps,
         hearts' = hearts, total'.likes = total.likes, leaving' = leaving
  PROVE  HeartsAgree'
  <1>1. \A s \in Taps : tap'[s].step \in LikeSteps => s # t /\ tap'[s] = tap[s]
    OBVIOUS
  <1>2. (\A s \in Taps : tap'[s].step # "saveLikes") => \A s \in Taps : tap[s].step # "saveLikes"
    BY DEF LikeSteps
  <1>3. QED
    BY <1>1, <1>2 DEF HeartsAgree, Whole

\* A call that has no part in comments leaves what is counted of them.
LEMMA RemarksRest ==
  ASSUME RemarksAgree, NEW t \in Taps, \A s \in Taps \ {t} : tap'[s] = tap[s],
         tap[t].step \notin AddSteps \cup DropSteps, tap'[t].step \notin AddSteps \cup DropSteps,
         remark' = remark, twice' = twice, total'.comments = total.comments, leaving' = leaving
  PROVE  RemarksAgree'
  <1>1. \A s \in Taps : tap'[s].step \in AddSteps \cup DropSteps => s # t /\ tap'[s] = tap[s]
    OBVIOUS
  <1>2. Storing' = Storing /\ Lowering' = Lowering /\ ShownComments' = ShownComments
    BY <1>1 DEF Storing, Lowering, ShownComments, AddSteps, DropSteps
  <1>3. QED
    BY <1>1, <1>2 DEF RemarksAgree, NumbersCounted, Whole

\* A number that is read is not negative without cause.
LEMMA NumbersKnown ==
  ASSUME SocialTypeOK, TapsOK, RemarksAgree
  PROVE  /\ total.comments < 0 => twice > 0
         /\ IsFiniteSet(Storing) /\ IsFiniteSet(Lowering) /\ IsFiniteSet(ShownComments) /\ IsFiniteSet(hearts)
         /\ Cardinality(Storing) \in Nat /\ Cardinality(Lowering) \in Nat /\ Cardinality(ShownComments) \in Nat
  <1>1. IsFiniteSet(Storing) /\ IsFiniteSet(Lowering) /\ IsFiniteSet(ShownComments) /\ IsFiniteSet(hearts)
    BY FS_Subset, SocialAssumption DEF Storing, Lowering, ShownComments, SocialTypeOK
  <1>2. Cardinality(Storing) \in Nat /\ Cardinality(Lowering) \in Nat /\ Cardinality(ShownComments) \in Nat
    BY <1>1, FS_CardinalityType
  <1>4. total.comments \in Int /\ twice \in Nat
    BY DEF SocialTypeOK
  <1>5. total.comments < 0 => twice > 0
    BY <1>2, <1>4 DEF RemarksAgree, NumbersCounted
  <1>6. QED
    BY <1>1, <1>2, <1>5

\* A call begins.
LEMMA BlamedBegins ==
  ASSUME SocialTypeOK, TapsOK, Blamed, ~jammed => RemarksAgree, NEW t \in Taps,
         \A s \in Taps \ {t} : tap'[s] = tap[s], tap'[t].read = total, jammed' = jammed, twice' = twice
  PROVE  Blamed'
  BY NumbersKnown DEF Blamed

\* A call goes on with the comments it had read, or ends.
LEMMA BlamedStays ==
  ASSUME SocialTypeOK, Blamed, NEW t \in Taps,
         \A s \in Taps \ {t} : tap'[s] = tap[s],
         tap'[t] = NoTap \/ tap'[t].read.comments = tap[t].read.comments, jammed' = jammed, twice' = twice
  PROVE  Blamed'
  BY NoTapIs DEF Blamed

-----------------------------------------------------------------------------
(* The steps of a call that gives or takes a heart *)

Agreeing == SocialTypeOK /\ TapsOK /\ Blamed /\ (~jammed => HeartsAgree /\ RemarksAgree)
Kept == TapsOK' /\ Blamed' /\ (~jammed' => HeartsAgree' /\ RemarksAgree')

\* A call that gives or takes a heart reads the row of the post.
LEMMA LikeBegins ==
  ASSUME Agreeing, NEW t \in Taps, NEW u \in People, ReadForLike(t, u), inTurn'
  PROVE  Kept
  <1>1. /\ TapsOK' /\ tap[t] = NoTap
        /\ tap'[t] = [step |-> "find", who |-> u, what |-> NoRemark, read |-> total]
        /\ \A s \in Taps \ {t} : tap'[s] = tap[s]
    BY RowBegins DEF Agreeing, ReadForLike, TapSteps, LikeSteps, AddSteps, DropSteps
  <1>2. /\ \A s \in Taps : tap[s].step \notin LikeSteps
        /\ UNCHANGED <<total, hearts, remark, leaving, jammed, twice>>
    BY DEF ReadForLike, Liking
  <1>3. Blamed'
    BY <1>1, <1>2, BlamedBegins DEF Agreeing
  <1>4. ASSUME ~jammed
        PROVE  HeartsAgree' /\ RemarksAgree'
    <2>1. HeartsAgree /\ RemarksAgree
      BY <1>4 DEF Agreeing
    <2>2. total.likes >= Cardinality(hearts) /\ (Whole => total.likes = Cardinality(hearts))
      BY <1>2, <2>1 DEF HeartsAgree, Whole, LikeSteps
    <2>3. HeartsAgree'
      BY <1>1, <1>2, <2>2 DEF HeartsAgree, Whole, LikeSteps
    <2>4. RemarksAgree'
      BY <1>1, <1>2, <2>1, NoTapIs, RemarksRest DEF AddSteps, DropSteps
    <2>5. QED
      BY <2>3, <2>4
  <1>5. QED
    BY <1>1, <1>2, <1>3, <1>4 DEF Kept

\* It looks for the heart.
LEMMA FindHeartKeeps ==
  ASSUME Agreeing, NEW t \in Taps, FindHeart(t)
  PROVE  Kept
  <1>1. PICK step \in {"liked", "unliked"} :
           /\ tap[t].step = "find" /\ tap' = [tap EXCEPT ![t].step = step]
           /\ (step = "liked" <=> tap[t].who \in hearts)
    BY DEF FindHeart, Then
  <1>2. /\ TapsOK' /\ tap[t].step = "find"
        /\ tap'[t].step = step /\ tap'[t].read = tap[t].read /\ tap'[t].who = tap[t].who
        /\ \A s \in Taps \ {t} : tap'[s] = tap[s]
    <2>1. TapsOK /\ tap[t].step \in LikeSteps /\ step \in LikeSteps
      BY <1>1 DEF Agreeing, LikeSteps
    <2>2. QED
      BY <1>1, <2>1, RowSteps
  <1>3. UNCHANGED <<total, hearts, remark, leaving, jammed, twice>>
    BY DEF FindHeart
  <1>4. Blamed'
    BY <1>2, <1>3, BlamedStays DEF Agreeing
  <1>5. ASSUME ~jammed
        PROVE  HeartsAgree' /\ RemarksAgree'
    <2>1. HeartsAgree /\ RemarksAgree
      BY <1>5 DEF Agreeing
    <2>2. HeartsAgree'
      BY <1>1, <1>2, <1>3, <2>1 DEF HeartsAgree, Whole, LikeSteps
    <2>3. RemarksAgree'
      BY <1>1, <1>2, <1>3, <2>1, RemarksRest DEF AddSteps, DropSteps
    <2>4. QED
      BY <2>2, <2>3
  <1>6. QED
    BY <1>2, <1>3, <1>4, <1>5 DEF Kept

\* What it will save: the likes changed, the rest as read.
LEMMA ToSaveIs ==
  ASSUME NEW t \in Taps, tap[t] \in TapRow, NEW n \in Int
  PROVE  /\ ToSave(t, n).step = "saveLikes" /\ ToSave(t, n).who = tap[t].who /\ ToSave(t, n).what = tap[t].what
         /\ ToSave(t, n).read.comments = tap[t].read.comments /\ ToSave(t, n).read.likes = n
         /\ n \in Nat => ToSave(t, n) \in TapRow
  <1>1. PICK k : k = tap[t].read.comments
    OBVIOUS
  <1>2. PICK save : save = [likes |-> n, comments |-> k]
    OBVIOUS
  <1>3. save.likes = n /\ save.comments = k
    BY <1>2
  <1>4. n \in Nat => save \in [likes : Nat, comments : Int]
    BY <1>1, <1>2 DEF TapRow
  <1>5. PICK r \in TapRow : r = tap[t]
    OBVIOUS
  <1>6. ToSave(t, n) = [r EXCEPT !.step = "saveLikes", !.read = save]
    BY <1>1, <1>2, <1>5 DEF ToSave
  <1>7. "saveLikes" \in TapSteps
    BY DEF TapSteps, LikeSteps
  <1>8. /\ ToSave(t, n).step = "saveLikes" /\ ToSave(t, n).who = r.who /\ ToSave(t, n).what = r.what
        /\ ToSave(t, n).read = save
    BY <1>5, <1>6 DEF TapRow
  <1>9. n \in Nat => ToSave(t, n) \in TapRow
    BY <1>4, <1>5, <1>6, <1>7 DEF TapRow
  <1>10. QED
    BY <1>1, <1>3, <1>5, <1>8, <1>9

\* A row is written: the number to save is that of the rows.
LEMMA HeartKeeps ==
  ASSUME Agreeing, NEW t \in Taps, CreateHeart(t) \/ DeleteHeart(t)
  PROVE  Kept
  <1>1. PICK up, down : up = ToSave(t, tap[t].read.likes + 1) /\ down = ToSave(t, tap[t].read.likes - 1)
    OBVIOUS
  <1>2. RowOK(tap[t]) /\ tap[t] \in TapRow
    BY DEF Agreeing, TapsOK, RowOK
  <1>3. /\ up.step = "saveLikes" /\ up.who = tap[t].who /\ up.what = tap[t].what
        /\ up.read.comments = tap[t].read.comments /\ up.read.likes = tap[t].read.likes + 1 /\ up \in TapRow
    BY <1>1, <1>2, ToSaveIs DEF TapRow
  <1>4. /\ down.step = "saveLikes" /\ down.who = tap[t].who /\ down.what = tap[t].what
        /\ down.read.comments = tap[t].read.comments /\ down.read.likes = tap[t].read.likes - 1
        /\ tap[t].read.likes # 0 => down \in TapRow
    BY <1>1, <1>2, ToSaveIs DEF TapRow
  <1>5. tap[t].who \in People /\ tap[t].step \in {"liked", "unliked"} /\ tap[t].read \in [likes : Nat, comments : Int]
    BY <1>2 DEF RowOK, CreateHeart, DeleteHeart, LikeSteps, TapRow
  <1>6. PICK r : /\ tap' = [tap EXCEPT ![t] = r]
                 /\ r = NoTap \/ r = up \/ (r = down /\ tap[t].read.likes # 0)
                 /\ CreateHeart(t) /\ tap[t].who \notin hearts => r = up
                 /\ DeleteHeart(t) /\ tap[t].read.likes # 0 => r = down
    <2>1. CASE CreateHeart(t)
      <3>1. tap' = [tap EXCEPT ![t] = IF tap[t].who \in hearts THEN NoTap ELSE up] /\ ~DeleteHeart(t)
        BY <1>1, <2>1 DEF CreateHeart, DeleteHeart
      <3>2. QED
        BY <3>1
    <2>2. CASE DeleteHeart(t)
      <3>1. tap' = [tap EXCEPT ![t] = IF tap[t].read.likes = 0 THEN NoTap ELSE down] /\ ~CreateHeart(t)
        BY <1>1, <2>2 DEF CreateHeart, DeleteHeart
      <3>2. QED
        BY <3>1
    <2>3. QED
      BY <2>1, <2>2
  <1>7. RowOK(r)
    BY <1>3, <1>4, <1>5, <1>6, NoTapIs DEF RowOK, DropSteps
  <1>8. TapsOK' /\ tap'[t] = r /\ \A s \in Taps \ {t} : tap'[s] = tap[s]
    BY <1>6, <1>7, RowMoves DEF Agreeing
  <1>9. UNCHANGED <<total, remark, leaving, jammed, twice>>
    BY DEF CreateHeart, DeleteHeart
  <1>10. Blamed'
    <2>1. tap'[t] = NoTap \/ tap'[t].read.comments = tap[t].read.comments
      BY <1>3, <1>4, <1>6, <1>8
    <2>2. QED
      BY <1>8, <1>9, <2>1, BlamedStays DEF Agreeing
  <1>11. ASSUME ~jammed
         PROVE  HeartsAgree' /\ RemarksAgree'
    <2>1. HeartsAgree /\ RemarksAgree /\ IsFiniteSet(hearts)
      BY <1>11, NumbersKnown DEF Agreeing
    <2>2. /\ tap[t].read.likes >= Cardinality(hearts) /\ (Whole => tap[t].read.likes = Cardinality(hearts))
          /\ tap[t].step = "liked" /\ tap[t].who \notin hearts => tap[t].read.likes > Cardinality(hearts)
          /\ tap[t].step = "unliked" => tap[t].who \notin hearts
          /\ \A s \in Taps \ {t} : tap[s].step \notin LikeSteps
      BY <1>5, <2>1 DEF HeartsAgree, Whole, LikeSteps
    <2>3. r.step = "saveLikes" /\ r.read.likes >= Cardinality(hearts') /\ (Whole => r.read.likes = Cardinality(hearts'))
      <3>1. CASE CreateHeart(t)
        <4>1. tap[t].step = "unliked" /\ hearts' = hearts \cup {tap[t].who} /\ tap[t].who \notin hearts
          BY <2>2, <3>1 DEF CreateHeart
        <4>2. Cardinality(hearts') = Cardinality(hearts) + 1
          BY <2>1, <4>1, FS_AddElement
        <4>3. r = up
          BY <1>6, <3>1, <4>1
        <4>4. Cardinality(hearts) \in Nat /\ tap[t].read.likes \in Nat
          BY <1>5, <2>1, FS_CardinalityType
        <4>5. QED
          BY <1>3, <2>2, <4>2, <4>3, <4>4
      <3>2. CASE DeleteHeart(t)
        <4>1. tap[t].step = "liked" /\ hearts' = hearts \ {tap[t].who}
          BY <2>2, <3>2 DEF DeleteHeart
        <4>2. Cardinality(hearts) \in Nat /\ tap[t].read.likes \in Nat
          BY <1>5, <2>1, FS_CardinalityType
        <4>3. CASE tap[t].who \in hearts
          <5>1. Cardinality(hearts') = Cardinality(hearts) - 1 /\ Cardinality(hearts) # 0
            BY <2>1, <4>1, <4>3, FS_RemoveElement, FS_EmptySet
          <5>2. r = down
            BY <1>6, <2>2, <3>2, <4>2, <5>1
          <5>3. QED
            BY <1>4, <2>2, <4>2, <5>1, <5>2
        <4>4. CASE tap[t].who \notin hearts
          <5>1. hearts' = hearts /\ tap[t].read.likes > Cardinality(hearts) /\ ~Whole
            BY <2>2, <4>1, <4>2, <4>4
          <5>2. r = down
            BY <1>6, <3>2, <4>2, <5>1
          <5>3. QED
            BY <1>4, <4>2, <5>1, <5>2
        <4>5. QED
          BY <4>3, <4>4
      <3>3. QED
        BY <3>1, <3>2
    <2>4. HeartsAgree'
      BY <1>8, <1>9, <2>2, <2>3 DEF HeartsAgree, Whole, LikeSteps
    <2>5. RemarksAgree'
      BY <1>5, <1>8, <1>9, <2>1, <2>3, RemarksRest DEF AddSteps, DropSteps
    <2>6. QED
      BY <2>4, <2>5
  <1>12. QED
    BY <1>8, <1>9, <1>10, <1>11 DEF Kept

\* It saves the row as it read it, with the likes changed.
LEMMA SaveLikesKeeps ==
  ASSUME Agreeing, Stands, NEW t \in Taps, SaveLikes(t)
  PROVE  Kept
  <1>1. TapsOK' /\ tap'[t] = NoTap /\ \A s \in Taps \ {t} : tap'[s] = tap[s]
    BY RowMoves, NoTapIs DEF Agreeing, SaveLikes, End
  <1>2. tap[t].step = "saveLikes" /\ UNCHANGED <<hearts, remark, leaving, twice>>
    BY DEF SaveLikes, End
  <1>3. PICK n : n = tap[t].read.comments
    OBVIOUS
  <1>4. /\ jammed' = (jammed \/ ~(n >= 0))
        /\ n >= 0 => total' = [total EXCEPT !.likes = tap[t].read.likes]
    BY <1>3 DEF SaveLikes
  <1>5. n \in Int /\ total \in [likes : Nat, comments : Int] /\ jammed \in BOOLEAN /\ tap[t].read.likes \in Nat
    BY <1>3 DEF Agreeing, TapsOK, RowOK, TapRow, SocialTypeOK
  <1>6. Blamed'
    <2>1. n < 0 => twice > 0
      BY <1>3 DEF Agreeing, Blamed
    <2>2. jammed' => jammed \/ n < 0
      BY <1>4, <1>5
    <2>3. jammed' => twice' > 0
      BY <1>2, <2>1, <2>2 DEF Agreeing, Blamed
    <2>4. QED
      BY <1>1, <1>2, <2>3, NoTapIs DEF Agreeing, Blamed
  <1>7. ASSUME ~jammed'
        PROVE  HeartsAgree' /\ RemarksAgree'
    <2>1. ~jammed /\ n >= 0
      BY <1>4, <1>7
    <2>2. HeartsAgree /\ RemarksAgree
      BY <2>1 DEF Agreeing
    <2>3. total'.likes = tap[t].read.likes /\ total'.comments = total.comments
      BY <1>4, <1>5, <2>1
    <2>4. /\ tap[t].read.likes >= Cardinality(hearts) /\ (Whole => tap[t].read.likes = Cardinality(hearts))
          /\ \A s \in Taps \ {t} : tap[s].step \notin LikeSteps
      BY <1>2, <2>2 DEF HeartsAgree, Whole, LikeSteps
    <2>5. HeartsAgree'
      BY <1>1, <1>2, <2>3, <2>4, NoTapIs DEF HeartsAgree, Whole, LikeSteps
    <2>6. RemarksAgree'
      BY <1>1, <1>2, <2>2, <2>3, NoTapIs, RemarksRest DEF AddSteps, DropSteps
    <2>7. QED
      BY <2>5, <2>6
  <1>8. QED
    BY <1>1, <1>6, <1>7 DEF Kept

-----------------------------------------------------------------------------
(* The steps of a call that adds or drops a comment *)

\* A call of the comments that begins: it has read the number on the post.
LEMMA RemarkBegins ==
  ASSUME Agreeing, NEW t \in Taps, NEW step \in AddSteps \cup DropSteps, step \notin {"saveComment", "lower"},
         NEW u \in People \cup {Moderator}, NEW c \in Remarks \cup {NoRemark},
         Begin(t, step, u, c), UNCHANGED <<total, hearts, remark, leaving, jammed, twice>>,
         \A s \in Taps : tap[s].step \notin AddSteps,
         step \in AddSteps => u \in People /\ \A s \in Taps : tap[s].step \notin DropSteps,
         step \in DropSteps => /\ c \in Remarks
                               /\ \A s \in Taps : tap[s].step \in DropSteps => tap[s].what # c
                               /\ step = "drop" => remark[c].status \in {"active", "removed"}
                               /\ step = "hide" => remark[c].status = "active"
  PROVE  Kept
  <1>1. step \in TapSteps \ {"idle"} /\ step \notin LikeSteps /\ (step \in AddSteps => step \notin DropSteps)
    BY DEF TapSteps, LikeSteps, AddSteps, DropSteps
  <1>2. /\ TapsOK' /\ tap[t] = NoTap
        /\ tap'[t] = [step |-> step, who |-> u, what |-> c, read |-> total]
        /\ \A s \in Taps \ {t} : tap'[s] = tap[s]
    <2>1. SocialTypeOK /\ TapsOK /\ (step \in LikeSteps \cup AddSteps => u \in People)
      BY <1>1 DEF Agreeing
    <2>2. QED
      BY <1>1, <2>1, RowBegins
  <1>3. Blamed'
    BY <1>2, BlamedBegins DEF Agreeing
  <1>4. ASSUME ~jammed
        PROVE  HeartsAgree' /\ RemarksAgree'
    <2>1. HeartsAgree /\ RemarksAgree
      BY <1>4 DEF Agreeing
    <2>2. HeartsAgree'
      <3>1. tap[t].step \notin LikeSteps /\ tap'[t].step \notin LikeSteps
        BY <1>1, <1>2, NoTapIs DEF LikeSteps
      <3>2. QED
        BY <1>2, <2>1, <3>1, HeartsRest
    <2>3. Storing' = Storing /\ Lowering' = Lowering /\ ShownComments' = ShownComments
      BY <1>2, NoTapIs DEF Storing, Lowering, ShownComments
    <2>4. NumbersCounted'
      BY <2>1, <2>3 DEF RemarksAgree, NumbersCounted, Whole
    <2>6. ASSUME NEW s \in Taps, tap'[s].step \in AddSteps
          PROVE  /\ tap'[s].read.comments = total'.comments
                 /\ \A r \in Taps : tap'[r].step \in AddSteps \cup DropSteps => r = s
      <3>1. s = t
        BY <1>2, <2>6
      <3>2. tap'[s].read.comments = total'.comments
        BY <1>2, <3>1
      <3>3. step \in AddSteps
        BY <1>2, <2>6, <3>1
      <3>4. QED
        BY <1>2, <3>1, <3>2, <3>3
    <2>7. ASSUME NEW s \in Taps, tap'[s].step \in DropSteps
          PROVE  /\ tap'[s].step = "drop" => remark'[tap'[s].what].status \in {"active", "removed", "gone"}
                 /\ tap'[s].step = "hide" => remark'[tap'[s].what].status \in {"active", "gone"}
                 /\ \A r \in Taps : tap'[r].step \in DropSteps /\ tap'[r].what = tap'[s].what => r = s
      <3>1. CASE s = t
        <4>1. tap'[s].step = step /\ tap'[s].what = c /\ step \in DropSteps
          BY <1>2, <2>7, <3>1
        <4>2. QED
          BY <1>2, <3>1, <4>1
      <3>2. CASE s # t
        <4>1. tap'[s] = tap[s] /\ tap[s].step \in DropSteps
          BY <1>2, <2>7, <3>2
        <4>2. step \in DropSteps /\ tap[s].what # c
          BY <4>1
        <4>3. QED
          BY <1>2, <2>1, <4>1, <4>2 DEF RemarksAgree
      <3>3. QED
        BY <3>1, <3>2
    <2>8. RemarksAgree'
      BY <2>4, <2>6, <2>7 DEF RemarksAgree
    <2>9. QED
      BY <2>2, <2>8
  <1>5. QED
    BY <1>2, <1>3, <1>4 DEF Kept

\* A call that writes a comment reads the row of the post.
LEMMA CommentBegins ==
  ASSUME Agreeing, NEW t \in Taps, NEW u \in People, ReadForComment(t, u), inTurn'
  PROVE  Kept
  <1>1. Begin(t, "comment", u, NoRemark) /\ UNCHANGED <<total, hearts, remark, leaving, jammed, twice>> /\ Adding = {} /\ Dropping(Remarks) = {}
    BY DEF ReadForComment
  <1>2. \A s \in Taps : tap[s].step \notin AddSteps
    BY <1>1 DEF Adding
  <1>3. \A s \in Taps : tap[s].step \notin DropSteps
    BY <1>1 DEF Dropping, Agreeing, TapsOK, RowOK
  <1>4. "comment" \in AddSteps /\ "comment" \notin DropSteps
    BY DEF AddSteps, DropSteps
  <1>5. QED
    BY <1>1, <1>2, <1>3, <1>4, RemarkBegins

\* A call that deletes a comment finds it.
LEMMA DropBegins ==
  ASSUME Agreeing, NEW t \in Taps, NEW c \in Remarks, inTurn',
         ReadForRemoval(t, c) \/ \E u \in People \cup {Moderator} : FindComment(t, u, c)
  PROVE  Kept
  <1>1. PICK u \in People \cup {Moderator} : \E step \in {"drop", "hide"} :
           /\ Begin(t, step, u, c) /\ UNCHANGED <<total, hearts, remark, leaving, jammed, twice>> /\ Adding = {} /\ Dropping({c}) = {}
           /\ step = "drop" => remark[c].status \in {"active", "removed"}
           /\ step = "hide" => remark[c].status = "active"
    BY DEF ReadForRemoval, FindComment
  <1>2. PICK step \in {"drop", "hide"} :
           /\ Begin(t, step, u, c) /\ UNCHANGED <<total, hearts, remark, leaving, jammed, twice>> /\ Adding = {} /\ Dropping({c}) = {}
           /\ step = "drop" => remark[c].status \in {"active", "removed"}
           /\ step = "hide" => remark[c].status = "active"
    BY <1>1
  <1>3. \A s \in Taps : tap[s].step \notin AddSteps
    BY <1>2 DEF Adding
  <1>4. \A s \in Taps : tap[s].step \in DropSteps => tap[s].what # c
    BY <1>2 DEF Dropping
  <1>5. step \in DropSteps /\ step \notin AddSteps /\ step \notin {"saveComment", "lower"}
    BY DEF AddSteps, DropSteps
  <1>6. QED
    BY <1>2, <1>3, <1>4, <1>5, RemarkBegins

\* The comment is written.
LEMMA CreateCommentKeeps ==
  ASSUME Agreeing, NEW t \in Taps, NEW c \in Remarks, CreateComment(t, c)
  PROVE  Kept
  <1>1. /\ tap[t].step = "comment" /\ tap' = [tap EXCEPT ![t].step = "saveComment"]
        /\ remark[c].status = "none" /\ UNCHANGED <<total, hearts, leaving, jammed, twice>>
    BY DEF CreateComment, Then
  <1>2. /\ TapsOK' /\ tap'[t].step = "saveComment" /\ tap'[t].read = tap[t].read /\ tap'[t].what = tap[t].what
        /\ \A s \in Taps \ {t} : tap'[s] = tap[s]
    <2>1. TapsOK /\ tap[t].step \in AddSteps /\ "saveComment" \in AddSteps
      BY <1>1 DEF Agreeing, AddSteps
    <2>2. QED
      BY <1>1, <2>1, RowSteps
  <1>3. remark'[c].status = "active" /\ \A d \in Remarks \ {c} : remark'[d] = remark[d]
    BY DEF CreateComment, Agreeing, SocialTypeOK
  <1>4. Blamed'
    BY <1>1, <1>2, BlamedStays DEF Agreeing
  <1>5. ASSUME ~jammed
        PROVE  HeartsAgree' /\ RemarksAgree'
    <2>1. HeartsAgree /\ RemarksAgree /\ IsFiniteSet(ShownComments) /\ Cardinality(ShownComments) \in Nat
      BY <1>5, NumbersKnown DEF Agreeing
    <2>2. HeartsAgree'
      BY <1>1, <1>2, <2>1, HeartsRest DEF LikeSteps
    <2>3. /\ tap[t].read.comments = total.comments
          /\ \A s \in Taps \ {t} : tap[s].step \notin AddSteps \cup DropSteps
      BY <1>1, <2>1 DEF RemarksAgree, AddSteps
    <2>4. Storing = {} /\ Storing' = {t} /\ Lowering = {} /\ Lowering' = {}
      BY <1>1, <1>2, <2>3 DEF Storing, Lowering, AddSteps, DropSteps
    <2>5. c \notin ShownComments /\ ShownComments' = ShownComments \cup {c}
      BY <1>1, <1>3 DEF ShownComments
    <2>6. /\ Cardinality(ShownComments') = Cardinality(ShownComments) + 1
          /\ Cardinality(Storing) = 0 /\ Cardinality(Storing') = 1 /\ Cardinality(Lowering) = 0 /\ Cardinality(Lowering') = 0
      BY <2>1, <2>4, <2>5, FS_AddElement, FS_EmptySet, FS_Singleton
    <2>7. total.comments \in Int /\ twice \in Nat
      BY DEF Agreeing, SocialTypeOK
    <2>8. NumbersCounted'
      BY <1>1, <2>1, <2>6, <2>7 DEF RemarksAgree, NumbersCounted, Whole
    <2>9. \A s \in Taps : tap'[s].step \in AddSteps \cup DropSteps => s = t
      BY <1>2, <2>3
    <2>10. "saveComment" \in AddSteps /\ "saveComment" \notin DropSteps
      BY DEF AddSteps, DropSteps
    <2>11. RemarksAgree'
      BY <1>1, <1>2, <2>3, <2>5, <2>8, <2>9, <2>10 DEF RemarksAgree
    <2>12. QED
      BY <2>2, <2>11
  <1>6. QED
    BY <1>1, <1>2, <1>4, <1>5 DEF Kept

\* The number of comments is saved.
LEMMA SaveCommentKeeps ==
  ASSUME Agreeing, Stands, NEW t \in Taps, SaveComment(t)
  PROVE  Kept
  <1>1. TapsOK' /\ tap'[t] = NoTap /\ \A s \in Taps \ {t} : tap'[s] = tap[s]
    BY RowMoves, NoTapIs DEF Agreeing, SaveComment, End
  <1>2. tap[t].step = "saveComment" /\ UNCHANGED <<hearts, remark, leaving, twice>>
    BY DEF SaveComment, End
  <1>3. PICK n : n = tap[t].read.comments + 1
    OBVIOUS
  <1>4. /\ jammed' = (jammed \/ n < 0)
        /\ n >= 0 => total' = [total EXCEPT !.comments = n]
    BY <1>3 DEF SaveComment
  <1>5. n \in Int /\ total \in [likes : Nat, comments : Int] /\ jammed \in BOOLEAN /\ twice \in Nat /\ tap[t].read.comments \in Int
    BY <1>3 DEF Agreeing, TapsOK, RowOK, TapRow, SocialTypeOK
  <1>6. Blamed'
    <2>1. n < 0 => twice > 0
      BY <1>3, <1>5 DEF Agreeing, Blamed
    <2>2. jammed' => jammed \/ n < 0
      BY <1>4, <1>5
    <2>3. jammed' => twice' > 0
      BY <1>2, <2>1, <2>2 DEF Agreeing, Blamed
    <2>4. QED
      BY <1>1, <1>2, <2>3, NoTapIs DEF Agreeing, Blamed
  <1>7. ASSUME ~jammed'
        PROVE  HeartsAgree' /\ RemarksAgree'
    <2>1. ~jammed /\ n >= 0
      <3>1. ~jammed /\ ~(n < 0)
        BY <1>4, <1>7, Zenon
      <3>2. QED
        BY <1>5, <3>1
    <2>2. HeartsAgree /\ RemarksAgree /\ Cardinality(ShownComments) \in Nat
      BY <2>1, NumbersKnown DEF Agreeing
    <2>3. total'.likes = total.likes /\ total'.comments = n
      BY <1>4, <1>5, <2>1
    <2>4. HeartsAgree'
      BY <1>1, <1>2, <2>2, <2>3, NoTapIs, HeartsRest DEF LikeSteps
    <2>5. /\ tap[t].read.comments = total.comments
          /\ \A s \in Taps \ {t} : tap[s].step \notin AddSteps \cup DropSteps
      BY <1>2, <2>2 DEF RemarksAgree, AddSteps
    <2>6. /\ Storing = {t} /\ Storing' = {} /\ Lowering = {} /\ Lowering' = {} /\ ShownComments' = ShownComments
          /\ \A s \in Taps : tap'[s].step \notin AddSteps \cup DropSteps
      BY <1>1, <1>2, <2>5, NoTapIs DEF Storing, Lowering, ShownComments, AddSteps, DropSteps
    <2>7. Cardinality(Storing) = 1 /\ Cardinality(Storing') = 0 /\ Cardinality(Lowering) = 0 /\ Cardinality(Lowering') = 0
      BY <2>6, FS_EmptySet, FS_Singleton
    <2>8. NumbersCounted'
      BY <1>2, <1>3, <1>5, <2>2, <2>3, <2>5, <2>6, <2>7 DEF RemarksAgree, NumbersCounted, Whole
    <2>9. RemarksAgree'
      BY <2>6, <2>8 DEF RemarksAgree
    <2>10. QED
      BY <2>4, <2>9
  <1>8. QED
    BY <1>1, <1>6, <1>7 DEF Kept

\* A row leaves the active ones, or had left them before: the number is still to be lowered.
LEMMA DropKeeps ==
  ASSUME Agreeing, ~jammed, NEW t \in Taps,
         DropComment(t) \/ (HideComment(t) /\ remark[tap[t].what].status # "gone")
  PROVE  Kept
  <1>1. PICK c : c = tap[t].what
    OBVIOUS
  <1>2. tap[t].step \in {"drop", "hide"} /\ UNCHANGED <<total, hearts, leaving, jammed>>
    BY DEF DropComment, HideComment, Then
  <1>3. HeartsAgree /\ RemarksAgree /\ c \in Remarks
    BY <1>1, <1>2 DEF Agreeing, TapsOK, RowOK, DropSteps
  <1>4. /\ tap[t].step = "drop" => remark[c].status \in {"active", "removed", "gone"}
        /\ tap[t].step = "hide" => remark[c].status = "active"
        /\ \A s \in Taps \ {t} : tap[s].step \in DropSteps => tap[s].what # c
        /\ \A s \in Taps : tap[s].step \notin AddSteps
    BY <1>1, <1>2, <1>3 DEF RemarksAgree, DropSteps, AddSteps, DropComment, Then
  <1>5. tap' = [tap EXCEPT ![t].step = "lower"]
    BY <1>1, <1>2, <1>4 DEF DropComment, HideComment, Then
  <1>6. /\ remark'[c].status # "active" /\ \A d \in Remarks \ {c} : remark'[d] = remark[d]
        /\ remark[c].status = "active" => twice' = twice
        /\ remark[c].status # "active" => twice' = twice + 1
    <2>1. CASE DropComment(t)
      BY <1>1, <1>2, <1>3, <1>4, <2>1 DEF DropComment, Then, Agreeing, SocialTypeOK
    <2>2. CASE HideComment(t)
      BY <1>1, <1>2, <1>3, <1>4, <2>2 DEF HideComment, Agreeing, SocialTypeOK
    <2>3. QED
      BY <2>1, <2>2
  <1>7. /\ TapsOK' /\ tap'[t].step = "lower" /\ tap'[t].read = tap[t].read /\ tap'[t].what = c
        /\ \A s \in Taps \ {t} : tap'[s] = tap[s]
    <2>1. TapsOK /\ tap[t].step \in DropSteps /\ "lower" \in DropSteps
      BY <1>2 DEF Agreeing, DropSteps
    <2>2. QED
      BY <1>1, <1>5, <2>1, RowSteps
  <1>8. twice \in Nat /\ twice' >= twice /\ twice' \in Nat /\ total.comments \in Int
    BY <1>6 DEF Agreeing, SocialTypeOK
  <1>9. Blamed'
    BY <1>2, <1>7, <1>8 DEF Agreeing, Blamed
  <1>10. HeartsAgree'
    BY <1>2, <1>3, <1>7, HeartsRest DEF LikeSteps
  <1>11. RemarksAgree'
    <2>1. /\ IsFiniteSet(Lowering) /\ IsFiniteSet(ShownComments)
          /\ Cardinality(Lowering) \in Nat /\ Cardinality(ShownComments) \in Nat /\ Cardinality(Storing) \in Nat
      BY <1>3, NumbersKnown DEF Agreeing
    <2>2. Storing' = Storing /\ Storing = {}
      BY <1>2, <1>4, <1>7 DEF Storing, AddSteps
    <2>3. t \notin Lowering /\ Lowering' = Lowering \cup {t}
      BY <1>2, <1>7 DEF Lowering
    <2>4. Cardinality(Lowering') = Cardinality(Lowering) + 1
      BY <2>1, <2>3, FS_AddElement
    <2>5. /\ remark[c].status = "active" => Cardinality(ShownComments') = Cardinality(ShownComments) - 1
          /\ remark[c].status # "active" => Cardinality(ShownComments') = Cardinality(ShownComments)
      <3>1. ShownComments' = ShownComments \ {c}
        BY <1>3, <1>6 DEF ShownComments
      <3>2. remark[c].status = "active" <=> c \in ShownComments
        BY <1>3 DEF ShownComments
      <3>3. remark[c].status # "active" => ShownComments' = ShownComments
        BY <3>1, <3>2
      <3>4. remark[c].status = "active" => Cardinality(ShownComments \ {c}) = Cardinality(ShownComments) - 1
        BY <2>1, <3>2, FS_RemoveElement
      <3>5. QED
        BY <3>1, <3>3, <3>4
    <2>6. NumbersCounted'
      <3>1. Cardinality(Storing) = 0
        BY <2>2, FS_EmptySet
      <3>2. NumbersCounted
        BY <1>3 DEF RemarksAgree
      <3>3. remark[c].status = "active" => Cardinality(ShownComments) > 0
        BY <1>3, <2>1, FS_EmptySet DEF ShownComments
      <3>4. QED
        BY <1>2, <1>6, <1>8, <2>1, <2>2, <2>4, <2>5, <3>1, <3>2, <3>3 DEF NumbersCounted, Whole
    <2>7. \A s \in Taps : tap'[s].step \notin AddSteps
      BY <1>4, <1>7 DEF AddSteps
    <2>8. ASSUME NEW s \in Taps, tap'[s].step \in DropSteps
          PROVE  /\ tap'[s].step = "drop" => remark'[tap'[s].what].status \in {"active", "removed", "gone"}
                 /\ tap'[s].step = "hide" => remark'[tap'[s].what].status \in {"active", "gone"}
                 /\ \A r \in Taps : tap'[r].step \in DropSteps /\ tap'[r].what = tap'[s].what => r = s
      <3>1. CASE s = t
        BY <1>4, <1>7, <3>1
      <3>2. CASE s # t
        <4>1. tap'[s] = tap[s] /\ tap[s].step \in DropSteps /\ tap[s].what # c
          BY <1>4, <1>7, <2>8, <3>2
        <4>2. tap[s].what \in Remarks \ {c}
          BY <4>1 DEF Agreeing, TapsOK, RowOK
        <4>3. remark'[tap[s].what] = remark[tap[s].what]
          BY <1>6, <4>2
        <4>4. \A r \in Taps : tap'[r].step \in DropSteps /\ tap'[r].what = tap[s].what => r # t /\ tap'[r] = tap[r]
          BY <1>7, <4>1
        <4>5. QED
          BY <1>3, <4>1, <4>3, <4>4 DEF RemarksAgree
      <3>3. QED
        BY <3>1, <3>2
    <2>9. QED
      BY <2>6, <2>7, <2>8 DEF RemarksAgree
  <1>12. QED
    BY <1>7, <1>9, <1>10, <1>11 DEF Kept

\* The comment went with the post before an admin could hide it.
LEMMA HideEnds ==
  ASSUME Agreeing, NEW t \in Taps, HideComment(t), remark[tap[t].what].status = "gone"
  PROVE  Kept
  <1>1. tap[t].step = "hide" /\ tap' = [tap EXCEPT ![t] = NoTap] /\ UNCHANGED <<total, hearts, remark, leaving, jammed, twice>>
    BY DEF HideComment, End
  <1>2. TapsOK' /\ tap'[t] = NoTap /\ \A s \in Taps \ {t} : tap'[s] = tap[s]
    BY <1>1, RowMoves, NoTapIs DEF Agreeing
  <1>3. Blamed'
    BY <1>1, <1>2, BlamedStays DEF Agreeing
  <1>4. ASSUME ~jammed
        PROVE  HeartsAgree' /\ RemarksAgree'
    <2>1. HeartsAgree /\ RemarksAgree
      BY <1>4 DEF Agreeing
    <2>2. HeartsAgree'
      BY <1>1, <1>2, <2>1, NoTapIs, HeartsRest DEF LikeSteps
    <2>3. Storing' = Storing /\ Lowering' = Lowering /\ ShownComments' = ShownComments
      BY <1>1, <1>2, NoTapIs DEF Storing, Lowering, ShownComments
    <2>4. NumbersCounted'
      BY <1>1, <2>1, <2>3 DEF RemarksAgree, NumbersCounted, Whole
    <2>5. \A s \in Taps : tap'[s].step \in AddSteps \cup DropSteps => s # t /\ tap'[s] = tap[s]
      BY <1>2, NoTapIs DEF AddSteps, DropSteps
    <2>6. RemarksAgree'
      BY <1>1, <2>1, <2>4, <2>5 DEF RemarksAgree
    <2>7. QED
      BY <2>2, <2>6
  <1>5. QED
    BY <1>1, <1>2, <1>3, <1>4 DEF Kept

\* The number of comments is lowered.
LEMMA LowerKeeps ==
  ASSUME Agreeing, Stands, NEW t \in Taps, LowerComments(t)
  PROVE  Kept
  <1>1. TapsOK' /\ tap'[t] = NoTap /\ \A s \in Taps \ {t} : tap'[s] = tap[s]
    BY RowMoves, NoTapIs DEF Agreeing, LowerComments, End
  <1>2. tap[t].step = "lower" /\ UNCHANGED <<hearts, remark, leaving, twice, jammed>> /\ total' = [total EXCEPT !.comments = total.comments - 1]
    BY DEF LowerComments, End
  <1>3. Blamed'
    BY <1>1, <1>2, BlamedStays DEF Agreeing
  <1>4. ASSUME ~jammed
        PROVE  HeartsAgree' /\ RemarksAgree'
    <2>1. HeartsAgree /\ RemarksAgree /\ IsFiniteSet(Lowering)
          /\ Cardinality(Lowering) \in Nat /\ Cardinality(ShownComments) \in Nat /\ Cardinality(Storing) \in Nat
      BY <1>4, NumbersKnown DEF Agreeing
    <2>2. total'.likes = total.likes /\ total'.comments = total.comments - 1 /\ total.comments \in Int /\ twice \in Nat
      BY <1>2 DEF Agreeing, SocialTypeOK
    <2>3. HeartsAgree'
      BY <1>1, <1>2, <2>1, <2>2, NoTapIs, HeartsRest DEF LikeSteps
    <2>4. \A s \in Taps : tap[s].step \notin AddSteps
      BY <1>2, <2>1 DEF RemarksAgree, AddSteps, DropSteps
    <2>5. \A s \in Taps : tap'[s].step \in AddSteps \cup DropSteps => s # t /\ tap'[s] = tap[s]
      BY <1>1, NoTapIs DEF AddSteps, DropSteps
    <2>6. Storing' = Storing /\ ShownComments' = ShownComments /\ Lowering' = Lowering \ {t} /\ t \in Lowering
      BY <1>1, <1>2, NoTapIs DEF Storing, ShownComments, Lowering
    <2>7. Cardinality(Lowering') = Cardinality(Lowering) - 1
      BY <2>1, <2>6, FS_RemoveElement
    <2>8. NumbersCounted'
      BY <1>2, <2>1, <2>2, <2>6, <2>7 DEF RemarksAgree, NumbersCounted, Whole
    <2>9. RemarksAgree'
      BY <1>2, <2>1, <2>4, <2>5, <2>6, <2>8 DEF RemarksAgree
    <2>10. QED
      BY <2>3, <2>9
  <1>5. QED
    BY <1>1, <1>2, <1>3, <1>4 DEF Kept

-----------------------------------------------------------------------------
(* Every step *)

\* Every step leaves posts, hearts and comments in their types.
LEMMA SocialTypes ==
  ASSUME SocialTypeOK, TapsOK, [PostNext \/ MarkNext \/ TapNext]_socialVars
  PROVE  SocialTypeOK' /\ TapsOK'
  <1>1. CASE UNCHANGED socialVars
    BY <1>1 DEF socialVars, SocialTypeOK, TapsOK
  <1>2. CASE PostNext
    <2>1. ASSUME NEW part \in Parts, DeletePart(part)
          PROVE  SocialTypeOK' /\ TapsOK'
      BY <2>1 DEF DeletePart, SocialTypeOK, TapsOK
    <2>2. CASE DeletePictures
      BY <2>2 DEF DeletePictures, SocialTypeOK, TapsOK
    <2>3. CASE CreatePost \/ DeletePost \/ RemoveSocialPost
      BY <2>3 DEF CreatePost, DeletePost, RemoveSocialPost, SocialTypeOK, TapsOK
    <2>4. QED
      BY <1>2, <2>1, <2>2, <2>3 DEF PostNext
  <1>3. ASSUME NEW u \in People, ToggleSavePost(u) \/ ToggleFollow(u) \/ SetSocialBan(u)
        PROVE  SocialTypeOK' /\ TapsOK'
    BY <1>3 DEF ToggleSavePost, ToggleFollow, SetSocialBan, Toggled, SocialTypeOK, TapsOK
  <1>4. ASSUME NEW t \in Taps, NEW u \in People, ReadForLike(t, u) \/ ReadForComment(t, u)
        PROVE  SocialTypeOK' /\ TapsOK'
    <2>1. PICK step \in {"find", "comment"} : Begin(t, step, u, NoRemark)
      BY <1>4 DEF ReadForLike, ReadForComment
    <2>2. step \in TapSteps \ {"idle"} /\ step \notin DropSteps
      BY DEF TapSteps, LikeSteps, AddSteps, DropSteps
    <2>3. TapsOK'
      BY <2>1, <2>2, RowBegins
    <2>4. inTurn' \in BOOLEAN
      BY <1>4, Zenon DEF ReadForLike, ReadForComment, SocialTypeOK
    <2>5. QED
      BY <1>4, <2>3, <2>4 DEF ReadForLike, ReadForComment, SocialTypeOK, TapsOK, RowOK, TapRow, TapSteps
  <1>5. ASSUME NEW t \in Taps, NEW c \in Remarks,
               ReadForRemoval(t, c) \/ \E u \in People \cup {Moderator} : FindComment(t, u, c)
        PROVE  SocialTypeOK' /\ TapsOK'
    <2>1. PICK u \in People \cup {Moderator} : \E step \in {"drop", "hide"} : Begin(t, step, u, c)
      BY <1>5 DEF ReadForRemoval, FindComment
    <2>2. PICK step \in {"drop", "hide"} : Begin(t, step, u, c)
      BY <2>1
    <2>3. step \in TapSteps \ {"idle"} /\ step \notin LikeSteps \cup AddSteps
      BY DEF TapSteps, LikeSteps, AddSteps, DropSteps
    <2>4. TapsOK'
      BY <2>2, <2>3, RowBegins
    <2>5. inTurn' \in BOOLEAN
      BY <1>5, Zenon DEF ReadForRemoval, FindComment, SocialTypeOK
    <2>6. QED
      BY <1>5, <2>4, <2>5 DEF ReadForRemoval, FindComment, SocialTypeOK, TapsOK, RowOK, TapRow, TapSteps
  <1>6. ASSUME NEW t \in Taps, FindHeart(t) \/ DropComment(t) \/ HideComment(t) \/ \E c \in Remarks : CreateComment(t, c)
        PROVE  SocialTypeOK' /\ TapsOK'
    <2>1. TapsOK'
      <3>1. CASE tap' = [tap EXCEPT ![t] = NoTap]
        BY <3>1, NoTapIs, RowMoves
      <3>2. CASE tap' # [tap EXCEPT ![t] = NoTap]
        <4>1. PICK step \in TapSteps :
                 /\ tap' = [tap EXCEPT ![t].step = step]
                 /\ \/ tap[t].step \in LikeSteps /\ step \in LikeSteps
                    \/ tap[t].step \in AddSteps /\ step \in AddSteps
                    \/ tap[t].step \in DropSteps /\ step \in DropSteps
          BY <1>6, <3>2 DEF FindHeart, DropComment, HideComment, CreateComment, Then, End, TapSteps, LikeSteps, AddSteps, DropSteps
        <4>2. QED
          BY <4>1, RowSteps
      <3>3. QED
        BY <3>1, <3>2
    <2>2. remark' \in [Remarks -> [status : {"none", "active", "removed", "gone"}, by : People \cup {NoOne}]]
      <3>1. CASE FindHeart(t)
        BY <3>1 DEF FindHeart, SocialTypeOK
      <3>2. CASE DropComment(t) \/ HideComment(t)
        <4>1. tap[t].what \in Remarks
          BY <3>2 DEF DropComment, HideComment, Then, TapsOK, RowOK, DropSteps
        <4>2. CASE DropComment(t)
          BY <4>1, <4>2 DEF DropComment, SocialTypeOK
        <4>3. CASE HideComment(t)
          BY <4>1, <4>3 DEF HideComment, SocialTypeOK
        <4>4. QED
          BY <3>2, <4>2, <4>3
      <3>3. ASSUME NEW c \in Remarks, CreateComment(t, c)
            PROVE  remark' \in [Remarks -> [status : {"none", "active", "removed", "gone"}, by : People \cup {NoOne}]]
        <4>1. tap[t].who \in People
          BY <3>3 DEF CreateComment, Then, TapsOK, RowOK, AddSteps
        <4>2. QED
          BY <3>3, <4>1 DEF CreateComment, SocialTypeOK
      <3>4. QED
        BY <1>6, <3>1, <3>2, <3>3
    <2>3. \A s \in Taps : tap'[s].step \in TapSteps
      BY <2>1 DEF TapsOK, RowOK, TapRow
    <2>4. UNCHANGED <<post, total, hearts, saved, followers, banned, album, leaving, inTurn, jammed>> /\ twice' \in Nat
      BY <1>6 DEF FindHeart, DropComment, HideComment, CreateComment, SocialTypeOK
    <2>5. QED
      BY <2>1, <2>2, <2>3, <2>4 DEF SocialTypeOK, TapSteps
  <1>7. ASSUME NEW t \in Taps, CreateHeart(t) \/ DeleteHeart(t)
        PROVE  SocialTypeOK' /\ TapsOK'
    <2>1. PICK r : tap' = [tap EXCEPT ![t] = r] /\ (r = NoTap \/ r = ToSave(t, tap[t].read.likes + 1)
                                                    \/ (r = ToSave(t, tap[t].read.likes - 1) /\ tap[t].read.likes # 0))
      BY <1>7 DEF CreateHeart, DeleteHeart
    <2>2. RowOK(tap[t]) /\ tap[t] \in TapRow /\ tap[t].read.likes \in Nat
      BY DEF TapsOK, RowOK, TapRow
    <2>3. tap[t].who \in People
      BY <1>7, <2>2 DEF RowOK, CreateHeart, DeleteHeart, LikeSteps
    <2>4. r = NoTap \/ (r.step = "saveLikes" /\ r.who = tap[t].who /\ r \in TapRow)
      BY <2>1, <2>2, ToSaveIs
    <2>5. RowOK(r)
      BY <2>3, <2>4, NoTapIs DEF RowOK, DropSteps
    <2>6. TapsOK'
      BY <2>1, <2>5, RowMoves
    <2>7. \A s \in Taps : tap'[s].step \in TapSteps
      BY <2>6 DEF TapsOK, RowOK, TapRow
    <2>8. UNCHANGED <<post, total, saved, followers, remark, banned, album, leaving, inTurn, jammed, twice>> /\ hearts' \subseteq People
      BY <1>7, <2>3 DEF CreateHeart, DeleteHeart, SocialTypeOK
    <2>9. QED
      BY <2>6, <2>7, <2>8 DEF SocialTypeOK, TapSteps
  <1>8. ASSUME NEW t \in Taps, SaveLikes(t) \/ SaveComment(t) \/ LowerComments(t) \/ BreakOffTap(t)
        PROVE  SocialTypeOK' /\ TapsOK'
    <2>1. tap' = [tap EXCEPT ![t] = NoTap]
      BY <1>8 DEF SaveLikes, SaveComment, LowerComments, BreakOffTap, End
    <2>2. TapsOK'
      BY <2>1, NoTapIs, RowMoves
    <2>3. \A s \in Taps : tap'[s].step \in TapSteps
      BY <2>2 DEF TapsOK, RowOK, TapRow
    <2>4. tap[t].read \in [likes : Nat, comments : Int]
      BY DEF TapsOK, RowOK, TapRow
    <2>5. total' \in [likes : Nat, comments : Int]
      BY <1>8, <2>4 DEF SaveLikes, SaveComment, LowerComments, BreakOffTap, SocialTypeOK
    <2>6. jammed' \in BOOLEAN /\ inTurn' \in BOOLEAN
      BY <1>8, Zenon DEF SaveLikes, SaveComment, LowerComments, BreakOffTap, SocialTypeOK
    <2>7. UNCHANGED <<post, hearts, saved, followers, remark, banned, album, leaving, twice>>
      BY <1>8 DEF SaveLikes, SaveComment, LowerComments, BreakOffTap
    <2>8. QED
      BY <2>2, <2>3, <2>5, <2>6, <2>7 DEF SocialTypeOK, TapSteps
  <1>9. QED
    BY <1>1, <1>2, <1>3, <1>4, <1>5, <1>6, <1>7, <1>8 DEF MarkNext, TapNext

\* Before there is a post there is nothing, and the marks of its readers are no part of that.
LEMMA NothingYet ==
  ASSUME SocialInv, [PostNext \/ MarkNext \/ TapNext]_socialVars, post' = "none"
  PROVE  Unposted'
  <1>1. CASE UNCHANGED socialVars
    BY <1>1 DEF socialVars, SocialInv, Unposted
  <1>2. CASE PostNext
    BY <1>2 DEF PostNext, CreatePost, DeletePost, DeletePictures, DeletePart, RemoveSocialPost, SocialInv, Unposted, Stands
  <1>3. CASE MarkNext
    BY <1>3 DEF MarkNext, ToggleSavePost, ToggleFollow, SetSocialBan, SocialInv, Unposted
  <1>4. CASE TapNext
    <2>1. post = "none" /\ Unposted
      <3>1. post' = post
        BY <1>4 DEF TapNext, ReadForLike, ReadForComment, FindHeart, CreateHeart, DeleteHeart, SaveLikes, SaveComment,
                    DropComment, HideComment, LowerComments, BreakOffTap, CreateComment, ReadForRemoval, FindComment
      <3>2. QED
        BY <3>1 DEF SocialInv
    <2>2. \A t \in Taps : tap[t].step = "idle" /\ Idle(t)
      BY <2>1, NoTapIs DEF Unposted, Idle
    <2>3. \A c \in Remarks : remark[c].status = "none"
      BY <2>1 DEF Unposted
    <2>4. FALSE
      BY <1>4, <2>1, <2>2, <2>3 DEF TapNext, ReadForLike, ReadForComment, FindHeart, CreateHeart, DeleteHeart, SaveLikes,
                  SaveComment, DropComment, HideComment, LowerComments, BreakOffTap, CreateComment, ReadForRemoval, FindComment,
                  Then, End
    <2>5. QED
      BY <2>4
  <1>5. QED
    BY <1>1, <1>2, <1>3, <1>4

\* A call that goes on after a save was refused has its cause already.
LEMMA JammedKeeps ==
  ASSUME Agreeing, jammed, TapsOK', NEW t \in Taps, DropComment(t) \/ HideComment(t)
  PROVE  Kept
  <1>1. jammed' = jammed /\ twice' \in {twice, twice + 1, twice + 0}
    BY Zenon DEF DropComment, HideComment
  <1>2. twice > 0 /\ twice \in Nat
    BY DEF Agreeing, Blamed, SocialTypeOK
  <1>3. twice' > 0
    BY <1>1, <1>2
  <1>4. QED
    BY <1>1, <1>3 DEF Kept, Blamed

\* A deletion takes rows of the post, and leaves the numbers and the calls as they are.
LEMMA DeletionKeeps ==
  ASSUME Agreeing, Stands', (leaving = {} /\ album) \/ "post" \in leaving,
         DeletePost \/ DeletePictures \/ \E part \in Parts : DeletePart(part)
  PROVE  Kept /\ "post" \in leaving'
  <1>1. /\ UNCHANGED <<total, tap, jammed, twice>>
        /\ hearts' \in {hearts, {}} /\ ("post" \in leaving' /\ leaving' # {})
        /\ \A c \in Remarks : remark'[c] = remark[c] \/ remark'[c].status = "gone"
    <2>1. ASSUME NEW part \in Parts, DeletePart(part)
          PROVE  /\ UNCHANGED <<total, tap, jammed, twice>> /\ hearts' \in {hearts, {}} /\ "post" \in leaving'
                 /\ \A c \in Remarks : remark'[c] = remark[c] \/ remark'[c].status = "gone"
      <3>1. part # "post" /\ "post" \in leaving'
        BY <2>1 DEF DeletePart, Stands
      <3>2. UNCHANGED <<total, tap, jammed, twice>> /\ hearts' \in {hearts, {}}
        BY <2>1 DEF DeletePart
      <3>3. \A c \in Remarks : remark'[c] = remark[c] \/ remark'[c].status = "gone"
        BY <2>1 DEF DeletePart
      <3>4. QED
        BY <3>1, <3>2, <3>3
    <2>2. CASE DeletePost \/ DeletePictures
      BY <2>2 DEF DeletePost, DeletePictures, Parts
    <2>3. QED
      BY <2>1, <2>2
  <1>2. TapsOK' /\ Blamed' /\ ~Whole'
    BY <1>1 DEF Agreeing, TapsOK, Blamed, Whole
  <1>3. ASSUME ~jammed
        PROVE  HeartsAgree' /\ RemarksAgree'
    <2>1. /\ HeartsAgree /\ RemarksAgree /\ IsFiniteSet(hearts) /\ IsFiniteSet(ShownComments)
          /\ Cardinality(Storing) \in Nat /\ Cardinality(Lowering) \in Nat /\ Cardinality(ShownComments) \in Nat
      BY <1>3, NumbersKnown DEF Agreeing
    <2>2. Cardinality(hearts) \in Nat /\ Cardinality({}) = 0 /\ Cardinality(hearts') \in Nat /\ Cardinality(hearts') <= Cardinality(hearts)
      <3>1. Cardinality({}) = 0 /\ Cardinality(hearts) \in Nat
        BY <2>1, FS_CardinalityType, FS_EmptySet
      <3>2. QED
        BY <1>1, <3>1
    <2>3. total.likes \in Nat /\ \A t \in Taps : tap[t].read.likes \in Nat
      BY DEF Agreeing, SocialTypeOK, TapsOK, RowOK, TapRow
    <2>4. \A t \in Taps : tap[t].step = "liked" /\ tap[t].who \notin hearts' => tap[t].read.likes > Cardinality(hearts')
      <3>1. ASSUME NEW t \in Taps, tap[t].step = "liked", tap[t].who \notin hearts'
            PROVE  tap[t].read.likes > Cardinality(hearts')
        <4>1. tap[t].step \in LikeSteps
          BY <3>1 DEF LikeSteps
        <4>2. CASE tap[t].who \notin hearts
          BY <1>1, <2>1, <2>2, <2>3, <3>1, <4>1, <4>2 DEF HeartsAgree
        <4>3. CASE tap[t].who \in hearts
          <5>1. hearts' = {} /\ Cardinality(hearts) # 0
            BY <1>1, <2>1, <3>1, <4>3, FS_EmptySet
          <5>2. QED
            BY <2>1, <2>2, <2>3, <4>1, <5>1 DEF HeartsAgree
        <4>4. QED
          BY <4>2, <4>3
      <3>2. QED
        BY <3>1
    <2>5. HeartsAgree'
      BY <1>1, <1>2, <2>1, <2>2, <2>3, <2>4 DEF HeartsAgree
    <2>6. Storing' = Storing /\ Lowering' = Lowering /\ ShownComments' \subseteq ShownComments
      BY <1>1 DEF Storing, Lowering, ShownComments
    <2>7. Cardinality(ShownComments') <= Cardinality(ShownComments) /\ Cardinality(ShownComments') \in Nat
      BY <2>1, <2>6, FS_Subset, FS_CardinalityType
    <2>8. NumbersCounted'
      <3>1. total.comments \in Int /\ twice \in Nat /\ NumbersCounted
        BY <2>1 DEF Agreeing, SocialTypeOK, RemarksAgree
      <3>2. QED
        BY <1>1, <1>2, <2>1, <2>6, <2>7, <3>1 DEF NumbersCounted
    <2>9. RemarksAgree'
      <3>1. \A t \in Taps : tap[t].step \in DropSteps => tap[t].what \in Remarks
        BY DEF Agreeing, TapsOK, RowOK
      <3>2. QED
        BY <1>1, <2>1, <2>8, <3>1 DEF RemarksAgree
    <2>10. QED
      BY <2>5, <2>9
  <1>4. QED
    BY <1>1, <1>2, <1>3 DEF Kept

\* Every step of likes and comments keeps the invariant.
LEMMA SocialGoesOn ==
  ASSUME SocialInv, [PostNext \/ MarkNext \/ TapNext]_socialVars
  PROVE  SocialInv'
  <1>1. SocialTypeOK' /\ TapsOK'
    BY SocialTypes DEF SocialInv
  <1>2. post' = "none" => Unposted'
    BY NothingYet
  <1>3. ASSUME inTurn', Stands'
        PROVE  Kept
    <2>1. CASE UNCHANGED <<post, total, hearts, remark, leaving, tap, inTurn, jammed, twice>>
      <3>1. Agreeing
        BY <1>3, <2>1 DEF SocialInv, Agreeing, Stands
      <3>2. Blamed'
        BY <2>1, <3>1 DEF Agreeing, Blamed
      <3>3. ~jammed => HeartsAgree' /\ RemarksAgree'
        BY <2>1, <3>1 DEF Agreeing, HeartsAgree, RemarksAgree, NumbersCounted, Whole, Storing, Lowering, ShownComments
      <3>4. QED
        BY <1>1, <2>1, <3>2, <3>3 DEF Kept
    <2>2. CASE PostNext
      <3>1. CASE CreatePost
        <4>1. Unposted /\ UNCHANGED <<total, hearts, remark, leaving, tap, inTurn, jammed, twice>>
          BY <3>1 DEF CreatePost, SocialInv
        <4>2. \A t \in Taps : tap'[t] = NoTap
          BY <4>1 DEF Unposted
        <4>3. Storing' = {} /\ Lowering' = {} /\ ShownComments' = {} /\ hearts' = {} /\ total' = Zero /\ twice' = 0 /\ ~jammed'
          BY <4>1, <4>2, NoTapIs DEF Unposted, Storing, Lowering, ShownComments
        <4>4. HeartsAgree' /\ RemarksAgree'
          BY <4>2, <4>3, NoTapIs, FS_EmptySet DEF HeartsAgree, RemarksAgree, NumbersCounted, LikeSteps, AddSteps, DropSteps, Zero
        <4>5. Blamed'
          BY <4>2, <4>3, NoTapIs DEF Blamed
        <4>6. QED
          BY <1>1, <4>4, <4>5 DEF Kept
      <3>2. CASE RemoveSocialPost
        <4>1. Agreeing /\ UNCHANGED <<total, hearts, remark, leaving, tap, inTurn, jammed, twice>>
          BY <1>3, <3>2 DEF RemoveSocialPost, SocialInv, Agreeing
        <4>2. Blamed'
          BY <4>1 DEF Agreeing, Blamed
        <4>3. ~jammed => HeartsAgree' /\ RemarksAgree'
          BY <4>1 DEF Agreeing, HeartsAgree, RemarksAgree, NumbersCounted, Whole, Storing, Lowering, ShownComments
        <4>4. QED
          BY <1>1, <4>1, <4>2, <4>3 DEF Kept
      <3>3. CASE DeletePost \/ DeletePictures \/ \E part \in Parts : DeletePart(part)
        <4>1. inTurn /\ Stands
          BY <1>3, <3>3 DEF DeletePost, DeletePictures, DeletePart, Stands
        <4>2. Agreeing /\ ((leaving = {} /\ album) \/ "post" \in leaving)
          BY <4>1 DEF SocialInv, Agreeing
        <4>3. QED
          BY <1>3, <3>3, <4>2, DeletionKeeps
      <3>4. QED
        BY <2>2, <3>1, <3>2, <3>3 DEF PostNext
    <2>3. CASE TapNext
      <3>1. post' = post /\ (inTurn' => inTurn)
        <4>1. post' = post
          BY <2>3 DEF TapNext, ReadForLike, ReadForComment, FindHeart, CreateHeart, DeleteHeart, SaveLikes, SaveComment,
                      DropComment, HideComment, LowerComments, BreakOffTap, CreateComment, ReadForRemoval, FindComment
        <4>2. ASSUME NEW t \in Taps, NEW u \in People, ReadForLike(t, u) \/ ReadForComment(t, u)
              PROVE  inTurn' => inTurn
          BY <4>2, Zenon DEF ReadForLike, ReadForComment
        <4>3. ASSUME NEW t \in Taps, NEW c \in Remarks,
                     ReadForRemoval(t, c) \/ \E u \in People \cup {Moderator} : FindComment(t, u, c)
              PROVE  inTurn' => inTurn
          BY <4>3, Zenon DEF ReadForRemoval, FindComment
        <4>4. ASSUME NEW t \in Taps,
                     \/ FindHeart(t) \/ CreateHeart(t) \/ DeleteHeart(t) \/ SaveLikes(t) \/ SaveComment(t)
                     \/ DropComment(t) \/ HideComment(t) \/ LowerComments(t) \/ \E c \in Remarks : CreateComment(t, c)
              PROVE  inTurn' => inTurn
          BY <4>4 DEF FindHeart, CreateHeart, DeleteHeart, SaveLikes, SaveComment,
                      DropComment, HideComment, LowerComments, CreateComment
        <4>5. ASSUME NEW t \in Taps, BreakOffTap(t)
              PROVE  inTurn' => inTurn
          BY <1>3, <4>5 DEF BreakOffTap
        <4>6. QED
          BY <2>3, <4>1, <4>2, <4>3, <4>4, <4>5 DEF TapNext
      <3>2. Agreeing /\ Stands
        BY <1>3, <3>1 DEF SocialInv, Agreeing, Stands
      <3>3. ASSUME NEW t \in Taps, NEW u \in People, ReadForLike(t, u) \/ ReadForComment(t, u)
            PROVE  Kept
        BY <1>3, <3>2, <3>3, LikeBegins, CommentBegins
      <3>4. ASSUME NEW t \in Taps, NEW c \in Remarks, ReadForRemoval(t, c) \/ \E u \in People \cup {Moderator} : FindComment(t, u, c)
            PROVE  Kept
        BY <1>3, <3>2, <3>4, DropBegins
      <3>5. ASSUME NEW t \in Taps, NEW c \in Remarks, CreateComment(t, c)
            PROVE  Kept
        BY <3>2, <3>5, CreateCommentKeeps
      <3>6. ASSUME NEW t \in Taps, DropComment(t) \/ HideComment(t)
            PROVE  Kept
        BY <1>1, <3>2, <3>6, DropKeeps, HideEnds, JammedKeeps
      <3>7. ASSUME NEW t \in Taps, FindHeart(t) \/ CreateHeart(t) \/ DeleteHeart(t)
            PROVE  Kept
        BY <3>2, <3>7, FindHeartKeeps, HeartKeeps
      <3>8. ASSUME NEW t \in Taps, SaveLikes(t) \/ SaveComment(t) \/ LowerComments(t)
            PROVE  Kept
        BY <3>2, <3>8, SaveLikesKeeps, SaveCommentKeeps, LowerKeeps
      <3>9. ASSUME NEW t \in Taps, BreakOffTap(t)
            PROVE  Kept
        BY <1>3, <3>9 DEF BreakOffTap
      <3>10. QED
        BY <2>3, <3>3, <3>4, <3>5, <3>6, <3>7, <3>8, <3>9 DEF TapNext
    <2>4. CASE MarkNext
      BY <2>1, <2>4 DEF MarkNext, ToggleSavePost, ToggleFollow, SetSocialBan
    <2>5. QED
      BY <2>1, <2>2, <2>3, <2>4 DEF socialVars
  <1>4. ASSUME Stands'
        PROVE  (leaving' = {} /\ album') \/ "post" \in leaving'
    <2>1. CASE CreatePost
      BY <2>1 DEF CreatePost, SocialInv, Unposted
    <2>2. CASE DeletePost \/ DeletePictures \/ \E part \in Parts : DeletePart(part)
      BY <1>4, <2>2 DEF DeletePost, DeletePictures, DeletePart, Parts, Stands, SocialInv
    <2>3. CASE UNCHANGED <<album, leaving>> /\ (post' = post \/ RemoveSocialPost)
      BY <1>4, <2>3 DEF RemoveSocialPost, Stands, SocialInv
    <2>4. QED
      BY <2>1, <2>2, <2>3 DEF PostNext, MarkNext, TapNext, ReadForLike, ReadForComment, FindHeart, CreateHeart, DeleteHeart,
            SaveLikes, SaveComment, DropComment, HideComment, LowerComments, BreakOffTap, CreateComment, ReadForRemoval,
            FindComment, ToggleSavePost, ToggleFollow, SetSocialBan, RemoveSocialPost, socialVars
  <1>5. QED
    BY <1>1, <1>2, <1>3, <1>4 DEF SocialInv, Kept

\* Likes and comments begin with the invariant.
LEMMA SocialBegins == SocialInit => SocialInv
  <1>1. SUFFICES ASSUME SocialInit
                 PROVE  SocialInv
    OBVIOUS
  <1>2. TapsOK /\ \A t \in Taps : tap[t] = NoTap /\ tap[t].step = "idle"
    BY <1>1, NoTapIs DEF SocialInit, TapsOK
  <1>3. SocialTypeOK
    <2>1. remark \in [Remarks -> [status : {"none", "active", "removed", "gone"}, by : People \cup {NoOne}]]
      BY <1>1 DEF SocialInit
    <2>2. total \in [likes : Nat, comments : Int]
      BY <1>1 DEF SocialInit, Zero
    <2>3. QED
      BY <1>1, <1>2, <2>1, <2>2 DEF SocialInit, SocialTypeOK
  <1>4. Unposted
    BY <1>1, <1>2 DEF SocialInit, Unposted
  <1>5. QED
    BY <1>1, <1>2, <1>3, <1>4 DEF SocialInit, SocialInv, Stands

\* The invariant of likes and comments holds in every state: types, what calls have
\* found, and the numbers of the post (social.service.ts).
LEMMA SocialHolds == SocialSpec => []SocialInv
  BY SocialBegins, SocialGoesOn, PTL DEF SocialSpec

\* What readers and admins are shown of a post agrees with its rows, up to the comments that
\* were removed twice, and those are the only way to a save that is refused.
\* (toggleLike, addComment, deleteComment, removeSocialComment)
THEOREM NumbersAgree == SocialSpec => []NumbersTellTheTruth
  <1>1. SocialInv => NumbersTellTheTruth
    <2>1. SUFFICES ASSUME SocialInv, inTurn, Stands
                   PROVE  LET whole == leaving = {}
                              active == {c \in DOMAIN AdminPost.comments : AdminPost.comments[c] = "active"}
                          IN
                          /\ jammed => twice > 0
                          /\ \A u \in People : \A v \in Pages(u) : whole => v.images
                          /\ ~jammed /\ Liking = {} =>
                                /\ AdminPost.likeCount >= Cardinality(hearts)
                                /\ whole => AdminPost.likeCount = Cardinality(hearts)
                                /\ \A u \in People : \A v \in Pages(u) :
                                      v.likeCount = AdminPost.likeCount /\ (v.likedByMe => v.likeCount > 0)
                          /\ ~jammed /\ Adding = {} /\ Dropping(Remarks) = {} =>
                                /\ AdminPost.commentCount + twice >= Cardinality(active)
                                /\ whole => AdminPost.commentCount + twice = Cardinality(active)
                                /\ ShownComments = active
                                /\ \A u \in People : \A v \in Pages(u) : v.commentCount = AdminPost.commentCount
      BY DEF NumbersTellTheTruth
    <2>2. jammed => twice > 0
      BY <2>1 DEF SocialInv, Blamed
    <2>3. /\ AdminPost.likeCount = total.likes /\ AdminPost.commentCount = total.comments
          /\ \A u \in People : \A v \in Pages(u) :
                v.likeCount = total.likes /\ v.commentCount = total.comments /\ v.likedByMe = (u \in hearts) /\ v.images = album
      BY DEF AdminPost, Pages, Feed, SavedPosts, PostView
    <2>4. {c \in DOMAIN AdminPost.comments : AdminPost.comments[c] = "active"} = ShownComments
      BY DEF AdminPost, ShownComments
    <2>5. ASSUME ~jammed
          PROVE  /\ Liking = {} => total.likes >= Cardinality(hearts) /\ (leaving = {} => total.likes = Cardinality(hearts))
                 /\ Adding = {} /\ Dropping(Remarks) = {} =>
                       /\ total.comments + twice >= Cardinality(ShownComments)
                       /\ leaving = {} => total.comments + twice = Cardinality(ShownComments)
                 /\ IsFiniteSet(hearts) /\ Cardinality(hearts) \in Nat /\ total.likes \in Nat
      <3>1. SocialTypeOK /\ TapsOK /\ HeartsAgree /\ RemarksAgree
        BY <2>1, <2>5 DEF SocialInv
      <3>2. IsFiniteSet(hearts) /\ Cardinality(hearts) \in Nat /\ total.likes \in Nat
        BY <3>1, NumbersKnown, FS_CardinalityType DEF SocialTypeOK
      <3>3. Liking = {} => total.likes >= Cardinality(hearts) /\ (leaving = {} => total.likes = Cardinality(hearts))
        BY <3>1 DEF HeartsAgree, Whole, Liking, LikeSteps
      <3>4. ASSUME Adding = {}, Dropping(Remarks) = {}
            PROVE  /\ total.comments + twice >= Cardinality(ShownComments)
                   /\ leaving = {} => total.comments + twice = Cardinality(ShownComments)
        <4>1. Storing = {} /\ Lowering = {}
          BY <3>1, <3>4 DEF Adding, Dropping, Storing, Lowering, AddSteps, DropSteps, TapsOK, RowOK
        <4>2. Cardinality(Storing) = 0 /\ Cardinality(Lowering) = 0 /\ Cardinality(ShownComments) \in Nat
              /\ total.comments \in Int /\ twice \in Nat
          BY <3>1, <4>1, NumbersKnown, FS_EmptySet DEF SocialTypeOK
        <4>3. QED
          BY <3>1, <4>2 DEF RemarksAgree, NumbersCounted, Whole
      <3>5. QED
        BY <3>2, <3>3, <3>4
    <2>6. \A u \in People : ~jammed /\ u \in hearts => Cardinality(hearts) > 0
      BY <2>5, FS_EmptySet
    <2>7. leaving = {} => album
      BY <2>1 DEF SocialInv
    <2>8. \A u \in People : \A v \in Pages(u) : leaving = {} => v.images
      BY <2>3, <2>7
    <2>9. ~jammed /\ Liking = {} => \A u \in People : \A v \in Pages(u) :
             v.likeCount = AdminPost.likeCount /\ (v.likedByMe => v.likeCount > 0)
      <3>1. ASSUME ~jammed, Liking = {}, NEW u \in People, NEW v \in Pages(u), v.likedByMe
            PROVE  v.likeCount > 0
        <4>1. v.likeCount = total.likes
          BY <2>3
        <4>2. u \in hearts
          BY <2>3, <3>1, Zenon
        <4>3. QED
          BY <2>5, <2>6, <3>1, <4>1, <4>2
      <3>2. QED
        BY <2>3, <3>1
    <2>10. \A u \in People : \A v \in Pages(u) : v.commentCount = AdminPost.commentCount
      BY <2>3
    <2>11. QED
      BY <2>2, <2>3, <2>4, <2>5, <2>8, <2>9, <2>10
  <1>2. QED
    BY <1>1, SocialHolds, PTL

-----------------------------------------------------------------------------
(* What a stylist offers                                                   *)

TaskRow == [step : TaskSteps, about : SUBSET Treatments, read : Seq(Keys), key : Keys \cup {"none"},
            lose : SUBSET Keys, drop : SUBSET Treatments, erase : SUBSET Treatments, old : BOOLEAN]

Shapes ==
    /\ category \in BOOLEAN /\ service \subseteq Treatments /\ offered \subseteq Treatments
    /\ pictures \in [Treatments -> Seq(Keys)] /\ task \in [Tasks -> TaskRow]

Editing == {"append", "appendSave", "replace", "replaceSave"}

\* What a call knows stays true until it ends, for the calls that go on beside it are about
\* other services.
Knows(t) ==
    /\ ~task[t].old
    /\ task[t].step = "idle" => task[t] = NoTask
    /\ task[t].step = "insert" => category
    /\ task[t].step = "deleteCategory" => service = {} /\ task[t].about = {}
    /\ task[t].step = "deleteService" => task[t].about \cap offered = {}
    /\ task[t].step \in {"offer", "attach"} => task[t].about \subseteq service
    /\ task[t].step = "dropService" => task[t].about \cap offered = {}
    /\ task[t].step \in Editing => \E s \in offered : task[t].about = {s} /\ task[t].read = pictures[s]
    /\ task[t].step \in {"appendSave", "replaceSave"} => task[t].key \in Keys
    /\ task[t].step = "arrange" =>
          \E s \in offered : /\ task[t].about = {s} /\ IsInjective(task[t].read)
                            /\ Range(task[t].read) \subseteq Range(pictures[s])
                            /\ task[t].lose = Range(pictures[s]) \ Range(task[t].read)
    /\ task[t].step \in {"dropKeys", "dropRows"} =>
          task[t].drop \subseteq task[t].about /\ task[t].erase \subseteq task[t].drop
    /\ task[t].step = "dropKeys" => task[t].lose = UNION {Range(pictures[s]) : s \in task[t].drop}

OneEach ==
    \A t, u \in Tasks : t # u /\ task[t].step # "idle" /\ task[u].step # "idle" =>
        task[t].step # "deleteCategory" /\ task[t].about \cap task[u].about = {}

\* The pictures that a call alone answers for: stored and not shown yet, or shown no more.
Holds(t) ==
    IF task[t].step \in {"appendSave", "replaceSave"} THEN {task[t].key}
    ELSE IF task[t].step = "keep" THEN task[t].lose ELSE {}

\* Services whose pictures are deleted and whose rows are still there.
Emptied == {s \in Treatments : \E t \in Tasks : task[t].step = "dropRows" /\ s \in task[t].drop}

\* Every key is in one place, and what was refused is nowhere shown once the rows have gone.
OnePlaceEach ==
    /\ \A s \in Treatments : IsInjective(pictures[s]) /\ Range(pictures[s]) \subseteq used
    /\ \A r, s \in Treatments : r # s => Range(pictures[r]) \cap Range(pictures[s]) = {}
    /\ \A t \in Tasks : Holds(t) \subseteq used /\ \A s \in Treatments : Holds(t) \cap Range(pictures[s]) = {}
    /\ \A t, u \in Tasks : t # u => Holds(t) \cap Holds(u) = {}
    /\ refused \subseteq used /\ \A t \in Tasks : Holds(t) \cap refused = {}
    /\ \A s \in Treatments \ Emptied : Range(pictures[s]) \cap refused = {}

\* The store holds what is shown, what the calls answer for and what it refused to delete.
StoreIsKept ==
    \A k : k \in store <=> \/ \E s \in Treatments \ Emptied : k \in Range(pictures[s])
                           \/ \E t \in Tasks : k \in Holds(t)
                           \/ k \in refused

\* What is known of the rows, and where the keys are.
Tidy ==
    /\ Shapes /\ OneEach /\ \A t \in Tasks : Knows(t)
    /\ offered \subseteq service /\ (service # {} => category)
    /\ \A s \in Treatments \ offered : pictures[s] = <<>>

OfferingInv ==
    /\ undisputed \in BOOLEAN
    /\ undisputed => Tidy /\ OnePlaceEach /\ StoreIsKept

-----------------------------------------------------------------------------
\* A call that is not under way is about nothing.
LEMMA NoTaskIs ==
  /\ NoTask.step = "idle" /\ NoTask.about = {} /\ NoTask.drop = {} /\ NoTask.old = FALSE
  /\ NoTask \in TaskRow
  BY DEF NoTask, Job, TaskRow, TaskSteps

\* A call that begins has neither read nor stored anything.
LEMMA JobIs ==
  ASSUME NEW step \in TaskSteps, NEW about \in SUBSET Treatments
  PROVE  /\ Job(step, about) \in TaskRow /\ Job(step, about).step = step /\ Job(step, about).about = about
         /\ Job(step, about).drop = {} /\ Job(step, about).old = FALSE
  BY DEF Job, TaskRow

\* A call begins while every other is about something else.
LEMMA TaskStarts ==
  ASSUME Shapes, \A u \in Tasks : Knows(u), NEW t \in Tasks, NEW change \in TaskRow, NEW claimed,
         Start(t, change), ~Disputed(claimed)
  PROVE  /\ task[t] = NoTask /\ task'[t] = change /\ task' \in [Tasks -> TaskRow]
         /\ \A u \in Tasks \ {t} :
               /\ task'[u] = task[u] /\ task[u].about \cap claimed = {}
               /\ task[u].step # "deleteCategory"
               /\ claimed = {} => task[u].step = "idle"
  <1>1. task[t] = NoTask /\ task' = [task EXCEPT ![t] = change]
    BY DEF Start
  <1>2. task'[t] = change /\ task' \in [Tasks -> TaskRow] /\ \A u \in Tasks \ {t} : task'[u] = task[u]
    BY <1>1 DEF Shapes
  <1>3. \A u \in Tasks : task[u].step # "idle" => task[u].about # {} /\ claimed # {} /\ task[u].about \cap claimed = {}
    BY DEF Disputed
  <1>4. \A u \in Tasks : task[u].step = "idle" => task[u].about = {}
    BY NoTaskIs DEF Knows
  <1>5. \A u \in Tasks : task[u].step = "deleteCategory" => task[u].about = {} /\ task[u].step # "idle"
    BY DEF Knows
  <1>6. QED
    BY <1>1, <1>2, <1>3, <1>4, <1>5

\* A call under way is alone with what it is about.
LEMMA TaskAlone ==
  ASSUME Tidy, NEW t \in Tasks, task[t].step # "idle"
  PROVE  \A u \in Tasks \ {t} :
            /\ task[u].about \cap task[t].about = {} /\ task[u].step # "deleteCategory"
            /\ task[t].step = "deleteCategory" => task[u].step = "idle"
  <1>1. \A u \in Tasks : task[u].step = "idle" => task[u].about = {}
    BY NoTaskIs DEF Tidy, Knows
  <1>2. QED
    BY <1>1 DEF Tidy, OneEach

\* One call changes and the others do not.
LEMMA TaskMoves ==
  ASSUME Shapes, NEW t \in Tasks, NEW change \in TaskRow, task' = [task EXCEPT ![t] = change]
  PROVE  task'[t] = change /\ task' \in [Tasks -> TaskRow] /\ \A u \in Tasks \ {t} : task'[u] = task[u]
  BY DEF Shapes

\* No copy is made old when nobody else reads the rows.
LEMMA NoneOutdated ==
  ASSUME Shapes, NEW t \in Tasks, NEW rows, NEW change \in TaskRow, task' = Outdated(t, rows, change),
         \A u \in Tasks \ {t} : task[u].about \cap rows = {}
  PROVE  task'[t] = change /\ task' \in [Tasks -> TaskRow] /\ \A u \in Tasks \ {t} : task'[u] = task[u]
  BY DEF Shapes, Outdated

\* One call changes what it is about, and the others know what they knew.
LEMMA OthersKnow ==
  ASSUME Tidy, NEW t \in Tasks, NEW about,
         \A u \in Tasks \ {t} :
             /\ task'[u] = task[u] /\ task[u].about \cap about = {}
             /\ task[u].step = "insert" /\ category => category'
             /\ task[u].step = "deleteCategory" => service' \subseteq service,
         \A s \in Treatments \ about :
             /\ s \in offered' <=> s \in offered
             /\ s \in service => s \in service'
             /\ pictures'[s] = pictures[s]
  PROVE  \A u \in Tasks \ {t} : Knows(u)'
  <1>1. SUFFICES ASSUME NEW u \in Tasks \ {t}
                 PROVE  Knows(u)'
    OBVIOUS
  <1>2. Knows(u) /\ task'[u] = task[u] /\ task[u].about \subseteq Treatments \ about
    BY DEF Tidy, Shapes, TaskRow
  <1>3. \A s \in task[u].about :
             /\ s \in offered' <=> s \in offered
             /\ s \in service => s \in service'
             /\ pictures'[s] = pictures[s]
    BY <1>2
  <1>4. task[u].step \in Editing => \E s \in offered' : task[u].about = {s} /\ task[u].read = pictures'[s]
    BY <1>2, <1>3 DEF Knows
  <1>5. task[u].step = "dropKeys" => task[u].lose = UNION {Range(pictures'[s]) : s \in task[u].drop}
    <2>1. SUFFICES ASSUME task[u].step = "dropKeys"
                   PROVE  task[u].lose = UNION {Range(pictures'[s]) : s \in task[u].drop}
      OBVIOUS
    <2>2. task[u].lose = UNION {Range(pictures[s]) : s \in task[u].drop} /\ task[u].drop \subseteq task[u].about
      BY <1>2, <2>1 DEF Knows
    <2>3. \A s \in task[u].drop : pictures'[s] = pictures[s]
      BY <1>3, <2>2
    <2>4. QED
      BY <2>2, <2>3
  <1>6. task[u].step = "deleteService" => task[u].about \cap offered' = {}
    BY <1>2, <1>3 DEF Knows
  <1>7. task[u].step \in {"offer", "attach"} => task[u].about \subseteq service'
    BY <1>2, <1>3 DEF Knows
  <1>8. task[u].step = "dropService" => task[u].about \cap offered' = {}
    BY <1>2, <1>3 DEF Knows
  <1>9. task[u].step = "arrange" =>
          \E s \in offered' : /\ task[u].about = {s} /\ IsInjective(task[u].read)
                             /\ Range(task[u].read) \subseteq Range(pictures'[s])
                             /\ task[u].lose = Range(pictures'[s]) \ Range(task[u].read)
    <2>1. SUFFICES ASSUME task[u].step = "arrange"
                   PROVE  \E s \in offered' : /\ task[u].about = {s} /\ IsInjective(task[u].read)
                                              /\ Range(task[u].read) \subseteq Range(pictures'[s])
                                              /\ task[u].lose = Range(pictures'[s]) \ Range(task[u].read)
      OBVIOUS
    <2>2. PICK s \in offered : /\ task[u].about = {s} /\ IsInjective(task[u].read)
                               /\ Range(task[u].read) \subseteq Range(pictures[s])
                               /\ task[u].lose = Range(pictures[s]) \ Range(task[u].read)
      BY <1>2, <2>1 DEF Knows
    <2>3. s \in offered' /\ pictures'[s] = pictures[s]
      BY <1>3, <2>2
    <2>4. QED
      BY <2>2, <2>3
  <1>10. QED
    BY <1>2, <1>4, <1>5, <1>6, <1>7, <1>8, <1>9 DEF Knows

\* Calls stay apart when one of them ends, is alone or stays at what it is about.
LEMMA OneEachGoesOn ==
  ASSUME OneEach, NEW t \in Tasks, \A u \in Tasks \ {t} : task'[u] = task[u],
         \/ task'[t].step = "idle"
         \/ \A u \in Tasks \ {t} : task[u].step = "idle"
         \/ /\ task'[t].step # "deleteCategory"
            /\ \A u \in Tasks \ {t} : task[u].step # "deleteCategory" /\ task[u].about \cap task'[t].about = {}
  PROVE  OneEach'
  BY DEF OneEach

-----------------------------------------------------------------------------
(* What is known of the rows stays true *)

\* A call begins, and may at once offer what it is about.
LEMMA RowsBegin ==
  ASSUME Tidy, NEW t \in Tasks, NEW change \in TaskRow, NEW claimed,
         Start(t, change), ~Disputed(claimed), change.about \subseteq claimed,
         change.step = "deleteCategory" => claimed = {},
         UNCHANGED <<category, service, pictures>>, offered \subseteq offered', offered' \subseteq service,
         \A s \in Treatments \ claimed : s \in offered' => s \in offered,
         task'[t] = change => Knows(t)'
  PROVE  Tidy'
  <1>1. /\ task'[t] = change /\ task' \in [Tasks -> TaskRow]
        /\ \A u \in Tasks \ {t} :
              /\ task'[u] = task[u] /\ task[u].about \cap claimed = {}
              /\ task[u].step # "deleteCategory"
              /\ claimed = {} => task[u].step = "idle"
    BY TaskStarts DEF Tidy
  <1>2. OneEach'
    <2>1. CASE change.step = "deleteCategory"
      BY <1>1, <2>1, OneEachGoesOn DEF Tidy
    <2>2. CASE change.step # "deleteCategory"
      <3>1. \A u \in Tasks \ {t} : task[u].step # "deleteCategory" /\ task[u].about \cap task'[t].about = {}
        BY <1>1
      <3>2. QED
        BY <1>1, <2>2, <3>1, OneEachGoesOn DEF Tidy
    <2>3. QED
      BY <2>1, <2>2
  <1>3. \A u \in Tasks \ {t} : Knows(u)'
    BY <1>1, OthersKnow
  <1>4. Shapes'
    BY <1>1 DEF Tidy, Shapes
  <1>5. \A s \in Treatments \ offered' : pictures'[s] = <<>>
    BY DEF Tidy
  <1>6. QED
    BY <1>1, <1>2, <1>3, <1>4, <1>5 DEF Tidy

\* A call goes on or ends, and changes only what it is about.
LEMMA RowsGoOn ==
  ASSUME Tidy, NEW t \in Tasks, task[t].step # "idle", NEW change \in TaskRow,
         task'[t] = change, task' \in [Tasks -> TaskRow], \A u \in Tasks \ {t} : task'[u] = task[u],
         change.step = "idle" \/ (change.about \subseteq task[t].about /\ change.step # "deleteCategory"),
         category' \in BOOLEAN, category => category' \/ task[t].step = "deleteCategory",
         service' \subseteq Treatments, offered' \subseteq service', service' # {} => category',
         pictures' \in [Treatments -> Seq(Keys)],
         \A s \in Treatments \ task[t].about :
             /\ s \in offered' <=> s \in offered
             /\ s \in service => s \in service'
             /\ pictures'[s] = pictures[s],
         \A s \in Treatments \ offered' : pictures'[s] = <<>>,
         Knows(t)'
  PROVE  Tidy'
  <1>1. \A u \in Tasks \ {t} :
            /\ task[u].about \cap task[t].about = {} /\ task[u].step # "deleteCategory"
            /\ task[t].step = "deleteCategory" => task[u].step = "idle"
    BY TaskAlone
  <1>2. OneEach'
    BY <1>1, OneEachGoesOn DEF Tidy
  <1>3. \A u \in Tasks \ {t} :
            /\ task'[u] = task[u] /\ task[u].about \cap task[t].about = {}
            /\ task[u].step = "insert" /\ category => category'
            /\ task[u].step = "deleteCategory" => service' \subseteq service
    BY <1>1
  <1>4. \A u \in Tasks \ {t} : Knows(u)'
    BY <1>3, OthersKnow
  <1>5. Shapes'
    BY DEF Tidy, Shapes
  <1>6. QED
    BY <1>2, <1>4, <1>5 DEF Tidy

\* A call that has no part in the store leaves every key in its place.
Keeping == {"appendSave", "replaceSave", "keep", "dropRows"}

\* Such a call moves no key.
LEMMA PlacesStay ==
  ASSUME OnePlaceEach, StoreIsKept, NEW t \in Tasks, \A u \in Tasks \ {t} : task'[u] = task[u],
         task[t].step \notin Keeping, task'[t].step \notin Keeping, UNCHANGED <<pictures, store, refused, used>>
  PROVE  OnePlaceEach' /\ StoreIsKept'
  <1>1. \A u \in Tasks : Holds(u)' = Holds(u)
    BY DEF Holds, Keeping
  <1>2. Emptied' = Emptied
    BY DEF Emptied, Keeping
  <1>3. OnePlaceEach'
    BY <1>1, <1>2 DEF OnePlaceEach
  <1>4. StoreIsKept'
    BY <1>1, <1>2 DEF StoreIsKept
  <1>5. QED
    BY <1>3, <1>4

-----------------------------------------------------------------------------
(* The calls, each at its steps *)

InOrder == Tidy /\ OnePlaceEach /\ StoreIsKept

\* Lookups of the catalogue.
LEMMA LookupsKeep ==
  ASSUME InOrder, undisputed', NEW t \in Tasks,
         \/ FindEmpty(t)
         \/ \E s \in Treatments : FindCategory(t, s) \/ FindUnoffered(t, s) \/ FindService(t, s)
  PROVE  InOrder'
  <1>1. PICK step \in {"deleteCategory", "insert", "deleteService", "offer"}, about \in SUBSET Treatments :
           /\ Start(t, Job(step, about)) /\ Claims(about)
           /\ step = "deleteCategory" => about = {} /\ service = {}
           /\ step = "insert" => category
           /\ step = "deleteService" => about \cap offered = {}
           /\ step = "offer" => about \subseteq service
    <2>1. CASE FindEmpty(t)
      <3>1. {} \in SUBSET Treatments
        OBVIOUS
      <3>2. QED
        BY <2>1, <3>1 DEF FindEmpty
    <2>2. ASSUME NEW s \in Treatments, FindCategory(t, s) \/ FindUnoffered(t, s) \/ FindService(t, s)
          PROVE  \E step \in {"insert", "deleteService", "offer"} :
                   /\ Start(t, Job(step, {s})) /\ Claims({s})
                   /\ step = "insert" => category
                   /\ step = "deleteService" => {s} \cap offered = {}
                   /\ step = "offer" => {s} \subseteq service
      BY <2>2 DEF FindCategory, FindUnoffered, FindService
    <2>3. \A s \in Treatments : {s} \in SUBSET Treatments
      OBVIOUS
    <2>4. QED
      BY <2>1, <2>2, <2>3
  <1>2. UNCHANGED <<category, service, offered, pictures, store, refused, used>>
    BY DEF FindEmpty, FindCategory, FindUnoffered, FindService
  <1>3. ~Disputed(about)
    BY <1>1, Zenon DEF Claims
  <1>4. PICK change \in TaskRow : change = Job(step, about) /\ change.step = step /\ change.about = about /\ ~change.old
    <2>1. step \in TaskSteps /\ about \in SUBSET Treatments
      BY DEF TaskSteps
    <2>2. Job(step, about) \in TaskRow /\ Job(step, about).step = step /\ Job(step, about).about = about /\ Job(step, about).old = FALSE
      <3>1. <<>> \in Seq(Keys) /\ {} \in SUBSET Keys /\ {} \in SUBSET Treatments
        OBVIOUS
      <3>2. QED
        BY <2>1, <3>1 DEF Job, TaskRow
    <2>3. QED
      BY <2>2
  <1>5. task[t] = NoTask /\ task'[t] = change /\ \A u \in Tasks \ {t} : task'[u] = task[u]
    BY <1>1, <1>3, <1>4, TaskStarts DEF InOrder, Tidy
  <1>6. Knows(t)'
    BY <1>1, <1>2, <1>4, <1>5 DEF Knows, Editing
  <1>7. Tidy'
    <2>1. offered \subseteq service
      BY DEF InOrder, Tidy
    <2>2. QED
      BY <1>1, <1>2, <1>3, <1>4, <1>6, <2>1, RowsBegin DEF InOrder
  <1>8. OnePlaceEach' /\ StoreIsKept'
    BY <1>2, <1>4, <1>5, NoTaskIs, PlacesStay DEF InOrder, Keeping
  <1>9. QED
    BY <1>7, <1>8 DEF InOrder

\* What a lookup leads to: a service or a category comes or goes, an offer is made; a service
\* goes after its row.
LEMMA CatalogueKeeps ==
  ASSUME InOrder, NEW t \in Tasks, 
         \/ DeleteCategory(t) \/ DeleteService(t) \/ OfferService(t)
         \/ InsertService(t) \/ AttachService(t) \/ DropService(t)
  PROVE  InOrder'
  <1>1. /\ task[t].step \in {"deleteCategory", "insert", "deleteService", "offer", "attach", "dropService"}
        /\ \/ task' = [task EXCEPT ![t] = NoTask]
           \/ InsertService(t) /\ task' = [task EXCEPT ![t].step = "attach"]
    BY DEF DeleteCategory, InsertService, DeleteService, OfferService, AttachService, DropService, Ended
  <1>2. UNCHANGED <<pictures, store, refused, used>>
    BY DEF DeleteCategory, InsertService, DeleteService, OfferService, AttachService, DropService
  <1>3. PICK change \in TaskRow :
           /\ task' = [task EXCEPT ![t] = change]
           /\ \/ change = NoTask
              \/ /\ InsertService(t) /\ change.step = "attach"
                 /\ change.about = task[t].about /\ ~change.old
    <2>1. CASE task' = [task EXCEPT ![t] = NoTask]
      BY <2>1, NoTaskIs
    <2>2. CASE InsertService(t) /\ task' = [task EXCEPT ![t].step = "attach"]
      <3>1. task[t] \in TaskRow /\ task \in [Tasks -> TaskRow] /\ ~task[t].old
        BY DEF InOrder, Tidy, Shapes, Knows
      <3>2. PICK change : change = [task[t] EXCEPT !.step = "attach"]
        OBVIOUS
      <3>3. /\ change \in TaskRow /\ change.step = "attach" /\ change.about = task[t].about
            /\ change.old = task[t].old
        BY <3>1, <3>2 DEF TaskRow, TaskSteps
      <3>4. task' = [task EXCEPT ![t] = change]
        BY <2>2, <3>1, <3>2
      <3>5. QED
        BY <2>2, <3>1, <3>3, <3>4
    <2>3. QED
      BY <1>1, <2>1, <2>2
  <1>4. task'[t] = change /\ task' \in [Tasks -> TaskRow] /\ \A u \in Tasks \ {t} : task'[u] = task[u]
    BY <1>3, TaskMoves DEF InOrder, Tidy
  <1>5. /\ Knows(t) /\ category \in BOOLEAN /\ service \subseteq Treatments /\ offered \subseteq service
        /\ service # {} => category
        /\ task[t].about \subseteq Treatments /\ pictures \in [Treatments -> Seq(Keys)]
        /\ \A s \in Treatments \ offered : pictures[s] = <<>>
    BY DEF InOrder, Tidy, Shapes, TaskRow
  <1>6. /\ category' \in BOOLEAN /\ (category => category' \/ task[t].step = "deleteCategory")
        /\ service' \subseteq Treatments /\ offered' \subseteq service' /\ (service' # {} => category')
        /\ offered \subseteq offered'
        /\ \A s \in Treatments \ task[t].about :
             /\ s \in offered' <=> s \in offered
             /\ s \in service => s \in service'
             /\ pictures'[s] = pictures[s]
    <2>1. CASE DeleteCategory(t)
      BY <1>2, <1>5, <2>1 DEF DeleteCategory, Knows
    <2>2. CASE InsertService(t)
      BY <1>2, <1>5, <2>2 DEF InsertService, Knows
    <2>3. CASE DeleteService(t)
      BY <1>2, <1>5, <2>3 DEF DeleteService, Knows
    <2>4. CASE OfferService(t) \/ AttachService(t)
      BY <1>2, <1>5, <2>4 DEF OfferService, AttachService, Knows
    <2>5. CASE DropService(t)
      BY <1>2, <1>5, <2>5 DEF DropService, Knows
    <2>6. QED
      BY <2>1, <2>2, <2>3, <2>4, <2>5
  <1>7. \A s \in Treatments \ offered' : pictures'[s] = <<>>
    BY <1>2, <1>5, <1>6
  <1>8. Knows(t)'
    <2>1. CASE change = NoTask
      BY <1>4, <2>1, NoTaskIs DEF Knows, Editing
    <2>2. CASE change # NoTask
      <3>1. /\ change.step = "attach" /\ change.about = task[t].about /\ ~change.old
            /\ service' = service \cup task[t].about
        BY <1>3, <2>2 DEF InsertService
      <3>2. QED
        BY <1>4, <3>1 DEF Knows, Editing
    <2>3. QED
      BY <2>1, <2>2
  <1>9. Tidy'
    <2>1. task[t].step # "idle" /\ Tidy /\ pictures' \in [Treatments -> Seq(Keys)]
      BY <1>1, <1>2, <1>5 DEF InOrder
    <2>2. change.step = "idle" \/ (change.about \subseteq task[t].about /\ change.step # "deleteCategory")
      BY <1>3, NoTaskIs
    <2>3. QED
      BY <1>4, <1>6, <1>7, <1>8, <2>1, <2>2, RowsGoOn
  <1>10. OnePlaceEach' /\ StoreIsKept'
    <2>1. task[t].step \notin Keeping /\ task'[t].step \notin Keeping
      BY <1>1, <1>3, <1>4, NoTaskIs DEF Keeping
    <2>2. QED
      BY <1>2, <1>4, <2>1, PlacesStay DEF InOrder
  <1>11. QED
    BY <1>9, <1>10 DEF InOrder

\* A category may always come.
LEMMA CategoryKeeps ==
  ASSUME InOrder, CreateCategory
  PROVE  InOrder'
  <1>1. category' = TRUE /\ UNCHANGED <<service, offered, pictures, store, refused, used, task>>
    BY DEF CreateCategory
  <1>2. \A t \in Tasks : Knows(t)'
    BY <1>1 DEF InOrder, Tidy, Knows
  <1>3. Shapes' /\ OneEach'
    BY <1>1 DEF InOrder, Tidy, Shapes, OneEach
  <1>4. Tidy'
    BY <1>1, <1>2, <1>3 DEF InOrder, Tidy
  <1>5. OnePlaceEach' /\ StoreIsKept'
    BY <1>1 DEF InOrder, OnePlaceEach, StoreIsKept, Holds, Emptied
  <1>6. QED
    BY <1>4, <1>5 DEF InOrder

\* A row lists keys.
LEMMA KeysOfPictures ==
  ASSUME Shapes, NEW s \in Treatments
  PROVE  pictures[s] \in Seq(Keys) /\ Range(pictures[s]) \subseteq Keys
  BY DEF Shapes, Range

\* A stylist takes services out of his list: what their pictures are is looked up.
LEMMA RemovalsKeep ==
  ASSUME InOrder, undisputed', NEW t \in Tasks,
         \/ \E s \in Treatments : \E erased \in {{}, {s}} : FindOffered(t, s, erased)
         \/ \E kept \in SUBSET Treatments : SetServices(t, kept)
  PROVE  InOrder'
  <1>1. PICK about, drop, erase \in SUBSET Treatments :
           /\ Start(t, Removal(about, drop, KeysOf(drop), erase))
           /\ Claims(about) /\ drop \subseteq about /\ erase \subseteq drop
           /\ offered \subseteq offered' /\ offered' \subseteq service
           /\ \A s \in Treatments \ about : s \in offered' => s \in offered
    <2>1. CASE \E s \in Treatments : \E erased \in {{}, {s}} : FindOffered(t, s, erased)
      <3>1. PICK s \in Treatments : \E erased \in {{}, {s}} : FindOffered(t, s, erased)
        BY <2>1
      <3>2. PICK erased \in {{}, {s}} : FindOffered(t, s, erased)
        BY <3>1
      <3>3. /\ Start(t, Removal({s}, {s}, KeysOf({s}), erased)) /\ Claims({s})
            /\ offered' = offered /\ offered \subseteq service
        BY <3>2 DEF FindOffered, InOrder, Tidy
      <3>4. {s} \in SUBSET Treatments /\ erased \in SUBSET Treatments /\ erased \subseteq {s}
        OBVIOUS
      <3>5. QED
        BY <3>3, <3>4
    <2>2. CASE \E kept \in SUBSET Treatments : SetServices(t, kept)
      <3>1. PICK kept \in SUBSET Treatments : SetServices(t, kept)
        BY <2>2
      <3>2. PICK d : d = Treatments \ (kept \cup (service \cap Custom))
        OBVIOUS
      <3>3. KeysOf(d \cap offered) = KeysOf(d)
        <4>1. \A r \in d \ offered : Range(pictures[r]) = {}
          BY <3>2 DEF InOrder, Tidy, Range
        <4>2. QED
          BY <4>1 DEF KeysOf
      <3>4. Start(t, Removal(Treatments, d, KeysOf(d \cap offered), {}))
        BY <3>1, <3>2 DEF SetServices
      <3>5. Claims(Treatments) /\ offered' = offered \cup kept /\ kept \subseteq service /\ offered \subseteq service
        BY <3>1 DEF SetServices, InOrder, Tidy
      <3>6. {} \in SUBSET Treatments /\ Treatments \in SUBSET Treatments /\ d \in SUBSET Treatments /\ {} \subseteq d
        BY <3>2
      <3>7. QED
        BY <3>3, <3>4, <3>5, <3>6
    <2>3. QED
      BY <2>1, <2>2
  <1>2. UNCHANGED <<category, service, pictures, store, refused, used>>
    BY DEF FindOffered, SetServices
  <1>3. ~Disputed(about)
    BY <1>1, Zenon DEF Claims
  <1>4. PICK lose : lose = KeysOf(drop)
    OBVIOUS
  <1>5. lose \subseteq Keys
    BY <1>4, KeysOfPictures DEF InOrder, Tidy, KeysOf
  <1>6. PICK change : change = Removal(about, drop, lose, erase)
    OBVIOUS
  <1>7. /\ change \in TaskRow /\ change.step = "dropKeys" /\ change.about = about /\ ~change.old
        /\ change.lose = lose /\ change.drop = drop /\ change.erase = erase
    <2>1. "dropKeys" \in TaskSteps /\ about \in SUBSET Treatments /\ drop \in SUBSET Treatments
          /\ erase \in SUBSET Treatments /\ lose \in SUBSET Keys
      BY <1>5 DEF TaskSteps
    <2>2. change = [step |-> "dropKeys", about |-> about, read |-> <<>>, key |-> "none",
                    lose |-> lose, drop |-> drop, erase |-> erase, old |-> FALSE]
      BY <1>6 DEF Job, Removal
    <2>3. QED
      BY <2>1, <2>2 DEF TaskRow
  <1>8. task[t] = NoTask /\ task'[t] = change /\ \A u \in Tasks \ {t} : task'[u] = task[u]
    <2>1. Start(t, change)
      BY <1>1, <1>4, <1>6
    <2>2. QED
      BY <1>3, <1>7, <2>1, TaskStarts DEF InOrder, Tidy
  <1>9. Knows(t)'
    BY <1>1, <1>2, <1>4, <1>7, <1>8 DEF Knows, Editing, KeysOf
  <1>10. Tidy'
    <2>1. Start(t, change) /\ change.about \subseteq about /\ change.step # "deleteCategory"
      BY <1>1, <1>4, <1>6, <1>7
    <2>2. QED
      BY <1>1, <1>2, <1>3, <1>7, <1>9, <2>1, RowsBegin DEF InOrder
  <1>11. OnePlaceEach' /\ StoreIsKept'
    BY <1>2, <1>7, <1>8, NoTaskIs, PlacesStay DEF InOrder, Keeping
  <1>12. QED
    BY <1>10, <1>11 DEF InOrder

\* A stylist adds a picture or replaces one: the list it goes into is looked up.
LEMMA EditsBegin ==
  ASSUME InOrder, undisputed', NEW t \in Tasks, NEW s \in Treatments, FindRoom(t, s) \/ FindPicture(t, s)
  PROVE  InOrder'
  <1>1. PICK step \in {"append", "replace"} :
           /\ Start(t, [Job(step, {s}) EXCEPT !.read = pictures[s]]) /\ Claims({s})
           /\ s \in service /\ s \in offered' /\ offered' = offered \cup {s}
    BY DEF FindRoom, FindPicture
  <1>2. UNCHANGED <<category, service, pictures, store, refused, used>>
    BY DEF FindRoom, FindPicture
  <1>3. ~Disputed({s})
    BY <1>1, Zenon DEF Claims
  <1>4. PICK change : change = [Job(step, {s}) EXCEPT !.read = pictures[s]]
    OBVIOUS
  <1>5. pictures[s] \in Seq(Keys)
    BY KeysOfPictures DEF InOrder, Tidy
  <1>6. change \in TaskRow /\ change.step = step /\ change.about = {s} /\ ~change.old /\ change.read = pictures[s]
    BY <1>4, <1>5 DEF Job, TaskRow, TaskSteps
  <1>7. Start(t, change)
    BY <1>1, <1>4
  <1>8. task[t] = NoTask /\ task'[t] = change /\ \A u \in Tasks \ {t} : task'[u] = task[u]
    BY <1>3, <1>6, <1>7, TaskStarts DEF InOrder, Tidy
  <1>9. Knows(t)'
    BY <1>1, <1>2, <1>6, <1>8 DEF Knows, Editing
  <1>10. Tidy'
    <2>1. /\ offered \subseteq offered' /\ offered' \subseteq service
          /\ change.about \subseteq {s} /\ change.step # "deleteCategory"
          /\ \A r \in Treatments \ {s} : r \in offered' => r \in offered
      BY <1>1, <1>6 DEF InOrder, Tidy
    <2>2. QED
      BY <1>2, <1>3, <1>6, <1>7, <1>9, <2>1, RowsBegin DEF InOrder
  <1>11. OnePlaceEach' /\ StoreIsKept'
    BY <1>2, <1>6, <1>8, NoTaskIs, PlacesStay DEF InOrder, Keeping
  <1>12. QED
    BY <1>10, <1>11 DEF InOrder

-----------------------------------------------------------------------------
(* Lists of pictures *)

\* One key more at the end of a list.
LEMMA AppendedKeys ==
  ASSUME NEW q \in Seq(Keys), NEW k \in Keys, IsInjective(q), k \notin Range(q)
  PROVE  /\ Append(q, k) \in Seq(Keys) /\ IsInjective(Append(q, k))
         /\ Range(Append(q, k)) = Range(q) \cup {k}
  <1>1. PICK p : p = Append(q, k)
    OBVIOUS
  <1>2. /\ p \in Seq(Keys) /\ DOMAIN p = 1..(Len(q) + 1) /\ DOMAIN q = 1..Len(q) /\ Len(q) \in Nat
        /\ p[Len(q) + 1] = k /\ \A i \in 1..Len(q) : p[i] = q[i]
    BY <1>1
  <1>3. \A i \in DOMAIN p : i = Len(q) + 1 \/ i \in DOMAIN q
    BY <1>2
  <1>4. \A i \in DOMAIN q : i \in DOMAIN p /\ p[i] = q[i] /\ p[i] # k
    BY <1>2 DEF Range
  <1>5. IsInjective(p)
    BY <1>2, <1>3, <1>4 DEF IsInjective
  <1>6. Range(p) = Range(q) \cup {k}
    <2>1. Len(q) + 1 \in DOMAIN p
      BY <1>2
    <2>2. QED
      BY <1>2, <1>3, <1>4, <2>1 DEF Range
  <1>7. QED
    BY <1>1, <1>2, <1>5, <1>6

\* A key that takes the place of another.
LEMMA ReplacedKeys ==
  ASSUME NEW q \in Seq(Keys), NEW k \in Keys, IsInjective(q), k \notin Range(q), NEW i \in 1..Len(q),
         NEW p, p = [q EXCEPT ![i] = k]
  PROVE  /\ p \in Seq(Keys) /\ IsInjective(p) /\ q[i] \in Range(q)
         /\ Range(p) = (Range(q) \ {q[i]}) \cup {k}
  <1>1. /\ p \in Seq(Keys) /\ DOMAIN p = 1..Len(q) /\ DOMAIN q = 1..Len(q)
        /\ p[i] = k /\ \A j \in DOMAIN q \ {i} : p[j] = q[j]
    OBVIOUS
  <1>2. \A j \in DOMAIN q : q[j] \in Range(q) /\ q[j] # k
    BY DEF Range
  <1>3. IsInjective(p)
    BY <1>1, <1>2 DEF IsInjective
  <1>4. Range(p) = (Range(q) \ {q[i]}) \cup {k}
    BY <1>1 DEF Range, IsInjective
  <1>5. QED
    BY <1>1, <1>2, <1>3, <1>4

\* A list that is sent is a list of keys.
LEMMA ListedKeys ==
  ASSUME NEW list \in Arrangements
  PROVE  list \in Seq(Keys)
  <1>1. PICK n \in 0..MaxPictures : list \in [1..n -> Keys]
    BY DEF Arrangements
  <1>2. n \in Nat
    BY OfferingAssumption
  <1>3. QED
    BY <1>1, <1>2

-----------------------------------------------------------------------------
(* The calls that move keys *)

\* Two calls that are under way are about different services, and so nobody else empties
\* the rows of one.
LEMMA OthersAnswer ==
  ASSUME NEW t \in Tasks, \A u \in Tasks \ {t} : task'[u] = task[u]
  PROVE  /\ \A u \in Tasks \ {t} : Holds(u)' = Holds(u)
         /\ \A s \in Treatments : (\A u \in Tasks \ {t} : s \notin task[u].drop) =>
               (s \in Emptied' <=> task'[t].step = "dropRows" /\ s \in task'[t].drop)
         /\ task[t].step # "dropRows" /\ task'[t].step # "dropRows" => Emptied' = Emptied
  BY DEF Holds, Emptied

\* Nobody else empties the rows that a call is about.
LEMMA EmptiedOnce ==
  ASSUME InOrder, NEW t \in Tasks, task[t].step \notin {"idle", "dropRows"}
  PROVE  Emptied \cap task[t].about = {}
  <1>1. \A u \in Tasks : task[u].step = "dropRows" => u # t /\ task[u].drop \subseteq task[u].about
    BY DEF InOrder, Tidy, Knows
  <1>2. \A u \in Tasks \ {t} : task[u].about \cap task[t].about = {}
    BY TaskAlone DEF InOrder
  <1>3. QED
    BY <1>1, <1>2 DEF Emptied

\* A picture is stored under a key of its own.
LEMMA StoringKeeps ==
  ASSUME InOrder, NEW t \in Tasks, NEW key \in Keys, StorePictureOf(t, key)
  PROVE  InOrder'
  <1>1. PICK step \in {"appendSave", "replaceSave"} : task' = [task EXCEPT ![t].key = key, ![t].step = step]
    BY DEF StorePictureOf
  <1>2. /\ task[t].step \in {"append", "replace"} /\ key \notin used
        /\ store' = store \cup {key} /\ used' = used \cup {key}
        /\ UNCHANGED <<category, service, offered, pictures, refused>>
    BY DEF StorePictureOf
  <1>3. task[t] \in TaskRow /\ Knows(t) /\ task \in [Tasks -> TaskRow]
    BY DEF InOrder, Tidy, Shapes
  <1>4. PICK change : change = [task[t] EXCEPT !.key = key, !.step = step]
    OBVIOUS
  <1>5. /\ change \in TaskRow /\ change.step = step /\ change.about = task[t].about /\ change.key = key
        /\ change.old = task[t].old /\ change.read = task[t].read
    BY <1>3, <1>4 DEF TaskRow, TaskSteps
  <1>6. task'[t] = change /\ task' \in [Tasks -> TaskRow] /\ \A u \in Tasks \ {t} : task'[u] = task[u]
    <2>1. task' = [task EXCEPT ![t] = change]
      BY <1>1, <1>3, <1>4
    <2>2. QED
      BY <1>5, <2>1, TaskMoves DEF InOrder, Tidy
  <1>7. Knows(t)'
    BY <1>2, <1>3, <1>5, <1>6 DEF Knows, Editing
  <1>8. Tidy'
    <2>1. /\ Tidy /\ category \in BOOLEAN /\ service \subseteq Treatments /\ offered \subseteq service
          /\ (service # {} => category) /\ pictures \in [Treatments -> Seq(Keys)]
          /\ \A s \in Treatments \ offered : pictures[s] = <<>>
      BY DEF InOrder, Tidy, Shapes
    <2>2. task[t].step # "idle" /\ change.step # "deleteCategory" /\ change.about = task[t].about
      BY <1>2, <1>5
    <2>3. QED
      BY <1>2, <1>5, <1>6, <1>7, <2>1, <2>2, RowsGoOn
  <1>9. Holds(t) = {} /\ Holds(t)' = {key} /\ \A u \in Tasks \ {t} : Holds(u)' = Holds(u)
    BY <1>2, <1>5, <1>6, OthersAnswer DEF Holds
  <1>10. Emptied' = Emptied
    BY <1>2, <1>5, <1>6, OthersAnswer
  <1>11. /\ \A s \in Treatments : key \notin Range(pictures[s])
         /\ (\A u \in Tasks : key \notin Holds(u)) /\ key \notin refused
    BY <1>2 DEF InOrder, OnePlaceEach
  <1>12. OnePlaceEach'
    <2>1. OnePlaceEach
      BY DEF InOrder
    <2>2. \A u \in Tasks : Holds(u)' \subseteq used' /\ \A s \in Treatments : Holds(u)' \cap Range(pictures[s]) = {}
      BY <1>2, <1>9, <1>11, <2>1 DEF OnePlaceEach
    <2>3. \A u, v \in Tasks : u # v => Holds(u)' \cap Holds(v)' = {}
      BY <1>9, <1>11, <2>1 DEF OnePlaceEach
    <2>4. /\ refused' \subseteq used' /\ \A u \in Tasks : Holds(u)' \cap refused' = {}
          /\ \A s \in Treatments \ Emptied' : Range(pictures'[s]) \cap refused' = {}
      BY <1>2, <1>9, <1>10, <1>11, <2>1 DEF OnePlaceEach
    <2>5. QED
      BY <1>2, <2>1, <2>2, <2>3, <2>4 DEF OnePlaceEach
  <1>13. StoreIsKept'
    BY <1>2, <1>9, <1>10 DEF InOrder, StoreIsKept
  <1>14. QED
    BY <1>8, <1>12, <1>13 DEF InOrder

\* What no row shows any more is deleted, or refused.
LEMMA UnkeptKeeps ==
  ASSUME InOrder, NEW t \in Tasks, DropUnkept(t)
  PROVE  InOrder'
  <1>1. PICK failed \in SUBSET task[t].lose :
           /\ task[t].step = "keep" /\ task' = [task EXCEPT ![t] = NoTask]
           /\ store' = store \ (task[t].lose \ failed) /\ refused' = refused \cup failed
           /\ UNCHANGED <<category, service, offered, pictures, used>>
    BY DEF DropUnkept, Ended, Discard
  <1>2. task'[t] = NoTask /\ task' \in [Tasks -> TaskRow] /\ \A u \in Tasks \ {t} : task'[u] = task[u]
    BY <1>1, NoTaskIs, TaskMoves DEF InOrder, Tidy
  <1>3. Knows(t)'
    BY <1>2, NoTaskIs DEF Knows, Editing
  <1>4. Tidy'
    <2>1. /\ Tidy /\ category \in BOOLEAN /\ service \subseteq Treatments /\ offered \subseteq service
          /\ (service # {} => category) /\ pictures \in [Treatments -> Seq(Keys)]
          /\ \A s \in Treatments \ offered : pictures[s] = <<>>
          /\ task[t].step # "idle" /\ NoTask \in TaskRow /\ NoTask.step = "idle"
      BY <1>1, NoTaskIs DEF InOrder, Tidy, Shapes
    <2>2. QED
      BY <1>1, <1>2, <1>3, <2>1, RowsGoOn
  <1>5. Holds(t) = task[t].lose /\ Holds(t)' = {} /\ \A u \in Tasks \ {t} : Holds(u)' = Holds(u)
    BY <1>1, <1>2, NoTaskIs, OthersAnswer DEF Holds
  <1>6. Emptied' = Emptied
    BY <1>1, <1>2, NoTaskIs, OthersAnswer
  <1>7. /\ \A s \in Treatments : Holds(t) \cap Range(pictures[s]) = {}
        /\ \A u \in Tasks \ {t} : Holds(t) \cap Holds(u) = {}
        /\ Holds(t) \cap refused = {} /\ Holds(t) \subseteq used
    BY DEF InOrder, OnePlaceEach
  <1>8. OnePlaceEach'
    <2>1. OnePlaceEach
      BY DEF InOrder
    <2>2. /\ refused' \subseteq used' /\ \A u \in Tasks : Holds(u)' \cap refused' = {}
          /\ \A s \in Treatments \ Emptied' : Range(pictures'[s]) \cap refused' = {}
      BY <1>1, <1>5, <1>6, <1>7, <2>1 DEF OnePlaceEach
    <2>3. /\ \A u \in Tasks : Holds(u)' \subseteq used' /\ \A s \in Treatments : Holds(u)' \cap Range(pictures'[s]) = {}
          /\ \A u, v \in Tasks : u # v => Holds(u)' \cap Holds(v)' = {}
      BY <1>1, <1>5, <2>1 DEF OnePlaceEach
    <2>4. QED
      BY <1>1, <2>1, <2>2, <2>3 DEF OnePlaceEach
  <1>9. StoreIsKept'
    <2>1. \A k : k \in store <=> \/ \E s \in Treatments \ Emptied : k \in Range(pictures[s])
                                 \/ \E u \in Tasks \ {t} : k \in Holds(u)
                                 \/ k \in Holds(t) \/ k \in refused
      BY DEF InOrder, StoreIsKept
    <2>2. \A k : k \in store' <=> \/ \E s \in Treatments \ Emptied : k \in Range(pictures[s])
                                  \/ \E u \in Tasks \ {t} : k \in Holds(u)
                                  \/ k \in failed \/ k \in refused
      BY <1>1, <1>5, <1>7, <2>1
    <2>3. QED
      BY <1>1, <1>5, <1>6, <2>2 DEF StoreIsKept
  <1>10. QED
    BY <1>4, <1>8, <1>9 DEF InOrder

\* The pictures of what is taken out of the list are deleted before the rows.
LEMMA KeysGoFirst ==
  ASSUME InOrder, NEW t \in Tasks, DropKeys(t)
  PROVE  InOrder'
  <1>1. PICK failed \in SUBSET task[t].lose :
           /\ task[t].step = "dropKeys" /\ task' = [task EXCEPT ![t].step = "dropRows"]
           /\ store' = store \ (task[t].lose \ failed) /\ refused' = refused \cup failed
           /\ UNCHANGED <<category, service, offered, pictures, used>>
    BY DEF DropKeys, Discard
  <1>2. task[t] \in TaskRow /\ Knows(t) /\ task \in [Tasks -> TaskRow]
    BY DEF InOrder, Tidy, Shapes
  <1>3. PICK change : change = [task[t] EXCEPT !.step = "dropRows"]
    OBVIOUS
  <1>4. /\ change \in TaskRow /\ change.step = "dropRows" /\ change.about = task[t].about
        /\ change.drop = task[t].drop /\ change.erase = task[t].erase /\ change.old = task[t].old
    BY <1>2, <1>3 DEF TaskRow, TaskSteps
  <1>5. task'[t] = change /\ task' \in [Tasks -> TaskRow] /\ \A u \in Tasks \ {t} : task'[u] = task[u]
    <2>1. task' = [task EXCEPT ![t] = change]
      BY <1>1, <1>2, <1>3
    <2>2. QED
      BY <1>4, <2>1, TaskMoves DEF InOrder, Tidy
  <1>6. Knows(t)'
    BY <1>1, <1>2, <1>4, <1>5 DEF Knows, Editing
  <1>7. Tidy'
    <2>1. /\ Tidy /\ category \in BOOLEAN /\ service \subseteq Treatments /\ offered \subseteq service
          /\ (service # {} => category) /\ pictures \in [Treatments -> Seq(Keys)]
          /\ \A s \in Treatments \ offered : pictures[s] = <<>>
          /\ task[t].step # "idle" /\ change.step # "deleteCategory" /\ change.about = task[t].about
      BY <1>1, <1>4 DEF InOrder, Tidy, Shapes
    <2>2. QED
      BY <1>1, <1>4, <1>5, <1>6, <2>1, RowsGoOn
  <1>8. Holds(t) = {} /\ Holds(t)' = {} /\ \A u \in Tasks \ {t} : Holds(u)' = Holds(u)
    BY <1>1, <1>4, <1>5, OthersAnswer DEF Holds
  <1>9. /\ task[t].drop \subseteq Treatments /\ task[t].lose = UNION {Range(pictures[s]) : s \in task[t].drop}
        /\ Emptied' = Emptied \cup task[t].drop
    BY <1>1, <1>2, <1>4, <1>5 DEF Knows, TaskRow, Emptied
  <1>10. task[t].drop \cap Emptied = {}
    BY <1>1, <1>2, EmptiedOnce DEF Knows
  <1>11. /\ \A r, s \in Treatments : r # s => Range(pictures[r]) \cap Range(pictures[s]) = {}
         /\ \A u \in Tasks : \A s \in Treatments : Holds(u) \cap Range(pictures[s]) = {}
         /\ \A s \in Treatments : Range(pictures[s]) \subseteq used
         /\ refused \subseteq used /\ (\A u \in Tasks : Holds(u) \cap refused = {})
         /\ \A s \in Treatments \ Emptied : Range(pictures[s]) \cap refused = {}
    BY DEF InOrder, OnePlaceEach
  <1>12. failed \subseteq used /\ \A u \in Tasks : Holds(u) \cap failed = {}
    BY <1>9, <1>11
  <1>13. \A s \in Treatments \ Emptied' : Range(pictures[s]) \cap task[t].lose = {}
    BY <1>9, <1>11
  <1>14. OnePlaceEach'
    <2>1. /\ refused' \subseteq used' /\ \A u \in Tasks : Holds(u)' \cap refused' = {}
      BY <1>1, <1>8, <1>11, <1>12
    <2>2. \A s \in Treatments \ Emptied' : Range(pictures'[s]) \cap refused' = {}
      BY <1>1, <1>9, <1>11, <1>13
    <2>3. QED
      BY <1>1, <1>8, <2>1, <2>2 DEF InOrder, OnePlaceEach
  <1>15. StoreIsKept'
    <2>1. \A k : k \in store <=> \/ \E s \in Treatments \ Emptied : k \in Range(pictures[s])
                                 \/ \E u \in Tasks : k \in Holds(u)
                                 \/ k \in refused
      BY DEF InOrder, StoreIsKept
    <2>2. \A k : k \in task[t].lose <=> \E s \in task[t].drop : k \in Range(pictures[s])
      BY <1>9
    <2>3. \A k : (\E s \in Treatments \ Emptied : k \in Range(pictures[s])) <=>
                    \/ \E s \in Treatments \ Emptied' : k \in Range(pictures[s])
                    \/ k \in task[t].lose
      BY <1>9, <1>10, <2>2
    <2>4. \A k \in task[t].lose : /\ k \notin refused /\ \A u \in Tasks : k \notin Holds(u)
                                  /\ ~\E s \in Treatments \ Emptied' : k \in Range(pictures[s])
      BY <1>9, <1>10, <1>11, <1>13, <2>2
    <2>5. \A k : k \in store' <=> \/ \E s \in Treatments \ Emptied' : k \in Range(pictures[s])
                                  \/ \E u \in Tasks : k \in Holds(u)
                                  \/ k \in refused'
      BY <1>1, <2>1, <2>3, <2>4
    <2>6. \A u \in Tasks : Holds(u)' = Holds(u)
      BY <1>8
    <2>7. QED
      BY <1>1, <2>5, <2>6 DEF StoreIsKept
  <1>16. QED
    BY <1>7, <1>14, <1>15 DEF InOrder

\* Rows go; a service of the stylist's own is to go after its row.
LEMMA RowsGo ==
  ASSUME InOrder, NEW t \in Tasks, DropRows(t)
  PROVE  InOrder'
  <1>1. /\ task[t].step = "dropRows" /\ offered' = offered \ task[t].drop
        /\ pictures' = [s \in Treatments |-> IF s \in task[t].drop THEN <<>> ELSE pictures[s]]
        /\ UNCHANGED <<category, service, store, refused, used>>
    BY DEF DropRows
  <1>2. /\ Knows(t) /\ task[t].drop \subseteq task[t].about /\ task[t].drop \subseteq Treatments
        /\ task[t].erase \subseteq task[t].drop
    BY <1>1 DEF InOrder, Tidy, Shapes, Knows, TaskRow
  <1>3. PICK change \in TaskRow :
            /\ task' = Outdated(t, task[t].drop, change)
            /\ \/ change = NoTask
               \/ change.step = "dropService" /\ change.about = task[t].erase /\ ~change.old
    <2>1. CASE task[t].erase = {}
      BY <2>1, NoTaskIs DEF DropRows
    <2>2. CASE task[t].erase # {}
      <3>1. "dropService" \in TaskSteps /\ task[t].erase \in SUBSET Treatments
        BY <1>2 DEF TaskSteps
      <3>2. task' = Outdated(t, task[t].drop, Job("dropService", task[t].erase))
        BY <2>2 DEF DropRows
      <3>3. QED
        BY <3>1, <3>2, JobIs
    <2>3. QED
      BY <2>1, <2>2
  <1>4. change.step \in {"idle", "dropService"} /\ change.about \subseteq task[t].about
    BY <1>2, <1>3, NoTaskIs
  <1>5. \A u \in Tasks \ {t} : task[u].about \cap task[t].about = {}
    BY <1>1, TaskAlone DEF InOrder
  <1>6. task'[t] = change /\ task' \in [Tasks -> TaskRow] /\ \A u \in Tasks \ {t} : task'[u] = task[u]
    <2>1. \A u \in Tasks \ {t} : task[u].about \cap task[t].drop = {}
      BY <1>2, <1>5
    <2>2. Shapes
      BY DEF InOrder, Tidy
    <2>3. QED
      BY <1>3, <2>1, <2>2, NoneOutdated
  <1>7. Knows(t)'
    <2>1. CASE change = NoTask
      BY <1>6, <2>1, NoTaskIs DEF Knows, Editing
    <2>2. CASE change # NoTask
      BY <1>1, <1>2, <1>6, <1>3, <2>2 DEF Knows, Editing
    <2>3. QED
      BY <2>1, <2>2
  <1>8. /\ \A s \in task[t].drop : pictures'[s] = <<>>
        /\ \A s \in Treatments \ task[t].drop : pictures'[s] = pictures[s]
    BY <1>1, <1>2
  <1>9. Tidy'
    <2>1. /\ Tidy /\ category \in BOOLEAN /\ service \subseteq Treatments /\ offered \subseteq service
          /\ (service # {} => category) /\ pictures \in [Treatments -> Seq(Keys)]
          /\ \A s \in Treatments \ offered : pictures[s] = <<>>
          /\ task[t].step # "idle"
          /\ change.step = "idle" \/ (change.about \subseteq task[t].about /\ change.step # "deleteCategory")
      BY <1>1, <1>4 DEF InOrder, Tidy, Shapes
    <2>2. pictures' \in [Treatments -> Seq(Keys)]
      BY <1>1, <2>1
    <2>3. offered' \subseteq service'
      BY <1>1, <2>1
    <2>4. \A s \in Treatments \ offered' : pictures'[s] = <<>>
      BY <1>1, <1>8, <2>1
    <2>5. \A s \in Treatments \ task[t].about :
             /\ s \in offered' <=> s \in offered
             /\ s \in service => s \in service'
             /\ pictures'[s] = pictures[s]
      BY <1>1, <1>2, <1>8
    <2>6. QED
      BY <1>1, <1>6, <1>7, <2>1, <2>2, <2>3, <2>4, <2>5, RowsGoOn
  <1>10. Holds(t) = {} /\ Holds(t)' = {} /\ \A u \in Tasks \ {t} : Holds(u)' = Holds(u)
    BY <1>1, <1>6, <1>4, OthersAnswer DEF Holds
  <1>11. /\ task[t].drop \subseteq Emptied
        /\ \A s \in Treatments \ task[t].drop : s \in Emptied' <=> s \in Emptied
    BY <1>1, <1>2, <1>6, <1>4 DEF Emptied
  <1>12. \A s \in task[t].drop : Range(pictures'[s]) = {} /\ IsInjective(pictures'[s])
    BY <1>8 DEF Range, IsInjective
  <1>13. OnePlaceEach'
    BY <1>1, <1>8, <1>10, <1>11, <1>12 DEF InOrder, OnePlaceEach
  <1>14. StoreIsKept'
    <2>1. \A k : (\E s \in Treatments \ Emptied : k \in Range(pictures[s]))
                   <=> \E s \in Treatments \ Emptied' : k \in Range(pictures'[s])
      BY <1>8, <1>11, <1>12
    <2>2. \A u \in Tasks : Holds(u)' = Holds(u)
      BY <1>10
    <2>3. QED
      BY <1>1, <2>1, <2>2 DEF InOrder, StoreIsKept
  <1>15. QED
    BY <1>9, <1>13, <1>14 DEF InOrder

\* A call that saves what it edited: the list is what it read.
LEMMA EditIsFresh ==
  ASSUME InOrder, NEW t \in Tasks, task[t].step \in {"appendSave", "replaceSave"}
  PROVE  /\ ~task[t].old /\ task[t].key \in Keys /\ task[t] \in TaskRow
         /\ \E s \in offered : s \in Treatments /\ task[t].about = {s} /\ task[t].read = pictures[s]
         /\ \A s \in Treatments : task[t].key \notin Range(pictures[s])
         /\ \A u \in Tasks \ {t} : task[t].key \notin Holds(u)
         /\ task[t].key \in used /\ task[t].key \in store /\ Holds(t) = {task[t].key}
  <1>1. Knows(t) /\ task[t] \in TaskRow /\ offered \subseteq Treatments
    BY DEF InOrder, Tidy, Shapes
  <1>2. /\ ~task[t].old /\ task[t].key \in Keys
        /\ \E s \in offered : s \in Treatments /\ task[t].about = {s} /\ task[t].read = pictures[s]
    BY <1>1 DEF Knows, Editing
  <1>3. Holds(t) = {task[t].key}
    BY DEF Holds
  <1>4. QED
    BY <1>1, <1>2, <1>3 DEF InOrder, OnePlaceEach, StoreIsKept

\* One row is written: the keys that come into its list are the call's, those that leave it
\* become the call's.
LEMMA PlacesMove ==
  ASSUME OnePlaceEach, StoreIsKept, NEW t \in Tasks, NEW s \in Treatments \ Emptied,
         \A u \in Tasks \ {t} : Holds(u)' = Holds(u), Emptied' = Emptied, UNCHANGED <<store, refused, used>>,
         \A r \in Treatments \ {s} : pictures'[r] = pictures[r],
         IsInjective(pictures'[s]), Range(pictures'[s]) \cap Holds(t)' = {},
         Range(pictures'[s]) \cup Holds(t)' = Range(pictures[s]) \cup Holds(t)
  PROVE  OnePlaceEach' /\ StoreIsKept'
  <1>1. PICK was, is, held, holds : /\ was = Range(pictures[s]) /\ is = Range(pictures'[s])
                                    /\ held = Holds(t) /\ holds = Holds(t)'
    OBVIOUS
  <1>2. is \cup holds = was \cup held /\ is \cap holds = {}
    BY <1>1
  <1>3. /\ was \cup held \subseteq used
        /\ \A r \in Treatments \ {s} : Range(pictures[r]) \cap (was \cup held) = {}
        /\ \A u \in Tasks \ {t} : Holds(u) \cap (was \cup held) = {}
        /\ refused \cap (was \cup held) = {}
    BY <1>1 DEF OnePlaceEach
  <1>4. /\ is \subseteq used /\ holds \subseteq used
        /\ \A r \in Treatments \ {s} : Range(pictures[r]) \cap is = {} /\ Range(pictures[r]) \cap holds = {}
        /\ \A u \in Tasks \ {t} : Holds(u) \cap is = {} /\ Holds(u) \cap holds = {}
        /\ refused \cap is = {} /\ refused \cap holds = {}
    BY <1>2, <1>3
  <1>5. /\ \A r \in Treatments : IsInjective(pictures'[r]) /\ Range(pictures'[r]) \subseteq used'
        /\ \A r, q \in Treatments : r # q => Range(pictures'[r]) \cap Range(pictures'[q]) = {}
    BY <1>1, <1>4 DEF OnePlaceEach
  <1>6. \A u \in Tasks : Holds(u)' \subseteq used' /\ \A r \in Treatments : Holds(u)' \cap Range(pictures'[r]) = {}
    BY <1>1, <1>2, <1>4 DEF OnePlaceEach
  <1>7. \A u, v \in Tasks : u # v => Holds(u)' \cap Holds(v)' = {}
    BY <1>1, <1>4 DEF OnePlaceEach
  <1>8. OnePlaceEach'
    <2>1. /\ refused' \subseteq used' /\ \A u \in Tasks : Holds(u)' \cap refused' = {}
          /\ \A r \in Treatments \ Emptied' : Range(pictures'[r]) \cap refused' = {}
      BY <1>1, <1>4 DEF OnePlaceEach
    <2>2. QED
      BY <1>5, <1>6, <1>7, <2>1 DEF OnePlaceEach
  <1>9. StoreIsKept'
    <2>1. \A k : k \in store <=> \/ k \in was \cup held
                                 \/ \E r \in Treatments \ (Emptied \cup {s}) : k \in Range(pictures[r])
                                 \/ \E u \in Tasks \ {t} : k \in Holds(u)
                                 \/ k \in refused
      BY <1>1 DEF StoreIsKept
    <2>2. \A k : k \in store <=> \/ k \in is \cup holds
                                 \/ \E r \in Treatments \ (Emptied \cup {s}) : k \in Range(pictures'[r])
                                 \/ \E u \in Tasks \ {t} : k \in Holds(u)'
                                 \/ k \in refused'
      BY <1>2, <2>1
    <2>3. QED
      BY <1>1, <2>2 DEF StoreIsKept
  <1>10. QED
    BY <1>8, <1>9

\* The picture that was stored is added at the end of the list.
LEMMA AppendKeeps ==
  ASSUME InOrder, NEW t \in Tasks, SaveAppended(t)
  PROVE  InOrder'
  <1>1. task[t].step = "appendSave" /\ UNCHANGED <<category, service, offered, store, refused, used>>
    BY DEF SaveAppended
  <1>2. PICK s \in offered : s \in Treatments /\ task[t].about = {s} /\ task[t].read = pictures[s]
    BY <1>1, EditIsFresh
  <1>3. PICK key \in Keys : /\ key = task[t].key /\ ~task[t].old /\ Holds(t) = {key}
                            /\ key \notin Range(pictures[s])
    BY <1>1, <1>2, EditIsFresh
  <1>4. /\ pictures' = [pictures EXCEPT ![s] = Append(pictures[s], key)]
        /\ task' = Outdated(t, {s}, NoTask)
    BY <1>2, <1>3 DEF SaveAppended
  <1>5. /\ Tidy /\ Shapes /\ category \in BOOLEAN /\ service \subseteq Treatments /\ offered \subseteq service
        /\ (service # {} => category) /\ pictures \in [Treatments -> Seq(Keys)]
        /\ \A r \in Treatments \ offered : pictures[r] = <<>>
        /\ task[t].step # "idle" /\ NoTask \in TaskRow /\ NoTask.step = "idle"
    BY <1>1, NoTaskIs DEF InOrder, Tidy, Shapes
  <1>6. task'[t] = NoTask /\ task' \in [Tasks -> TaskRow] /\ \A u \in Tasks \ {t} : task'[u] = task[u]
    <2>1. \A u \in Tasks \ {t} : task[u].about \cap {s} = {}
      BY <1>2, <1>5, TaskAlone
    <2>2. QED
      BY <1>4, <1>5, <2>1, NoneOutdated
  <1>7. /\ pictures[s] \in Seq(Keys) /\ IsInjective(pictures[s])
        /\ Append(pictures[s], key) \in Seq(Keys) /\ IsInjective(Append(pictures[s], key))
        /\ Range(Append(pictures[s], key)) = Range(pictures[s]) \cup {key}
    <2>1. pictures[s] \in Seq(Keys) /\ IsInjective(pictures[s])
      BY <1>2, <1>5 DEF InOrder, OnePlaceEach
    <2>2. QED
      BY <1>3, <2>1, AppendedKeys
  <1>8. /\ pictures' \in [Treatments -> Seq(Keys)] /\ pictures'[s] = Append(pictures[s], key)
        /\ \A r \in Treatments \ {s} : pictures'[r] = pictures[r]
    BY <1>2, <1>4, <1>5, <1>7
  <1>9. Tidy'
    <2>1. Knows(t)'
      BY <1>6, NoTaskIs DEF Knows, Editing
    <2>2. \A r \in Treatments \ offered' : pictures'[r] = <<>>
      BY <1>1, <1>2, <1>5, <1>8
    <2>3. QED
      BY <1>1, <1>2, <1>5, <1>6, <1>8, <2>1, <2>2, RowsGoOn
  <1>10. Holds(t)' = {} /\ (\A u \in Tasks \ {t} : Holds(u)' = Holds(u)) /\ Emptied' = Emptied
    BY <1>1, <1>6, NoTaskIs, OthersAnswer DEF Holds
  <1>11. s \in Treatments \ Emptied
    BY <1>1, <1>2, EmptiedOnce
  <1>12. OnePlaceEach' /\ StoreIsKept'
    <2>1. /\ IsInjective(pictures'[s]) /\ Range(pictures'[s]) \cap Holds(t)' = {}
          /\ Range(pictures'[s]) \cup Holds(t)' = Range(pictures[s]) \cup Holds(t)
      BY <1>3, <1>7, <1>8, <1>10
    <2>2. QED
      BY <1>1, <1>8, <1>10, <1>11, <2>1, PlacesMove DEF InOrder
  <1>13. QED
    BY <1>9, <1>12 DEF InOrder

\* It takes the place of another, which the call then answers for.
LEMMA ReplaceKeeps ==
  ASSUME InOrder, NEW t \in Tasks, SaveReplaced(t)
  PROVE  InOrder'
  <1>1. task[t].step = "replaceSave" /\ UNCHANGED <<category, service, offered, store, refused, used>>
    BY DEF SaveReplaced
  <1>2. PICK s \in offered : s \in Treatments /\ task[t].about = {s} /\ task[t].read = pictures[s]
    BY <1>1, EditIsFresh
  <1>3. PICK key \in Keys : /\ key = task[t].key /\ ~task[t].old /\ Holds(t) = {key}
                            /\ key \notin Range(pictures[s]) /\ task[t] \in TaskRow
    BY <1>1, <1>2, EditIsFresh
  <1>4. PICK i \in 1..Len(pictures[s]) :
           /\ pictures' = [pictures EXCEPT ![s][i] = key]
           /\ task' = [task EXCEPT ![t].step = "keep", ![t].lose = {pictures[s][i]}]
    BY <1>2, <1>3 DEF SaveReplaced
  <1>5. /\ Tidy /\ Shapes /\ category \in BOOLEAN /\ service \subseteq Treatments /\ offered \subseteq service
        /\ (service # {} => category) /\ pictures \in [Treatments -> Seq(Keys)]
        /\ \A r \in Treatments \ offered : pictures[r] = <<>>
        /\ task[t].step # "idle" /\ task \in [Tasks -> TaskRow]
    BY <1>1 DEF InOrder, Tidy, Shapes
  <1>6. PICK list : list = [pictures[s] EXCEPT ![i] = key]
    OBVIOUS
  <1>7. /\ list \in Seq(Keys) /\ IsInjective(list) /\ pictures[s][i] \in Range(pictures[s])
        /\ Range(list) = (Range(pictures[s]) \ {pictures[s][i]}) \cup {key}
    <2>1. pictures[s] \in Seq(Keys) /\ IsInjective(pictures[s])
      BY <1>2, <1>5 DEF InOrder, OnePlaceEach
    <2>2. QED
      BY <1>3, <1>6, <2>1, ReplacedKeys
  <1>8. /\ pictures' \in [Treatments -> Seq(Keys)] /\ pictures'[s] = list
        /\ \A r \in Treatments \ {s} : pictures'[r] = pictures[r]
    <2>1. pictures' = [pictures EXCEPT ![s] = list]
      BY <1>2, <1>4, <1>5, <1>6
    <2>2. QED
      BY <1>2, <1>5, <1>7, <2>1
  <1>9. PICK change : change = [task[t] EXCEPT !.step = "keep", !.lose = {pictures[s][i]}]
    OBVIOUS
  <1>10. /\ change \in TaskRow /\ change.step = "keep" /\ change.about = task[t].about
         /\ change.lose = {pictures[s][i]} /\ change.old = task[t].old
    <2>1. {pictures[s][i]} \in SUBSET Keys /\ "keep" \in TaskSteps
      BY <1>2, <1>5, <1>7, KeysOfPictures DEF TaskSteps
    <2>2. QED
      BY <1>3, <1>9, <2>1 DEF TaskRow
  <1>11. task'[t] = change /\ task' \in [Tasks -> TaskRow] /\ \A u \in Tasks \ {t} : task'[u] = task[u]
    <2>1. task' = [task EXCEPT ![t] = change]
      BY <1>4, <1>5, <1>9
    <2>2. QED
      BY <1>5, <1>10, <2>1, TaskMoves
  <1>12. Tidy'
    <2>1. Knows(t)'
      BY <1>3, <1>10, <1>11 DEF Knows, Editing
    <2>2. \A r \in Treatments \ offered' : pictures'[r] = <<>>
      BY <1>1, <1>2, <1>5, <1>8
    <2>3. QED
      BY <1>1, <1>2, <1>5, <1>8, <1>10, <1>11, <2>1, <2>2, RowsGoOn
  <1>13. Holds(t)' = {pictures[s][i]} /\ (\A u \in Tasks \ {t} : Holds(u)' = Holds(u)) /\ Emptied' = Emptied
    BY <1>1, <1>10, <1>11, OthersAnswer DEF Holds
  <1>14. s \in Treatments \ Emptied
    BY <1>1, <1>2, EmptiedOnce
  <1>15. OnePlaceEach' /\ StoreIsKept'
    <2>1. /\ IsInjective(pictures'[s]) /\ Range(pictures'[s]) \cap Holds(t)' = {}
          /\ Range(pictures'[s]) \cup Holds(t)' = Range(pictures[s]) \cup Holds(t)
      BY <1>3, <1>7, <1>8, <1>13
    <2>2. QED
      BY <1>1, <1>8, <1>13, <1>14, <2>1, PlacesMove DEF InOrder
  <1>16. QED
    BY <1>12, <1>15 DEF InOrder

\* A list of some of a row's pictures is sent: which of them are not in it is looked up.
LEMMA ArrangeBegins ==
  ASSUME InOrder, undisputed', NEW t \in Tasks, NEW s \in Treatments, NEW list \in Arrangements, FindPortfolio(t, s, list)
  PROVE  InOrder'
  <1>1. PICK lose : lose = Range(pictures[s]) \ Range(list)
    OBVIOUS
  <1>2. PICK change : change = [Job("arrange", {s}) EXCEPT !.read = list, !.lose = lose]
    OBVIOUS
  <1>3. /\ s \in service \cap offered /\ Range(list) \subseteq Range(pictures[s])
        /\ Start(t, change) /\ undisputed' = (undisputed /\ ~Disputed({s}) /\ IsInjective(list))
        /\ UNCHANGED <<category, service, offered, pictures, store, refused, used>>
    BY <1>1, <1>2 DEF FindPortfolio
  <1>4. ~Disputed({s}) /\ IsInjective(list)
    BY <1>3, Zenon
  <1>5. /\ change \in TaskRow /\ change.step = "arrange" /\ change.about = {s} /\ change.lose = lose
        /\ change.read = list /\ ~change.old
    <2>1. "arrange" \in TaskSteps /\ {s} \in SUBSET Treatments /\ list \in Seq(Keys) /\ lose \in SUBSET Keys
      BY <1>1, KeysOfPictures, ListedKeys DEF TaskSteps, InOrder, Tidy
    <2>2. change = [step |-> "arrange", about |-> {s}, read |-> list, key |-> "none",
                    lose |-> lose, drop |-> {}, erase |-> {}, old |-> FALSE]
      BY <1>2 DEF Job
    <2>3. QED
      BY <2>1, <2>2 DEF TaskRow
  <1>6. task[t] = NoTask /\ task'[t] = change /\ \A u \in Tasks \ {t} : task'[u] = task[u]
    BY <1>3, <1>4, <1>5, TaskStarts DEF InOrder, Tidy
  <1>7. Knows(t)'
    BY <1>1, <1>3, <1>4, <1>5, <1>6 DEF Knows, Editing
  <1>8. Tidy'
    <2>1. offered \subseteq service /\ change.about \subseteq {s} /\ change.step # "deleteCategory"
      BY <1>5 DEF InOrder, Tidy
    <2>2. QED
      BY <1>3, <1>4, <1>5, <1>7, <2>1, RowsBegin DEF InOrder
  <1>9. OnePlaceEach' /\ StoreIsKept'
    BY <1>3, <1>5, <1>6, NoTaskIs, PlacesStay DEF InOrder, Keeping
  <1>10. QED
    BY <1>8, <1>9 DEF InOrder

\* The list takes the place of the row's, and the call answers for what it left out.
LEMMA ArrangeKeeps ==
  ASSUME InOrder, NEW t \in Tasks, SaveArranged(t)
  PROVE  InOrder'
  <1>1. task[t].step = "arrange" /\ UNCHANGED <<category, service, offered, store, refused, used>>
    BY DEF SaveArranged
  <1>2. /\ Tidy /\ Shapes /\ category \in BOOLEAN /\ service \subseteq Treatments /\ offered \subseteq service
        /\ (service # {} => category) /\ pictures \in [Treatments -> Seq(Keys)]
        /\ (\A r \in Treatments \ offered : pictures[r] = <<>>) /\ Knows(t) /\ task[t] \in TaskRow
    BY DEF InOrder, Tidy, Shapes
  <1>3. PICK s \in offered : /\ task[t].about = {s} /\ IsInjective(task[t].read)
                             /\ Range(task[t].read) \subseteq Range(pictures[s])
                             /\ task[t].lose = Range(pictures[s]) \ Range(task[t].read)
    BY <1>1, <1>2 DEF Knows
  <1>4. s \in Treatments /\ ~task[t].old
    BY <1>2 DEF Knows
  <1>5. PICK list, lose : list = task[t].read /\ lose = task[t].lose
    OBVIOUS
  <1>6. list \in Seq(Keys) /\ lose \in SUBSET Keys
    BY <1>2, <1>5 DEF TaskRow
  <1>7. PICK change : change = [Job("keep", {s}) EXCEPT !.lose = lose]
    OBVIOUS
  <1>8. change \in TaskRow /\ change.step = "keep" /\ change.about = {s} /\ change.lose = lose /\ ~change.old
    <2>1. "keep" \in TaskSteps /\ {s} \in SUBSET Treatments
      BY <1>4 DEF TaskSteps
    <2>2. change = [step |-> "keep", about |-> {s}, read |-> <<>>, key |-> "none",
                    lose |-> lose, drop |-> {}, erase |-> {}, old |-> FALSE]
      BY <1>7 DEF Job
    <2>3. QED
      BY <1>6, <2>1, <2>2 DEF TaskRow
  <1>9. pictures' = [pictures EXCEPT ![s] = list] /\ task' = Outdated(t, {s}, change)
    BY <1>3, <1>4, <1>5, <1>7 DEF SaveArranged
  <1>10. task'[t] = change /\ task' \in [Tasks -> TaskRow] /\ \A u \in Tasks \ {t} : task'[u] = task[u]
    <2>1. \A u \in Tasks \ {t} : task[u].about \cap {s} = {}
      BY <1>1, <1>2, <1>3, TaskAlone
    <2>2. QED
      BY <1>2, <1>8, <1>9, <2>1, NoneOutdated
  <1>11. /\ pictures' \in [Treatments -> Seq(Keys)] /\ pictures'[s] = list
         /\ \A r \in Treatments \ {s} : pictures'[r] = pictures[r]
    BY <1>2, <1>4, <1>6, <1>9
  <1>12. Tidy'
    <2>1. Knows(t)'
      BY <1>8, <1>10 DEF Knows, Editing
    <2>2. \A r \in Treatments \ offered' : pictures'[r] = <<>>
      BY <1>1, <1>2, <1>11
    <2>3. task[t].step # "idle" /\ change.about \subseteq task[t].about /\ change.step # "deleteCategory"
      BY <1>1, <1>3, <1>8
    <2>4. \A r \in Treatments \ task[t].about :
             /\ r \in offered' <=> r \in offered
             /\ r \in service => r \in service'
             /\ pictures'[r] = pictures[r]
      BY <1>1, <1>3, <1>11
    <2>5. QED
      BY <1>1, <1>2, <1>8, <1>10, <1>11, <2>1, <2>2, <2>3, <2>4, RowsGoOn
  <1>13. /\ Holds(t) = {} /\ Holds(t)' = lose /\ (\A u \in Tasks \ {t} : Holds(u)' = Holds(u))
         /\ Emptied' = Emptied
    BY <1>1, <1>8, <1>10, OthersAnswer DEF Holds
  <1>14. s \in Treatments \ Emptied
    BY <1>1, <1>3, <1>4, EmptiedOnce
  <1>15. OnePlaceEach' /\ StoreIsKept'
    <2>1. /\ IsInjective(pictures'[s]) /\ Range(pictures'[s]) \cap Holds(t)' = {}
          /\ Range(pictures'[s]) \cup Holds(t)' = Range(pictures[s]) \cup Holds(t)
      BY <1>3, <1>5, <1>11, <1>13
    <2>2. QED
      BY <1>1, <1>11, <1>13, <1>14, <2>1, PlacesMove DEF InOrder
  <1>16. QED
    BY <1>12, <1>15 DEF InOrder

-----------------------------------------------------------------------------
(* Every call, and what the invariant says *)

\* Every call keeps order while nothing is in dispute.
LEMMA CallsKeepOrder ==
  ASSUME InOrder, undisputed', CatalogueNext \/ OfferNext \/ PictureNext
  PROVE  InOrder'
  <1>1. CASE CatalogueNext
    <2>1. ASSUME NEW t \in Tasks, FindEmpty(t) \/ \E s \in Treatments : FindCategory(t, s) \/ FindUnoffered(t, s)
          PROVE  InOrder'
      BY <2>1, LookupsKeep
    <2>2. QED
      BY <1>1, <2>1, CatalogueKeeps, CategoryKeeps DEF CatalogueNext
  <1>2. CASE OfferNext
    <2>1. ASSUME NEW t \in Tasks, BreakOffTask(t)
          PROVE  FALSE
      BY <2>1, Zenon DEF BreakOffTask
    <2>2. ASSUME NEW t \in Tasks, NEW s \in Treatments, FindService(t, s)
          PROVE  InOrder'
      BY <2>2, LookupsKeep
    <2>3. ASSUME NEW t \in Tasks,
                 \/ \E s \in Treatments : \E erased \in {{}, {s}} : FindOffered(t, s, erased)
                 \/ \E kept \in SUBSET Treatments : SetServices(t, kept)
          PROVE  InOrder'
      BY <2>3, RemovalsKeep
    <2>4. QED
      BY <1>2, <2>1, <2>2, <2>3, CatalogueKeeps, KeysGoFirst, RowsGo DEF OfferNext
  <1>3. CASE PictureNext
    BY <1>3, AppendKeeps, ReplaceKeeps, UnkeptKeeps, StoringKeeps, EditsBegin, ArrangeBegins, ArrangeKeeps DEF PictureNext
  <1>4. QED
    BY <1>1, <1>2, <1>3

\* A dispute is never forgotten.
LEMMA DisputesLast ==
  ASSUME undisputed \in BOOLEAN, CatalogueNext \/ OfferNext \/ PictureNext
  PROVE  undisputed' \in BOOLEAN /\ (undisputed' => undisputed)
  <1>1. \/ undisputed' = undisputed \/ undisputed' = FALSE
        \/ \E about : Claims(about)
        \/ \E about, list : undisputed' = (undisputed /\ ~Disputed(about) /\ IsInjective(list))
    BY Zenon DEF CatalogueNext, OfferNext, PictureNext, CreateCategory, FindEmpty, DeleteCategory,
           InsertService, DeleteService, FindCategory, FindUnoffered, OfferService, DropKeys, BreakOffTask,
           DropRows, FindService, FindOffered, SetServices, SaveAppended, SaveReplaced, DropUnkept,
           StorePictureOf, FindRoom, FindPicture, FindPortfolio, SaveArranged, AttachService, DropService
  <1>2. ASSUME NEW about
        PROVE  Disputed(about) \in BOOLEAN
    BY DEF Disputed
  <1>3. ASSUME NEW list
        PROVE  IsInjective(list) \in BOOLEAN
    BY DEF IsInjective
  <1>4. ASSUME NEW about, Claims(about)
        PROVE  undisputed' \in BOOLEAN /\ (undisputed' => undisputed)
    <2>1. undisputed' = (undisputed /\ ~Disputed(about)) /\ Disputed(about) \in BOOLEAN
      BY <1>2, <1>4 DEF Claims
    <2>2. QED
      BY <2>1
  <1>5. ASSUME NEW about, NEW list, undisputed' = (undisputed /\ ~Disputed(about) /\ IsInjective(list))
        PROVE  undisputed' \in BOOLEAN /\ (undisputed' => undisputed)
    <2>1. Disputed(about) \in BOOLEAN /\ IsInjective(list) \in BOOLEAN
      BY <1>2, <1>3
    <2>2. QED
      BY <1>5, <2>1
  <1>6. CASE undisputed' = undisputed \/ undisputed' = FALSE
    <2>1. undisputed = TRUE \/ undisputed = FALSE
      OBVIOUS
    <2>2. undisputed' = TRUE \/ undisputed' = FALSE
      BY <1>6, <2>1
    <2>3. undisputed' => undisputed
      BY <1>6, <2>1, Zenon
    <2>4. QED
      BY <2>2, <2>3, Zenon
  <1>7. QED
    BY <1>1, <1>4, <1>5, <1>6, Zenon

\* The offer begins with the invariant.
LEMMA OfferingBegins ==
  ASSUME OfferingInit
  PROVE  OfferingInv
  <1>1. /\ category \in BOOLEAN /\ service = {} /\ offered = {} /\ store = {} /\ refused = {} /\ used = {} /\ undisputed = TRUE
        /\ pictures = [s \in Treatments |-> <<>>] /\ task = [t \in Tasks |-> NoTask]
    BY DEF OfferingInit
  <1>2. \A t \in Tasks : task[t] = NoTask
    BY <1>1
  <1>3. \A s \in Treatments : pictures[s] = <<>> /\ Range(pictures[s]) = {} /\ IsInjective(pictures[s])
    BY <1>1 DEF Range, IsInjective
  <1>4. Shapes
    BY <1>1, NoTaskIs DEF Shapes
  <1>5. OneEach /\ \A t \in Tasks : Knows(t)
    BY <1>2, NoTaskIs DEF OneEach, Knows, Editing
  <1>6. Emptied = {} /\ \A t \in Tasks : Holds(t) = {}
    BY <1>2, NoTaskIs DEF Emptied, Holds
  <1>7. OnePlaceEach /\ StoreIsKept
    BY <1>1, <1>3, <1>6 DEF OnePlaceEach, StoreIsKept
  <1>8. QED
    BY <1>1, <1>3, <1>4, <1>5, <1>7 DEF OfferingInv, Tidy

\* Every step of the offer keeps the invariant.
LEMMA OfferingStays ==
  ASSUME OfferingInv, [CatalogueNext \/ OfferNext \/ PictureNext]_offeringVars
  PROVE  OfferingInv'
  <1>1. CASE CatalogueNext \/ OfferNext \/ PictureNext
    <2>1. undisputed' \in BOOLEAN /\ (undisputed' => undisputed)
      BY <1>1, DisputesLast DEF OfferingInv
    <2>2. ASSUME undisputed'
          PROVE  InOrder'
      <3>1. InOrder
        BY <2>1, <2>2, Zenon DEF OfferingInv, InOrder
      <3>2. QED
        BY <1>1, <2>2, <3>1, CallsKeepOrder
    <2>3. QED
      BY <2>1, <2>2, Zenon DEF OfferingInv, InOrder
  <1>2. CASE UNCHANGED offeringVars
    <2>1. /\ category' = category /\ service' = service /\ offered' = offered /\ pictures' = pictures
          /\ store' = store /\ refused' = refused /\ used' = used /\ task' = task /\ undisputed' = undisputed
      BY <1>2 DEF offeringVars
    <2>2. ASSUME NEW t \in Tasks
          PROVE  Knows(t)' <=> Knows(t)
      BY <2>1 DEF Knows, Editing
    <2>3. Tidy => Tidy'
      BY <2>1, <2>2, Zenon DEF Tidy, Shapes, OneEach
    <2>4. OnePlaceEach => OnePlaceEach'
      BY <2>1, Zenon DEF OnePlaceEach, Holds, Emptied
    <2>5. StoreIsKept => StoreIsKept'
      BY <2>1, Zenon DEF StoreIsKept, Holds, Emptied
    <2>6. QED
      BY <2>1, <2>3, <2>4, <2>5, Zenon DEF OfferingInv
  <1>3. QED
    BY <1>1, <1>2

\* While nothing is in dispute the offer is whole.
LEMMA WhatIsShownIsThere ==
  ASSUME OfferingInv
  PROVE  NothingShownIsMissing
  <1>1. SUFFICES ASSUME undisputed, Tidy, OnePlaceEach, StoreIsKept
                 PROVE  /\ PublicCatalogue = service \ Custom
                        /\ offered = OwnList
                        /\ \A s \in OwnList :
                              /\ PublicProfile[s].category
                              /\ Range(PublicProfile[s].pictures) \subseteq store \/ \E t \in Tasks : s \in task[t].drop
                        /\ Resting => store = KeysOf(OwnList) \cup refused
    BY Zenon DEF OfferingInv, NothingShownIsMissing
  <1>2. /\ offered \subseteq service /\ (service # {} => category) /\ category \in BOOLEAN
        /\ service \subseteq Treatments /\ offered \subseteq Treatments
        /\ \A s \in Treatments \ offered : pictures[s] = <<>>
    BY <1>1 DEF Tidy, Shapes
  <1>3. PublicCatalogue = service \ Custom /\ offered = OwnList
    BY <1>2 DEF PublicCatalogue, OwnList
  <1>4. \A s \in OwnList : /\ PublicProfile[s].category
                           /\ Range(PublicProfile[s].pictures) \subseteq store \/ \E t \in Tasks : s \in task[t].drop
    <2>1. SUFFICES ASSUME NEW s \in OwnList
                   PROVE  /\ PublicProfile[s].category
                          /\ Range(PublicProfile[s].pictures) \subseteq store \/ \E t \in Tasks : s \in task[t].drop
      OBVIOUS
    <2>2. PublicProfile[s].category = category /\ PublicProfile[s].pictures = pictures[s]
      BY DEF PublicProfile
    <2>3. category /\ s \in Treatments
      BY <1>2, <2>1 DEF OwnList
    <2>4. s \notin Emptied => Range(pictures[s]) \subseteq store
      BY <1>1, <2>3 DEF StoreIsKept
    <2>5. s \in Emptied => \E t \in Tasks : s \in task[t].drop
      BY DEF Emptied
    <2>6. QED
      BY <2>2, <2>3, <2>4, <2>5
  <1>5. Resting => store = KeysOf(OwnList) \cup refused
    <2>1. SUFFICES ASSUME Resting
                   PROVE  store = KeysOf(OwnList) \cup refused
      OBVIOUS
    <2>2. Emptied = {} /\ \A t \in Tasks : Holds(t) = {}
      BY <2>1, NoTaskIs DEF Resting, Emptied, Holds
    <2>3. \A s \in Treatments \ offered : Range(pictures[s]) = {}
      BY <1>2 DEF Range
    <2>4. \A k : k \in store <=> (\E s \in OwnList : k \in Range(pictures[s])) \/ k \in refused
      BY <1>1, <1>2, <1>3, <2>2, <2>3 DEF StoreIsKept
    <2>5. QED
      BY <2>4 DEF KeysOf
  <1>6. QED
    BY <1>3, <1>4, <1>5

\* As long as calls about one thing take turns, none breaks off and no list names a picture
\* twice: every service has its category, everything offered is shown, every picture shown is
\* in the store and, once the calls have ended, no other but what it refused to delete.
\* (deleteCategory, deleteService, createCustomService, setServices, removeStylistService,
\* deleteCustomService, addServicePortfolioImages, replaceServicePortfolio)
THEOREM OfferIsWhole == OfferingSpec => []NothingShownIsMissing
  <1>1. OfferingInit => OfferingInv
    BY OfferingBegins
  <1>2. OfferingInv /\ [CatalogueNext \/ OfferNext \/ PictureNext]_offeringVars => OfferingInv'
    BY OfferingStays
  <1>3. OfferingInv => NothingShownIsMissing
    BY WhatIsShownIsThere
  <1>4. QED
    BY <1>1, <1>2, <1>3, PTL DEF OfferingSpec
=============================================================================
