--------------------------- MODULE DiscountCodes ---------------------------
(***************************************************************************)
(* The discount codes of one stylist: creating and editing them, redeeming *)
(* them in createReservation (resolved before the insert, consumed after   *)
(* it) and sending them to customers by SMS.  A booking keeps the amounts  *)
(* of the code as it was when it was resolved.                             *)
(*                                                                         *)
(* Amounts are whole Tomans; a booking has a price and, for a code that is *)
(* limited to services, the share of the eligible ones.                    *)
(***************************************************************************)
EXTENDS Integers, FiniteSets

CONSTANTS
    Codes,           \* codes the stylist may have
    Orders,          \* createReservation calls with a code
    OffTimes,        \* those for a day or an hour that a code may exclude
    Price, Share,    \* the price of a booking and the share of the eligible services
    Values,          \* the values a code is given
    Limits,          \* the usage limits a code is given
    Caps,            \* the maxDiscountAmounts a code is given
    Unlimited,       \* usageLimit: null, maxDiscountAmount: null
    Senders,         \* calls of sendCampaign
    Phones,          \* the numbers they are sent to
    SilverMax, GoldMax,  \* getPlanSmsLimits
    MaxLost,         \* bound on the stops between a message and its log row
    NoCode

ASSUME CodesAssumption ==
    /\ OffTimes \subseteq Orders /\ IsFiniteSet(Orders) /\ IsFiniteSet(Phones)
    /\ Price \in Nat /\ Share \in 0 .. Price
    /\ Values \subseteq Nat \ {0} /\ Limits \subseteq Nat \ {0} /\ Caps \subseteq Nat
    /\ Unlimited \in Nat /\ \A n \in Limits \cup Caps : n < Unlimited
    /\ SilverMax \in Nat /\ GoldMax \in Nat /\ SilverMax <= GoldMax /\ MaxLost \in Nat
    /\ NoCode \notin Codes

VARIABLES
    code,        \* the DiscountCode of each name
    inWindow,    \* codes whose date window holds the current day
    topLimit,    \* the highest limit a code ever had
    order,       \* how far each booking call is
    amount,      \* the discount it computed
    using,       \* the code it resolved
    hasRow,      \* bookings with a reservation
    sending,     \* what each campaign call still has to send
    recent,      \* the code and the number of each log row of the last 24 hours
    monthCount,  \* log rows of this month
    overlapped,  \* a campaign was begun while another was being sent
    reached,     \* the messages of the last 24 hours, code and number
    resent,      \* those that were sent twice within them
    unlogged,    \* those without a row, since the call stopped in between
    monthSent,   \* messages of this month
    monthLost    \* those of them without a row

orderVars == <<order, amount, using, hasRow>>
dayVars == <<reached, resent, unlogged>>
monthVars == <<monthSent, monthLost>>
campaignVars == <<sending, recent, monthCount, overlapped, dayVars, monthVars>>
codeVars == <<code, inWindow, topLimit, orderVars, campaignVars>>

Kinds == {"percentage", "fixed"}
CodeDocs == [type : Kinds, value : Values, cap : Caps \cup {Unlimited}, all : BOOLEAN, anyTime : BOOLEAN,
             limit : Limits \cup {Unlimited}, used : Nat, active : BOOLEAN]
NoDoc == [type |-> "none"]
Deleted == [type |-> "deleted"]
OrderSteps == {"idle", "resolved", "inserted", "consumed", "answered", "refused", "crashed"}
Campaigns == [step : {"next", "sent"}, code : Codes, todo : SUBSET Phones, now : SUBSET Phones]
NoCampaign == [step |-> "idle", code |-> NoCode, todo |-> {}, now |-> {}]
Messages == Codes \X Phones

CodesTypeOK ==
    /\ code \in [Codes -> CodeDocs \cup {NoDoc, Deleted}]
    /\ inWindow \subseteq Codes
    /\ topLimit \in [Codes -> Nat]
    /\ order \in [Orders -> OrderSteps]
    /\ amount \in [Orders -> Nat]
    /\ using \in [Orders -> Codes \cup {NoCode}]
    /\ hasRow \subseteq Orders
    /\ sending \in [Senders -> Campaigns \cup {NoCampaign}]
    /\ recent \subseteq Messages
    /\ monthCount \in Nat
    /\ overlapped \in BOOLEAN
    /\ reached \subseteq Messages /\ resent \subseteq Messages /\ unlogged \subseteq Messages
    /\ monthSent \in Nat /\ monthLost \in Nat

CodesInit ==
    /\ code = [c \in Codes |-> NoDoc]
    /\ inWindow \in SUBSET Codes
    /\ topLimit = [c \in Codes |-> 0]
    /\ order = [o \in Orders |-> "idle"]
    /\ amount = [o \in Orders |-> 0]
    /\ using = [o \in Orders |-> NoCode]
    /\ hasRow = {}
    /\ sending = [s \in Senders |-> NoCampaign]
    /\ recent = {} /\ monthCount = 0 /\ overlapped = FALSE
    /\ reached = {} /\ resent = {} /\ unlogged = {}
    /\ monthSent = 0 /\ monthLost = 0

Exists(c) == code[c] \notin {NoDoc, Deleted}
Least(a, b) == IF a <= b THEN a ELSE b
Most(a, b) == IF a >= b THEN a ELSE b

-----------------------------------------------------------------------------
(* What a code takes off: the eligible share, its percent rounded half up *)

DiscountAmount(doc) ==
    LET eligible == IF doc.all THEN Price ELSE Share
        percent == (2 * eligible * doc.value + 100) \div 200
    IN  IF doc.type = "percentage" THEN Least(percent, doc.cap) ELSE Least(doc.value, eligible)

FinalPrice(off) == Most(0, Price - off)

\* the day and the hour of the appointment, and an eligible service in the cart
AllowedFor(doc, o) == (doc.anyTime \/ o \notin OffTimes) /\ (doc.all \/ Share > 0)

-----------------------------------------------------------------------------
(* The stylist's codes *)

\* percentOk looks at the body alone
BodyOK(type, value) == type = "percentage" => value \in 1 .. 100

\* names differ (the unique index on codeLower); a deleted name makes a new document
CreateDiscountCode(c, type, value, cap, all, anyTime, limit) ==
    /\ code[c] = NoDoc
    /\ BodyOK(type, value)
    /\ code' = [code EXCEPT ![c] =
                   [type |-> type, value |-> value, cap |-> IF type = "percentage" THEN cap ELSE Unlimited,
                    all |-> all, anyTime |-> anyTime, limit |-> limit, used |-> 0, active |-> TRUE]]
    /\ topLimit' = [topLimit EXCEPT ![c] = Most(@, limit)]
    /\ UNCHANGED <<inWindow, orderVars, campaignVars>>

\* updateDiscountCode writes what the body names: the value or the type alone
\* passes the test of the body, whatever the other field holds
UpdateDiscountCode(c) ==
    /\ Exists(c)
    /\ \/ \E v \in Values : code' = [code EXCEPT ![c].value = v] /\ UNCHANGED topLimit
       \/ \E t \in Kinds : code' = [code EXCEPT ![c].type = t] /\ UNCHANGED topLimit
       \/ \E t \in Kinds, v \in Values :
             /\ BodyOK(t, v)
             /\ code' = [code EXCEPT ![c] = [@ EXCEPT !.type = t, !.value = v]]
             /\ UNCHANGED topLimit
       \/ \E n \in Limits \cup {Unlimited} :
             /\ code' = [code EXCEPT ![c].limit = n]
             /\ topLimit' = [topLimit EXCEPT ![c] = Most(@, n)]
       \/ \E on \in BOOLEAN : code' = [code EXCEPT ![c].active = on] /\ UNCHANGED topLimit
       \/ \E any \in BOOLEAN : code' = [code EXCEPT ![c].anyTime = any] /\ UNCHANGED topLimit
    /\ UNCHANGED <<inWindow, orderVars, campaignVars>>

DeleteDiscountCode(c) ==
    /\ Exists(c)
    /\ code' = [code EXCEPT ![c] = Deleted]
    /\ UNCHANGED <<inWindow, topLimit, orderVars, campaignVars>>

\* days pass, or an edit moves the window
MoveWindow(c) ==
    /\ inWindow' = IF c \in inWindow THEN inWindow \ {c} ELSE inWindow \cup {c}
    /\ UNCHANGED <<code, topLimit, orderVars, campaignVars>>

-----------------------------------------------------------------------------
(* createReservation with a code *)

AssertRedeemable(c) ==
    /\ code[c].active
    /\ c \in inWindow
    /\ code[c].used < code[c].limit

ResolveDiscountForBooking(o, c) ==
    /\ order[o] = "idle"
    /\ Exists(c)
    /\ AssertRedeemable(c)
    /\ AllowedFor(code[c], o)
    /\ order' = [order EXCEPT ![o] = "resolved"]
    /\ amount' = [amount EXCEPT ![o] = DiscountAmount(code[c])]
    /\ using' = [using EXCEPT ![o] = c]
    /\ UNCHANGED <<code, inWindow, topLimit, hasRow, campaignVars>>

InsertBooking(o) ==
    /\ order[o] = "resolved"
    /\ order' = [order EXCEPT ![o] = "inserted"]
    /\ hasRow' = hasRow \cup {o}
    /\ UNCHANGED <<code, inWindow, topLimit, amount, using, campaignVars>>

\* the row of a refused booking is deleted; deleteOne().catch(() => {})
Refuse(o) ==
    /\ order' = [order EXCEPT ![o] = "refused"]
    /\ hasRow' \in {hasRow, hasRow \ {o}}

ConsumeAsResolved(o) ==
    LET c == using[o] IN
    /\ order[o] = "inserted"
    /\ code' = IF Exists(c) THEN [code EXCEPT ![c].used = @ + 1] ELSE code
    /\ order' = [order EXCEPT ![o] = "consumed"]
    /\ UNCHANGED <<hasRow, inWindow, topLimit, amount, using, campaignVars>>

ConsumeDiscount(o) ==
    LET c == using[o] IN
    /\ order[o] = "inserted"
    /\ IF Exists(c) /\ code[c].active /\ code[c].used < code[c].limit
       THEN /\ code' = [code EXCEPT ![c].used = @ + 1]
            /\ order' = [order EXCEPT ![o] = "consumed"]
            /\ UNCHANGED hasRow
       ELSE Refuse(o) /\ UNCHANGED code
    /\ UNCHANGED <<inWindow, topLimit, amount, using, campaignVars>>

\* credit is spent and the payment started, or one of them fails; the use stays
\* counted either way
FinishBooking(o) ==
    /\ order[o] = "consumed"
    /\ \/ order' = [order EXCEPT ![o] = "answered"] /\ UNCHANGED hasRow
       \/ Refuse(o)
    /\ UNCHANGED <<code, inWindow, topLimit, amount, using, campaignVars>>

CrashBooking(o) ==
    /\ order[o] \in {"resolved", "inserted", "consumed"}
    /\ order' = [order EXCEPT ![o] = "crashed"]
    /\ UNCHANGED <<code, inWindow, topLimit, amount, using, hasRow, campaignVars>>

-----------------------------------------------------------------------------
(* sendCampaign.  The message is built from the code's fields and is layout. *)

SmsLimit(tier) ==
    CASE tier = "silver" -> SilverMax
      [] tier = "gold" -> GoldMax
      [] tier = "free" -> 0

Free(s) == sending[s] = NoCampaign

\* The recipients without doubles, within the cap per send.
BeginCampaign(s, c, to) ==
    /\ sending' = [sending EXCEPT ![s] = [step |-> "next", code |-> c, todo |-> to, now |-> {}]]
    /\ overlapped' = (overlapped \/ \E q \in Senders : ~Free(q))
    /\ UNCHANGED <<code, inWindow, topLimit, orderVars, recent, monthCount, dayVars, monthVars>>

\* Variant that leaves the messages to come out of the month's cap.
StartCampaignCountingRows(s, tier, c, to) ==
    /\ Free(s)
    /\ Exists(c)
    /\ to # {}
    /\ Cardinality(to) <= SmsLimit(tier)
    /\ monthCount < SmsLimit(tier)
    /\ BeginCampaign(s, c, to)

\* the gate, the code, the cap per send and the month's cap, counted in rows
StartCampaign(s, tier, c, to) ==
    /\ Free(s)
    /\ Exists(c)
    /\ to # {}
    /\ Cardinality(to) <= SmsLimit(tier)
    /\ monthCount + Cardinality(to) <= SmsLimit(tier)
    /\ BeginCampaign(s, c, to)

\* a number with a row of this code in the last 24 hours is skipped, ...
SkipNext(s, p) ==
    /\ sending[s].step = "next"
    /\ p \in sending[s].todo
    /\ <<sending[s].code, p>> \in recent
    /\ sending' = [sending EXCEPT ![s].todo = @ \ {p}]
    /\ UNCHANGED <<code, inWindow, topLimit, orderVars, recent, monthCount, overlapped, dayVars, monthVars>>

\* ... another gets the SMS ...
SendNext(s, p) ==
    LET c == sending[s].code
        message == <<c, p>>
    IN
    /\ sending[s].step = "next"
    /\ p \in sending[s].todo
    /\ message \notin recent
    /\ sending' = [sending EXCEPT ![s] = [step |-> "sent", code |-> c, todo |-> @.todo \ {p}, now |-> {p}]]
    /\ reached' = reached \cup {message}
    /\ resent' = IF message \in reached THEN resent \cup {message} ELSE resent
    /\ monthSent' = monthSent + 1
    /\ UNCHANGED <<code, inWindow, topLimit, orderVars, recent, monthCount, overlapped, unlogged, monthLost>>

\* ... and then its row
LogSend(s) ==
    /\ sending[s].step = "sent"
    /\ recent' = recent \cup {<<sending[s].code, p>> : p \in sending[s].now}
    /\ monthCount' = monthCount + 1
    /\ sending' = [sending EXCEPT ![s] = [@ EXCEPT !.step = "next", !.now = {}]]
    /\ UNCHANGED <<code, inWindow, topLimit, orderVars, overlapped, dayVars, monthVars>>

\* the loop is over, or the process stops
EndCampaign(s) ==
    /\ sending[s].step = "next"
    /\ sending' = [sending EXCEPT ![s] = NoCampaign]
    /\ UNCHANGED <<code, inWindow, topLimit, orderVars, recent, monthCount, overlapped, dayVars, monthVars>>

\* the process stops, or the write of the row throws, when the message is on its way
LoseRow(s) ==
    /\ sending[s].step = "sent"
    /\ monthLost < MaxLost
    /\ unlogged' = unlogged \cup {<<sending[s].code, p>> : p \in sending[s].now}
    /\ monthLost' = monthLost + 1
    /\ sending' = [sending EXCEPT ![s] = NoCampaign]
    /\ UNCHANGED <<code, inWindow, topLimit, orderVars, recent, monthCount, overlapped, reached, resent, monthSent>>

\* a day passes, which may begin another month
TimePasses ==
    /\ recent' = {} /\ reached' = {} /\ resent' = {} /\ unlogged' = {}
    /\ \/ UNCHANGED <<monthCount, monthVars>>
       \/ monthCount' = 0 /\ monthSent' = 0 /\ monthLost' = 0
    /\ UNCHANGED <<code, inWindow, topLimit, orderVars, sending, overlapped>>

EditNext ==
    \E c \in Codes :
        \/ \E t \in Kinds, v \in Values, k \in Caps \cup {Unlimited}, n \in Limits \cup {Unlimited} :
           \E all, anyTime \in BOOLEAN : CreateDiscountCode(c, t, v, k, all, anyTime, n)
        \/ UpdateDiscountCode(c) \/ DeleteDiscountCode(c) \/ MoveWindow(c)

OrderNext ==
    \E o \in Orders :
        \/ \E c \in Codes : ResolveDiscountForBooking(o, c)
        \/ InsertBooking(o) \/ ConsumeDiscount(o) \/ FinishBooking(o) \/ CrashBooking(o)

CampaignNext ==
    \/ \E s \in Senders :
          \/ \E t \in {"free", "silver", "gold"}, c \in Codes, to \in SUBSET Phones : StartCampaign(s, t, c, to)
          \/ \E p \in Phones : SkipNext(s, p) \/ SendNext(s, p)
          \/ LogSend(s) \/ EndCampaign(s) \/ LoseRow(s)
    \/ TimePasses

CodesNext == EditNext \/ OrderNext \/ CampaignNext
CodesSpec == CodesInit /\ [][CodesNext]_codeVars

-----------------------------------------------------------------------------
(* What the customer is shown, and the properties *)

\* the terms of a code, as far as they matter here
BuildConditions(c) ==
    [type |-> code[c].type, value |-> code[c].value, maxDiscountAmount |-> code[c].cap,
     usageLimit |-> code[c].limit, usedCount |-> code[c].used, isActive |-> code[c].active]

\* a code that cannot be used now is shown with its terms as well, a missing one without
PreviewDiscount(o, c) ==
    LET off == DiscountAmount(code[c]) IN
    IF ~Exists(c) THEN [valid |-> FALSE]
    ELSE IF AssertRedeemable(c) /\ AllowedFor(code[c], o)
    THEN [valid |-> TRUE, discountAmount |-> off, finalPrice |-> FinalPrice(off), conditions |-> BuildConditions(c)]
    ELSE [valid |-> FALSE, conditions |-> BuildConditions(c)]

(* No more customers are told that they have the discount than the highest  *)
(* limit the code ever had, although every call tests the limit long before  *)
(* it consumes a use and the stylist edits the code meanwhile; and a customer *)
(* to whom the preview shows a code as valid is shown a limit that those who  *)
(* have the discount do not use up.                                           *)
AnsweredWithinLimit ==
    \A c \in Codes :
        LET have == Cardinality({o \in Orders : using[o] = c /\ order[o] = "answered"}) IN
        /\ have <= topLimit[c]
        /\ \A o \in Orders :
              LET page == PreviewDiscount(o, c) IN page.valid => have < page.conditions.usageLimit

(* Campaigns that are not sent at the same time stay within the month's cap  *)
(* of the best plan and bring no number the same code twice in a day,        *)
(* whatever plan the stylist changes to between them: but for the messages   *)
(* that were sent and have no row, since the call stopped in between.  The   *)
(* cap is exceeded by no more of them than there are, and only their numbers *)
(* are written to again.                                                     *)
CampaignsApartKeepTheirBounds ==
    ~overlapped => monthSent <= GoldMax + monthLost /\ resent \subseteq unlogged
=============================================================================
