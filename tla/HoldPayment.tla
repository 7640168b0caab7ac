---------------------------- MODULE HoldPayment ----------------------------
(***************************************************************************)
(* The money side of a booking: the hold that createReservation leaves     *)
(* while the customer is at the gateway, the payment transaction, the      *)
(* credit spent on the hold, and all that race for them: the callbacks     *)
(* (the browser may repeat one), the hold sweeps of several server         *)
(* instances, a cancel, and crashes.  A wallet top-up is an order with a   *)
(* transaction and no hold.                                                *)
(*                                                                         *)
(* The gateway is outside the repository.  It is trusted in one thing: the *)
(* verify call reports success only of a session it has captured.  The     *)
(* callback is a plain GET that anybody may send, at any time and with any *)
(* value of success; a verify may fail to get through, and it may answer   *)
(* something other than success also of a captured session.                *)
(***************************************************************************)
EXTENDS Naturals

CONSTANTS
    Orders,      \* the payment transactions
    Deposits,    \* those that pay the deposit of a reservation; the rest are top-ups
    Callbacks,   \* the requests on the callback route
    Sweepers,    \* the server instances that run releaseExpiredHolds
    NoOrder

ASSUME OrdersAssumption == Deposits \subseteq Orders /\ NoOrder \notin Orders

VARIABLES
    step,        \* how far createReservation, or the top-up, has come
    tx,          \* the status of the payment transaction
    gateway,     \* the session at the gateway
    status,      \* the reservation's status, "none" without a row
    payment,     \* the reservation's paymentStatus
    usesCredit,  \* holds that are partly paid with credit
    spendRow,    \* holds whose spend is recorded in the credit ledger
    refunds,     \* how often the credit of a hold was returned
    applied,     \* how often the outcome of a payment was applied
    cbStep,      \* where each callback stands
    cbOrder,     \* the order it is about
    told,        \* what the browser was shown
    sweepStep,   \* where each sweep stands
    found,       \* the holds a sweep found
    old,         \* holds created more than olderThanMinutes ago
    cancelling   \* reservations a cancel call has read and will save

orderVars == <<step, tx, gateway>>
rowVars == <<status, payment>>
creditVars == <<usesCredit, spendRow, refunds>>
cbVars == <<cbStep, cbOrder, told>>
sweepVars == <<sweepStep, found>>
holdVars == <<orderVars, rowVars, creditVars, applied, cbVars, sweepVars, old, cancelling>>

Running == {"held", "debited", "spent", "asking", "refunding", "removing"}
Steps == Running \cup {"idle", "answered", "failed", "crashed"}
TxStatuses == {"none", "initiated", "pending", "paid", "failed"}
Sessions == {"none", "open", "captured", "declined"}
HoldStatuses == {"none", "pending", "confirmed", "cancelled"}
Payments == {"none", "awaiting", "paid"}
CbSteps == {"idle", "read", "verified", "declined", "claimed", "releasing", "refunding", "over"}
Pages == {"nothing", "success", "failed", "pending"}

HoldTypeOK ==
    /\ step \in [Orders -> Steps]
    /\ tx \in [Orders -> TxStatuses]
    /\ gateway \in [Orders -> Sessions]
    /\ status \in [Orders -> HoldStatuses]
    /\ payment \in [Orders -> Payments]
    /\ usesCredit \subseteq Orders
    /\ spendRow \subseteq Orders
    /\ refunds \in [Orders -> Nat]
    /\ applied \in [Orders -> Nat]
    /\ cbStep \in [Callbacks -> CbSteps]
    /\ cbOrder \in [Callbacks -> Orders \cup {NoOrder}]
    /\ told \in [Callbacks -> Pages]
    /\ sweepStep \in [Sweepers -> {"idle", "found", "deleted"}]
    /\ found \in [Sweepers -> SUBSET Orders]
    /\ old \subseteq Orders
    /\ cancelling \subseteq Orders

HoldInit ==
    /\ step = [o \in Orders |-> "idle"]
    /\ tx = [o \in Orders |-> "none"]
    /\ gateway = [o \in Orders |-> "none"]
    /\ status = [o \in Orders |-> "none"]
    /\ payment = [o \in Orders |-> "none"]
    /\ usesCredit = {}
    /\ spendRow = {}
    /\ refunds = [o \in Orders |-> 0]
    /\ applied = [o \in Orders |-> 0]
    /\ cbStep = [k \in Callbacks |-> "idle"]
    /\ cbOrder = [k \in Callbacks |-> NoOrder]
    /\ told = [k \in Callbacks |-> "nothing"]
    /\ sweepStep = [s \in Sweepers |-> "idle"]
    /\ found = [s \in Sweepers |-> {}]
    /\ old = {}
    /\ cancelling = {}

Awaiting(o) == payment[o] = "awaiting"
GoTo(o, s) == step' = [step EXCEPT ![o] = s]
SetTx(o, s) == tx' = [tx EXCEPT ![o] = s]

DeleteRows(O) ==
    /\ status' = [o \in Orders |-> IF o \in O THEN "none" ELSE status[o]]
    /\ payment' = [o \in Orders |-> IF o \in O THEN "none" ELSE payment[o]]

\* rollbackCredit: any spend on record is returned, whatever was returned before.
\* A refund that throws (the credit system is off, the write fails) is swallowed.
RefundCredit(o) ==
    \/ /\ o \in usesCredit \cap spendRow
       /\ refunds' = [refunds EXCEPT ![o] = @ + 1]
    \/ UNCHANGED refunds

-----------------------------------------------------------------------------
(* createReservation from its re-check on, and startWalletTopup *)

Hold(o) ==
    /\ o \in Deposits
    /\ step[o] = "idle"
    /\ GoTo(o, "held")
    /\ status' = [status EXCEPT ![o] = "pending"]
    /\ payment' = [payment EXCEPT ![o] = "awaiting"]
    /\ usesCredit' \in {usesCredit, usesCredit \cup {o}}
    /\ UNCHANGED <<tx, gateway, spendRow, refunds, applied, cbVars, sweepVars, old, cancelling>>

\* The guarded debit of the credit wallet, or its refusal.
DebitCredit(o) ==
    /\ step[o] = "held"
    /\ o \in usesCredit
    /\ GoTo(o, "debited") \/ GoTo(o, "removing")
    /\ UNCHANGED <<tx, gateway, rowVars, creditVars, applied, cbVars, sweepVars, old, cancelling>>

\* The ledger row of the debit, a write of its own.
RecordSpend(o) ==
    /\ step[o] = "debited"
    /\ \/ GoTo(o, "spent") /\ spendRow' = spendRow \cup {o}
       \/ GoTo(o, "removing") /\ UNCHANGED spendRow
    /\ UNCHANGED <<tx, gateway, rowVars, usesCredit, refunds, applied, cbVars, sweepVars, old, cancelling>>

StartPayment(o) ==
    /\ \/ o \in Deposits /\ step[o] = "spent"
       \/ o \in Deposits \ usesCredit /\ step[o] = "held"
       \/ o \notin Deposits /\ step[o] = "idle"
    /\ SetTx(o, "initiated")
    /\ GoTo(o, "asking")
    /\ UNCHANGED <<gateway, rowVars, creditVars, applied, cbVars, sweepVars, old, cancelling>>

\* The customer has the URL of an open session.
GatewayAccepts(o) ==
    /\ step[o] = "asking"
    /\ SetTx(o, "pending")
    /\ gateway' = [gateway EXCEPT ![o] = "open"]
    /\ GoTo(o, "answered")
    /\ UNCHANGED <<rowVars, creditVars, applied, cbVars, sweepVars, old, cancelling>>

\* The gateway refuses or cannot be reached; or a save throws after it accepted,
\* that of the transaction or, for a deposit, the link from the hold to it.
StartFails(o) ==
    /\ step[o] = "asking"
    /\ tx' \in {tx, [tx EXCEPT ![o] = "failed"], [tx EXCEPT ![o] = "pending"]}
    /\ GoTo(o, IF o \in Deposits THEN "refunding" ELSE "failed")
    /\ UNCHANGED <<gateway, rowVars, creditVars, applied, cbVars, sweepVars, old, cancelling>>

\* The start of the payment failed: the credit first, then the hold.
RefundFailedStart(o) ==
    /\ step[o] = "refunding"
    /\ RefundCredit(o)
    /\ GoTo(o, "removing")
    /\ UNCHANGED <<tx, gateway, rowVars, usesCredit, spendRow, applied, cbVars, sweepVars, old, cancelling>>

RemoveHold(o) ==
    /\ step[o] = "removing"
    /\ DeleteRows({o}) \/ UNCHANGED rowVars
    /\ GoTo(o, "failed")
    /\ UNCHANGED <<tx, gateway, creditVars, applied, cbVars, sweepVars, old, cancelling>>

CrashCall(o) ==
    /\ step[o] \in Running
    /\ GoTo(o, "crashed")
    /\ UNCHANGED <<tx, gateway, rowVars, creditVars, applied, cbVars, sweepVars, old, cancelling>>

-----------------------------------------------------------------------------
(* The customer at the gateway, and handleCallback *)

EndSession(o) ==
    /\ gateway[o] = "open"
    /\ \E outcome \in {"captured", "declined"} : gateway' = [gateway EXCEPT ![o] = outcome]
    /\ UNCHANGED <<step, tx, rowVars, creditVars, applied, cbVars, sweepVars, old, cancelling>>

\* The callback goes on, or ends with a page.
CbGoto(k, s) == cbStep' = [cbStep EXCEPT ![k] = s] /\ UNCHANGED told
Show(k, page) == cbStep' = [cbStep EXCEPT ![k] = "over"] /\ told' = [told EXCEPT ![k] = page]

\* A request names a transaction that has a trackId, and says success or not, whatever
\* became of the session; a transaction that is settled is answered.  success=0 is
\* believed without a verify.
ReadTx(k, o, success) ==
    /\ cbStep[k] = "idle"
    /\ tx[o] \in {"pending", "paid", "failed"}
    /\ cbOrder' = [cbOrder EXCEPT ![k] = o]
    /\ \/ tx[o] = "paid" /\ Show(k, "success")
       \/ tx[o] = "failed" /\ Show(k, "failed")
       \/ tx[o] = "pending" /\ CbGoto(k, IF success THEN "read" ELSE "declined")
    /\ UNCHANGED <<orderVars, rowVars, creditVars, applied, sweepVars, old, cancelling>>

\* Variant: success=1 is believed as well.
BelieveRedirect(k) ==
    /\ cbStep[k] = "read"
    /\ CbGoto(k, "verified")
    /\ UNCHANGED <<orderVars, rowVars, creditVars, applied, cbOrder, sweepVars, old, cancelling>>

\* The verify call: success, which only a captured session has; any other result or an
\* amount that does not match; or no answer, which leaves the row pending.
Verify(k) ==
    /\ cbStep[k] = "read"
    /\ \/ gateway[cbOrder[k]] = "captured" /\ CbGoto(k, "verified")
       \/ CbGoto(k, "declined")
       \/ Show(k, "pending")
    /\ UNCHANGED <<orderVars, rowVars, creditVars, applied, cbOrder, sweepVars, old, cancelling>>

\* tx.save() of 'failed' has no condition on the status in the database.
SaveFailed(k) ==
    /\ cbStep[k] = "declined"
    /\ SetTx(cbOrder[k], "failed")
    /\ IF cbOrder[k] \in Deposits THEN CbGoto(k, "releasing") ELSE Show(k, "failed")
    /\ UNCHANGED <<step, gateway, rowVars, creditVars, applied, cbOrder, sweepVars, old, cancelling>>

\* Variant: the update has no condition.
ClaimAgain(k) ==
    /\ cbStep[k] = "verified"
    /\ SetTx(cbOrder[k], "paid") /\ CbGoto(k, "claimed")
    /\ UNCHANGED <<step, gateway, rowVars, creditVars, applied, cbOrder, sweepVars, old, cancelling>>

\* claimPaid: one conditional update decides who applies the outcome.  Who does not get
\* it shows success, also when what came first was a 'failed'.
Claim(k) ==
    /\ cbStep[k] = "verified"
    /\ IF tx[cbOrder[k]] \in {"initiated", "pending"}
       THEN SetTx(cbOrder[k], "paid") /\ CbGoto(k, "claimed")
       ELSE Show(k, "success") /\ UNCHANGED tx
    /\ UNCHANGED <<step, gateway, rowVars, creditVars, applied, cbOrder, sweepVars, old, cancelling>>

\* applyPaymentOutcome.  A hold is confirmed if it still awaits its payment,
\* cancelled or not; a top-up is credited; a failure is noted and shown as success.
ApplyOutcome(k) ==
    LET o == cbOrder[k] IN
    /\ cbStep[k] = "claimed"
    /\ \/ /\ o \in Deposits
          /\ IF Awaiting(o)
             THEN /\ status' = [status EXCEPT ![o] = "confirmed"]
                  /\ payment' = [payment EXCEPT ![o] = "paid"]
                  /\ applied' = [applied EXCEPT ![o] = @ + 1]
             ELSE UNCHANGED <<rowVars, applied>>
       \/ /\ o \notin Deposits
          /\ applied' = [applied EXCEPT ![o] = @ + 1]
          /\ UNCHANGED rowVars
       \/ UNCHANGED <<rowVars, applied>>
    /\ Show(k, "success")
    /\ UNCHANGED <<orderVars, creditVars, cbOrder, sweepVars, old, cancelling>>

\* Variant that releases a hold whatever became of its payment.
ReleasePaid(k) ==
    /\ cbStep[k] = "releasing"
    /\ DeleteRows({cbOrder[k]})
    /\ CbGoto(k, "refunding")
    /\ UNCHANGED <<orderVars, creditVars, applied, cbOrder, sweepVars, old, cancelling>>

\* releaseUnpaidReservation: delete the hold if it still awaits, then refund it.
Release(k) ==
    LET o == cbOrder[k] IN
    /\ cbStep[k] = "releasing"
    /\ IF Awaiting(o)
       THEN DeleteRows({o}) /\ CbGoto(k, "refunding")
       ELSE UNCHANGED rowVars /\ Show(k, "failed")
    /\ UNCHANGED <<orderVars, creditVars, applied, cbOrder, sweepVars, old, cancelling>>

RefundReleased(k) ==
    /\ cbStep[k] = "refunding"
    /\ RefundCredit(cbOrder[k])
    /\ Show(k, "failed")
    /\ UNCHANGED <<orderVars, rowVars, usesCredit, spendRow, applied, cbOrder, sweepVars, old, cancelling>>

CrashCallback(k) ==
    /\ cbStep[k] \notin {"idle", "over"}
    /\ CbGoto(k, "over")
    /\ UNCHANGED <<orderVars, rowVars, creditVars, applied, cbOrder, sweepVars, old, cancelling>>

-----------------------------------------------------------------------------
(* The sweep of abandoned holds, and a cancel *)

\* The TTL passes; no createReservation call runs that long.
GrowOld(o) ==
    /\ Awaiting(o)
    /\ step[o] \notin Running
    /\ o \notin old
    /\ old' = old \cup {o}
    /\ UNCHANGED <<orderVars, rowVars, creditVars, applied, cbVars, sweepVars, cancelling>>

SweepFind(s) ==
    /\ sweepStep[s] = "idle"
    /\ \E o \in old : Awaiting(o)
    /\ sweepStep' = [sweepStep EXCEPT ![s] = "found"]
    /\ found' = [found EXCEPT ![s] = {o \in old : Awaiting(o)}]
    /\ UNCHANGED <<orderVars, rowVars, creditVars, applied, cbVars, old, cancelling>>

\* Variant with the filter on the delete and none on the refunds.
DeleteStillAwaiting(s) ==
    /\ sweepStep[s] = "found"
    /\ DeleteRows({o \in found[s] : Awaiting(o)})
    /\ sweepStep' = [sweepStep EXCEPT ![s] = "deleted"]
    /\ UNCHANGED <<orderVars, creditVars, applied, cbVars, found, old, cancelling>>

\* deleteMany by _id, without the paymentStatus filter of the find.
SweepDelete(s) ==
    /\ sweepStep[s] = "found"
    /\ DeleteRows(found[s])
    /\ sweepStep' = [sweepStep EXCEPT ![s] = "deleted"]
    /\ UNCHANGED <<orderVars, creditVars, applied, cbVars, found, old, cancelling>>

\* One refund for each hold found, deleted by this sweep or not.
SweepRefund(s) ==
    /\ sweepStep[s] = "deleted"
    /\ \E o \in found[s] :
          /\ RefundCredit(o)
          /\ found' = [found EXCEPT ![s] = @ \ {o}]
          /\ sweepStep' = [sweepStep EXCEPT ![s] = IF found[s] = {o} THEN "idle" ELSE "deleted"]
    /\ UNCHANGED <<orderVars, rowVars, usesCredit, spendRow, applied, cbVars, old, cancelling>>

CrashSweep(s) ==
    /\ sweepStep[s] # "idle"
    /\ sweepStep' = [sweepStep EXCEPT ![s] = "idle"]
    /\ found' = [found EXCEPT ![s] = {}]
    /\ UNCHANGED <<orderVars, rowVars, creditVars, applied, cbVars, old, cancelling>>

ReadForCancel(o) ==
    /\ status[o] \in {"pending", "confirmed"}
    /\ o \notin cancelling
    /\ cancelling' = cancelling \cup {o}
    /\ UNCHANGED <<orderVars, rowVars, creditVars, applied, cbVars, sweepVars, old>>

\* save() writes the status and leaves paymentStatus and the credit alone.
SaveCancel(o) ==
    /\ o \in cancelling
    /\ cancelling' = cancelling \ {o}
    /\ status' = [status EXCEPT ![o] = IF @ = "none" THEN "none" ELSE "cancelled"]
    /\ UNCHANGED <<orderVars, payment, creditVars, applied, cbVars, sweepVars, old>>

-----------------------------------------------------------------------------
Order(o) ==
    \/ Hold(o) \/ DebitCredit(o) \/ RecordSpend(o)
    \/ StartPayment(o) \/ GatewayAccepts(o) \/ StartFails(o)
    \/ RefundFailedStart(o) \/ RemoveHold(o) \/ CrashCall(o)
    \/ EndSession(o) \/ GrowOld(o)
    \/ ReadForCancel(o) \/ SaveCancel(o)

Callback(k) ==
    \/ \E o \in Orders, success \in BOOLEAN : ReadTx(k, o, success)
    \/ Verify(k) \/ SaveFailed(k) \/ Claim(k) \/ ApplyOutcome(k)
    \/ Release(k) \/ RefundReleased(k) \/ CrashCallback(k)

Sweep(s) == SweepFind(s) \/ SweepDelete(s) \/ SweepRefund(s) \/ CrashSweep(s)

HoldNext ==
    \/ \E o \in Orders : Order(o)
    \/ \E k \in Callbacks : Callback(k)
    \/ \E s \in Sweepers : Sweep(s)

HoldSpec == HoldInit /\ [][HoldNext]_holdVars
-----------------------------------------------------------------------------
(* Properties *)

\* "An unauthenticated GET" moves no money: a transaction is paid, a reservation
\* confirmed as paid, and a top-up credited, only if the gateway has captured it.
PaidMeansCaptured ==
    \A o \in Orders :
        tx[o] = "paid" \/ payment[o] = "paid" \/ applied[o] > 0 => gateway[o] = "captured"

\* "Credits the wallet exactly once": however many callbacks arrive at once, the
\* outcome of a payment is applied at most once, and while one of them is about
\* to apply it nobody has, although a 'failed' may be saved over the claim.
OutcomeAppliedOnce ==
    \A o \in Orders :
        /\ applied[o] <= 1
        /\ \A k \in Callbacks : cbStep[k] = "claimed" /\ cbOrder[k] = o => applied[o] = 0

\* What a customer is shown does not turn out wrong later, whichever callbacks meet: a
\* success page means that the money was captured, and after a failure page the
\* transaction is failed and stays so, also if another callback has claimed it before
\* and 'failed' is saved over the claim, for nothing claims it after that.
PagesAreTrue ==
    \A k \in Callbacks :
        /\ told[k] = "success" => gateway[cbOrder[k]] = "captured"
        /\ told[k] = "failed" => tx[cbOrder[k]] = "failed"

\* A booking whose deposit was paid keeps the credit it was partly paid with: no
\* release, sweep or failed start has returned it.
PaidBookingKeepsItsCredit ==
    \A o \in Deposits : payment[o] = "paid" => refunds[o] = 0

\* "So a paid booking is never removed": neither a callback that saves 'failed' over
\* another's claim and releases the hold, nor a failed start, nor a cancel takes a paid
\* booking away; only a sweep that found it unpaid deletes it.
OnlySweepsRemovePaid ==
    [][\A o \in Deposits :
          payment[o] = "paid" /\ payment'[o] # "paid" =>
              \E s \in Sweepers : o \in found[s] /\ sweepStep'[s] = "deleted"]_holdVars

\* Why these hold, as an inductive invariant: an order, its transaction and its
\* session advance together, ...
SessionFollowsCall ==
    \A o \in Orders :
        /\ step[o] \in {"idle", "held", "debited", "spent"} => tx[o] = "none"
        /\ step[o] = "asking" => tx[o] = "initiated"
        /\ step[o] = "idle" => payment[o] = "none" /\ o \notin old
        /\ gateway[o] # "none" => step[o] = "answered"
        /\ applied[o] > 0 => tx[o] \in {"paid", "failed"}

\* ... success is known of captured sessions alone, and one callback applies it, ...
CallbacksAgree ==
    /\ \A k \in Callbacks :
          LET o == cbOrder[k] IN
          /\ cbStep[k] # "idle" => o \in Orders /\ step[o] # "idle"
          /\ cbStep[k] \in {"read", "declined"} => tx[o] \in {"pending", "paid", "failed"}
          /\ cbStep[k] \in {"verified", "claimed"} => gateway[o] = "captured"
          /\ cbStep[k] = "claimed" => tx[o] \in {"paid", "failed"}
          /\ cbStep[k] \in {"releasing", "refunding"} => tx[o] = "failed"
          /\ cbStep[k] = "refunding" => payment[o] = "none"
          /\ told[k] # "nothing" => cbStep[k] = "over"
    /\ \A k, l \in Callbacks :
          cbStep[k] = "claimed" /\ cbStep[l] = "claimed" /\ cbOrder[k] = cbOrder[l] => k = l

\* ... and credit comes back only for a hold that is gone or was never payable.
RefundsFollowLoss ==
    /\ \A o \in Orders : refunds[o] > 0 =>
          /\ step[o] # "idle"
          /\ payment[o] = "none" \/ step[o] \in {"removing", "failed", "crashed"}
    /\ \A s \in Sweepers : \A o \in found[s] :
          /\ step[o] # "idle"
          /\ sweepStep[s] = "deleted" => payment[o] = "none"

PaymentInv ==
    /\ HoldTypeOK
    /\ SessionFollowsCall
    /\ CallbacksAgree
    /\ RefundsFollowLoss
    /\ PaidMeansCaptured
    /\ OutcomeAppliedOnce
    /\ PagesAreTrue

\* refundReservationCredit is "idempotent: rollbackCredit only reverses the
\* original spend transaction": the credit of a hold comes back once at most.
CreditReturnedOnce == \A o \in Deposits : refunds[o] <= 1
=============================================================================
