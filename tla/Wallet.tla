------------------------------- MODULE Wallet -------------------------------
(***************************************************************************)
(* The wallet of one customer: walletBalance on the user row, the          *)
(* WalletTransaction rows, and the calls that change both in one database  *)
(* transaction.  A transaction reads a snapshot; when the user row was     *)
(* written since, its own write is refused and the whole is run again.     *)
(* The debt lock is a plain update of the same row.                        *)
(***************************************************************************)
EXTENDS Integers, FiniteSetsExt

CONSTANTS
    Changes,     \* calls of applyWalletChange
    Sums         \* amounts of a change

ASSUME WalletAssumption == Sums \subseteq Nat \ {0} /\ IsFiniteSet(Changes)

VARIABLES
    walletBalance,  \* of the user row
    isDebtLocked,   \* of the user row
    history,        \* the WalletTransaction row of each change, if it is written
    change          \* where each change stands

walletVars == <<walletBalance, isDebtLocked, history, change>>

Reasons == {"topup", "admin_adjust"}
Directions == {"credit", "debit"}
NoEntry == [type |-> "none", amount |-> 0, reason |-> "none"]
Entry(type, amount, reason) == [type |-> type, amount |-> amount, reason |-> reason]
WalletRows == [type : Directions, amount : Sums, reason : Reasons] \cup {NoEntry}

Unasked == [at |-> "idle", entry |-> NoEntry, current |-> 0, conflict |-> FALSE]
Over == [Unasked EXCEPT !.at = "over"]

WalletTypeOK ==
    /\ walletBalance \in Nat
    /\ isDebtLocked \in BOOLEAN
    /\ history \in [Changes -> WalletRows]
    /\ change \in [Changes -> [at : {"idle", "asked", "read", "over"}, entry : WalletRows,
                               current : Nat, conflict : BOOLEAN]]

WalletInit ==
    /\ walletBalance = 0
    /\ isDebtLocked = FALSE
    /\ history = [c \in Changes |-> NoEntry]
    /\ change = [c \in Changes |-> Unasked]

-----------------------------------------------------------------------------
\* the user row is written: the snapshots of transactions under way are out of date
Outdated == [c \in Changes |-> [change[c] EXCEPT !.conflict = @ \/ change[c].at = "read"]]

Ask(c, entry) ==
    /\ change[c] = Unasked
    /\ change' = [change EXCEPT ![c] = [Unasked EXCEPT !.at = "asked", !.entry = entry]]
    /\ UNCHANGED <<walletBalance, isDebtLocked, history>>

\* a top-up that the gateway has captured
CreditTopup(c, amount) == Ask(c, Entry("credit", amount, "topup"))

AdjustUserWallet(c, type, amount) == Ask(c, Entry(type, amount, "admin_adjust"))

\* the snapshot, and the refusal of a debit that it does not cover
ReadBalance(c) ==
    LET entry == change[c].entry IN
    /\ change[c].at = "asked"
    /\ change' = [change EXCEPT ![c] =
          IF entry.type = "debit" /\ walletBalance < entry.amount THEN Over
          ELSE [@ EXCEPT !.at = "read", !.current = walletBalance, !.conflict = FALSE]]
    /\ UNCHANGED <<walletBalance, isDebtLocked, history>>

NewBalance(c) ==
    change[c].current
    + (IF change[c].entry.type = "credit" THEN change[c].entry.amount ELSE - change[c].entry.amount)

\* Variant whose save is not part of the transaction.
CommitWithoutSession(c) ==
    /\ change[c].at = "read"
    /\ walletBalance' = NewBalance(c)
    /\ history' = [history EXCEPT ![c] = change[c].entry]
    /\ change' = [Outdated EXCEPT ![c] = Over]
    /\ UNCHANGED isDebtLocked

\* balance and row together, or the transaction once more
Commit(c) ==
    /\ change[c].at = "read"
    /\ IF change[c].conflict
       THEN /\ change' = [change EXCEPT ![c].at = "asked"]
            /\ UNCHANGED <<walletBalance, history>>
       ELSE /\ walletBalance' = NewBalance(c)
            /\ history' = [history EXCEPT ![c] = change[c].entry]
            /\ change' = [Outdated EXCEPT ![c] = Over]
    /\ UNCHANGED isDebtLocked

\* the process stops, or the retries are used up: the transaction leaves nothing
Abort(c) ==
    /\ change[c].at \in {"asked", "read"}
    /\ change' = [change EXCEPT ![c] = Over]
    /\ UNCHANGED <<walletBalance, isDebtLocked, history>>

\* debtBalance is left out: nothing in the code ever raises it
SetUserDebtLock(locked) ==
    /\ isDebtLocked' = locked
    /\ change' = Outdated
    /\ UNCHANGED <<walletBalance, history>>

ClearUserDebt == SetUserDebtLock(FALSE)

WalletNext ==
    \/ \E c \in Changes :
          \/ \E amount \in Sums :
                \/ CreditTopup(c, amount)
                \/ \E type \in Directions : AdjustUserWallet(c, type, amount)
          \/ ReadBalance(c) \/ Commit(c) \/ Abort(c)
    \/ \E locked \in BOOLEAN : SetUserDebtLock(locked)
    \/ ClearUserDebt

WalletSpec == WalletInit /\ [][WalletNext]_walletVars

-----------------------------------------------------------------------------
(* What the wallet page shows, and the property *)

\* listTransactions, over all its pages
ListTransactions == {c \in Changes : history[c] # NoEntry}
GetWallet == [balance |-> walletBalance, transactions |-> ListTransactions]

SumOf(direction) ==
    SumFunctionOnSet([c \in Changes |-> history[c].amount], {c \in GetWallet.transactions : history[c].type = direction})

(* "Balance and history never drift": whatever changes run at once, conflict *)
(* and are run again or given up, the balance shown is what the rows shown   *)
(* credit less what they debit, and no debit has taken it below zero.        *)
WalletNeverDrifts ==
    /\ GetWallet.balance = SumOf("credit") - SumOf("debit")
    /\ GetWallet.balance >= 0
=============================================================================
