------------------------------- MODULE MCMoney -------------------------------
(***************************************************************************)
(* HoldPayment, BookingLedger and Settlement for TLC.  The three share no  *)
(* state, so a behaviour moves one of them, the scene chosen at the start, *)
(* and the others stay as they were.                                       *)
(***************************************************************************)
EXTENDS HoldPayment, BookingLedger, Settlement, TLC

CONSTANTS deposit, topup, a1, a2, a3, a4, r1, r2

\* the modules that the run moves
CONSTANT Scenes

VARIABLE scene

SomePrices == {200000}
SomePercents == {0, 50, 100}
SomeFreeCounts == {0, 1}
SomeLimits == {-1, 1, 2}
SamePrice == [r \in Bookings |-> 2000000]
OneDeposit == {400000}
SomeRefundPercents == {75}

Init ==
    /\ scene \in Scenes
    /\ HoldInit /\ LedgerInit /\ SettlementInit

\* The bookings and requests of a settlement move with one decision at a time, and
\* decisions overlap where one booking moves.
OneDecides == \A a, b \in Admins : decision[a].on # None /\ decision[b].on # None => a = b
OneBookingMoves == \A r, b \in Bookings :
    booking[r] # Created(TRUE) /\ booking[b] # Created(TRUE) => r = b

Next ==
    /\ UNCHANGED scene
    /\ \/ scene = "hold" /\ HoldNext /\ UNCHANGED <<ledgerVars, settlementVars>>
       \/ scene = "ledger" /\ LedgerNext /\ UNCHANGED <<holdVars, settlementVars>>
       \/ scene = "claims" /\ SettlementNext /\ OneDecides' /\ UNCHANGED <<holdVars, ledgerVars>>
       \/ scene = "decisions" /\ SettlementNext /\ OneBookingMoves' /\ UNCHANGED <<holdVars, ledgerVars>>

Spec == Init /\ [][Next]_<<holdVars, ledgerVars, settlementVars, scene>>

\* The actors of one scene are those of another: Callbacks, Requests and two of the
\* Calls are Pair, and Sweepers and Admins are the rest.
Pair == {a1, a2}
Rest == {a3, a4}
Interchangeable == Permutations(Pair) \cup Permutations(Rest) \cup Permutations(Bookings)
=============================================================================
