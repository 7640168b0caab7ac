------------------------------ MODULE Calendar ------------------------------
(***************************************************************************)
(* What the booking flow promises about one stylist's calendar: a booking  *)
(* may take a slot only while no other booking holds one that overlaps it, *)
(* it may give its slot up at any time, and once it is firm it stays on    *)
(* record.  SlotBooking implements it for the bookings whose slot was      *)
(* re-checked after it was written and before a younger one was.           *)
(***************************************************************************)
CONSTANTS Bookings,     \* the attempts to book
          Slots,        \* date, start and end of an appointment
          Overlapping,  \* the pairs of slots that share a minute
          NoSlot

VARIABLES held,         \* the slot each booking holds, or NoSlot
          firm          \* the bookings that are on record for good

Init == held = [b \in Bookings |-> NoSlot] /\ firm = {}

Claim(b, s) ==
    /\ held[b] = NoSlot
    /\ \A c \in Bookings : held[c] # NoSlot => <<s, held[c]>> \notin Overlapping
    /\ held' = [held EXCEPT ![b] = s]
    /\ UNCHANGED firm

Drop(b) ==
    /\ held[b] # NoSlot
    /\ held' = [held EXCEPT ![b] = NoSlot]
    /\ UNCHANGED firm

\* Nothing undoes it: a cancelled or moved booking keeps its row.
MakeFirm(b) ==
    /\ b \notin firm
    /\ firm' = firm \cup {b}
    /\ UNCHANGED held

Next == \E b \in Bookings : Drop(b) \/ MakeFirm(b) \/ \E s \in Slots : Claim(b, s)

Spec == Init /\ [][Next]_<<held, firm>>
=============================================================================
