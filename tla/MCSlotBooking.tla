--------------------------- MODULE MCSlotBooking ---------------------------
(* SlotBooking for TLC: three calls, and slots of which s2 overlaps s1 and s3 *)
EXTENDS SlotBooking, TLC

CONSTANTS s1, s2, s3

\* A half-hour shift of one appointment against the other.
Shifted == {<<s1, s1>>, <<s2, s2>>, <<s1, s2>>, <<s2, s1>>}

\* s2 overlaps both of its neighbours, which do not overlap each other.
Chain == Shifted \cup {<<s3, s3>>, <<s2, s3>>, <<s3, s2>>}

Disjoint == {<<s1, s1>>, <<s2, s2>>}
=============================================================================
