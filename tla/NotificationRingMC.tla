-------------------------- MODULE NotificationRingMC --------------------------
(***************************************************************************)
(* Notices about two bookings, more of them than the ring holds.           *)
(***************************************************************************)
EXTENDS NotificationRing

CONSTANTS n1, n2, n3, n4, b1, b2

Position ==
    [n \in Notices |->
        CASE n = n1 -> 1 [] n = n2 -> 2 [] n = n3 -> 3 [] OTHER -> 4]
EvenAndOdd == [n \in Notices |-> IF n \in {n1, n3} THEN b1 ELSE b2]
===============================================================================
