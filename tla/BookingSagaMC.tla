---------------------------- MODULE BookingSagaMC -----------------------------
(***************************************************************************)
(* Instances of the saga for TLC: one show with two seats, customers who   *)
(* want one or both of them, a free event, and cancellations of the first  *)
(* booking.                                                                *)
(***************************************************************************)
EXTENDS SagaOnce

CONSTANTS b1, b2, b3, c1, c2, show, gratis

TwoSeats == [e \in Events |-> 2]
AllShow == [b \in Bookings |-> show]
ThirdIsFree == [b \in Bookings |-> IF b = b3 THEN gratis ELSE show]
FirstWantsTwo == [b \in Bookings |-> IF b = b1 THEN 2 ELSE 1]
ThirdWantsTwo == [b \in Bookings |-> IF b = b3 THEN 2 ELSE 1]
CancelsFirst == [c \in Cancels |-> b1]
===============================================================================
