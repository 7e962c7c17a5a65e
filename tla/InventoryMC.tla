------------------------------ MODULE InventoryMC ------------------------------
(***************************************************************************)
(* One event with three seats and another with one, and the reservations   *)
(* and releases that compete for them.                                     *)
(***************************************************************************)
EXTENDS InventoryPostgres

CONSTANTS big, small, h1, h2, h3, h4, h5

SmallOrBig == [e \in Events |-> IF e = big THEN 3 ELSE 1]
LastIsSmall == [h \in Handlers |-> IF h = h5 THEN small ELSE big]
Adjustments ==
    [h \in Handlers |->
        CASE h = h1 -> -2 [] h = h2 -> -3 [] h = h3 -> 2 [] h = h4 -> -1 [] OTHER -> 1]
===============================================================================
