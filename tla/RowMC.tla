--------------------------------- MODULE RowMC ---------------------------------
(***************************************************************************)
(* A booking that is confirmed while two customers cancel it and its       *)
(* payment is refunded twice, and another one that fails while cancelled.  *)
(***************************************************************************)
EXTENDS RowPostgres

CONSTANTS b1, b2, p1, p2, confirm1, cancel1, cancel2, fail2, cancel3, refund1, refund2

FirstOrSecond == [h \in Updates |-> IF h \in {fail2, cancel3} THEN b2 ELSE b1]
Asked ==
    [h \in Updates |->
        CASE h = confirm1 -> "confirm" [] h = fail2 -> "fail" [] OTHER -> "cancel"]
FirstPayment == [h \in Updates |-> p1]
SamePayment == [h \in Refunds |-> p1]
===============================================================================
