---------------------------- MODULE PaymentService ----------------------------
(***************************************************************************)
(* The payment records of payment-service.  Every charge that runs mints a *)
(* payment of its own: the service has no idempotency key, so two runs of  *)
(* one booking's charge are two payments.  The gateway's verdict is left   *)
(* open: it depends on the method, the amount and FAILURE_RATE_PERCENT.    *)
(***************************************************************************)

CONSTANTS
    PaymentIds,         \* the identifiers the service may mint
    Verdicts            \* the gateway verdicts of this deployment

VARIABLE payment        \* payment[p] is the status of record p, or "none"

PaymentTypeOK ==
    payment \in [PaymentIds -> {"none", "AUTHORIZED", "DECLINED", "REFUNDED"}]

-------------------------------------------------------------------------------
(* A charge of nothing is refused before the gateway is asked; a declined  *)
(* one leaves a DECLINED record behind and is answered 402.                *)
Charge(p, positive, code) ==
    \/ /\ ~positive
       /\ code = "validation_failed"
       /\ UNCHANGED payment
    \/ /\ positive
       /\ payment[p] = "none"
       /\ \E verdict \in Verdicts :
              /\ payment' = [payment EXCEPT ![p] = verdict]
              /\ code = IF verdict = "DECLINED" THEN "payment_declined" ELSE "ok"

Refund(p, code) ==
    \/ /\ payment[p] = "none"
       /\ code = "payment_not_found"
       /\ UNCHANGED payment
    \/ /\ payment[p] \in {"DECLINED", "REFUNDED"}
       /\ code = "not_refundable"
       /\ UNCHANGED payment
    \/ /\ payment[p] = "AUTHORIZED"
       /\ code = "ok"
       /\ payment' = [payment EXCEPT ![p] = "REFUNDED"]
===============================================================================
