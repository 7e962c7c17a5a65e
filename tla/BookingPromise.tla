---------------------------- MODULE BookingPromise ----------------------------
(***************************************************************************)
(* What the booking saga promises, with no services, messages or retries:  *)
(* seats are held before money is taken, a booking is sold only while its  *)
(* seats are held and its money taken, and seats go back on sale only once *)
(* no money is kept for them.                                              *)
(***************************************************************************)
EXTENDS Integers

CONSTANTS Events, Capacity, Bookings, EventOf, SeatsOf

VARIABLES
    seatsLeft,          \* seats of each event nobody holds
    deal,               \* each booking: open, held, sold, returning, closed
    purse               \* each booking's money: unpaid, paid, refunded

promiseVars == <<seatsLeft, deal, purse>>

PromiseInit ==
    /\ seatsLeft = Capacity
    /\ deal = [b \in Bookings |-> "open"]
    /\ purse = [b \in Bookings |-> "unpaid"]

Hold(b) ==
    /\ deal[b] = "open"
    /\ seatsLeft[EventOf[b]] >= SeatsOf[b]
    /\ deal' = [deal EXCEPT ![b] = "held"]
    /\ seatsLeft' = [seatsLeft EXCEPT ![EventOf[b]] = @ - SeatsOf[b]]
    /\ UNCHANGED purse

Pay(b) ==
    /\ deal[b] = "held" /\ purse[b] = "unpaid"
    /\ purse' = [purse EXCEPT ![b] = "paid"]
    /\ UNCHANGED <<seatsLeft, deal>>

Sell(b) ==
    /\ deal[b] = "held" /\ purse[b] = "paid"
    /\ deal' = [deal EXCEPT ![b] = "sold"]
    /\ UNCHANGED <<seatsLeft, purse>>

TakeBack(b) ==
    /\ deal[b] = "sold"
    /\ deal' = [deal EXCEPT ![b] = "returning"]
    /\ UNCHANGED <<seatsLeft, purse>>

Reimburse(b) ==
    /\ deal[b] \in {"held", "returning"} /\ purse[b] = "paid"
    /\ purse' = [purse EXCEPT ![b] = "refunded"]
    /\ UNCHANGED <<seatsLeft, deal>>

Return(b) ==
    /\ deal[b] \in {"held", "returning"} /\ purse[b] # "paid"
    /\ deal' = [deal EXCEPT ![b] = "closed"]
    /\ seatsLeft' = [seatsLeft EXCEPT ![EventOf[b]] = @ + SeatsOf[b]]
    /\ UNCHANGED purse

PromiseNext ==
    \E b \in Bookings :
        Hold(b) \/ Pay(b) \/ Sell(b) \/ TakeBack(b) \/ Reimburse(b) \/ Return(b)

PromiseSpec == PromiseInit /\ [][PromiseNext]_promiseVars
===============================================================================
