--------------------------- MODULE NotificationRing ---------------------------
(***************************************************************************)
(* The memory store of notification-service: a map of the notifications    *)
(* kept and the order they arrived in, bounded so that a long run cannot   *)
(* exhaust the pod's memory.  A handler mints the identifier, which starts *)
(* with the time in milliseconds, before it takes the store's lock, so     *)
(* notifications need not arrive in the order of their identifiers.  They  *)
(* are evicted by arrival and listed by identifier.                        *)
(***************************************************************************)
EXTENDS Integers, Sequences, FiniteSets

CONSTANTS
    Notices, Bookings,
    BookingOf,          \* the booking each notice is about
    Random,             \* the random end of its identifier
    Size,               \* MEMORY_STORE_SIZE
    DefaultSize,        \* 500 in the code
    MaxClock            \* bound on the clock

ASSUME RingAssumption ==
    /\ IsFiniteSet(Notices)
    /\ BookingOf \in [Notices -> Bookings]
    /\ Random \in [Notices -> Nat]
    /\ \A m, n \in Notices : Random[m] = Random[n] => m = n
    /\ Size \in Int /\ DefaultSize \in Nat \ {0} /\ MaxClock \in Nat

VARIABLES
    clock,              \* in milliseconds
    stage,              \* stage[n]: how far the handler of n is
    minted,             \* minted[n]: the time in the identifier of n
    storedAt,           \* storedAt[n]: when n was stored
    notifications,      \* the keys of the map
    order               \* the ring: identifiers in order of arrival

vars == <<clock, stage, minted, storedAt, notifications, order>>

Capacity == IF Size > 0 THEN Size ELSE DefaultSize

RingTypeOK ==
    /\ clock \in 0..MaxClock
    /\ stage \in [Notices -> {"new", "minted", "stored"}]
    /\ minted \in [Notices -> 0..MaxClock]
    /\ storedAt \in [Notices -> 0..MaxClock]
    /\ order \in Seq(Notices)
    /\ Len(order) <= Capacity
    /\ notifications = {order[i] : i \in 1..Len(order)}
    /\ \A i, j \in 1..Len(order) : order[i] = order[j] => i = j

Init ==
    /\ clock = 0
    /\ stage = [n \in Notices |-> "new"]
    /\ minted = [n \in Notices |-> 0]
    /\ storedAt = [n \in Notices |-> 0]
    /\ notifications = {}
    /\ order = <<>>

-------------------------------------------------------------------------------
(* External: time passes.                                                   *)
Tick ==
    /\ clock < MaxClock
    /\ clock' = clock + 1
    /\ UNCHANGED <<stage, minted, storedAt, notifications, order>>

(* The handler validates the request and mints the identifier.              *)
Send(n) ==
    /\ stage[n] = "new"
    /\ stage' = [stage EXCEPT ![n] = "minted"]
    /\ minted' = [minted EXCEPT ![n] = clock]
    /\ UNCHANGED <<clock, storedAt, notifications, order>>

(* Variant: eviction forgets the map.                                       *)
KeepAllMapped(arrivals, excess) ==
    /\ order' = SubSeq(arrivals, excess + 1, Len(arrivals))
    /\ notifications' = notifications \cup {arrivals[Len(arrivals)]}

(* Variant: eviction takes the newest instead of the oldest.                *)
EvictNewest(arrivals, excess) ==
    /\ order' = SubSeq(arrivals, 1, Len(arrivals) - excess)
    /\ notifications' = {order'[i] : i \in 1..Len(order')}

(* The oldest arrivals leave the ring and the map, which the last has       *)
(* entered.                                                                 *)
Evict(arrivals, excess) ==
    /\ order' = SubSeq(arrivals, excess + 1, Len(arrivals))
    /\ notifications' =
           (notifications \cup {arrivals[Len(arrivals)]}) \ {arrivals[i] : i \in 1..excess}

(* Under the lock: store the notification and evict while there are more    *)
(* than fit.                                                                *)
Create(n) ==
    /\ stage[n] = "minted"
    /\ stage' = [stage EXCEPT ![n] = "stored"]
    /\ storedAt' = [storedAt EXCEPT ![n] = clock]
    /\ \/ Len(order) < Capacity /\ Evict(Append(order, n), 0)
       \/ Len(order) >= Capacity /\ Evict(Append(order, n), Len(order) + 1 - Capacity)
    /\ UNCHANGED <<clock, minted>>

Next == Tick \/ \E n \in Notices : Send(n) \/ Create(n)

Spec == Init /\ [][Next]_vars

-------------------------------------------------------------------------------
(* Variant: the list starts with the oldest.                                *)
Older(m, n) ==
    \/ minted[m] < minted[n]
    \/ minted[m] = minted[n] /\ Random[m] < Random[n]

(* Identifiers compare by their time, then by their random end.             *)
Newer(m, n) ==
    \/ minted[m] > minted[n]
    \/ minted[m] = minted[n] /\ Random[m] > Random[n]

(* The notifications about the bookings bs that a list answers, newest      *)
(* first, at most limit of them.                                            *)
List(bs, limit) ==
    LET out == {n \in notifications : BookingOf[n] \in bs}
    IN  {n \in out : Cardinality({m \in out : Newer(m, n)}) < limit}

(* A customer's feed shows the latest: a notification is on a list as long  *)
(* as fewer others than the list and the ring hold were stored since it was *)
(* minted, though it is evicted by arrival and listed by identifier.        *)
FeedShowsLatest ==
    \A n \in Notices, bs \in (SUBSET Bookings) \ {{}}, limit \in 1..Cardinality(Notices) :
        LET since == {m \in Notices \ {n} : stage[m] = "stored" /\ storedAt[m] >= minted[n]}
        IN  /\ stage[n] = "stored" /\ BookingOf[n] \in bs
            /\ Cardinality(since) < Capacity
            /\ Cardinality({m \in since : BookingOf[m] \in bs}) < limit
            => n \in List(bs, limit)
===============================================================================
