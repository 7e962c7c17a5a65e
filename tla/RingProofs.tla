------------------------------- MODULE RingProofs -------------------------------
(***************************************************************************)
(* Proofs about NotificationRing: for any capacity, any number of          *)
(* notifications and any order in which their handlers get the lock, the   *)
(* map and the ring agree and a feed shows the latest.                     *)
(***************************************************************************)
EXTENDS NotificationRing, TLAPS, FiniteSetTheorems, SequenceTheorems

(* The times the handlers have seen.                                        *)
TimesInv ==
    \A n \in Notices :
        /\ stage[n] # "new" => minted[n] <= clock
        /\ stage[n] = "stored" => minted[n] <= storedAt[n] /\ storedAt[n] <= clock

(* The ring holds what was stored, in the order it was.                     *)
OrderInv ==
    /\ \A i \in 1..Len(order) : stage[order[i]] = "stored"
    /\ \A i, j \in 1..Len(order) : i <= j => storedAt[order[i]] <= storedAt[order[j]]

(* Whatever is gone, a full ring of later arrivals has pushed out.          *)
EvictedInv ==
    \A n \in Notices \ notifications :
        stage[n] = "stored" =>
            /\ Len(order) = Capacity
            /\ \A i \in 1..Len(order) : storedAt[n] <= storedAt[order[i]]

RingInv == RingTypeOK /\ TimesInv /\ OrderInv /\ EvictedInv

-------------------------------------------------------------------------------
LEMMA CapacityType == Capacity \in Nat /\ Capacity > 0
BY RingAssumption DEF Capacity

(* What a notification that is stored makes of the ring.                    *)
LEMMA NextRing ==
    ASSUME RingInv, NEW n \in Notices, Create(n)
    PROVE  \E drop \in 0..1 :
               /\ order' \in Seq(Notices)
               /\ Len(order') = Len(order) + 1 - drop
               /\ Len(order') <= Capacity
               /\ drop = 1 => Len(order) = Capacity
               /\ order'[Len(order')] = n
               /\ \A i \in 1..(Len(order') - 1) : i + drop \in 1..Len(order) /\ order'[i] = order[i + drop]
               /\ \A k \in (1 + drop)..Len(order) : k - drop \in 1..Len(order') /\ order'[k - drop] = order[k]
               /\ notifications' =
                      IF drop = 1 THEN (notifications \cup {n}) \ {order[1]} ELSE notifications \cup {n}
  <1> DEFINE arrivals == Append(order, n)
  <1>1. order \in Seq(Notices) /\ Len(order) \in Nat /\ Len(order) <= Capacity
    BY DEF RingInv, RingTypeOK
  <1>2. /\ arrivals \in Seq(Notices)
        /\ Len(arrivals) = Len(order) + 1
        /\ \A i \in 1..Len(arrivals) :
               arrivals[i] = IF i <= Len(order) THEN order[i] ELSE n
    BY <1>1, AppendProperties
  <1>3. arrivals[Len(arrivals)] = n
    BY <1>1, <1>2
  <1> HIDE DEF arrivals
  <1>4. CASE Len(order) < Capacity /\ Evict(arrivals, 0)
    <2>1. /\ order' = SubSeq(arrivals, 1, Len(arrivals))
          /\ notifications' =
                 (notifications \cup {arrivals[Len(arrivals)]}) \ {arrivals[i] : i \in 1..0}
      BY <1>4 DEF Evict
    <2>2. order' = arrivals
      BY <1>1, <1>2, <2>1, SubSeqFull
    <2>3. notifications' = notifications \cup {n}
      BY <1>3, <2>1
    <2> WITNESS 0 \in 0..1
    <2>. QED
      BY <1>1, <1>2, <1>4, <2>2, <2>3, CapacityType
  <1>5. CASE Len(order) >= Capacity /\ Evict(arrivals, Len(order) + 1 - Capacity)
    <2>1. Len(order) = Capacity /\ Len(order) + 1 - Capacity = 1
      BY <1>1, <1>5, CapacityType
    <2>2. /\ order' = SubSeq(arrivals, 2, Len(arrivals))
          /\ notifications' =
                 (notifications \cup {arrivals[Len(arrivals)]}) \ {arrivals[i] : i \in 1..1}
      BY <1>5, <2>1 DEF Evict
    <2>3. /\ order' \in Seq(Notices)
          /\ Len(order') = Len(order)
          /\ \A i \in 1..Len(order) : order'[i] = arrivals[i + 1]
      BY <1>1, <1>2, <2>1, <2>2, CapacityType, SubSeqProperties
    <2>4. notifications' = (notifications \cup {n}) \ {order[1]}
      BY <1>1, <1>2, <1>3, <2>1, <2>2, CapacityType
    <2> WITNESS 1 \in 0..1
    <2>. QED
      BY <1>1, <1>2, <2>1, <2>3, <2>4, CapacityType
  <1>. QED
    BY <1>4, <1>5 DEF Create, arrivals

(* Storing a notification keeps the ring.                                   *)
LEMMA CreateStep ==
    ASSUME RingInv, NEW n \in Notices, Create(n)
    PROVE  RingInv'
  <1>1. PICK drop \in 0..1 :
            /\ order' \in Seq(Notices)
            /\ Len(order') = Len(order) + 1 - drop
            /\ Len(order') <= Capacity
            /\ drop = 1 => Len(order) = Capacity
            /\ order'[Len(order')] = n
            /\ \A i \in 1..(Len(order') - 1) : i + drop \in 1..Len(order) /\ order'[i] = order[i + drop]
            /\ \A k \in (1 + drop)..Len(order) : k - drop \in 1..Len(order') /\ order'[k - drop] = order[k]
            /\ notifications' =
                   IF drop = 1 THEN (notifications \cup {n}) \ {order[1]} ELSE notifications \cup {n}
    BY NextRing
  <1>2. /\ order \in Seq(Notices) /\ Len(order) \in Nat /\ Len(order') \in Nat
        /\ clock \in 0..MaxClock
        /\ stage \in [Notices -> {"new", "minted", "stored"}]
        /\ minted \in [Notices -> 0..MaxClock]
        /\ storedAt \in [Notices -> 0..MaxClock]
        /\ \A i, j \in 1..Len(order) : order[i] = order[j] => i = j
    BY <1>1 DEF RingInv, RingTypeOK
  <1>a. \A i \in 1..Len(order) : order[i] \in Notices
    BY <1>2
  <1>b. \A x : x \in notifications <=> \E i \in 1..Len(order) : x = order[i]
    BY DEF RingInv, RingTypeOK
  <1>c. Len(order') \in 1..Capacity /\ Capacity' = Capacity
    BY <1>1, <1>2, CapacityType DEF Capacity
  <1>d. \A i \in 1..Len(order') :
            \/ i = Len(order') /\ order'[i] = n
            \/ i + drop \in 1..Len(order) /\ order'[i] = order[i + drop] /\ i < Len(order')
    <2> SUFFICES ASSUME NEW i \in 1..Len(order'), i # Len(order')
                 PROVE  /\ i + drop \in 1..Len(order) /\ order'[i] = order[i + drop]
                        /\ i < Len(order')
      BY <1>1
    <2>1. i \in 1..(Len(order') - 1) /\ i < Len(order')
      BY <1>2
    <2>. QED
      BY <1>1, <2>1
  <1>3. /\ stage[n] = "minted"
        /\ stage' = [stage EXCEPT ![n] = "stored"]
        /\ storedAt' = [storedAt EXCEPT ![n] = clock]
        /\ clock' = clock /\ minted' = minted
    BY DEF Create
  <1>4. \A i \in 1..Len(order) : order[i] # n /\ stage[order[i]] = "stored"
    BY <1>3 DEF RingInv, OrderInv
  <1>5. n \notin notifications
    BY <1>b, <1>4
  <1>6. RingTypeOK'
    <2>1. ASSUME NEW i \in 1..Len(order'), NEW j \in 1..Len(order'), order'[i] = order'[j]
          PROVE  i = j
      <3>1. CASE order'[i] = n
        <4>1. i = Len(order') /\ j = Len(order')
          BY <1>4, <1>d, <2>1, <3>1
        <4>. QED
          BY <4>1
      <3>2. CASE order'[i] # n
        <4>1. /\ i + drop \in 1..Len(order) /\ j + drop \in 1..Len(order)
              /\ order[i + drop] = order[j + drop]
          BY <1>d, <2>1, <3>2
        <4>2. i + drop = j + drop
          BY <1>2, <4>1
        <4>. QED
          BY <1>1, <4>2
      <3>. QED
        BY <3>1, <3>2
    <2>2. ASSUME NEW m \in notifications'
          PROVE  \E i \in 1..Len(order') : m = order'[i]
      <3>1. CASE m = n
        BY <1>1, <1>c, <3>1
      <3>2. CASE m # n
        <4>1. PICK k \in 1..Len(order) : m = order[k]
          BY <1>1, <1>b, <2>2, <3>2
        <4>2. drop = 1 => k # 1
          BY <1>1, <2>2, <3>2, <4>1
        <4>3. k \in (1 + drop)..Len(order)
          BY <1>2, <4>1, <4>2
        <4>. QED
          BY <1>1, <4>1, <4>3
      <3>. QED
        BY <3>1, <3>2
    <2>3. ASSUME NEW i \in 1..Len(order')
          PROVE  order'[i] \in notifications'
      <3>1. CASE order'[i] = n
        <4>1. drop = 1 => n # order[1]
          BY <1>1, <1>4, CapacityType
        <4>. QED
          BY <1>1, <3>1, <4>1
      <3>2. CASE i + drop \in 1..Len(order) /\ order'[i] = order[i + drop]
        <4>1. drop = 1 => order[i + drop] # order[1]
          BY <1>1, <1>2, <3>2
        <4>2. order[i + drop] \in notifications
          BY <1>b, <3>2
        <4>. QED
          BY <1>1, <3>2, <4>1, <4>2
      <3>. QED
        BY <1>d, <3>1, <3>2
    <2>4. notifications' = {order'[i] : i \in 1..Len(order')}
      BY <2>2, <2>3
    <2>5. /\ clock' \in 0..MaxClock
          /\ stage' \in [Notices -> {"new", "minted", "stored"}]
          /\ minted' \in [Notices -> 0..MaxClock]
          /\ storedAt' \in [Notices -> 0..MaxClock]
      BY <1>2, <1>3
    <2>. QED
      BY <1>1, <1>c, <2>1, <2>4, <2>5 DEF RingTypeOK
  <1>7. TimesInv'
    BY <1>2, <1>3 DEF RingInv, TimesInv
  <1>8. \A i \in 1..Len(order) : storedAt[order[i]] <= clock
    BY <1>2, <1>4 DEF RingInv, TimesInv
  <1>9. OrderInv'
    <2>1. ASSUME NEW i \in 1..Len(order')
          PROVE  stage'[order'[i]] = "stored"
      BY <1>2, <1>3, <1>4, <1>a, <1>d
    <2>2. ASSUME NEW i \in 1..Len(order'), NEW j \in 1..Len(order'), i <= j
          PROVE  storedAt'[order'[i]] <= storedAt'[order'[j]]
      <3>1. CASE order'[j] = n
        <4>1. storedAt'[order'[j]] = clock
          BY <1>2, <1>3, <3>1
        <4>2. storedAt'[order'[i]] <= clock
          <5>1. CASE order'[i] = n
            BY <1>2, <1>3, <5>1
          <5>2. CASE i + drop \in 1..Len(order) /\ order'[i] = order[i + drop]
            <6>1. order[i + drop] \in Notices \ {n} /\ storedAt[order[i + drop]] <= clock
              BY <1>4, <1>8, <1>a, <5>2
            <6>. QED
              BY <1>2, <1>3, <5>2, <6>1
          <5>. QED
            BY <1>d, <5>1, <5>2
        <4>. QED
          BY <4>1, <4>2
      <3>2. CASE j + drop \in 1..Len(order) /\ order'[j] = order[j + drop] /\ j < Len(order')
        <4>1. i + drop \in 1..Len(order) /\ order'[i] = order[i + drop] /\ i + drop <= j + drop
          <5>1. i # Len(order')
            BY <1>2, <2>2, <3>2
          <5>2. i + drop \in 1..Len(order) /\ order'[i] = order[i + drop]
            BY <1>d, <5>1
          <5>. QED
            BY <2>2, <5>2
        <4>2. storedAt[order[i + drop]] <= storedAt[order[j + drop]]
          BY <3>2, <4>1 DEF RingInv, OrderInv
        <4>. QED
          BY <1>2, <1>3, <1>4, <1>a, <3>2, <4>1, <4>2
      <3>. QED
        BY <1>d, <3>1, <3>2
    <2>. QED
      BY <2>1, <2>2 DEF OrderInv
  <1>14. EvictedInv'
    <2> SUFFICES ASSUME NEW m \in Notices, m \notin notifications', stage'[m] = "stored"
                 PROVE  /\ Len(order') = Capacity
                        /\ \A i \in 1..Len(order') : storedAt'[m] <= storedAt'[order'[i]]
      BY <1>2 DEF EvictedInv
    <2>1. m # n
      BY <1>1, <1>4, CapacityType
    <2>2. stage[m] = "stored" /\ storedAt'[m] = storedAt[m] /\ storedAt[m] <= clock
      BY <1>2, <1>3, <2>1 DEF RingInv, TimesInv
    <2>3. /\ Len(order) = Capacity
          /\ \A i \in 1..Len(order) : storedAt[m] <= storedAt[order[i]]
      <3>1. CASE m \notin notifications
        BY <2>2, <3>1 DEF RingInv, EvictedInv
      <3>2. CASE m \in notifications
        <4>1. drop = 1 /\ m = order[1]
          BY <1>1, <2>1, <3>2
        <4>. QED
          BY <1>1, <1>c, <4>1, CapacityType DEF RingInv, OrderInv
      <3>. QED
        BY <3>1, <3>2
    <2>4. Len(order') = Capacity
      BY <1>1, <1>2, <2>3, CapacityType
    <2>5. ASSUME NEW i \in 1..Len(order') PROVE storedAt'[m] <= storedAt'[order'[i]]
      <3>1. CASE order'[i] = n
        BY <1>2, <1>3, <2>2, <3>1
      <3>2. CASE i + drop \in 1..Len(order) /\ order'[i] = order[i + drop]
        BY <1>2, <1>3, <1>4, <1>a, <2>2, <2>3, <3>2
      <3>. QED
        BY <1>d, <3>1, <3>2
    <2>. QED
      BY <2>4, <2>5
  <1>. QED
    BY <1>6, <1>7, <1>9, <1>14 DEF RingInv

LEMMA RingInvariance == Spec => []RingInv
  <1>1. Init => RingInv
    <2> SUFFICES ASSUME Init PROVE RingInv
      OBVIOUS
    <2>1. order = << >> /\ Len(order) = 0 /\ order \in Seq(Notices)
      BY EmptySeq DEF Init
    <2>. QED
      BY <2>1, RingAssumption, CapacityType
         DEF Init, RingInv, RingTypeOK, TimesInv, OrderInv, EvictedInv
  <1>2. RingInv /\ [Next]_vars => RingInv'
    <2> SUFFICES ASSUME RingInv, [Next]_vars PROVE RingInv'
      OBVIOUS
    <2> USE DEF RingInv, RingTypeOK, TimesInv, OrderInv, EvictedInv
    <2>1. CASE Tick
      BY <2>1, RingAssumption DEF Tick, Capacity
    <2>2. ASSUME NEW n \in Notices, Send(n) PROVE RingInv'
      <3> USE <2>2, RingAssumption DEF Send
      <3>1. RingTypeOK'
        BY DEF Capacity
      <3>2. TimesInv'
        OBVIOUS
      <3>3. OrderInv'
        <4>1. \A i \in 1..Len(order) : order[i] # n /\ stage'[order[i]] = stage[order[i]]
          OBVIOUS
        <4>. QED
          BY <4>1
      <3>4. EvictedInv'
        BY DEF Capacity
      <3>. QED
        BY <3>1, <3>2, <3>3, <3>4
    <2>3. ASSUME NEW n \in Notices, Create(n) PROVE RingInv'
      BY <2>3, CreateStep
    <2>4. CASE UNCHANGED vars
      <3> USE <2>4 DEF vars
      <3>1. RingTypeOK'
        BY DEF Capacity
      <3>2. TimesInv'
        OBVIOUS
      <3>3. OrderInv'
        OBVIOUS
      <3>4. EvictedInv'
        BY DEF Capacity
      <3>. QED
        BY <3>1, <3>2, <3>3, <3>4
    <2>. QED
      BY <2>1, <2>2, <2>3, <2>4 DEF Next
  <1>. QED
    BY <1>1, <1>2, PTL DEF Spec

-------------------------------------------------------------------------------
(* Of the others stored since n was minted, a ring that has lost n is full. *)
LEMMA LostToLaterOnes ==
    ASSUME RingInv, NEW n \in Notices \ notifications, stage[n] = "stored",
           NEW since \in SUBSET Notices,
           \A m \in Notices \ {n} : stage[m] = "stored" /\ storedAt[m] >= minted[n] => m \in since
    PROVE  Cardinality(since) >= Capacity
  <1>1. /\ order \in [1..Capacity -> Notices]
        /\ \A i \in 1..Capacity :
               order[i] # n /\ stage[order[i]] = "stored" /\ storedAt[n] <= storedAt[order[i]]
    <2>1. Len(order) = Capacity /\ order \in [1..Len(order) -> Notices]
      BY DEF RingInv, RingTypeOK, EvictedInv
    <2>2. \A i \in 1..Capacity : stage[order[i]] = "stored" /\ order[i] # n
      BY <2>1 DEF RingInv, RingTypeOK, OrderInv
    <2>. QED
      BY <2>1, <2>2 DEF RingInv, EvictedInv
  <1>2. \A i \in 1..Capacity : storedAt[order[i]] >= minted[n]
    BY <1>1 DEF RingInv, RingTypeOK, TimesInv
  <1>3. order \in [1..Capacity -> since]
    BY <1>1, <1>2
  <1>4. order \in Injection(1..Capacity, since)
    <2>1. \A i, j \in 1..Capacity : order[i] = order[j] => i = j
      BY DEF RingInv, RingTypeOK, EvictedInv
    <2>. QED
      BY <1>3, <2>1 DEF Injection, IsInjective
  <1>5. IsFiniteSet(since)
    BY RingAssumption, FS_Subset
  <1>6. Cardinality(1..Capacity) <= Cardinality(since)
    BY <1>4, <1>5, FS_Injection
  <1>7. Cardinality(1..Capacity) = Capacity
    BY CapacityType, FS_Interval
  <1>. QED
    BY <1>6, <1>7

(* The map and the ring hold the same, at most Capacity notifications, each *)
(* of them once.                                                            *)
THEOREM RingTypeCorrect == Spec => []RingTypeOK
  <1>1. RingInv => RingTypeOK
    BY DEF RingInv
  <1>. QED
    BY <1>1, RingInvariance, PTL

(* A feed shows a notification as long as fewer others than the feed and    *)
(* the ring hold were stored since it was minted.                           *)
THEOREM LatestAreShown == Spec => []FeedShowsLatest
  <1>1. RingInv => FeedShowsLatest
    <2> SUFFICES ASSUME RingInv, NEW n \in Notices, NEW bs \in (SUBSET Bookings) \ {{}},
                        NEW limit \in 1..Cardinality(Notices),
                        stage[n] = "stored", BookingOf[n] \in bs
                 PROVE  LET since == {m \in Notices \ {n} : stage[m] = "stored"
                                                            /\ storedAt[m] >= minted[n]}
                        IN  /\ Cardinality(since) < Capacity
                            /\ Cardinality({m \in since : BookingOf[m] \in bs}) < limit
                            => n \in List(bs, limit)
      BY DEF FeedShowsLatest
    <2> DEFINE since == {m \in Notices \ {n} : stage[m] = "stored" /\ storedAt[m] >= minted[n]}
               rivals == {m \in since : BookingOf[m] \in bs}
               out == {m \in notifications : BookingOf[m] \in bs}
               ahead == {m \in out : Newer(m, n)}
    <2> SUFFICES ASSUME Cardinality(since) < Capacity, Cardinality(rivals) < limit
                 PROVE  n \in List(bs, limit)
      OBVIOUS
    <2>1. IsFiniteSet(since) /\ IsFiniteSet(rivals)
      <3>1. since \in SUBSET Notices /\ rivals \in SUBSET Notices
        OBVIOUS
      <3>. QED
        BY <3>1, RingAssumption, FS_Subset
    <2>2. n \in notifications
      <3> SUFFICES ASSUME n \notin notifications PROVE FALSE
        OBVIOUS
      <3>1. since \in SUBSET Notices
        OBVIOUS
      <3>2. \A m \in Notices \ {n} : stage[m] = "stored" /\ storedAt[m] >= minted[n] => m \in since
        OBVIOUS
      <3> HIDE DEF since
      <3>3. Cardinality(since) >= Capacity
        BY <3>1, <3>2, LostToLaterOnes
      <3>4. Cardinality(since) \in Nat
        BY <2>1, FS_CardinalityType
      <3>. QED
        BY <3>3, <3>4, CapacityType
    <2>3. ahead \in SUBSET rivals
      <3> SUFFICES ASSUME NEW m \in notifications, BookingOf[m] \in bs, Newer(m, n)
                   PROVE  m \in since
        OBVIOUS
      <3>1. m \in Notices /\ stage[m] = "stored"
        BY DEF RingInv, RingTypeOK, OrderInv
      <3>2. m # n /\ minted[m] >= minted[n]
        <4>1. /\ minted[m] \in Int /\ minted[n] \in Int
              /\ Random[m] \in Int /\ Random[n] \in Int
          BY <3>1, RingAssumption DEF RingInv, RingTypeOK
        <4>2. minted[m] >= minted[n]
          BY <4>1 DEF Newer
        <4>3. m # n
          BY <4>1 DEF Newer
        <4>. QED
          BY <4>2, <4>3
      <3>3. storedAt[m] >= minted[n]
        BY <3>1, <3>2 DEF RingInv, RingTypeOK, TimesInv
      <3>. QED
        BY <3>1, <3>2, <3>3
    <2>4. Cardinality(ahead) < limit
      <3> HIDE DEF ahead, rivals
      <3>1. Cardinality(ahead) <= Cardinality(rivals) /\ IsFiniteSet(ahead)
        BY <2>1, <2>3, FS_Subset
      <3>2. Cardinality(ahead) \in Nat /\ Cardinality(rivals) \in Nat
        BY <2>1, <3>1, FS_CardinalityType
      <3>3. limit \in Nat
        BY RingAssumption, FS_CardinalityType
      <3>. QED
        BY <3>1, <3>2, <3>3
    <2>5. List(bs, limit) = {k \in out : Cardinality({m \in out : Newer(m, k)}) < limit}
      BY DEF List
    <2>. QED
      BY <2>2, <2>4, <2>5
  <1>. QED
    BY <1>1, RingInvariance, PTL
===============================================================================
