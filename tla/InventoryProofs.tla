---------------------------- MODULE InventoryProofs ----------------------------
(***************************************************************************)
(* Proofs about InventoryPostgres, for any number of events, handlers and  *)
(* seats.  TypeOK is inductive: the two bounds of the WHERE clause carry   *)
(* the bounds of available_seats.  With it every statement of a handler is *)
(* a step of the ledger, or a step the ledger does not see.                *)
(***************************************************************************)
EXTENDS InventoryPostgres, FiniteSetTheorems, TLAPS

USE DEF Inventory!InventoryTypeOK

(* Type correctness of the shared table: the seats of every event stay      *)
(* within its capacity, however many replicas adjust them.                  *)
THEOREM InventoryTypeCorrect == Spec => []TypeOK
<1>1. Init => TypeOK
  BY InventoryAssumption DEF Init, TypeOK, Replies
<1>2. TypeOK /\ [Next]_vars => TypeOK'
  <2> SUFFICES ASSUME TypeOK, [Next]_vars PROVE TypeOK'
    OBVIOUS
  <2> USE InventoryAssumption DEF TypeOK
  <2>1. ASSUME NEW h \in Handlers, Update(h) PROVE TypeOK'
    <3>1. CASE Matches(h) /\ Change(h) /\ Reply(h, "ok")
      BY <3>1 DEF Matches, Change, Reply, Replies
    <3>2. CASE Matches(h) /\ Change(h) /\ Reply(h, "internal_error")
      BY <3>2 DEF Matches, Change, Reply, Replies
    <3>3. CASE stage' = [stage EXCEPT ![h] = "readBack"]
               /\ UNCHANGED <<tableVars, reply, applied>>
      BY <3>3 DEF tableVars
    <3>4. CASE Reply(h, "internal_error") /\ UNCHANGED <<tableVars, applied>>
      BY <3>4 DEF tableVars, Reply, Replies
    <3>5. QED
      BY <2>1, <3>1, <3>2, <3>3, <3>4 DEF Update
  <2>2. ASSUME NEW h \in Handlers, ReadBack(h) PROVE TypeOK'
    BY <2>2 DEF ReadBack, Reason, Reply, Replies, tableVars
  <2>3. ASSUME NEW e \in Events, CreateEvent(e) PROVE TypeOK'
    BY <2>3 DEF CreateEvent, Inventory!CreateEvent
  <2>4. ASSUME NEW e \in Events, DeleteEvent(e) PROVE TypeOK'
    BY <2>4 DEF DeleteEvent, Inventory!DeleteEvent
  <2>5. CASE UNCHANGED vars
    BY <2>5 DEF vars, tableVars
  <2>6. QED
    BY <2>1, <2>2, <2>3, <2>4, <2>5 DEF Next
<1>3. QED
  BY <1>1, <1>2, PTL DEF Spec

-------------------------------------------------------------------------------
(* A handler that has not answered yet has changed nothing yet.             *)
Unanswered ==
    \A h \in Handlers :
        stage[h] # "answered" => h \notin applied /\ reply[h] = "none"

(* Unanswered holds of every handler, since a handler answers in the step   *)
(* that commits its change.                                                 *)
LEMMA NothingBeforeAnswer == Spec => []Unanswered
<1>1. Init => Unanswered
  BY DEF Init, Unanswered
<1>2. TypeOK /\ Unanswered /\ [Next]_vars => Unanswered'
  <2> SUFFICES ASSUME TypeOK, Unanswered, [Next]_vars PROVE Unanswered'
    OBVIOUS
  <2> USE DEF TypeOK, Unanswered
  <2>1. ASSUME NEW h \in Handlers, Update(h) PROVE Unanswered'
    BY <2>1 DEF Update, Change, Reply, tableVars
  <2>2. ASSUME NEW h \in Handlers, ReadBack(h) PROVE Unanswered'
    BY <2>2 DEF ReadBack, Reply, tableVars
  <2>3. ASSUME NEW e \in Events, CreateEvent(e) \/ DeleteEvent(e) PROVE Unanswered'
    BY <2>3 DEF CreateEvent, DeleteEvent
  <2>4. CASE UNCHANGED vars
    BY <2>4 DEF vars
  <2>5. QED
    BY <2>1, <2>2, <2>3, <2>4 DEF Next
<1>3. QED
  BY <1>1, <1>2, InventoryTypeCorrect, PTL DEF Spec

-------------------------------------------------------------------------------
(* The seats add up.  They are counted as the elements of finite sets, one  *)
(* pair of a handler and a number for each seat it took or put back.        *)

(* A block of n seats of one handler.                                       *)
LEMMA BlockSize ==
    ASSUME NEW h, NEW n \in Int
    PROVE  /\ IsFiniteSet({h} \X (1..n))
           /\ Cardinality({h} \X (1..n)) = IF n > 0 THEN n ELSE 0
<1>1. IsFiniteSet({h}) /\ Cardinality({h}) = 1
  BY FS_Singleton
<1>2. IsFiniteSet(1..n) /\ Cardinality(1..n) = IF 1 > n THEN 0 ELSE n - 1 + 1
  BY FS_Interval
<1>3. IsFiniteSet({h} \X (1..n)) /\ Cardinality({h} \X (1..n)) = 1 * Cardinality(1..n)
  BY <1>1, <1>2, FS_Product
<1>4. QED
  BY <1>2, <1>3

(* What two disjoint finite sets hold together.                             *)
LEMMA DisjointUnion ==
    ASSUME NEW S, NEW T, IsFiniteSet(S), IsFiniteSet(T), S \cap T = {}
    PROVE  /\ IsFiniteSet(S \cup T)
           /\ Cardinality(S \cup T) = Cardinality(S) + Cardinality(T)
<1>1. /\ IsFiniteSet(S \cup T)
      /\ Cardinality(S \cup T) = Cardinality(S) + Cardinality(T) - Cardinality(S \cap T)
  BY FS_Union
<1>2. Cardinality(S \cap T) = 0
  BY FS_EmptySet
<1>3. Cardinality(S) \in Nat /\ Cardinality(T) \in Nat
  BY FS_CardinalityType
<1>4. QED
  BY <1>1, <1>2, <1>3

(* A handler that had changed nothing commits its change: the seats of its  *)
(* event grow by its block, and those of the other events stay.             *)
LEMMA AppliedGrows ==
    ASSUME NEW h \in Handlers, h \notin applied, applied' = applied \cup {h}, NEW e \in Events
    PROVE  /\ EventOf[h] # e => AppliedTo(e)' = AppliedTo(e)
           /\ EventOf[h] = e => /\ AppliedTo(e)' = AppliedTo(e) \cup {h}
                                /\ Taken(e)' = Taken(e) \cup ({h} \X (1..(-DeltaOf[h])))
                                /\ PutBack(e)' = PutBack(e) \cup ({h} \X (1..DeltaOf[h]))
                                /\ Taken(e) \cap ({h} \X (1..(-DeltaOf[h]))) = {}
                                /\ PutBack(e) \cap ({h} \X (1..DeltaOf[h])) = {}
<1>1. EventOf[h] # e => AppliedTo(e)' = AppliedTo(e)
  BY DEF AppliedTo
<1>2. EventOf[h] = e => AppliedTo(e)' = AppliedTo(e) \cup {h}
  BY DEF AppliedTo
<1>3. \A g \in AppliedTo(e) : g # h
  BY DEF AppliedTo
<1>4. QED
  BY <1>1, <1>2, <1>3 DEF Taken, PutBack

(* Seats that were changed stay counted, in finite sets, and an event that  *)
(* was not created yet has none.                                            *)
SeatsInv ==
    /\ SeatsAddUp
    /\ \A e \in Events :
          /\ IsFiniteSet(Taken(e)) /\ IsFiniteSet(PutBack(e))
          /\ listing[e] = "absent" => AppliedTo(e) = {}

(* A committed change preserves SeatsInv: it adds to the one set what it    *)
(* adds to the row, since the handler had committed nothing before.         *)
LEMMA ChangeAddsUp ==
    ASSUME TypeOK, Unanswered, SeatsInv, NEW h \in Handlers,
           stage[h] = "update", Matches(h), Change(h)
    PROVE  SeatsInv'
<1> USE InventoryAssumption DEF TypeOK
<1>1. h \notin applied /\ applied' = applied \cup {h}
  BY DEF Unanswered, Change
<1>2. listing' = listing /\ listing[EventOf[h]] = "listed"
  BY DEF Matches, Change
<1>3. SUFFICES ASSUME NEW e \in Events
               PROVE  /\ listing[e] # "absent" =>
                          available'[e] + Cardinality(Taken(e)') = Capacity[e] + Cardinality(PutBack(e)')
                      /\ IsFiniteSet(Taken(e)') /\ IsFiniteSet(PutBack(e)')
                      /\ listing[e] = "absent" => AppliedTo(e)' = {}
  BY <1>2 DEF SeatsInv, SeatsAddUp
<1>4. CASE EventOf[h] # e
  <2>1. AppliedTo(e)' = AppliedTo(e) /\ available'[e] = available[e]
    BY <1>1, <1>4, AppliedGrows DEF Change
  <2>2. Taken(e)' = Taken(e) /\ PutBack(e)' = PutBack(e)
    BY <2>1 DEF Taken, PutBack
  <2>3. QED
    BY <2>1, <2>2 DEF SeatsInv, SeatsAddUp
<1>5. CASE EventOf[h] = e
  <2> DEFINE took == {h} \X (1..(-DeltaOf[h]))
             gave == {h} \X (1..DeltaOf[h])
  <2>1. /\ Taken(e)' = Taken(e) \cup took /\ Taken(e) \cap took = {}
        /\ PutBack(e)' = PutBack(e) \cup gave /\ PutBack(e) \cap gave = {}
    BY <1>1, <1>5, AppliedGrows
  <2>2. DeltaOf[h] \in Int /\ -DeltaOf[h] \in Int
    OBVIOUS
  <2>3. /\ IsFiniteSet(took) /\ Cardinality(took) = IF -DeltaOf[h] > 0 THEN -DeltaOf[h] ELSE 0
        /\ IsFiniteSet(gave) /\ Cardinality(gave) = IF DeltaOf[h] > 0 THEN DeltaOf[h] ELSE 0
    BY <2>2, BlockSize
  <2>4. IsFiniteSet(Taken(e)) /\ IsFiniteSet(PutBack(e))
    BY DEF SeatsInv
  <2>5. /\ IsFiniteSet(Taken(e)') /\ Cardinality(Taken(e)') = Cardinality(Taken(e)) + Cardinality(took)
        /\ IsFiniteSet(PutBack(e)') /\ Cardinality(PutBack(e)') = Cardinality(PutBack(e)) + Cardinality(gave)
    <3> HIDE DEF took, gave
    <3>1. IsFiniteSet(Taken(e) \cup took)
          /\ Cardinality(Taken(e) \cup took) = Cardinality(Taken(e)) + Cardinality(took)
      BY <2>1, <2>3, <2>4, DisjointUnion
    <3>2. IsFiniteSet(PutBack(e) \cup gave)
          /\ Cardinality(PutBack(e) \cup gave) = Cardinality(PutBack(e)) + Cardinality(gave)
      BY <2>1, <2>3, <2>4, DisjointUnion
    <3>3. QED
      BY <2>1, <3>1, <3>2
  <2>6. /\ available[e] \in Int /\ Capacity[e] \in Int
        /\ available'[e] = available[e] + DeltaOf[h]
    <3>1. available \in [Events -> Int] /\ available' = [available EXCEPT ![e] = @ + DeltaOf[h]]
      BY <1>5 DEF Change
    <3>2. Capacity[e] \in Int
      OBVIOUS
    <3>3. QED
      BY <3>1, <3>2
  <2>7. available[e] + Cardinality(Taken(e)) = Capacity[e] + Cardinality(PutBack(e))
    BY <1>2, <1>5 DEF SeatsInv, SeatsAddUp
  <2>8. Cardinality(Taken(e)) \in Nat /\ Cardinality(PutBack(e)) \in Nat
    BY <2>4, FS_CardinalityType
  <2>9. available'[e] + Cardinality(Taken(e)') = Capacity[e] + Cardinality(PutBack(e)')
    <3> HIDE DEF took, gave
    <3>1. Cardinality(took) - Cardinality(gave) = -DeltaOf[h]
          /\ Cardinality(took) \in Int /\ Cardinality(gave) \in Int
      BY <2>2, <2>3
    <3>2. QED
      BY <2>2, <2>5, <2>6, <2>7, <2>8, <3>1
  <2>10. QED
    BY <1>2, <1>5, <2>5, <2>9
<1>6. QED
  BY <1>4, <1>5

(* A new event has all its seats, and nothing was changed yet.              *)
LEMMA CreationAddsUp ==
    ASSUME TypeOK, SeatsInv, NEW e \in Events, CreateEvent(e)
    PROVE  SeatsInv'
<1> USE InventoryAssumption DEF TypeOK
<1>1. applied' = applied /\ listing[e] = "absent"
      /\ listing' = [listing EXCEPT ![e] = "listed"]
      /\ available' = [available EXCEPT ![e] = Capacity[e]]
  BY DEF CreateEvent, Inventory!CreateEvent
<1>2. \A d \in Events : /\ AppliedTo(d)' = AppliedTo(d)
                         /\ Taken(d)' = Taken(d) /\ PutBack(d)' = PutBack(d)
  BY <1>1 DEF AppliedTo, Taken, PutBack
<1>3. Taken(e) = {} /\ PutBack(e) = {} /\ Cardinality({}) = 0
  BY <1>1, FS_EmptySet DEF SeatsInv, Taken, PutBack
<1>4. available'[e] + Cardinality(Taken(e)') = Capacity[e] + Cardinality(PutBack(e)')
  BY <1>1, <1>2, <1>3
<1>5. \A d \in Events \ {e} : listing'[d] = listing[d] /\ available'[d] = available[d]
  BY <1>1
<1>6. listing'[e] = "listed"
  BY <1>1
<1>7. SeatsAddUp'
  BY <1>2, <1>4, <1>5 DEF SeatsInv, SeatsAddUp
<1>8. QED
  BY <1>2, <1>5, <1>6, <1>7 DEF SeatsInv

(* The seats of every event add up after every step, for any number of      *)
(* handlers on any number of replicas: available_seats is the capacity less *)
(* the seats taken plus the seats put back, every committed change counted  *)
(* once, whether or not its handler heard of the commit.                    *)
THEOREM SeatsAlwaysAddUp == Spec => []SeatsAddUp
<1>1. Init => SeatsInv
  <2>1. SUFFICES ASSUME Init, NEW e \in Events
                 PROVE  /\ IsFiniteSet(Taken(e)) /\ IsFiniteSet(PutBack(e))
                        /\ listing[e] = "absent" /\ AppliedTo(e) = {}
    BY DEF Init, SeatsInv, SeatsAddUp
  <2>2. Taken(e) = {} /\ PutBack(e) = {} /\ AppliedTo(e) = {}
    BY <2>1 DEF Init, AppliedTo, Taken, PutBack
  <2>3. QED
    BY <2>1, <2>2, FS_EmptySet DEF Init
<1>2. TypeOK /\ Unanswered /\ SeatsInv /\ [Next]_vars => SeatsInv'
  <2> SUFFICES ASSUME TypeOK, Unanswered, SeatsInv, [Next]_vars PROVE SeatsInv'
    OBVIOUS
  <2>1. ASSUME available' = available, applied' = applied,
               \A e \in Events : \/ listing'[e] = listing[e]
                                 \/ (listing[e] # "absent" /\ listing'[e] # "absent")
        PROVE  SeatsInv'
    <3>1. \A e \in Events : /\ AppliedTo(e)' = AppliedTo(e)
                             /\ Taken(e)' = Taken(e) /\ PutBack(e)' = PutBack(e)
      BY <2>1 DEF AppliedTo, Taken, PutBack
    <3>2. QED
      BY <2>1, <3>1 DEF SeatsInv, SeatsAddUp
  <2>2. ASSUME NEW h \in Handlers, Update(h) PROVE SeatsInv'
    <3>1. CASE Matches(h) /\ Change(h)
      BY <2>2, <3>1, ChangeAddsUp DEF Update
    <3>2. CASE UNCHANGED <<tableVars, applied>>
      BY <3>2, <2>1 DEF tableVars
    <3>3. QED
      BY <2>2, <3>1, <3>2 DEF Update
  <2>3. ASSUME NEW h \in Handlers, ReadBack(h) PROVE SeatsInv'
    BY <2>3, <2>1 DEF ReadBack, tableVars
  <2>4. ASSUME NEW e \in Events, CreateEvent(e) PROVE SeatsInv'
    BY <2>4, CreationAddsUp
  <2>5. ASSUME NEW e \in Events, DeleteEvent(e) PROVE SeatsInv'
    BY <2>5, <2>1 DEF DeleteEvent, Inventory!DeleteEvent, TypeOK
  <2>6. CASE UNCHANGED vars
    BY <2>6, <2>1 DEF vars, tableVars
  <2>7. QED
    BY <2>2, <2>3, <2>4, <2>5, <2>6 DEF Next
<1>3. SeatsInv => SeatsAddUp
  BY DEF SeatsInv
<1>4. QED
  BY <1>1, <1>2, <1>3, InventoryTypeCorrect, NothingBeforeAnswer, PTL DEF Spec

-------------------------------------------------------------------------------
outcomes == [h \in Handlers |-> OutcomeOf(h)]

(* A step that leaves the other handlers alone settles at most the outcome  *)
(* of its own.                                                              *)
LEMMA OneOutcomeChanges ==
    ASSUME NEW h \in Handlers, TypeOK,
           applied' = applied \/ applied' = applied \cup {h},
           \A g \in Handlers \ {h} : stage'[g] = stage[g] /\ reply'[g] = reply[g]
    PROVE  outcomes' = [outcomes EXCEPT ![h] = OutcomeOf(h)']
BY DEF outcomes, OutcomeOf

(* Every step is one of the ledger, with the outcomes read off the state.   *)
LEMMA StepIsOfLedger ==
    ASSUME TypeOK, Unanswered, [Next]_vars
    PROVE  [Ledger!LedgerNext]_<<listing, available, outcomes>>
<1> USE InventoryAssumption DEF TypeOK
<1>1. ASSUME NEW h \in Handlers, Update(h)
      PROVE  Ledger!LedgerNext \/ UNCHANGED <<listing, available, outcomes>>
  <2>1. outcomes[h] = "open"
    BY <1>1 DEF Update, outcomes, OutcomeOf, Unanswered
  <2>2. ASSUME Matches(h), Change(h), Reply(h, "ok") \/ Reply(h, "internal_error")
        PROVE  Ledger!Apply(h)
    <3>1. outcomes' = [outcomes EXCEPT ![h] = "applied"]
      <4>1. OutcomeOf(h)' = "applied"
        BY <2>2 DEF OutcomeOf, Change
      <4>2. QED
        BY <2>2, <4>1, OneOutcomeChanges DEF Change, Reply
    <3>2. Ledger!Inventory!AdjustSeats(EventOf[h], DeltaOf[h], "ok")
      BY <2>2 DEF Matches, Change, Ledger!Inventory!AdjustSeats
    <3>3. QED
      BY <2>1, <3>1, <3>2 DEF Ledger!Apply, Ledger!Settle, outcomes
  <2>3. ASSUME ~Matches(h), stage' = [stage EXCEPT ![h] = "readBack"],
               UNCHANGED <<tableVars, reply, applied>>
        PROVE  Ledger!Refuse(h)
    <3>1. outcomes' = [outcomes EXCEPT ![h] = "refused"]
      <4>1. OutcomeOf(h)' = "refused"
        BY <1>1, <2>3 DEF OutcomeOf, Update, Unanswered
      <4>2. QED
        BY <2>3, <4>1, OneOutcomeChanges
    <3>2. \E code \in {"event_not_found", "insufficient_seats", "release_exceeds_capacity"} :
              Ledger!Inventory!AdjustSeats(EventOf[h], DeltaOf[h], code)
      BY <2>3 DEF Matches, tableVars, Ledger!Inventory!AdjustSeats, Ledger!Inventory!inventoryVars
    <3>3. QED
      BY <2>1, <3>1, <3>2 DEF Ledger!Refuse, Ledger!Settle, outcomes
  <2>4. ASSUME Reply(h, "internal_error"), UNCHANGED <<tableVars, applied>>
        PROVE  Ledger!Unheard(h)
    <3>1. outcomes' = [outcomes EXCEPT ![h] = "unheard"]
      <4>1. OutcomeOf(h)' = "unheard"
        BY <1>1, <2>4 DEF OutcomeOf, Update, Unanswered, Reply
      <4>2. QED
        BY <2>4, <4>1, OneOutcomeChanges DEF Reply
    <3>2. QED
      BY <2>1, <2>4, <3>1 DEF Ledger!Unheard, Ledger!Settle, outcomes, tableVars
  <2>5. QED
    BY <1>1, <2>2, <2>3, <2>4 DEF Update, Ledger!LedgerNext
<1>2. ASSUME NEW h \in Handlers, ReadBack(h)
      PROVE  Ledger!LedgerNext \/ UNCHANGED <<listing, available, outcomes>>
  <2>1. outcomes[h] = "refused"
    BY <1>2 DEF ReadBack, outcomes, OutcomeOf, Unanswered
  <2>2. OutcomeOf(h)' \in {"refused", "unheard"}
    BY <1>2 DEF ReadBack, Reply, OutcomeOf, Unanswered, tableVars
  <2>3. outcomes' = [outcomes EXCEPT ![h] = OutcomeOf(h)']
    BY <1>2, OneOutcomeChanges DEF ReadBack, Reply
  <2>4. CASE OutcomeOf(h)' = "refused"
    <3>1. outcomes' = outcomes
      BY <2>1, <2>3, <2>4 DEF outcomes
    <3>2. QED
      BY <1>2, <3>1 DEF ReadBack, tableVars
  <2>5. CASE OutcomeOf(h)' = "unheard"
    <3>1. Ledger!Unheard(h)
      BY <1>2, <2>1, <2>3, <2>5 DEF Ledger!Unheard, Ledger!Settle, ReadBack, tableVars, outcomes
    <3>2. QED
      BY <3>1 DEF Ledger!LedgerNext
  <2>6. QED
    BY <2>2, <2>4, <2>5
<1>3. ASSUME NEW e \in Events, CreateEvent(e) \/ DeleteEvent(e)
      PROVE  Ledger!LedgerNext
  <2>1. outcomes' = outcomes
    BY <1>3 DEF CreateEvent, DeleteEvent, outcomes, OutcomeOf
  <2>2. Ledger!Catalogue(e)
    BY <1>3, <2>1 DEF CreateEvent, DeleteEvent, Ledger!Catalogue, outcomes,
       Inventory!CreateEvent, Inventory!DeleteEvent,
       Ledger!Inventory!CreateEvent, Ledger!Inventory!DeleteEvent
  <2>3. QED
    BY <2>2 DEF Ledger!LedgerNext
<1>4. CASE UNCHANGED vars
  BY <1>4 DEF vars, tableVars, outcomes, OutcomeOf
<1>5. QED
  BY <1>1, <1>2, <1>3, <1>4 DEF Next

(* The handlers keep the promise of SeatLedger: however their statements    *)
(* interleave, each adjustment takes effect at one moment, within the       *)
(* bounds, or is refused because there was a moment it did not fit.         *)
THEOREM LedgerIsKept == Spec => KeepsLedger
<1>1. Init => Ledger!LedgerInit
  BY DEF Init, Ledger!LedgerInit, OutcomeOf
<1>2. TypeOK /\ Unanswered /\ [Next]_vars => [Ledger!LedgerNext]_Ledger!ledgerVars
  BY StepIsOfLedger DEF Ledger!ledgerVars, outcomes
<1>3. QED
  BY <1>1, <1>2, InventoryTypeCorrect, NothingBeforeAnswer, PTL
     DEF Spec, KeepsLedger, Ledger!LedgerSpec
================================================================================
