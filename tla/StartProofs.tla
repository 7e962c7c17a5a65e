------------------------------ MODULE StartProofs ------------------------------
(***************************************************************************)
(* Proofs about CatalogueStart, for any number of replicas, any catalogue, *)
(* and any number of failures, posts and deletions. That a replica seeds   *)
(* at most once is not inductive: it needs that a replica which is seeding *)
(* has not inserted yet what comes next, in this life or an earlier one.   *)
(* That copies are whole needs how far each replica has come with its own. *)
(***************************************************************************)
EXTENDS CatalogueStart, TLAPS

(* The positions of the catalogue: the first, and the one after another.    *)
LEMMA SlotFacts ==
    /\ 1 \in Slots
    /\ \A i \in Slots : i \in Nat /\ i >= i
    /\ \A i \in Slots : i < CatalogueSize => i + 1 \in Slots
BY StartAssumption DEF Slots

(* Copies up to a position, and the insert at that position.                *)
LEMMA OneFurther ==
    ASSUME NEW n \in Nat, NEW i \in Nat, NEW before, NEW after,
           before = IF i < n THEN 1 ELSE 0,
           after = IF i = n THEN before + 1 ELSE before
    PROVE  after = IF i < n + 1 THEN 1 ELSE 0
  BY SMT

(* What one INSERT does to the table.                                       *)
LEMMA InsertsOne ==
    ASSUME StartTypeOK, NEW r \in Replicas, Insert(r)
    PROVE  /\ rows' \in [Replicas -> [Slots -> Nat]]
           /\ \A s \in Replicas, i \in Slots :
                  rows'[s][i] = IF s = r /\ i = next[r] THEN rows[s][i] + 1 ELSE rows[s][i]
<1> DEFINE row == [rows[r] EXCEPT ![next[r]] = @ + 1]
<1>1. rows' = [rows EXCEPT ![r] = row]
  BY DEF Insert
<1>2. row \in [Slots -> Nat]
  BY DEF StartTypeOK
<1>3. \A i \in Slots : row[i] = IF i = next[r] THEN rows[r][i] + 1 ELSE rows[r][i]
  BY DEF StartTypeOK
<1> HIDE DEF row
<1>4. QED
  BY <1>1, <1>2, <1>3 DEF StartTypeOK

(* What one DELETE does to the table.                                       *)
LEMMA DeletesOne ==
    ASSUME StartTypeOK, NEW r \in Replicas, Delete(r)
    PROVE  /\ rows' \in [Replicas -> [Slots -> Nat]]
           /\ posted' \in 0..MaxPosted
           /\ \A s \in Replicas, i \in Slots : rows'[s][i] <= rows[s][i]
<1>1. CASE UNCHANGED rows /\ posted > 0 /\ posted' = posted - 1
  <2>1. \A s \in Replicas, i \in Slots : rows[s][i] \in Nat
    BY DEF StartTypeOK
  <2>2. posted' \in 0..MaxPosted
    BY <1>1, StartAssumption DEF StartTypeOK
  <2>3. QED
    BY <1>1, <2>1, <2>2 DEF StartTypeOK
<1>2. ASSUME UNCHANGED posted, NEW q \in Replicas, NEW j \in Slots, rows[q][j] > 0,
             rows' = [rows EXCEPT ![q][j] = @ - 1]
      PROVE  /\ rows' \in [Replicas -> [Slots -> Nat]]
             /\ posted' \in 0..MaxPosted
             /\ \A s \in Replicas, i \in Slots : rows'[s][i] <= rows[s][i]
  <2> DEFINE row == [rows[q] EXCEPT ![j] = @ - 1]
  <2>1. rows' = [rows EXCEPT ![q] = row]
    BY <1>2
  <2>2. row \in [Slots -> Nat] /\ \A i \in Slots : row[i] <= rows[q][i]
    BY <1>2 DEF StartTypeOK
  <2>3. \A s \in Replicas, i \in Slots : rows[s][i] \in Nat
    BY DEF StartTypeOK
  <2> HIDE DEF row
  <2>4. QED
    BY <1>2, <2>1, <2>2, <2>3 DEF StartTypeOK
<1>3. QED
  BY <1>1, <1>2 DEF Delete

(* Type correctness of the start-up; attempts and positions keep to their   *)
(* ranges.                                                                  *)
THEOREM StartTypeCorrect == Spec => []StartTypeOK
<1> USE StartAssumption DEF StartTypeOK
<1>1. Init => StartTypeOK
  <2> SUFFICES ASSUME Init PROVE StartTypeOK
    OBVIOUS
  <2>1. rows \in [Replicas -> [Slots -> Nat]]
    BY DEF Init
  <2>2. attempt \in [Replicas -> 1..Attempts] /\ next \in [Replicas -> Slots]
    BY SlotFacts DEF Init
  <2>3. QED
    BY <2>1, <2>2 DEF Init
<1>2. StartTypeOK /\ [Next]_vars => StartTypeOK'
  <2> SUFFICES ASSUME StartTypeOK, [Next]_vars PROVE StartTypeOK'
    OBVIOUS
  <2> USE DEF Goto, Trouble, database
  <2>1. CASE DatabaseComesUp
    BY <2>1 DEF DatabaseComesUp
  <2>2. ASSUME NEW r \in Replicas, Connect(r) PROVE StartTypeOK'
    BY <2>2 DEF Connect
  <2>3. ASSUME NEW r \in Replicas, ApplySchema(r) PROVE StartTypeOK'
    BY <2>3 DEF ApplySchema
  <2>4. ASSUME NEW r \in Replicas, Count(r) PROVE StartTypeOK'
    BY <2>4 DEF Count
  <2>5. ASSUME NEW r \in Replicas, Seed(r) PROVE StartTypeOK'
    <3>1. rows' \in [Replicas -> [Slots -> Nat]]
      BY <2>5, InsertsOne DEF Seed
    <3>2. next' \in [Replicas -> Slots]
      <4>1. next[r] < CatalogueSize => next[r] + 1 \in Slots
        BY SlotFacts
      <4>2. CASE next' = [next EXCEPT ![r] = @ + 1] /\ next[r] < CatalogueSize
        BY <4>1, <4>2
      <4>3. CASE next' = next
        BY <4>3
      <4>4. QED
        BY <2>5, <4>2, <4>3 DEF Seed
    <3>3. QED
      BY <2>5, <3>1, <3>2 DEF Seed
  <2>6. ASSUME NEW r \in Replicas, Restart(r) PROVE StartTypeOK'
    BY <2>6, SlotFacts DEF Restart
  <2>7. ASSUME NEW r \in Replicas, ConnectFails(r) PROVE StartTypeOK'
    <3>1. attempt' \in [Replicas -> 1..Attempts]
      BY <2>7 DEF ConnectFails
    <3>2. phase' \in [Replicas -> {"connect", "schema", "count", "seed", "serve", "exited"}]
      BY <2>7 DEF ConnectFails
    <3>3. QED
      BY <2>7, <3>1, <3>2 DEF ConnectFails
  <2>8. ASSUME NEW r \in Replicas, StatementFails(r) PROVE StartTypeOK'
    <3>1. rows' \in [Replicas -> [Slots -> Nat]]
      BY <2>8, InsertsOne DEF StatementFails
    <3>2. troubles' \in 0..MaxTroubles
      BY <2>8 DEF StatementFails
    <3>3. QED
      BY <2>8, <3>1, <3>2 DEF StatementFails
  <2>9. ASSUME NEW r \in Replicas, Die(r) PROVE StartTypeOK'
    BY <2>9 DEF Die
  <2>10. ASSUME NEW r \in Replicas, Post(r) PROVE StartTypeOK'
    BY <2>10 DEF Post
  <2>11. ASSUME NEW r \in Replicas, Delete(r) PROVE StartTypeOK'
    <3>1. rows' \in [Replicas -> [Slots -> Nat]] /\ posted' \in 0..MaxPosted
      BY <2>11, DeletesOne
    <3>2. deletions' \in 0..MaxDeletions
      BY <2>11 DEF Delete
    <3>3. QED
      BY <2>11, <3>1, <3>2 DEF Delete
  <2>12. CASE UNCHANGED vars
    BY <2>12 DEF vars
  <2>13. QED
    BY <2>1, <2>2, <2>3, <2>4, <2>5, <2>6, <2>7, <2>8, <2>9, <2>10, <2>11, <2>12 DEF Next, Proceed
<1>3. QED
  BY <1>1, <1>2, PTL DEF Spec

-------------------------------------------------------------------------------
(* What a seeding replica is still to insert, it has never inserted.        *)
NothingAhead ==
    \A r \in Replicas : phase[r] = "seed" =>
        \A i \in Slots : i >= next[r] => rows[r][i] = 0

SeedInv == SeedsAtMostOnce /\ NothingAhead

(* A step that inserts nothing and starts no seeding keeps SeedInv.         *)
LEMMA NoInsertKeeps ==
    ASSUME SeedInv, UNCHANGED <<rows, next>>,
           \A r \in Replicas : phase'[r] = "seed" => phase[r] = "seed"
    PROVE  SeedInv'
BY DEF SeedInv, SeedsAtMostOnce, NothingAhead

(* What a replica seeded is there at most once, however often it is killed  *)
(* and started again while it seeds, and whatever is posted and deleted     *)
(* meanwhile (main.go, openStore).                                          *)
THEOREM SeedingIsNotRepeated == Spec => []SeedsAtMostOnce
<1>1. Init => SeedInv
  BY DEF Init, SeedInv, SeedsAtMostOnce, NothingAhead
<1>2. StartTypeOK /\ SeedInv /\ [Next]_vars => SeedInv'
  <2> SUFFICES ASSUME StartTypeOK, SeedInv, [Next]_vars PROVE SeedInv'
    OBVIOUS
  <2> USE DEF StartTypeOK, Goto, database
  <2>1. CASE DatabaseComesUp
    BY <2>1, NoInsertKeeps DEF DatabaseComesUp
  <2>2. ASSUME NEW r \in Replicas, Connect(r) PROVE SeedInv'
    BY <2>2, NoInsertKeeps DEF Connect
  <2>3. ASSUME NEW r \in Replicas, ApplySchema(r) PROVE SeedInv'
    BY <2>3, NoInsertKeeps DEF ApplySchema
  <2>4. ASSUME NEW r \in Replicas, Count(r) PROVE SeedInv'
    <3>1. CASE CatalogueEmpty
      BY <2>4, <3>1 DEF Count, CatalogueEmpty, SeedInv, SeedsAtMostOnce, NothingAhead
    <3>2. CASE ~CatalogueEmpty
      BY <2>4, <3>2, NoInsertKeeps DEF Count
    <3>3. QED
      BY <3>1, <3>2
  <2>5. ASSUME NEW r \in Replicas, phase[r] = "seed", Insert(r)
        PROVE  /\ SeedsAtMostOnce'
               /\ \A s \in Replicas, i \in Slots :
                      (s # r \/ i # next[r]) => rows'[s][i] = rows[s][i]
    <3>1. rows[r][next[r]] = 0
      <4>1. next[r] \in Slots
        OBVIOUS
      <4>2. QED
        BY <2>5, <4>1, SlotFacts DEF SeedInv, NothingAhead
    <3>2. \A s \in Replicas, i \in Slots :
              rows'[s][i] = IF s = r /\ i = next[r] THEN rows[s][i] + 1 ELSE rows[s][i]
      BY <2>5, InsertsOne
    <3>3. QED
      BY <3>1, <3>2 DEF SeedInv, SeedsAtMostOnce
  <2>6. ASSUME NEW r \in Replicas, Seed(r) PROVE SeedInv'
    <3>1. SeedsAtMostOnce'
      BY <2>5, <2>6 DEF Seed
    <3>2. NothingAhead'
      <4> SUFFICES ASSUME NEW s \in Replicas, phase'[s] = "seed",
                          NEW i \in Slots, i >= next'[s]
                   PROVE  rows'[s][i] = 0
        BY DEF NothingAhead
      <4>1. next[r] \in Nat /\ i \in Nat /\ phase[s] = "seed"
        BY <2>6, SlotFacts DEF Seed
      <4>2. CASE s = r
        <5>1. next'[r] = next[r] + 1
          BY <2>6, <4>2 DEF Seed
        <5>2. i >= next[r] /\ i # next[r]
          BY <4>1, <4>2, <5>1
        <5>3. QED
          BY <2>5, <2>6, <4>1, <4>2, <5>2 DEF Seed, SeedInv, NothingAhead
      <4>3. CASE s # r
        <5>1. next'[s] = next[s]
          BY <2>6, <4>3 DEF Seed
        <5>2. QED
          BY <2>5, <2>6, <4>1, <4>3, <5>1 DEF Seed, SeedInv, NothingAhead
      <4>4. QED
        BY <4>2, <4>3
    <3>3. QED
      BY <3>1, <3>2 DEF SeedInv
  <2>7. ASSUME NEW r \in Replicas, Restart(r) PROVE SeedInv'
    BY <2>7 DEF Restart, SeedInv, SeedsAtMostOnce, NothingAhead
  <2>8. ASSUME NEW r \in Replicas, ConnectFails(r) PROVE SeedInv'
    BY <2>8, NoInsertKeeps DEF ConnectFails
  <2>9. ASSUME NEW r \in Replicas, StatementFails(r) PROVE SeedInv'
    <3>1. CASE phase[r] = "seed" /\ Insert(r)
      <4>1. SeedsAtMostOnce'
        BY <2>5, <3>1
      <4>2. NothingAhead'
        <5> SUFFICES ASSUME NEW s \in Replicas, phase'[s] = "seed",
                            NEW i \in Slots, i >= next'[s]
                     PROVE  rows'[s][i] = 0
          BY DEF NothingAhead
        <5>1. s # r /\ phase[s] = "seed" /\ next'[s] = next[s]
          BY <2>9 DEF StatementFails
        <5>2. rows[s][i] = 0
          BY <5>1 DEF SeedInv, NothingAhead
        <5>3. QED
          BY <2>5, <3>1, <5>1, <5>2
      <4>3. QED
        BY <4>1, <4>2 DEF SeedInv
    <3>2. CASE UNCHANGED rows
      BY <2>9, <3>2, NoInsertKeeps DEF StatementFails
    <3>3. QED
      BY <2>9, <3>1, <3>2 DEF StatementFails
  <2>10. ASSUME NEW r \in Replicas, Die(r) PROVE SeedInv'
    BY <2>10, NoInsertKeeps DEF Die
  <2>11. ASSUME NEW r \in Replicas, Post(r) PROVE SeedInv'
    BY <2>11, NoInsertKeeps DEF Post
  <2>12. ASSUME NEW r \in Replicas, Delete(r) PROVE SeedInv'
    <3>1. \A s \in Replicas, i \in Slots :
              rows'[s][i] \in Nat /\ rows[s][i] \in Nat /\ rows'[s][i] <= rows[s][i]
      BY <2>12, DeletesOne
    <3>2. phase' = phase /\ next' = next
      BY <2>12 DEF Delete
    <3>3. SeedsAtMostOnce'
      BY <3>1 DEF SeedInv, SeedsAtMostOnce
    <3>4. NothingAhead'
      BY <3>1, <3>2 DEF SeedInv, NothingAhead
    <3>5. QED
      BY <3>3, <3>4 DEF SeedInv
  <2>13. CASE UNCHANGED vars
    BY <2>13, NoInsertKeeps DEF vars
  <2>14. QED
    BY <2>1, <2>2, <2>3, <2>4, <2>6, <2>7, <2>8, <2>9, <2>10, <2>11, <2>12, <2>13 DEF Next, Proceed
<1>3. QED
  BY <1>1, <1>2, StartTypeCorrect, PTL DEF Spec, SeedInv

-------------------------------------------------------------------------------
(* What a replica has inserted, as long as nothing failed and no event was  *)
(* deleted: nothing before it seeds, then the catalogue up to its position, *)
(* in the end all or none.                                                  *)
CopyOf(r) ==
    /\ phase[r] \in {"connect", "schema", "count", "exited"} =>
           next[r] = 1 /\ \A i \in Slots : rows[r][i] = 0
    /\ phase[r] = "seed" =>
           \A i \in Slots : rows[r][i] = IF i < next[r] THEN 1 ELSE 0
    /\ phase[r] = "serve" => \A i, j \in Slots : rows[r][i] = rows[r][j]

Smooth == troubles = 0 /\ deletions = 0

CopiesInv == Smooth => \A r \in Replicas : CopyOf(r)

(* A step of r that fails and deletes nothing leaves the other replicas     *)
(* alone.                                                                   *)
LEMMA OneReplicaSteps ==
    ASSUME CopiesInv, Smooth' => Smooth, NEW r \in Replicas,
           \A s \in Replicas \ {r} :
               phase'[s] = phase[s] /\ next'[s] = next[s] /\ rows'[s] = rows[s],
           Smooth => CopyOf(r)'
    PROVE  CopiesInv'
<1> SUFFICES ASSUME Smooth, NEW s \in Replicas PROVE CopyOf(s)'
  BY DEF CopiesInv
<1>1. CASE s = r
  BY <1>1
<1>2. CASE s # r
  BY <1>2 DEF CopiesInv, CopyOf
<1>3. QED
  BY <1>1, <1>2

(* Without failures and deletions the catalogue comes in whole copies,      *)
(* however many replicas found the table empty at the same time (main.go,   *)
(* seed).                                                                   *)
THEOREM CopiesAreWhole == Spec => []WholeCopies
<1>1. Init => CopiesInv
  <2> SUFFICES ASSUME Init, NEW r \in Replicas PROVE CopyOf(r)
    BY DEF CopiesInv
  <2>1. next[r] = 1 /\ phase[r] = "connect"
    BY DEF Init
  <2>2. \A i \in Slots : rows[r][i] = 0
    BY DEF Init
  <2>3. QED
    BY <2>1, <2>2 DEF CopyOf
<1>2. StartTypeOK /\ CopiesInv /\ [Next]_vars => CopiesInv'
  <2> SUFFICES ASSUME StartTypeOK, CopiesInv, [Next]_vars PROVE CopiesInv'
    OBVIOUS
  <2> USE DEF StartTypeOK, Goto, database
  <2>1. CASE DatabaseComesUp
    BY <2>1 DEF DatabaseComesUp, CopiesInv, CopyOf, Smooth
  <2>2. ASSUME NEW r \in Replicas, Connect(r) PROVE CopiesInv'
    <3>1. Smooth => CopyOf(r)'
      BY <2>2 DEF Connect, CopiesInv, CopyOf
    <3>2. QED
      BY <2>2, <3>1, OneReplicaSteps DEF Connect, Smooth
  <2>3. ASSUME NEW r \in Replicas, ApplySchema(r) PROVE CopiesInv'
    <3>1. Smooth => CopyOf(r)'
      BY <2>3 DEF ApplySchema, CopiesInv, CopyOf
    <3>2. QED
      BY <2>3, <3>1, OneReplicaSteps DEF ApplySchema, Smooth
  <2>4. ASSUME NEW r \in Replicas, Count(r) PROVE CopiesInv'
    <3>1. Smooth => CopyOf(r)'
      <4> SUFFICES ASSUME Smooth PROVE CopyOf(r)'
        OBVIOUS
      <4>1. next'[r] = 1 /\ \A i \in Slots : rows'[r][i] = 0
        BY <2>4 DEF Count, CopiesInv, CopyOf
      <4>2. phase'[r] \in {"seed", "serve"}
        BY <2>4 DEF Count
      <4>3. \A i \in Slots : ~(i < 1)
        BY DEF Slots
      <4>4. QED
        BY <4>1, <4>2, <4>3 DEF CopyOf
    <3>2. QED
      BY <2>4, <3>1, OneReplicaSteps DEF Count, Smooth
  <2>5. ASSUME NEW r \in Replicas, Seed(r) PROVE CopiesInv'
    <3>1. \A s \in Replicas, i \in Slots :
              rows'[s][i] = IF s = r /\ i = next[r] THEN rows[s][i] + 1 ELSE rows[s][i]
      BY <2>5, InsertsOne DEF Seed
    <3>2. Smooth => CopyOf(r)'
      <4> SUFFICES ASSUME Smooth PROVE CopyOf(r)'
        OBVIOUS
      <4>1. \A i \in Slots : rows[r][i] = IF i < next[r] THEN 1 ELSE 0
        BY <2>5 DEF Seed, CopiesInv, CopyOf
      <4>2. \A i \in Slots : rows'[r][i] = IF i < next[r] + 1 THEN 1 ELSE 0
        <5>1. next[r] \in Nat
          BY DEF StartTypeOK, Slots
        <5>2. \A i \in Slots : i \in Nat
          BY SlotFacts
        <5>3. ASSUME NEW i \in Slots
              PROVE  rows'[r][i] = IF i < next[r] + 1 THEN 1 ELSE 0
          <6>1. rows'[r][i] = IF i = next[r] THEN rows[r][i] + 1 ELSE rows[r][i]
            BY <3>1
          <6>2. rows[r][i] = IF i < next[r] THEN 1 ELSE 0
            BY <4>1
          <6>3. i \in Nat /\ next[r] \in Nat
            BY <5>1, <5>2
          <6> HIDE DEF StartTypeOK
          <6>4. QED
            BY <6>1, <6>2, <6>3, OneFurther
        <5>4. QED
          BY <5>3
      <4>3. CASE next[r] < CatalogueSize /\ phase' = phase
        <5>1. phase'[r] = "seed" /\ next'[r] = next[r] + 1
          BY <2>5, <4>3 DEF Seed
        <5>2. QED
          BY <4>2, <5>1 DEF CopyOf
      <4>4. CASE next[r] = CatalogueSize /\ Goto(r, "serve")
        <5>1. \A i \in Slots : i < next[r] + 1
          BY <4>4, StartAssumption DEF Slots
        <5>2. phase'[r] = "serve"
          BY <4>4
        <5>3. QED
          BY <4>2, <5>1, <5>2 DEF CopyOf
      <4>5. QED
        BY <2>5, <4>3, <4>4 DEF Seed
    <3>3. QED
      BY <2>5, <3>2, OneReplicaSteps DEF Seed, Insert, Smooth
  <2>6. ASSUME NEW r \in Replicas, Restart(r) PROVE CopiesInv'
    <3>1. Smooth => CopyOf(r)'
      BY <2>6 DEF Restart, CopiesInv, CopyOf
    <3>2. QED
      BY <2>6, <3>1, OneReplicaSteps DEF Restart, Smooth
  <2>7. ASSUME NEW r \in Replicas, ConnectFails(r) PROVE CopiesInv'
    <3>1. CASE Trouble
      BY <3>1 DEF Trouble, CopiesInv, Smooth
    <3>2. CASE UNCHANGED troubles
      <4>1. Smooth => CopyOf(r)'
        BY <2>7, <3>2 DEF ConnectFails, CopiesInv, CopyOf
      <4>2. QED
        BY <2>7, <3>2, <4>1, OneReplicaSteps DEF ConnectFails, Smooth
    <3>3. QED
      BY <2>7, <3>1, <3>2 DEF ConnectFails
  <2>8. ASSUME NEW r \in Replicas, StatementFails(r) \/ Die(r) PROVE CopiesInv'
    BY <2>8, StartAssumption DEF StatementFails, Die, Trouble, CopiesInv, Smooth
  <2>9. ASSUME NEW r \in Replicas, Post(r) PROVE CopiesInv'
    BY <2>9 DEF Post, CopiesInv, CopyOf, Smooth
  <2>10. ASSUME NEW r \in Replicas, Delete(r) PROVE CopiesInv'
    BY <2>10, StartAssumption DEF Delete, CopiesInv, Smooth
  <2>11. CASE UNCHANGED vars
    BY <2>11 DEF vars, CopiesInv, CopyOf, Smooth
  <2>12. QED
    BY <2>1, <2>2, <2>3, <2>4, <2>5, <2>6, <2>7, <2>8, <2>9, <2>10, <2>11 DEF Next, Proceed
<1>3. StartTypeOK /\ CopiesInv => WholeCopies
  <2> SUFFICES ASSUME StartTypeOK, CopiesInv, Smooth,
                      NEW r \in Replicas, phase[r] # "seed", NEW i \in Slots, NEW j \in Slots
               PROVE  rows[r][i] = rows[r][j]
    BY DEF WholeCopies, Smooth
  <2>1. CopyOf(r) /\ phase[r] \in {"connect", "schema", "count", "exited", "serve"}
    BY DEF CopiesInv, StartTypeOK
  <2>2. QED
    BY <2>1 DEF CopyOf
<1>4. QED
  BY <1>1, <1>2, <1>3, StartTypeCorrect, PTL DEF Spec
================================================================================
