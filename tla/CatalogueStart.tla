---------------------------- MODULE CatalogueStart ----------------------------
(***************************************************************************)
(* How the replicas of event-service start on one database: connect with   *)
(* retries, apply the schema, count the events and, if there are none,     *)
(* insert the demo catalogue row by row, each INSERT on its own.  A        *)
(* replica that gives up exits, and the kubelet starts it again.  The ones *)
(* that serve already let the promoters post events and delete any.        *)
(***************************************************************************)
EXTENDS Integers

CONSTANTS
    Replicas,
    CatalogueSize,      \* length of seedEvents()
    Attempts,           \* DB_CONNECT_ATTEMPTS
    MaxTroubles,        \* bound: how many statements fail and pods die
    MaxPosted,          \* bound: how many posted events there are at once
    MaxDeletions        \* bound: how many events are deleted

ASSUME StartAssumption ==
    /\ CatalogueSize \in Nat \ {0}
    /\ Attempts \in Nat \ {0}
    /\ MaxTroubles \in Nat
    /\ MaxPosted \in Nat
    /\ MaxDeletions \in Nat

VARIABLES
    postgres,
    schema,
    rows,               \* rows[r][i]: copies there of the i-th event as r seeds it
    posted,             \* how many of the events there were posted
    phase,
    attempt,            \* attempt[r]: of the connect loop
    next,               \* next[r]: the event r inserts next
    troubles, deletions

database == <<postgres, schema, rows, posted>>
vars == <<database, phase, attempt, next, troubles, deletions>>

Slots == 1..CatalogueSize

StartTypeOK ==
    /\ postgres \in {"starting", "up"}
    /\ schema \in {"absent", "applied"}
    /\ rows \in [Replicas -> [Slots -> Nat]]
    /\ posted \in 0..MaxPosted
    /\ phase \in [Replicas -> {"connect", "schema", "count", "seed", "serve", "exited"}]
    /\ attempt \in [Replicas -> 1..Attempts]
    /\ next \in [Replicas -> Slots]
    /\ troubles \in 0..MaxTroubles
    /\ deletions \in 0..MaxDeletions

Init ==
    /\ postgres = "starting"
    /\ schema = "absent"
    /\ rows = [r \in Replicas |-> [i \in Slots |-> 0]]
    /\ posted = 0
    /\ phase = [r \in Replicas |-> "connect"]
    /\ attempt = [r \in Replicas |-> 1]
    /\ next = [r \in Replicas |-> 1]
    /\ troubles = 0
    /\ deletions = 0

Goto(r, where) == phase' = [phase EXCEPT ![r] = where]

Trouble ==
    /\ troubles < MaxTroubles
    /\ troubles' = troubles + 1

-------------------------------------------------------------------------------
(* External: PostgreSQL finishes initialising.                              *)
DatabaseComesUp ==
    /\ postgres = "starting"
    /\ postgres' = "up"
    /\ UNCHANGED <<schema, rows, posted, phase, attempt, next, troubles, deletions>>

Connect(r) ==
    /\ phase[r] = "connect"
    /\ postgres = "up"
    /\ Goto(r, "schema")
    /\ UNCHANGED <<database, attempt, next, troubles, deletions>>

(* Variant: one attempt too many.                                           *)
ConnectFailsAtLast(r) ==
    /\ phase[r] = "connect"
    /\ postgres = "starting"
    /\ IF attempt[r] <= Attempts
       THEN attempt' = [attempt EXCEPT ![r] = @ + 1] /\ UNCHANGED phase
       ELSE Goto(r, "exited") /\ UNCHANGED attempt
    /\ UNCHANGED <<database, next, troubles, deletions>>

(* The dial or the ping fails: after the last attempt the process exits.    *)
ConnectFails(r) ==
    /\ phase[r] = "connect"
    /\ \/ postgres = "starting" /\ UNCHANGED troubles
       \/ postgres = "up" /\ Trouble
    /\ \/ /\ attempt[r] < Attempts
          /\ attempt' = [attempt EXCEPT ![r] = @ + 1]
          /\ UNCHANGED phase
       \/ /\ attempt[r] = Attempts
          /\ Goto(r, "exited")
          /\ UNCHANGED attempt
    /\ UNCHANGED <<database, next, deletions>>

(* Variant: CREATE TABLE without IF NOT EXISTS.                             *)
ApplySchemaOnce(r) ==
    /\ phase[r] = "schema"
    /\ schema' = "applied"
    /\ Goto(r, IF schema = "applied" THEN "exited" ELSE "count")
    /\ UNCHANGED <<postgres, rows, posted, attempt, next, troubles, deletions>>

ApplySchema(r) ==
    /\ phase[r] = "schema"
    /\ schema' = "applied"
    /\ Goto(r, "count")
    /\ UNCHANGED <<postgres, rows, posted, attempt, next, troubles, deletions>>

(* Variant: a catalogue that was cut off is seeded afresh.                  *)
CatalogueIncomplete ==
    \E i \in Slots : \A r \in Replicas : rows[r][i] = 0

(* The count sees every event, whoever inserted it.                         *)
CatalogueEmpty ==
    /\ posted = 0
    /\ \A r \in Replicas, i \in Slots : rows[r][i] = 0

Count(r) ==
    /\ phase[r] = "count"
    /\ Goto(r, IF CatalogueEmpty THEN "seed" ELSE "serve")
    /\ UNCHANGED <<database, attempt, next, troubles, deletions>>

Insert(r) ==
    rows' = [rows EXCEPT ![r][next[r]] = @ + 1]

(* Variant: the loop stops one event short.                                 *)
SeedAllButLast(r) ==
    /\ phase[r] = "seed"
    /\ IF next[r] < CatalogueSize
       THEN Insert(r) /\ next' = [next EXCEPT ![r] = @ + 1] /\ UNCHANGED phase
       ELSE Goto(r, "serve") /\ UNCHANGED <<rows, next>>
    /\ UNCHANGED <<postgres, schema, posted, attempt, troubles, deletions>>

Seed(r) ==
    /\ phase[r] = "seed"
    /\ Insert(r)
    /\ \/ /\ next[r] < CatalogueSize
          /\ next' = [next EXCEPT ![r] = @ + 1]
          /\ UNCHANGED phase
       \/ /\ next[r] = CatalogueSize
          /\ Goto(r, "serve")
          /\ UNCHANGED next
    /\ UNCHANGED <<postgres, schema, posted, attempt, troubles, deletions>>

(* A statement answers an error, whether it was committed or not, or the    *)
(* two minutes of start-up are over: the process exits.                     *)
StatementFails(r) ==
    /\ Trouble
    /\ \/ phase[r] = "schema" /\ schema' \in {schema, "applied"} /\ UNCHANGED rows
       \/ phase[r] = "count" /\ UNCHANGED <<schema, rows>>
       \/ phase[r] = "seed" /\ (Insert(r) \/ UNCHANGED rows) /\ UNCHANGED schema
    /\ Goto(r, "exited")
    /\ UNCHANGED <<postgres, posted, attempt, next, deletions>>

(* POST /api/events and DELETE /api/events/{id}, on a replica that serves.  *)
Post(r) ==
    /\ phase[r] = "serve"
    /\ posted < MaxPosted
    /\ posted' = posted + 1
    /\ UNCHANGED <<postgres, schema, rows, phase, attempt, next, troubles, deletions>>

Delete(r) ==
    /\ phase[r] = "serve"
    /\ deletions < MaxDeletions
    /\ deletions' = deletions + 1
    /\ \/ posted > 0 /\ posted' = posted - 1 /\ UNCHANGED rows
       \/ /\ \E s \in Replicas, i \in Slots :
                 rows[s][i] > 0 /\ rows' = [rows EXCEPT ![s][i] = @ - 1]
          /\ UNCHANGED posted
    /\ UNCHANGED <<postgres, schema, phase, attempt, next, troubles>>

(* External: the pod is killed by a probe, a drained node or a rollout.     *)
Die(r) ==
    /\ Trouble
    /\ phase[r] # "exited"
    /\ Goto(r, "exited")
    /\ UNCHANGED <<database, attempt, next, deletions>>

(* External: the kubelet starts the container again.                        *)
Restart(r) ==
    /\ phase[r] = "exited"
    /\ Goto(r, "connect")
    /\ attempt' = [attempt EXCEPT ![r] = 1]
    /\ next' = [next EXCEPT ![r] = 1]
    /\ UNCHANGED <<database, troubles, deletions>>

Proceed(r) == Connect(r) \/ ApplySchema(r) \/ Count(r) \/ Seed(r) \/ Restart(r)

Next ==
    \/ DatabaseComesUp
    \/ \E r \in Replicas :
        \/ Proceed(r) \/ ConnectFails(r) \/ StatementFails(r) \/ Die(r)
        \/ Post(r) \/ Delete(r)

Spec == Init /\ [][Next]_vars

(* The database comes up some time, and a process that can go on does.      *)
FairSpec ==
    /\ Spec
    /\ WF_vars(DatabaseComesUp)
    /\ \A r \in Replicas : WF_vars(Proceed(r))

-------------------------------------------------------------------------------
(* What a replica seeded is there at most once, however many lives it has:  *)
(* one that was cut off while seeding is not followed by one that seeds     *)
(* again, unless every event has been deleted in between (main.go,          *)
(* openStore).                                                              *)
SeedsAtMostOnce ==
    \A r \in Replicas, i \in Slots : rows[r][i] <= 1

(* As long as nothing failed and no event was deleted, the catalogue that   *)
(* is there when nobody is seeding consists of whole copies (main.go,       *)
(* seed).                                                                   *)
WholeCopies ==
    (troubles = 0 /\ deletions = 0 /\ \A r \in Replicas : phase[r] # "seed") =>
        \A r \in Replicas, i, j \in Slots : rows[r][i] = rows[r][j]

(* However the replicas start and fail, all of them serve in the end: the   *)
(* start-up is idempotent, which store_postgres.go says the replicas need.  *)
AllServe == <>[](\A r \in Replicas : phase[r] = "serve")
===============================================================================
