# EventHub in TLA+

EventHub sells seats for events. Five Go services share nothing but HTTP:
`frontend-service` proxies the browser, `booking-service` runs each booking as a
saga over `event-service` (seats), `payment-service` (money) and
`notification-service` (messages), and every stateful service owns a store of its
own (a map behind a mutex, or PostgreSQL). There is no distributed transaction:
what keeps seats, money and rows together is the order of the saga's steps, its
compensating actions, and a guarded update of one row. These modules model that,
check it with TLC, and prove what holds whatever fails and what holds as long as
callers learn what became of their calls.

## Inventory

| component | state | operations | what is hard |
|---|---|---|---|
| booking saga (`booking-service/saga.go`, `clients.go`, `handlers.go`) | one goroutine per request: where it is, the payment it holds, its request context | `Book`, `Cancel`, `failBooking`, `releaseSeats`, `notify` | many flows at once; every step can fail before, during or after its effect; some calls run on the request context, others on a detached one with a 10 s deadline; crashes leave no one to resume |
| booking store (`store.go`, `store_postgres.go`) | row: status, payment id | `Create`, guarded `UpdateStatus` | two cancellations race; an error may hide a commit; PostgreSQL reads the row back to explain a refusal |
| event-service inventory (`event-service`) | event row, `available_seats` | `Get`, `Create`, `Delete`, reserve, release | concurrent reservations of the last seats; releases of seats not held; deletion under running bookings |
| event-service start-up (`event-service/main.go`, `internal/db`) | the catalogue, each replica's progress | connect, apply the schema, count, insert | replicas start, fail and restart on one empty database that is itself starting |
| payment-service | payment records | charge, refund | no idempotency key: a repeated charge is a second payment; the shared random source |
| notification-service | ring of messages | send, list | eviction when full, best-effort delivery |
| httpx client (`internal/httpx/client.go`) | loop counter, last error | `Do` | repeats requests that may have been executed; a cancelled context ends the loop |
| httpx server (`server.go`, `health.go`) | `draining`, in-flight requests, kept-alive connections | drain, shutdown, readiness | SIGTERM against long sagas, kube-proxy's lag and the grace period; handlers that never return |
| httpx middleware (`middleware.go`) | the recorded status of each request | `Chain`, `AccessLog`, `Recover` | a panic before or after the header is out; the order of the layers |
| frontend-service (`proxy.go`) | kept-alive connections to each backend | forward, answer 502 | its header timeout is shorter than a slow saga; an idle connection is closed as it is reused |
| database connection (`internal/db`) | connection pool | connect with backoff | deadline against retry |
| identifiers (`internal/id`) | time and randomness | `New` | order of ids minted together |
| Deployments (`terraform/modules/k8s-app`) | ready pods, routes | rollout, readiness probe, grace period | timings set here must fit those of `server.go` |
| configuration, logging, request ids, JSON, page logic, pipelines | none that the program's behaviour over time depends on | | |

What makes each correct:

* saga: seats before row before money; a confirmed booking is backed by seats and
  a standing payment; a failed or cancelled one gives both back; at most one
  cancellation unwinds; messages are true; held seats never stay held for nobody;
* booking store: rows move only along the lifecycle of `models.go`, one call wins
  each transition, and a cancellation knows the payment it has to refund;
* inventory: availability stays between 0 and capacity, no overselling;
* payments: a payment is refunded at most once and only for a reason;
* client: a call ends, and its caller learns what happened as far as can be known;
* start-up: every replica serves in the end, no event is seeded twice by the same
  replica, and the catalogue comes in whole copies;
* notifications: the ring is bounded, agrees with its map and lists the latest;
* server: no new connection meets a closed listener, no request is cut off by a
  rollout that could have finished, the process is gone before it is killed, and
  somebody serves throughout;
* middleware and proxy: every call is answered, and no failure is logged as a
  success.

`PROJECT.json` lists every component with its status, and under `hazards` every
place in the code where one of these can go wrong in a way tests hardly reach
(booking-service has no tests at all).

## Modules

* `EventService` - the inventory as one relation per operation, with the error
  code the caller gets. `AdjustSeats` is the memory store's critical section and
  the single `UPDATE ... WHERE` of PostgreSQL.
* `PaymentService` - the payment records. Every executed charge mints a record;
  the gateway's verdict is any of `Verdicts`.
* `BookingStore` - the bookings table, with `UpdateStatus` and its guard.
* `HttpxClient` - `Client.Do`, one call at a time per caller. `Send` is an
  attempt, `Retry` the loop, `Returns` what the caller gets. A request the caller
  gave up on stays in `inFlight` and may still be executed.
* `BookingSaga` - the composition. It instantiates the four modules over its own
  variables. A *flow* is a goroutine of booking-service, either a booking
  (`POST /api/bookings`) or a cancellation. `pc[f]` is the step of `saga.go` the
  flow has reached:

  | `pc` | code |
  |---|---|
  | `getEvent`, `reserve`, `charge`, `refund`, `release`, `notify` | the call of that name in `clients.go`: the flow sends, waits, retries, and leaves by `AfterGetEvent`, ..., `AfterNotify` |
  | `create`, `confirm`, `markFailed`, `markCancelled` | a write to the bookings table: `CreateBooking`, `Confirm`, `MarkFailed`, `MarkCancelled` |
  | `done`, `crashed` | the request was answered, or its process died |

  `path[f]` says on which of the ways through `Book` and `Cancel` the flow is.
  `charged[f]` is the payment the goroutine holds in a local variable (`payment`
  in `Book`, `cancelled.PaymentID` in `Cancel`). `hungUp[f]` is the request
  context being done; `Detached(f)` tells the calls that do not run on it.
  `told`, `reserved` and `released` record what the services did for a booking.
  On the services' side a request in flight is executed (`Serve`), executed but
  answered with an error (`ServeButAnswerError`), answered 5xx without effect
  (`ServerError`), never delivered (`Refuse`), or dropped once nobody waits for it
  (`Discard`).
* `BookingPromise` - the abstract specification: per booking, a deal (open, held,
  sold, returning, closed) and a purse (unpaid, paid, refunded), and the seats
  left. It has no services, messages or retries.
* `SagaProperties` - the properties, and the refinement mapping to
  `BookingPromise`.
* `SagaInvariant` - `IInv`, the inductive invariant that holds whatever fails.
* `SagaOnce` - names for the hypotheses on faults, and the further invariants that
  hold under them; `OnceOnly` puts them together.
* `SagaTypeProofs`, `SagaProofs` - the theorems that hold whatever fails.
* `PromiseProofs` - the theorems that need definite faults, the refinement of
  `BookingPromise` among them.
* `BookingSagaMC` - the constants of the TLC instances of the saga.
* `SeatLedger` - the abstract specification of an inventory store: each adjustment
  is applied at one moment within the bounds, or refused because at one moment it
  did not fit, and its caller may fail to hear of it. It uses `EventService`'s
  operations, so it also says that the saga may take the inventory as atomic.
* `InventoryPostgres` - event-service's PostgreSQL store shared by its replicas.
  A *handler* is one reserve or release request. `Update` is the guarded UPDATE,
  `ReadBack` the SELECT that explains why it matched no row; other handlers, and
  `CreateEvent` and `DeleteEvent`, run between the two. A statement may answer an
  error whether it was committed or not. `Ledger` is the refinement mapping: a
  handler's outcome is settled by its UPDATE. `InventoryMC` gives the constants,
  `InventoryProofs` the theorems.
* `CatalogueStart` - `openStore` and `db.Connect` of event-service: `phase[r]` is
  the step replica `r` has reached, `attempt[r]` its connect loop, `next[r]` its
  position in `seedEvents`, and `rows[r][i]` counts the copies of event `i` that
  `r` inserted and that are still there. Replicas that serve let events be posted
  (`Post`) and deleted (`Delete`) meanwhile, and the count sees those, too: a
  catalogue all of whose events were deleted is seeded again at the next start.
  `StatementFails` covers a failed statement (committed or not) and
  the end of the two minutes `run` grants; `Die` and `Restart` are the kubelet.
  `StartProofs` has the theorems.
* `RowLedger` - the abstract specification of the two row stores: each guarded
  change of a booking or a payment takes effect at one moment, or is refused
  because at one moment its guard did not hold, and its caller may fail to hear of
  it. The changes are the operations of `BookingStore` and `PaymentService`, so it
  is also what allows the saga to take its tables as atomic.
* `RowPostgres` - the PostgreSQL stores of booking-service and payment-service,
  shared by their replicas. A *handler* is one call of `UpdateStatus` or `Refund`:
  `Update` is the guarded UPDATE with its RETURNING, `ReadBack` the SELECT after it
  matched no row, and `CreateBooking` and `CreatePayment` the inserts. Everything
  else runs between the statements. `Rows` is the refinement mapping; `RowMC` gives
  the constants, `RowProofs` the theorems.
* `HttpServer` - a pod that is replaced in a rolling update. `phase[Old]` is where
  `httpx.Run` is:

  | `phase` | code | left by |
  |---|---|---|
  | `serving` | blocked in the `select` | `Sigterm`: `draining.Store(true)` |
  | `draining` | `time.Sleep(DrainDelay)` | `EndDrain`: `Shutdown` closes the listener and idle connections |
  | `shutdown` | inside `Shutdown` | `ShutdownDone`, or `ForceClose` at `ShutdownDeadline` |
  | `closing` | `store.Close()` deferred in `main.go` | `Exit`, with whatever handlers are left |

  `ready` is what the kubelet's probes last found (`Ready` is the handler of
  `/ready`), `routed` where kube-proxy sends new connections. A request goes
  `unsent`, `handling`, `replying` or `unwinding` (a panic on its way to
  `AccessLog`), `logged`, `done`, or is `lost` with the process; `recorded`, `wire`
  and `log` are the status in `statusRecorder`, on the connection and in the access
  log. The client is the reverse proxy of frontend-service: it opens a connection
  (`Connect`) or takes the one it kept (`Reuse`), and gives up when no header comes
  (`GiveUp`). `clock` runs from the SIGTERM in steps of five seconds and waits for
  everything that is due. `HttpServerProofs` has the theorems.
* `NotificationRing` - the memory store of notification-service. `Send` mints an
  identifier (a millisecond and a random end), `Create` stores under the lock and
  evicts; `List` is the answer of a list request in the current state.
  `NotificationRingMC` gives the constants, `RingProofs` the theorems.

Operators called a *variant* in the comments are slips the properties must catch:
a mutated form of the definition that follows them. No specification uses them;
`PROJECT.json` ("mutants") says which property rejects which variant in which run.

### Faults

The environment's misbehaviour is budgeted: `FaultKinds` says which kinds may
happen and `MaxFaults` how many in one behaviour. The kinds are `refused`,
`error`, `lostCommit`, `timeout`, `storeError`, `hangup`, `crash`, `delete`; the
head of `BookingSaga` says what each means. Two of them split what the code
cannot tell apart: `error` and `storeError` changed nothing, `lostCommit` changed
everything and reported an error.

A `hangup` ends the request context and with it whatever runs on it. A call comes
back with an error while its request, if it was sent, stays in flight and may still
be executed. A table statement (`TableErrs`) answers an error and may or may not
have been committed: PostgreSQL may learn of the cancellation too late.
`Create`, the confirming and the cancelling `UpdateStatus` run on the request
context (`saga.go:97`, `138`, `181`), the one that marks a booking FAILED does not
(`saga.go:222`).

`CreateBooking` has a detail of its own. `Create` answers an empty `Booking` with
its error, and `Book` assigns it to the booking it holds, so that the release which
follows names no event (`NamesEvent`); event-service answers it 404.

### What is abstracted

Prices are free or not; names, currencies and message texts are dropped, except
that a message says confirmed, failed or cancelled. Backoff delays and deadlines
are replaced by the choice to time out, at the points where time can run out.
Identifiers are model values: a booking flow is named after the booking it mints,
and a payment after the charge attempt that minted it. A crash takes down one flow
at a time; several flows on one pod are several faults. Requests with an invalid
body are answered 400 by every handler before anything happens and are left out:
`SeatsOf` is in 1..10, the range both services validate.

In `HttpServer` a handler is whatever lies between its acceptance and its header:
it may take any time, hang for good or panic. Status codes are 200 and 500. One
connection is kept alive, to the pod that goes, for that is the one `Shutdown`
closes. A probe stands for one that has reached its threshold. New pods do not
fail, and one pod is replaced at a time.

## Runs

The runs of the saga are instances of `BookingSagaMC`: one show with two seats, and
up to three bookings and two cancellations. `Retries` is 2, as in `NewClient`,
unless stated.

| run | faults | what it shows |
|---|---|---|
| `saga_concurrent` | none | three bookings (two of them compete for the show, one wants a free event, which can never be paid for) and two cancellations of one booking, in every interleaving: `NoOverselling` and `SeatsExactAtRest` |
| `saga_definite` | up to 2 of `refused`, `error`, `storeError`, `delete` | `SeatsExactAtRest`, `MoneyExactAtRest`, `MessagesAreTrue`, `ConfirmedIsBacked`, the invariants `OnceOnly` behind them, and that the saga implements `BookingPromise` (`KeepsPromise`), for two bookings and a cancellation, when failures change nothing and are no more than a call retries, and the event may be deleted |
| `saga_hangup` | up to 2 `hangup` | liveness, with table writes that are given up and may have been committed: `HeldSeatsAreSettled` - seats the saga knows it holds are sold or given back, unless the row's INSERT failed, and those of a cancelled booking are given back even though the refund fails - and `PendingIsSettled` - a row leaves PENDING, unless its INSERT failed or it could not be confirmed |
| `saga_chaos` | any 2, every kind | `PaidAfterHeld`, `RecordedPaymentIsOwn`, `OneCancelUnwinds`, `RefundedOnlyWhenUnwinding`, `Lifecycle`, `SeatsConserved`, the type invariant and the inductive invariant `IInv` |
| `inventory_postgres` | any statement may answer an error | five handlers, four of which adjust an event with three seats: `TypeOK`, `SeatsAddUp`, and the store implements `SeatLedger` (`KeepsLedger`) |
| `row_postgres` | any statement may answer an error | a booking is confirmed while two customers cancel it and its payment is refunded twice, another fails while it is cancelled: `OneWinner`, `CancelKnowsPayment`, and the stores implement `RowLedger` (`KeepsRows`) |
| `http_server` | one outage of a dependency, handlers that hang or panic | one of two pods is replaced while two requests pass through the proxy: `RoutedIsListening`, `SomeoneServes`, `DisturbedLate`, `NeverKilled`, `FailuresAreLogged`, and under fairness `ExitsInTime`, `BackInService`, `EveryCallIsAnswered` |
| `start_replicas` | any 2 failed statements or killed pods | three replicas, a catalogue of two events, one event posted at a time and two deletions: `SeedsAtMostOnce`, `WholeCopies`, and `AllServe` under fairness |
| `notification_ring` | none | four notifications about two bookings in a ring of two: `FeedShowsLatest`, and in the type invariant that map and ring agree |

The bounds. Two seats and requests for two and one are enough for a reservation
that fits, one that does not, and one that fits only after a release. Three
bookings are needed for two to compete while a third's failure is in progress
(`retry_oversells` needs all three). Two cancellations are needed for a race, and
more only repeat it. Two faults reach a failure during the compensation of a
failure. `MaxFaults` is kept at most `Retries` in `saga_definite` because with more
failures than retries a release is given up and only logged (`saga.go:248`), so seats are then lost by design.

The five adjustments are -2, -3, +2, -1 and, on another event, +1: one that
exhausts the event together with another, one that fits only the full event, a
release that can come at any time, and a release that never fits. Three replicas
allow two to seed while a third counts part of a copy; a catalogue of two has a
first, a last and a middle between them, and two deletions can empty it; two troubles reach a replica killed while
it seeds and again after its restart. A ring of two with four arrivals evicts
twice, and three clock values put two notifications in one millisecond or apart.

In `row_postgres` three calls of `UpdateStatus` and two of `Refund` meet on one
booking and its payment, so that a winner, a loser and one that comes too early
exist at once, and two further calls on another booking keep the rows apart; the
tables do not limit each other, so more rows only multiply the interleavings.

`http_server` uses the values of `server.go` and booking-service's Deployment in
five-second steps: a drain of 1 (5 s), a shutdown timeout of 5 (25 s), a grace
period of 12 (60 s), and 2 for the longest statement, the 10 s of a detached
context (`saga.go:40`). kube-proxy's lag is 1, the longest the drain covers. Two
requests are enough for one that hangs while another one reuses its connection,
fails or arrives at the new pod; a third repeats one of them. The clock is bounded
by what `Run` waits for and needs no bound of its own.

Deadlock is not checked: the requests of an instance are finitely many and the
system stops when they are through.

**Fairness** (`FairSpec`, used by `saga_hangup`): weak
fairness of each flow's own steps and of the handling of each request in flight.
A goroutine runs while its process lives, `http.Client.Timeout` and the detached
contexts' deadline bound every wait, and the handlers block on nothing but their
store. No fairness is assumed of faults. `CatalogueStart` assumes that the database
comes up some time and that a replica which can go on, or can be restarted, does:
the connect loop and the kubelet's restart policy see to that. `HttpServer` assumes
weak fairness of the pods' start and probes, of kube-proxy, of `Run` with its clock
up to the exit of the process, and for each request of the proxy's timeout and of the
way from a header to the end of the response. That the process exits takes
`store.Close` to return: it waits for connections that handlers hold, and those hold
them for one statement at most. It assumes none of the handlers before their header, of the
dependency, or of the rollout: a handler may hang, an outage may last, and the pod
may never be replaced.

### Where the code falls short of what it says

Three runs expect a violation. Each checks one sentence of the repository against
what the code does; the counterexamples are short.

| run | the sentence | what happens |
|---|---|---|
| `hangup_strands_seats` | `saga.go:37-39`: a client who hangs up cannot leave seats reserved forever | the customer hangs up while the reservation is being executed; the error path of step 2 releases nothing |
| `retry_oversells` | event-service `store_test.go:91-92`: seats sold never exceed seats that exist | a release is executed twice, its first answer lost; the second gives away another booking's seats |
| `failed_but_charged` | `saga.go:237`: "You have not been charged" | the charge was authorized and its answer lost |

The models reach more that the properties above do not rule out, and that a
maintainer should know of:

* a row that cannot be inserted leaves its seats reserved for good, although `Book`
  "unwinds cleanly on any failure" (`saga.go:42`): the booking in hand is overwritten
  by the empty one that `Create` returns with its error (`saga.go:97`,
  `store_postgres.go:68-69`), so the release goes to `/api/events//release`, which is
  redirected and answered 404. `SeatsExactAtRest` counts these seats as out, and
  `hangup_strands_seats` shows a trace of it when its `FaultKinds` are `{"storeError"}`;
* the answer of a reservation is lost and `Do` sends it again, so one booking takes
  its seats twice and gives them back once (`client.go:112`);
* the refund of a cancellation runs on the request context (`saga.go:196`), and a
  customer who hangs up is told of a refund that was not made;
* a confirmation that was committed but reported an error - because its answer was
  lost, or because the customer hung up during it - is followed by a refund and a
  release, and the booking stays CONFIRMED (`saga.go:140`). Its seats can be sold to
  someone else, and when it is cancelled they are released once more;
* a cancellation that was committed but reported an error leaves the booking
  CANCELLED with its money and its seats kept for good, since another cancellation
  is refused (`saga.go:183`);
* a row that could not be confirmed or marked failed, or whose INSERT was committed
  but reported an error, stays PENDING (`saga.go:140`, `225`, `98`), although
  `models.go:10-11` says it moves on;
* a charge that was authorized and whose answer was lost is sent again, so one
  booking is paid twice, and its cancellation refunds the payment on the row only
  (`client.go:112`, `saga.go:196`);
* a reservation that matched no row may be answered `ErrTooManySeats`, which
  event-service's `store.go:19-21` calls the sign of a double release, when a
  release runs before the read-back (`store_postgres.go:170`);
* replicas that start together each find the table empty and each seed it
  (`event-service/main.go:81`), although `event-service.tf:47-48` says the catalogue
  is inserted only into an empty table;
* `SHUTDOWN_TIMEOUT` is set nowhere in `terraform/`, so a saga that is still running
  is cut off 30 s after the SIGTERM (`server.go:58-60`), although
  `booking-service.tf:101-104` grants 60 s "to finish or compensate";
* `Shutdown` closes the connections the proxy keeps alive, and a POST that was just
  being sent on one is answered 502 without being repeated: the drain covers new
  connections only. With `DRAIN_DELAY: 0s`, as in `docker-compose.yml:19`, it covers
  none;
* the proxy waits 15 s for a header (`proxy.go:51`) while each call of a saga may
  take three times 5 s: its customer is told 502 and the saga sees a hang-up, which
  is how the faults of `hangup_strands_seats` arise without anybody hanging up;
* the checks of every replica ping the same dependencies (`booking-service/main.go:61-65`),
  so an outage takes all of them out of the Service at once;
* a handler that panics after its header went out is logged as 500 while its caller
  saw 200: `Recover` writes a second header, which only `statusRecorder` takes
  (`middleware.go:58-61`, `126`). In frontend-service this includes the
  `http.ErrAbortHandler` by which `ReverseProxy` reports a response that broke off;
* a replica killed between two inserts leaves part of the catalogue, which no later
  start completes (`event-service/main.go:105`).

`saga_definite` and `saga_chaos` mark the other side of the
line: which guarantees do not need what these runs show to be missing.

## Proofs

`SagaTypeProofs` proves `Spec => []TypeOK`, and `SagaProofs` the rest, for any
events, bookings, cancellations, capacities, retries and faults that satisfy
`SagaAssumption`, the only assumption: seats per booking are 1..10, capacities are
positive, a cancellation names a booking, the two kinds of flow are disjoint, and
`NoPayment` is no payment's id. The type invariant is not bookkeeping only: it
says `available[e] \in 0..Capacity[e]`, which the guards of `AdjustSeats` establish.

The safety properties are not inductive. `PaidAfterHeld`, say, needs that a charge
in flight belongs to a booking whose row exists, even when the flow that sent it
has long given up on it. `IInv` adds what is missing:

* per booking (`BookingInv`): which steps and paths go together; the row's status
  at each step; seats, row and money come in that order; the payment the flow
  holds is the booking's own, and untouched when the flow is about to confirm; the
  recorded payment is own and once authorized; money and seats go back only on the
  way out;
* per cancellation (`CancelInv`): past its guard the booking is CANCELLED and no
  other cancellation holds its payment;
* per request in flight (`RequestInv`): what a late execution may count on.

The proof that a step preserves it follows this division. Three frame lemmas say
what leaves a booking, a cancellation or a request alone; `ControlStep`, `RowStep`
and `ServiceFrame` reduce a step of a flow, of the table and of a service to the
part it concerns; then there is one lemma per group of actions, and one per
request a service executes (`ExecuteReserve`, `ExecuteRelease`, `ExecuteCharge`,
`ExecuteRefund`). From `Spec => []IInv` follow `PaidAfterHeld`,
`RecordedPaymentIsOwn`, `OneCancelUnwinds`, `RefundedOnlyWhenUnwinding`,
`ConfirmedIsBacked` and, with the step, `Lifecycle`.

`SeatsConserved` holds whatever fails, too: seats are taken or returned twice, but
never made or lost. Sums over a set are defined by recursion, about which nothing
can be proved here, so seats are counted as the elements of finite sets
(`SeatsFor`), one element per seat and per time it was taken, and an executed
reservation or release adds one block of them (`BlockSize`, `DisjointUnion`,
`OnceMore`).

### When outcomes are known

Overselling, a lost charge or an untrue message all take a fault that hides what
happened. `PromiseProofs` makes that exact, under hypotheses that `SagaOnce` names
and that the instances with the other faults violate:

| hypothesis | what it leaves out |
|---|---|
| `AnswersArrive` | `timeout` and `lostCommit` |
| `CustomersWait` | `hangup` |
| `OutcomesKnown` | both: whoever calls a service or writes a row learns what became of it |
| `ProcessesLive` | `crash` |
| `[]UnwindingGetsThrough` | behaviours in which a refund or a release uses up its retries |

| theorem | of | needs |
|---|---|---|
| `NeverOversold` | `NoOverselling` | `OutcomesKnown` |
| `MessagesTellTheTruth` | `MessagesAreTrue` | and `[]UnwindingGetsThrough` |
| `PromiseIsKept` | `KeepsPromise` | the same |
| `MoneyComesOutRight` | `MoneyExactAtRest` | and `ProcessesLive` |
| `SeatsComeOutRight` | `SeatsExactAtRest` | the same |

`NeverOversold` needs `CustomersWait` because of the hidden confirmation above: a
customer who hangs up during the confirming UPDATE may leave a CONFIRMED row whose
seats are released and sold again, without any other fault. `SeatsExactAtRest`
speaks of events that are still listed, and counts the seats of a booking whose row
could not be inserted as out, which they are.

`UnwindingSucceeds` discharges the last hypothesis when answers arrive: a call is
repeated only after a fault (`FaultsSpent`), so with `MaxFaults <= Retries` no call
uses up its retries;
`FewFaultsAreMasked` states the four results for that case, the one `saga_definite`
instantiates. The hypotheses are not there for the proof's sake:
`retry_oversells` violates `NoOverselling` with one `timeout` and nothing else,
`failed_but_charged` and `hangup_strands_seats` violate the others with a `hangup`,
and a third failure of one release strands its seats (`saga.go:248`).

The invariants come in layers, each inductive only together with those below:

* `IInv`, whatever fails;
* `OnceInv`, when outcomes are known: a flow has at most one request in flight, the
  one it waits for (`OneRequest`), a cancellation past its guard knows the payment (`CancelKnows`), and a
  booking's seats are returned at most once, by the only flow that unwinds it, and
  never when its row could not be inserted (`ReleasedOnce`). From it and `SeatsConserved` follows `NoOverselling`: a
  confirmed booking has taken its seats and returned none (`Room`);
* `PaidInv`, when unwinding gets through: seats are taken once
  (`ReservedOnce`), a booking is charged once (`ChargedOnce`), a flow past its
  refund leaves no charge (`RefundedFirst`), and messages are sent only then
  (`ToldTruly`);
* `ReturnedInv`, under the same hypothesis: a flow past its release has returned the
  seats, provided that their event is still listed and the release named it;
* `Alive`, when processes live: no flow has crashed, so what rests is done.

`FlowsActOnce` states the layers together, as `OnceOnly`, which `saga_definite`
checks.

The proofs do not go through the actions one by one in each layer. `Kinds` shows
once that a step, when outcomes are known, is of one of a few kinds (a flow sends,
repeats, hears, unwinds, writes the table or crashes; a request fails or
is executed), written without the modules behind them; the layers then have one
case per kind. For the refinement, `MoveKeepsPromise` shows that a step of a flow
changes at most the deal of its booking, as the promise allows, and
`ExecutionKeepsPromise` that a request which is executed changes the seats, the
deal and the purse of one booking together.

`InventoryProofs` proves of `InventoryPostgres`, under `InventoryAssumption`
(capacities positive, changes non-zero and within 10), that the seats stay in
bounds, `Spec => []TypeOK`, that they add up, `Spec => []SeatsAddUp`, and that the
store implements the ledger, `Spec => KeepsLedger`. The step of the refinement needs one more invariant,
`Unanswered`: a handler that has not answered has changed nothing, so its outcome
is still open when its UPDATE settles it. This is what allows the saga to treat
`AdjustSeats` as atomic. `SeatsAddUp` needs it, too, since a change that was
committed before would not be counted again; it counts seats as elements of finite
sets, as the saga's `SeatsConserved` does, and is inductive with two facts
(`SeatsInv`): those sets are finite, and no change belongs to an event that was not
created.

`RowProofs` proves of `RowPostgres`, under `RowAssumption` (calls name their rows,
and the two kinds of call are disjoint), the type invariant, `OneWinner`,
`CancelKnowsPayment` and `Spec => KeepsRows`. They rest on `RowInv`: each call that
was applied has left a *mark* on its row that no later call takes back (a status
past the one it left, or the payment it recorded), a call that has not answered and
is still at its UPDATE was not applied, and one that was told "ok" was. Two calls
for one transition cannot both have left it, since the first takes the row out of
the status the second needs. For the refinement, `ChangeIsCall` shows that an
UPDATE which matches is the atomic operation of `BookingStore` or `PaymentService`,
and `MismatchIsRefusal` that one which does not is a refusal.

`HttpServerProofs` proves of `HttpServer`, for any pods, requests and delays that
satisfy `ServerAssumption`, the type invariant, `RoutedIsListening`,
`SomeoneServes`, `DisturbedLate`, `NeverKilled` and `FailuresAreLogged`. The assumption is the
contract between `server.go` and the Deployment: kube-proxy's lag is at most the
drain, and drain, shutdown timeout and the longest statement together are shorter
than the grace period. (The other services have 40 s of grace for 5 + 25 + at most
the statement of a request whose context has ended.) The invariant `ServerInv`
adds the interval the clock is in at each phase (`ClockInv`), when the old pod may
still be routed to (`RouteInv`), what Shutdown leaves of connections and handlers
(`IdleInv`, `FlightInv`), the status recorded so far for each request (`TraceInv`),
and who is ready while nothing has failed (`ServesInv`).

`RingProofs` proves of `NotificationRing`, under `RingAssumption`, the type
invariant, with which the ring is bounded and agrees with the map, and
`FeedShowsLatest`. The invariant `RingInv` says that the ring is sorted by arrival
(`OrderInv`) and that whatever is gone was pushed out by a full ring of later
arrivals (`EvictedInv`); were a notification missing from a list, the later ones
would be more than the property allows.

`StartProofs` proves of `CatalogueStart`, under `StartAssumption`, its type
invariant, `Spec => []SeedsAtMostOnce` and `Spec => []WholeCopies`. The second is
not inductive: it needs `NothingAhead`, that a seeding replica has inserted nothing
from its position on in any of its lives. That holds when it begins because it then
counted no rows, its own earlier ones included. The third needs `CopiesInv`, which
says how far each replica has come with its own copy.

Every invariant and every refinement that a run checks is proved. Only
model-checked is liveness, which needs fairness and `ENABLED`, beyond this prover:
`HeldSeatsAreSettled`, `PendingIsSettled`, `AllServe`, `ExitsInTime`,
`BackInService` and `EveryCallIsAnswered`.

## Not modelled

* The list, get and filter handlers of every service: they change nothing. The
  reads that decide something are modelled where they do (`ReadBack`, `List` of
  notifications, the count of `CatalogueStart`).
* The PostgreSQL store of notification-service: one INSERT per notification and
  reads, without a limit, a guard or a second statement.
* Configuration, logging, request ids, CORS and JSON: no state that a later step
  reads.
* Page logic, pipelines and the Terraform that only declares resources.
* The mock gateway's rules: their verdict is an open choice, which also covers what
  the unsynchronised random source (`gateway.go:55`) can produce.

## Plan

Built: the saga and what it runs on, the PostgreSQL inventory, the bookings and
payments tables, the start-up of event-service, the server in a rolling update, and
the notification ring. To come, in this order:

1. The saga over several pods: a crash, or the end of a pod in `HttpServer`, that
   takes down every flow of one pod.
2. The liveness properties by hand-written ranking arguments: what each step of a
   flow decreases is a safety property and can be proved, the conclusion cannot.
