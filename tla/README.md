# Conver Pay: TLA+ models, model checking and proofs

Conver Pay takes payment requests from merchants, creates Pix charges at
payment providers, falls back to another provider when that is provably safe,
learns of payments through provider webhooks and tells merchants of them through
webhooks of its own. The API is a Go program (`src/apps/api`) on PostgreSQL;
`src/apps/web` is a dashboard. This directory holds the specifications kept
beside that code. Paths below are relative to `src/apps/api/internal` unless they
start with `src/`.

## 1. Inventory

| component | code | state it keeps | operations |
|---|---|---|---|
| orchestration | `orchestration/service.go` | `payment_intents`, `payment_attempts` | `CreatePayment`, `executeRouting`, `ReconcilePayment`, `MarkPaid` |
| provider webhooks | `orchestration/webhooks.go`, `paid_events.go` | `provider_events`, `recovery_events`, `merchant_events` (the outbox) | `ProcessProviderWebhook`, `MarkPaidWithOutbox` |
| provider port and Woovi connector | `provider/`, `provider/woovi/woovi.go` | the charges at the provider; the cache of Woovi's webhook keys | `CreatePix`, `Reconcile`, `ParseWebhook`, `ValidateCredentials` |
| router | `orchestration/router.go` | none | `Select` |
| telemetry and circuit breaker | `routingtelemetry/service.go` | health snapshots, `circuit`, `circuit_opened_at` | `Refresh` |
| merchant webhook delivery | `webhookdelivery/` | `webhook_endpoints`, `webhook_deliveries`, `webhook_delivery_attempts` | `SetEndpoint`, `DisableEndpoint`, `RunOnce` |
| connections control plane | `providerconnections/service.go` | `provider_connections`, `provider_credentials` | `Connect`, `List`, `Disable` |
| queries, scope, authentication | `orchestration/queries.go`, `store/postgres/scope.go`, `authn/` | none | reads |

How they interact. `POST /v1/payments` runs `CreatePayment` and, in the request
that inserted the row, `executeRouting`: it refreshes telemetry, lists the
connections, selects one with the router, records an attempt and calls the
provider. The provider calls `POST /v1/webhooks/...`, which runs
`ProcessProviderWebhook`; it writes the paid payment and the merchant events in
one transaction. A worker in the same process (`cmd/api/main.go`) runs
`webhookdelivery.RunOnce` on a ticker and delivers the merchant events. All
components share the database and nothing else; there is no lock, no version
column and no transaction that spans a provider call, and several processes may
run.

What makes it hard:

* **Every handler works on copies.** It reads a row, calls a provider for
  seconds, and writes the whole row back (`SavePayment`, `SaveAttempt` are
  unconditional updates). Correctness depends on who may be between a read and a
  write at the same time.
* **A create call with an unknown outcome.** A timeout says nothing; the charge
  may appear later. A fallback is safe only after a proof that nothing exists.
* **Failure at any call.** A request's context is cancelled, the database fails,
  the process dies; nothing is undone and nobody resumes the handler.
* **Redelivery.** Providers repeat webhooks, merchants repeat requests, and
  executions for the same event overlap.
* **Time.** Leases, back-off, circuit cool-down, the activation window.

What makes each component correct:

* orchestration: no two charges that a customer could pay for one payment; fall
  back only after a safe failure; one creator per idempotency key; a settled
  payment or attempt is never taken back; a created payment settles.
* provider webhooks: paid only by a presented charge that was paid, told to the
  merchant exactly then; acknowledged only when recorded; nothing paid is lost.
* connector: what it tells of a charge never claims more than is so, whatever is
  still on its way; a withdrawn webhook key is not trusted for ever, and a new one
  not refused for ever.
* router: the best eligible connection by rank, and none that is not eligible.
* telemetry: the circuit opens on two bad snapshots and closes only through a
  successful probe; a cool-down ends.
* webhook delivery: every event of the activation window is delivered or its
  attempts are used up; the recorded attempts are 1, 2, 3, ... without a gap;
  a settled delivery is not sent again; nothing outside the window is sent.
* control plane: an account is charged only for the workspace and the environment
  it was connected for, and only after its credential was accepted there.

The hazards, each with its line and the properties that cover it, are in
`PROJECT.json`.

## 2. Plan

Modules in the order of their importance; those marked * are in place.

1. `PaymentOrchestration` *: create, route, fall back, reconcile, be paid.
2. `PaymentOrchestrationProofs` *: its safety for every value of the constants.
3. `WebhookDelivery` *: worker executions with leases against the outbox, and
   endpoint changes; `DeliveryPromise` *: what a merchant is promised of the delivery of
   its events; `WebhookDeliveryProofs` *: safety and promise for every instance.
4. `PaymentLifecycle` *: what a merchant is promised of a payment as an abstract
   specification, with the theorem (`PaymentLifecycleProofs`) and the run that (1)
   implements it; `PaymentOverlapProofs` *: what is left when reconciliations overlap.
5. `RoutingTelemetry` *: snapshots, circuit and cool-down under overlapping
   refreshes; `Routing` *: `Select` and its loop against a declarative choice of
   the best; their proofs *.
6. `ProviderConnections` *, `WooviCharges` *: the control plane and the charges made
   through its connections, shown to implement `ProviderPort` *; their proofs *.
7. `WooviWebhookKeys` * and its proofs *: the key cache under overlapping fetches.
8. `RetryBackoff` *: the back-off as a function, against its closed form.

Composition. (1) takes the router as "any eligible connection" and the circuit
breaker as "eligibility changes at any time", which is weaker than (5), so what
holds in (1) holds with them. What (1) assumes of a provider is `ProviderPort`.
`WooviCharges` implements it (`KeepsPort`), and the attempt rows of (1) implement it too
(`RowsKeepPort`): between the connector and the rows nothing is lost that the port
promises, whatever fails in between. `WooviCharges` extends
`ProviderConnections`, whose actions interleave with its own. The `merchant_events`
of (1) are the events of (3).

## 3. PaymentOrchestration

One payment intent: one (workspace, idempotency key), the attempts made for it,
and every handler that touches it. Each call of a handler to the repository or to
a provider is one action; between two calls a handler holds its rows in
`local[w]`, and `pc[w]` names the next call.

| variable | code |
|---|---|
| `payment` | the `payment_intents` row (status, fingerprint, active and presented attempt, failure code, recovered, paid time) |
| `attempt` | the `payment_attempts` rows by sequence, which is unique in a payment |
| `recovery`, `outbox`, `event` | the `recovery_events` row, the `merchant_events` rows by type, the `provider_events` row of each attempt's paid event |
| `eligible` | connections `Router.Select` would accept: enabled, valid, circuit not open |
| `charge` | at the provider: `unsent`, `none` (never will be), `inflight`, `live`, `paid` |
| `shown` | history: every attempt whose Pix the payment row has shown |
| `pc`, `local` | program counter and local variables of each handler |
| `faults` | bound on failing calls |

| actions | code |
|---|---|
| `GetOrCreatePayment`, `ReadExisting`, `StartRouting` | `CreatePayment`, `GetOrCreatePayment` (insert on conflict do nothing, then read) |
| `ListConnections` .. `SettlePayment` | `executeRouting`, one call each; the loop goes from `SaveOutcome` back to `select` |
| `ReadForReconcile`, `ReadUnknownAttempt`, `AskProvider`, `SaveAnswer`, `Reroute` | `ReconcilePayment` |
| `RecordEvent` .. `AcknowledgeEvent` | `ProcessProviderWebhook`, `MarkPaidWithOutbox`, `MarkPaymentPaidWithEvents` |
| `Fail` | any call that returns an error, a cancelled context, a crash |
| `ChangeConnection` | control plane and circuit breaker |
| `DecideCharge`, `CustomerPays` | the provider and the customer (external) |

`faults` counts failures; a call that fails has no effect. A call that takes
effect while its error is reported is the same as a success followed by a failure
of the next call, which the model has.

What is assumed of the connector is `ProviderPort`: `succeeded` is told only of a
charge that exists, `failed_safe` and `not_created` only of one that does not and
never will, and a Pix is paid only when it was shown. This is what
`provider/adapter.go` asks of an adapter. Everything else is open: an unknown or
terminal outcome may leave a charge, no charge, or one that appears later.

The rows keep the same port. `SerialReconciliation` maps it (`Port`): an attempt that is
absent, created or requesting was told nothing of, any other row says what was told
last. `RowsKeepPort` then says that an attempt is sent once and before anything is told
of it, that its row changes only from not known to known, and that at the moment of the
write it is true of the charge, however long ago the connector answered. In the
orchestration a create call is one step that ends when it returns, when the charge
may be decided already; the port lets `Send` end in any of these. `RowsKeepPort`
contains `SettledAttemptsStay` (no handler changes the row of a settled attempt),
which is proved on its own and not run.

### PaymentLifecycle

The promise to the merchant, without handlers, attempts or providers: the payment
moves forward through its statuses, shows one Pix or none, is paid by that Pix and
only when the customer has paid it, and the merchant events change in the same step
as the payment. `SerialReconciliation` maps the orchestration to it (`Lifecycle`):
the status and the recovery flag are those of the row, `shown` is the history
variable of the same name, the merchant's events are the outbox, a Pix is settled
when its charge is paid. Most steps of the handlers map to no step. `KeepsLifecycle`
contains three smaller properties that stay in the module and are proved on their
own but not run: `OnePix`, `OutboxMatchesPayment` and `PaidIsTerminal`.

### Serial reconciliation

`ReconcilePayment` has no production caller yet, takes no lock and writes
unconditionally. `SerialReconciliation` adds one assumption, that at most one
execution for a payment runs at a time; the runs of `MCPaymentOrchestration` and
the proofs of `PaymentOrchestrationProofs` and `PaymentLifecycleProofs` use it.
`MCOverlappingReconciliation` does without: `overlap_duplicates` shows what breaks,
`overlap_safety` and `PaymentOverlapProofs` what does not.

### Runs

| run | instance | shows |
|---|---|---|
| `payment_safety` | 2 creators, 1 reconciler, 2 webhook executions, 2 request bodies, 3 connections, 3 attempts, 2 failing calls | type correctness, six invariants (`SingleOwner` .. `OwnFailureLeavesNoCharge`), and the refinements `KeepsLifecycle` and `RowsKeepPort` |
| `overlap_safety` | 1 creator, 2 overlapping reconcilers, 1 webhook execution, 3 connections, 3 attempts, 1 failing call | what holds whatever overlaps: `NothingIsInvented`, `ConnectionsDiffer`, `AttemptSentOnce` |
| `payment_settles` | 2 connections, 2 attempts, 2 failing calls, fairness | a charge that was paid is recorded; while no call has failed, a created payment leaves `created` and `routing` |
| `overlap_duplicates` | the instance of `overlap_safety`, no failing call | violation of `NoDuplicateCharge` |

Bounds. Two creators are a first request and its retry, or a conflicting one;
two receivers are a duplicate delivery that overlaps the first. Three attempts
and three connections are the default budget, so that a fallback of a fallback
and an exhausted budget both happen. Two failing calls lose both a handler and
the one that takes over. Two overlapping reconcilers are enough to break what
overlap breaks, and to let each write its older copies over the rows of the other, with a
crash of one of them half-way. `Symmetry` is used by the safety runs only, where no constant is
distinguished from another of its set.

`CHECK_DEADLOCK FALSE`: with all requests answered and nothing eligible, paid or
reconciling, the system really is at rest.

Fairness. `FairSpec` lets a handler that has begun make its next call (a
goroutine runs, calls have timeouts), and a provider redeliver a paid event until
it is acknowledged with 2xx, which is what `httpapi/provider_webhooks.go` relies
on when it answers an error. Nobody has to create, reconcile or pay.
`PaidChargeIsRecorded` holds with failing calls; `CreatedPaymentSettles` only
until the first of them, because a handler that dies leaves the payment where it is
(see hazards).

### Findings

* `overlap_duplicates`: two overlapping reconciliations route twice and two
  attempts may have a charge, against the algorithm of `ARCHITECTURE.md` ("Acquire
  orchestration ownership/lock for the intent"). The same overlap breaks
  `PaidIsTerminal`: a stale copy takes a paid payment back to `awaiting_payment`.

Seen while modelling, without a run: `MarkPaidWithOutbox` checks the status outside
its transaction, so two overlapping deliveries of a paid event write the paid row
twice, the second with another `paid_at`; spec 001 (`src/specs/001-core-orchestration.md`,
line 364) speaks of a payment paid exactly once. The outbox and the recovery stay right
(`KeepsLifecycle`, `RecoveryIsEarned`).

That a request is answered only with a payment made from its own body is one comparison
in one step (`Answer`) and is not a property of its own. The customer pays what was
shown, so a paid event before the first showing does not occur; a paid event that finds
the row no longer presenting its attempt does, in `overlap_safety`.

The connector gives the id of a charge with a success only (`provider/woovi/woovi.go`,
lines 188 to 190), so `CreatePix` sets `identified` with a success only, where the code
stores whatever id the outcome has.

### Proofs

`PaymentOrchestrationProofs` proves, for any number of creators, receivers,
request bodies, connections, attempts and failures, the invariants of
`payment_safety`, and `OnePix`, `OutboxMatchesPayment`, `PaidIsEarned`, `AttemptSentOnce`
and the two action properties `PaidIsTerminal` and `SettledAttemptsStay` (`THEOREM`s
`TypeCorrect` .. `SettledAttemptsKept`). The assumptions are those of the constants and
`SerialAssumption`.

The invariants are not inductive: nothing in them says that the copy a handler is
about to write still fits the rows. `IInv` adds this:

* `StepsFit`, `SingleOwner`: a handler stands only at steps of its kind, and at
  most one may write the payment as its router or reconciler. Once the payment has
  left `created`, `routing` and `reconciling` no new owner can arise.
* `OwnerHolds`: what the owner has read, step by step: its copy of the payment is
  the row, its copy of the attempt is the row up to the outcome it is about to
  save, the charge of the attempt agrees with that outcome.
* `RowsAgree`, `PaymentAgrees`, `LedgerAgrees`: attempts are dense, all but the
  last failed safely and hold no charge; what each payment status says of the
  active attempt and of its charge; recovery and outbox follow the payment.
* `ReceiverHolds`: what a webhook execution has read and may still commit.

`NextKeeps` has one lemma per action, over frames that say what an owner's save,
an owner's read, a bystander's step, and a step of the provider keep. The action
properties use `IInv` in the state before the step: `PaidIsTerminal` because no
owner can be writing a paid payment and every webhook execution writes the same
presented attempt.

`PaymentLifecycleProofs` uses `IInv` in the same way: one lemma per action says to
which step of the lifecycle it maps, from what the owner or the webhook execution is
known to hold (`LifecycleKept`). Its second part, `RowsKeepThePort`, does the same for
the port: the only writers of attempt rows are the router and the reconciler, and
`OwnerRows` of `IInv` says that a succeeded outcome in the owner's hands is of a charge
that is live or paid, a safe failure of one that is none.

`PaymentOverlapProofs` does without `SerialAssumption`. When reconciliations overlap,
payments are overwritten and charges duplicated, but the unique (payment, sequence)
index still makes every attempt the work of one handler: what a routing handler has
counted is recorded and its connections are excluded (`Excludes`), so no two attempts
go to one connection (`DifferentConnections`) and none is sent twice
(`SentOnceOverlapping`). A second invariant, `TInv`, says that everything stored, and
every copy in a handler's hands, is backed by the provider: an identified or
succeeded attempt has a charge that is live or paid, a safe failure has none, a
presented Pix and a recovery are of such attempts, an event is of a paid charge.
Charges only move forward, so a copy stays true however stale it is and may be
written over anything: a paid payment was earned (`EarnedOverlapping`, that is
`PaidIsEarned`, a part of `NothingIsInvented`), and no row, event or notice is invented
(`NothingInvented`). Types need no serial reconciliation either
(`TypeCorrectOverlapping`). What overlap does break is who may send next
(`NoDuplicateCharge`) and that rows stay as they are (`PaidIsTerminal`).

Only model-checked: the two liveness properties, which are out of reach of the prover.

## 4. WebhookDelivery

Workers (one per process) run `RunOnce` over and over against one endpoint, that
of a workspace and environment, and its merchant events.

| variable | code |
|---|---|
| `created`, `clock` | `merchant_events.created_at`; the clock advances with every event |
| `endpoint`, `admin` | the `merchant_webhook_endpoints` row; what a `SetEndpoint` has read and will upsert |
| `delivery` | the `webhook_deliveries` row of each event: status, `attempt_count`, whether `next_attempt_at` has passed (`due`), `locked_by` (`owner`), whether `locked_until` has passed (`lapsed`) |
| `history` | the `webhook_delivery_attempts` rows, results by sequence |
| `pc`, `local` | the step of each worker and its claimed batch |
| `accepted`, `lapses` | history variables: 2xx answers seen, events whose lease ever lapsed |

| actions | code |
|---|---|
| `CreateEvent` | the insert of `MarkPaymentPaidWithEvents`; the outbox of `PaymentOrchestration` |
| `ReadEndpoint`, `UpsertEndpoint`, `DisableEndpoint` | `SetEndpoint` (read, then upsert), `DisableEndpoint` |
| `Materialize`, `Claim` | the two statements of `RunOnce` |
| `Send`, `Complete`, `CompleteRefused` | `processJob` and `CompleteDelivery`; refused when the sequence is taken or the lock is another's, which ends the batch |
| `Fail` | a failing call, shutdown or crash: the locks stay |
| `LeaseLapses`, `BecomesDue` | `locked_until` and `next_attempt_at` pass |

Time is abstract: a lease may lapse at any moment, so the safety properties hold
whatever the lease, the HTTP timeout and the clock skew between processes are.
Only liveness assumes timing, in `FirstIsInTime`: the first request of a batch
ends before the lease does (10 s against 30 s). Nothing is assumed of the other
24, which can take longer than the lease. A 2xx counts in `accepted` when it reaches the
worker; a merchant whose answer is lost gets the event again, as the code means it to.

There is no endpoint row at first (`NoEndpoint`); until there is one, a disabling is
answered with `ErrNotFound` and changes nothing.

### DeliveryPromise

What the merchant is promised, without workers, leases and batches: an event that is
owed is tried again until an attempt ends the matter; the attempts that count are at
most the maximum; it is called delivered only if the merchant took it, and exhausted
only when the maximum is reached; what has ended stays so. The merchant may take an event
more than once, also after it has ended. `WebhookDelivery` maps itself to it (`Promise`):
a pending or retrying row is owed, a failed row was refused or exhausted by
its last recorded result, and the merchant took what `accepted` counts.
`Materialize` maps to `Owe`, which may make any number of events owed; a 2xx answer in
`Send` to `Take`; a `Complete` to `Try`; every other action to none. `KeepsPromise`
speaks of the rows' status and count; that nothing else in a settled row or in its
recorded results changes is `SettledStays`, which is proved on its own and not run.

| run | instance | shows |
|---|---|---|
| `delivery` | 2 workers, 2 events, batches of 2, 2 attempts, 1 crash, endpoint enabled once, fairness | types, `AttemptsTellTheStory`, `HolderCanComplete`, `AcceptedOnceUnlessLapsed`, the refinement `KeepsPromise`, `EventIsSettled`, `BackoffIsBounded` |
| `activation_window` | 2 workers, 2 events, 1 crash, 4 endpoint changes by one request at a time, fairness | `WindowResets`, `EventIsSettled` |
| `activation_race` | 2 overlapping requests | violation of `WindowResets` |

Bounds. Two workers are a holder and one that takes over; two events make a batch
with a job after the first; two attempts have a retry and a last one;
materialization is limited to one event, so that the limit binds. Deadlock is checked: a worker can always run.

Fairness: the ticker of `cmd/api/main.go` runs each worker again and again, leases
lapse and retries fall due as time passes.

`RetryBackoff`. The next attempt falls due after `retryDelay`, which doubles from 30 s
to six hours and adds a jitter; the loop is a recursive function of the sequence, one
turn each. `BackoffIsBounded` compares it with the closed form for the sequences up to
45, past the cap and past the length at which doubling without the cap would
overflow, and for the smallest, middle, largest and wrapping values of the jitter; it
is evaluated in the `delivery` run for every sequence a delivery has left.
`EveryDelayIsBounded` proves it for every integer and all 65536 values of the hash. The
induction it would need is out of reach of the prover, so the proof goes another
way: a table gives the bases outright, and if some sequence had another base there would
be a least one, which the turn of the loop before it refutes. `BackoffBounded` puts it
under the specification.

Finding. `activation_race`: the endpoint is enabled, a second `SetEndpoint` reads it, an
event is created, a disabling commits and ends the window, the upsert enables the
endpoint again and, because the row is disabled now, writes the activation time of the
ended window. Events from before the disabling are then in the new window, which `activation_test.go` rules out for calls in sequence.

Proofs (`WebhookDeliveryProofs`, for any number of workers, events and attempts).
The strengthening of the invariants: only open deliveries are locked; a job in a
batch whose row still names the worker was claimed with the count the row has;
an event whose lease has never lapsed is in the batch of the worker its row names
and in no other; an acceptance is in the row, or still with the worker that will
store it. `SettledStays` follows because nobody's lock is on a settled delivery.
`PromiseKept`, the refinement, adds `PInv`: what a worker has claimed was materialized,
and a 2xx that it has still to record has been counted as taken. Then each action maps
to a step of `DeliveryPromise` or to none (`MaterializeIsOwe`, `SendIsTake`,
`CompleteIsTry`).
`WindowResets` is proved under `SerialAdminAssumption` (requests that change an
endpoint do not overlap), with the invariant that a request that read a disabled
endpoint carries a later activation time than the disabling. `EventIsSettled` is
only model-checked.

## 5. RoutingTelemetry

Before it routes, every execution of `executeRouting` refreshes each connection of
its environment: previous snapshot, aggregate, insert, circuit. Connections share
nothing in it, so one is modelled, with the executions that refresh it and the
create calls they then make.

| variable | code |
|---|---|
| `circuit` | `circuit_state`, `circuit_opened_at` of the `provider_connections` row |
| `latest` | the `provider_health_snapshots` row that `ORDER BY observed_at DESC, id DESC` puts first; of a row only its time and whether it is `unhealthy` |
| `attempt` | status and `request_started_at` of the `payment_attempts` rows of the connection |
| `pc`, `local`, `clock` | the next call of each execution, what it has read, the time |
| `bad`, `firstOpened` | history: unhealthy snapshots (up to two), the earliest opening |

| actions | code |
|---|---|
| `ListConnections`, `Relist` | the two `ListProviderConnections` of `executeRouting` |
| `ReadPrevious`, `Aggregate`, `SaveSnapshot`, `ReadProbe`, `NoProbe`, `UpdateCircuit` | `Refresh` and `evaluateCircuit`, one statement each |
| `Send`, `Answer`, `Reconcile` | the attempt is saved as requesting, its outcome is saved, `ReconcilePayment` settles an unknown one |
| `Leave` | a failing call, a crash, or the router chose another connection |

Times are integers; the thresholds 70, 30 and 20 percent are those of the code. The
health score and the latency percentiles only rank connections and are arbitrary
in `Routing`.

| run | instance | shows |
|---|---|---|
| `circuit_overlap` | 2 executions, 2 requests, time to 4, window 2, cool-down 1, 1 sample | what holds whatever overlaps: `OpensOnTwoSnapshots`, `ClosesOnSuccess`, `SnapshotsMoveForward`, `CircuitSteps` |

Bounds. Two requests are a failure and a probe; four units of time hold an opening, a
cool-down, a probe and a second opening, and let a snapshot fall out of the window. One
sample keeps these states in reach; the proofs cover any minimum. `Symmetry` permutes
the executions. Deadlock is checked: an execution can always begin.

An execution reads the connection and then the clock (`ListConnections`,
`ReadPrevious`), and the clock again before it saves the attempt as requesting (`Send`);
each time it carries lies between its last listing and the step that uses it.

Nothing keeps refreshes apart, and the circuit is written without a condition. So a
stale execution may write over the circuit of another: open a half-open one again, or
put it back to half-open with an older opening. `CircuitSteps` says what the three-state
machine of `ARCHITECTURE.md` becomes then: every write is a step of the machine from the
circuit which that execution has read, and its evidence (the end of the cool-down, the
answered probe) still stands when it is written; and an execution that found the circuit
open after the cool-down ends its refresh with a write. `ClosesOnSuccess` is the part of
it that is about the circuit over time, from the first opening on.

What the model shows and no property forbids, because no document does:

* A circuit closed by a probe may open again at once, since the failures from before are
  still in the window and the previous snapshot is unhealthy too; probes are not limited
  in number; and a stale write may undo a newer one.
* Attempts still requesting count as samples without success (`Unhealthy`), so slow
  requests may open the circuit before one of them is answered. AC-015 of
  `src/specs/001-core-orchestration.md` is about not sending the same payment to a second
  provider, which `FallbackOnlyAfterSafeFailure` covers.
* A provider may be called after another execution has opened its circuit, since the
  connections are listed once more before the first call and serve every fallback round
  (`Relist`, `Send`); AC-012 speaks of a circuit that is open when the routing starts.

Proofs (`RoutingTelemetryProofs`, for any number of executions and requests and any
window, cool-down and sample size). The invariant `TInv` is about what a stale execution
carries: a circuit it has read was opened no earlier than the first opening
(`ReadSince`), and what it is about to write has its evidence already: two bad
snapshots, or a success since the first opening (`Founded`). `WInv` (`WritesFollow`)
adds that the write is a step of the machine from the circuit it read, with evidence that
only grows: the clock does not go back, and an answered attempt stays answered and keeps
its time. `OpeningIsKnown` is a part of `TInv` worth reading on its own; it is proved and
not run.

## 6. Routing

One execution's choices: the list and the scores are read once, `Consider` is one
turn of the loop of `Select`, `Decide` records the attempt with its decision,
`FailsSafely` starts the next round without the connection just tried. The
execution may start after earlier attempts (`ReconcilePayment` re-routes), so any
set of connections may be excluded at first.

Ids are integers in the order of the strings; scores are percentages, compared and
nothing else. `fails` is the set of rules a connection breaks at once, since the order
in which the code asks them decides the reason recorded. `CHECK_DEADLOCK FALSE`:
an execution ends.

| run | instance | shows |
|---|---|---|
| `routing_choice` | 3 connections, 2 priorities, one score or none (50 by default), every circuit, no, one or two broken rules, 2 attempts | `BestIsCalled`, `FailsWithoutProvider`, `FallbacksDescend`, `DecisionsExplain` |
| `exclusions_lost` | the same | violation of `ExclusionsAreExplained` |

Bounds. Three connections are needed for a comparison that is not transitive; the
score 40 is below the default score of a connection without telemetry, so that
ranking by score, by missing score and by priority can disagree; two attempts
are a first choice and a fallback, and the end of the budget.

Finding. `exclusions_lost`: when nobody is eligible (`GiveUp`) the evidence of that
selection is dropped with the result of `Select`. Only the failure code is saved and
answered, so nothing records why each connection of a payment without an attempt was left
out, although AC-013 of `src/specs/001-core-orchestration.md` (line 441) asks that
"routing evidence explains exclusions". The property speaks of payments without any
attempt; those that fail later at least have the decisions of the earlier rounds, whose
evidence may have changed since.

Proofs (`RoutingProofs`, for any connections, priorities, scores and budget): that
the comparison of the code, which looks at the scores only when one of two has
telemetry, is a total order (`BetterIsBeats`, `BeatsTotal`, `BeatsTransitive`); that
the pass keeps the best of those seen (`Scan`); that what was selected before is
excluded and ranked above all that may still be selected (`Spent`, `Ranked`).

## 7. ProviderConnections, WooviCharges and ProviderPort

A merchant connects an account it has at Woovi; payments are then routed to the
connection, and the connector creates and looks up charges in the account.

| variable | code |
|---|---|
| `usable` | at Woovi: the accounts whose credential is accepted |
| `request` | the executions of `Connect`, between their calls |
| `connection` | the `provider_connections` row and its `provider_credentials` row, by request |
| `job` | workspace and environment of the attempt's payment, those of the listed connections (`Listed`, the query) that the router may select for it (`Routable`), the one it is sent through |
| `call`, `reply` | the connector call under way for the attempt, the HTTP answer that has reached it |
| `post` | the `POST /api/v1/charge`: on its way until it arrives or is lost, whoever still waits for it |
| `held` | at Woovi: the charge with the attempt's correlationID |
| `told` | the outcome reported last |

| actions | code |
|---|---|
| `ReceiveConnect`, `ValidateCredentials`, `SaveConnection` | `Connect`: credential test at the API of the environment, then one transaction for both rows |
| `Disable` | `DisableProviderConnection`; the credential stays |
| `ListConnections`, `SendCharge`, `CannotBuild` | `executeRouting` lists once and calls later; `ConnectorFor` and the request of `CreatePix` |
| `CreateReturns`, `CreateBreaksOff` | the answers of `CreatePix`, by status and body (`CreateOutcome`); timeout or unreadable answer |
| `LookUp`, `CannotLookUp`, `LookUpReturns`, `LookUpBreaksOff` | `Reconcile` (`LookUpOutcome`) |
| `Arrive`, `LosePost`, `AnswerLookUp`, `Expire`, `CustomerPays`, `RevokeCredential` | Woovi and the customer (external) |

`ProviderPort` is the contract: an attempt is sent once, its charge is decided at any
time after, and what is told of it is one of the statements the state of the charge
allows. `Port` of `WooviCharges` maps the connector to it (that of `SerialReconciliation`
maps the rows of the orchestration, section 3): a POST on its way is `inflight`, a
charge that expired is still `live`, since the port does not promise that
it cannot be paid.

Assumed of Woovi: 401, 403 and 404 to a create mean that nothing was created; there is
one charge for a correlationID; an active charge can be paid only once its Pix was
given out. Not assumed: that an error status means failure, that an answer is
complete, that a lookup finds a charge that exists.

| run | instance | shows |
|---|---|---|
| `woovi_charges` | 2 workspaces, 2 environments, an account for each, 2 connection requests, 2 attempts | types, `SentAtHome`, `RefusedCreateIsEmpty`, `KeepsPort` |

Bounds. Two workspaces and environments are what a charge could be confused between;
two requests can connect the same account twice, or two accounts of which one is
disabled or revoked while an attempt is under way; attempts share nothing but the
connections, so two are enough. Looking up repeats without a bound. `Symmetry` permutes
workspaces, requests and attempts, of which no constant is distinguished;
`KeepsPort` has no liveness part. `CHECK_DEADLOCK FALSE`: all requests may be answered
and all charges settled.

Proofs (`WooviChargesProofs`, for any constants). The invariant has three parts:
`ConnectionInv`, a stored credential was accepted by the API of its environment and no
request writes over a row; `JobInv`, the connections listed for a payment keep its
workspace and environment for ever, so that a stale list is harmless; `CallInv`, which
answer and which outcome go with which POST and charge, in particular that a refusal is
told only of a POST that is over. `PortKept` has one lemma per action.

Two things the model shows and the code's documents do not forbid. A credential revoked
after an unknown create makes the lookup answer 401, and the attempt is settled as
terminal although its charge may be live; nobody was shown its Pix. And
`src/docs/connectors/woovi.md` lists 401 and 403 as terminal and other non-2xx as
unknown, while `classifyCreateStatus` also takes 404 as terminal.

## 8. WooviWebhookKeys

The webhook handlers of a process share one cache entry for each API. `get` reads the
time, looks at the entry under the mutex, fetches without it, and stores under it
again; so fetches overlap and are stored in any order.

| variable | code |
|---|---|
| `entry` | the `cachedKeys` of one base URL |
| `pc`, `local` | the step of each handler; the signer of its webhook, the time it read, its keys, whether its own fetch failed |
| `published`, `changed`, `clock` | at Woovi: the keys it publishes and when each was last published or withdrawn; the time (external) |

| actions | code |
|---|---|
| `Receive`, `Verify`, `Leave` | `ParseWebhook` up to the signature check |
| `ReadEntry`, `Fetch`, `FetchFails`, `StoreEntry` | `publicKeyCache.get`: under the lock, the HTTP call, the two error paths, under the lock |
| `Rotate`, `Tick` | Woovi and time |

| run | instance | shows |
|---|---|---|
| `woovi_keys` | 2 handlers, 2 keys, lifetime 2, clock to 4 | types, `TrustEnds`, `RefusalEnds` |

`TrustEnds`: a signature is accepted only with a key that was published within the
cache lifetime before the webhook came in. `RefusalEnds`: a webhook is refused only when
its key was not published during all of that time. Both hold because the lifetime is
counted from the time read before the lock, however late the keys are stored. They
leave out a handler whose own fetch failed: the code falls back to the expired keys,
without a bound, as `src/docs/connectors/woovi.md` allows.

Bounds. Two handlers give every order of two fetches and two stores; two keys an old one
and its successor; a lifetime of 2 in a time to 4 has entries that are current, expired
and replaced. Deadlock is checked: a webhook can always be received.

Proofs (`WooviWebhookKeysProofs`, for any handlers, keys, lifetime and clock bound). The
invariant dates every set of keys in the process: it contains each key published all
the time since its date and none that was withdrawn before; a fetched set is dated by
the time its handler read, the entry by its expiry less the lifetime.

## 9. What is not modelled

* `MarkPaid`: an older entry that only tests call; it records the recovery before the
  payment and without the outbox.
* The flapping circuit of section 5 and a secret rotated between the claim and the send
  of a delivery: both can happen, and no document says what should.
* API keys and the workspace filter of the queries: no state changes; a model
  would restate the filter. `WooviCharges` has two workspaces, the other modules one.
* HTTP decoding and validation, signatures, target checks of webhook URLs, the mapping of
  provider payloads: pure functions of their input.
* The in-memory store and the scripted fake provider (tests only), configuration,
  logging, the database pool, the secret box, process wiring, the migrations beyond the
  constraints named above, and the dashboard.

Only model-checked: the liveness properties (`PaidChargeIsRecorded`,
`CreatedPaymentSettles`, `EventIsSettled`), which are out of reach of
the prover. Every other property of a passing run is proved for all values of its
constants.
