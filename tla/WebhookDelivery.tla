--------------------------- MODULE WebhookDelivery ---------------------------
(***************************************************************************)
(* The delivery of merchant events to the webhook endpoint of a workspace  *)
(* (internal/webhookdelivery and its postgres repository).                 *)
(*                                                                         *)
(* Workers run RunOnce over and over: they materialize a delivery for each *)
(* event of the endpoint's activation window, claim due deliveries under a *)
(* lease, send them one after the other and record each outcome.  Several  *)
(* processes may run a worker, and a lease lapses while its holder works.  *)
(* The control plane sets and disables the endpoint meanwhile.             *)
(*                                                                         *)
(* Time is abstract where only its passing matters: a lease may lapse at   *)
(* any moment and a retry becomes due at some moment.  The clock that      *)
(* created_at and active_since are read from advances with every event.    *)
(***************************************************************************)
EXTENDS Integers, FiniteSets, RetryBackoff

CONSTANTS
    Workers,       \* processes that run the webhook worker
    Admins,        \* control-plane requests that may overlap
    Events,        \* merchant events of the workspace and environment
    BatchSize,     \* deliveries claimed at a time (Options.BatchSize, 25)
    MaterializeLimit,  \* deliveries made at a time (four batches)
    MaxAttempts,   \* Options.MaxAttempts, 12 unless configured
    MaxFaults,     \* bound on failing calls and crashes of workers
    MaxChanges,    \* bound on the changes of the endpoint
    None           \* no worker, no event, no result

ASSUME DeliveryBounds ==
    /\ BatchSize \in Nat \ {0}
    /\ MaterializeLimit \in Nat \ {0}
    /\ MaxAttempts \in Nat \ {0}
    /\ MaxFaults \in Nat
    /\ MaxChanges \in Nat

VARIABLES
    clock,      \* the time, in events
    created,    \* created_at of each merchant_events row, 0 when there is none
    endpoint,   \* the merchant_webhook_endpoints row
    admin,      \* each control-plane request: what it is about to write
    delivery,   \* the webhook_deliveries row of each event
    history,    \* the webhook_delivery_attempts rows: results by sequence
    pc,         \* the next call of each worker
    local,      \* the batch of each worker
    accepted,   \* history: how often a 2xx answer to the event reached a worker
    lapses,     \* history: events whose lease has ever lapsed
    faults,     \* failing calls so far
    changes     \* changes of the endpoint so far

vars == <<clock, created, endpoint, admin, delivery, history, pc, local,
          accepted, lapses, faults, changes>>

outbox == <<clock, created>>
control == <<endpoint, admin, changes>>
workers == <<pc, local>>

-----------------------------------------------------------------------------

Sequences == 1..MaxAttempts

Open == {"pending", "retry"}

Settled == {"succeeded", "failed"}

Statuses == {"absent"} \cup Open \cup Settled

\* What an attempt came to (classifyDelivery): a 2xx, an answer or error worth
\* another attempt, an answer or target that rules it out.
Results == {"accepted", "again", "refused"}

ASSUME DeliveryNone == None \notin Workers \cup Events \cup Results

Deliveries ==
    [status : Statuses,
     count  : 0..MaxAttempts,         \* attempt_count
     due    : BOOLEAN,                \* next_attempt_at has passed
     owner  : Workers \cup {None},    \* locked_by
     lapsed : BOOLEAN]                \* locked_until has passed

NoDelivery ==
    [status |-> "absent", count |-> 0, due |-> FALSE, owner |-> None, lapsed |-> FALSE]

Endpoints == [enabled : BOOLEAN, activeSince : Nat, updatedAt : Nat]

\* There is no row.
NoEndpoint == [enabled |-> FALSE, activeSince |-> 0, updatedAt |-> 0]

\* What SetEndpoint is about to write.
Requests == [activeSince : Nat, updatedAt : Nat]

NoRequest == [activeSince |-> 0, updatedAt |-> 0]

Batches ==
    [jobs   : SUBSET Events,              \* claimed and not processed yet
     count  : [Events -> 0..MaxAttempts], \* attempt_count as claimed
     job    : Events \cup {None},         \* the one sent last
     result : Results \cup {None},        \* and what came of it
     first  : BOOLEAN]                    \* no job of the batch is completed yet

NoBatch ==
    [jobs |-> {}, count |-> [e \in Events |-> 0], job |-> None, result |-> None,
     first |-> FALSE]

TypeOK ==
    /\ clock \in Nat
    /\ created \in [Events -> Nat]
    /\ endpoint \in Endpoints
    /\ admin \in [Admins -> Requests]
    /\ delivery \in [Events -> Deliveries]
    /\ history \in [Events -> [Sequences -> Results \cup {None}]]
    /\ pc \in [Workers -> {"idle", "claim", "send", "complete"}]
    /\ local \in [Workers -> Batches]
    /\ accepted \in [Events -> 0..2]
    /\ lapses \subseteq Events
    /\ faults \in 0..MaxFaults
    /\ changes \in 0..MaxChanges

\* Nobody has set an endpoint yet; time starts at 1.
Init ==
    /\ clock = 1
    /\ created = [e \in Events |-> 0]
    /\ endpoint = NoEndpoint
    /\ admin = [a \in Admins |-> NoRequest]
    /\ delivery = [e \in Events |-> NoDelivery]
    /\ history = [e \in Events |-> [k \in Sequences |-> None]]
    /\ pc = [w \in Workers |-> "idle"]
    /\ local = [w \in Workers |-> NoBatch]
    /\ accepted = [e \in Events |-> 0]
    /\ lapses = {}
    /\ faults = 0
    /\ changes = 0

-----------------------------------------------------------------------------
(* The outbox and the endpoint.                                             *)

\* A payment's transaction writes a merchant event with the current time.
CreateEvent(e) ==
    /\ created[e] = 0
    /\ created' = [created EXCEPT ![e] = clock]
    /\ clock' = clock + 1
    /\ UNCHANGED <<control, delivery, history, workers, accepted, lapses, faults>>

\* Slip: the stored activation time is taken over whether or not it is in force.
ActivationTimeSlip == endpoint.activeSince

\* SetEndpoint keeps the activation time of an enabled endpoint and starts a new
\* window otherwise.
ActivationTime == IF endpoint.enabled THEN endpoint.activeSince ELSE clock

\* SetEndpoint up to GetWebhookEndpoint.  Without a row a new window begins, as it does
\* with a disabled one.
ReadEndpoint(a) ==
    /\ admin[a] = NoRequest
    /\ changes < MaxChanges
    /\ changes' = changes + 1
    /\ admin' = [admin EXCEPT ![a] =
                    [activeSince |-> ActivationTime, updatedAt |-> clock]]
    /\ UNCHANGED <<outbox, endpoint, delivery, history, workers, accepted, lapses, faults>>

\* UpsertWebhookEndpoint: the row's own activation time wins while it is enabled.
UpsertEndpoint(a) ==
    /\ admin[a] # NoRequest
    /\ endpoint' =
          [enabled     |-> TRUE,
           activeSince |-> IF endpoint.enabled THEN endpoint.activeSince ELSE admin[a].activeSince,
           updatedAt   |-> admin[a].updatedAt]
    /\ admin' = [admin EXCEPT ![a] = NoRequest]
    /\ UNCHANGED <<outbox, changes, delivery, history, workers, accepted, lapses, faults>>

\* DisableWebhookEndpoint updates the row, disabled or not; without one it is
\* ErrNotFound.
DisableEndpoint(a) ==
    /\ admin[a] = NoRequest
    /\ endpoint # NoEndpoint
    /\ changes < MaxChanges
    /\ changes' = changes + 1
    /\ endpoint' = [endpoint EXCEPT !.enabled = FALSE, !.updatedAt = clock]
    /\ UNCHANGED <<outbox, admin, delivery, history, workers, accepted, lapses, faults>>

-----------------------------------------------------------------------------
(* RunOnce.                                                                 *)

\* The events the endpoint is to be told of: those of its activation window.
InWindow(e) ==
    /\ endpoint.enabled
    /\ created[e] # 0
    /\ created[e] >= endpoint.activeSince

Pending == {e \in Events : InWindow(e) /\ delivery[e].status = "absent"}

\* Slip: the limit counts the events that have a delivery already.
OldestSlip(es, limit) ==
    {e \in es : Cardinality({f \in Events : created[f] < created[e]}) < limit}

\* ORDER BY created_at LIMIT.
Oldest(es, limit) ==
    {e \in es : Cardinality({f \in es : created[f] < created[e]}) < limit}

\* MaterializePendingDeliveries.
Materialize(w) ==
    /\ pc[w] = "idle"
    /\ delivery' =
          [e \in Events |->
              IF e \in Oldest(Pending, MaterializeLimit)
              THEN [NoDelivery EXCEPT !.status = "pending", !.due = TRUE]
              ELSE delivery[e]]
    /\ pc' = [pc EXCEPT ![w] = "claim"]
    /\ UNCHANGED <<outbox, control, history, local, accepted, lapses, faults>>

\* Slip: a delivery that has failed for good is claimed again.
UnsettledSlip(e) == delivery[e].status \in Open \cup {"failed"}

Unsettled(e) == delivery[e].status \in Open

\* Slip: a lock is not looked at.
UnlockedSlip(e) == TRUE

\* Slip: a lock is given up only by its holder.
UnlockedNeverSlip(e) == delivery[e].owner = None

Unlocked(e) == delivery[e].owner = None \/ delivery[e].lapsed

Claimable ==
    {e \in Events : endpoint.enabled /\ Unsettled(e) /\ delivery[e].due /\ Unlocked(e)}

\* ClaimDueDeliveries: as many as there are, up to a batch.
Claim(w) ==
    /\ pc[w] = "claim"
    /\ \E batch \in SUBSET Claimable :
          /\ Cardinality(batch) <= BatchSize
          /\ batch # Claimable => Cardinality(batch) = BatchSize
          /\ delivery' =
                [e \in Events |->
                    IF e \in batch
                    THEN [delivery[e] EXCEPT !.owner = w, !.lapsed = FALSE]
                    ELSE delivery[e]]
          /\ local' =
                [local EXCEPT ![w] =
                    [NoBatch EXCEPT !.jobs = batch,
                        !.first = (batch # {}),
                        !.count = [e \in Events |->
                                      IF e \in batch THEN delivery[e].count ELSE 0]]]
          /\ pc' = [pc EXCEPT ![w] = IF batch = {} THEN "idle" ELSE "send"]
    /\ UNCHANGED <<outbox, control, history, accepted, lapses, faults>>

\* processJob up to the answer.  A secret that cannot be decrypted, an answer that
\* does not arrive and a 408, 425, 429 or 5xx are all worth another attempt; the
\* merchant may have processed the request in each case.
Send(w) ==
    /\ pc[w] = "send"
    /\ \E e \in local[w].jobs, result \in Results :
          /\ local' = [local EXCEPT ![w].jobs = local[w].jobs \ {e},
                                    ![w].job = e,
                                    ![w].result = result]
          /\ accepted' =
                [accepted EXCEPT ![e] =
                    IF result = "accepted" /\ accepted[e] < 2
                    THEN accepted[e] + 1 ELSE accepted[e]]
    /\ pc' = [pc EXCEPT ![w] = "complete"]
    /\ UNCHANGED <<outbox, control, delivery, history, lapses, faults>>

\* Slip: the last attempt is never made.
SpentEarlySlip(sequence) == sequence + 1 >= MaxAttempts

Spent(sequence) == sequence >= MaxAttempts

StatusAfter(result, sequence) ==
    CASE result = "accepted" -> "succeeded"
      [] result = "refused"  -> "failed"
      [] result = "again"    -> IF Spent(sequence) THEN "failed" ELSE "retry"

\* Slip: the number of the attempt is added to the count.
CompletedTwiceSlip(row, result, sequence) ==
    [row EXCEPT !.status = StatusAfter(result, sequence),
                !.count  = row.count + sequence,
                !.due    = StatusAfter(result, sequence) # "retry",
                !.owner  = None,
                !.lapsed = FALSE]

\* Slip: the attempt is recorded and not counted.
CompletedSlip(row, result, sequence) ==
    [row EXCEPT !.status = StatusAfter(result, sequence),
                !.due    = StatusAfter(result, sequence) # "retry",
                !.owner  = None,
                !.lapsed = FALSE]

Completed(row, result, sequence) ==
    [row EXCEPT !.status = StatusAfter(result, sequence),
                !.count  = sequence,
                !.due    = StatusAfter(result, sequence) # "retry",
                !.owner  = None,
                !.lapsed = FALSE]

Sequence(w) == local[w].count[local[w].job] + 1

\* CompleteDelivery goes through: the attempt is new and the lock still names w,
\* whether or not its lease has lapsed.
MayComplete(w) ==
    /\ pc[w] = "complete"
    /\ history[local[w].job][Sequence(w)] = None
    /\ delivery[local[w].job].owner = w

Complete(w) ==
    LET e == local[w].job
    IN  /\ MayComplete(w)
        /\ history' = [history EXCEPT ![e] =
                           [history[e] EXCEPT ![Sequence(w)] = local[w].result]]
        /\ delivery' = [delivery EXCEPT ![e] =
                            Completed(delivery[e], local[w].result, Sequence(w))]
        /\ IF local[w].jobs = {}
           THEN /\ pc' = [pc EXCEPT ![w] = "idle"]
                /\ local' = [local EXCEPT ![w] = NoBatch]
           ELSE /\ pc' = [pc EXCEPT ![w] = "send"]
                /\ local' = [local EXCEPT ![w].job = None, ![w].result = None,
                                              ![w].first = FALSE]
        /\ UNCHANGED <<outbox, control, accepted, lapses, faults>>

\* RunOnce returns and leaves the rest of its batch locked.
Abandon(w) ==
    /\ pc' = [pc EXCEPT ![w] = "idle"]
    /\ local' = [local EXCEPT ![w] = NoBatch]

\* The unique (delivery, sequence) index refuses the attempt, or the lock is
\* another's: the transaction is rolled back and the batch given up.
CompleteRefused(w) ==
    /\ pc[w] = "complete"
    /\ ~MayComplete(w)
    /\ Abandon(w)
    /\ UNCHANGED <<outbox, control, delivery, history, accepted, lapses, faults>>

\* A call fails, the worker is shut down or its process dies; another takes over.
Fail(w) ==
    /\ pc[w] # "idle"
    /\ faults < MaxFaults
    /\ faults' = faults + 1
    /\ Abandon(w)
    /\ UNCHANGED <<outbox, control, delivery, history, accepted, lapses>>

-----------------------------------------------------------------------------
(* The passing of time.                                                     *)

LeaseLapses(e) ==
    /\ delivery[e].owner # None
    /\ ~delivery[e].lapsed
    /\ delivery' = [delivery EXCEPT ![e].lapsed = TRUE]
    /\ lapses' = lapses \cup {e}
    /\ UNCHANGED <<outbox, control, history, workers, accepted, faults>>

BecomesDue(e) ==
    /\ delivery[e].status = "retry"
    /\ ~delivery[e].due
    /\ delivery' = [delivery EXCEPT ![e].due = TRUE]
    /\ UNCHANGED <<outbox, control, history, workers, accepted, lapses, faults>>

-----------------------------------------------------------------------------

WorkerStep(w) ==
    \/ Materialize(w) \/ Claim(w) \/ Send(w) \/ Complete(w) \/ CompleteRefused(w)

AdminStep(a) == ReadEndpoint(a) \/ UpsertEndpoint(a) \/ DisableEndpoint(a)

Next ==
    \/ \E w \in Workers : WorkerStep(w) \/ Fail(w)
    \/ \E a \in Admins : AdminStep(a)
    \/ \E e \in Events : CreateEvent(e) \/ LeaseLapses(e) \/ BecomesDue(e)

Spec == Init /\ [][Next]_vars

\* The first request of a batch ends before the leases of the batch do: it takes
\* at most the HTTP timeout, 10 s, and the lease is 30 s.  Nothing is assumed of the
\* other requests of the batch.
FirstIsInTime ==
    \A e \in Events :
        ~delivery[e].lapsed /\ delivery'[e].lapsed => ~local[delivery[e].owner].first

\* The ticker runs a worker again and again, and time passes.
Fairness ==
    /\ \A w \in Workers : WF_vars(WorkerStep(w))
    /\ \A e \in Events : WF_vars(LeaseLapses(e)) /\ WF_vars(BecomesDue(e))

FairSpec == Init /\ [][Next /\ FirstIsInTime]_vars /\ Fairness

-----------------------------------------------------------------------------
(* Properties.                                                              *)

TellsTheStory(row, results) ==
    /\ \A k \in Sequences :
          /\ results[k] # None <=> k <= row.count
          /\ k < row.count => results[k] = "again"
    /\ row.count = 0 <=> row.status \in {"absent", "pending"}
    /\ row.status = "succeeded" => results[row.count] = "accepted"
    /\ row.status = "retry" => results[row.count] = "again" /\ row.count < MaxAttempts
    /\ row.status = "failed" =>
          \/ results[row.count] = "refused"
          \/ results[row.count] = "again" /\ row.count = MaxAttempts

\* The attempts of a delivery tell how it came to its status: numbered without a
\* gap, every one but the last worth another, success by a 2xx and nothing else,
\* failure by a refusal or a spent budget (processJob, CompleteDelivery).
AttemptsTellTheStory == \A e \in Events : TellsTheStory(delivery[e], history[e])

\* A worker whose name is still on the row can record its attempt: no delivery
\* aborts every batch it is in because its next sequence is taken already.
HolderCanComplete ==
    \A w \in Workers :
        pc[w] = "complete" /\ delivery[local[w].job].owner = w => MayComplete(w)

\* A merchant that has answered 2xx gets the event again only if the lease of the
\* delivery lapsed; a crash alone does not repeat it before that.
AcceptedOnceUnlessLapsed ==
    \A e \in Events \ lapses : accepted[e] <= 1

\* However many attempts an event has used up, the delay after any of the next ones is
\* bounded and without overflow (retryDelay, of an attempt_count that only MaxAttempts
\* limits).
BackoffIsBounded ==
    \A e \in Events : \A sequence \in delivery[e].count..45 : EarlyDelays[sequence]

\* No step takes a settled delivery up again or adds to its attempts, not even one
\* of a worker that held it before (ClaimDueDeliveries, CompleteDelivery).
SettledStays ==
    [][\A e \in Events :
          delivery[e].status \in Settled =>
              /\ delivery'[e] = delivery[e]
              /\ history'[e] = history[e]]_vars

\* How far a delivery is: one that failed was refused or has spent its attempts.
StateOf(row, results) ==
    CASE row.status = "absent"    -> "absent"
      [] row.status \in Open      -> "owed"
      [] row.status = "succeeded" -> "delivered"
      [] row.status = "failed"    ->
            IF results[row.count] = "refused" THEN "refused" ELSE "exhausted"

Promise ==
    INSTANCE DeliveryPromise WITH
        Limit <- MaxAttempts,
        state <- [e \in Events |-> StateOf(delivery[e], history[e])],
        tries <- [e \in Events |-> delivery[e].count],
        taken <- {e \in Events : accepted[e] # 0}

\* The workers together keep the promise: attempts are added one at a time, one that
\* lost its lock adds nothing, an event is called delivered only if the merchant took
\* it, and a delivery that has ended is not taken up again (RunOnce, processJob,
\* ClaimDueDeliveries, CompleteDelivery).
KeepsPromise == Promise!Spec

\* Disabling ends the activation window: the next activation starts a new one and
\* does not reach back before the disabling (SetEndpoint, activation_test.go).
WindowResets ==
    [][~endpoint.enabled /\ endpoint'.enabled =>
          endpoint'.activeSince >= endpoint.updatedAt]_vars

\* As long as the endpoint stays enabled, an event of its window is delivered or
\* given up, whatever workers crash, leases lapse or answers get lost.
EventIsSettled ==
    \A e \in Events :
        <>[](endpoint.enabled /\ (InWindow(e) \/ delivery[e].status # "absent"))
            => <>(delivery[e].status \in Settled)

=============================================================================
