------------------------ MODULE PaymentOrchestration ------------------------
(***************************************************************************)
(* The orchestration of one payment intent: the row that a (workspace,     *)
(* idempotency key) names, the provider attempts made for it, and the      *)
(* request handlers of the API that read and write these rows.             *)
(*                                                                         *)
(* Every call a handler makes to the repository or to a payment provider   *)
(* is one step, so the handlers interleave exactly where the Go code       *)
(* (internal/orchestration) gives up control.  Between two calls a handler *)
(* works on its own copies of the rows; SavePayment and SaveAttempt write  *)
(* such a copy back as it is, whatever the row has become meanwhile.       *)
(*                                                                         *)
(* The provider is external.  The only thing assumed of it is what the     *)
(* routing loop relies on: an outcome failed_safe, or a reconciliation     *)
(* that answers not_created, is a proof that no charge exists or will.     *)
(***************************************************************************)
EXTENDS Integers, FiniteSets

CONSTANTS
    Creators,      \* POST /v1/payments requests that carry the idempotency key
    Reconcilers,   \* executions of ReconcilePayment that may overlap
    Receivers,     \* executions of the provider webhook handler that may overlap
    Fingerprints,  \* request bodies, told apart by requestFingerprint
    Conns,         \* the provider connections of the workspace
    MaxAttempts,   \* orchestration.Options.MaxAttempts (3 unless configured)
    MaxFaults,     \* bound on the calls that fail: database errors, cancelled
                   \* request contexts and process crashes alike
    None           \* the empty value of a column

ASSUME BoundsAssumption ==
    /\ MaxAttempts \in Nat \ {0}
    /\ MaxFaults \in Nat

ASSUME ProcessesAssumption ==
    /\ Creators \cap Reconcilers = {}
    /\ Creators \cap Receivers = {}
    /\ Reconcilers \cap Receivers = {}

ASSUME NoneAssumption == None \notin Fingerprints \cup Conns \cup Receivers

VARIABLES
    payment,    \* the payment_intents row
    attempt,    \* the payment_attempts rows, by sequence
    recovery,   \* the recovery_events row
    outbox,     \* the merchant_events rows, by event type
    event,      \* the provider_events row of each attempt's paid event
    eligible,   \* connections that are enabled, valid and whose circuit is not open
    charge,     \* at the provider: the charge of each attempt
    shown,      \* attempts whose Pix the payment row has ever shown
    pc,         \* the next call of each handler
    local,      \* the local variables of each handler
    faults      \* failed calls so far

vars == <<payment, attempt, recovery, outbox, event, eligible, charge, shown,
          pc, local, faults>>

ledger == <<recovery, outbox, event>>
world == <<eligible, charge, faults>>

-----------------------------------------------------------------------------
(* Rows.  The id of an attempt is its sequence number, which                *)
(* payment_attempts keeps unique within a payment; 0 is "no attempt".       *)

Workers == Creators \cup Reconcilers \cup Receivers

Sequences == 1..MaxAttempts
AttemptIds == 0..MaxAttempts

PaymentStatuses ==
    {"absent", "created", "routing", "reconciling", "awaiting_payment", "paid", "failed"}

FailureCodes ==
    {"", "no_eligible_provider", "fallback_budget_exhausted",
     "adapter_not_registered", "provider_failure"}

AttemptStatuses ==
    {"absent", "created", "requesting", "succeeded", "failed_safe", "unknown",
     "failed_terminal"}

PaymentRows ==
    [status      : PaymentStatuses,
     fingerprint : Fingerprints \cup {None},
     active      : AttemptIds,
     presented   : AttemptIds,
     failure     : FailureCodes,
     recovered   : BOOLEAN,
     paidAt      : Receivers \cup {None}]

AttemptRows ==
    [status : AttemptStatuses, conn : Conns \cup {None}, identified : BOOLEAN]

NoPayment ==
    [status |-> "absent", fingerprint |-> None, active |-> 0, presented |-> 0,
     failure |-> "", recovered |-> FALSE, paidAt |-> None]

NoAttempt == [status |-> "absent", conn |-> None, identified |-> FALSE]

NoRecovery == [failed |-> 0, successful |-> 0]

\* The calls a handler can be about to make; "idle" is not yet called, "replied"
\* and "conflict" are the answers a merchant's request ends with.
CreatorSteps == {"existing", "created"}
RoutingSteps ==
    {"list", "history", "select", "activate", "resolve", "unresolved", "create",
     "respond", "settle"}
ReconcileSteps == {"reattempt", "ask", "answered", "reroute"}
WebhookSteps ==
    {"lookup", "load", "verify", "recoveries", "commit", "acknowledge"}
ActiveSteps == CreatorSteps \cup RoutingSteps \cup ReconcileSteps \cup WebhookSteps
Steps == ActiveSteps \cup {"idle", "replied", "conflict"}

\* What the provider holds for an attempt: never asked, certainly nothing, still
\* undecided, a charge that can be paid, a paid charge.
Charges == {"unsent", "none", "inflight", "live", "paid"}

Locals ==
    [pay       : PaymentRows,           \* the intent
     row       : AttemptRows,           \* the attempt
     request   : Fingerprints \cup {None},
     connections : SUBSET Conns,        \* the snapshot the router selects from
     excluded  : SUBSET (Conns \cup {None}),
     count     : AttemptIds,            \* len(attempts)
     target    : AttemptIds,            \* the attempt a webhook is about
     failed    : AttemptIds]            \* the failure a recovery is attributed to

NoLocals ==
    [pay |-> NoPayment, row |-> NoAttempt, request |-> None, connections |-> {},
     excluded |-> {}, count |-> 0, target |-> 0, failed |-> 0]

TypeOK ==
    /\ payment \in PaymentRows
    /\ attempt \in [Sequences -> AttemptRows]
    /\ recovery \in [failed : AttemptIds, successful : AttemptIds]
    /\ outbox \subseteq {"payment.paid", "payment.recovered"}
    /\ event \in [Sequences -> {"absent", "recorded", "processed"}]
    /\ eligible \subseteq Conns
    /\ charge \in [Sequences -> Charges]
    /\ shown \subseteq Sequences
    /\ pc \in [Workers -> Steps]
    /\ local \in [Workers -> Locals]
    /\ faults \in 0..MaxFaults

Init ==
    /\ payment = NoPayment
    /\ attempt = [s \in Sequences |-> NoAttempt]
    /\ recovery = NoRecovery
    /\ outbox = {}
    /\ event = [s \in Sequences |-> "absent"]
    /\ eligible \in SUBSET Conns
    /\ charge = [s \in Sequences |-> "unsent"]
    /\ shown = {}
    /\ pc = [w \in Workers |-> "idle"]
    /\ local = [w \in Workers |-> NoLocals]
    /\ faults = 0

-----------------------------------------------------------------------------
(* What the handlers are built from.                                        *)

Goto(w, step) == pc' = [pc EXCEPT ![w] = step]

\* A handler returns.  A merchant's request has its answer; the other handlers
\* can be called again.
Return(w) ==
    /\ Goto(w, IF w \in Creators THEN "replied" ELSE "idle")
    /\ local' = [local EXCEPT ![w] = NoLocals]

\* SavePayment: every column is overwritten with the handler's copy, and the Pix
\* of the presented attempt is what GET /v1/payments shows from then on.
SavePayment(p) ==
    /\ payment' = p
    /\ shown' = IF p.presented = 0 THEN shown ELSE shown \cup {p.presented}

SaveAttempt(s, row) == attempt' = [attempt EXCEPT ![s] = row]

Recorded == {s \in Sequences : attempt[s].status # "absent"}

\* Slip: the status of the attempt and the strict order are forgotten.
FirstFailedSafeSlip(s) ==
    LET earlier == {t \in Recorded : t <= s}
    IN  IF earlier = {} THEN 0
        ELSE CHOOSE t \in earlier : \A u \in earlier : t <= u

\* The first attempt before s that failed safely, the one a recovery names.
FirstFailedSafe(s) ==
    LET earlier == {t \in Sequences : t < s /\ attempt[t].status = "failed_safe"}
    IN  IF earlier = {} THEN 0
        ELSE CHOOSE t \in earlier : \A u \in earlier : t <= u

MayExist(s) == charge[s] \in {"inflight", "live", "paid"}

-----------------------------------------------------------------------------
(* CreatePayment.                                                           *)

\* GetOrCreatePayment, first statement: INSERT ... ON CONFLICT DO NOTHING.  Only
\* the request whose insert takes effect goes on to routing.
GetOrCreatePayment(w, fingerprint) ==
    LET row == [NoPayment EXCEPT !.status = "created", !.fingerprint = fingerprint]
    IN  /\ pc[w] = "idle"
        /\ \/ /\ payment.status = "absent"
              /\ SavePayment(row)
              /\ local' = [local EXCEPT ![w].pay = row, ![w].request = fingerprint]
              /\ Goto(w, "created")
           \/ /\ payment.status # "absent"
              /\ local' = [local EXCEPT ![w].request = fingerprint]
              /\ Goto(w, "existing")
              /\ UNCHANGED <<payment, shown>>
        /\ UNCHANGED <<attempt, ledger, world>>

SameRequest(w) == payment.fingerprint = local[w].request

Answer(w) == IF SameRequest(w) THEN "replied" ELSE "conflict"

\* GetOrCreatePayment, second statement: the existing row is read and answered,
\* or refused when it was created by another request body.
ReadExisting(w) ==
    /\ pc[w] = "existing"
    /\ Goto(w, Answer(w))
    /\ local' = [local EXCEPT ![w] = NoLocals]
    /\ UNCHANGED <<payment, attempt, ledger, world, shown>>

StartRouting(w) ==
    LET p == [local[w].pay EXCEPT !.status = "routing"]
    IN  /\ pc[w] = "created"
        /\ SavePayment(p)
        /\ local' = [local EXCEPT ![w].pay = p]
        /\ Goto(w, "list")
        /\ UNCHANGED <<attempt, ledger, world>>

-----------------------------------------------------------------------------
(* executeRouting.                                                          *)

\* ListProviderConnections, after the telemetry refresh: the snapshot that every
\* round of the loop selects from.
ListConnections(w) ==
    /\ pc[w] = "list"
    /\ local' = [local EXCEPT ![w].connections = eligible]
    /\ Goto(w, "history")
    /\ UNCHANGED <<payment, attempt, ledger, world, shown>>

\* Slip: only attempts still unknown keep their connection excluded.
AttemptedSlip == {attempt[s].conn : s \in {t \in Recorded : attempt[t].status = "unknown"}}

Attempted == {attempt[s].conn : s \in Recorded}

ListAttempts(w) ==
    /\ pc[w] = "history"
    /\ local' = [local EXCEPT ![w].count = Cardinality(Recorded),
                              ![w].excluded = Attempted]
    /\ Goto(w, "select")
    /\ UNCHANGED <<payment, attempt, ledger, world, shown>>

\* Slip: an insert that finds its sequence taken overwrites the row.
SequenceTakenSlip(w) == FALSE

\* The unique (payment, sequence) index refuses the next attempt.
SequenceTaken(w) ==
    /\ pc[w] = "select"
    /\ local[w].count < MaxAttempts
    /\ attempt[local[w].count + 1].status # "absent"

\* Router.Select and AddAttemptWithRoutingDecision: any eligible connection not
\* tried before may be the best one.
AddAttempt(w) ==
    /\ pc[w] = "select"
    /\ local[w].count < MaxAttempts
    /\ ~SequenceTaken(w)
    /\ \E c \in local[w].connections \ local[w].excluded :
          LET row == [NoAttempt EXCEPT !.status = "created", !.conn = c]
          IN  /\ SaveAttempt(local[w].count + 1, row)
              /\ local' = [local EXCEPT ![w].row = row]
    /\ Goto(w, "activate")
    /\ UNCHANGED <<payment, ledger, world, shown>>

\* Slip: connections tried before are counted as candidates.
NoCandidateSlip(w) == local[w].connections = {}

NoCandidate(w) == local[w].connections \subseteq local[w].excluded

\* Nothing left to select from, or the fallback budget is spent.
GiveUp(w) ==
    LET spent == local[w].count = MaxAttempts
    IN  /\ pc[w] = "select"
        /\ spent \/ NoCandidate(w)
        /\ SavePayment([local[w].pay EXCEPT
              !.status = "failed",
              !.failure = IF spent THEN "fallback_budget_exhausted"
                                   ELSE "no_eligible_provider"])
        /\ Return(w)
        /\ UNCHANGED <<attempt, ledger, world>>

ActivateAttempt(w) ==
    LET p == [local[w].pay EXCEPT !.active = local[w].count + 1]
    IN  /\ pc[w] = "activate"
        /\ SavePayment(p)
        /\ local' = [local EXCEPT ![w].pay = p]
        /\ Goto(w, "resolve")
        /\ UNCHANGED <<attempt, ledger, world>>

\* No adapter can be built for the connection.  An error of this SaveAttempt is
\* ignored, so the handler goes on to fail the payment whether it worked or not.
ResolveFails(w) ==
    /\ pc[w] = "resolve"
    /\ \/ /\ SaveAttempt(local[w].pay.active,
                         [local[w].row EXCEPT !.status = "failed_terminal"])
          /\ UNCHANGED faults
       \/ /\ faults < MaxFaults
          /\ faults' = faults + 1
          /\ UNCHANGED attempt
    /\ Goto(w, "unresolved")
    /\ UNCHANGED <<payment, ledger, eligible, charge, shown, local>>

FailUnresolved(w) ==
    /\ pc[w] = "unresolved"
    /\ SavePayment([local[w].pay EXCEPT
          !.status = "failed", !.failure = "adapter_not_registered"])
    /\ Return(w)
    /\ UNCHANGED <<attempt, ledger, world>>

MarkRequesting(w) ==
    LET row == [local[w].row EXCEPT !.status = "requesting"]
    IN  /\ pc[w] = "resolve"
        /\ SaveAttempt(local[w].pay.active, row)
        /\ local' = [local EXCEPT ![w].row = row]
        /\ Goto(w, "create")
        /\ UNCHANGED <<payment, ledger, world, shown>>

\* Slip: a timeout is classified as a safe failure.
ChargeAfterSlip(outcome) ==
    IF outcome = "succeeded" THEN {"live"} ELSE {"none", "inflight", "live"}

\* What CreatePix may leave at the provider, by the outcome the adapter reports.
\* Only failed_safe proves anything about a charge that was not reported.
ChargeAfter(outcome) ==
    CASE outcome = "succeeded"   -> {"live"}
      [] outcome = "failed_safe" -> {"none"}
      [] OTHER                   -> {"none", "inflight", "live"}

\* The connector gives the id of a charge with a success only (woovi.CreatePix).
CreatePix(w) ==
    /\ pc[w] = "create"
    /\ \E outcome \in {"succeeded", "failed_safe", "unknown", "failed_terminal"} :
          /\ \E c \in ChargeAfter(outcome) :
                charge' = [charge EXCEPT ![local[w].pay.active] = c]
          /\ LET row == [local[w].row EXCEPT !.status = outcome,
                                            !.identified = (outcome = "succeeded")]
             IN  local' = [local EXCEPT ![w].row = row]
    /\ Goto(w, "respond")
    /\ UNCHANGED <<payment, attempt, ledger, eligible, shown, faults>>

\* Slip: an unknown outcome falls back as well.
FallsBackSlip(outcome) == outcome \in {"failed_safe", "unknown"}

FallsBack(outcome) == outcome = "failed_safe"

\* The outcome reaches the attempt row; a safe failure goes round the loop.
SaveOutcome(w) ==
    /\ pc[w] = "respond"
    /\ SaveAttempt(local[w].pay.active, local[w].row)
    /\ \/ /\ FallsBack(local[w].row.status)
          /\ LET l == [local[w] EXCEPT !.count = @ + 1,
                                      !.excluded = @ \cup {local[w].row.conn}]
             IN  local' = [local EXCEPT ![w] = l]
          /\ Goto(w, "select")
       \/ /\ ~FallsBack(local[w].row.status)
          /\ Goto(w, "settle")
          /\ UNCHANGED local
    /\ UNCHANGED <<payment, ledger, world, shown>>

\* Slip: the status of the attempt is copied to the payment.
SettledCopySlip(p, outcome) == [p EXCEPT !.status = outcome, !.presented = p.active]

\* Slip: a terminal outcome does not set the failure code.
SettledSilentSlip(p, outcome) ==
    CASE outcome = "succeeded" ->
            [p EXCEPT !.status = "awaiting_payment", !.presented = p.active]
      [] outcome = "unknown" -> [p EXCEPT !.status = "reconciling"]
      [] OTHER -> [p EXCEPT !.status = "failed"]

\* What the payment becomes with the outcome of its active attempt.
Settled(p, outcome) ==
    CASE outcome = "succeeded" ->
            [p EXCEPT !.status = "awaiting_payment", !.presented = p.active,
                      !.failure = ""]
      [] outcome = "unknown" ->
            [p EXCEPT !.status = "reconciling", !.failure = "provider_failure"]
      [] OTHER ->
            [p EXCEPT !.status = "failed", !.failure = "provider_failure"]

SettlePayment(w) ==
    /\ pc[w] = "settle"
    /\ SavePayment(Settled(local[w].pay, local[w].row.status))
    /\ Return(w)
    /\ UNCHANGED <<attempt, ledger, world>>

-----------------------------------------------------------------------------
(* ReconcilePayment.                                                        *)

\* Slip: a payment that is still being routed is taken on as well.
ReconcilableSlip == payment.status \in {"routing", "reconciling"}

Reconcilable == payment.status = "reconciling"

\* Only a reconciling payment is taken on; nothing keeps a second caller out.
ReadForReconcile(w) ==
    /\ pc[w] = "idle"
    /\ Reconcilable
    /\ local' = [local EXCEPT ![w].pay = payment]
    /\ Goto(w, "reattempt")
    /\ UNCHANGED <<payment, attempt, ledger, world, shown>>

\* Slip: the status of the attempt is not looked at.
UnresolvedSlip(row) == row.status # "absent"

Unresolved(row) == row.status = "unknown"

ReadUnknownAttempt(w) ==
    LET row == attempt[local[w].pay.active]
    IN  /\ pc[w] = "reattempt"
        /\ \/ /\ Unresolved(row)
              /\ local' = [local EXCEPT ![w].row = row]
              /\ Goto(w, "ask")
           \/ /\ ~Unresolved(row)
              /\ Return(w)
        /\ UNCHANGED <<payment, attempt, ledger, world, shown>>

\* The answers a provider may give about an attempt, as the status each becomes.
\* Created and not_created are statements of fact; the others commit to nothing.
Answers(s) ==
    {"unknown", "failed_terminal"}
        \cup (IF charge[s] = "none" THEN {"failed_safe"} ELSE {})
        \cup (IF charge[s] \in {"live", "paid"} THEN {"succeeded"} ELSE {})

\* Connections are never deleted, so the one asked is found whatever its state.
AskProvider(w) ==
    /\ pc[w] = "ask"
    /\ \E answer \in Answers(local[w].pay.active) :
          LET row == [local[w].row EXCEPT !.status = answer,
                                          !.identified = @ \/ answer = "succeeded"]
          IN  local' = [local EXCEPT ![w].row = row]
    /\ Goto(w, "answered")
    /\ UNCHANGED <<payment, attempt, ledger, world, shown>>

SaveAnswer(w) ==
    LET answer == local[w].row.status
    IN  /\ pc[w] = "answered"
        /\ SaveAttempt(local[w].pay.active, local[w].row)
        /\ \/ /\ answer = "unknown"
              /\ Return(w)
           \/ /\ answer # "unknown"
              /\ Goto(w, IF answer = "failed_safe" THEN "reroute" ELSE "settle")
              /\ UNCHANGED local
        /\ UNCHANGED <<payment, ledger, world, shown>>

\* Reconciliation proved that nothing was created: fallback is safe again.
Reroute(w) ==
    LET p == [local[w].pay EXCEPT !.status = "routing", !.failure = ""]
    IN  /\ pc[w] = "reroute"
        /\ SavePayment(p)
        /\ local' = [local EXCEPT ![w].pay = p]
        /\ Goto(w, "list")
        /\ UNCHANGED <<attempt, ledger, world>>

-----------------------------------------------------------------------------
(* ProcessProviderWebhook and MarkPaidWithOutbox.                           *)

\* Slip: every verified event about the charge counts as its payment.
ReportsPaymentSlip(s) == charge[s] \in {"live", "paid"}

\* Slip: a delivery whose event is recorded already is dropped.
ReportsPaymentOnceSlip(s) == charge[s] = "paid" /\ event[s] = "absent"

\* A delivery that ParseWebhook verifies and normalizes to payment.paid.
ReportsPayment(s) == charge[s] = "paid"

\* Slip: the event is recorded with its processing time set.
AfterDeliverySlip(status) == IF status = "absent" THEN "processed" ELSE status

\* ON CONFLICT DO NOTHING.
AfterDelivery(status) == IF status = "absent" THEN "recorded" ELSE status

\* RecordProviderEvent: a duplicate delivery finds the row there, and goes on.
RecordEvent(w, s) ==
    /\ pc[w] = "idle"
    /\ ReportsPayment(s)
    /\ event' = [event EXCEPT ![s] = AfterDelivery(@)]
    /\ local' = [local EXCEPT ![w].target = s]
    /\ Goto(w, "lookup")
    /\ UNCHANGED <<payment, attempt, recovery, outbox, world, shown>>

\* GetAttemptByProviderPaymentID.
FindAttempt(w) ==
    /\ pc[w] = "lookup"
    /\ \/ /\ attempt[local[w].target].identified
          /\ Goto(w, "load")
          /\ UNCHANGED local
       \/ /\ ~attempt[local[w].target].identified
          /\ Return(w)
    /\ UNCHANGED <<payment, attempt, ledger, world, shown>>

ReadForPaid(w) ==
    LET payable == /\ payment.status = "awaiting_payment"
                   /\ payment.presented = local[w].target
    IN  /\ pc[w] = "load"
        /\ \/ /\ payment.status = "paid"
              /\ Goto(w, "acknowledge")
              /\ UNCHANGED local
           \/ /\ payable
              /\ local' = [local EXCEPT ![w].pay = payment]
              /\ Goto(w, "verify")
           \/ /\ payment.status # "paid"
              /\ ~payable
              /\ Return(w)
        /\ UNCHANGED <<payment, attempt, ledger, world, shown>>

VerifyAttempt(w) ==
    /\ pc[w] = "verify"
    /\ \/ /\ attempt[local[w].target].status = "succeeded"
          /\ Goto(w, "recoveries")
          /\ UNCHANGED local
       \/ /\ attempt[local[w].target].status # "succeeded"
          /\ Return(w)
    /\ UNCHANGED <<payment, attempt, ledger, world, shown>>

FindRecovery(w) ==
    /\ pc[w] = "recoveries"
    /\ local' = [local EXCEPT ![w].failed = FirstFailedSafe(local[w].target)]
    /\ Goto(w, "commit")
    /\ UNCHANGED <<payment, attempt, ledger, world, shown>>

\* Slip: the recovered event is left out.
MerchantEventsSlip(p) == {"payment.paid"}

MerchantEvents(p) ==
    {"payment.paid"} \cup (IF p.recovered THEN {"payment.recovered"} ELSE {})

\* MarkPaymentPaidWithEvents: one transaction writes the payment, the recovery
\* and the merchant events; rows that exist already are left as they are.
CommitPaid(w) ==
    LET recovers == local[w].failed # 0
        p == [local[w].pay EXCEPT !.status = "paid", !.paidAt = w,
                                  !.recovered = @ \/ recovers]
    IN  /\ pc[w] = "commit"
        /\ SavePayment(p)
        /\ recovery' = IF recovers /\ recovery = NoRecovery
                       THEN [failed |-> local[w].failed, successful |-> local[w].target]
                       ELSE recovery
        /\ outbox' = outbox \cup MerchantEvents(p)
        /\ Goto(w, "acknowledge")
        /\ UNCHANGED <<attempt, event, world, local>>

\* MarkProviderEventProcessed, and the 2xx that ends the provider's redelivery.
AcknowledgeEvent(w) ==
    /\ pc[w] = "acknowledge"
    /\ event' = [event EXCEPT ![local[w].target] = "processed"]
    /\ Return(w)
    /\ UNCHANGED <<payment, attempt, recovery, outbox, world, shown>>

-----------------------------------------------------------------------------
(* What happens around the handlers.                                        *)

\* A call returns an error, the request's context is cancelled or the process
\* dies: the handler goes no further, and nothing of what it did is undone.
Fail(w) ==
    /\ pc[w] \in ActiveSteps
    /\ \/ /\ faults < MaxFaults
          /\ faults' = faults + 1
       \/ /\ SequenceTaken(w)
          /\ UNCHANGED faults
    /\ Return(w)
    /\ UNCHANGED <<payment, attempt, ledger, eligible, charge, shown>>

\* The control plane or the circuit breaker takes a connection out or back in.
ChangeConnection(c) ==
    /\ eligible' = IF c \in eligible THEN eligible \ {c} ELSE eligible \cup {c}
    /\ UNCHANGED <<payment, attempt, ledger, charge, shown, pc, local, faults>>

\* An undecided creation is decided after the call has been given up on.
DecideCharge(s) ==
    /\ charge[s] = "inflight"
    /\ \E c \in {"none", "live"} : charge' = [charge EXCEPT ![s] = c]
    /\ UNCHANGED <<payment, attempt, ledger, eligible, shown, pc, local, faults>>

\* The customer pays a Pix that was shown.
CustomerPays(s) ==
    /\ charge[s] = "live"
    /\ s \in shown
    /\ charge' = [charge EXCEPT ![s] = "paid"]
    /\ UNCHANGED <<payment, attempt, ledger, eligible, shown, pc, local, faults>>

-----------------------------------------------------------------------------

CreatorStep(w) == ReadExisting(w) \/ StartRouting(w)

RoutingStep(w) ==
    \/ ListConnections(w) \/ ListAttempts(w)
    \/ AddAttempt(w)      \/ GiveUp(w)
    \/ ActivateAttempt(w)
    \/ ResolveFails(w)    \/ FailUnresolved(w)
    \/ MarkRequesting(w)  \/ CreatePix(w)
    \/ SaveOutcome(w)     \/ SettlePayment(w)

ReconcileStep(w) ==
    \/ ReadUnknownAttempt(w) \/ AskProvider(w)
    \/ SaveAnswer(w)         \/ Reroute(w)

WebhookStep(w) ==
    \/ FindAttempt(w)   \/ ReadForPaid(w)
    \/ VerifyAttempt(w) \/ FindRecovery(w)
    \/ CommitPaid(w)    \/ AcknowledgeEvent(w)

Next ==
    \/ \E w \in Creators : \/ \E f \in Fingerprints : GetOrCreatePayment(w, f)
                           \/ CreatorStep(w)
                           \/ RoutingStep(w)
    \/ \E w \in Reconcilers : \/ ReadForReconcile(w)
                              \/ ReconcileStep(w)
                              \/ RoutingStep(w)
    \/ \E w \in Receivers : \/ \E s \in Sequences : RecordEvent(w, s)
                            \/ WebhookStep(w)
    \/ \E w \in Workers : Fail(w)
    \/ \E c \in Conns : ChangeConnection(c)
    \/ \E s \in Sequences : DecideCharge(s) \/ CustomerPays(s)

Spec == Init /\ [][Next]_vars

\* A running handler goes on to its next call, and a provider redelivers a paid
\* event until it is acknowledged.  Nobody has to create, reconcile or pay.
Fairness ==
    /\ \A w \in Creators : WF_vars(CreatorStep(w) \/ RoutingStep(w))
    /\ \A w \in Reconcilers : WF_vars(ReconcileStep(w) \/ RoutingStep(w))
    /\ \A w \in Receivers : WF_vars(WebhookStep(w))
    /\ \A s \in Sequences :
          WF_vars(\E w \in Receivers : event[s] # "processed" /\ RecordEvent(w, s))

FairSpec == Spec /\ Fairness

-----------------------------------------------------------------------------
(* Properties.                                                              *)

\* A handler owns the routing of the payment from the insert that created it, or
\* from the read that found it reconciling, to its last write.
OwnerSteps == {"created"} \cup RoutingSteps \cup ReconcileSteps

Owns(w) == pc[w] \in OwnerSteps

\* At most one handler routes or reconciles the payment at a time, although no
\* row is locked: the insert elects the creator, and a reconciliation can start
\* only after the creator's last write.
SingleOwner == \A v, w \in Workers : Owns(v) /\ Owns(w) => v = w

\* The failure the system exists to prevent: two attempts of one payment that
\* may both have a charge a customer could pay (executeRouting, ReconcilePayment).
NoDuplicateCharge ==
    \A s, t \in Sequences : MayExist(s) /\ MayExist(t) => s = t

\* An attempt is added only when every earlier one has failed safely; an unknown
\* or unfinished attempt blocks the fallback, also after a crash (INV-004).
FallbackOnlyAfterSafeFailure ==
    \A s, t \in Sequences :
        s < t /\ t \in Recorded => attempt[s].status = "failed_safe"

\* Whatever is read, retried or reconciled, a payment shows one Pix (INV-005).
OnePix == \A s, t \in shown : s = t

\* A fallback never goes back to a connection tried before: the exclusion list
\* and the unique sequence keep even overlapping routings off it.
ConnectionsDiffer ==
    \A s, t \in Recorded : attempt[s].conn = attempt[t].conn => s = t

\* CreatePix is called at most once for an attempt, whatever fails around it.
AttemptSentOnce ==
    \A w \in Workers : pc[w] = "create" => charge[local[w].pay.active] = "unsent"

\* A payment is paid only by a charge that the customer paid and that the payment
\* presented (MarkPaidWithOutbox).
PaidIsEarned ==
    payment.status = "paid" =>
        payment.presented \in Sequences /\ charge[payment.presented] = "paid"

\* A recovery is attributed to a paid payment, to a failure that left nothing at
\* the provider and that precedes the attempt that was paid (INV-007).
RecoveryIsEarned ==
    /\ payment.recovered <=> recovery # NoRecovery
    /\ recovery # NoRecovery =>
          /\ payment.status = "paid"
          /\ recovery.successful = payment.presented
          /\ recovery.failed \in 1..(recovery.successful - 1)
          /\ attempt[recovery.failed].status = "failed_safe"
          /\ charge[recovery.failed] = "none"

\* The merchant is told of what happened to the payment and of nothing else: the
\* outbox and the row change together (MarkPaymentPaidWithEvents).
OutboxMatchesPayment ==
    /\ "payment.paid" \in outbox <=> payment.status = "paid"
    /\ "payment.recovered" \in outbox <=> payment.recovered

\* Whatever is stored about the payment, its attempts, events, recoveries and the
\* merchant's notices is so at the provider, also when stale copies are written over
\* newer rows: nothing is shown, confirmed or reported that was not created or paid
\* (executeRouting, ReconcilePayment, ProcessProviderWebhook).
NothingIsInvented ==
    /\ PaidIsEarned
    /\ \A s \in Sequences :
          /\ attempt[s].status = "succeeded" => charge[s] \in {"live", "paid"}
          /\ attempt[s].status = "failed_safe" => charge[s] = "none"
          /\ s \in shown => charge[s] \in {"live", "paid"}
          /\ event[s] # "absent" => charge[s] = "paid"
    /\ "payment.paid" \in outbox => \E s \in Sequences : charge[s] = "paid"
    /\ "payment.recovered" \in outbox => recovery # NoRecovery
    /\ recovery # NoRecovery =>
          /\ recovery.successful \in Sequences /\ charge[recovery.successful] = "paid"
          /\ recovery.failed \in 1..(recovery.successful - 1)
          /\ charge[recovery.failed] = "none"

\* The provider's event is acknowledged only when its payment is recorded as paid,
\* so that no crash between the two loses a payment (ProcessProviderWebhook).
ProcessedMeansPaid ==
    \A s \in Sequences :
        event[s] = "processed" => payment.status = "paid" /\ payment.presented = s

\* A failure the orchestrator itself decided on leaves nothing to pay anywhere.
OwnFailureLeavesNoCharge ==
    payment.status = "failed" /\ payment.failure # "provider_failure" =>
        \A s \in Sequences : ~MayExist(s)

\* No step takes a paid payment back or changes the attempt it was paid by.
PaidIsTerminal ==
    [][payment.status = "paid" =>
          payment'.status = "paid" /\ payment'.presented = payment.presented]_vars

\* The row of an attempt never leaves a status that settles it, not even through a
\* write of a stale copy.
SettledAttemptsStay ==
    [][\A s \in Sequences :
          attempt[s].status \in {"succeeded", "failed_safe", "failed_terminal"} =>
              attempt'[s] = attempt[s]]_vars

\* A charge the customer paid is recorded as paid, in spite of every failed call:
\* the event is redelivered and its processing starts over.
PaidChargeIsRecorded ==
    \A s \in Sequences : charge[s] = "paid" ~> payment.status = "paid"

\* As long as no call fails, a created payment leaves "created" and "routing".
CreatedPaymentSettles ==
    payment.status = "created"
        ~> payment.status \in {"awaiting_payment", "reconciling", "failed", "paid"}
              \/ faults > 0

=============================================================================
