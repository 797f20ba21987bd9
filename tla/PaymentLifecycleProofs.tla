----------------------- MODULE PaymentLifecycleProofs -----------------------
(***************************************************************************)
(* The orchestration implements PaymentLifecycle: its initial states map   *)
(* to initial states and, from a state that satisfies IInv, each of its    *)
(* steps maps to a step of the lifecycle or to none.  Its rows implement   *)
(* ProviderPort in the same way.                                           *)
(***************************************************************************)
EXTENDS PaymentOrchestrationProofs

\* What the lifecycle sees of the rows.
Seen == <<payment.status, payment.recovered, shown, outbox, charge>>

\* A step behind the scenes.
LEMMA UnseenIsStutter ==
    ASSUME UNCHANGED Seen
    PROVE  UNCHANGED Lifecycle!vars
BY DEF Seen, Lifecycle!vars

\* A provider call or decision that pays nothing.
LEMMA UnpaidIsStutter ==
    ASSUME NEW n \in Sequences, NEW c \in Charges \ {"paid"},
           charge \in [Sequences -> Charges],
           charge[n] # "paid",
           charge' = [charge EXCEPT ![n] = c],
           UNCHANGED <<payment, shown, outbox>>
    PROVE  UNCHANGED Lifecycle!vars
BY DEF Lifecycle!vars

LEMMA InitMaps == Init => Lifecycle!Init
<1> SUFFICES ASSUME Init
             PROVE  Lifecycle!Init
  OBVIOUS
<1>1. \A s \in Sequences : charge[s] # "paid"
  BY DEF Init
<1>2. {s \in Sequences : charge[s] = "paid"} = {}
  BY <1>1
<1>3. payment.status = "absent" /\ payment.recovered = FALSE
  BY DEF Init, NoPayment
<1> QED
  BY <1>2, <1>3 DEF Init, Lifecycle!Init

LEMMA GetOrCreatePaymentMaps ==
    ASSUME IInv, NEW w \in Creators, NEW f \in Fingerprints, GetOrCreatePayment(w, f)
    PROVE  [Lifecycle!Next]_(Lifecycle!vars)
<1>1. CASE payment.status = "absent"
  <2>1. payment = NoPayment
    BY <1>1 DEF IInv, PaymentAgrees
  <2>2. /\ SavePayment([NoPayment EXCEPT !.status = "created", !.fingerprint = f])
        /\ UNCHANGED <<attempt, ledger, world>>
    BY <1>1 DEF GetOrCreatePayment
  <2>3. Lifecycle!Accept
    BY <1>1, <2>1, <2>2 DEF SavePayment, NoPayment, Lifecycle!Accept, ledger, world
  <2> QED
    BY <2>3 DEF Lifecycle!Next
<1>2. CASE payment.status # "absent"
  BY <1>2, UnseenIsStutter DEF GetOrCreatePayment, ledger, world, Seen
<1> QED
  BY <1>1, <1>2

LEMMA StartRoutingMaps ==
    ASSUME IInv, NEW w \in Creators, StartRouting(w)
    PROVE  [Lifecycle!Next]_(Lifecycle!vars)
<1>1. w \in Workers /\ Owns(w) /\ pc[w] = "created"
  BY DEF StartRouting, Owns, OwnerSteps, Workers
<1>2. /\ local[w].pay = payment
      /\ payment \in PaymentRows
      /\ payment.presented = 0
      /\ payment.status = "created"
  BY <1>1, OwnerFacts DEF OwnerStatus
<1>3. Lifecycle!Route
  BY <1>2 DEF StartRouting, SavePayment, PaymentRows, ledger, world, Lifecycle!Route
<1> QED
  BY <1>3 DEF Lifecycle!Next

LEMMA GivingUpMaps ==
    ASSUME IInv, NEW w \in Workers, GiveUp(w) \/ FailUnresolved(w)
    PROVE  [Lifecycle!Next]_(Lifecycle!vars)
<1>1. Owns(w) /\ pc[w] \in {"select", "unresolved"}
  BY DEF GiveUp, FailUnresolved, Owns, OwnerSteps, RoutingSteps
<1>2. /\ local[w].pay = payment
      /\ payment \in PaymentRows
      /\ payment.presented = 0
      /\ payment.status = "routing"
  BY <1>1, OwnerFacts DEF OwnerStatus, RoutingSteps
<1>3. Lifecycle!Fail
  BY <1>2 DEF GiveUp, FailUnresolved, SavePayment, PaymentRows, ledger, world, Lifecycle!Fail
<1> QED
  BY <1>3 DEF Lifecycle!Next

LEMMA ActivateAttemptMaps ==
    ASSUME IInv, NEW w \in Workers, ActivateAttempt(w)
    PROVE  [Lifecycle!Next]_(Lifecycle!vars)
<1>1. Owns(w)
  BY DEF ActivateAttempt, Owns, OwnerSteps, RoutingSteps
<1>2. local[w].pay = payment /\ payment \in PaymentRows /\ payment.presented = 0
  BY <1>1, OwnerFacts
<1>3. UNCHANGED Seen
  BY <1>2 DEF ActivateAttempt, SavePayment, PaymentRows, ledger, world, Seen
<1> QED
  BY <1>3, UnseenIsStutter

LEMMA CreatePixMaps ==
    ASSUME IInv, NEW w \in Workers, CreatePix(w)
    PROVE  [Lifecycle!Next]_(Lifecycle!vars)
<1>1. Owns(w) /\ pc[w] = "create"
  BY DEF CreatePix, Owns, OwnerSteps, RoutingSteps
<1> DEFINE n == payment.active
<1>2. local[w].pay = payment /\ n \in Sequences /\ charge[n] = "unsent"
  BY <1>1, OwnerFacts DEF OwnerRows, LastIs
<1>3. PICK c \in Charges \ {"paid"} : charge' = [charge EXCEPT ![n] = c]
  BY <1>2 DEF CreatePix, ChargeAfter, Charges
<1> QED
  BY <1>2, <1>3, UnpaidIsStutter DEF CreatePix, ledger, IInv, TypeOK

LEMMA SettlePaymentMaps ==
    ASSUME IInv, NEW w \in Workers, SettlePayment(w)
    PROVE  [Lifecycle!Next]_(Lifecycle!vars)
<1> DEFINE p == Settled(local[w].pay, local[w].row.status)
           n == payment.active
<1>1. Owns(w) /\ pc[w] = "settle"
  BY DEF SettlePayment, Owns, OwnerSteps, RoutingSteps
<1>2. /\ local[w].pay = payment
      /\ payment \in PaymentRows
      /\ payment.presented = 0
      /\ payment.status \in {"routing", "reconciling"}
      /\ LastIs(n, {"succeeded", "unknown", "failed_terminal"})
      /\ attempt[n] = local[w].row
      /\ shown = {}
  BY <1>1, OwnerFacts, OwnerIsOpen DEF OwnerStatus, OwnerRows
<1>3. SavePayment(p) /\ UNCHANGED <<ledger, world>>
  BY DEF SettlePayment
<1>4. n \in Sequences /\ local[w].row.status \in {"succeeded", "unknown", "failed_terminal"}
  BY <1>2 DEF LastIs
<1>5. /\ p.recovered = payment.recovered
      /\ \/ p.status = "awaiting_payment" /\ p.presented = n
         \/ p.status = "reconciling" /\ p.presented = 0
         \/ p.status = "failed" /\ p.presented = 0
  BY <1>2, <1>4, SettledFacts
<1> HIDE DEF p
<1>6. /\ payment' = p
      /\ shown' = IF p.presented = 0 THEN shown ELSE shown \cup {p.presented}
      /\ UNCHANGED <<outbox, charge>>
  BY <1>3 DEF SavePayment, ledger, world
<1>7. CASE p.status = "awaiting_payment"
  <2>1. shown' = {n}
    BY <1>2, <1>4, <1>5, <1>6, <1>7, BoundsAssumption DEF Sequences
  <2>2. Lifecycle!Present(n)
    BY <1>2, <1>5, <1>6, <1>7, <2>1 DEF Lifecycle!Present
  <2> QED
    BY <1>4, <2>2 DEF Lifecycle!Next
<1>8. CASE p.status = "reconciling"
  <2>1. payment.status = "routing" => Lifecycle!Doubt
    BY <1>5, <1>6, <1>8 DEF Lifecycle!Doubt
  <2>2. payment.status = "reconciling" => UNCHANGED Lifecycle!vars
    BY <1>5, <1>6, <1>8 DEF Lifecycle!vars
  <2> QED
    BY <1>2, <2>1, <2>2 DEF Lifecycle!Next
<1>9. CASE p.status = "failed"
  BY <1>2, <1>5, <1>6, <1>9 DEF Lifecycle!Fail, Lifecycle!Next
<1> QED
  BY <1>5, <1>7, <1>8, <1>9

LEMMA RerouteMaps ==
    ASSUME IInv, NEW w \in Workers, Reroute(w)
    PROVE  [Lifecycle!Next]_(Lifecycle!vars)
<1>1. Owns(w) /\ pc[w] = "reroute"
  BY DEF Reroute, Owns, OwnerSteps, ReconcileSteps
<1>2. /\ local[w].pay = payment
      /\ payment \in PaymentRows
      /\ payment.presented = 0
      /\ payment.status = "reconciling"
  BY <1>1, OwnerFacts DEF OwnerStatus, ReconcileSteps
<1>3. Lifecycle!Route
  BY <1>2 DEF Reroute, SavePayment, PaymentRows, ledger, world, Lifecycle!Route
<1> QED
  BY <1>3 DEF Lifecycle!Next

\* The first commit of a paid event is Pay; one that overlaps it writes again what
\* is there, which the lifecycle does not see.
LEMMA CommitPaidMaps ==
    ASSUME IInv, NEW w \in Receivers, CommitPaid(w)
    PROVE  [Lifecycle!Next]_(Lifecycle!vars)
<1> DEFINE s == local[w].target
           recovers == local[w].failed # 0
           p == [local[w].pay EXCEPT !.status = "paid", !.paidAt = w,
                                     !.recovered = @ \/ recovers]
<1>1. /\ payment.status \in {"awaiting_payment", "paid"}
      /\ payment.presented = s
      /\ s \in Sequences
      /\ charge[s] = "paid"
      /\ local[w].pay \in PaymentRows
      /\ local[w].pay.presented = s
      /\ ~local[w].pay.recovered
      /\ local[w].failed = Recovery(s).failed
  BY ReceiverFacts DEF CommitPaid, ReceiverKnows, WebhookSteps, Locals
<1>2. s # 0 /\ shown = {s}
  BY <1>1, BoundsAssumption DEF IInv, PaymentAgrees, Sequences
<1>3. /\ payment' = p
      /\ shown' = shown
      /\ outbox' = outbox \cup MerchantEvents(p)
      /\ charge' = charge
  BY <1>1, <1>2 DEF CommitPaid, SavePayment, PaymentRows, world
<1>4. p.status = "paid" /\ p.recovered = recovers /\ recovers \in BOOLEAN
  BY <1>1 DEF PaymentRows
<1>5. recovers = (s > 1)
  BY <1>1 DEF Recovery, NoRecovery, Sequences
<1> HIDE DEF p, recovers
<1>6. CASE payment.status = "awaiting_payment"
  <2>1. outbox = {}
    BY <1>6 DEF IInv, LedgerAgrees
  <2>2. outbox' = {"payment.paid"}
                     \cup (IF payment'.recovered THEN {"payment.recovered"} ELSE {})
    BY <1>3, <2>1 DEF MerchantEvents
  <2>3. Lifecycle!Pay
    BY <1>1, <1>2, <1>3, <1>4, <1>6, <2>2 DEF Lifecycle!Pay
  <2> QED
    BY <2>3 DEF Lifecycle!Next
<1>7. CASE payment.status = "paid"
  <2>1. payment.recovered = (s > 1) /\ outbox = MerchantEvents(payment)
    BY <1>1, <1>7 DEF IInv, LedgerAgrees
  <2>2. payment'.recovered = payment.recovered
    BY <1>3, <1>4, <1>5, <2>1
  <2>3. outbox' = outbox
    BY <1>3, <2>1, <2>2 DEF MerchantEvents
  <2> QED
    BY <1>3, <1>4, <1>7, <2>2, <2>3 DEF Lifecycle!vars
<1> QED
  BY <1>1, <1>6, <1>7

LEMMA CustomerPaysMaps ==
    ASSUME IInv, NEW s \in Sequences, CustomerPays(s)
    PROVE  [Lifecycle!Next]_(Lifecycle!vars)
<1>1. charge \in [Sequences -> Charges]
  BY DEF IInv, TypeOK
<1>2. {t \in Sequences : charge'[t] = "paid"} = {t \in Sequences : charge[t] = "paid"} \cup {s}
  BY <1>1 DEF CustomerPays
<1>3. Lifecycle!CustomerPays(s)
  BY <1>2 DEF CustomerPays, ledger, Lifecycle!CustomerPays
<1> QED
  BY <1>3 DEF Lifecycle!Next

LEMMA DecideChargeMaps ==
    ASSUME IInv, NEW s \in Sequences, DecideCharge(s)
    PROVE  [Lifecycle!Next]_(Lifecycle!vars)
<1>1. PICK c \in {"none", "live"} : charge' = [charge EXCEPT ![s] = c]
  BY DEF DecideCharge
<1> QED
  BY <1>1, UnpaidIsStutter DEF DecideCharge, ledger, Charges, IInv, TypeOK

\* The steps of which the merchant sees nothing: reads, saves of attempts, failures.
LEMMA OthersMap ==
    ASSUME NEW w \in Workers,
           \/ ReadExisting(w)
           \/ ListConnections(w) \/ ListAttempts(w) \/ AddAttempt(w)
           \/ ResolveFails(w) \/ MarkRequesting(w) \/ SaveOutcome(w)
           \/ ReadForReconcile(w) \/ ReadUnknownAttempt(w) \/ AskProvider(w) \/ SaveAnswer(w)
           \/ \E s \in Sequences : RecordEvent(w, s)
           \/ FindAttempt(w) \/ ReadForPaid(w) \/ VerifyAttempt(w) \/ FindRecovery(w)
           \/ AcknowledgeEvent(w)
           \/ Fail(w)
           \/ \E c \in Conns : ChangeConnection(c)
    PROVE  UNCHANGED Lifecycle!vars
<1>1. UNCHANGED Seen
  BY DEF ReadExisting, ListConnections, ListAttempts, AddAttempt, ResolveFails, MarkRequesting,
         SaveOutcome, ReadForReconcile, ReadUnknownAttempt, AskProvider, SaveAnswer,
         RecordEvent, FindAttempt, ReadForPaid, VerifyAttempt, FindRecovery, AcknowledgeEvent,
         Fail, ChangeConnection, ledger, world, Seen
<1> QED
  BY <1>1, UnseenIsStutter

LEMMA RoutingStepMaps ==
    ASSUME IInv, NEW w \in Workers, RoutingStep(w)
    PROVE  [Lifecycle!Next]_(Lifecycle!vars)
BY OthersMap, GivingUpMaps, ActivateAttemptMaps, CreatePixMaps, SettlePaymentMaps
   DEF RoutingStep

LEMMA NextMaps == IInv /\ [Next]_vars => [Lifecycle!Next]_(Lifecycle!vars)
<1> SUFFICES ASSUME IInv, [Next]_vars
             PROVE  [Lifecycle!Next]_(Lifecycle!vars)
  OBVIOUS
<1>0. Creators \subseteq Workers /\ Reconcilers \subseteq Workers /\ Receivers \subseteq Workers
  BY DEF Workers
<1>1. ASSUME NEW w \in Creators,
             \/ \E f \in Fingerprints : GetOrCreatePayment(w, f)
             \/ CreatorStep(w)
             \/ RoutingStep(w)
      PROVE  [Lifecycle!Next]_(Lifecycle!vars)
  BY <1>0, <1>1, GetOrCreatePaymentMaps, StartRoutingMaps, RoutingStepMaps, OthersMap
     DEF CreatorStep
<1>2. ASSUME NEW w \in Reconcilers,
             ReadForReconcile(w) \/ ReconcileStep(w) \/ RoutingStep(w)
      PROVE  [Lifecycle!Next]_(Lifecycle!vars)
  BY <1>0, <1>2, RerouteMaps, RoutingStepMaps, OthersMap DEF ReconcileStep
<1>3. ASSUME NEW w \in Receivers,
             (\E s \in Sequences : RecordEvent(w, s)) \/ WebhookStep(w)
      PROVE  [Lifecycle!Next]_(Lifecycle!vars)
  BY <1>0, <1>3, CommitPaidMaps, OthersMap DEF WebhookStep
<1>4. ASSUME NEW w \in Workers, Fail(w)
      PROVE  [Lifecycle!Next]_(Lifecycle!vars)
  BY <1>4, OthersMap
<1>5. ASSUME NEW c \in Conns, ChangeConnection(c)
      PROVE  [Lifecycle!Next]_(Lifecycle!vars)
  BY <1>5, UnseenIsStutter DEF ChangeConnection, ledger, Seen
<1>6. ASSUME NEW s \in Sequences, DecideCharge(s) \/ CustomerPays(s)
      PROVE  [Lifecycle!Next]_(Lifecycle!vars)
  BY <1>6, DecideChargeMaps, CustomerPaysMaps
<1>7. CASE UNCHANGED vars
  BY <1>7, UnseenIsStutter DEF vars, ledger, Seen
<1> QED
  BY <1>1, <1>2, <1>3, <1>4, <1>5, <1>6, <1>7 DEF Next

\* The orchestration implements the promise to the merchant, for any number of
\* requests, webhook executions, connections, attempts and failing calls.
THEOREM LifecycleKept == Spec => KeepsLifecycle
<1>1. Init => Lifecycle!Init
  BY InitMaps
<1>2. IInv /\ [Next]_vars => [Lifecycle!Next]_(Lifecycle!vars)
  BY NextMaps
<1> QED
  BY <1>1, <1>2, Invariance, PTL DEF Spec, KeepsLifecycle, Lifecycle!Spec

-----------------------------------------------------------------------------
(* The port.                                                                *)

Quiet == {"absent", "created", "requesting"}

LEMMA PortStutters ==
    ASSUME UNCHANGED <<attempt, charge>>
    PROVE  UNCHANGED Port!vars
BY DEF Port!vars, Told

\* A saved row changes what is told of its attempt only.
LEMMA SavedIsTold ==
    ASSUME IInv, NEW n \in Sequences, NEW row, SaveAttempt(n, row)
    PROVE  Told' = [Told EXCEPT ![n] = IF row.status \in Quiet THEN "nothing" ELSE row.status]
<1>1. attempt'[n] = row /\ \A s \in Sequences \ {n} : attempt'[s] = attempt[s]
  BY DEF SaveAttempt, IInv, TypeOK
<1> QED
  BY <1>1 DEF Told, Quiet

\* A row that does not say more than before.
LEMMA QuietSave ==
    ASSUME IInv, NEW n \in Sequences, NEW row, SaveAttempt(n, row), UNCHANGED charge,
           attempt[n].status \in Quiet, row.status \in Quiet
    PROVE  UNCHANGED Port!vars
<1>1. Told' = [Told EXCEPT ![n] = "nothing"] /\ Told[n] = "nothing"
  BY SavedIsTold DEF Told, Quiet
<1> QED
  BY <1>1 DEF Port!vars, Told

\* A row that tells what the connector answered.
LEMMA AnswerIsTell ==
    ASSUME IInv, NEW n \in Sequences, NEW row, SaveAttempt(n, row), UNCHANGED charge,
           attempt[n].status \in Quiet \cup {"unknown"},
           row.status \in Outcomes,
           row.status = "failed_safe" => charge[n] = "none",
           row.status = "succeeded" => charge[n] \in {"live", "paid"}
    PROVE  Port!Next
<1>1. Told' = [Told EXCEPT ![n] = row.status]
  BY SavedIsTold DEF Quiet, Outcomes
<1>2. Told[n] \in {"nothing", "unknown"}
  BY DEF Told, Quiet
<1>3. row.status \in Port!True(n)
  BY DEF Port!True, Outcomes
<1>4. Port!Tell(n)
  BY <1>1, <1>2, <1>3 DEF Port!Tell
<1> QED
  BY <1>4 DEF Port!Next

LEMMA InitIsPort == Init => Port!Init
BY DEF Init, NoAttempt, Told, Port!Init

LEMMA AddAttemptIsPort ==
    ASSUME IInv, NEW w \in Workers, AddAttempt(w)
    PROVE  UNCHANGED Port!vars
<1>1. Owns(w) /\ pc[w] = "select"
  BY DEF AddAttempt, Owns, OwnerSteps, RoutingSteps
<1> DEFINE n == local[w].count + 1
<1>2. n \in Sequences /\ attempt[n].status \in Quiet
  BY <1>1, OwnerFacts, BoundsAssumption
     DEF AddAttempt, SequenceTaken, Locals, AttemptIds, Sequences, Quiet
<1>3. PICK c \in Conns : SaveAttempt(n, [NoAttempt EXCEPT !.status = "created", !.conn = c])
  <2>1. local[w].connections \subseteq Conns
    BY <1>1, OwnerFacts DEF Locals
  <2> QED
    BY <2>1, ZenonT(40) DEF AddAttempt
<1>4. [NoAttempt EXCEPT !.status = "created", !.conn = c].status \in Quiet
  BY DEF NoAttempt, Quiet
<1>5. UNCHANGED charge
  BY DEF AddAttempt, world
<1> QED
  BY <1>2, <1>3, <1>4, <1>5, QuietSave

LEMMA ResolveFailsIsPort ==
    ASSUME IInv, NEW w \in Workers, ResolveFails(w)
    PROVE  [Port!Next]_(Port!vars)
<1> DEFINE n == payment.active
           row == [local[w].row EXCEPT !.status = "failed_terminal"]
<1>1. Owns(w) /\ pc[w] = "resolve"
  BY DEF ResolveFails, Owns, OwnerSteps, RoutingSteps
<1>2. local[w].pay = payment /\ LastIs(n, {"created"}) /\ local[w].row \in AttemptRows
  BY <1>1, OwnerFacts DEF OwnerRows, Locals
<1>3. n \in Sequences /\ attempt[n].status \in Quiet
  BY <1>2 DEF LastIs, Quiet
<1>4. row.status = "failed_terminal"
  BY <1>2 DEF AttemptRows
<1> HIDE DEF row
<1>5. CASE SaveAttempt(n, row)
  BY <1>3, <1>4, <1>5, AnswerIsTell DEF ResolveFails, Outcomes
<1>6. CASE UNCHANGED attempt
  BY <1>6, PortStutters DEF ResolveFails
<1> QED
  BY <1>2, <1>5, <1>6 DEF ResolveFails, row

LEMMA MarkRequestingIsPort ==
    ASSUME IInv, NEW w \in Workers, MarkRequesting(w)
    PROVE  UNCHANGED Port!vars
<1> DEFINE n == payment.active
           row == [local[w].row EXCEPT !.status = "requesting"]
<1>1. Owns(w) /\ pc[w] = "resolve"
  BY DEF MarkRequesting, Owns, OwnerSteps, RoutingSteps
<1>2. local[w].pay = payment /\ LastIs(n, {"created"}) /\ local[w].row \in AttemptRows
  BY <1>1, OwnerFacts DEF OwnerRows, Locals
<1>3. SaveAttempt(n, row) /\ UNCHANGED charge
  BY <1>2 DEF MarkRequesting, world
<1> QED
  BY <1>2, <1>3, QuietSave DEF LastIs, AttemptRows, Quiet

LEMMA CreatePixIsPort ==
    ASSUME IInv, NEW w \in Workers, CreatePix(w)
    PROVE  Port!Next
<1> DEFINE n == payment.active
<1>1. Owns(w) /\ pc[w] = "create"
  BY DEF CreatePix, Owns, OwnerSteps, RoutingSteps
<1>2. local[w].pay = payment /\ LastIs(n, {"requesting"}) /\ charge[n] = "unsent"
  BY <1>1, OwnerFacts DEF OwnerRows
<1>3. PICK c \in {"none", "inflight", "live"} : charge' = [charge EXCEPT ![n] = c]
  BY <1>2 DEF CreatePix, ChargeAfter
<1>4. n \in Sequences /\ Told[n] = "nothing"
  BY <1>2 DEF LastIs, Told
<1>5. UNCHANGED Told
  BY DEF CreatePix, Told
<1>6. Port!Send(n)
  BY <1>2, <1>3, <1>4, <1>5 DEF Port!Send
<1> QED
  BY <1>4, <1>6 DEF Port!Next

LEMMA SavingIsPort ==
    ASSUME IInv, NEW w \in Workers, SaveOutcome(w) \/ SaveAnswer(w)
    PROVE  Port!Next
<1> DEFINE n == payment.active
<1>1. Owns(w) /\ pc[w] \in {"respond", "answered"}
  BY DEF SaveOutcome, SaveAnswer, Owns, OwnerSteps, RoutingSteps, ReconcileSteps
<1>2. /\ local[w].pay = payment
      /\ LastIs(n, {"requesting", "unknown"})
      /\ local[w].row.status \in Outcomes
      /\ local[w].row.status = "failed_safe" => charge[n] = "none"
      /\ local[w].row.status = "succeeded" => charge[n] \in {"live", "paid"}
  BY <1>1, OwnerFacts DEF OwnerRows, LastIs
<1>3. SaveAttempt(n, local[w].row) /\ UNCHANGED charge
  BY <1>2 DEF SaveOutcome, SaveAnswer, world
<1> QED
  BY <1>2, <1>3, AnswerIsTell DEF LastIs, Quiet

LEMMA DecideChargeIsPort ==
    ASSUME NEW s \in Sequences, DecideCharge(s)
    PROVE  Port!Next
<1>1. Port!Decide(s)
  BY DEF DecideCharge, Told, Port!Decide
<1> QED
  BY <1>1 DEF Port!Next

LEMMA CustomerPaysIsPort ==
    ASSUME IInv, NEW s \in Sequences, CustomerPays(s)
    PROVE  Port!Next
<1>1. attempt[s].status = "succeeded"
  BY BoundsAssumption DEF CustomerPays, IInv, PaymentAgrees, LastIs
<1>2. Port!CustomerPays(s)
  BY <1>1 DEF CustomerPays, Told, Port!CustomerPays
<1> QED
  BY <1>2 DEF Port!Next

\* The steps that neither write an attempt nor reach the provider's charge.
LEMMA OthersStutter ==
    ASSUME NEW w \in Workers,
           \/ \E f \in Fingerprints : GetOrCreatePayment(w, f)
           \/ CreatorStep(w)
           \/ ListConnections(w) \/ ListAttempts(w) \/ GiveUp(w) \/ ActivateAttempt(w)
           \/ FailUnresolved(w) \/ SettlePayment(w)
           \/ ReadForReconcile(w) \/ ReadUnknownAttempt(w) \/ AskProvider(w) \/ Reroute(w)
           \/ \E s \in Sequences : RecordEvent(w, s)
           \/ WebhookStep(w)
           \/ Fail(w)
    PROVE  UNCHANGED Port!vars
<1>1. UNCHANGED <<attempt, charge>>
  BY DEF GetOrCreatePayment, CreatorStep, ReadExisting, StartRouting, ListConnections,
         ListAttempts, GiveUp, ActivateAttempt, FailUnresolved, SettlePayment,
         ReadForReconcile, ReadUnknownAttempt, AskProvider, Reroute, RecordEvent,
         WebhookStep, FindAttempt, ReadForPaid, VerifyAttempt, FindRecovery, CommitPaid,
         AcknowledgeEvent, Fail, ledger, world
<1> QED
  BY <1>1, PortStutters

LEMMA NextIsPort == IInv /\ [Next]_vars => [Port!Next]_(Port!vars)
<1> SUFFICES ASSUME IInv, [Next]_vars
             PROVE  [Port!Next]_(Port!vars)
  OBVIOUS
<1>1. ASSUME NEW w \in Workers,
             \/ \E f \in Fingerprints : GetOrCreatePayment(w, f)
             \/ CreatorStep(w) \/ RoutingStep(w)
             \/ ReadForReconcile(w) \/ ReconcileStep(w)
             \/ \E s \in Sequences : RecordEvent(w, s)
             \/ WebhookStep(w) \/ Fail(w)
      PROVE  [Port!Next]_(Port!vars)
  BY <1>1, OthersStutter, AddAttemptIsPort, ResolveFailsIsPort, MarkRequestingIsPort,
     CreatePixIsPort, SavingIsPort
     DEF RoutingStep, ReconcileStep
<1>2. ASSUME NEW s \in Sequences, DecideCharge(s) \/ CustomerPays(s)
      PROVE  [Port!Next]_(Port!vars)
  BY <1>2, DecideChargeIsPort, CustomerPaysIsPort
<1>3. ASSUME NEW c \in Conns, ChangeConnection(c)
      PROVE  [Port!Next]_(Port!vars)
  BY <1>3, PortStutters DEF ChangeConnection
<1>4. CASE UNCHANGED vars
  BY <1>4, PortStutters DEF vars
<1> QED
  BY <1>1, <1>2, <1>3, <1>4 DEF Next, Workers

\* What the rows say of the provider is what a connector may say of it, for any number
\* of requests, webhook executions, connections, attempts and failing calls.
THEOREM RowsKeepThePort == Spec => RowsKeepPort
<1>1. IInv /\ [Next]_vars => [Port!Next]_(Port!vars)
  BY NextIsPort
<1> QED
  BY InitIsPort, <1>1, Invariance, PTL DEF Spec, RowsKeepPort, Port!Spec

=============================================================================
