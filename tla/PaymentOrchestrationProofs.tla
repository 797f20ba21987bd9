--------------------- MODULE PaymentOrchestrationProofs ---------------------
(***************************************************************************)
(* The safety of the orchestration for every number of requests, webhook   *)
(* executions, connections, attempts and failing calls, provided that      *)
(* reconciliations of the payment do not overlap (SerialAssumption).       *)
(*                                                                         *)
(* The invariant IInv says who may write the rows.  A handler that owns    *)
(* the routing holds an exact copy of the payment row, and the attempt     *)
(* rows are a run of safe failures up to the attempt it works on; a        *)
(* payment that is awaited or paid has no owner, so nothing but the        *)
(* webhook handlers touches it any more.                                   *)
(***************************************************************************)
EXTENDS SerialReconciliation, TLAPS, FiniteSetTheorems

-----------------------------------------------------------------------------
(* The inductive invariant.                                                 *)

\* Each kind of handler stays in its own code.
StepsFit ==
    /\ \A w \in Creators :
          pc[w] \in CreatorSteps \cup RoutingSteps \cup {"idle", "replied", "conflict"}
    /\ \A w \in Reconcilers : pc[w] \in RoutingSteps \cup ReconcileSteps \cup {"idle"}
    /\ \A w \in Receivers : pc[w] \in WebhookSteps \cup {"idle"}

\* The attempts up to n failed safely, and there are no others.
AllSafeUpTo(n) ==
    \A s \in Sequences : attempt[s].status = IF s <= n THEN "failed_safe" ELSE "absent"

\* Attempt n is the last one, and has the given status.
LastIs(n, statuses) ==
    /\ n \in Sequences
    /\ attempt[n].status \in statuses
    /\ \A s \in Sequences : s > n => attempt[s].status = "absent"

\* What the owner knows of the payment at each of its steps.
OwnerStatus(w) ==
    /\ pc[w] = "created" => payment.status = "created"
    /\ pc[w] \in RoutingSteps \ {"settle"} => payment.status = "routing"
    /\ pc[w] \in ReconcileSteps => payment.status = "reconciling"
    /\ pc[w] = "settle" =>
          \/ payment.status = "routing"
          \/ payment.status = "reconciling" /\ w \in Reconcilers

Outcomes == {"succeeded", "failed_safe", "unknown", "failed_terminal"}

\* What the owner knows of the attempts at each of its steps.
OwnerRows(w) ==
    LET n == payment.active
        row == local[w].row
    IN  /\ pc[w] \in {"created", "list", "history", "select"} => AllSafeUpTo(n)
        /\ pc[w] \in {"select", "activate"} => local[w].count = n
        /\ pc[w] \in {"resolve", "create", "respond"} => local[w].count = n - 1
        /\ pc[w] = "activate" => LastIs(n + 1, {"created"}) /\ attempt[n + 1] = row
        /\ pc[w] = "resolve" => LastIs(n, {"created"})
        /\ pc[w] = "unresolved" => LastIs(n, {"created", "failed_terminal"})
        /\ pc[w] \in {"create", "respond"} => LastIs(n, {"requesting"})
        /\ pc[w] \in {"ask", "answered"} => LastIs(n, {"unknown"})
        /\ pc[w] = "settle" => LastIs(n, {"succeeded", "unknown", "failed_terminal"})
        /\ pc[w] = "reattempt" => LastIs(n, AttemptStatuses \ {"absent"})
        /\ pc[w] = "reroute" => LastIs(n, {"failed_safe"})
        /\ pc[w] \in {"resolve", "create", "ask", "settle"} => attempt[n] = row
        /\ pc[w] \in {"unresolved", "create"} => charge[n] = "unsent"
        /\ pc[w] \in {"respond", "answered"} =>
              /\ row.status \in Outcomes
              /\ row.status = "failed_safe" => charge[n] = "none"
              /\ row.status = "succeeded" => charge[n] \in {"live", "paid"}

OwnerKnows(w) ==
    /\ local[w].pay = payment
    /\ OwnerStatus(w)
    /\ OwnerRows(w)

OwnerHolds == \A w \in Workers : Owns(w) => OwnerKnows(w)

\* What the attempt rows say of the provider, with or without an owner.
RowsAgree ==
    /\ FallbackOnlyAfterSafeFailure
    /\ \A s \in Sequences :
          /\ attempt[s].status = "failed_safe" => charge[s] = "none"
          /\ attempt[s].status \in {"absent", "created"} => charge[s] = "unsent"
          /\ charge[s] = "paid" => s \in shown

\* What the status of the payment says of the other rows.
PaymentAgrees ==
    /\ payment.status = "absent" => payment = NoPayment /\ AllSafeUpTo(0)
    /\ payment.status = "reconciling" =>
          LastIs(payment.active, AttemptStatuses \ {"absent"})
    /\ payment.status \in {"awaiting_payment", "paid"} =>
          LastIs(payment.presented, {"succeeded"})
    /\ payment.status \notin {"awaiting_payment", "paid"} => payment.presented = 0
    /\ shown = IF payment.presented = 0 THEN {} ELSE {payment.presented}
    /\ OwnFailureLeavesNoCharge

\* A first attempt recovers nothing; any other recovers the first failure.
Recovery(s) ==
    IF s > 1 THEN [failed |-> 1, successful |-> s] ELSE NoRecovery

LedgerAgrees ==
    /\ payment.status = "paid" =>
          /\ charge[payment.presented] = "paid"
          /\ payment.recovered = (payment.presented > 1)
          /\ recovery = Recovery(payment.presented)
          /\ outbox = MerchantEvents(payment)
    /\ payment.status # "paid" =>
          /\ ~payment.recovered
          /\ recovery = NoRecovery
          /\ outbox = {}

\* What a webhook handler knows at each of its steps: the charge it was told of is
\* paid and, once the payment was read, is the one the payment presents.
ReceiverKnows(w) ==
    LET s == local[w].target
    IN  /\ pc[w] \in WebhookSteps => s \in Sequences /\ charge[s] = "paid"
        /\ pc[w] \in {"verify", "recoveries", "commit"} =>
              /\ payment.status \in {"awaiting_payment", "paid"}
              /\ payment.presented = s
              /\ local[w].pay.presented = s
              /\ ~local[w].pay.recovered
        /\ pc[w] = "commit" => local[w].failed = Recovery(s).failed
        /\ pc[w] = "acknowledge" => payment.status = "paid" /\ payment.presented = s

ReceiverHolds == \A w \in Receivers : ReceiverKnows(w)

IInv ==
    /\ TypeOK
    /\ StepsFit
    /\ SingleOwner
    /\ OwnerHolds
    /\ RowsAgree
    /\ PaymentAgrees
    /\ LedgerAgrees
    /\ ReceiverHolds
    /\ ProcessedMeansPaid

-----------------------------------------------------------------------------
(* Frames.                                                                  *)

\* Only handler w moves.
OnlyMoves(w) ==
    \A v \in Workers \ {w} : pc'[v] = pc[v] /\ local'[v] = local[v]

LEMMA UpdatesMoveOnly ==
    ASSUME TypeOK, NEW w \in Workers, NEW p, NEW l,
           pc' = [pc EXCEPT ![w] = p], local' = [local EXCEPT ![w] = l]
    PROVE  /\ OnlyMoves(w)
           /\ pc'[w] = p
           /\ local'[w] = l
BY DEF TypeOK, OnlyMoves

\* The owner is known to be no webhook handler, and to find the payment open.
LEMMA OwnerIsOpen ==
    ASSUME IInv, NEW w \in Workers, Owns(w)
    PROVE  /\ w \in Creators \cup Reconcilers
           /\ w \notin Receivers
           /\ payment.status \in {"created", "routing", "reconciling"}
           /\ payment.presented = 0
           /\ shown = {}
           /\ ~payment.recovered
           /\ recovery = NoRecovery
           /\ outbox = {}
           /\ \A v \in Receivers : pc[v] \notin {"verify", "recoveries", "commit", "acknowledge"}
<1>1. w \in Creators \cup Reconcilers /\ w \notin Receivers
  BY ProcessesAssumption
     DEF IInv, StepsFit, Owns, OwnerSteps, Workers, WebhookSteps, RoutingSteps, ReconcileSteps
<1>2. payment.status \in {"created", "routing", "reconciling"}
  BY DEF IInv, OwnerHolds, OwnerKnows, OwnerStatus, Owns, OwnerSteps
<1>3. payment.presented = 0 /\ shown = {}
  BY <1>2 DEF IInv, PaymentAgrees
<1>4. ~payment.recovered /\ recovery = NoRecovery /\ outbox = {}
  BY <1>2 DEF IInv, LedgerAgrees
<1>5. \A v \in Receivers : pc[v] \notin {"verify", "recoveries", "commit", "acknowledge"}
  BY <1>2 DEF IInv, ReceiverHolds, ReceiverKnows
<1> QED
  BY <1>1, <1>2, <1>3, <1>4, <1>5

\* A payment that is not there yet, or that is settled, is owned by nobody.
LEMMA SettledIsNotOwned ==
    ASSUME IInv, payment.status \in {"absent", "awaiting_payment", "paid", "failed"}
    PROVE  \A w \in Workers : ~Owns(w)
BY OwnerIsOpen

\* The owner goes on to a step of its own code, or returns.
OwnerMoves(w, step, l) ==
    /\ pc' = [pc EXCEPT ![w] = step]
    /\ l \in Locals
    /\ local' = [local EXCEPT ![w] = l]
    /\ w \in Creators => step \in RoutingSteps \cup {"created", "replied"}
    /\ w \in Reconcilers => step \in RoutingSteps \cup ReconcileSteps \cup {"idle"}
    /\ step \in OwnerSteps => OwnerKnows(w)'

\* The owner saves the payment, in a state that agrees with the attempts.
OwnerSaves(p) ==
    /\ p \in PaymentRows
    /\ SavePayment(p)
    /\ p.status \notin {"absent", "paid"}
    /\ p.recovered = payment.recovered
    /\ p.status # "awaiting_payment" => p.presented = 0
    /\ p.status = "awaiting_payment" => LastIs(p.presented, {"succeeded"})
    /\ p.status = "reconciling" => LastIs(p.active, AttemptStatuses \ {"absent"})
    /\ p.status = "failed" /\ p.failure # "provider_failure" =>
          \A s \in Sequences : ~MayExist(s)
    /\ UNCHANGED <<attempt, ledger, world>>

\* The owner saves the attempt it works on, which is the last one.
OwnerSavesAttempt(n, row) ==
    /\ n \in Sequences
    /\ row \in AttemptRows
    /\ SaveAttempt(n, row)
    /\ \A s \in Sequences : s < n => attempt[s].status = "failed_safe"
    /\ \A s \in Sequences : s > n => attempt[s].status = "absent"
    /\ row.status # "absent"
    /\ row.status = "failed_safe" => charge[n] = "none"
    /\ row.status = "created" => charge[n] = "unsent"
    /\ payment.status = "reconciling" => n = payment.active
    /\ UNCHANGED <<payment, charge, shown, ledger, eligible, faults>>

\* Nobody routes or reconciles the payment but w, and it is not settled yet: w may
\* be its owner or may become it.
MayOwn(w) ==
    /\ w \in Creators \cup Reconcilers
    /\ \A v \in Workers \ {w} : ~Owns(v)
    /\ payment.status \in {"absent", "created", "routing", "reconciling"}

\* A step of the owner keeps the invariant when what it writes does: everything
\* that is not about the attempts or the owner itself follows.
LEMMA MayOwnStepKeeps ==
    ASSUME IInv, NEW w \in Workers, MayOwn(w),
           NEW step, NEW l, OwnerMoves(w, step, l),
           payment' \in PaymentRows,
           attempt' \in [Sequences -> AttemptRows],
           charge' \in [Sequences -> Charges],
           payment'.status \notin {"absent", "paid"},
           payment'.recovered = payment.recovered,
           \A s \in Sequences : charge[s] = "paid" => charge'[s] = "paid",
           UNCHANGED <<ledger, eligible>>,
           faults' \in 0..MaxFaults,
           RowsAgree', PaymentAgrees'
    PROVE  IInv'
<1>0. OnlyMoves(w) /\ pc'[w] = step /\ local'[w] = l
  BY UpdatesMoveOnly DEF IInv, OwnerMoves
<1>w. w \notin Receivers
  BY ProcessesAssumption DEF MayOwn
<1>1. SingleOwner'
  BY <1>0 DEF MayOwn, SingleOwner, OnlyMoves, Owns
<1>2. LedgerAgrees'
  BY DEF IInv, LedgerAgrees, ledger, MayOwn
<1>3. ReceiverHolds'
  <2> SUFFICES ASSUME NEW v \in Receivers
               PROVE  ReceiverKnows(v)'
    BY DEF ReceiverHolds
  <2>1. pc'[v] = pc[v] /\ local'[v] = local[v]
    BY <1>0, <1>w DEF OnlyMoves, Workers
  <2>2. /\ pc[v] \in WebhookSteps =>
              local[v].target \in Sequences /\ charge[local[v].target] = "paid"
        /\ pc[v] \notin {"verify", "recoveries", "commit", "acknowledge"}
    BY DEF IInv, ReceiverHolds, ReceiverKnows, MayOwn
  <2> QED
    BY <2>1, <2>2 DEF ReceiverKnows
<1>4. ProcessedMeansPaid'
  BY DEF IInv, ProcessedMeansPaid, ledger, MayOwn
<1>5. StepsFit'
  BY <1>0, <1>w DEF IInv, StepsFit, OnlyMoves, OwnerMoves, MayOwn, Workers, CreatorSteps
<1>6. OwnerHolds'
  <2> SUFFICES ASSUME NEW v \in Workers, Owns(v)'
               PROVE  OwnerKnows(v)'
    BY DEF OwnerHolds
  <2>1. v = w
    BY <1>0 DEF MayOwn, OnlyMoves, Owns
  <2> QED
    BY <1>0, <2>1 DEF Owns, OwnerMoves
<1>7. TypeOK'
  <2>1. step \in Steps
    BY DEF Steps, ActiveSteps, CreatorSteps, OwnerMoves, MayOwn
  <2>2. shown' \subseteq Sequences
    BY DEF PaymentAgrees, PaymentRows, AttemptIds, Sequences
  <2> QED
    BY <2>1, <2>2 DEF IInv, TypeOK, ledger, OwnerMoves
<1> QED
  BY <1>1, <1>2, <1>3, <1>4, <1>5, <1>6, <1>7 DEF IInv

LEMMA OwnerMayOwn ==
    ASSUME IInv, NEW w \in Workers, Owns(w)
    PROVE  MayOwn(w)
BY OwnerIsOpen DEF MayOwn, IInv, SingleOwner

\* A step of the owner that only reads, or only calls the provider for an answer.
LEMMA OwnerReadKeeps ==
    ASSUME IInv, NEW w \in Workers, Owns(w),
           NEW step, NEW l, OwnerMoves(w, step, l),
           UNCHANGED <<payment, attempt, charge, shown, ledger, eligible>>,
           faults' \in 0..MaxFaults
    PROVE  IInv'
<1>1. RowsAgree'
  BY DEF IInv, RowsAgree, FallbackOnlyAfterSafeFailure, Recorded
<1>2. PaymentAgrees'
  BY DEF IInv, PaymentAgrees, LastIs, AllSafeUpTo, OwnFailureLeavesNoCharge, MayExist
<1>3. payment.status \notin {"absent", "paid"}
  BY OwnerIsOpen
<1> QED
  BY <1>1, <1>2, <1>3, OwnerMayOwn, MayOwnStepKeeps DEF IInv, TypeOK

\* A step of the owner that saves the payment.
LEMMA OwnerSaveKeeps ==
    ASSUME IInv, NEW w \in Workers, Owns(w),
           NEW step, NEW l, OwnerMoves(w, step, l),
           NEW p, OwnerSaves(p)
    PROVE  IInv'
<1>0. payment' = p /\ UNCHANGED <<charge, eligible, faults>>
  BY DEF SavePayment, OwnerSaves, world
<1>1. RowsAgree'
  BY <1>0
     DEF IInv, RowsAgree, FallbackOnlyAfterSafeFailure, Recorded, SavePayment, OwnerSaves
<1>2. PaymentAgrees'
  BY <1>0, OwnerIsOpen
     DEF PaymentAgrees, LastIs, OwnFailureLeavesNoCharge, MayExist, SavePayment, Sequences,
         OwnerSaves
<1> QED
  BY <1>0, <1>1, <1>2, OwnerMayOwn, MayOwnStepKeeps DEF IInv, TypeOK, OwnerSaves

\* A step of the owner that saves the attempt it works on, the last one.
LEMMA OwnerAttemptKeeps ==
    ASSUME IInv, NEW w \in Workers, Owns(w),
           NEW step, NEW l, OwnerMoves(w, step, l),
           NEW n, NEW row, OwnerSavesAttempt(n, row)
    PROVE  IInv'
<1>0. /\ attempt' \in [Sequences -> AttemptRows]
      /\ attempt'[n] = row
      /\ \A s \in Sequences \ {n} : attempt'[s] = attempt[s]
  BY DEF SaveAttempt, OwnerSavesAttempt, IInv, TypeOK
<1>1. RowsAgree'
  <2>1. FallbackOnlyAfterSafeFailure'
    BY <1>0 DEF FallbackOnlyAfterSafeFailure, Recorded, Sequences, OwnerSavesAttempt
  <2> QED
    BY <1>0, <2>1 DEF IInv, RowsAgree, OwnerSavesAttempt
<1>2. payment.status \in {"created", "routing", "reconciling"} /\ payment.presented = 0
  BY OwnerIsOpen
<1>3. PaymentAgrees'
  <2>1. payment.status = "reconciling" =>
            LastIs(payment.active, AttemptStatuses \ {"absent"})'
    BY <1>0 DEF LastIs, AttemptRows, OwnerSavesAttempt
  <2> QED
    BY <1>2, <2>1 DEF IInv, PaymentAgrees, OwnFailureLeavesNoCharge, OwnerSavesAttempt
<1> QED
  BY <1>0, <1>1, <1>2, <1>3, OwnerMayOwn, MayOwnStepKeeps DEF IInv, TypeOK, OwnerSavesAttempt

-----------------------------------------------------------------------------
(* One lemma per step of the owner.                                         *)

LEMMA OwnerFacts ==
    ASSUME IInv, NEW w \in Workers, Owns(w)
    PROVE  /\ local[w] \in Locals
           /\ local[w].pay = payment
           /\ payment \in PaymentRows
           /\ payment.presented = 0
           /\ OwnerStatus(w)
           /\ OwnerRows(w)
           /\ faults \in 0..MaxFaults
BY OwnerIsOpen DEF IInv, TypeOK, OwnerHolds, OwnerKnows

LEMMA StartRoutingKeeps ==
    ASSUME IInv, NEW w \in Creators, StartRouting(w)
    PROVE  IInv'
<1> DEFINE p == [local[w].pay EXCEPT !.status = "routing"]
           l == [local[w] EXCEPT !.pay = p]
<1>w. w \in Workers /\ w \notin Reconcilers
  BY ProcessesAssumption DEF Workers
<1>1. Owns(w) /\ pc[w] = "created"
  BY DEF StartRouting, Owns, OwnerSteps
<1>2. /\ local[w] \in Locals
      /\ local[w].pay = payment
      /\ payment \in PaymentRows
      /\ payment.presented = 0
      /\ AllSafeUpTo(payment.active)
  BY <1>w, <1>1, OwnerFacts DEF OwnerRows
<1>3. /\ p \in PaymentRows
      /\ p.status = "routing"
      /\ p.active = payment.active
      /\ p.presented = 0
      /\ p.recovered = payment.recovered
  BY <1>2 DEF PaymentRows, PaymentStatuses
<1>4. l \in Locals /\ l.pay = p
  BY <1>2, <1>3 DEF Locals
<1>5. /\ SavePayment(p)
      /\ pc' = [pc EXCEPT ![w] = "list"]
      /\ local' = [local EXCEPT ![w] = l]
      /\ UNCHANGED <<attempt, ledger, world>>
  BY DEF StartRouting, Goto
<1> HIDE DEF p, l
<1>6. pc'[w] = "list" /\ local'[w] = l /\ payment' = p
  BY <1>w, <1>5 DEF IInv, TypeOK, SavePayment
<1>7. OwnerKnows(w)'
  BY <1>2, <1>3, <1>4, <1>5, <1>6
     DEF OwnerKnows, OwnerStatus, OwnerRows, AllSafeUpTo, RoutingSteps, ReconcileSteps
<1>8. OwnerSaves(p)
  BY <1>3, <1>5 DEF OwnerSaves
<1>9. OwnerMoves(w, "list", l)
  BY <1>w, <1>4, <1>5, <1>7 DEF OwnerMoves, RoutingSteps
<1> QED
  BY <1>w, <1>1, <1>8, <1>9, OwnerSaveKeeps

LEMMA ListConnectionsKeeps ==
    ASSUME IInv, NEW w \in Workers, ListConnections(w)
    PROVE  IInv'
<1> DEFINE l == [local[w] EXCEPT !.connections = eligible]
<1>1. Owns(w) /\ pc[w] = "list"
  BY DEF ListConnections, Owns, OwnerSteps, RoutingSteps
<1>2. /\ local[w] \in Locals
      /\ local[w].pay = payment
      /\ payment.status = "routing"
      /\ AllSafeUpTo(payment.active)
      /\ faults \in 0..MaxFaults
  BY <1>1, OwnerFacts DEF OwnerStatus, OwnerRows, RoutingSteps
<1>3. l \in Locals /\ l.pay = payment
  BY <1>2 DEF Locals, IInv, TypeOK
<1>4. /\ pc' = [pc EXCEPT ![w] = "history"]
      /\ local' = [local EXCEPT ![w] = l]
      /\ UNCHANGED <<payment, attempt, charge, shown, ledger, eligible, faults>>
  BY DEF ListConnections, Goto, world
<1> HIDE DEF l
<1>5. pc'[w] = "history" /\ local'[w] = l
  BY <1>4 DEF IInv, TypeOK
<1>6. OwnerKnows(w)'
  BY <1>2, <1>3, <1>4, <1>5
     DEF OwnerKnows, OwnerStatus, OwnerRows, AllSafeUpTo, RoutingSteps, ReconcileSteps
<1>7. OwnerMoves(w, "history", l)
  BY <1>3, <1>4, <1>6 DEF OwnerMoves, RoutingSteps
<1> QED
  BY <1>1, <1>2, <1>4, <1>7, OwnerReadKeeps

\* With the attempts a run of safe failures, counting them finds the last one.
LEMMA CountRecorded ==
    ASSUME NEW n \in AttemptIds, AllSafeUpTo(n)
    PROVE  Cardinality(Recorded) = n
<1>1. Recorded = 1..n
  BY BoundsAssumption DEF Recorded, AllSafeUpTo, Sequences, AttemptIds
<1> QED
  BY <1>1, FS_Interval, BoundsAssumption DEF AttemptIds

LEMMA ListAttemptsKeeps ==
    ASSUME IInv, NEW w \in Workers, ListAttempts(w)
    PROVE  IInv'
<1> DEFINE n == Cardinality(Recorded)
           l == [local[w] EXCEPT !.count = n, !.excluded = Attempted]
<1>1. Owns(w) /\ pc[w] = "history"
  BY DEF ListAttempts, Owns, OwnerSteps, RoutingSteps
<1>2. /\ local[w] \in Locals
      /\ local[w].pay = payment
      /\ payment.status = "routing"
      /\ payment.active \in AttemptIds
      /\ AllSafeUpTo(payment.active)
      /\ faults \in 0..MaxFaults
  BY <1>1, OwnerFacts DEF OwnerStatus, OwnerRows, RoutingSteps, PaymentRows
<1>3. n = payment.active
  BY <1>2, CountRecorded
<1>4. Attempted \subseteq Conns \cup {None}
  BY DEF Attempted, Recorded, IInv, TypeOK, AttemptRows
<1>5. local' = [local EXCEPT ![w] = l]
  BY <1>2 DEF ListAttempts, IInv, TypeOK
<1> HIDE DEF n
<1>6. l \in Locals /\ l.pay = payment /\ l.count = n
  BY <1>2, <1>3, <1>4 DEF Locals
<1>7. /\ pc' = [pc EXCEPT ![w] = "select"]
      /\ UNCHANGED <<payment, attempt, charge, shown, ledger, eligible, faults>>
  BY DEF ListAttempts, Goto, world
<1> HIDE DEF l
<1>8. pc'[w] = "select" /\ local'[w] = l
  BY <1>5, <1>7 DEF IInv, TypeOK
<1>9. OwnerKnows(w)'
  BY <1>2, <1>3, <1>6, <1>7, <1>8
     DEF OwnerKnows, OwnerStatus, OwnerRows, AllSafeUpTo, RoutingSteps, ReconcileSteps
<1>10. OwnerMoves(w, "select", l)
  BY <1>5, <1>6, <1>7, <1>9 DEF OwnerMoves, RoutingSteps
<1> QED
  BY <1>1, <1>2, <1>7, <1>10, OwnerReadKeeps

LEMMA AddAttemptKeeps ==
    ASSUME IInv, NEW w \in Workers, AddAttempt(w)
    PROVE  IInv'
<1>1. Owns(w) /\ pc[w] = "select"
  BY DEF AddAttempt, Owns, OwnerSteps, RoutingSteps
<1>2. /\ local[w] \in Locals
      /\ local[w].pay = payment
      /\ payment.status = "routing"
      /\ payment.active \in AttemptIds
      /\ AllSafeUpTo(payment.active)
      /\ local[w].count = payment.active
  BY <1>1, OwnerFacts DEF OwnerStatus, OwnerRows, RoutingSteps, PaymentRows
<1> DEFINE n == payment.active + 1
<1>3. n \in Sequences /\ n = local[w].count + 1
  BY <1>2, BoundsAssumption DEF AddAttempt, AttemptIds, Sequences
<1>4. PICK c \in local[w].connections \ local[w].excluded :
         LET row == [NoAttempt EXCEPT !.status = "created", !.conn = c]
         IN  /\ SaveAttempt(local[w].count + 1, row)
             /\ local' = [local EXCEPT ![w].row = row]
  BY DEF AddAttempt
<1> DEFINE row == [NoAttempt EXCEPT !.status = "created", !.conn = c]
           l == [local[w] EXCEPT !.row = row]
<1>5. row \in AttemptRows /\ row.status = "created"
  BY <1>2 DEF AttemptRows, NoAttempt, AttemptStatuses, Locals
<1>6. l \in Locals /\ l.pay = payment /\ l.count = payment.active /\ l.row = row
  BY <1>2, <1>5 DEF Locals
<1>7. /\ SaveAttempt(n, row)
      /\ local' = [local EXCEPT ![w] = l]
      /\ pc' = [pc EXCEPT ![w] = "activate"]
      /\ UNCHANGED <<payment, charge, shown, ledger, eligible, faults>>
  BY <1>3, <1>4 DEF AddAttempt, Goto, world
<1> HIDE DEF row, l
<1>8. pc'[w] = "activate" /\ local'[w] = l
  BY <1>7 DEF IInv, TypeOK
<1>9. attempt'[n] = row /\ \A s \in Sequences : s > n => attempt'[s].status = "absent"
  BY <1>2, <1>3, <1>7 DEF SaveAttempt, AllSafeUpTo, Sequences, AttemptIds, IInv, TypeOK
<1>10. OwnerKnows(w)'
  BY <1>2, <1>3, <1>5, <1>6, <1>7, <1>8, <1>9
     DEF OwnerKnows, OwnerStatus, OwnerRows, LastIs, RoutingSteps, ReconcileSteps
<1>11. /\ \A s \in Sequences : s < n => attempt[s].status = "failed_safe"
       /\ \A s \in Sequences : s > n => attempt[s].status = "absent"
       /\ charge[n] = "unsent"
  BY <1>2, <1>3 DEF AllSafeUpTo, Sequences, AttemptIds, IInv, RowsAgree
<1>12. OwnerSavesAttempt(n, row)
  BY <1>2, <1>3, <1>5, <1>7, <1>11 DEF OwnerSavesAttempt
<1>13. OwnerMoves(w, "activate", l)
  BY <1>6, <1>7, <1>10 DEF OwnerMoves, RoutingSteps
<1> QED
  BY <1>1, <1>12, <1>13, OwnerAttemptKeeps

LEMMA NoLocalsTyped == NoLocals \in Locals
BY BoundsAssumption
   DEF NoLocals, Locals, NoPayment, PaymentRows, NoAttempt, AttemptRows, PaymentStatuses,
       AttemptStatuses, AttemptIds, FailureCodes

\* Where a handler returns to.
ReturnStep(w) == IF w \in Creators THEN "replied" ELSE "idle"

LEMMA ReturnMoves ==
    ASSUME NEW w \in Creators \cup Reconcilers, Return(w)
    PROVE  OwnerMoves(w, ReturnStep(w), NoLocals)
<1>1. NoLocals \in Locals
  BY NoLocalsTyped
<1> QED
  BY <1>1, ProcessesAssumption
     DEF OwnerMoves, ReturnStep, Return, Goto, OwnerSteps, RoutingSteps, ReconcileSteps

LEMMA GiveUpKeeps ==
    ASSUME IInv, NEW w \in Workers, GiveUp(w)
    PROVE  IInv'
<1> DEFINE p == [local[w].pay EXCEPT
                    !.status = "failed",
                    !.failure = IF local[w].count = MaxAttempts
                                THEN "fallback_budget_exhausted"
                                ELSE "no_eligible_provider"]
<1>1. Owns(w) /\ pc[w] = "select"
  BY DEF GiveUp, Owns, OwnerSteps, RoutingSteps
<1>2. /\ local[w].pay = payment
      /\ payment \in PaymentRows
      /\ payment.presented = 0
      /\ AllSafeUpTo(payment.active)
  BY <1>1, OwnerFacts DEF OwnerRows
<1>3. /\ p \in PaymentRows
      /\ p.status = "failed"
      /\ p.presented = 0
      /\ p.recovered = payment.recovered
  BY <1>2 DEF PaymentRows, PaymentStatuses, FailureCodes
<1>4. SavePayment(p) /\ Return(w) /\ UNCHANGED <<attempt, ledger, world>>
  BY DEF GiveUp
<1>5. \A s \in Sequences : ~MayExist(s)
  BY <1>2 DEF AllSafeUpTo, IInv, RowsAgree, MayExist
<1> HIDE DEF p
<1>6. OwnerSaves(p)
  BY <1>3, <1>4, <1>5 DEF OwnerSaves
<1>7. OwnerMoves(w, ReturnStep(w), NoLocals)
  BY <1>1, <1>4, OwnerIsOpen, ReturnMoves
<1> QED
  BY <1>1, <1>6, <1>7, OwnerSaveKeeps

LEMMA ActivateAttemptKeeps ==
    ASSUME IInv, NEW w \in Workers, ActivateAttempt(w)
    PROVE  IInv'
<1> DEFINE n == payment.active + 1
           p == [local[w].pay EXCEPT !.active = local[w].count + 1]
           l == [local[w] EXCEPT !.pay = p]
<1>1. Owns(w) /\ pc[w] = "activate"
  BY DEF ActivateAttempt, Owns, OwnerSteps, RoutingSteps
<1>2. /\ local[w] \in Locals
      /\ local[w].pay = payment
      /\ payment \in PaymentRows
      /\ payment.status = "routing"
      /\ payment.presented = 0
      /\ local[w].count = payment.active
      /\ LastIs(n, {"created"})
      /\ attempt[n] = local[w].row
  BY <1>1, OwnerFacts DEF OwnerStatus, OwnerRows, RoutingSteps
<1>3. /\ p \in PaymentRows
      /\ p.status = "routing"
      /\ p.active = n
      /\ p.presented = 0
      /\ p.recovered = payment.recovered
  BY <1>2 DEF PaymentRows, LastIs, Sequences, AttemptIds
<1>4. /\ l \in Locals
      /\ l.pay = p
      /\ l.row = local[w].row
      /\ l.count = n - 1
  BY <1>2, <1>3, BoundsAssumption DEF Locals, PaymentRows, AttemptIds
<1>5. /\ SavePayment(p)
      /\ pc' = [pc EXCEPT ![w] = "resolve"]
      /\ local' = [local EXCEPT ![w] = l]
      /\ UNCHANGED <<attempt, ledger, world>>
  BY DEF ActivateAttempt, Goto
<1> HIDE DEF n, p, l
<1>6. pc'[w] = "resolve" /\ local'[w] = l /\ payment' = p
  BY <1>5 DEF IInv, TypeOK, SavePayment
<1>7. OwnerKnows(w)'
  BY <1>2, <1>3, <1>4, <1>5, <1>6
     DEF OwnerKnows, OwnerStatus, OwnerRows, LastIs, RoutingSteps, ReconcileSteps
<1>8. OwnerSaves(p)
  BY <1>3, <1>5 DEF OwnerSaves
<1>9. OwnerMoves(w, "resolve", l)
  BY <1>4, <1>5, <1>7 DEF OwnerMoves, RoutingSteps
<1> QED
  BY <1>1, <1>8, <1>9, OwnerSaveKeeps

LEMMA ResolveFailsKeeps ==
    ASSUME IInv, NEW w \in Workers, ResolveFails(w)
    PROVE  IInv'
<1> DEFINE n == payment.active
           l == local[w]
           row == [local[w].row EXCEPT !.status = "failed_terminal"]
<1>1. Owns(w) /\ pc[w] = "resolve"
  BY DEF ResolveFails, Owns, OwnerSteps, RoutingSteps
<1>2. /\ l \in Locals
      /\ l.pay = payment
      /\ payment.status = "routing"
      /\ LastIs(n, {"created"})
      /\ faults \in 0..MaxFaults
  BY <1>1, OwnerFacts DEF OwnerStatus, OwnerRows, RoutingSteps
<1>3. /\ charge[n] = "unsent"
      /\ \A s \in Sequences : s < n => attempt[s].status = "failed_safe"
      /\ \A s \in Sequences : s > n => attempt[s].status = "absent"
  BY <1>2 DEF LastIs, IInv, RowsAgree, FallbackOnlyAfterSafeFailure, Recorded
<1>4. row \in AttemptRows /\ row.status = "failed_terminal"
  BY <1>2 DEF Locals, AttemptRows, AttemptStatuses
<1>5. local' = [local EXCEPT ![w] = l]
  BY DEF ResolveFails, IInv, TypeOK
<1>6. /\ pc' = [pc EXCEPT ![w] = "unresolved"]
      /\ UNCHANGED <<payment, charge, shown, ledger, eligible>>
  BY DEF ResolveFails, Goto
<1>7. pc'[w] = "unresolved" /\ local'[w] = l
  BY <1>5, <1>6 DEF IInv, TypeOK
<1>8. CASE SaveAttempt(n, row) /\ UNCHANGED faults
  <2> HIDE DEF row
  <2>1. attempt'[n] = row /\ \A s \in Sequences : s > n => attempt'[s].status = "absent"
    BY <1>2, <1>3, <1>8 DEF SaveAttempt, LastIs, Sequences, IInv, TypeOK
  <2>2. OwnerKnows(w)'
    BY <1>2, <1>3, <1>4, <1>6, <1>7, <2>1
       DEF OwnerKnows, OwnerStatus, OwnerRows, LastIs, RoutingSteps, ReconcileSteps
  <2>3. OwnerSavesAttempt(n, row)
    BY <1>2, <1>3, <1>4, <1>6, <1>8 DEF OwnerSavesAttempt, LastIs
  <2>4. OwnerMoves(w, "unresolved", l)
    BY <1>2, <1>5, <1>6, <2>2 DEF OwnerMoves, RoutingSteps
  <2> QED
    BY <1>1, <2>3, <2>4, OwnerAttemptKeeps
<1>9. CASE faults < MaxFaults /\ faults' = faults + 1 /\ UNCHANGED attempt
  <2>1. OwnerKnows(w)'
    BY <1>2, <1>3, <1>6, <1>7, <1>9
       DEF OwnerKnows, OwnerStatus, OwnerRows, LastIs, RoutingSteps, ReconcileSteps
  <2>2. OwnerMoves(w, "unresolved", l)
    BY <1>2, <1>5, <1>6, <2>1 DEF OwnerMoves, RoutingSteps
  <2>3. faults' \in 0..MaxFaults
    BY <1>2, <1>9, BoundsAssumption
  <2> QED
    BY <1>1, <1>6, <1>9, <2>2, <2>3, OwnerReadKeeps
<1> QED
  BY <1>2, <1>8, <1>9 DEF ResolveFails

LEMMA FailUnresolvedKeeps ==
    ASSUME IInv, NEW w \in Workers, FailUnresolved(w)
    PROVE  IInv'
<1> DEFINE p == [local[w].pay EXCEPT
                    !.status = "failed", !.failure = "adapter_not_registered"]
<1>1. Owns(w) /\ pc[w] = "unresolved"
  BY DEF FailUnresolved, Owns, OwnerSteps, RoutingSteps
<1>2. /\ local[w].pay = payment
      /\ payment \in PaymentRows
      /\ payment.presented = 0
      /\ LastIs(payment.active, {"created", "failed_terminal"})
      /\ charge[payment.active] = "unsent"
  BY <1>1, OwnerFacts DEF OwnerRows
<1>3. /\ p \in PaymentRows
      /\ p.status = "failed"
      /\ p.presented = 0
      /\ p.recovered = payment.recovered
  BY <1>2 DEF PaymentRows, PaymentStatuses, FailureCodes
<1>4. SavePayment(p) /\ Return(w) /\ UNCHANGED <<attempt, ledger, world>>
  BY DEF FailUnresolved
<1>5. \A s \in Sequences : ~MayExist(s)
  <2> SUFFICES ASSUME NEW s \in Sequences
               PROVE  charge[s] \in {"none", "unsent"}
    BY DEF MayExist
  <2>1. CASE s < payment.active
    BY <1>2, <2>1 DEF LastIs, IInv, RowsAgree, FallbackOnlyAfterSafeFailure, Recorded
  <2>2. CASE s > payment.active
    BY <1>2, <2>2 DEF LastIs, IInv, RowsAgree
  <2> QED
    BY <1>2, <2>1, <2>2 DEF LastIs, Sequences
<1> HIDE DEF p
<1>6. OwnerSaves(p)
  BY <1>3, <1>4, <1>5 DEF OwnerSaves
<1>7. OwnerMoves(w, ReturnStep(w), NoLocals)
  BY <1>1, <1>4, OwnerIsOpen, ReturnMoves
<1> QED
  BY <1>1, <1>6, <1>7, OwnerSaveKeeps

LEMMA MarkRequestingKeeps ==
    ASSUME IInv, NEW w \in Workers, MarkRequesting(w)
    PROVE  IInv'
<1> DEFINE n == payment.active
           row == [local[w].row EXCEPT !.status = "requesting"]
           l == [local[w] EXCEPT !.row = row]
<1>1. Owns(w) /\ pc[w] = "resolve"
  BY DEF MarkRequesting, Owns, OwnerSteps, RoutingSteps
<1>2. /\ local[w] \in Locals
      /\ local[w].pay = payment
      /\ payment.status = "routing"
      /\ LastIs(n, {"created"})
      /\ local[w].count = n - 1
  BY <1>1, OwnerFacts DEF OwnerStatus, OwnerRows, RoutingSteps
<1>3. /\ charge[n] = "unsent"
      /\ \A s \in Sequences : s < n => attempt[s].status = "failed_safe"
      /\ \A s \in Sequences : s > n => attempt[s].status = "absent"
  BY <1>2 DEF LastIs, IInv, RowsAgree, FallbackOnlyAfterSafeFailure, Recorded
<1>4. row \in AttemptRows /\ row.status = "requesting"
  BY <1>2 DEF Locals, AttemptRows, AttemptStatuses
<1>5. l \in Locals /\ l.pay = payment /\ l.row = row /\ l.count = n - 1
  BY <1>2, <1>4 DEF Locals
<1>6. /\ SaveAttempt(n, row)
      /\ local' = [local EXCEPT ![w] = l]
      /\ pc' = [pc EXCEPT ![w] = "create"]
      /\ UNCHANGED <<payment, charge, shown, ledger, eligible, faults>>
  BY <1>2 DEF MarkRequesting, Goto, world
<1> HIDE DEF row, l
<1>7. pc'[w] = "create" /\ local'[w] = l
  BY <1>6 DEF IInv, TypeOK
<1>8. attempt'[n] = row /\ \A s \in Sequences : s > n => attempt'[s].status = "absent"
  BY <1>2, <1>3, <1>6 DEF SaveAttempt, LastIs, Sequences, IInv, TypeOK
<1>9. OwnerKnows(w)'
  BY <1>2, <1>3, <1>4, <1>5, <1>6, <1>7, <1>8
     DEF OwnerKnows, OwnerStatus, OwnerRows, LastIs, RoutingSteps, ReconcileSteps
<1>10. OwnerSavesAttempt(n, row)
  BY <1>2, <1>3, <1>4, <1>6 DEF OwnerSavesAttempt, LastIs
<1>11. OwnerMoves(w, "create", l)
  BY <1>5, <1>6, <1>9 DEF OwnerMoves, RoutingSteps
<1> QED
  BY <1>1, <1>10, <1>11, OwnerAttemptKeeps

LEMMA CreatePixKeeps ==
    ASSUME IInv, NEW w \in Workers, CreatePix(w)
    PROVE  IInv'
<1> DEFINE n == payment.active
<1>1. Owns(w) /\ pc[w] = "create"
  BY DEF CreatePix, Owns, OwnerSteps, RoutingSteps
<1>2. /\ local[w] \in Locals
      /\ local[w].pay = payment
      /\ payment.status = "routing"
      /\ payment.presented = 0
      /\ LastIs(n, {"requesting"})
      /\ local[w].count = n - 1
      /\ charge[n] = "unsent"
      /\ faults \in 0..MaxFaults
  BY <1>1, OwnerFacts DEF OwnerStatus, OwnerRows, RoutingSteps
<1>3. PICK outcome \in Outcomes, c \in Charges :
         /\ outcome = "failed_safe" => c = "none"
         /\ outcome = "succeeded" => c = "live"
         /\ c # "paid"
         /\ charge' = [charge EXCEPT ![n] = c]
         /\ LET row == [local[w].row EXCEPT !.status = outcome,
                                           !.identified = (outcome = "succeeded")]
            IN  local' = [local EXCEPT ![w].row = row]
  BY <1>2 DEF CreatePix, ChargeAfter, Outcomes, Charges
<1> DEFINE row == [local[w].row EXCEPT
                      !.status = outcome, !.identified = (outcome = "succeeded")]
           l == [local[w] EXCEPT !.row = row]
<1>4. row \in AttemptRows /\ row.status = outcome
  BY <1>2 DEF Locals, AttemptRows, AttemptStatuses, Outcomes
<1>5. l \in Locals /\ l.pay = payment /\ l.row = row /\ l.count = n - 1
  BY <1>2, <1>4 DEF Locals
<1>6. local' = [local EXCEPT ![w] = l]
  BY <1>3
<1>7. /\ pc' = [pc EXCEPT ![w] = "respond"]
      /\ UNCHANGED <<payment, attempt, ledger, eligible, shown, faults>>
  BY DEF CreatePix, Goto
<1> HIDE DEF row, l
<1>8. pc'[w] = "respond" /\ local'[w] = l
  BY <1>6, <1>7 DEF IInv, TypeOK
<1>9. charge'[n] = c /\ charge' \in [Sequences -> Charges]
  BY <1>2, <1>3 DEF LastIs, IInv, TypeOK
<1>10. OwnerKnows(w)'
  BY <1>2, <1>3, <1>4, <1>5, <1>7, <1>8, <1>9
     DEF OwnerKnows, OwnerStatus, OwnerRows, LastIs, RoutingSteps, ReconcileSteps
<1>11. OwnerMoves(w, "respond", l)
  BY <1>5, <1>6, <1>7, <1>10 DEF OwnerMoves, RoutingSteps
<1>12. RowsAgree'
  <2>1. \A s \in Sequences : s # n => charge'[s] = charge[s]
    BY <1>3 DEF IInv, TypeOK
  <2> QED
    BY <1>2, <1>3, <1>7, <1>9, <2>1
       DEF IInv, RowsAgree, FallbackOnlyAfterSafeFailure, Recorded, LastIs
<1>13. PaymentAgrees'
  BY <1>2, <1>7 DEF IInv, PaymentAgrees, OwnFailureLeavesNoCharge
<1>14. \A s \in Sequences : charge[s] = "paid" => charge'[s] = "paid"
  BY <1>2, <1>3 DEF IInv, TypeOK
<1> QED
  BY <1>1, <1>2, <1>7, <1>9, <1>11, <1>12, <1>13, <1>14,
     OwnerMayOwn, MayOwnStepKeeps DEF IInv, TypeOK

LEMMA SaveOutcomeKeeps ==
    ASSUME IInv, NEW w \in Workers, SaveOutcome(w)
    PROVE  IInv'
<1> DEFINE n == payment.active
           row == local[w].row
<1>1. Owns(w) /\ pc[w] = "respond"
  BY DEF SaveOutcome, Owns, OwnerSteps, RoutingSteps
<1>2. /\ local[w] \in Locals
      /\ local[w].pay = payment
      /\ payment.status = "routing"
      /\ n \in AttemptIds
      /\ LastIs(n, {"requesting"})
      /\ local[w].count = n - 1
      /\ row \in AttemptRows
      /\ row.status \in Outcomes
      /\ row.status = "failed_safe" => charge[n] = "none"
  BY <1>1, OwnerFacts DEF OwnerStatus, OwnerRows, RoutingSteps, Locals, PaymentRows
<1>3. /\ \A s \in Sequences : s < n => attempt[s].status = "failed_safe"
      /\ \A s \in Sequences : s > n => attempt[s].status = "absent"
  BY <1>2 DEF LastIs, IInv, RowsAgree, FallbackOnlyAfterSafeFailure, Recorded
<1>4. /\ SaveAttempt(n, row)
      /\ UNCHANGED <<payment, charge, shown, ledger, eligible, faults>>
  BY <1>2 DEF SaveOutcome, world
<1>5. attempt'[n] = row /\ \A s \in Sequences : s # n => attempt'[s] = attempt[s]
  BY <1>2, <1>4 DEF SaveAttempt, LastIs, IInv, TypeOK
<1>6. OwnerSavesAttempt(n, row)
  BY <1>2, <1>3, <1>4 DEF OwnerSavesAttempt, LastIs, Outcomes
<1>7. CASE FallsBack(row.status)
  <2> DEFINE l == [local[w] EXCEPT !.count = @ + 1, !.excluded = @ \cup {row.conn}]
  <2>1. /\ local' = [local EXCEPT ![w] = l]
        /\ pc' = [pc EXCEPT ![w] = "select"]
    BY <1>7 DEF SaveOutcome, Goto
  <2>2. l \in Locals /\ l.pay = payment /\ l.count = n
    <3>1. row.conn \in Conns \cup {None}
      BY <1>2 DEF AttemptRows
    <3>2. local[w].count + 1 = n
      BY <1>2, BoundsAssumption DEF AttemptIds
    <3> QED
      BY <1>2, <3>1, <3>2 DEF Locals
  <2> HIDE DEF l
  <2>3. pc'[w] = "select" /\ local'[w] = l
    BY <2>1 DEF IInv, TypeOK
  <2>4. AllSafeUpTo(n)'
    BY <1>2, <1>3, <1>4, <1>5, <1>7 DEF AllSafeUpTo, FallsBack, Sequences, LastIs
  <2>5. OwnerKnows(w)'
    BY <1>2, <1>4, <2>2, <2>3, <2>4
       DEF OwnerKnows, OwnerStatus, OwnerRows, RoutingSteps, ReconcileSteps
  <2>6. OwnerMoves(w, "select", l)
    BY <2>1, <2>2, <2>5 DEF OwnerMoves, RoutingSteps
  <2> QED
    BY <1>1, <1>6, <2>6, OwnerAttemptKeeps
<1>8. CASE ~FallsBack(row.status)
  <2> DEFINE l == local[w]
  <2>1. /\ local' = [local EXCEPT ![w] = l]
        /\ pc' = [pc EXCEPT ![w] = "settle"]
    BY <1>8 DEF SaveOutcome, Goto, IInv, TypeOK
  <2>2. pc'[w] = "settle" /\ local'[w] = l
    BY <2>1 DEF IInv, TypeOK
  <2>3. LastIs(n, {"succeeded", "unknown", "failed_terminal"})'
    BY <1>2, <1>3, <1>4, <1>5, <1>8 DEF LastIs, FallsBack, Outcomes, Sequences
  <2>4. OwnerKnows(w)'
    BY <1>2, <1>4, <1>5, <2>2, <2>3
       DEF OwnerKnows, OwnerStatus, OwnerRows, RoutingSteps, ReconcileSteps
  <2>5. OwnerMoves(w, "settle", l)
    BY <1>2, <2>1, <2>4 DEF OwnerMoves, RoutingSteps
  <2> QED
    BY <1>1, <1>6, <2>5, OwnerAttemptKeeps
<1> QED
  BY <1>7, <1>8

\* What a payment is settled to.
LEMMA SettledFacts ==
    ASSUME NEW p \in PaymentRows, p.presented = 0,
           NEW outcome \in {"succeeded", "unknown", "failed_terminal"}
    PROVE  LET q == Settled(p, outcome)
           IN  /\ q \in PaymentRows
               /\ q.active = p.active
               /\ q.recovered = p.recovered
               /\ \/ /\ outcome = "succeeded"
                     /\ q.status = "awaiting_payment"
                     /\ q.presented = p.active
                  \/ /\ outcome = "unknown"
                     /\ q.status = "reconciling"
                     /\ q.presented = 0
                  \/ /\ q.status = "failed"
                     /\ q.presented = 0
                     /\ q.failure = "provider_failure"
<1>1. CASE outcome = "succeeded"
  BY <1>1 DEF Settled, PaymentRows, PaymentStatuses, FailureCodes
<1>2. CASE outcome = "unknown"
  BY <1>2 DEF Settled, PaymentRows, PaymentStatuses, FailureCodes
<1>3. CASE outcome = "failed_terminal"
  BY <1>3 DEF Settled, PaymentRows, PaymentStatuses, FailureCodes
<1> QED
  BY <1>1, <1>2, <1>3

LEMMA SettlePaymentKeeps ==
    ASSUME IInv, NEW w \in Workers, SettlePayment(w)
    PROVE  IInv'
<1> DEFINE p == Settled(local[w].pay, local[w].row.status)
           n == payment.active
<1>1. Owns(w) /\ pc[w] = "settle"
  BY DEF SettlePayment, Owns, OwnerSteps, RoutingSteps
<1>2. /\ local[w].pay = payment
      /\ payment \in PaymentRows
      /\ payment.presented = 0
      /\ LastIs(n, {"succeeded", "unknown", "failed_terminal"})
      /\ attempt[n] = local[w].row
  BY <1>1, OwnerFacts DEF OwnerRows
<1>3. SavePayment(p) /\ Return(w) /\ UNCHANGED <<attempt, ledger, world>>
  BY DEF SettlePayment
<1>4. local[w].row.status \in {"succeeded", "unknown", "failed_terminal"}
  BY <1>2 DEF LastIs
<1>5. /\ p \in PaymentRows
      /\ p.active = n
      /\ p.recovered = payment.recovered
      /\ \/ /\ attempt[n].status = "succeeded"
            /\ p.status = "awaiting_payment"
            /\ p.presented = n
         \/ /\ p.status = "reconciling"
            /\ p.presented = 0
         \/ /\ p.status = "failed"
            /\ p.presented = 0
            /\ p.failure = "provider_failure"
  BY <1>2, <1>4, SettledFacts
<1> HIDE DEF p
<1>6. OwnerSaves(p)
  BY <1>2, <1>3, <1>5 DEF OwnerSaves, LastIs, AttemptStatuses
<1>7. OwnerMoves(w, ReturnStep(w), NoLocals)
  BY <1>1, <1>3, OwnerIsOpen, ReturnMoves
<1> QED
  BY <1>1, <1>6, <1>7, OwnerSaveKeeps

\* The owner returns without a write, or fails.
LEMMA OwnerLeavesKeeps ==
    ASSUME IInv, NEW w \in Workers, Owns(w), Return(w),
           UNCHANGED <<payment, attempt, charge, shown, ledger, eligible>>,
           faults' \in 0..MaxFaults
    PROVE  IInv'
<1>1. OwnerMoves(w, ReturnStep(w), NoLocals)
  BY OwnerIsOpen, ReturnMoves
<1> QED
  BY <1>1, OwnerReadKeeps

LEMMA ReadUnknownAttemptKeeps ==
    ASSUME IInv, NEW w \in Reconcilers, ReadUnknownAttempt(w)
    PROVE  IInv'
<1> DEFINE n == payment.active
           row == attempt[n]
<1>w. w \in Workers /\ w \notin Creators
  BY ProcessesAssumption DEF Workers
<1>1. Owns(w) /\ pc[w] = "reattempt"
  BY DEF ReadUnknownAttempt, Owns, OwnerSteps, ReconcileSteps
<1>2. /\ local[w] \in Locals
      /\ local[w].pay = payment
      /\ payment.status = "reconciling"
      /\ LastIs(n, AttemptStatuses \ {"absent"})
      /\ faults \in 0..MaxFaults
  BY <1>w, <1>1, OwnerFacts DEF OwnerStatus, OwnerRows, ReconcileSteps
<1>3. UNCHANGED <<payment, attempt, charge, shown, ledger, eligible, faults>>
  BY DEF ReadUnknownAttempt, world
<1>4. CASE Unresolved(row) /\ local' = [local EXCEPT ![w].row = row] /\ Goto(w, "ask")
  <2> DEFINE l == [local[w] EXCEPT !.row = row]
  <2>1. /\ local' = [local EXCEPT ![w] = l]
        /\ pc' = [pc EXCEPT ![w] = "ask"]
    BY <1>4 DEF Goto
  <2>2. l \in Locals /\ l.pay = payment /\ l.row = row
    BY <1>2 DEF Locals, LastIs, IInv, TypeOK
  <2> HIDE DEF l
  <2>3. pc'[w] = "ask" /\ local'[w] = l
    BY <1>w, <2>1 DEF IInv, TypeOK
  <2>4. OwnerKnows(w)'
    BY <1>2, <1>3, <1>4, <2>2, <2>3
       DEF OwnerKnows, OwnerStatus, OwnerRows, LastIs, Unresolved, RoutingSteps, ReconcileSteps
  <2>5. OwnerMoves(w, "ask", l)
    BY <1>w, <2>1, <2>2, <2>4 DEF OwnerMoves, ReconcileSteps
  <2> QED
    BY <1>w, <1>1, <1>2, <1>3, <2>5, OwnerReadKeeps
<1>5. CASE Return(w)
  BY <1>w, <1>1, <1>2, <1>3, <1>5, OwnerLeavesKeeps
<1> QED
  BY <1>2, <1>4, <1>5 DEF ReadUnknownAttempt

LEMMA AskProviderKeeps ==
    ASSUME IInv, NEW w \in Reconcilers, AskProvider(w)
    PROVE  IInv'
<1> DEFINE n == payment.active
<1>w. w \in Workers /\ w \notin Creators
  BY ProcessesAssumption DEF Workers
<1>1. Owns(w) /\ pc[w] = "ask"
  BY DEF AskProvider, Owns, OwnerSteps, ReconcileSteps
<1>2. /\ local[w] \in Locals
      /\ local[w].pay = payment
      /\ payment.status = "reconciling"
      /\ LastIs(n, {"unknown"})
      /\ faults \in 0..MaxFaults
  BY <1>w, <1>1, OwnerFacts DEF OwnerStatus, OwnerRows, ReconcileSteps
<1>3. PICK answer \in Outcomes :
         /\ answer = "failed_safe" => charge[n] = "none"
         /\ answer = "succeeded" => charge[n] \in {"live", "paid"}
         /\ LET row == [local[w].row EXCEPT !.status = answer,
                                           !.identified = @ \/ answer = "succeeded"]
            IN  local' = [local EXCEPT ![w].row = row]
  BY <1>2 DEF AskProvider, Answers, Outcomes
<1> DEFINE row == [local[w].row EXCEPT !.status = answer,
                                       !.identified = @ \/ answer = "succeeded"]
           l == [local[w] EXCEPT !.row = row]
<1>4. row \in AttemptRows /\ row.status = answer
  BY <1>2 DEF Locals, AttemptRows, AttemptStatuses, Outcomes
<1>5. l \in Locals /\ l.pay = payment /\ l.row = row
  BY <1>2, <1>4 DEF Locals
<1>6. local' = [local EXCEPT ![w] = l]
  BY <1>3
<1>7. /\ pc' = [pc EXCEPT ![w] = "answered"]
      /\ UNCHANGED <<payment, attempt, charge, shown, ledger, eligible, faults>>
  BY DEF AskProvider, Goto, world
<1> HIDE DEF row, l
<1>8. pc'[w] = "answered" /\ local'[w] = l
  BY <1>w, <1>6, <1>7 DEF IInv, TypeOK
<1>9. OwnerKnows(w)'
  BY <1>2, <1>3, <1>4, <1>5, <1>7, <1>8
     DEF OwnerKnows, OwnerStatus, OwnerRows, LastIs, RoutingSteps, ReconcileSteps
<1>10. OwnerMoves(w, "answered", l)
  BY <1>w, <1>5, <1>6, <1>7, <1>9 DEF OwnerMoves, ReconcileSteps
<1> QED
  BY <1>w, <1>1, <1>2, <1>7, <1>10, OwnerReadKeeps

LEMMA SaveAnswerKeeps ==
    ASSUME IInv, NEW w \in Reconcilers, SaveAnswer(w)
    PROVE  IInv'
<1> DEFINE n == payment.active
           row == local[w].row
           next == IF row.status = "failed_safe" THEN "reroute" ELSE "settle"
<1>w. w \in Workers /\ w \notin Creators /\ w \in Creators \cup Reconcilers
  BY ProcessesAssumption DEF Workers
<1>1. Owns(w) /\ pc[w] = "answered"
  BY DEF SaveAnswer, Owns, OwnerSteps, ReconcileSteps
<1>2. /\ local[w] \in Locals
      /\ local[w].pay = payment
      /\ payment.status = "reconciling"
      /\ LastIs(n, {"unknown"})
      /\ row \in AttemptRows
      /\ row.status \in Outcomes
      /\ row.status = "failed_safe" => charge[n] = "none"
  BY <1>w, <1>1, OwnerFacts DEF OwnerStatus, OwnerRows, ReconcileSteps, Locals
<1>3. /\ \A s \in Sequences : s < n => attempt[s].status = "failed_safe"
      /\ \A s \in Sequences : s > n => attempt[s].status = "absent"
  BY <1>2 DEF LastIs, IInv, RowsAgree, FallbackOnlyAfterSafeFailure, Recorded
<1>4. /\ SaveAttempt(n, row)
      /\ UNCHANGED <<payment, charge, shown, ledger, eligible, faults>>
  BY <1>2 DEF SaveAnswer, world
<1>5. attempt'[n] = row /\ \A s \in Sequences : s # n => attempt'[s] = attempt[s]
  BY <1>2, <1>4 DEF SaveAttempt, LastIs, IInv, TypeOK
<1>6. OwnerSavesAttempt(n, row)
  BY <1>2, <1>3, <1>4 DEF OwnerSavesAttempt, LastIs, Outcomes
<1>7. CASE row.status = "unknown"
  <2>1. Return(w)
    BY <1>7 DEF SaveAnswer
  <2>2. OwnerMoves(w, ReturnStep(w), NoLocals)
    BY <1>w, <2>1, ReturnMoves
  <2> QED
    BY <1>w, <1>1, <1>6, <2>2, OwnerAttemptKeeps
<1>8. CASE row.status # "unknown"
  <2> DEFINE l == local[w]
  <2>1. /\ local' = [local EXCEPT ![w] = l]
        /\ pc' = [pc EXCEPT ![w] = next]
    BY <1>8 DEF SaveAnswer, Goto, IInv, TypeOK
  <2>2. pc'[w] = next /\ local'[w] = l
    BY <1>w, <2>1 DEF IInv, TypeOK
  <2>3. /\ row.status = "failed_safe" => LastIs(n, {"failed_safe"})'
        /\ row.status # "failed_safe" =>
              LastIs(n, {"succeeded", "unknown", "failed_terminal"})'
    BY <1>2, <1>3, <1>4, <1>5, <1>8 DEF LastIs, Outcomes, Sequences
  <2>4. OwnerKnows(w)'
    BY <1>w, <1>2, <1>4, <1>5, <2>2, <2>3
       DEF OwnerKnows, OwnerStatus, OwnerRows, RoutingSteps, ReconcileSteps
  <2>5. OwnerMoves(w, next, l)
    BY <1>w, <1>2, <2>1, <2>4 DEF OwnerMoves, RoutingSteps, ReconcileSteps
  <2> QED
    BY <1>w, <1>1, <1>6, <2>5, OwnerAttemptKeeps
<1> QED
  BY <1>7, <1>8

LEMMA RerouteKeeps ==
    ASSUME IInv, NEW w \in Reconcilers, Reroute(w)
    PROVE  IInv'
<1> DEFINE n == payment.active
           p == [local[w].pay EXCEPT !.status = "routing", !.failure = ""]
           l == [local[w] EXCEPT !.pay = p]
<1>w. w \in Workers /\ w \notin Creators
  BY ProcessesAssumption DEF Workers
<1>1. Owns(w) /\ pc[w] = "reroute"
  BY DEF Reroute, Owns, OwnerSteps, ReconcileSteps
<1>2. /\ local[w] \in Locals
      /\ local[w].pay = payment
      /\ payment \in PaymentRows
      /\ payment.presented = 0
      /\ LastIs(n, {"failed_safe"})
  BY <1>w, <1>1, OwnerFacts DEF OwnerRows
<1>3. /\ p \in PaymentRows
      /\ p.status = "routing"
      /\ p.active = n
      /\ p.presented = 0
      /\ p.recovered = payment.recovered
  BY <1>2 DEF PaymentRows, PaymentStatuses, FailureCodes
<1>4. l \in Locals /\ l.pay = p
  BY <1>2, <1>3 DEF Locals
<1>5. /\ SavePayment(p)
      /\ pc' = [pc EXCEPT ![w] = "list"]
      /\ local' = [local EXCEPT ![w] = l]
      /\ UNCHANGED <<attempt, ledger, world>>
  BY DEF Reroute, Goto
<1> HIDE DEF p, l
<1>6. pc'[w] = "list" /\ local'[w] = l /\ payment' = p
  BY <1>w, <1>5 DEF IInv, TypeOK, SavePayment
<1>7. AllSafeUpTo(n)
  BY <1>2 DEF LastIs, AllSafeUpTo, Sequences, IInv, RowsAgree, FallbackOnlyAfterSafeFailure,
              Recorded
<1>8. OwnerKnows(w)'
  BY <1>3, <1>4, <1>5, <1>6, <1>7
     DEF OwnerKnows, OwnerStatus, OwnerRows, AllSafeUpTo, RoutingSteps, ReconcileSteps
<1>9. OwnerSaves(p)
  BY <1>3, <1>5 DEF OwnerSaves
<1>10. OwnerMoves(w, "list", l)
  BY <1>w, <1>4, <1>5, <1>8 DEF OwnerMoves, RoutingSteps
<1> QED
  BY <1>w, <1>1, <1>9, <1>10, OwnerSaveKeeps

-----------------------------------------------------------------------------
(* Becoming the owner.                                                      *)

LEMMA GetOrCreatePaymentInserts ==
    ASSUME IInv, NEW w \in Creators, NEW f \in Fingerprints,
           GetOrCreatePayment(w, f), payment.status = "absent"
    PROVE  IInv'
<1> DEFINE row == [NoPayment EXCEPT !.status = "created", !.fingerprint = f]
           l == [local[w] EXCEPT !.pay = row, !.request = f]
<1>w. w \in Workers /\ w \notin Reconcilers
  BY ProcessesAssumption DEF Workers
<1>1. MayOwn(w)
  BY SettledIsNotOwned DEF MayOwn
<1>2. /\ local[w] \in Locals
      /\ payment = NoPayment
      /\ shown = {}
      /\ AllSafeUpTo(0)
      /\ faults \in 0..MaxFaults
  BY <1>w DEF IInv, TypeOK, PaymentAgrees, NoPayment
<1>3. /\ row \in PaymentRows
      /\ row.status = "created"
      /\ row.active = 0
      /\ row.presented = 0
      /\ row.recovered = payment.recovered
  <2>1. /\ row.status = "created"
        /\ row.active = 0
        /\ row.presented = 0
        /\ row.recovered = payment.recovered
    BY <1>2 DEF NoPayment
  <2>2. row \in PaymentRows
    BY <1>2 DEF IInv, TypeOK, PaymentRows, PaymentStatuses
  <2> QED
    BY <2>1, <2>2
<1>4. l \in Locals /\ l.pay = row
  BY <1>2, <1>3 DEF Locals
<1>5. /\ payment' = row
      /\ shown' = shown
      /\ pc' = [pc EXCEPT ![w] = "created"]
      /\ local' = [local EXCEPT ![w] = l]
      /\ UNCHANGED <<attempt, ledger, eligible, charge, faults>>
  BY <1>2 DEF GetOrCreatePayment, SavePayment, Goto, world, NoPayment
<1> HIDE DEF row, l
<1>6. pc'[w] = "created" /\ local'[w] = l
  BY <1>w, <1>5 DEF IInv, TypeOK
<1>7. OwnerKnows(w)'
  BY <1>2, <1>3, <1>4, <1>5, <1>6
     DEF OwnerKnows, OwnerStatus, OwnerRows, AllSafeUpTo, RoutingSteps, ReconcileSteps
<1>8. OwnerMoves(w, "created", l)
  BY <1>w, <1>4, <1>5, <1>7 DEF OwnerMoves, RoutingSteps
<1>9. RowsAgree'
  BY <1>5 DEF IInv, RowsAgree, FallbackOnlyAfterSafeFailure, Recorded
<1>10. PaymentAgrees'
  BY <1>2, <1>3, <1>5 DEF PaymentAgrees, OwnFailureLeavesNoCharge
<1> QED
  BY <1>w, <1>1, <1>2, <1>3, <1>5, <1>8, <1>9, <1>10, MayOwnStepKeeps
     DEF IInv, TypeOK, NoPayment

LEMMA ReadForReconcileKeeps ==
    ASSUME IInv, NEW w \in Reconcilers, ReadForReconcile(w)
    PROVE  IInv'
<1> DEFINE l == [local[w] EXCEPT !.pay = payment]
<1>w. w \in Workers /\ w \notin Creators
  BY ProcessesAssumption DEF Workers
<1>1. pc[w] = "idle" /\ payment.status = "reconciling"
  BY DEF ReadForReconcile, Reconcilable
<1>2. MayOwn(w)
  \* The creator's last write precedes the read, and there is no other reconciler.
  <2> SUFFICES ASSUME NEW v \in Workers \ {w}, Owns(v)
               PROVE  FALSE
    BY <1>1 DEF MayOwn
  <2>1. v \in Creators
    BY OwnerIsOpen, SerialAssumption
  <2>2. OwnerStatus(v) /\ pc[v] \in {"created"} \cup RoutingSteps
    BY <2>1, ProcessesAssumption, OwnerFacts
       DEF Owns, OwnerSteps, IInv, StepsFit, RoutingSteps, ReconcileSteps, CreatorSteps
  <2>3. v \notin Reconcilers
    BY <2>1, ProcessesAssumption
  <2> QED
    BY <1>1, <2>2, <2>3 DEF OwnerStatus
<1>3. /\ local[w] \in Locals
      /\ payment \in PaymentRows
      /\ LastIs(payment.active, AttemptStatuses \ {"absent"})
      /\ faults \in 0..MaxFaults
  BY <1>w, <1>1 DEF IInv, TypeOK, PaymentAgrees
<1>4. l \in Locals /\ l.pay = payment
  BY <1>3 DEF Locals
<1>5. /\ pc' = [pc EXCEPT ![w] = "reattempt"]
      /\ local' = [local EXCEPT ![w] = l]
      /\ UNCHANGED <<payment, attempt, charge, shown, ledger, eligible, faults>>
  BY DEF ReadForReconcile, Goto, world
<1> HIDE DEF l
<1>6. pc'[w] = "reattempt" /\ local'[w] = l
  BY <1>w, <1>5 DEF IInv, TypeOK
<1>7. OwnerKnows(w)'
  BY <1>1, <1>3, <1>4, <1>5, <1>6
     DEF OwnerKnows, OwnerStatus, OwnerRows, LastIs, RoutingSteps, ReconcileSteps
<1>8. OwnerMoves(w, "reattempt", l)
  BY <1>w, <1>4, <1>5, <1>7 DEF OwnerMoves, ReconcileSteps
<1>9. RowsAgree'
  BY <1>5 DEF IInv, RowsAgree, FallbackOnlyAfterSafeFailure, Recorded
<1>10. PaymentAgrees'
  BY <1>5 DEF IInv, PaymentAgrees, LastIs, AllSafeUpTo, OwnFailureLeavesNoCharge, MayExist
<1> QED
  BY <1>w, <1>1, <1>2, <1>3, <1>5, <1>8, <1>9, <1>10, MayOwnStepKeeps DEF IInv, TypeOK

-----------------------------------------------------------------------------
(* Steps of handlers that own nothing, and of the world.                    *)

\* Handler w does not own the payment, and does not come to own it.
Bystands(w, step, l) ==
    /\ pc' = [pc EXCEPT ![w] = step]
    /\ l \in Locals
    /\ local' = [local EXCEPT ![w] = l]
    /\ w \in Creators => step \in {"existing", "replied", "conflict"}
    /\ w \in Reconcilers => step = "idle"
    /\ w \in Receivers => step \in WebhookSteps \cup {"idle"} /\ ReceiverKnows(w)'

\* Such a step keeps the invariant when it leaves the payment, the attempts and the
\* ledgers as they are, except that it may record or acknowledge an event.
LEMMA BystanderKeeps ==
    ASSUME IInv, NEW w \in Workers, ~Owns(w),
           NEW step, NEW l, Bystands(w, step, l),
           UNCHANGED <<payment, attempt, charge, shown, recovery, outbox, eligible>>,
           event' \in [Sequences -> {"absent", "recorded", "processed"}],
           ProcessedMeansPaid',
           faults' \in 0..MaxFaults
    PROVE  IInv'
<1>0. OnlyMoves(w) /\ pc'[w] = step /\ local'[w] = l
  BY UpdatesMoveOnly DEF IInv, Bystands
<1>1. step \in Steps \ OwnerSteps
  BY DEF Steps, ActiveSteps, CreatorSteps, OwnerSteps, RoutingSteps, ReconcileSteps,
         WebhookSteps, Bystands, Workers
<1>2. \A v \in Workers : Owns(v)' => v # w /\ Owns(v)
  BY <1>0, <1>1 DEF OnlyMoves, Owns
<1>3. SingleOwner'
  BY <1>2 DEF IInv, SingleOwner
<1>4. OwnerHolds'
  <2> SUFFICES ASSUME NEW v \in Workers, Owns(v)'
               PROVE  OwnerKnows(v)'
    BY DEF OwnerHolds
  <2>1. OwnerKnows(v) /\ pc'[v] = pc[v] /\ local'[v] = local[v]
    BY <1>0, <1>2 DEF IInv, OwnerHolds, OnlyMoves
  <2> QED
    BY <2>1 DEF OwnerKnows, OwnerStatus, OwnerRows, LastIs, AllSafeUpTo
<1>5. StepsFit'
  BY <1>0 DEF IInv, StepsFit, OnlyMoves, Bystands, Workers, CreatorSteps
<1>6. ReceiverHolds'
  <2> SUFFICES ASSUME NEW v \in Receivers
               PROVE  ReceiverKnows(v)'
    BY DEF ReceiverHolds
  <2>1. CASE v = w
    BY <2>1 DEF Bystands
  <2>2. CASE v # w
    <3>1. ReceiverKnows(v) /\ pc'[v] = pc[v] /\ local'[v] = local[v]
      BY <1>0, <2>2 DEF IInv, ReceiverHolds, OnlyMoves, Workers
    <3> QED
      BY <3>1 DEF ReceiverKnows
  <2> QED
    BY <2>1, <2>2
<1>7. RowsAgree'
  BY DEF IInv, RowsAgree, FallbackOnlyAfterSafeFailure, Recorded
<1>8. PaymentAgrees'
  BY DEF IInv, PaymentAgrees, LastIs, AllSafeUpTo, OwnFailureLeavesNoCharge, MayExist
<1>9. LedgerAgrees'
  BY DEF IInv, LedgerAgrees
<1>10. TypeOK'
  BY <1>1 DEF IInv, TypeOK, Bystands
<1> QED
  BY <1>3, <1>4, <1>5, <1>6, <1>7, <1>8, <1>9, <1>10 DEF IInv

\* With the event left alone.
LEMMA BystanderReadKeeps ==
    ASSUME IInv, NEW w \in Workers, ~Owns(w),
           NEW step, NEW l, Bystands(w, step, l),
           UNCHANGED <<payment, attempt, charge, shown, ledger, eligible>>,
           faults' \in 0..MaxFaults
    PROVE  IInv'
<1>1. ProcessedMeansPaid'
  BY DEF IInv, ProcessedMeansPaid, ledger
<1>2. event' \in [Sequences -> {"absent", "recorded", "processed"}]
  BY DEF IInv, TypeOK, ledger
<1> QED
  BY <1>1, <1>2, BystanderKeeps DEF ledger

\* Returning is a step of a bystander.
LEMMA ReturnBystands ==
    ASSUME IInv, NEW w \in Workers, Return(w)
    PROVE  Bystands(w, ReturnStep(w), NoLocals)
<1>1. NoLocals \in Locals
  BY NoLocalsTyped
<1>2. pc' = [pc EXCEPT ![w] = ReturnStep(w)] /\ local' = [local EXCEPT ![w] = NoLocals]
  BY DEF Return, Goto, ReturnStep
<1>3. ASSUME w \in Receivers
      PROVE  ReturnStep(w) = "idle" /\ ReceiverKnows(w)'
  BY <1>2, <1>3, ProcessesAssumption
     DEF ReturnStep, ReceiverKnows, WebhookSteps, IInv, TypeOK
<1> QED
  BY <1>1, <1>2, <1>3, ProcessesAssumption DEF Bystands, ReturnStep, NoLocals

LEMMA LeaveKeeps ==
    ASSUME IInv, NEW w \in Workers, ~Owns(w), Return(w),
           UNCHANGED <<payment, attempt, charge, shown, ledger, eligible>>,
           faults' \in 0..MaxFaults
    PROVE  IInv'
<1>1. Bystands(w, ReturnStep(w), NoLocals)
  BY ReturnBystands
<1> QED
  BY <1>1, BystanderReadKeeps

LEMMA FailKeeps ==
    ASSUME IInv, NEW w \in Workers, Fail(w)
    PROVE  IInv'
<1>1. /\ Return(w)
      /\ UNCHANGED <<payment, attempt, charge, shown, ledger, eligible>>
      /\ faults' \in 0..MaxFaults
  BY BoundsAssumption DEF Fail, IInv, TypeOK
<1>2. CASE Owns(w)
  BY <1>1, <1>2, OwnerLeavesKeeps
<1>3. CASE ~Owns(w)
  BY <1>1, <1>3, LeaveKeeps
<1> QED
  BY <1>2, <1>3

LEMMA GetOrCreatePaymentFinds ==
    ASSUME IInv, NEW w \in Creators, NEW f \in Fingerprints,
           GetOrCreatePayment(w, f), payment.status # "absent"
    PROVE  IInv'
<1> DEFINE l == [local[w] EXCEPT !.request = f]
<1>w. w \in Workers /\ w \notin Reconcilers /\ w \notin Receivers
  BY ProcessesAssumption DEF Workers
<1>1. ~Owns(w)
  BY DEF GetOrCreatePayment, Owns, OwnerSteps, RoutingSteps, ReconcileSteps
<1>2. l \in Locals
  BY <1>w DEF Locals, IInv, TypeOK
<1>3. /\ pc' = [pc EXCEPT ![w] = "existing"]
      /\ local' = [local EXCEPT ![w] = l]
      /\ UNCHANGED <<payment, attempt, charge, shown, ledger, eligible, faults>>
  BY DEF GetOrCreatePayment, Goto, world
<1> HIDE DEF l
<1>4. Bystands(w, "existing", l)
  BY <1>w, <1>2, <1>3 DEF Bystands
<1> QED
  BY <1>w, <1>1, <1>3, <1>4, BystanderReadKeeps DEF IInv, TypeOK

LEMMA ReadExistingKeeps ==
    ASSUME IInv, NEW w \in Creators, ReadExisting(w)
    PROVE  IInv'
<1>w. w \in Workers /\ w \notin Reconcilers /\ w \notin Receivers
  BY ProcessesAssumption DEF Workers
<1>1. ~Owns(w)
  BY DEF ReadExisting, Owns, OwnerSteps, RoutingSteps, ReconcileSteps
<1>2. NoLocals \in Locals
  BY NoLocalsTyped
<1>3. /\ pc' = [pc EXCEPT ![w] = Answer(w)]
      /\ local' = [local EXCEPT ![w] = NoLocals]
      /\ UNCHANGED <<payment, attempt, charge, shown, ledger, eligible, faults>>
  BY DEF ReadExisting, Goto, world
<1>4. Answer(w) \in {"replied", "conflict"}
  BY DEF Answer
<1>5. Bystands(w, Answer(w), NoLocals)
  BY <1>w, <1>2, <1>3, <1>4 DEF Bystands
<1> QED
  BY <1>w, <1>1, <1>3, <1>5, BystanderReadKeeps DEF IInv, TypeOK

\* A webhook handler owns nothing.
LEMMA ReceiverFacts ==
    ASSUME IInv, NEW w \in Receivers
    PROVE  /\ w \in Workers
           /\ w \notin Creators
           /\ w \notin Reconcilers
           /\ ~Owns(w)
           /\ local[w] \in Locals
           /\ ReceiverKnows(w)
           /\ faults \in 0..MaxFaults
BY ProcessesAssumption
   DEF IInv, TypeOK, StepsFit, ReceiverHolds, Workers, Owns, OwnerSteps, RoutingSteps,
       ReconcileSteps, WebhookSteps

LEMMA RecordEventKeeps ==
    ASSUME IInv, NEW w \in Receivers, NEW s \in Sequences, RecordEvent(w, s)
    PROVE  IInv'
<1> DEFINE l == [local[w] EXCEPT !.target = s]
<1>w. /\ w \in Workers /\ w \notin Creators /\ w \notin Reconcilers
      /\ ~Owns(w)
      /\ local[w] \in Locals
  BY ReceiverFacts
<1>1. l \in Locals /\ l.target = s
  BY <1>w, BoundsAssumption DEF Locals, Sequences, AttemptIds
<1>2. /\ pc' = [pc EXCEPT ![w] = "lookup"]
      /\ local' = [local EXCEPT ![w] = l]
      /\ UNCHANGED <<payment, attempt, charge, shown, recovery, outbox, eligible, faults>>
      /\ charge[s] = "paid"
      /\ event' = [event EXCEPT ![s] = AfterDelivery(event[s])]
  BY DEF RecordEvent, Goto, world, ReportsPayment
<1> HIDE DEF l
<1>3. pc'[w] = "lookup" /\ local'[w] = l
  BY <1>w, <1>2 DEF IInv, TypeOK
<1>4. ReceiverKnows(w)'
  BY <1>1, <1>2, <1>3 DEF ReceiverKnows
<1>5. Bystands(w, "lookup", l)
  BY <1>w, <1>1, <1>2, <1>4 DEF Bystands, WebhookSteps
<1>6. event' \in [Sequences -> {"absent", "recorded", "processed"}]
  BY <1>2 DEF AfterDelivery, IInv, TypeOK
<1>7. ProcessedMeansPaid'
  BY <1>2 DEF AfterDelivery, IInv, TypeOK, ProcessedMeansPaid
<1> QED
  BY <1>w, <1>2, <1>5, <1>6, <1>7, BystanderKeeps DEF IInv, TypeOK

LEMMA FindAttemptKeeps ==
    ASSUME IInv, NEW w \in Receivers, FindAttempt(w)
    PROVE  IInv'
<1> DEFINE l == local[w]
<1>w. /\ w \in Workers /\ w \notin Creators /\ w \notin Reconcilers
      /\ ~Owns(w)
      /\ l \in Locals
      /\ ReceiverKnows(w)
      /\ faults \in 0..MaxFaults
  BY ReceiverFacts
<1>1. pc[w] = "lookup" /\ UNCHANGED <<payment, attempt, charge, shown, ledger, eligible, faults>>
  BY DEF FindAttempt, world
<1>2. CASE Goto(w, "load") /\ UNCHANGED local
  <2>1. pc' = [pc EXCEPT ![w] = "load"] /\ local' = [local EXCEPT ![w] = l]
    BY <1>2 DEF Goto, IInv, TypeOK
  <2>2. pc'[w] = "load" /\ local'[w] = l
    BY <1>w, <2>1 DEF IInv, TypeOK
  <2>3. ReceiverKnows(w)'
    BY <1>w, <1>1, <2>2 DEF ReceiverKnows, WebhookSteps
  <2>4. Bystands(w, "load", l)
    BY <1>w, <2>1, <2>3 DEF Bystands, WebhookSteps
  <2> QED
    BY <1>w, <1>1, <2>4, BystanderReadKeeps
<1>3. CASE Return(w)
  BY <1>w, <1>1, <1>3, LeaveKeeps
<1> QED
  BY <1>2, <1>3 DEF FindAttempt

\* While a webhook handler has something to record, no one owns the payment: it is
\* awaited or paid, and never recovered by the row it read.
LEMMA ReadForPaidKeeps ==
    ASSUME IInv, NEW w \in Receivers, ReadForPaid(w)
    PROVE  IInv'
<1>w. /\ w \in Workers /\ w \notin Creators /\ w \notin Reconcilers
      /\ ~Owns(w)
      /\ local[w] \in Locals
      /\ ReceiverKnows(w)
      /\ faults \in 0..MaxFaults
  BY ReceiverFacts
<1>1. pc[w] = "load" /\ UNCHANGED <<payment, attempt, charge, shown, ledger, eligible, faults>>
  BY DEF ReadForPaid, world
<1>2. local[w].target \in Sequences /\ charge[local[w].target] = "paid"
  BY <1>w, <1>1 DEF ReceiverKnows, WebhookSteps
<1>3. CASE payment.status = "paid" /\ Goto(w, "acknowledge") /\ UNCHANGED local
  <2> DEFINE l == local[w]
  <2>1. pc' = [pc EXCEPT ![w] = "acknowledge"] /\ local' = [local EXCEPT ![w] = l]
    BY <1>3 DEF Goto, IInv, TypeOK
  <2>2. pc'[w] = "acknowledge" /\ local'[w] = l
    BY <1>w, <2>1 DEF IInv, TypeOK
  <2>3. payment.presented = local[w].target
    BY <1>2, <1>3 DEF IInv, RowsAgree, PaymentAgrees
  <2>4. ReceiverKnows(w)'
    BY <1>1, <1>2, <1>3, <2>2, <2>3 DEF ReceiverKnows, WebhookSteps
  <2>5. Bystands(w, "acknowledge", l)
    BY <1>w, <2>1, <2>4 DEF Bystands, WebhookSteps
  <2> QED
    BY <1>w, <1>1, <2>5, BystanderReadKeeps
<1>4. CASE /\ payment.status = "awaiting_payment"
           /\ payment.presented = local[w].target
           /\ local' = [local EXCEPT ![w].pay = payment]
           /\ Goto(w, "verify")
  <2> DEFINE l == [local[w] EXCEPT !.pay = payment]
  <2>1. pc' = [pc EXCEPT ![w] = "verify"] /\ local' = [local EXCEPT ![w] = l]
    BY <1>4 DEF Goto
  <2>2. l \in Locals /\ l.pay = payment /\ l.target = local[w].target
    BY <1>w DEF Locals, IInv, TypeOK
  <2> HIDE DEF l
  <2>3. pc'[w] = "verify" /\ local'[w] = l
    BY <1>w, <2>1 DEF IInv, TypeOK
  <2>4. ~payment.recovered
    BY <1>4 DEF IInv, LedgerAgrees
  <2>5. ReceiverKnows(w)'
    BY <1>1, <1>2, <1>4, <2>2, <2>3, <2>4 DEF ReceiverKnows
  <2>6. Bystands(w, "verify", l)
    BY <1>w, <2>1, <2>2, <2>5 DEF Bystands, WebhookSteps
  <2> QED
    BY <1>w, <1>1, <2>6, BystanderReadKeeps
<1>5. CASE Return(w)
  BY <1>w, <1>1, <1>5, LeaveKeeps
<1> QED
  BY <1>3, <1>4, <1>5 DEF ReadForPaid

LEMMA VerifyAttemptKeeps ==
    ASSUME IInv, NEW w \in Receivers, VerifyAttempt(w)
    PROVE  IInv'
<1> DEFINE l == local[w]
<1>w. /\ w \in Workers /\ w \notin Creators /\ w \notin Reconcilers
      /\ ~Owns(w)
      /\ l \in Locals
      /\ ReceiverKnows(w)
      /\ faults \in 0..MaxFaults
  BY ReceiverFacts
<1>1. pc[w] = "verify" /\ UNCHANGED <<payment, attempt, charge, shown, ledger, eligible, faults>>
  BY DEF VerifyAttempt, world
<1>2. CASE Goto(w, "recoveries") /\ UNCHANGED local
  <2>1. pc' = [pc EXCEPT ![w] = "recoveries"] /\ local' = [local EXCEPT ![w] = l]
    BY <1>2 DEF Goto, IInv, TypeOK
  <2>2. pc'[w] = "recoveries" /\ local'[w] = l
    BY <1>w, <2>1 DEF IInv, TypeOK
  <2>3. ReceiverKnows(w)'
    BY <1>w, <1>1, <2>2 DEF ReceiverKnows, WebhookSteps
  <2>4. Bystands(w, "recoveries", l)
    BY <1>w, <2>1, <2>3 DEF Bystands, WebhookSteps
  <2> QED
    BY <1>w, <1>1, <2>4, BystanderReadKeeps
<1>3. CASE Return(w)
  BY <1>w, <1>1, <1>3, LeaveKeeps
<1> QED
  BY <1>2, <1>3 DEF VerifyAttempt

\* Before a payment that succeeded at s, the first safe failure is the first attempt.
LEMMA FirstFailureIsTheFirst ==
    ASSUME IInv, NEW s \in Sequences, payment.presented = s,
           payment.status \in {"awaiting_payment", "paid"}
    PROVE  FirstFailedSafe(s) = Recovery(s).failed
<1> DEFINE earlier == {t \in Sequences : t < s /\ attempt[t].status = "failed_safe"}
<1>1. \A t \in Sequences : t < s => attempt[t].status = "failed_safe"
  BY DEF IInv, RowsAgree, PaymentAgrees, LastIs, FallbackOnlyAfterSafeFailure, Recorded
<1>2. CASE s = 1
  <2>1. earlier = {}
    BY <1>2 DEF Sequences
  <2> QED
    BY <1>2, <2>1 DEF FirstFailedSafe, Recovery, NoRecovery
<1>3. CASE s > 1
  <2>1. 1 \in earlier /\ \A u \in earlier : 1 <= u
    BY <1>1, <1>3, BoundsAssumption DEF Sequences
  <2>2. \A t \in earlier : t # 1 => ~ t <= 1
    BY DEF Sequences
  <2> HIDE DEF earlier
  <2>3. (CHOOSE t \in earlier : \A u \in earlier : t <= u) = 1
    BY <2>1, <2>2
  <2> USE DEF earlier
  <2> QED
    BY <1>3, <2>1, <2>3 DEF FirstFailedSafe, Recovery
<1> QED
  BY <1>2, <1>3 DEF Sequences

LEMMA FindRecoveryKeeps ==
    ASSUME IInv, NEW w \in Receivers, FindRecovery(w)
    PROVE  IInv'
<1> DEFINE f == FirstFailedSafe(local[w].target)
           l == [local[w] EXCEPT !.failed = f]
<1>w. /\ w \in Workers /\ w \notin Creators /\ w \notin Reconcilers
      /\ ~Owns(w)
      /\ local[w] \in Locals
      /\ ReceiverKnows(w)
      /\ faults \in 0..MaxFaults
  BY ReceiverFacts
<1>1. /\ pc[w] = "recoveries"
      /\ pc' = [pc EXCEPT ![w] = "commit"]
      /\ local' = [local EXCEPT ![w] = l]
      /\ UNCHANGED <<payment, attempt, charge, shown, ledger, eligible, faults>>
  BY DEF FindRecovery, Goto, world
<1>2. f = Recovery(local[w].target).failed
  BY <1>w, <1>1, FirstFailureIsTheFirst DEF ReceiverKnows, WebhookSteps
<1>3. f \in AttemptIds
  BY <1>2, BoundsAssumption DEF Recovery, NoRecovery, AttemptIds
<1> HIDE DEF f
<1>4. /\ l \in Locals
      /\ l.pay = local[w].pay
      /\ l.target = local[w].target
      /\ l.failed = f
  BY <1>w, <1>3 DEF Locals
<1> HIDE DEF l
<1>5. pc'[w] = "commit" /\ local'[w] = l
  BY <1>w, <1>1 DEF IInv, TypeOK
<1>6. ReceiverKnows(w)'
  BY <1>w, <1>1, <1>2, <1>4, <1>5 DEF ReceiverKnows, WebhookSteps, Recovery
<1>7. Bystands(w, "commit", l)
  BY <1>w, <1>1, <1>4, <1>6 DEF Bystands, WebhookSteps
<1> QED
  BY <1>w, <1>1, <1>7, BystanderReadKeeps

LEMMA AcknowledgeEventKeeps ==
    ASSUME IInv, NEW w \in Receivers, AcknowledgeEvent(w)
    PROVE  IInv'
<1>w. /\ w \in Workers
      /\ ~Owns(w)
      /\ ReceiverKnows(w)
      /\ faults \in 0..MaxFaults
  BY ReceiverFacts
<1>1. /\ pc[w] = "acknowledge"
      /\ Return(w)
      /\ event' = [event EXCEPT ![local[w].target] = "processed"]
      /\ UNCHANGED <<payment, attempt, charge, shown, recovery, outbox, eligible, faults>>
  BY DEF AcknowledgeEvent, world
<1>2. /\ payment.status = "paid"
      /\ payment.presented = local[w].target
  BY <1>w, <1>1 DEF ReceiverKnows
<1>3. Bystands(w, ReturnStep(w), NoLocals)
  BY <1>w, <1>1, ReturnBystands
<1>4. event' \in [Sequences -> {"absent", "recorded", "processed"}]
  BY <1>1 DEF IInv, TypeOK
<1>5. ProcessedMeansPaid'
  BY <1>1, <1>2 DEF IInv, TypeOK, ProcessedMeansPaid
<1> QED
  BY <1>w, <1>1, <1>3, <1>4, <1>5, BystanderKeeps

\* The commit finds the payment awaited, or paid by a receiver that was faster; what
\* it writes is the same either way, except for the time of payment.
LEMMA CommitPaidKeeps ==
    ASSUME IInv, NEW w \in Receivers, CommitPaid(w)
    PROVE  IInv'
<1> DEFINE s == local[w].target
           recovers == local[w].failed # 0
           p == [local[w].pay EXCEPT !.status = "paid", !.paidAt = w,
                                     !.recovered = @ \/ recovers]
<1>w. /\ w \in Workers /\ w \notin Creators /\ w \notin Reconcilers
      /\ ~Owns(w)
      /\ local[w] \in Locals
      /\ ReceiverKnows(w)
      /\ faults \in 0..MaxFaults
  BY ReceiverFacts
<1>1. /\ pc[w] = "commit"
      /\ payment' = p
      /\ SavePayment(p)
      /\ recovery' = IF recovers /\ recovery = NoRecovery
                     THEN [failed |-> local[w].failed, successful |-> s]
                     ELSE recovery
      /\ outbox' = outbox \cup MerchantEvents(p)
      /\ pc' = [pc EXCEPT ![w] = "acknowledge"]
      /\ UNCHANGED <<attempt, event, charge, eligible, faults, local>>
  BY DEF CommitPaid, SavePayment, Goto, world
<1>2. /\ s \in Sequences
      /\ charge[s] = "paid"
      /\ payment.status \in {"awaiting_payment", "paid"}
      /\ payment.presented = s
      /\ local[w].pay.presented = s
      /\ ~local[w].pay.recovered
      /\ local[w].failed = Recovery(s).failed
  BY <1>w, <1>1 DEF ReceiverKnows, WebhookSteps
<1>3. recovers <=> s > 1
  BY <1>2 DEF Recovery, NoRecovery
<1>4. /\ p \in PaymentRows
      /\ p.status = "paid"
      /\ p.presented = s
      /\ p.recovered = (s > 1)
  <2>1. local[w].pay \in PaymentRows
    BY <1>w DEF Locals
  <2>2. p \in PaymentRows
    BY <2>1 DEF PaymentRows, PaymentStatuses
  <2>3. p.recovered = (local[w].pay.recovered \/ recovers)
    BY <2>1 DEF PaymentRows
  <2> QED
    BY <1>2, <1>3, <2>1, <2>2, <2>3 DEF PaymentRows
<1> HIDE DEF p, recovers
<1>5. shown = {s} /\ shown' = shown
  BY <1>1, <1>2, <1>4 DEF IInv, PaymentAgrees, SavePayment, Sequences
<1>6. \A v \in Workers : ~Owns(v)
  BY <1>2, SettledIsNotOwned
<1>7. recovery' = Recovery(s)
  <2>1. CASE payment.status = "awaiting_payment"
    <3>1. recovery = NoRecovery
      BY <2>1 DEF IInv, LedgerAgrees
    <3> QED
      BY <1>1, <1>2, <1>3, <3>1 DEF Recovery
  <2>2. CASE payment.status = "paid"
    <3>1. recovery = Recovery(s)
      BY <1>2, <2>2 DEF IInv, LedgerAgrees
    <3> QED
      BY <1>1, <1>2, <1>3, <3>1 DEF Recovery
  <2> QED
    BY <1>2, <2>1, <2>2
<1>8. outbox' = MerchantEvents(p)
  <2>1. CASE payment.status = "awaiting_payment"
    BY <1>1, <2>1 DEF IInv, LedgerAgrees
  <2>2. CASE payment.status = "paid"
    <3>1. outbox = MerchantEvents(payment) /\ payment.recovered = p.recovered
      BY <1>2, <1>4, <2>2 DEF IInv, LedgerAgrees
    <3> QED
      BY <1>1, <3>1 DEF MerchantEvents
  <2> QED
    BY <1>2, <2>1, <2>2
<1>9. LedgerAgrees'
  BY <1>1, <1>2, <1>4, <1>7, <1>8 DEF LedgerAgrees, Recovery, MerchantEvents
<1>10. PaymentAgrees'
  BY <1>1, <1>2, <1>4, <1>5
     DEF IInv, PaymentAgrees, LastIs, OwnFailureLeavesNoCharge, Sequences
<1>11. RowsAgree'
  BY <1>1, <1>5 DEF IInv, RowsAgree, FallbackOnlyAfterSafeFailure, Recorded
<1>12. \A v \in Workers \ {w} : pc'[v] = pc[v]
  BY <1>1 DEF IInv, TypeOK
<1>13. pc'[w] = "acknowledge"
  BY <1>w, <1>1 DEF IInv, TypeOK
<1>14. \A v \in Workers : ~Owns(v)'
  BY <1>6, <1>12, <1>13 DEF Owns, OwnerSteps, RoutingSteps, ReconcileSteps
<1>15. SingleOwner' /\ OwnerHolds'
  BY <1>14 DEF SingleOwner, OwnerHolds
<1>16. StepsFit'
  BY <1>w, <1>12, <1>13 DEF IInv, StepsFit, WebhookSteps, Workers
<1>17. ReceiverHolds'
  <2> SUFFICES ASSUME NEW v \in Receivers
               PROVE  ReceiverKnows(v)'
    BY DEF ReceiverHolds
  <2>1. CASE v = w
    BY <1>1, <1>2, <1>4, <1>13, <2>1 DEF ReceiverKnows
  <2>2. CASE v # w
    <3>1. ReceiverKnows(v) /\ pc'[v] = pc[v]
      BY <1>12, <2>2 DEF IInv, ReceiverHolds, Workers
    <3> QED
      BY <1>1, <1>2, <1>4, <3>1 DEF ReceiverKnows
  <2> QED
    BY <2>1, <2>2
<1>18. ProcessedMeansPaid'
  BY <1>1, <1>2, <1>4 DEF IInv, ProcessedMeansPaid
<1>19. TypeOK'
  <2>1. recovery' \in [failed : AttemptIds, successful : AttemptIds]
    BY <1>2, <1>7, BoundsAssumption DEF Recovery, NoRecovery, Sequences, AttemptIds
  <2>2. outbox' \subseteq {"payment.paid", "payment.recovered"}
    BY <1>8 DEF MerchantEvents
  <2>3. pc' \in [Workers -> Steps]
    BY <1>1 DEF IInv, TypeOK, Steps, ActiveSteps, WebhookSteps
  <2> QED
    BY <1>1, <1>4, <1>5, <2>1, <2>2, <2>3 DEF IInv, TypeOK
<1> QED
  BY <1>9, <1>10, <1>11, <1>15, <1>16, <1>17, <1>18, <1>19 DEF IInv

\* A step of the provider: no handler moves and one charge changes, which was not
\* known to be absent or unsent; one that is there stays, and a paid one stays paid.
LEMMA ProviderKeeps ==
    ASSUME IInv, NEW s \in Sequences, NEW c \in Charges,
           charge[s] \in {"inflight", "live"},
           c \in {"none", "live", "paid"},
           charge[s] = "live" => c = "paid",
           c = "paid" => s \in shown,
           charge' = [charge EXCEPT ![s] = c],
           UNCHANGED <<payment, attempt, ledger, eligible, shown, pc, local, faults>>
    PROVE  IInv'
<1>1. /\ charge' \in [Sequences -> Charges]
      /\ \A t \in Sequences : charge[t] \in {"unsent", "none", "paid"} => charge'[t] = charge[t]
      /\ \A t \in Sequences : charge[t] \in {"live", "paid"} => charge'[t] \in {"live", "paid"}
      /\ \A t \in Sequences : charge'[t] = "paid" => charge[t] = "paid" \/ t \in shown
      /\ \A t \in Sequences : charge'[t] # charge[t] => MayExist(t)
  BY DEF IInv, TypeOK, MayExist
<1>2. RowsAgree'
  BY <1>1 DEF IInv, RowsAgree, FallbackOnlyAfterSafeFailure, Recorded
<1>3. PaymentAgrees'
  <2>1. OwnFailureLeavesNoCharge'
    BY <1>1 DEF IInv, PaymentAgrees, OwnFailureLeavesNoCharge, MayExist
  <2> QED
    BY <2>1 DEF IInv, PaymentAgrees, LastIs, AllSafeUpTo
<1>4. LedgerAgrees'
  BY <1>1 DEF IInv, LedgerAgrees, ledger, PaymentAgrees, LastIs
<1>5. OwnerHolds'
  <2> SUFFICES ASSUME NEW v \in Workers, Owns(v)
               PROVE  OwnerKnows(v)'
    BY DEF OwnerHolds, Owns
  <2>1. OwnerKnows(v)
    BY DEF IInv, OwnerHolds
  <2>2. pc[v] \in {"unresolved", "create", "respond", "answered"} => payment.active \in Sequences
    BY <2>1 DEF OwnerKnows, OwnerRows, LastIs
  <2> QED
    BY <1>1, <2>1, <2>2 DEF OwnerKnows, OwnerStatus, OwnerRows, LastIs, AllSafeUpTo
<1>6. ReceiverHolds'
  BY <1>1 DEF IInv, ReceiverHolds, ReceiverKnows
<1>7. SingleOwner' /\ StepsFit' /\ ProcessedMeansPaid'
  BY DEF IInv, SingleOwner, Owns, StepsFit, ProcessedMeansPaid, ledger
<1>8. TypeOK'
  BY <1>1 DEF IInv, TypeOK, ledger
<1> QED
  BY <1>2, <1>3, <1>4, <1>5, <1>6, <1>7, <1>8 DEF IInv

LEMMA DecideChargeKeeps ==
    ASSUME IInv, NEW s \in Sequences, DecideCharge(s)
    PROVE  IInv'
BY ProviderKeeps DEF DecideCharge, Charges

LEMMA CustomerPaysKeeps ==
    ASSUME IInv, NEW s \in Sequences, CustomerPays(s)
    PROVE  IInv'
BY ProviderKeeps DEF CustomerPays, Charges

\* The connections a router may select from enter no other part of the invariant, and
\* neither does anything change in a step that stutters.
LEMMA WorldKeeps ==
    ASSUME IInv, eligible' \subseteq Conns,
           UNCHANGED <<payment, attempt, ledger, charge, shown, pc, local, faults>>
    PROVE  IInv'
<1>1. TypeOK'
  BY DEF IInv, TypeOK, ledger
<1>2. StepsFit' /\ SingleOwner' /\ ProcessedMeansPaid'
  BY DEF IInv, StepsFit, SingleOwner, Owns, ProcessedMeansPaid, ledger
<1>3. OwnerHolds'
  BY DEF IInv, OwnerHolds, Owns, OwnerKnows, OwnerStatus, OwnerRows, LastIs, AllSafeUpTo
<1>4. RowsAgree'
  BY DEF IInv, RowsAgree, FallbackOnlyAfterSafeFailure, Recorded
<1>5. PaymentAgrees'
  BY DEF IInv, PaymentAgrees, LastIs, AllSafeUpTo, OwnFailureLeavesNoCharge, MayExist
<1>6. LedgerAgrees' /\ ReceiverHolds'
  BY DEF IInv, LedgerAgrees, ReceiverHolds, ReceiverKnows, ledger
<1> QED
  BY <1>1, <1>2, <1>3, <1>4, <1>5, <1>6 DEF IInv

-----------------------------------------------------------------------------
(* The invariant holds.                                                     *)

LEMMA InitHolds == Init => IInv
<1> SUFFICES ASSUME Init
             PROVE  IInv
  OBVIOUS
<1>1. /\ NoPayment \in PaymentRows
      /\ NoAttempt \in AttemptRows
      /\ NoRecovery \in [failed : AttemptIds, successful : AttemptIds]
  BY BoundsAssumption
     DEF NoPayment, NoAttempt, NoRecovery, PaymentRows, PaymentStatuses, AttemptIds,
         FailureCodes, AttemptRows, AttemptStatuses
<1>2. NoLocals \in Locals
  BY <1>1, BoundsAssumption DEF NoLocals, Locals, AttemptIds
<1>3. TypeOK
  BY <1>1, <1>2, BoundsAssumption DEF Init, TypeOK, Charges, Steps
<1>4. AllSafeUpTo(0)
  BY DEF Init, AllSafeUpTo, NoAttempt, Sequences
<1>5. /\ StepsFit
      /\ SingleOwner
      /\ OwnerHolds
      /\ ReceiverHolds
  BY DEF Init, StepsFit, SingleOwner, OwnerHolds, Owns, OwnerSteps, RoutingSteps,
         ReconcileSteps, WebhookSteps, ReceiverHolds, ReceiverKnows, Workers
<1>6. RowsAgree
  BY <1>4 DEF Init, RowsAgree, FallbackOnlyAfterSafeFailure, Recorded, AllSafeUpTo, Sequences
<1>7. PaymentAgrees /\ LedgerAgrees
  BY <1>4 DEF Init, PaymentAgrees, LedgerAgrees, NoPayment, OwnFailureLeavesNoCharge
<1>8. ProcessedMeansPaid
  BY DEF Init, ProcessedMeansPaid
<1> QED
  BY <1>3, <1>5, <1>6, <1>7, <1>8 DEF IInv

LEMMA RoutingStepKeeps ==
    ASSUME IInv, NEW w \in Workers, RoutingStep(w)
    PROVE  IInv'
BY ListConnectionsKeeps, ListAttemptsKeeps, AddAttemptKeeps, GiveUpKeeps,
   ActivateAttemptKeeps, ResolveFailsKeeps, FailUnresolvedKeeps, MarkRequestingKeeps,
   CreatePixKeeps, SaveOutcomeKeeps, SettlePaymentKeeps
   DEF RoutingStep

LEMMA NextKeeps == IInv /\ [Next]_vars => IInv'
<1> SUFFICES ASSUME IInv, [Next]_vars
             PROVE  IInv'
  OBVIOUS
<1>1. ASSUME NEW w \in Creators, NEW f \in Fingerprints, GetOrCreatePayment(w, f)
      PROVE  IInv'
  BY <1>1, GetOrCreatePaymentInserts, GetOrCreatePaymentFinds
<1>2. ASSUME NEW w \in Creators, CreatorStep(w)
      PROVE  IInv'
  BY <1>2, ReadExistingKeeps, StartRoutingKeeps DEF CreatorStep
<1>3. ASSUME NEW w \in Workers, RoutingStep(w)
      PROVE  IInv'
  BY <1>3, RoutingStepKeeps
<1>4. ASSUME NEW w \in Reconcilers, ReadForReconcile(w) \/ ReconcileStep(w)
      PROVE  IInv'
  BY <1>4, ReadForReconcileKeeps, ReadUnknownAttemptKeeps, AskProviderKeeps,
     SaveAnswerKeeps, RerouteKeeps DEF ReconcileStep
<1>5. ASSUME NEW w \in Receivers, NEW s \in Sequences, RecordEvent(w, s)
      PROVE  IInv'
  BY <1>5, RecordEventKeeps
<1>6. ASSUME NEW w \in Receivers, WebhookStep(w)
      PROVE  IInv'
  BY <1>6, FindAttemptKeeps, ReadForPaidKeeps, VerifyAttemptKeeps, FindRecoveryKeeps,
     CommitPaidKeeps, AcknowledgeEventKeeps DEF WebhookStep
<1>7. ASSUME NEW w \in Workers, Fail(w)
      PROVE  IInv'
  BY <1>7, FailKeeps
<1>8. ASSUME NEW c \in Conns, ChangeConnection(c)
      PROVE  IInv'
  BY <1>8, WorldKeeps DEF ChangeConnection, IInv, TypeOK
<1>9. ASSUME NEW s \in Sequences, DecideCharge(s) \/ CustomerPays(s)
      PROVE  IInv'
  BY <1>9, DecideChargeKeeps, CustomerPaysKeeps
<1>10. CASE UNCHANGED vars
  BY <1>10, WorldKeeps DEF vars, ledger, IInv, TypeOK
<1>11. Creators \subseteq Workers /\ Reconcilers \subseteq Workers
  BY DEF Workers
<1> QED
  BY <1>1, <1>2, <1>3, <1>4, <1>5, <1>6, <1>7, <1>8, <1>9, <1>10, <1>11 DEF Next

\* The inductive invariant holds in every reachable state.
THEOREM Invariance == Spec => []IInv
<1> QED
  BY InitHolds, NextKeeps, PTL DEF Spec

-----------------------------------------------------------------------------
(* What it implies.                                                         *)

\* Every variable keeps its type, whatever fails.
THEOREM TypeCorrect == Spec => []TypeOK
<1>1. IInv => TypeOK
  BY DEF IInv
<1> QED
  BY <1>1, Invariance, PTL

\* The payment has one owner at a time, although nothing is locked: the insert of
\* GetOrCreatePayment elects the creator, and a reconciliation starts only after the
\* creator's last write.
THEOREM OneOwner == Spec => []SingleOwner
<1>1. IInv => SingleOwner
  BY DEF IInv
<1> QED
  BY <1>1, Invariance, PTL

\* The routing loop adds an attempt only after every earlier one failed safely, in
\* every interleaving with failures, webhooks and reconciliation (INV-004).
THEOREM FallbackIsSafe == Spec => []FallbackOnlyAfterSafeFailure
<1>1. IInv => FallbackOnlyAfterSafeFailure
  BY DEF IInv, RowsAgree
<1> QED
  BY <1>1, Invariance, PTL

\* Two attempts of a payment never both have a charge that may exist.
THEOREM NoSecondCharge == Spec => []NoDuplicateCharge
<1>1. ASSUME IInv
      PROVE  NoDuplicateCharge
  <2>1. ASSUME NEW s \in Sequences, NEW t \in Sequences, s < t, MayExist(s), MayExist(t)
        PROVE  FALSE
    <3>1. t \in Recorded
      BY <1>1, <2>1 DEF IInv, RowsAgree, MayExist, Recorded
    <3>2. attempt[s].status = "failed_safe"
      BY <1>1, <2>1, <3>1 DEF IInv, RowsAgree, FallbackOnlyAfterSafeFailure
    <3> QED
      BY <1>1, <2>1, <3>2 DEF IInv, RowsAgree, MayExist
  <2> QED
    BY <2>1 DEF NoDuplicateCharge, Sequences
<1> QED
  BY <1>1, Invariance, PTL

\* A payment shows one Pix, and goes on showing it (INV-005).
THEOREM OnlyOnePix == Spec => []OnePix
<1>1. IInv => OnePix
  BY DEF IInv, PaymentAgrees, OnePix
<1> QED
  BY <1>1, Invariance, PTL

\* No attempt is sent to a provider twice, whatever call failed before.
THEOREM SentOnce == Spec => []AttemptSentOnce
<1>1. IInv => AttemptSentOnce
  BY DEF IInv, OwnerHolds, OwnerKnows, OwnerRows, Owns, OwnerSteps, RoutingSteps,
         AttemptSentOnce
<1> QED
  BY <1>1, Invariance, PTL

\* A payment is recorded as paid only when the charge it presents was paid.
THEOREM PaidWasEarned == Spec => []PaidIsEarned
<1>1. IInv => PaidIsEarned
  BY DEF IInv, LedgerAgrees, PaymentAgrees, LastIs, PaidIsEarned
<1> QED
  BY <1>1, Invariance, PTL

\* A recovery names a failure that left nothing at the provider, before the attempt
\* that was paid (INV-007).
THEOREM RecoveryWasEarned == Spec => []RecoveryIsEarned
<1>1. ASSUME IInv
      PROVE  RecoveryIsEarned
  <2>1. CASE payment.status # "paid"
    BY <1>1, <2>1 DEF IInv, LedgerAgrees, RecoveryIsEarned
  <2>2. CASE payment.status = "paid"
    <3> DEFINE s == payment.presented
    <3>1. /\ s \in Sequences
          /\ attempt[s].status = "succeeded"
          /\ payment.recovered = (s > 1)
          /\ recovery = Recovery(s)
      BY <1>1, <2>2 DEF IInv, LedgerAgrees, PaymentAgrees, LastIs
    <3>2. CASE s > 1
      <4>1. recovery.failed = 1 /\ recovery.successful = s /\ recovery # NoRecovery
        BY <3>1, <3>2 DEF Recovery, NoRecovery
      <4>2. 1 \in Sequences /\ 1 \in 1..(s - 1)
        BY <3>1, <3>2, BoundsAssumption DEF Sequences
      <4>3. attempt[1].status = "failed_safe"
        BY <1>1, <3>1, <3>2, <4>2
           DEF IInv, RowsAgree, FallbackOnlyAfterSafeFailure, Recorded
      <4>4. charge[1] = "none"
        BY <1>1, <4>2, <4>3 DEF IInv, RowsAgree
      <4> QED
        BY <2>2, <3>1, <3>2, <4>1, <4>2, <4>3, <4>4 DEF RecoveryIsEarned
    <3>3. CASE ~(s > 1)
      BY <3>1, <3>3 DEF Recovery, RecoveryIsEarned
    <3> QED
      BY <3>2, <3>3
  <2> QED
    BY <2>1, <2>2
<1> QED
  BY <1>1, Invariance, PTL

\* The outbox tells of what the row says, and of nothing else.
THEOREM OutboxIsFaithful == Spec => []OutboxMatchesPayment
<1>1. IInv => OutboxMatchesPayment
  BY DEF IInv, LedgerAgrees, MerchantEvents, OutboxMatchesPayment
<1> QED
  BY <1>1, Invariance, PTL

\* An acknowledged provider event is a recorded payment.
THEOREM AcknowledgedIsPaid == Spec => []ProcessedMeansPaid
<1>1. IInv => ProcessedMeansPaid
  BY DEF IInv
<1> QED
  BY <1>1, Invariance, PTL

\* A payment the orchestrator gave up on has no charge anywhere.
THEOREM OwnFailureIsClean == Spec => []OwnFailureLeavesNoCharge
<1>1. IInv => OwnFailureLeavesNoCharge
  BY DEF IInv, PaymentAgrees
<1> QED
  BY <1>1, Invariance, PTL

-----------------------------------------------------------------------------
(* What no step does.                                                       *)

\* Every step of the owner is a step at which the payment is owned.
LEMMA OwnerStepsOwn ==
    ASSUME NEW w \in Workers,
           \/ StartRouting(w)
           \/ RoutingStep(w)
           \/ ReconcileStep(w)
    PROVE  Owns(w)
BY DEF StartRouting, RoutingStep, ReconcileStep, ListConnections, ListAttempts, AddAttempt,
       GiveUp, ActivateAttempt, ResolveFails, FailUnresolved, MarkRequesting, CreatePix,
       SaveOutcome, SettlePayment, ReadUnknownAttempt, AskProvider, SaveAnswer, Reroute,
       Owns, OwnerSteps, RoutingSteps, ReconcileSteps

\* A paid payment stays paid, by the same attempt: only a webhook handler still
\* writes the row, and it writes what is there.
THEOREM PaidStaysPaid == Spec => PaidIsTerminal
<1>1. ASSUME IInv, [Next]_vars, payment.status = "paid"
      PROVE  payment'.status = "paid" /\ payment'.presented = payment.presented
  <2>1. \A w \in Workers : ~Owns(w)
    BY <1>1, SettledIsNotOwned
  <2>2. \A w \in Workers : ~StartRouting(w) /\ ~RoutingStep(w) /\ ~ReconcileStep(w)
    BY <2>1, OwnerStepsOwn
  <2>3. ASSUME NEW w \in Creators,
               \/ \E f \in Fingerprints : GetOrCreatePayment(w, f)
               \/ ReadExisting(w)
        PROVE  UNCHANGED payment
    BY <1>1, <2>3 DEF GetOrCreatePayment, ReadExisting
  <2>4. ASSUME NEW w \in Reconcilers, ReadForReconcile(w)
        PROVE  UNCHANGED payment
    BY <2>4 DEF ReadForReconcile
  <2>5. ASSUME NEW w \in Receivers, WebhookStep(w), ~CommitPaid(w)
        PROVE  UNCHANGED payment
    BY <2>5 DEF WebhookStep, FindAttempt, ReadForPaid, VerifyAttempt, FindRecovery,
                AcknowledgeEvent
  <2>6. ASSUME NEW w \in Receivers, CommitPaid(w)
        PROVE  payment'.status = "paid" /\ payment'.presented = payment.presented
    <3>1. /\ local[w].pay \in PaymentRows
          /\ local[w].pay.presented = payment.presented
      BY <1>1, <2>6, ReceiverFacts DEF CommitPaid, ReceiverKnows, Locals
    <3> QED
      BY <2>6, <3>1 DEF CommitPaid, SavePayment, PaymentRows
  <2>7. ASSUME NEW w \in Receivers, NEW s \in Sequences, RecordEvent(w, s)
        PROVE  UNCHANGED payment
    BY <2>7 DEF RecordEvent
  <2>8. ASSUME NEW w \in Workers, Fail(w)
        PROVE  UNCHANGED payment
    BY <2>8 DEF Fail
  <2>9. ASSUME \/ \E c \in Conns : ChangeConnection(c)
               \/ \E s \in Sequences : DecideCharge(s) \/ CustomerPays(s)
        PROVE  UNCHANGED payment
    BY <2>9 DEF ChangeConnection, DecideCharge, CustomerPays
  <2>10. CASE UNCHANGED vars
    BY <1>1, <2>10 DEF vars
  <2>11. Creators \subseteq Workers /\ Reconcilers \subseteq Workers
    BY DEF Workers
  <2> QED
    BY <1>1, <2>2, <2>3, <2>4, <2>5, <2>6, <2>7, <2>8, <2>9, <2>10, <2>11
       DEF Next, CreatorStep
<1>2. IInv /\ [Next]_vars =>
         (payment.status = "paid" =>
            payment'.status = "paid" /\ payment'.presented = payment.presented)
  BY <1>1
<1> QED
  BY <1>2, Invariance, PTL DEF Spec, PaidIsTerminal

\* An owner's save of an attempt finds it unsettled, so that no copy of an attempt
\* overwrites a settled row.
LEMMA SavedAttemptIsUnsettled ==
    ASSUME IInv, NEW w \in Workers, NEW s \in Sequences,
           RoutingStep(w) \/ ReconcileStep(w),
           attempt[s].status \in {"succeeded", "failed_safe", "failed_terminal"}
    PROVE  attempt'[s] = attempt[s]
<1>1. Owns(w)
  BY OwnerStepsOwn
<1>2. /\ local[w].pay = payment
      /\ OwnerRows(w)
  BY <1>1, OwnerFacts
<1>3. ASSUME NEW n \in Sequences, NEW row, SaveAttempt(n, row),
             attempt[n].status \in {"absent", "created", "requesting", "unknown"}
      PROVE  attempt'[s] = attempt[s]
  BY <1>3 DEF SaveAttempt, IInv, TypeOK
<1>4. CASE AddAttempt(w)
  <2>1. ~SequenceTaken(w) /\ local[w].count < MaxAttempts /\ pc[w] = "select"
    BY <1>4 DEF AddAttempt
  <2>2. /\ local[w].count + 1 \in Sequences
        /\ attempt[local[w].count + 1].status = "absent"
    BY <1>1, <2>1, OwnerFacts, BoundsAssumption
       DEF SequenceTaken, Locals, AttemptIds, Sequences
  <2> QED
    BY <1>3, <1>4, <2>2 DEF AddAttempt
<1>5. CASE ResolveFails(w) \/ MarkRequesting(w)
  <2>1. payment.active \in Sequences /\ attempt[payment.active].status = "created"
    BY <1>2, <1>5 DEF ResolveFails, MarkRequesting, OwnerRows, LastIs
  <2> QED
    BY <1>2, <1>3, <1>5, <2>1 DEF ResolveFails, MarkRequesting
<1>6. CASE SaveOutcome(w)
  <2>1. payment.active \in Sequences /\ attempt[payment.active].status = "requesting"
    BY <1>2, <1>6 DEF SaveOutcome, OwnerRows, LastIs
  <2> QED
    BY <1>2, <1>3, <1>6, <2>1 DEF SaveOutcome
<1>7. CASE SaveAnswer(w)
  <2>1. payment.active \in Sequences /\ attempt[payment.active].status = "unknown"
    BY <1>2, <1>7 DEF SaveAnswer, OwnerRows, LastIs
  <2> QED
    BY <1>2, <1>3, <1>7, <2>1 DEF SaveAnswer
<1>8. CASE \/ ListConnections(w) \/ ListAttempts(w) \/ GiveUp(w) \/ ActivateAttempt(w)
           \/ FailUnresolved(w) \/ CreatePix(w) \/ SettlePayment(w)
           \/ ReadUnknownAttempt(w) \/ AskProvider(w) \/ Reroute(w)
  BY <1>8 DEF ListConnections, ListAttempts, GiveUp, ActivateAttempt, FailUnresolved,
              CreatePix, SettlePayment, ReadUnknownAttempt, AskProvider, Reroute
<1> QED
  BY <1>4, <1>5, <1>6, <1>7, <1>8 DEF RoutingStep, ReconcileStep

\* The row of an attempt keeps the status that settled it.
THEOREM SettledAttemptsKept == Spec => SettledAttemptsStay
<1>1. ASSUME IInv, [Next]_vars, NEW s \in Sequences,
             attempt[s].status \in {"succeeded", "failed_safe", "failed_terminal"}
      PROVE  attempt'[s] = attempt[s]
  <2>1. ASSUME NEW w \in Workers, RoutingStep(w) \/ ReconcileStep(w)
        PROVE  attempt'[s] = attempt[s]
    BY <1>1, <2>1, SavedAttemptIsUnsettled
  <2>2. ASSUME NEW w \in Creators,
               \/ \E f \in Fingerprints : GetOrCreatePayment(w, f)
               \/ CreatorStep(w)
        PROVE  UNCHANGED attempt
    BY <2>2 DEF GetOrCreatePayment, CreatorStep, ReadExisting, StartRouting
  <2>3. ASSUME NEW w \in Reconcilers, ReadForReconcile(w)
        PROVE  UNCHANGED attempt
    BY <2>3 DEF ReadForReconcile
  <2>4. ASSUME NEW w \in Receivers, WebhookStep(w) \/ \E t \in Sequences : RecordEvent(w, t)
        PROVE  UNCHANGED attempt
    BY <2>4 DEF WebhookStep, FindAttempt, ReadForPaid, VerifyAttempt, FindRecovery, CommitPaid,
                AcknowledgeEvent, RecordEvent
  <2>5. ASSUME NEW w \in Workers, Fail(w)
        PROVE  UNCHANGED attempt
    BY <2>5 DEF Fail
  <2>6. ASSUME \/ \E c \in Conns : ChangeConnection(c)
               \/ \E t \in Sequences : DecideCharge(t) \/ CustomerPays(t)
        PROVE  UNCHANGED attempt
    BY <2>6 DEF ChangeConnection, DecideCharge, CustomerPays
  <2>7. CASE UNCHANGED vars
    BY <2>7 DEF vars
  <2>8. Creators \subseteq Workers /\ Reconcilers \subseteq Workers
    BY DEF Workers
  <2> QED
    BY <1>1, <2>1, <2>2, <2>3, <2>4, <2>5, <2>6, <2>7, <2>8 DEF Next
<1>2. IInv /\ [Next]_vars =>
         \A s \in Sequences :
            attempt[s].status \in {"succeeded", "failed_safe", "failed_terminal"} =>
                attempt'[s] = attempt[s]
  BY <1>1
<1> QED
  BY <1>2, Invariance, PTL DEF Spec, SettledAttemptsStay

=============================================================================
