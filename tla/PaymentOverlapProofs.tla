------------------------ MODULE PaymentOverlapProofs ------------------------
(***************************************************************************)
(* What is left of the safety of the orchestration when reconciliations of *)
(* the payment overlap, so that several handlers route it at once: the     *)
(* unique (payment, sequence) index still makes every attempt the work of  *)
(* one handler.  No attempt is sent to its provider twice, and no two      *)
(* attempts use the same connection.  Whatever rows the handlers overwrite *)
(* of each other, what is stored tells of what happened at the provider    *)
(* and of nothing else.                                                    *)
(***************************************************************************)
EXTENDS PaymentOrchestration, TLAPS, FiniteSetTheorems, WellFoundedInduction

-----------------------------------------------------------------------------
(* The inductive invariant.                                                 *)

\* The attempts are numbered without a gap.
Dense == \E n \in AttemptIds : Recorded = 1..n

\* Nothing is sent before the attempt is recorded.
UnrecordedIsUnsent == \A s \in Sequences \ Recorded : charge[s] = "unsent"

\* A reconciling payment has an attempt to ask about.
ReconcilingHasAttempt == payment.status = "reconciling" => payment.active \in Sequences

\* A handler at one of these steps has inserted an attempt and not sent it yet.
ClaimSteps == {"activate", "resolve", "unresolved", "create"}

\* Attempts 1..count are recorded and their connections are excluded.
Excludes(w) ==
    \A s \in 1..local[w].count : s \in Recorded /\ attempt[s].conn \in local[w].excluded

\* The copy of attempt n that the handler is going to write is of that attempt.
Holds(w, n) ==
    /\ n \in Recorded
    /\ attempt[n].conn = local[w].row.conn
    /\ local[w].row.status # "absent"

Knows(w) ==
    LET n == local[w].count + 1
    IN  /\ pc[w] \in {"select", "respond"} \cup ClaimSteps => Excludes(w)
        /\ pc[w] \in {"respond"} \cup ClaimSteps => Holds(w, n)
        /\ pc[w] \in {"respond", "resolve", "unresolved", "create"} => local[w].pay.active = n
        /\ pc[w] \in ClaimSteps => charge[n] = "unsent"
        /\ pc[w] \in {"settle", "reroute"} \cup ReconcileSteps =>
              local[w].pay.active \in Sequences
        /\ pc[w] \in {"ask", "answered"} => Holds(w, local[w].pay.active)

\* No two handlers have inserted the same attempt.
ClaimsDiffer ==
    \A v, w \in Workers :
        pc[v] \in ClaimSteps /\ pc[w] \in ClaimSteps /\ local[v].count = local[w].count
            => v = w

OInv ==
    /\ TypeOK
    /\ Dense
    /\ UnrecordedIsUnsent
    /\ ReconcilingHasAttempt
    /\ ClaimsDiffer
    /\ ConnectionsDiffer
    /\ \A w \in Workers : Knows(w)

-----------------------------------------------------------------------------
(* Frames.                                                                  *)

\* The rows, without the handlers, are well typed.
RowsTyped ==
    /\ payment \in PaymentRows
    /\ attempt \in [Sequences -> AttemptRows]
    /\ recovery \in [failed : AttemptIds, successful : AttemptIds]
    /\ outbox \subseteq {"payment.paid", "payment.recovered"}
    /\ event \in [Sequences -> {"absent", "recorded", "processed"}]
    /\ eligible \subseteq Conns
    /\ charge \in [Sequences -> Charges]
    /\ shown \subseteq Sequences
    /\ faults \in 0..MaxFaults

Moves(w, step, l) ==
    /\ step \in Steps
    /\ l \in Locals
    /\ pc' = [pc EXCEPT ![w] = step]
    /\ local' = [local EXCEPT ![w] = l]

\* No attempt goes, or changes its connection.
AttemptsKept ==
    /\ Recorded \subseteq Recorded'
    /\ \A s \in Recorded : attempt'[s].conn = attempt[s].conn

\* What another handler has inserted is not sent.
OthersUnsent(w) ==
    \A v \in Workers \ {w} :
        pc[v] \in ClaimSteps => charge'[local[v].count + 1] = "unsent"

\* A claim is of an attempt that no other handler has inserted.
ClaimIsOwn(w, step, l) ==
    step \in ClaimSteps =>
        \A v \in Workers \ {w} : pc[v] \in ClaimSteps => local[v].count # l.count

LEMMA StepKeeps ==
    ASSUME OInv, NEW w \in Workers, NEW step, NEW l, Moves(w, step, l),
           RowsTyped', AttemptsKept, OthersUnsent(w), ClaimIsOwn(w, step, l),
           Dense', UnrecordedIsUnsent', ReconcilingHasAttempt', ConnectionsDiffer',
           Knows(w)'
    PROVE  OInv'
<1>1. /\ pc'[w] = step
      /\ local'[w] = l
      /\ \A v \in Workers \ {w} : pc'[v] = pc[v] /\ local'[v] = local[v]
  BY DEF OInv, TypeOK, Moves
<1>2. TypeOK'
  BY DEF OInv, TypeOK, RowsTyped, Moves
<1>3. ClaimsDiffer'
  BY <1>1 DEF OInv, ClaimsDiffer, ClaimIsOwn
<1>4. ASSUME NEW v \in Workers \ {w}
      PROVE  Knows(v)'
  <2>1. pc'[v] = pc[v] /\ local'[v] = local[v] /\ Knows(v)
    BY <1>1 DEF OInv
  <2>2. Excludes(v) => Excludes(v)'
    BY <2>1 DEF AttemptsKept, Excludes
  <2>3. \A n : Holds(v, n) => Holds(v, n)'
    BY <2>1 DEF AttemptsKept, Holds
  <2>4. pc[v] \in ClaimSteps => charge'[local[v].count + 1] = "unsent"
    BY DEF OthersUnsent
  <2> QED
    BY <2>1, <2>2, <2>3, <2>4 DEF Knows
<1> QED
  BY <1>1, <1>2, <1>3, <1>4 DEF OInv

\* A step that leaves the attempts and the charges alone.
LEMMA QuietKeeps ==
    ASSUME OInv, NEW w \in Workers, NEW step, NEW l, Moves(w, step, l),
           UNCHANGED <<attempt, charge>>,
           RowsTyped', ReconcilingHasAttempt', Knows(w)',
           step \in ClaimSteps => pc[w] \in ClaimSteps /\ l.count = local[w].count
    PROVE  OInv'
<1>1. Recorded' = Recorded
  BY DEF Recorded
<1>2. AttemptsKept
  BY <1>1 DEF AttemptsKept
<1>3. OthersUnsent(w)
  BY DEF OInv, Knows, OthersUnsent
<1>4. ClaimIsOwn(w, step, l)
  BY DEF OInv, ClaimsDiffer, ClaimIsOwn
<1>5. Dense' /\ UnrecordedIsUnsent' /\ ConnectionsDiffer'
  BY <1>1 DEF OInv, Dense, UnrecordedIsUnsent, ConnectionsDiffer
<1> QED
  BY <1>2, <1>3, <1>4, <1>5, StepKeeps

\* A step that writes the copy of a recorded attempt back.
LEMMA SaveAttemptKeeps ==
    ASSUME OInv, NEW w \in Workers, NEW step, NEW l, Moves(w, step, l),
           NEW n, NEW row \in AttemptRows,
           n \in Recorded, row.conn = attempt[n].conn, row.status # "absent",
           SaveAttempt(n, row),
           UNCHANGED charge,
           RowsTyped', ReconcilingHasAttempt', Knows(w)',
           step \in ClaimSteps => pc[w] \in ClaimSteps /\ l.count = local[w].count
    PROVE  OInv'
<1>0. n \in Sequences /\ attempt \in [Sequences -> AttemptRows]
  BY DEF Recorded, OInv, TypeOK
<1>1. Recorded' = Recorded /\ \A s \in Sequences : attempt'[s].conn = attempt[s].conn
  BY <1>0 DEF Recorded, SaveAttempt
<1>2. AttemptsKept
  BY <1>1 DEF AttemptsKept, Recorded
<1>3. OthersUnsent(w)
  BY DEF OInv, Knows, OthersUnsent
<1>4. ClaimIsOwn(w, step, l)
  BY DEF OInv, ClaimsDiffer, ClaimIsOwn
<1>5. Dense' /\ UnrecordedIsUnsent' /\ ConnectionsDiffer'
  BY <1>1 DEF OInv, Dense, UnrecordedIsUnsent, ConnectionsDiffer, Recorded
<1> QED
  BY <1>2, <1>3, <1>4, <1>5, StepKeeps

LEMMA Facts ==
    ASSUME OInv
    PROVE  /\ RowsTyped
           /\ \A w \in Workers : local[w] \in Locals /\ pc[w] \in Steps /\ Knows(w)
           /\ ReconcilingHasAttempt
BY DEF OInv, TypeOK, RowsTyped

LEMMA EmptyLocals == NoPayment \in PaymentRows /\ NoLocals \in Locals
BY BoundsAssumption
   DEF NoPayment, PaymentRows, PaymentStatuses, FailureCodes, AttemptIds, NoLocals, Locals,
       NoAttempt, AttemptRows, AttemptStatuses

\* Where a handler that returns is.
AfterReturn(w) == IF w \in Creators THEN "replied" ELSE "idle"

LEMMA ReturnMoves ==
    ASSUME NEW w \in Workers, Return(w), OInv
    PROVE  Moves(w, AfterReturn(w), NoLocals) /\ Knows(w)'
<1>1. Moves(w, AfterReturn(w), NoLocals)
  BY EmptyLocals DEF Return, Goto, AfterReturn, Moves, Steps
<1>2. pc'[w] = AfterReturn(w)
  BY <1>1 DEF Moves, OInv, TypeOK
<1> QED
  BY <1>1, <1>2 DEF Knows, AfterReturn, ClaimSteps, ReconcileSteps

\* A handler that returns and saves at most the payment.
LEMMA ReturnKeeps ==
    ASSUME OInv, NEW w \in Workers, Return(w), UNCHANGED <<attempt, charge>>,
           RowsTyped', ReconcilingHasAttempt'
    PROVE  OInv'
BY ReturnMoves, QuietKeeps DEF AfterReturn, ClaimSteps

\* A handler that returns having failed, or having read what ends it.
LEMMA LeaveKeeps ==
    ASSUME OInv, NEW w \in Workers, Return(w), faults' \in 0..MaxFaults,
           UNCHANGED <<payment, attempt, ledger, eligible, charge, shown>>
    PROVE  OInv'
BY Facts, ReturnKeeps DEF RowsTyped, ReconcilingHasAttempt, ledger

\* A handler that only reads, and goes on where it knows enough.
LEMMA ReadKeeps ==
    ASSUME OInv, NEW w \in Workers, NEW step, NEW l, Moves(w, step, l), Knows(w)',
           step \notin ClaimSteps,
           UNCHANGED <<payment, attempt, ledger, world, shown>>
    PROVE  OInv'
BY Facts, QuietKeeps DEF RowsTyped, ReconcilingHasAttempt, ledger, world

\* A handler that saves the payment, and goes on where it knows enough.
LEMMA SavePaymentKeeps ==
    ASSUME OInv, NEW w \in Workers, NEW step, NEW l, Moves(w, step, l), Knows(w)',
           NEW p \in PaymentRows, SavePayment(p),
           p.status = "reconciling" => p.active \in Sequences,
           step \in ClaimSteps => pc[w] \in ClaimSteps /\ l.count = local[w].count,
           UNCHANGED <<attempt, ledger, world>>
    PROVE  OInv'
<1>1. p.presented \in {0} \cup Sequences
  BY BoundsAssumption DEF PaymentRows, AttemptIds, Sequences
<1>2. RowsTyped'
  BY <1>1, Facts DEF RowsTyped, SavePayment, ledger, world
<1>3. ReconcilingHasAttempt'
  BY DEF ReconcilingHasAttempt, SavePayment
<1> QED
  BY <1>2, <1>3, QuietKeeps DEF world

-----------------------------------------------------------------------------
(* Creating and routing.                                                    *)

LEMMA InitHolds == Init => OInv
<1> SUFFICES ASSUME Init
             PROVE  OInv
  OBVIOUS
<1>1. TypeOK
  BY EmptyLocals, BoundsAssumption
     DEF Init, TypeOK, NoAttempt, AttemptRows, AttemptStatuses, NoRecovery, AttemptIds, Charges,
         Steps
<1>2. Recorded = {}
  BY DEF Init, Recorded, NoAttempt
<1>3. Dense
  <2>1. 0 \in AttemptIds /\ Recorded = 1..0
    BY <1>2, BoundsAssumption DEF AttemptIds
  <2> QED
    BY <2>1 DEF Dense
<1>4. UnrecordedIsUnsent /\ ReconcilingHasAttempt /\ ConnectionsDiffer
  BY <1>2 DEF Init, UnrecordedIsUnsent, ReconcilingHasAttempt, NoPayment, ConnectionsDiffer
<1>5. ClaimsDiffer /\ \A w \in Workers : Knows(w)
  BY DEF Init, ClaimsDiffer, ClaimSteps, Knows, ReconcileSteps
<1> QED
  BY <1>1, <1>3, <1>4, <1>5 DEF OInv

LEMMA GetOrCreatePaymentKeeps ==
    ASSUME OInv, NEW w \in Creators, NEW f \in Fingerprints, GetOrCreatePayment(w, f)
    PROVE  OInv'
<1> DEFINE row == [NoPayment EXCEPT !.status = "created", !.fingerprint = f]
<1>w. w \in Workers /\ local[w] \in Locals
  BY Facts DEF Workers
<1>1. CASE payment.status = "absent"
  <2> DEFINE l == [local[w] EXCEPT !.pay = row, !.request = f]
  <2>1. row \in PaymentRows /\ row.status = "created"
    BY EmptyLocals DEF NoPayment, PaymentRows, PaymentStatuses
  <2>2. /\ SavePayment(row)
        /\ local' = [local EXCEPT ![w] = l]
        /\ pc' = [pc EXCEPT ![w] = "created"]
        /\ UNCHANGED <<attempt, ledger, world>>
    BY <1>1, <1>w DEF GetOrCreatePayment, Goto, OInv, TypeOK
  <2> HIDE DEF row
  <2>3. Moves(w, "created", l)
    BY <1>w, <2>1, <2>2 DEF Moves, Steps, ActiveSteps, CreatorSteps, Locals
  <2>4. Knows(w)'
    BY <1>w, <2>2 DEF Knows, ClaimSteps, ReconcileSteps, OInv, TypeOK
  <2> QED
    BY <1>w, <2>1, <2>2, <2>3, <2>4, SavePaymentKeeps DEF ClaimSteps
<1>2. CASE payment.status # "absent"
  <2> DEFINE l == [local[w] EXCEPT !.request = f]
  <2>1. /\ local' = [local EXCEPT ![w] = l]
        /\ pc' = [pc EXCEPT ![w] = "existing"]
        /\ UNCHANGED <<payment, shown, attempt, ledger, world>>
    BY <1>2, <1>w DEF GetOrCreatePayment, Goto, OInv, TypeOK
  <2>2. Moves(w, "existing", l)
    BY <1>w, <2>1 DEF Moves, Steps, ActiveSteps, CreatorSteps, Locals
  <2>3. Knows(w)'
    BY <1>w, <2>1 DEF Knows, ClaimSteps, ReconcileSteps, OInv, TypeOK
  <2> QED
    BY <1>w, <2>1, <2>2, <2>3, ReadKeeps DEF ClaimSteps
<1> QED
  BY <1>1, <1>2

LEMMA ReadExistingKeeps ==
    ASSUME OInv, NEW w \in Workers, ReadExisting(w)
    PROVE  OInv'
<1>1. NoLocals \in Locals
  BY EmptyLocals
<1>2. /\ pc' = [pc EXCEPT ![w] = Answer(w)]
      /\ local' = [local EXCEPT ![w] = NoLocals]
      /\ UNCHANGED <<payment, attempt, ledger, world, shown>>
  BY DEF ReadExisting, Goto, OInv, TypeOK
<1>3. Answer(w) \in {"replied", "conflict"}
  BY DEF Answer
<1>4. Moves(w, Answer(w), NoLocals)
  BY <1>1, <1>2, <1>3 DEF Moves, Steps, Locals
<1>5. Knows(w)'
  BY <1>2, <1>3 DEF Knows, ClaimSteps, ReconcileSteps, OInv, TypeOK
<1> QED
  BY <1>2, <1>3, <1>4, <1>5, ReadKeeps DEF ClaimSteps

LEMMA StartRoutingKeeps ==
    ASSUME OInv, NEW w \in Workers, StartRouting(w)
    PROVE  OInv'
<1> DEFINE p == [local[w].pay EXCEPT !.status = "routing"]
           l == [local[w] EXCEPT !.pay = p]
<1>1. local[w] \in Locals /\ p \in PaymentRows /\ p.status = "routing"
  BY Facts DEF Locals, PaymentRows, PaymentStatuses
<1>2. /\ SavePayment(p)
      /\ pc' = [pc EXCEPT ![w] = "list"]
      /\ local' = [local EXCEPT ![w] = l]
      /\ UNCHANGED <<attempt, ledger, world>>
  BY DEF StartRouting, Goto, OInv, TypeOK
<1> HIDE DEF p
<1>3. Moves(w, "list", l)
  BY <1>1, <1>2 DEF Moves, Steps, ActiveSteps, RoutingSteps, Locals
<1>4. Knows(w)'
  BY <1>2 DEF Knows, ClaimSteps, ReconcileSteps, OInv, TypeOK
<1> QED
  BY <1>1, <1>2, <1>3, <1>4, SavePaymentKeeps DEF ClaimSteps

LEMMA ListConnectionsKeeps ==
    ASSUME OInv, NEW w \in Workers, ListConnections(w)
    PROVE  OInv'
<1> DEFINE l == [local[w] EXCEPT !.connections = eligible]
<1>1. local[w] \in Locals /\ eligible \subseteq Conns
  BY Facts DEF RowsTyped
<1>2. /\ pc' = [pc EXCEPT ![w] = "history"]
      /\ local' = [local EXCEPT ![w] = l]
      /\ UNCHANGED <<payment, attempt, ledger, world, shown>>
  BY DEF ListConnections, Goto, OInv, TypeOK
<1>3. Moves(w, "history", l)
  BY <1>1, <1>2 DEF Moves, Steps, ActiveSteps, RoutingSteps, Locals
<1>4. Knows(w)'
  BY <1>2 DEF Knows, ClaimSteps, ReconcileSteps, OInv, TypeOK
<1> QED
  BY <1>2, <1>3, <1>4, ReadKeeps DEF ClaimSteps

\* Counting the attempts finds the last one.
LEMMA CountIsLast ==
    ASSUME NEW n \in AttemptIds, Recorded = 1..n
    PROVE  Cardinality(Recorded) = n
BY FS_Interval, BoundsAssumption DEF AttemptIds

LEMMA ListAttemptsKeeps ==
    ASSUME OInv, NEW w \in Workers, ListAttempts(w)
    PROVE  OInv'
<1>1. PICK n \in AttemptIds : Recorded = 1..n
  BY DEF OInv, Dense
<1> DEFINE l == [local[w] EXCEPT !.count = n, !.excluded = Attempted]
<1>2. Cardinality(Recorded) = n
  BY <1>1, CountIsLast
<1>3. /\ local[w] \in Locals
      /\ Attempted \subseteq Conns \cup {None}
      /\ \A s \in 1..n : s \in Recorded /\ attempt[s].conn \in Attempted
  BY <1>1, Facts DEF RowsTyped, Attempted, AttemptRows, Recorded
<1>4. /\ pc' = [pc EXCEPT ![w] = "select"]
      /\ local' = [local EXCEPT ![w] = l]
      /\ UNCHANGED <<payment, attempt, ledger, world, shown>>
  BY <1>2 DEF ListAttempts, Goto, OInv, TypeOK
<1>5. l \in Locals /\ l.count = n /\ l.excluded = Attempted
  BY <1>3 DEF Locals
<1> HIDE DEF l
<1>6. Moves(w, "select", l)
  BY <1>4, <1>5 DEF Moves, Steps, ActiveSteps, RoutingSteps
<1>7. pc'[w] = "select" /\ local'[w] = l
  BY <1>4 DEF OInv, TypeOK
<1>8. Excludes(w)'
  BY <1>3, <1>4, <1>5, <1>7 DEF Excludes, Recorded
<1>9. Knows(w)'
  BY <1>7, <1>8 DEF Knows, ClaimSteps, ReconcileSteps
<1> QED
  BY <1>4, <1>6, <1>9, ReadKeeps DEF ClaimSteps

\* The new attempt is the next one, whatever the handler read: the index refuses
\* any other, and its connection is none of those before it.
LEMMA AddAttemptKeeps ==
    ASSUME OInv, NEW w \in Workers, AddAttempt(w)
    PROVE  OInv'
<1> DEFINE n == local[w].count + 1
<1>1. PICK c \in local[w].connections \ local[w].excluded :
         LET row == [NoAttempt EXCEPT !.status = "created", !.conn = c]
         IN  /\ SaveAttempt(n, row)
             /\ local' = [local EXCEPT ![w].row = row]
  BY DEF AddAttempt
<1> DEFINE row == [NoAttempt EXCEPT !.status = "created", !.conn = c]
           l == [local[w] EXCEPT !.row = row]
<1>2. /\ pc[w] = "select"
      /\ pc' = [pc EXCEPT ![w] = "activate"]
      /\ local' = [local EXCEPT ![w] = l]
      /\ attempt' = [attempt EXCEPT ![n] = row]
      /\ UNCHANGED <<payment, ledger, world, shown>>
  BY <1>1 DEF AddAttempt, Goto, SaveAttempt, OInv, TypeOK
<1>3. /\ local[w] \in Locals
      /\ local[w].count < MaxAttempts
      /\ n \in Sequences
      /\ attempt[n].status = "absent"
      /\ attempt \in [Sequences -> AttemptRows]
      /\ Excludes(w)
  <2>1. local[w] \in Locals /\ Knows(w) /\ attempt \in [Sequences -> AttemptRows]
    BY Facts DEF RowsTyped
  <2>2. local[w].count < MaxAttempts /\ attempt[n].status = "absent"
    BY DEF AddAttempt, SequenceTaken
  <2> QED
    BY <1>2, <2>1, <2>2, BoundsAssumption DEF Locals, AttemptIds, Sequences, Knows
<1>4. row \in AttemptRows /\ row.status = "created" /\ row.conn = c
  BY <1>3 DEF NoAttempt, AttemptRows, AttemptStatuses, Locals
<1> HIDE DEF row
<1>5. l \in Locals /\ l.row = row /\ l.count = local[w].count /\ l.excluded = local[w].excluded
  BY <1>3, <1>4 DEF Locals
<1> HIDE DEF l
<1>6. /\ pc'[w] = "activate" /\ local'[w] = l
      /\ attempt'[n] = row
      /\ \A s \in Sequences \ {n} : attempt'[s] = attempt[s]
  BY <1>2, <1>3 DEF OInv, TypeOK
<1>7. n \notin Recorded /\ Recorded' = Recorded \cup {n}
  BY <1>3, <1>4, <1>6 DEF Recorded
<1>8. PICK m \in AttemptIds : Recorded = 1..m
  BY DEF OInv, Dense
<1>9. m = local[w].count
  <2>1. \A s \in 1..local[w].count : s \in 1..m
    BY <1>3, <1>8 DEF Excludes
  <2>2. m \in Nat /\ local[w].count \in Nat
    BY <1>3, BoundsAssumption DEF AttemptIds, Locals
  <2>3. m < n
    BY <1>7, <1>8, <2>2
  <2>4. local[w].count <= m
    BY <2>1, <2>2
  <2> QED
    BY <2>2, <2>3, <2>4
<1>10. Dense'
  <2>1. n \in AttemptIds /\ Recorded' = 1..n
    BY <1>3, <1>7, <1>8, <1>9, BoundsAssumption DEF AttemptIds, Sequences
  <2> QED
    BY <2>1 DEF Dense
<1>11. ConnectionsDiffer'
  <2>1. \A s \in Recorded : attempt[s].conn # c
    BY <1>3, <1>8, <1>9 DEF Excludes
  <2>2. \A s \in Recorded : s \in Sequences \ {n}
    BY <1>7 DEF Recorded
  <2> QED
    BY <1>4, <1>6, <1>7, <2>1, <2>2 DEF ConnectionsDiffer, OInv
<1>12. AttemptsKept
  BY <1>6, <1>7 DEF AttemptsKept, Recorded
<1>13. charge' = charge
  BY <1>2 DEF world
<1>14. OthersUnsent(w)
  BY <1>13 DEF OthersUnsent, OInv, Knows
<1>15. ClaimIsOwn(w, "activate", l)
  <2>1. ASSUME NEW v \in Workers \ {w}, pc[v] \in ClaimSteps
        PROVE  local[v].count + 1 \in Recorded
    BY <2>1 DEF OInv, Knows, Holds
  <2> QED
    BY <1>5, <1>7, <2>1 DEF ClaimIsOwn
<1>16. RowsTyped' /\ ReconcilingHasAttempt' /\ UnrecordedIsUnsent'
  <2>1. attempt' \in [Sequences -> AttemptRows]
    BY <1>2, <1>3, <1>4
  <2> QED
    BY <1>2, <1>7, <1>13, <2>1, Facts
       DEF RowsTyped, ReconcilingHasAttempt, UnrecordedIsUnsent, OInv, ledger, world
<1>17. Knows(w)'
  <2>1. Excludes(w)'
    BY <1>3, <1>5, <1>6, <1>7, <1>12 DEF Excludes, AttemptsKept
  <2>2. Holds(w, n)'
    BY <1>4, <1>5, <1>6, <1>7 DEF Holds
  <2>3. charge'[n] = "unsent"
    BY <1>3, <1>7, <1>13 DEF OInv, UnrecordedIsUnsent
  <2> QED
    BY <1>5, <1>6, <2>1, <2>2, <2>3 DEF Knows, ReconcileSteps
<1>18. Moves(w, "activate", l)
  BY <1>2, <1>5 DEF Moves, Steps, ActiveSteps, RoutingSteps
<1> QED
  BY <1>10, <1>11, <1>12, <1>14, <1>15, <1>16, <1>17, <1>18, StepKeeps

LEMMA GiveUpKeeps ==
    ASSUME OInv, NEW w \in Workers, GiveUp(w)
    PROVE  OInv'
<1> DEFINE p == [local[w].pay EXCEPT
                    !.status = "failed",
                    !.failure = IF local[w].count = MaxAttempts
                                THEN "fallback_budget_exhausted" ELSE "no_eligible_provider"]
<1>1. p \in PaymentRows /\ p.status = "failed"
  BY Facts DEF Locals, PaymentRows, PaymentStatuses, FailureCodes
<1>2. SavePayment(p) /\ Return(w) /\ UNCHANGED <<attempt, ledger, world>>
  BY DEF GiveUp
<1> HIDE DEF p
<1> QED
  BY <1>1, <1>2, ReturnMoves, SavePaymentKeeps DEF AfterReturn, ClaimSteps

LEMMA ActivateAttemptKeeps ==
    ASSUME OInv, NEW w \in Workers, ActivateAttempt(w)
    PROVE  OInv'
<1> DEFINE n == local[w].count + 1
           p == [local[w].pay EXCEPT !.active = n]
           l == [local[w] EXCEPT !.pay = p]
<1>1. /\ pc[w] = "activate"
      /\ SavePayment(p)
      /\ local' = [local EXCEPT ![w] = l]
      /\ pc' = [pc EXCEPT ![w] = "resolve"]
      /\ UNCHANGED <<attempt, ledger, world>>
  BY DEF ActivateAttempt, Goto, OInv, TypeOK
<1>2. /\ local[w] \in Locals
      /\ Excludes(w) /\ Holds(w, n) /\ charge[n] = "unsent"
  BY <1>1, Facts DEF Knows, ClaimSteps
<1>3. n \in Sequences
  BY <1>2 DEF Holds, Recorded
<1>4. p \in PaymentRows /\ p.active \in Sequences /\ p.active = n
  BY <1>2, <1>3, BoundsAssumption DEF Locals, PaymentRows, AttemptIds, Sequences
<1> HIDE DEF p
<1>5. /\ l \in Locals /\ l.pay = p /\ l.count = local[w].count /\ l.row = local[w].row
      /\ l.excluded = local[w].excluded
  BY <1>2, <1>4 DEF Locals
<1> HIDE DEF l
<1>6. Moves(w, "resolve", l)
  BY <1>1, <1>5 DEF Moves, Steps, ActiveSteps, RoutingSteps
<1>7. pc'[w] = "resolve" /\ local'[w] = l
  BY <1>1 DEF OInv, TypeOK
<1>8. UNCHANGED <<attempt, charge>>
  BY <1>1 DEF world
<1>9. Excludes(w)' /\ Holds(w, n)'
  BY <1>2, <1>5, <1>7, <1>8 DEF Excludes, Holds, Recorded
<1>10. Knows(w)'
  BY <1>2, <1>4, <1>5, <1>7, <1>8, <1>9 DEF Knows, ClaimSteps, ReconcileSteps
<1> QED
  BY <1>1, <1>4, <1>5, <1>6, <1>10, SavePaymentKeeps DEF ClaimSteps

LEMMA ResolveFailsKeeps ==
    ASSUME OInv, NEW w \in Workers, ResolveFails(w)
    PROVE  OInv'
<1> DEFINE n == local[w].count + 1
           row == [local[w].row EXCEPT !.status = "failed_terminal"]
<1>1. /\ pc[w] = "resolve"
      /\ \/ SaveAttempt(n, row) /\ UNCHANGED faults
         \/ UNCHANGED attempt /\ faults' \in 0..MaxFaults
      /\ pc' = [pc EXCEPT ![w] = "unresolved"]
      /\ local' = [local EXCEPT ![w] = local[w]]
      /\ UNCHANGED <<payment, ledger, eligible, charge, shown, local>>
  <2>1. pc[w] = "resolve" /\ local[w].pay.active = n
    BY Facts DEF ResolveFails, Knows
  <2>2. faults \in Nat
    BY BoundsAssumption DEF OInv, TypeOK
  <2> QED
    BY <2>1, <2>2, BoundsAssumption DEF ResolveFails, Goto, OInv, TypeOK
<1>2. /\ local[w] \in Locals /\ local[w].pay.active = n
      /\ Excludes(w) /\ Holds(w, n) /\ charge[n] = "unsent"
  BY <1>1, Facts DEF Knows, ClaimSteps
<1>3. row \in AttemptRows /\ row.status = "failed_terminal" /\ row.conn = local[w].row.conn
  BY <1>2 DEF Locals, AttemptRows, AttemptStatuses
<1> HIDE DEF row
<1>4. n \in Recorded /\ row.conn = attempt[n].conn /\ row.status # "absent" /\ n \in Sequences
  BY <1>2, <1>3 DEF Holds, Recorded
<1>5. attempt \in [Sequences -> AttemptRows]
  BY DEF OInv, TypeOK
<1>6. /\ Recorded' = Recorded
      /\ \A s \in Sequences : attempt'[s].conn = attempt[s].conn
  BY <1>1, <1>4, <1>5 DEF SaveAttempt, Recorded
<1>7. pc'[w] = "unresolved" /\ local' = local
  BY <1>1 DEF OInv, TypeOK
<1>8. Excludes(w)' /\ Holds(w, n)'
  BY <1>2, <1>4, <1>6, <1>7 DEF Excludes, Holds, Recorded
<1>9. Knows(w)'
  BY <1>1, <1>2, <1>7, <1>8 DEF Knows, ClaimSteps, ReconcileSteps
<1>10. Moves(w, "unresolved", local[w])
  BY <1>1, <1>2 DEF Moves, Steps, ActiveSteps, RoutingSteps
<1>11. RowsTyped' /\ ReconcilingHasAttempt'
  <2>1. attempt' \in [Sequences -> AttemptRows]
    BY <1>1, <1>3, <1>4, <1>5 DEF SaveAttempt
  <2> QED
    BY <1>1, <2>1, Facts DEF RowsTyped, ReconcilingHasAttempt, ledger
<1>12. CASE SaveAttempt(n, row) /\ UNCHANGED faults
  BY <1>1, <1>3, <1>4, <1>9, <1>10, <1>11, <1>12, SaveAttemptKeeps DEF ClaimSteps
<1>13. CASE UNCHANGED attempt /\ faults' \in 0..MaxFaults
  BY <1>1, <1>9, <1>10, <1>11, <1>13, QuietKeeps DEF ClaimSteps
<1> QED
  BY <1>1, <1>12, <1>13

LEMMA FailUnresolvedKeeps ==
    ASSUME OInv, NEW w \in Workers, FailUnresolved(w)
    PROVE  OInv'
<1> DEFINE p == [local[w].pay EXCEPT !.status = "failed", !.failure = "adapter_not_registered"]
<1>1. p \in PaymentRows /\ p.status = "failed"
  BY Facts DEF Locals, PaymentRows, PaymentStatuses, FailureCodes
<1>2. SavePayment(p) /\ Return(w) /\ UNCHANGED <<attempt, ledger, world>>
  BY DEF FailUnresolved
<1> HIDE DEF p
<1> QED
  BY <1>1, <1>2, ReturnMoves, SavePaymentKeeps DEF AfterReturn, ClaimSteps

LEMMA MarkRequestingKeeps ==
    ASSUME OInv, NEW w \in Workers, MarkRequesting(w)
    PROVE  OInv'
<1> DEFINE n == local[w].count + 1
           row == [local[w].row EXCEPT !.status = "requesting"]
           l == [local[w] EXCEPT !.row = row]
<1>1. pc[w] = "resolve" /\ local[w].pay.active = n
  BY Facts DEF MarkRequesting, Knows
<1>2. /\ SaveAttempt(n, row)
      /\ local' = [local EXCEPT ![w] = l]
      /\ pc' = [pc EXCEPT ![w] = "create"]
      /\ UNCHANGED <<payment, ledger, world, shown>>
  BY <1>1 DEF MarkRequesting, Goto, OInv, TypeOK
<1>3. /\ local[w] \in Locals
      /\ Excludes(w) /\ Holds(w, n) /\ charge[n] = "unsent"
  BY <1>1, Facts DEF Knows, ClaimSteps
<1>4. row \in AttemptRows /\ row.status = "requesting" /\ row.conn = local[w].row.conn
  BY <1>3 DEF Locals, AttemptRows, AttemptStatuses
<1> HIDE DEF row
<1>5. n \in Recorded /\ row.conn = attempt[n].conn /\ row.status # "absent" /\ n \in Sequences
  BY <1>3, <1>4 DEF Holds, Recorded
<1>6. attempt \in [Sequences -> AttemptRows]
  BY DEF OInv, TypeOK
<1>7. /\ Recorded' = Recorded
      /\ \A s \in Sequences : attempt'[s].conn = attempt[s].conn
  BY <1>2, <1>5, <1>6 DEF SaveAttempt, Recorded
<1>8. /\ l \in Locals /\ l.row = row /\ l.count = local[w].count /\ l.pay = local[w].pay
      /\ l.excluded = local[w].excluded
  BY <1>3, <1>4 DEF Locals
<1> HIDE DEF l
<1>9. pc'[w] = "create" /\ local'[w] = l
  BY <1>2 DEF OInv, TypeOK
<1>10. Excludes(w)' /\ Holds(w, n)'
  BY <1>3, <1>5, <1>7, <1>8, <1>9 DEF Excludes, Holds, Recorded
<1>11. Knows(w)'
  BY <1>1, <1>2, <1>3, <1>8, <1>9, <1>10 DEF Knows, ClaimSteps, ReconcileSteps, world
<1>12. Moves(w, "create", l)
  BY <1>2, <1>8 DEF Moves, Steps, ActiveSteps, RoutingSteps
<1>13. RowsTyped' /\ ReconcilingHasAttempt'
  <2>1. attempt' \in [Sequences -> AttemptRows]
    BY <1>2, <1>4, <1>5, <1>6 DEF SaveAttempt
  <2> QED
    BY <1>2, <2>1, Facts DEF RowsTyped, ReconcilingHasAttempt, ledger, world
<1>14. UNCHANGED charge
  BY <1>2 DEF world
<1> QED
  BY <1>1, <1>2, <1>4, <1>5, <1>8, <1>11, <1>12, <1>13, <1>14, SaveAttemptKeeps DEF ClaimSteps

\* The one step that sends an attempt sends the handler's own.
LEMMA CreatePixKeeps ==
    ASSUME OInv, NEW w \in Workers, CreatePix(w)
    PROVE  OInv'
<1> DEFINE n == local[w].count + 1
<1>1. pc[w] = "create" /\ local[w].pay.active = n
  BY Facts DEF CreatePix, Knows
<1>2. /\ local[w] \in Locals
      /\ Excludes(w) /\ Holds(w, n)
  BY <1>1, Facts DEF Knows, ClaimSteps
<1>3. PICK outcome \in {"succeeded", "failed_safe", "unknown", "failed_terminal"} :
         /\ \E c \in ChargeAfter(outcome) : charge' = [charge EXCEPT ![n] = c]
         /\ LET row == [local[w].row EXCEPT !.status = outcome,
                                            !.identified = (outcome = "succeeded")]
            IN  local' = [local EXCEPT ![w].row = row]
  BY <1>1 DEF CreatePix
<1>4. PICK c \in ChargeAfter(outcome) : charge' = [charge EXCEPT ![n] = c]
  BY <1>3
<1> DEFINE row == [local[w].row EXCEPT !.status = outcome,
                                       !.identified = (outcome = "succeeded")]
           l == [local[w] EXCEPT !.row = row]
<1>5. /\ local' = [local EXCEPT ![w] = l]
      /\ pc' = [pc EXCEPT ![w] = "respond"]
      /\ UNCHANGED <<payment, attempt, ledger, eligible, shown, faults>>
  BY <1>3 DEF CreatePix, Goto, OInv, TypeOK
<1>6. row \in AttemptRows /\ row.status # "absent" /\ row.conn = local[w].row.conn
  BY <1>2 DEF Locals, AttemptRows, AttemptStatuses
<1> HIDE DEF row
<1>7. /\ l \in Locals /\ l.row = row /\ l.count = local[w].count /\ l.pay = local[w].pay
      /\ l.excluded = local[w].excluded
  BY <1>2, <1>6 DEF Locals
<1> HIDE DEF l
<1>8. pc'[w] = "respond" /\ local'[w] = l
  BY <1>5 DEF OInv, TypeOK
<1>9. Excludes(w)' /\ Holds(w, n)'
  BY <1>2, <1>5, <1>6, <1>7, <1>8 DEF Excludes, Holds, Recorded
<1>10. Knows(w)'
  BY <1>1, <1>7, <1>8, <1>9 DEF Knows, ClaimSteps, ReconcileSteps
<1>11. Moves(w, "respond", l)
  BY <1>5, <1>7 DEF Moves, Steps, ActiveSteps, RoutingSteps
<1>12. Recorded' = Recorded
  BY <1>5 DEF Recorded
<1>13. AttemptsKept
  BY <1>5, <1>12 DEF AttemptsKept
<1>14. n \in Recorded /\ n \in Sequences /\ charge \in [Sequences -> Charges] /\ c \in Charges
  BY <1>2, <1>4 DEF Holds, Recorded, OInv, TypeOK, ChargeAfter, Charges
<1>15. \A s \in Sequences \ {n} : charge'[s] = charge[s]
  BY <1>4, <1>14
<1>16. RowsTyped' /\ ReconcilingHasAttempt'
  <2>1. charge' \in [Sequences -> Charges]
    BY <1>4, <1>14
  <2> QED
    BY <1>5, <2>1, Facts DEF RowsTyped, ReconcilingHasAttempt, ledger
<1>17. OthersUnsent(w)
  <2>1. ASSUME NEW v \in Workers \ {w}, pc[v] \in ClaimSteps
        PROVE  charge'[local[v].count + 1] = "unsent"
    <3>1. local[v].count # local[w].count
      BY <1>1, <2>1 DEF OInv, ClaimsDiffer, ClaimSteps
    <3>2. local[v].count \in Nat /\ local[w].count \in Nat
      BY Facts, BoundsAssumption DEF Locals, AttemptIds
    <3>3. local[v].count + 1 \in Sequences /\ charge[local[v].count + 1] = "unsent"
      BY <2>1, Facts DEF Knows, Holds, Recorded
    <3> QED
      BY <1>15, <3>1, <3>2, <3>3
  <2> QED
    BY <2>1 DEF OthersUnsent
<1>18. Dense' /\ UnrecordedIsUnsent' /\ ConnectionsDiffer'
  BY <1>5, <1>12, <1>14, <1>15 DEF OInv, Dense, UnrecordedIsUnsent, ConnectionsDiffer
<1>19. ClaimIsOwn(w, "respond", l)
  BY DEF ClaimIsOwn, ClaimSteps
<1> QED
  BY <1>10, <1>11, <1>13, <1>16, <1>17, <1>18, <1>19, StepKeeps

LEMMA SaveOutcomeKeeps ==
    ASSUME OInv, NEW w \in Workers, SaveOutcome(w)
    PROVE  OInv'
<1> DEFINE n == local[w].count + 1
           row == local[w].row
<1>1. pc[w] = "respond" /\ local[w].pay.active = n
  BY Facts DEF SaveOutcome, Knows
<1>2. /\ local[w] \in Locals
      /\ Excludes(w) /\ Holds(w, n)
  BY <1>1, Facts DEF Knows
<1>3. /\ row \in AttemptRows /\ n \in Recorded /\ n \in Sequences
      /\ row.conn = attempt[n].conn /\ row.status # "absent"
      /\ attempt \in [Sequences -> AttemptRows]
  BY <1>2 DEF Locals, Holds, Recorded, OInv, TypeOK
<1>4. SaveAttempt(n, row) /\ UNCHANGED <<payment, ledger, world, shown>>
  BY <1>1 DEF SaveOutcome
<1>5. /\ Recorded' = Recorded
      /\ \A s \in Sequences : attempt'[s].conn = attempt[s].conn
  BY <1>3, <1>4 DEF SaveAttempt, Recorded
<1>6. RowsTyped' /\ ReconcilingHasAttempt' /\ UNCHANGED charge
  <2>1. attempt' \in [Sequences -> AttemptRows]
    BY <1>3, <1>4 DEF SaveAttempt
  <2> QED
    BY <1>4, <2>1, Facts DEF RowsTyped, ReconcilingHasAttempt, ledger, world
<1>7. CASE FallsBack(local[w].row.status)
  <2> DEFINE l == [local[w] EXCEPT !.count = n, !.excluded = @ \cup {row.conn}]
  <2>1. /\ local' = [local EXCEPT ![w] = l]
        /\ pc' = [pc EXCEPT ![w] = "select"]
    BY <1>7 DEF SaveOutcome, Goto, OInv, TypeOK
  <2>2. /\ l \in Locals /\ l.count = n
        /\ l.excluded = local[w].excluded \cup {row.conn}
    <3> HIDE DEF n
    <3>1. n \in AttemptIds
      BY <1>3, BoundsAssumption DEF AttemptIds, Sequences
    <3>2. PICK x : x = local[w].excluded \cup {row.conn}
      OBVIOUS
    <3>3. x \in SUBSET (Conns \cup {None})
      BY <1>2, <1>3, <3>2 DEF Locals, AttemptRows
    <3>4. l = [local[w] EXCEPT !.count = n, !.excluded = x]
      BY <3>2
    <3> QED
      BY <1>2, <3>1, <3>2, <3>3, <3>4 DEF Locals
  <2> HIDE DEF l
  <2>3. pc'[w] = "select" /\ local'[w] = l
    BY <2>1 DEF OInv, TypeOK
  <2>4. \A s \in 1..n : s \in 1..local[w].count \/ s = n
    BY <1>2, BoundsAssumption DEF Locals, AttemptIds
  <2>5. Excludes(w)'
    BY <1>2, <1>3, <1>5, <2>2, <2>3, <2>4 DEF Excludes, Recorded
  <2>6. Knows(w)'
    BY <2>3, <2>5 DEF Knows, ClaimSteps, ReconcileSteps
  <2>7. Moves(w, "select", l)
    BY <2>1, <2>2 DEF Moves, Steps, ActiveSteps, RoutingSteps
  <2> QED
    BY <1>3, <1>4, <1>6, <2>6, <2>7, SaveAttemptKeeps DEF ClaimSteps
<1>8. CASE ~FallsBack(local[w].row.status)
  <2>1. /\ local' = [local EXCEPT ![w] = local[w]] /\ local' = local
        /\ pc' = [pc EXCEPT ![w] = "settle"]
    BY <1>8 DEF SaveOutcome, Goto, OInv, TypeOK
  <2>2. pc'[w] = "settle"
    BY <2>1 DEF OInv, TypeOK
  <2>3. Knows(w)'
    BY <1>1, <1>3, <2>1, <2>2 DEF Knows, ClaimSteps, ReconcileSteps
  <2>4. Moves(w, "settle", local[w])
    BY <1>2, <2>1 DEF Moves, Steps, ActiveSteps, RoutingSteps
  <2> QED
    BY <1>3, <1>4, <1>6, <2>3, <2>4, SaveAttemptKeeps DEF ClaimSteps
<1> QED
  BY <1>7, <1>8

LEMMA SettlePaymentKeeps ==
    ASSUME OInv, NEW w \in Workers, SettlePayment(w)
    PROVE  OInv'
<1> DEFINE p == Settled(local[w].pay, local[w].row.status)
<1>1. local[w] \in Locals /\ local[w].pay.active \in Sequences
  BY Facts DEF SettlePayment, Knows
<1>2. p \in PaymentRows /\ (p.status = "reconciling" => p.active \in Sequences)
  BY <1>1 DEF Settled, Locals, PaymentRows, PaymentStatuses, FailureCodes
<1>3. SavePayment(p) /\ Return(w) /\ UNCHANGED <<attempt, ledger, world>>
  BY DEF SettlePayment
<1> HIDE DEF p
<1> QED
  BY <1>2, <1>3, ReturnMoves, SavePaymentKeeps DEF AfterReturn, ClaimSteps

-----------------------------------------------------------------------------
(* Reconciling.                                                             *)

LEMMA ReadForReconcileKeeps ==
    ASSUME OInv, NEW w \in Workers, ReadForReconcile(w)
    PROVE  OInv'
<1> DEFINE l == [local[w] EXCEPT !.pay = payment]
<1>1. /\ local[w] \in Locals /\ payment \in PaymentRows
      /\ payment.active \in Sequences
  BY Facts DEF ReadForReconcile, Reconcilable, RowsTyped, ReconcilingHasAttempt
<1>2. /\ local' = [local EXCEPT ![w] = l]
      /\ pc' = [pc EXCEPT ![w] = "reattempt"]
      /\ UNCHANGED <<payment, attempt, ledger, world, shown>>
  BY DEF ReadForReconcile, Goto, OInv, TypeOK
<1>3. l \in Locals /\ l.pay = payment
  BY <1>1 DEF Locals
<1> HIDE DEF l
<1>4. pc'[w] = "reattempt" /\ local'[w] = l
  BY <1>2 DEF OInv, TypeOK
<1>5. Knows(w)'
  BY <1>1, <1>3, <1>4 DEF Knows, ClaimSteps, ReconcileSteps
<1>6. Moves(w, "reattempt", l)
  BY <1>2, <1>3 DEF Moves, Steps, ActiveSteps, ReconcileSteps
<1> QED
  BY <1>2, <1>5, <1>6, ReadKeeps DEF ClaimSteps

LEMMA ReadUnknownAttemptKeeps ==
    ASSUME OInv, NEW w \in Workers, ReadUnknownAttempt(w)
    PROVE  OInv'
<1> DEFINE n == local[w].pay.active
           row == attempt[n]
<1>1. /\ local[w] \in Locals /\ n \in Sequences /\ row \in AttemptRows
      /\ UNCHANGED <<payment, attempt, ledger, world, shown>>
  BY Facts DEF ReadUnknownAttempt, Knows, ReconcileSteps, RowsTyped
<1>2. CASE Unresolved(row)
  <2> DEFINE l == [local[w] EXCEPT !.row = row]
  <2>1. /\ local' = [local EXCEPT ![w] = l]
        /\ pc' = [pc EXCEPT ![w] = "ask"]
    BY <1>2 DEF ReadUnknownAttempt, Goto, OInv, TypeOK
  <2>2. l \in Locals /\ l.row = row /\ l.pay = local[w].pay
    BY <1>1 DEF Locals
  <2>3. n \in Recorded /\ row.status # "absent"
    BY <1>1, <1>2 DEF Unresolved, Recorded
  <2> HIDE DEF l
  <2>4. pc'[w] = "ask" /\ local'[w] = l
    BY <2>1 DEF OInv, TypeOK
  <2>5. Holds(w, n)'
    BY <1>1, <2>2, <2>3, <2>4 DEF Holds, Recorded
  <2>6. Knows(w)'
    BY <1>1, <2>2, <2>4, <2>5 DEF Knows, ClaimSteps, ReconcileSteps
  <2>7. Moves(w, "ask", l)
    BY <2>1, <2>2 DEF Moves, Steps, ActiveSteps, ReconcileSteps
  <2> QED
    BY <1>1, <2>6, <2>7, ReadKeeps DEF ClaimSteps
<1>3. CASE ~Unresolved(row)
  <2>1. Return(w)
    BY <1>3 DEF ReadUnknownAttempt
  <2>2. faults' \in 0..MaxFaults /\ UNCHANGED <<eligible, charge>>
    BY <1>1, Facts DEF RowsTyped, world
  <2> QED
    BY <1>1, <2>1, <2>2, LeaveKeeps
<1> QED
  BY <1>2, <1>3

LEMMA AskProviderKeeps ==
    ASSUME OInv, NEW w \in Workers, AskProvider(w)
    PROVE  OInv'
<1> DEFINE n == local[w].pay.active
<1>1. /\ pc[w] = "ask" /\ local[w] \in Locals /\ n \in Sequences /\ Holds(w, n)
      /\ UNCHANGED <<payment, attempt, ledger, world, shown>>
  BY Facts DEF AskProvider, Knows, ReconcileSteps
<1>2. PICK answer \in Answers(n) :
         LET row == [local[w].row EXCEPT !.status = answer,
                                         !.identified = @ \/ answer = "succeeded"]
         IN  local' = [local EXCEPT ![w].row = row]
  BY DEF AskProvider
<1> DEFINE row == [local[w].row EXCEPT !.status = answer,
                                       !.identified = @ \/ answer = "succeeded"]
           l == [local[w] EXCEPT !.row = row]
<1>3. /\ local' = [local EXCEPT ![w] = l]
      /\ pc' = [pc EXCEPT ![w] = "answered"]
  BY <1>2 DEF AskProvider, Goto, OInv, TypeOK
<1>4. answer \in {"unknown", "failed_terminal", "failed_safe", "succeeded"}
  BY DEF Answers
<1>5. row \in AttemptRows /\ row.status # "absent" /\ row.conn = local[w].row.conn
  BY <1>1, <1>4 DEF Locals, AttemptRows, AttemptStatuses
<1> HIDE DEF row
<1>6. l \in Locals /\ l.row = row /\ l.pay = local[w].pay
  BY <1>1, <1>5 DEF Locals
<1> HIDE DEF l
<1>7. pc'[w] = "answered" /\ local'[w] = l
  BY <1>3 DEF OInv, TypeOK
<1>8. Holds(w, n)'
  BY <1>1, <1>5, <1>6, <1>7 DEF Holds, Recorded
<1>9. Knows(w)'
  BY <1>1, <1>6, <1>7, <1>8 DEF Knows, ClaimSteps, ReconcileSteps
<1>10. Moves(w, "answered", l)
  BY <1>3, <1>6 DEF Moves, Steps, ActiveSteps, ReconcileSteps
<1> QED
  BY <1>1, <1>9, <1>10, ReadKeeps DEF ClaimSteps

LEMMA SaveAnswerKeeps ==
    ASSUME OInv, NEW w \in Workers, SaveAnswer(w)
    PROVE  OInv'
<1> DEFINE n == local[w].pay.active
           row == local[w].row
<1>1. /\ pc[w] = "answered" /\ local[w] \in Locals /\ n \in Sequences /\ Holds(w, n)
      /\ SaveAttempt(n, row)
      /\ UNCHANGED <<payment, ledger, world, shown>>
  BY Facts DEF SaveAnswer, Knows, ReconcileSteps
<1>2. /\ row \in AttemptRows /\ n \in Recorded
      /\ row.conn = attempt[n].conn /\ row.status # "absent"
      /\ attempt \in [Sequences -> AttemptRows]
  BY <1>1 DEF Locals, Holds, OInv, TypeOK
<1>3. RowsTyped' /\ ReconcilingHasAttempt' /\ UNCHANGED charge
  <2>1. attempt' \in [Sequences -> AttemptRows]
    BY <1>1, <1>2 DEF SaveAttempt
  <2> QED
    BY <1>1, <2>1, Facts DEF RowsTyped, ReconcilingHasAttempt, ledger, world
<1>4. CASE row.status = "unknown"
  <2>1. Return(w)
    BY <1>4 DEF SaveAnswer
  <2>2. Moves(w, AfterReturn(w), NoLocals) /\ Knows(w)' /\ AfterReturn(w) \notin ClaimSteps
    BY <2>1, ReturnMoves DEF AfterReturn, ClaimSteps
  <2> QED
    BY <1>1, <1>2, <1>3, <2>2, SaveAttemptKeeps
<1>5. CASE row.status # "unknown"
  <2> DEFINE step == IF row.status = "failed_safe" THEN "reroute" ELSE "settle"
  <2>1. /\ local' = [local EXCEPT ![w] = local[w]] /\ local' = local
        /\ pc' = [pc EXCEPT ![w] = step]
    BY <1>5 DEF SaveAnswer, Goto, OInv, TypeOK
  <2>2. step \in {"reroute", "settle"}
    OBVIOUS
  <2> HIDE DEF step
  <2>3. pc'[w] = step
    BY <2>1 DEF OInv, TypeOK
  <2>4. Knows(w)'
    BY <1>1, <2>1, <2>2, <2>3 DEF Knows, ClaimSteps, ReconcileSteps
  <2>5. Moves(w, step, local[w]) /\ step \notin ClaimSteps
    BY <1>1, <2>1, <2>2
       DEF Moves, Steps, ActiveSteps, ReconcileSteps, RoutingSteps, ClaimSteps
  <2> QED
    BY <1>1, <1>2, <1>3, <2>4, <2>5, SaveAttemptKeeps
<1> QED
  BY <1>4, <1>5

LEMMA RerouteKeeps ==
    ASSUME OInv, NEW w \in Workers, Reroute(w)
    PROVE  OInv'
<1> DEFINE p == [local[w].pay EXCEPT !.status = "routing", !.failure = ""]
           l == [local[w] EXCEPT !.pay = p]
<1>1. local[w] \in Locals /\ p \in PaymentRows /\ p.status = "routing"
  BY Facts DEF Locals, PaymentRows, PaymentStatuses, FailureCodes
<1>2. /\ SavePayment(p)
      /\ pc' = [pc EXCEPT ![w] = "list"]
      /\ local' = [local EXCEPT ![w] = l]
      /\ UNCHANGED <<attempt, ledger, world>>
  BY DEF Reroute, Goto, OInv, TypeOK
<1> HIDE DEF p
<1>3. Moves(w, "list", l)
  BY <1>1, <1>2 DEF Moves, Steps, ActiveSteps, RoutingSteps, Locals
<1>4. Knows(w)'
  BY <1>2 DEF Knows, ClaimSteps, ReconcileSteps, OInv, TypeOK
<1> QED
  BY <1>1, <1>2, <1>3, <1>4, SavePaymentKeeps DEF ClaimSteps

-----------------------------------------------------------------------------
(* Being paid, and the rest.                                                *)

LEMMA RecordEventKeeps ==
    ASSUME OInv, NEW w \in Workers, NEW s \in Sequences, RecordEvent(w, s)
    PROVE  OInv'
<1> DEFINE l == [local[w] EXCEPT !.target = s]
<1>1. /\ local[w] \in Locals /\ s \in AttemptIds
      /\ event \in [Sequences -> {"absent", "recorded", "processed"}]
  BY Facts, BoundsAssumption DEF RowsTyped, AttemptIds, Sequences
<1>2. /\ event' = [event EXCEPT ![s] = AfterDelivery(event[s])]
      /\ local' = [local EXCEPT ![w] = l]
      /\ pc' = [pc EXCEPT ![w] = "lookup"]
      /\ UNCHANGED <<payment, attempt, recovery, outbox, world, shown>>
  BY <1>1 DEF RecordEvent, Goto, OInv, TypeOK
<1>3. Moves(w, "lookup", l)
  BY <1>1, <1>2 DEF Moves, Steps, ActiveSteps, WebhookSteps, Locals
<1>4. Knows(w)'
  BY <1>2 DEF Knows, ClaimSteps, ReconcileSteps, OInv, TypeOK
<1>5. RowsTyped' /\ ReconcilingHasAttempt'
  BY <1>1, <1>2, Facts DEF RowsTyped, ReconcilingHasAttempt, world, AfterDelivery
<1> QED
  BY <1>2, <1>3, <1>4, <1>5, QuietKeeps DEF ClaimSteps, world

\* A webhook handler that goes on, or returns.
LEMMA WebhookGoesOn ==
    ASSUME OInv, NEW w \in Workers, NEW step \in WebhookSteps, NEW l \in Locals,
           local' = [local EXCEPT ![w] = l], Goto(w, step),
           UNCHANGED <<payment, attempt, ledger, world, shown>>
    PROVE  OInv'
<1>1. Moves(w, step, l)
  BY DEF Moves, Goto, Steps, ActiveSteps
<1>2. Knows(w)'
  BY DEF Goto, Knows, ClaimSteps, ReconcileSteps, WebhookSteps, OInv, TypeOK
<1>3. step \notin ClaimSteps
  BY DEF ClaimSteps, WebhookSteps
<1> QED
  BY <1>1, <1>2, <1>3, ReadKeeps

LEMMA WebhookLeaves ==
    ASSUME OInv, NEW w \in Workers, Return(w),
           UNCHANGED <<payment, attempt, ledger, world, shown>>
    PROVE  OInv'
BY Facts, LeaveKeeps DEF RowsTyped, world

LEMMA FindAttemptKeeps ==
    ASSUME OInv, NEW w \in Workers, FindAttempt(w)
    PROVE  OInv'
<1>1. local[w] \in Locals /\ local = [local EXCEPT ![w] = local[w]]
  BY Facts DEF OInv, TypeOK
<1>2. Goto(w, "load") /\ UNCHANGED local => OInv'
  BY <1>1, WebhookGoesOn DEF FindAttempt, WebhookSteps
<1> QED
  BY <1>2, WebhookLeaves DEF FindAttempt

LEMMA ReadForPaidKeeps ==
    ASSUME OInv, NEW w \in Workers, ReadForPaid(w)
    PROVE  OInv'
<1> DEFINE l == [local[w] EXCEPT !.pay = payment]
<1>1. local[w] \in Locals /\ local = [local EXCEPT ![w] = local[w]] /\ payment \in PaymentRows
  BY Facts DEF OInv, TypeOK
<1>2. /\ l \in Locals
      /\ [local EXCEPT ![w].pay = payment] = [local EXCEPT ![w] = l]
  BY <1>1 DEF Locals, OInv, TypeOK
<1> HIDE DEF l
<1>3. Goto(w, "acknowledge") /\ UNCHANGED local => OInv'
  BY <1>1, WebhookGoesOn DEF ReadForPaid, WebhookSteps
<1>4. Goto(w, "verify") /\ local' = [local EXCEPT ![w] = l] => OInv'
  BY <1>2, WebhookGoesOn DEF ReadForPaid, WebhookSteps
<1> QED
  BY <1>2, <1>3, <1>4, WebhookLeaves DEF ReadForPaid

LEMMA VerifyAttemptKeeps ==
    ASSUME OInv, NEW w \in Workers, VerifyAttempt(w)
    PROVE  OInv'
<1>1. local[w] \in Locals /\ local = [local EXCEPT ![w] = local[w]]
  BY Facts DEF OInv, TypeOK
<1>2. Goto(w, "recoveries") /\ UNCHANGED local => OInv'
  BY <1>1, WebhookGoesOn DEF VerifyAttempt, WebhookSteps
<1> QED
  BY <1>2, WebhookLeaves DEF VerifyAttempt

LEMMA LeastExists ==
    ASSUME NEW T \in SUBSET Nat, T # {}
    PROVE  \E x \in T : \A y \in T : x <= y
<1>1. PICK x \in T : \A y \in T : <<y, x>> \notin OpToRel(<, Nat)
  BY NatLessThanWellFounded, WFMin
<1>2. ASSUME NEW y \in T
      PROVE  x <= y
  <2>1. <<y, x>> \in Nat \X Nat
    OBVIOUS
  <2>2. ~(y < x)
    BY <1>1, <2>1 DEF OpToRel
  <2> QED
    BY <2>2
<1> QED
  BY <1>2

LEMMA FirstFailedSafeIsAttempt ==
    ASSUME NEW s
    PROVE  FirstFailedSafe(s) \in AttemptIds
<1> DEFINE earlier == {t \in Sequences : t < s /\ attempt[t].status = "failed_safe"}
<1>1. earlier \in SUBSET Sequences /\ earlier \in SUBSET Nat
  BY BoundsAssumption DEF Sequences
<1>2. 0 \in AttemptIds /\ Sequences \subseteq AttemptIds
  BY BoundsAssumption DEF Sequences, AttemptIds
<1> HIDE DEF earlier
<1>3. earlier # {} => (CHOOSE t \in earlier : \A u \in earlier : t <= u) \in earlier
  BY <1>1, LeastExists
<1>4. FirstFailedSafe(s) = IF earlier = {} THEN 0
                           ELSE CHOOSE t \in earlier : \A u \in earlier : t <= u
  BY DEF FirstFailedSafe, earlier
<1> QED
  BY <1>1, <1>2, <1>3, <1>4

LEMMA FindRecoveryKeeps ==
    ASSUME OInv, NEW w \in Workers, FindRecovery(w)
    PROVE  OInv'
<1>1. PICK n : n = FirstFailedSafe(local[w].target)
  OBVIOUS
<1> DEFINE l == [local[w] EXCEPT !.failed = n]
<1>2. n \in AttemptIds /\ local[w] \in Locals
  BY <1>1, FirstFailedSafeIsAttempt, Facts
<1>3. l \in Locals /\ local' = [local EXCEPT ![w] = l]
  BY <1>1, <1>2 DEF FindRecovery, Locals, OInv, TypeOK
<1> HIDE DEF l
<1> QED
  BY <1>3, WebhookGoesOn DEF FindRecovery, WebhookSteps

LEMMA CommitPaidKeeps ==
    ASSUME OInv, NEW w \in Receivers, CommitPaid(w)
    PROVE  OInv'
<1> DEFINE recovers == local[w].failed # 0
           p == [local[w].pay EXCEPT !.status = "paid", !.paidAt = w,
                                     !.recovered = @ \/ recovers]
<1>1. w \in Workers /\ local[w] \in Locals /\ local = [local EXCEPT ![w] = local[w]]
  BY Facts DEF Workers, OInv, TypeOK
<1>2. p \in PaymentRows /\ p.status = "paid"
  BY <1>1 DEF Locals, PaymentRows, PaymentStatuses
<1>3. /\ SavePayment(p)
      /\ recovery' = IF recovers /\ recovery = NoRecovery
                     THEN [failed |-> local[w].failed, successful |-> local[w].target]
                     ELSE recovery
      /\ outbox' = outbox \cup MerchantEvents(p)
      /\ Goto(w, "acknowledge")
      /\ UNCHANGED <<attempt, event, world, local>>
  BY DEF CommitPaid
<1> HIDE DEF p
<1>4. recovery' \in [failed : AttemptIds, successful : AttemptIds]
  BY <1>1, <1>3, Facts DEF RowsTyped, Locals
<1>5. outbox' \subseteq {"payment.paid", "payment.recovered"}
  BY <1>3, Facts DEF RowsTyped, MerchantEvents
<1>6. shown' \subseteq Sequences
  BY <1>2, <1>3, Facts, BoundsAssumption
     DEF RowsTyped, SavePayment, PaymentRows, AttemptIds, Sequences
<1>7. RowsTyped' /\ ReconcilingHasAttempt'
  BY <1>2, <1>3, <1>4, <1>5, <1>6, Facts
     DEF RowsTyped, ReconcilingHasAttempt, SavePayment, world
<1>8. Moves(w, "acknowledge", local[w])
  BY <1>1, <1>3 DEF Moves, Goto, Steps, ActiveSteps, WebhookSteps
<1>9. Knows(w)'
  BY <1>1, <1>3 DEF Goto, Knows, ClaimSteps, ReconcileSteps, OInv, TypeOK
<1> QED
  BY <1>1, <1>3, <1>7, <1>8, <1>9, QuietKeeps DEF ClaimSteps, world

LEMMA AcknowledgeEventKeeps ==
    ASSUME OInv, NEW w \in Workers, AcknowledgeEvent(w)
    PROVE  OInv'
<1>1. event' \in [Sequences -> {"absent", "recorded", "processed"}]
  BY Facts DEF AcknowledgeEvent, RowsTyped
<1>2. RowsTyped' /\ ReconcilingHasAttempt'
  BY <1>1, Facts DEF AcknowledgeEvent, RowsTyped, ReconcilingHasAttempt, world
<1> QED
  BY <1>2, ReturnKeeps DEF AcknowledgeEvent, world

LEMMA FailKeeps ==
    ASSUME OInv, NEW w \in Workers, Fail(w)
    PROVE  OInv'
<1>1. faults' \in 0..MaxFaults
  BY Facts, BoundsAssumption DEF Fail, RowsTyped
<1> QED
  BY <1>1, LeaveKeeps DEF Fail

\* What happens around the handlers touches no claimed attempt.
LEMMA AroundKeeps ==
    ASSUME OInv, UNCHANGED <<payment, attempt, ledger, shown, pc, local, faults>>,
           eligible' \subseteq Conns,
           charge' \in [Sequences -> Charges],
           \A s \in Sequences : charge[s] = "unsent" => charge'[s] = "unsent"
    PROVE  OInv'
<1>1. Recorded' = Recorded
  BY DEF Recorded
<1>2. TypeOK' /\ Dense' /\ UnrecordedIsUnsent' /\ ReconcilingHasAttempt'
  BY <1>1 DEF OInv, TypeOK, Dense, UnrecordedIsUnsent, ReconcilingHasAttempt, ledger, Recorded
<1>3. ClaimsDiffer' /\ ConnectionsDiffer'
  BY <1>1 DEF OInv, ClaimsDiffer, ConnectionsDiffer
<1>4. ASSUME NEW w \in Workers
      PROVE  Knows(w)'
  <2>1. Knows(w) /\ pc'[w] = pc[w] /\ local'[w] = local[w]
    BY Facts
  <2>2. /\ Excludes(w) => Excludes(w)'
        /\ \A n : Holds(w, n) => Holds(w, n)'
    BY <1>1 DEF Excludes, Holds
  <2>3. pc[w] \in ClaimSteps => charge'[local[w].count + 1] = "unsent"
    BY <2>1 DEF Knows, Holds, Recorded
  <2> QED
    BY <2>1, <2>2, <2>3 DEF Knows
<1> QED
  BY <1>2, <1>3, <1>4 DEF OInv

-----------------------------------------------------------------------------
(* The theorems.                                                            *)

LEMMA StutterKeeps ==
    ASSUME OInv, UNCHANGED vars
    PROVE  OInv'
BY AroundKeeps DEF vars, ledger, OInv, TypeOK

LEMMA RoutingStepKeeps ==
    ASSUME OInv, NEW w \in Workers, RoutingStep(w)
    PROVE  OInv'
BY ListConnectionsKeeps, ListAttemptsKeeps, AddAttemptKeeps, GiveUpKeeps,
   ActivateAttemptKeeps, ResolveFailsKeeps, FailUnresolvedKeeps, MarkRequestingKeeps,
   CreatePixKeeps, SaveOutcomeKeeps, SettlePaymentKeeps
   DEF RoutingStep

LEMMA NextKeeps ==
    ASSUME OInv, Next
    PROVE  OInv'
<1>1. ASSUME NEW w \in Creators, NEW f \in Fingerprints, GetOrCreatePayment(w, f)
      PROVE  OInv'
  BY <1>1, GetOrCreatePaymentKeeps
<1>2. ASSUME NEW w \in Creators, CreatorStep(w) \/ RoutingStep(w)
      PROVE  OInv'
  BY <1>2, ReadExistingKeeps, StartRoutingKeeps, RoutingStepKeeps DEF CreatorStep, Workers
<1>3. ASSUME NEW w \in Reconcilers, ReadForReconcile(w) \/ ReconcileStep(w) \/ RoutingStep(w)
      PROVE  OInv'
  BY <1>3, ReadForReconcileKeeps, ReadUnknownAttemptKeeps, AskProviderKeeps,
     SaveAnswerKeeps, RerouteKeeps, RoutingStepKeeps
     DEF ReconcileStep, Workers
<1>4. ASSUME NEW w \in Receivers, NEW s \in Sequences, RecordEvent(w, s)
      PROVE  OInv'
  BY <1>4, RecordEventKeeps DEF Workers
<1>5. ASSUME NEW w \in Receivers, WebhookStep(w)
      PROVE  OInv'
  BY <1>5, FindAttemptKeeps, ReadForPaidKeeps, VerifyAttemptKeeps, FindRecoveryKeeps,
     CommitPaidKeeps, AcknowledgeEventKeeps
     DEF WebhookStep, Workers
<1>6. ASSUME NEW w \in Workers, Fail(w)
      PROVE  OInv'
  BY <1>6, FailKeeps
<1>7. ASSUME NEW c \in Conns, ChangeConnection(c)
      PROVE  OInv'
  BY <1>7, AroundKeeps DEF ChangeConnection, OInv, TypeOK
<1>8. ASSUME NEW s \in Sequences, DecideCharge(s) \/ CustomerPays(s)
      PROVE  OInv'
  BY <1>8, AroundKeeps DEF DecideCharge, CustomerPays, OInv, TypeOK, Charges
<1> QED
  BY <1>1, <1>2, <1>3, <1>4, <1>5, <1>6, <1>7, <1>8 DEF Next

LEMMA Inductive == Spec => []OInv
<1>1. OInv /\ [Next]_vars => OInv'
  BY NextKeeps, StutterKeeps
<1> QED
  BY InitHolds, <1>1, PTL DEF Spec

\* However reconciliations overlap, a fallback never goes back to a connection the
\* payment was tried at before (executeRouting).
THEOREM DifferentConnections == Spec => []ConnectionsDiffer
<1>1. OInv => ConnectionsDiffer
  BY DEF OInv
<1> QED
  BY Inductive, <1>1, PTL

\* However reconciliations overlap, no attempt is sent to its provider twice
\* (executeRouting).
THEOREM SentOnceOverlapping == Spec => []AttemptSentOnce
<1>1. OInv => AttemptSentOnce
  BY DEF OInv, Knows, ClaimSteps, AttemptSentOnce
<1> QED
  BY Inductive, <1>1, PTL

-----------------------------------------------------------------------------
(* What is stored is so.  The handlers overwrite each other's rows, but     *)
(* every copy they write is of something that happened, and a charge that   *)
(* is there, or never will be, stays so.                                    *)

Backed(s) == s \in Sequences /\ charge[s] \in {"live", "paid"}

\* A row of attempt s claims no more than is so.
Tells(row, s) ==
    /\ row.identified \/ row.status = "succeeded" => Backed(s)
    /\ row.status = "failed_safe" => charge[s] = "none"

RowsTell == \A s \in Sequences : Tells(attempt[s], s)

PaymentTells ==
    /\ payment.presented # 0 => Backed(payment.presented)
    /\ PaidIsEarned
    /\ payment.recovered => payment.status = "paid" /\ recovery # NoRecovery

IsRecovery(failed, successful) ==
    /\ successful \in Sequences /\ charge[successful] = "paid"
    /\ failed \in 1..(successful - 1) /\ charge[failed] = "none"

LedgerTells ==
    /\ \A s \in Sequences :
          /\ s \in shown => Backed(s)
          /\ event[s] # "absent" => charge[s] = "paid"
    /\ "payment.paid" \in outbox => \E s \in Sequences : charge[s] = "paid"
    /\ "payment.recovered" \in outbox => recovery # NoRecovery
    /\ recovery # NoRecovery => IsRecovery(recovery.failed, recovery.successful)

\* Steps at which a handler's copy of the payment is not of a paid one.
UnpaidSteps == OwnerSteps \cup {"verify", "recoveries", "commit"}

\* What the copies of a handler say is so.
Truthful(w) ==
    LET l == local[w]
    IN  /\ l.pay.presented # 0 => Backed(l.pay.presented)
        /\ pc[w] \in UnpaidSteps => l.pay.status # "paid" /\ ~l.pay.recovered
        /\ pc[w] \in {"activate", "resolve", "create"} =>
              ~l.row.identified /\ l.row.status \in {"created", "requesting"}
        /\ pc[w] \in {"respond", "settle", "ask", "answered"} => Tells(l.row, l.pay.active)
        /\ pc[w] \in WebhookSteps => l.target \in Sequences /\ charge[l.target] = "paid"
        /\ pc[w] \in {"verify", "recoveries", "commit"} => l.pay.presented = l.target
        /\ pc[w] = "commit" /\ l.failed # 0 => IsRecovery(l.failed, l.target)

TInv ==
    /\ RowsTell
    /\ PaymentTells
    /\ LedgerTells
    /\ \A w \in Workers : Truthful(w)

-----------------------------------------------------------------------------
(* Frames.                                                                  *)

\* A charge that is there stays there, and one that is ruled out stays ruled out.
ChargesKept ==
    \A s \in Sequences :
        /\ charge[s] \in {"live", "paid"} => charge'[s] \in {"live", "paid"}
        /\ charge[s] = "paid" => charge'[s] = "paid"
        /\ charge[s] = "none" => charge'[s] = "none"

OthersStay(w) ==
    \A v \in Workers \ {w} : pc'[v] = pc[v] /\ local'[v] = local[v]

LEMMA TruthfulStays ==
    ASSUME OInv, NEW w \in Workers, Truthful(w), ChargesKept,
           pc'[w] = pc[w], local'[w] = local[w]
    PROVE  Truthful(w)'
<1> DEFINE l == local[w]
<1>1. \A s : Backed(s) => Backed(s)'
  BY DEF Backed, ChargesKept
<1>2. l \in Locals /\ Knows(w)
  BY Facts
<1>3. pc[w] \in {"respond", "settle", "ask", "answered"} => l.pay.active \in Sequences
  BY <1>2 DEF Knows, Holds, Recorded, ReconcileSteps
<1>4. pc[w] \in {"respond", "settle", "ask", "answered"}
         => (Tells(l.row, l.pay.active) => Tells(l.row, l.pay.active)')
  BY <1>1, <1>3 DEF Tells, ChargesKept
<1>5. IsRecovery(l.failed, l.target) => IsRecovery(l.failed, l.target)'
  BY BoundsAssumption DEF IsRecovery, ChargesKept, Sequences
<1> QED
  BY <1>1, <1>4, <1>5 DEF Truthful, Tells, IsRecovery, ChargesKept

LEMMA TruthKeeps ==
    ASSUME OInv, TInv, NEW w \in Workers, OthersStay(w), ChargesKept,
           RowsTell', PaymentTells', LedgerTells', Truthful(w)'
    PROVE  TInv'
<1>1. ASSUME NEW v \in Workers \ {w}
      PROVE  Truthful(v)'
  BY TruthfulStays DEF OthersStay, TInv
<1> QED
  BY <1>1 DEF TInv

LEMMA MovesOthers ==
    ASSUME OInv, NEW w \in Workers, NEW step, NEW l,
           pc' = [pc EXCEPT ![w] = step], local' = [local EXCEPT ![w] = l]
    PROVE  OthersStay(w) /\ pc'[w] = step /\ local'[w] = l
BY DEF OInv, TypeOK, OthersStay

LEMMA SameCharges ==
    ASSUME OInv, UNCHANGED charge
    PROVE  ChargesKept /\ \A s : Backed(s)' <=> Backed(s)
BY DEF ChargesKept, Backed

LEMMA LedgerStays ==
    ASSUME OInv, TInv, ChargesKept, UNCHANGED <<ledger, shown>>
    PROVE  LedgerTells'
<1>1. \A s : Backed(s) => Backed(s)'
  BY DEF Backed, ChargesKept
<1>2. recovery # NoRecovery => IsRecovery(recovery.failed, recovery.successful)'
  BY BoundsAssumption DEF TInv, LedgerTells, IsRecovery, ChargesKept, Sequences, ledger
<1>3. UNCHANGED <<recovery, outbox, event, shown>>
  BY DEF ledger
<1> QED
  BY <1>1, <1>2, <1>3 DEF TInv, LedgerTells, ChargesKept, IsRecovery

LEMMA PaymentStays ==
    ASSUME OInv, TInv, ChargesKept, UNCHANGED <<payment, recovery>>
    PROVE  PaymentTells'
<1>1. \A s : Backed(s) => Backed(s)'
  BY DEF Backed, ChargesKept
<1> QED
  BY <1>1 DEF TInv, PaymentTells, PaidIsEarned, ChargesKept

LEMMA RowsStay ==
    ASSUME OInv, TInv, ChargesKept, UNCHANGED attempt
    PROVE  RowsTell'
<1>1. \A s : Backed(s) => Backed(s)'
  BY DEF Backed, ChargesKept
<1> QED
  BY <1>1 DEF TInv, RowsTell, Tells, ChargesKept

\* A handler that reads, and whose copies are so.
LEMMA TruthReadKeeps ==
    ASSUME OInv, TInv, NEW w \in Workers, NEW step, NEW l,
           pc' = [pc EXCEPT ![w] = step], local' = [local EXCEPT ![w] = l],
           UNCHANGED <<payment, attempt, ledger, charge, shown>>,
           Truthful(w)'
    PROVE  TInv'
<1>1. OthersStay(w) /\ ChargesKept
  BY MovesOthers, SameCharges
<1>2. RowsTell' /\ PaymentTells' /\ LedgerTells'
  BY <1>1, RowsStay, PaymentStays, LedgerStays DEF ledger
<1> QED
  BY <1>1, <1>2, TruthKeeps

\* A handler that saves a payment that is not paid.
LEMMA TruthSaveKeeps ==
    ASSUME OInv, TInv, NEW w \in Workers, NEW step, NEW l,
           pc' = [pc EXCEPT ![w] = step], local' = [local EXCEPT ![w] = l],
           NEW p, SavePayment(p), p.status # "paid", ~p.recovered,
           p.presented # 0 => Backed(p.presented),
           UNCHANGED <<attempt, ledger, charge>>,
           Truthful(w)'
    PROVE  TInv'
<1>1. OthersStay(w) /\ ChargesKept /\ \A s : Backed(s)' <=> Backed(s)
  BY MovesOthers, SameCharges
<1>2. RowsTell'
  BY <1>1, RowsStay
<1>3. PaymentTells'
  BY <1>1 DEF PaymentTells, PaidIsEarned, SavePayment
<1>4. shown' = IF p.presented = 0 THEN shown ELSE shown \cup {p.presented}
  BY DEF SavePayment
<1>5. UNCHANGED <<recovery, outbox, event>>
  BY DEF ledger
<1>6. LedgerTells'
  BY <1>1, <1>4, <1>5 DEF TInv, LedgerTells, IsRecovery
<1> QED
  BY <1>1, <1>2, <1>3, <1>6, TruthKeeps

\* A handler that saves an attempt as it is.
LEMMA TruthAttemptKeeps ==
    ASSUME OInv, TInv, NEW w \in Workers, NEW step, NEW l,
           pc' = [pc EXCEPT ![w] = step], local' = [local EXCEPT ![w] = l],
           NEW n \in Sequences, NEW row, SaveAttempt(n, row), Tells(row, n),
           UNCHANGED <<payment, ledger, charge, shown>>,
           Truthful(w)'
    PROVE  TInv'
<1>1. OthersStay(w) /\ ChargesKept /\ \A s : Backed(s)' <=> Backed(s)
  BY MovesOthers, SameCharges
<1>2. attempt \in [Sequences -> AttemptRows]
  BY DEF OInv, TypeOK
<1>3. RowsTell'
  BY <1>1, <1>2 DEF TInv, RowsTell, Tells, SaveAttempt
<1>4. PaymentTells' /\ LedgerTells'
  BY <1>1, PaymentStays, LedgerStays DEF ledger
<1> QED
  BY <1>1, <1>3, <1>4, TruthKeeps

\* A handler that returns keeps no copies.
LEMMA ReturnIsTruthful ==
    ASSUME OInv, NEW w \in Workers, Return(w)
    PROVE  /\ pc' = [pc EXCEPT ![w] = AfterReturn(w)]
           /\ local' = [local EXCEPT ![w] = NoLocals]
           /\ Truthful(w)'
<1>1. /\ pc' = [pc EXCEPT ![w] = AfterReturn(w)]
      /\ local' = [local EXCEPT ![w] = NoLocals]
  BY DEF Return, Goto, AfterReturn
<1>2. pc'[w] \in {"replied", "idle"} /\ local'[w] = NoLocals
  BY <1>1 DEF OInv, TypeOK, AfterReturn
<1>3. NoLocals.pay.presented = 0
  BY Zenon DEF NoLocals, NoPayment
<1>4. Truthful(w)'
  BY <1>2, <1>3 DEF Truthful, WebhookSteps, UnpaidSteps, OwnerSteps, RoutingSteps,
                    ReconcileSteps
<1> QED
  BY <1>1, <1>4

LEMMA TruthLeaveKeeps ==
    ASSUME OInv, TInv, NEW w \in Workers, Return(w),
           UNCHANGED <<payment, attempt, ledger, charge, shown>>
    PROVE  TInv'
BY ReturnIsTruthful, TruthReadKeeps

-----------------------------------------------------------------------------
(* Creating and routing.                                                    *)

\* Where nothing but the copy of the payment matters.
PlainSteps ==
    {"created", "list", "history", "select", "unresolved", "reattempt", "reroute"}

UnpaidCopy(w) ==
    LET p == local[w].pay
    IN  /\ p.status # "paid" /\ ~p.recovered
        /\ p.presented # 0 => Backed(p.presented)

LEMMA PlainIsTruthful ==
    ASSUME NEW w \in Workers, pc'[w] \in PlainSteps, UnpaidCopy(w)'
    PROVE  Truthful(w)'
BY DEF UnpaidCopy, Truthful, PlainSteps, UnpaidSteps, OwnerSteps, RoutingSteps, ReconcileSteps,
       WebhookSteps

\* What an owner's copy of the payment is known to be.
LEMMA OwnerFacts ==
    ASSUME OInv, TInv, NEW w \in Workers, pc[w] \in OwnerSteps
    PROVE  LET p == local[w].pay
           IN  /\ local[w] \in Locals /\ p \in PaymentRows
               /\ p.status # "paid" /\ ~p.recovered
               /\ p.presented # 0 => Backed(p.presented)
<1>1. local[w] \in Locals /\ Truthful(w) /\ pc[w] \in UnpaidSteps
  BY Facts DEF TInv, UnpaidSteps
<1> QED
  BY <1>1 DEF Truthful, Locals

LEMMA TruthGetOrCreatePayment ==
    ASSUME OInv, TInv, NEW w \in Creators, NEW f \in Fingerprints, GetOrCreatePayment(w, f)
    PROVE  TInv'
<1> DEFINE row == [NoPayment EXCEPT !.status = "created", !.fingerprint = f]
<1>w. w \in Workers /\ local[w] \in Locals /\ Truthful(w)
  BY Facts DEF Workers, TInv
<1>1. CASE payment.status = "absent"
  <2> DEFINE l == [local[w] EXCEPT !.pay = row, !.request = f]
  <2>1. row.status = "created" /\ row.presented = 0 /\ ~row.recovered
    BY DEF NoPayment
  <2>2. /\ SavePayment(row)
        /\ local' = [local EXCEPT ![w] = l]
        /\ pc' = [pc EXCEPT ![w] = "created"]
        /\ UNCHANGED <<attempt, ledger, charge>>
    BY <1>1, <1>w DEF GetOrCreatePayment, Goto, OInv, TypeOK, world
  <2>3. l.pay = row
    BY <1>w DEF Locals
  <2> HIDE DEF row, l
  <2>4. pc'[w] = "created" /\ local'[w] = l
    BY <1>w, <2>2 DEF OInv, TypeOK
  <2>5. Truthful(w)'
    BY <1>w, <2>1, <2>3, <2>4, PlainIsTruthful DEF PlainSteps, UnpaidCopy
  <2> QED
    BY <1>w, <2>1, <2>2, <2>5, TruthSaveKeeps
<1>2. CASE payment.status # "absent"
  <2> DEFINE l == [local[w] EXCEPT !.request = f]
  <2>1. /\ local' = [local EXCEPT ![w] = l]
        /\ pc' = [pc EXCEPT ![w] = "existing"]
        /\ UNCHANGED <<payment, shown, attempt, ledger, charge>>
    BY <1>2, <1>w DEF GetOrCreatePayment, Goto, OInv, TypeOK, world
  <2>2. l.pay = local[w].pay
    BY <1>w DEF Locals
  <2> HIDE DEF l
  <2>3. pc'[w] = "existing" /\ local'[w] = l
    BY <1>w, <2>1 DEF OInv, TypeOK
  <2>4. Truthful(w)'
    BY <1>w, <2>1, <2>2, <2>3
       DEF Truthful, Backed, UnpaidSteps, OwnerSteps, RoutingSteps, ReconcileSteps,
         WebhookSteps
  <2> QED
    BY <1>w, <2>1, <2>4, TruthReadKeeps
<1> QED
  BY <1>1, <1>2

LEMMA TruthReadExisting ==
    ASSUME OInv, TInv, NEW w \in Workers, ReadExisting(w)
    PROVE  TInv'
<1>1. /\ pc' = [pc EXCEPT ![w] = Answer(w)]
      /\ local' = [local EXCEPT ![w] = NoLocals]
      /\ UNCHANGED <<payment, attempt, ledger, charge, shown>>
  BY DEF ReadExisting, Goto, OInv, TypeOK, world
<1>2. NoLocals.pay.presented = 0 /\ Answer(w) \in {"replied", "conflict"}
  BY DEF NoLocals, NoPayment, Answer
<1>3. pc'[w] \in {"replied", "conflict"} /\ local'[w] = NoLocals
  BY <1>1, <1>2 DEF OInv, TypeOK
<1>4. Truthful(w)'
  BY <1>1, <1>2, <1>3
     DEF Truthful, Backed, UnpaidSteps, OwnerSteps, RoutingSteps, ReconcileSteps,
         WebhookSteps
<1> QED
  BY <1>1, <1>4, TruthReadKeeps

LEMMA TruthStartRouting ==
    ASSUME OInv, TInv, NEW w \in Workers, StartRouting(w)
    PROVE  TInv'
<1> DEFINE p == [local[w].pay EXCEPT !.status = "routing"]
           l == [local[w] EXCEPT !.pay = p]
<1>1. pc[w] \in OwnerSteps
  BY DEF StartRouting, OwnerSteps
<1>2. /\ SavePayment(p)
      /\ pc' = [pc EXCEPT ![w] = "list"]
      /\ local' = [local EXCEPT ![w] = l]
      /\ UNCHANGED <<attempt, ledger, charge>>
  BY DEF StartRouting, Goto, OInv, TypeOK, world
<1>3. /\ p.status = "routing" /\ ~p.recovered
      /\ p.presented # 0 => Backed(p.presented)
      /\ l.pay = p
  BY <1>1, OwnerFacts DEF PaymentRows, Locals
<1> HIDE DEF p, l
<1>4. pc'[w] = "list" /\ local'[w] = l
  BY <1>2 DEF OInv, TypeOK
<1>5. Truthful(w)'
  BY <1>2, <1>3, <1>4, PlainIsTruthful DEF PlainSteps, UnpaidCopy, Backed
<1> QED
  BY <1>2, <1>3, <1>5, TruthSaveKeeps

LEMMA TruthListConnections ==
    ASSUME OInv, TInv, NEW w \in Workers, ListConnections(w)
    PROVE  TInv'
<1> DEFINE l == [local[w] EXCEPT !.connections = eligible]
<1>1. pc[w] \in OwnerSteps
  BY DEF ListConnections, OwnerSteps, RoutingSteps
<1>2. /\ pc' = [pc EXCEPT ![w] = "history"]
      /\ local' = [local EXCEPT ![w] = l]
      /\ UNCHANGED <<payment, attempt, ledger, charge, shown>>
  BY DEF ListConnections, Goto, OInv, TypeOK, world
<1>3. l.pay = local[w].pay
  BY Facts DEF Locals
<1> HIDE DEF l
<1>4. pc'[w] = "history" /\ local'[w] = l
  BY <1>2 DEF OInv, TypeOK
<1>5. Truthful(w)'
  BY <1>1, <1>2, <1>3, <1>4, OwnerFacts, PlainIsTruthful DEF PlainSteps, UnpaidCopy, Backed
<1> QED
  BY <1>2, <1>5, TruthReadKeeps

LEMMA TruthListAttempts ==
    ASSUME OInv, TInv, NEW w \in Workers, ListAttempts(w)
    PROVE  TInv'
<1> DEFINE l == [local[w] EXCEPT !.count = Cardinality(Recorded), !.excluded = Attempted]
<1>1. pc[w] \in OwnerSteps
  BY DEF ListAttempts, OwnerSteps, RoutingSteps
<1>2. /\ pc' = [pc EXCEPT ![w] = "select"]
      /\ local' = [local EXCEPT ![w] = l]
      /\ UNCHANGED <<payment, attempt, ledger, charge, shown>>
  BY DEF ListAttempts, Goto, OInv, TypeOK, world
<1>3. l.pay = local[w].pay
  BY Facts DEF Locals
<1> HIDE DEF l
<1>4. pc'[w] = "select" /\ local'[w] = l
  BY <1>2 DEF OInv, TypeOK
<1>5. Truthful(w)'
  BY <1>1, <1>2, <1>3, <1>4, OwnerFacts, PlainIsTruthful DEF PlainSteps, UnpaidCopy, Backed
<1> QED
  BY <1>2, <1>5, TruthReadKeeps

LEMMA TruthAddAttempt ==
    ASSUME OInv, TInv, NEW w \in Workers, AddAttempt(w)
    PROVE  TInv'
<1> DEFINE n == local[w].count + 1
<1>1. PICK c \in local[w].connections \ local[w].excluded :
         LET row == [NoAttempt EXCEPT !.status = "created", !.conn = c]
         IN  /\ SaveAttempt(n, row)
             /\ local' = [local EXCEPT ![w].row = row]
  BY ZenonT(40) DEF AddAttempt
<1> DEFINE row == [NoAttempt EXCEPT !.status = "created", !.conn = c]
           l == [local[w] EXCEPT !.row = row]
<1>2. /\ pc[w] \in OwnerSteps
      /\ pc' = [pc EXCEPT ![w] = "activate"]
      /\ local' = [local EXCEPT ![w] = l]
      /\ SaveAttempt(n, row)
      /\ UNCHANGED <<payment, ledger, charge, shown>>
  BY <1>1 DEF AddAttempt, Goto, OInv, TypeOK, world, OwnerSteps, RoutingSteps
<1>3. local[w] \in Locals /\ n \in Sequences
  BY Facts, BoundsAssumption DEF AddAttempt, Locals, AttemptIds, Sequences
<1>4. row.status = "created" /\ ~row.identified
  BY DEF NoAttempt
<1> HIDE DEF row
<1>5. l.pay = local[w].pay /\ l.row = row
  BY <1>3 DEF Locals
<1> HIDE DEF l, n
<1>6. pc'[w] = "activate" /\ local'[w] = l
  BY <1>2 DEF OInv, TypeOK
<1>7. Truthful(w)'
  BY <1>2, <1>4, <1>5, <1>6, OwnerFacts
     DEF Truthful, Backed, UnpaidSteps, OwnerSteps, RoutingSteps, ReconcileSteps,
         WebhookSteps
<1>8. Tells(row, n)
  BY <1>4 DEF Tells
<1> QED
  BY <1>2, <1>3, <1>7, <1>8, TruthAttemptKeeps

LEMMA TruthGiveUp ==
    ASSUME OInv, TInv, NEW w \in Workers, GiveUp(w)
    PROVE  TInv'
<1> DEFINE p == [local[w].pay EXCEPT
                    !.status = "failed",
                    !.failure = IF local[w].count = MaxAttempts
                                THEN "fallback_budget_exhausted" ELSE "no_eligible_provider"]
<1>1. pc[w] \in OwnerSteps /\ SavePayment(p) /\ Return(w) /\ UNCHANGED <<attempt, ledger, charge>>
  BY DEF GiveUp, world, OwnerSteps, RoutingSteps
<1>2. /\ p.status = "failed" /\ ~p.recovered
      /\ p.presented # 0 => Backed(p.presented)
  BY <1>1, OwnerFacts DEF PaymentRows
<1> HIDE DEF p
<1> QED
  BY <1>1, <1>2, ReturnIsTruthful, TruthSaveKeeps

LEMMA TruthActivateAttempt ==
    ASSUME OInv, TInv, NEW w \in Workers, ActivateAttempt(w)
    PROVE  TInv'
<1> DEFINE p == [local[w].pay EXCEPT !.active = local[w].count + 1]
           l == [local[w] EXCEPT !.pay = p]
<1>1. /\ pc[w] = "activate" /\ pc[w] \in OwnerSteps
      /\ SavePayment(p)
      /\ local' = [local EXCEPT ![w] = l]
      /\ pc' = [pc EXCEPT ![w] = "resolve"]
      /\ UNCHANGED <<attempt, ledger, charge>>
  BY DEF ActivateAttempt, Goto, OInv, TypeOK, world, OwnerSteps, RoutingSteps
<1>2. /\ p.status # "paid" /\ ~p.recovered
      /\ p.presented # 0 => Backed(p.presented)
      /\ l.pay = p /\ l.row = local[w].row
  BY <1>1, OwnerFacts DEF PaymentRows, Locals
<1>3. ~l.row.identified /\ l.row.status \in {"created", "requesting"}
  BY <1>1, <1>2 DEF TInv, Truthful
<1> HIDE DEF p, l
<1>4. pc'[w] = "resolve" /\ local'[w] = l
  BY <1>1 DEF OInv, TypeOK
<1>5. Truthful(w)'
  BY <1>1, <1>2, <1>3, <1>4
     DEF Truthful, Backed, UnpaidSteps, OwnerSteps, RoutingSteps, ReconcileSteps,
         WebhookSteps
<1> QED
  BY <1>1, <1>2, <1>5, TruthSaveKeeps

LEMMA TruthResolveFails ==
    ASSUME OInv, TInv, NEW w \in Workers, ResolveFails(w)
    PROVE  TInv'
<1> DEFINE n == local[w].pay.active
           row == [local[w].row EXCEPT !.status = "failed_terminal"]
<1>1. /\ pc[w] = "resolve" /\ pc[w] \in OwnerSteps
      /\ SaveAttempt(n, row) \/ UNCHANGED attempt
      /\ pc' = [pc EXCEPT ![w] = "unresolved"]
      /\ local' = [local EXCEPT ![w] = local[w]] /\ local' = local
      /\ UNCHANGED <<payment, ledger, charge, shown>>
  BY DEF ResolveFails, Goto, OInv, TypeOK, OwnerSteps, RoutingSteps
<1>2. local[w] \in Locals /\ n \in Sequences
  BY <1>1, Facts DEF Knows, ClaimSteps, Holds, Recorded
<1>3. row.status = "failed_terminal" /\ ~row.identified
  BY <1>1, <1>2 DEF TInv, Truthful, Locals, AttemptRows
<1> HIDE DEF row
<1>4. pc'[w] = "unresolved"
  BY <1>1 DEF OInv, TypeOK
<1>5. Truthful(w)'
  BY <1>1, <1>4, OwnerFacts, PlainIsTruthful DEF PlainSteps, UnpaidCopy, Backed
<1>6. Tells(row, n)
  BY <1>3 DEF Tells
<1> HIDE DEF n
<1>7. CASE SaveAttempt(n, row)
  BY <1>1, <1>2, <1>5, <1>6, <1>7, TruthAttemptKeeps
<1>8. CASE UNCHANGED attempt
  BY <1>1, <1>5, <1>8, TruthReadKeeps
<1> QED
  BY <1>1, <1>7, <1>8

LEMMA TruthFailUnresolved ==
    ASSUME OInv, TInv, NEW w \in Workers, FailUnresolved(w)
    PROVE  TInv'
<1> DEFINE p == [local[w].pay EXCEPT !.status = "failed", !.failure = "adapter_not_registered"]
<1>1. pc[w] \in OwnerSteps /\ SavePayment(p) /\ Return(w) /\ UNCHANGED <<attempt, ledger, charge>>
  BY DEF FailUnresolved, world, OwnerSteps, RoutingSteps
<1>2. /\ p.status = "failed" /\ ~p.recovered
      /\ p.presented # 0 => Backed(p.presented)
  BY <1>1, OwnerFacts DEF PaymentRows
<1> HIDE DEF p
<1> QED
  BY <1>1, <1>2, ReturnIsTruthful, TruthSaveKeeps

LEMMA TruthMarkRequesting ==
    ASSUME OInv, TInv, NEW w \in Workers, MarkRequesting(w)
    PROVE  TInv'
<1> DEFINE n == local[w].pay.active
           row == [local[w].row EXCEPT !.status = "requesting"]
           l == [local[w] EXCEPT !.row = row]
<1>1. /\ pc[w] = "resolve" /\ pc[w] \in OwnerSteps
      /\ SaveAttempt(n, row)
      /\ pc' = [pc EXCEPT ![w] = "create"]
      /\ local' = [local EXCEPT ![w] = l]
      /\ UNCHANGED <<payment, ledger, charge, shown>>
  BY DEF MarkRequesting, Goto, OInv, TypeOK, world, OwnerSteps, RoutingSteps
<1>2. local[w] \in Locals /\ n \in Sequences
  BY <1>1, Facts DEF Knows, ClaimSteps, Holds, Recorded
<1>3. row.status = "requesting" /\ ~row.identified
  BY <1>1, <1>2 DEF TInv, Truthful, Locals, AttemptRows
<1> HIDE DEF row
<1>4. l.pay = local[w].pay /\ l.row = row
  BY <1>2 DEF Locals
<1> HIDE DEF l, n
<1>5. pc'[w] = "create" /\ local'[w] = l
  BY <1>1 DEF OInv, TypeOK
<1>6. Truthful(w)'
  BY <1>1, <1>3, <1>4, <1>5, OwnerFacts
     DEF Truthful, Backed, UnpaidSteps, OwnerSteps, RoutingSteps, ReconcileSteps,
         WebhookSteps
<1>7. Tells(row, n)
  BY <1>3 DEF Tells
<1> QED
  BY <1>1, <1>2, <1>6, <1>7, TruthAttemptKeeps

\* The charge that is decided on is of an attempt that was not sent before, so that
\* nothing that was known of a charge changes.
LEMMA TruthCreatePix ==
    ASSUME OInv, TInv, NEW w \in Workers, CreatePix(w)
    PROVE  TInv'
<1>0. PICK n : n = local[w].pay.active
  OBVIOUS
<1>1. /\ pc[w] = "create" /\ pc[w] \in OwnerSteps
      /\ local[w] \in Locals /\ n \in Sequences /\ charge[n] = "unsent"
  BY <1>0, Facts DEF CreatePix, Knows, ClaimSteps, Holds, Recorded, OwnerSteps, RoutingSteps
<1>2. PICK outcome \in {"succeeded", "failed_safe", "unknown", "failed_terminal"} :
         /\ \E c \in ChargeAfter(outcome) : charge' = [charge EXCEPT ![n] = c]
         /\ LET row == [local[w].row EXCEPT !.status = outcome,
                                            !.identified = (outcome = "succeeded")]
            IN  local' = [local EXCEPT ![w].row = row]
  BY <1>0, ZenonT(40) DEF CreatePix
<1>3. PICK c \in ChargeAfter(outcome) : charge' = [charge EXCEPT ![n] = c]
  BY <1>2
<1>r. PICK row : row = [local[w].row EXCEPT !.status = outcome,
                                            !.identified = (outcome = "succeeded")]
  OBVIOUS
<1> DEFINE l == [local[w] EXCEPT !.row = row]
<1>4. /\ pc' = [pc EXCEPT ![w] = "respond"]
      /\ local' = [local EXCEPT ![w] = l]
      /\ UNCHANGED <<payment, attempt, ledger, shown>>
  BY <1>2, <1>r DEF CreatePix, Goto, OInv, TypeOK
<1>5. row.status = outcome /\ row.identified = (outcome = "succeeded")
  BY <1>1, <1>r DEF Locals, AttemptRows
<1>6. l.pay = local[w].pay /\ l.row = row
  BY <1>1 DEF Locals
<1> HIDE DEF l
<1>7. charge'[n] = c /\ \A s \in Sequences \ {n} : charge'[s] = charge[s]
  BY <1>1, <1>3 DEF OInv, TypeOK
<1>8. ChargesKept
  BY <1>1, <1>7 DEF ChargesKept
<1>9. Tells(row, n)'
  BY <1>1, <1>5, <1>7 DEF Tells, Backed, ChargeAfter
<1>10. pc'[w] = "respond" /\ local'[w] = l
  BY <1>4 DEF OInv, TypeOK
<1>11. UnpaidCopy(w)'
  <2>1. \A s : Backed(s) => Backed(s)'
    BY <1>8 DEF Backed, ChargesKept
  <2> QED
    BY <1>1, <1>6, <1>10, <2>1, OwnerFacts DEF UnpaidCopy
<1>12. Truthful(w)'
  <2>1. local'[w].pay.active = n
    BY <1>0, <1>6, <1>10
  <2> QED
    BY <2>1, <1>6, <1>9, <1>10, <1>11
       DEF Truthful, Tells, Backed, UnpaidCopy, UnpaidSteps, OwnerSteps, RoutingSteps,
           ReconcileSteps, WebhookSteps
<1>13. OthersStay(w)
  BY <1>4, MovesOthers
<1>14. RowsTell' /\ PaymentTells' /\ LedgerTells'
  BY <1>4, <1>8, RowsStay, PaymentStays, LedgerStays DEF ledger
<1> QED
  BY <1>8, <1>12, <1>13, <1>14, TruthKeeps

LEMMA TruthSaveOutcome ==
    ASSUME OInv, TInv, NEW w \in Workers, SaveOutcome(w)
    PROVE  TInv'
<1> DEFINE n == local[w].pay.active
           row == local[w].row
<1>1. /\ pc[w] = "respond" /\ pc[w] \in OwnerSteps
      /\ local[w] \in Locals /\ n \in Sequences /\ Tells(row, n)
      /\ SaveAttempt(n, row)
      /\ UNCHANGED <<payment, ledger, charge, shown>>
  BY Facts DEF SaveOutcome, Knows, Holds, Recorded, TInv, Truthful, world, OwnerSteps,
               RoutingSteps
<1>2. UnpaidCopy(w)
  BY <1>1, OwnerFacts DEF UnpaidCopy
<1>3. CASE FallsBack(row.status)
  <2> DEFINE l == [local[w] EXCEPT !.count = @ + 1, !.excluded = @ \cup {row.conn}]
  <2>1. /\ local' = [local EXCEPT ![w] = l]
        /\ pc' = [pc EXCEPT ![w] = "select"]
    BY <1>3 DEF SaveOutcome, Goto, OInv, TypeOK
  <2>2. l.pay = local[w].pay
    BY <1>1 DEF Locals
  <2> HIDE DEF l
  <2>3. pc'[w] = "select" /\ local'[w] = l
    BY <2>1 DEF OInv, TypeOK
  <2>4. Truthful(w)'
    BY <1>1, <1>2, <2>2, <2>3, PlainIsTruthful DEF PlainSteps, UnpaidCopy, Backed
  <2> QED
    BY <1>1, <2>1, <2>4, TruthAttemptKeeps
<1>4. CASE ~FallsBack(row.status)
  <2>1. /\ local' = [local EXCEPT ![w] = local[w]] /\ local' = local
        /\ pc' = [pc EXCEPT ![w] = "settle"]
    BY <1>4 DEF SaveOutcome, Goto, OInv, TypeOK
  <2>2. pc'[w] = "settle"
    BY <2>1 DEF OInv, TypeOK
  <2>3. Truthful(w)'
    BY <1>1, <1>2, <2>1, <2>2
       DEF Truthful, Tells, Backed, UnpaidCopy, UnpaidSteps, OwnerSteps, RoutingSteps,
           ReconcileSteps, WebhookSteps
  <2> QED
    BY <1>1, <2>1, <2>3, TruthAttemptKeeps
<1> QED
  BY <1>3, <1>4

\* A Pix is presented only when the handler has been told that its charge exists.
LEMMA TruthSettlePayment ==
    ASSUME OInv, TInv, NEW w \in Workers, SettlePayment(w)
    PROVE  TInv'
<1> DEFINE p == Settled(local[w].pay, local[w].row.status)
<1>1. /\ pc[w] = "settle" /\ pc[w] \in OwnerSteps
      /\ SavePayment(p) /\ Return(w) /\ UNCHANGED <<attempt, ledger, charge>>
  BY DEF SettlePayment, world, OwnerSteps, RoutingSteps
<1>2. Tells(local[w].row, local[w].pay.active)
  BY <1>1 DEF TInv, Truthful
<1>3. UnpaidCopy(w) /\ local[w].pay \in PaymentRows
  BY <1>1, OwnerFacts DEF UnpaidCopy
<1>4. /\ p.status # "paid" /\ ~p.recovered
      /\ p.presented # 0 => Backed(p.presented)
  BY <1>2, <1>3 DEF UnpaidCopy, Tells, Settled, PaymentRows
<1> HIDE DEF p
<1> QED
  BY <1>1, <1>4, ReturnIsTruthful, TruthSaveKeeps

-----------------------------------------------------------------------------
(* Reconciling.                                                             *)

LEMMA TruthReadForReconcile ==
    ASSUME OInv, TInv, NEW w \in Workers, ReadForReconcile(w)
    PROVE  TInv'
<1> DEFINE l == [local[w] EXCEPT !.pay = payment]
<1>1. /\ pc' = [pc EXCEPT ![w] = "reattempt"]
      /\ local' = [local EXCEPT ![w] = l]
      /\ payment.status = "reconciling"
      /\ UNCHANGED <<payment, attempt, ledger, charge, shown>>
  BY DEF ReadForReconcile, Reconcilable, Goto, OInv, TypeOK, world
<1>2. l.pay = payment
  BY Facts DEF Locals
<1> HIDE DEF l
<1>3. pc'[w] = "reattempt" /\ local'[w] = l
  BY <1>1 DEF OInv, TypeOK
<1>4. Truthful(w)'
  BY <1>1, <1>2, <1>3, PlainIsTruthful
     DEF PlainSteps, UnpaidCopy, Backed, TInv, PaymentTells
<1> QED
  BY <1>1, <1>4, TruthReadKeeps

LEMMA TruthReadUnknownAttempt ==
    ASSUME OInv, TInv, NEW w \in Workers, ReadUnknownAttempt(w)
    PROVE  TInv'
<1> DEFINE n == local[w].pay.active
           row == attempt[n]
<1>1. /\ pc[w] \in OwnerSteps /\ local[w] \in Locals /\ n \in Sequences
      /\ UNCHANGED <<payment, attempt, ledger, charge, shown>>
  BY Facts DEF ReadUnknownAttempt, Knows, ReconcileSteps, OwnerSteps, world
<1>2. CASE Unresolved(row)
  <2> DEFINE l == [local[w] EXCEPT !.row = row]
  <2>1. /\ local' = [local EXCEPT ![w] = l]
        /\ pc' = [pc EXCEPT ![w] = "ask"]
    BY <1>2 DEF ReadUnknownAttempt, Goto, OInv, TypeOK
  <2>2. l.row = row /\ l.pay = local[w].pay
    BY <1>1 DEF Locals
  <2>3. Tells(row, n)
    BY <1>1 DEF TInv, RowsTell
  <2> HIDE DEF l, row
  <2>4. pc'[w] = "ask" /\ local'[w] = l
    BY <2>1 DEF OInv, TypeOK
  <2>5. UnpaidCopy(w)
    BY <1>1, OwnerFacts DEF UnpaidCopy
  <2>6. Truthful(w)'
    BY <1>1, <2>2, <2>3, <2>4, <2>5
       DEF Truthful, Tells, Backed, UnpaidCopy, UnpaidSteps, OwnerSteps, RoutingSteps,
           ReconcileSteps, WebhookSteps
  <2> QED
    BY <1>1, <2>1, <2>6, TruthReadKeeps
<1>3. CASE ~Unresolved(row)
  BY <1>1, <1>3, TruthLeaveKeeps DEF ReadUnknownAttempt
<1> QED
  BY <1>2, <1>3

\* A provider that answers "created" or "not created" states a fact.
LEMMA TruthAskProvider ==
    ASSUME OInv, TInv, NEW w \in Workers, AskProvider(w)
    PROVE  TInv'
<1> DEFINE n == local[w].pay.active
<1>1. /\ pc[w] = "ask" /\ pc[w] \in OwnerSteps /\ local[w] \in Locals /\ n \in Sequences
      /\ UNCHANGED <<payment, attempt, ledger, charge, shown>>
  BY Facts DEF AskProvider, Knows, ReconcileSteps, OwnerSteps, world
<1>2. PICK answer \in Answers(n) :
         LET row == [local[w].row EXCEPT !.status = answer,
                                         !.identified = @ \/ answer = "succeeded"]
         IN  local' = [local EXCEPT ![w].row = row]
  BY ZenonT(40) DEF AskProvider
<1> DEFINE row == [local[w].row EXCEPT !.status = answer,
                                       !.identified = @ \/ answer = "succeeded"]
           l == [local[w] EXCEPT !.row = row]
<1>3. /\ local' = [local EXCEPT ![w] = l]
      /\ pc' = [pc EXCEPT ![w] = "answered"]
  BY <1>2 DEF AskProvider, Goto, OInv, TypeOK
<1>4. Tells(local[w].row, n)
  BY <1>1 DEF TInv, Truthful
<1>5. /\ row.status = answer
      /\ row.identified => local[w].row.identified \/ answer = "succeeded"
  BY <1>1 DEF Locals, AttemptRows
<1> HIDE DEF row
<1>6. l.row = row /\ l.pay = local[w].pay
  BY <1>1 DEF Locals
<1> HIDE DEF l
<1>7. Tells(row, n)
  BY <1>1, <1>4, <1>5 DEF Tells, Backed, Answers
<1>8. pc'[w] = "answered" /\ local'[w] = l
  BY <1>3 DEF OInv, TypeOK
<1>9. UnpaidCopy(w)
  BY <1>1, OwnerFacts DEF UnpaidCopy
<1>10. Truthful(w)'
  BY <1>1, <1>6, <1>7, <1>8, <1>9
     DEF Truthful, Tells, Backed, UnpaidCopy, UnpaidSteps, OwnerSteps, RoutingSteps,
         ReconcileSteps, WebhookSteps
<1> QED
  BY <1>1, <1>3, <1>10, TruthReadKeeps

LEMMA TruthSaveAnswer ==
    ASSUME OInv, TInv, NEW w \in Workers, SaveAnswer(w)
    PROVE  TInv'
<1> DEFINE n == local[w].pay.active
           row == local[w].row
<1>1. /\ pc[w] = "answered" /\ pc[w] \in OwnerSteps
      /\ local[w] \in Locals /\ n \in Sequences /\ Tells(row, n)
      /\ SaveAttempt(n, row)
      /\ UNCHANGED <<payment, ledger, charge, shown>>
  BY Facts DEF SaveAnswer, Knows, TInv, Truthful, world, OwnerSteps, ReconcileSteps
<1>2. UnpaidCopy(w)
  BY <1>1, OwnerFacts DEF UnpaidCopy
<1>3. CASE row.status = "unknown"
  <2>1. Return(w)
    BY <1>3 DEF SaveAnswer
  <2> QED
    BY <1>1, <2>1, ReturnIsTruthful, TruthAttemptKeeps
<1>4. CASE row.status # "unknown"
  <2> DEFINE step == IF row.status = "failed_safe" THEN "reroute" ELSE "settle"
  <2>1. /\ local' = [local EXCEPT ![w] = local[w]] /\ local' = local
        /\ pc' = [pc EXCEPT ![w] = step]
    BY <1>4 DEF SaveAnswer, Goto, OInv, TypeOK
  <2>2. step \in {"reroute", "settle"}
    OBVIOUS
  <2> HIDE DEF step
  <2>3. pc'[w] = step
    BY <2>1 DEF OInv, TypeOK
  <2>4. Truthful(w)'
    BY <1>1, <1>2, <2>1, <2>2, <2>3
       DEF Truthful, Tells, Backed, UnpaidCopy, UnpaidSteps, OwnerSteps, RoutingSteps,
           ReconcileSteps, WebhookSteps
  <2> QED
    BY <1>1, <2>1, <2>4, TruthAttemptKeeps
<1> QED
  BY <1>3, <1>4

LEMMA TruthReroute ==
    ASSUME OInv, TInv, NEW w \in Workers, Reroute(w)
    PROVE  TInv'
<1> DEFINE p == [local[w].pay EXCEPT !.status = "routing", !.failure = ""]
           l == [local[w] EXCEPT !.pay = p]
<1>1. pc[w] \in OwnerSteps
  BY DEF Reroute, OwnerSteps, ReconcileSteps
<1>2. /\ SavePayment(p)
      /\ pc' = [pc EXCEPT ![w] = "list"]
      /\ local' = [local EXCEPT ![w] = l]
      /\ UNCHANGED <<attempt, ledger, charge>>
  BY DEF Reroute, Goto, OInv, TypeOK, world
<1>3. /\ p.status = "routing" /\ ~p.recovered
      /\ p.presented # 0 => Backed(p.presented)
      /\ l.pay = p
  BY <1>1, OwnerFacts, Zenon DEF PaymentRows, Locals
<1> HIDE DEF p, l
<1>4. pc'[w] = "list" /\ local'[w] = l
  BY <1>2 DEF OInv, TypeOK
<1>5. Truthful(w)'
  BY <1>2, <1>3, <1>4, PlainIsTruthful DEF PlainSteps, UnpaidCopy, Backed
<1> QED
  BY <1>2, <1>3, <1>5, TruthSaveKeeps

-----------------------------------------------------------------------------
(* Being paid, and the rest.                                                *)

\* What a webhook execution is known to be about.
LEMMA WebhookFacts ==
    ASSUME OInv, TInv, NEW w \in Workers, pc[w] \in WebhookSteps
    PROVE  /\ local[w] \in Locals /\ Truthful(w)
           /\ local[w].target \in Sequences /\ charge[local[w].target] = "paid"
BY Facts DEF TInv, Truthful

LEMMA TruthRecordEvent ==
    ASSUME OInv, TInv, NEW w \in Workers, NEW s \in Sequences, RecordEvent(w, s)
    PROVE  TInv'
<1> DEFINE l == [local[w] EXCEPT !.target = s]
<1>1. /\ local[w] \in Locals /\ Truthful(w) /\ pc[w] = "idle" /\ charge[s] = "paid"
      /\ event \in [Sequences -> {"absent", "recorded", "processed"}]
  BY Facts DEF RecordEvent, ReportsPayment, TInv, RowsTyped
<1>2. /\ event' = [event EXCEPT ![s] = AfterDelivery(event[s])]
      /\ local' = [local EXCEPT ![w] = l]
      /\ pc' = [pc EXCEPT ![w] = "lookup"]
      /\ UNCHANGED <<payment, attempt, recovery, outbox, charge, shown>>
  BY <1>1 DEF RecordEvent, Goto, OInv, TypeOK, world
<1>3. l.pay = local[w].pay /\ l.target = s
  BY <1>1 DEF Locals
<1> HIDE DEF l
<1>4. pc'[w] = "lookup" /\ local'[w] = l
  BY <1>2 DEF OInv, TypeOK
<1>5. Truthful(w)'
  BY <1>1, <1>2, <1>3, <1>4
     DEF Truthful, Backed, UnpaidSteps, OwnerSteps, RoutingSteps, ReconcileSteps, WebhookSteps
<1>6. OthersStay(w) /\ ChargesKept /\ \A t : Backed(t)' <=> Backed(t)
  BY <1>2, MovesOthers, SameCharges
<1>7. RowsTell' /\ PaymentTells'
  BY <1>2, <1>6, RowsStay, PaymentStays
<1>8. LedgerTells'
  <2>1. \A t \in Sequences : event'[t] # "absent" => charge[t] = "paid"
    BY <1>1, <1>2 DEF TInv, LedgerTells
  <2> QED
    BY <1>2, <1>6, <2>1 DEF TInv, LedgerTells, IsRecovery
<1> QED
  BY <1>5, <1>6, <1>7, <1>8, TruthKeeps

LEMMA TruthFindAttempt ==
    ASSUME OInv, TInv, NEW w \in Workers, FindAttempt(w)
    PROVE  TInv'
<1>1. UNCHANGED <<payment, attempt, ledger, charge, shown>> /\ pc[w] = "lookup"
  BY DEF FindAttempt, world
<1>2. CASE Goto(w, "load") /\ UNCHANGED local
  <2>1. pc' = [pc EXCEPT ![w] = "load"] /\ local' = [local EXCEPT ![w] = local[w]]
    BY <1>2 DEF Goto, OInv, TypeOK
  <2>2. pc'[w] = "load" /\ local'[w] = local[w]
    BY <1>2, <2>1 DEF OInv, TypeOK
  <2>3. Truthful(w)'
    BY <1>1, <2>2, WebhookFacts
       DEF Truthful, Backed, UnpaidSteps, OwnerSteps, RoutingSteps, ReconcileSteps,
           WebhookSteps
  <2> QED
    BY <1>1, <2>1, <2>3, TruthReadKeeps
<1> QED
  BY <1>1, <1>2, TruthLeaveKeeps DEF FindAttempt

LEMMA TruthReadForPaid ==
    ASSUME OInv, TInv, NEW w \in Workers, ReadForPaid(w)
    PROVE  TInv'
<1>1. UNCHANGED <<payment, attempt, ledger, charge, shown>> /\ pc[w] = "load"
  BY DEF ReadForPaid, world
<1>2. CASE Goto(w, "acknowledge") /\ UNCHANGED local
  <2>1. pc' = [pc EXCEPT ![w] = "acknowledge"] /\ local' = [local EXCEPT ![w] = local[w]]
    BY <1>2 DEF Goto, OInv, TypeOK
  <2>2. pc'[w] = "acknowledge" /\ local'[w] = local[w]
    BY <1>2, <2>1 DEF OInv, TypeOK
  <2>3. Truthful(w)'
    BY <1>1, <2>2, WebhookFacts
       DEF Truthful, Backed, UnpaidSteps, OwnerSteps, RoutingSteps, ReconcileSteps,
           WebhookSteps
  <2> QED
    BY <1>1, <2>1, <2>3, TruthReadKeeps
<1>3. CASE /\ payment.status = "awaiting_payment" /\ payment.presented = local[w].target
           /\ local' = [local EXCEPT ![w].pay = payment]
           /\ Goto(w, "verify")
  <2> DEFINE l == [local[w] EXCEPT !.pay = payment]
  <2>1. pc' = [pc EXCEPT ![w] = "verify"] /\ local' = [local EXCEPT ![w] = l]
    BY <1>3 DEF Goto, OInv, TypeOK
  <2>2. l.pay = payment /\ l.target = local[w].target
    BY Facts DEF Locals
  <2> HIDE DEF l
  <2>3. pc'[w] = "verify" /\ local'[w] = l
    BY <2>1 DEF OInv, TypeOK
  <2>4. ~payment.recovered
    BY <1>3 DEF TInv, PaymentTells
  <2>5. local[w].target \in Sequences /\ charge[local[w].target] = "paid"
    BY <1>1, WebhookFacts DEF WebhookSteps
  <2>6. Truthful(w)'
    BY <1>1, <1>3, <2>2, <2>3, <2>4, <2>5
       DEF Truthful, Backed, UnpaidSteps, OwnerSteps, RoutingSteps, ReconcileSteps,
           WebhookSteps
  <2> QED
    BY <1>1, <2>1, <2>6, TruthReadKeeps
<1> QED
  BY <1>1, <1>2, <1>3, TruthLeaveKeeps DEF ReadForPaid

LEMMA TruthVerifyAttempt ==
    ASSUME OInv, TInv, NEW w \in Workers, VerifyAttempt(w)
    PROVE  TInv'
<1>1. UNCHANGED <<payment, attempt, ledger, charge, shown>> /\ pc[w] = "verify"
  BY DEF VerifyAttempt, world
<1>2. CASE Goto(w, "recoveries") /\ UNCHANGED local
  <2>1. pc' = [pc EXCEPT ![w] = "recoveries"] /\ local' = [local EXCEPT ![w] = local[w]]
    BY <1>2 DEF Goto, OInv, TypeOK
  <2>2. pc'[w] = "recoveries" /\ local'[w] = local[w]
    BY <1>2, <2>1 DEF OInv, TypeOK
  <2>3. Truthful(w)'
    BY <1>1, <2>2, WebhookFacts
       DEF Truthful, Backed, UnpaidSteps, OwnerSteps, RoutingSteps, ReconcileSteps,
           WebhookSteps
  <2> QED
    BY <1>1, <2>1, <2>3, TruthReadKeeps
<1> QED
  BY <1>1, <1>2, TruthLeaveKeeps DEF VerifyAttempt

LEMMA FirstFailedSafeFailed ==
    ASSUME NEW s, FirstFailedSafe(s) # 0
    PROVE  LET t == FirstFailedSafe(s)
           IN  t \in Sequences /\ t < s /\ attempt[t].status = "failed_safe"
<1> DEFINE earlier == {t \in Sequences : t < s /\ attempt[t].status = "failed_safe"}
<1>1. earlier \in SUBSET Nat
  BY BoundsAssumption DEF Sequences
<1>2. \A t \in earlier : t \in Sequences /\ t < s /\ attempt[t].status = "failed_safe"
  OBVIOUS
<1>3. FirstFailedSafe(s) = IF earlier = {} THEN 0
                           ELSE CHOOSE t \in earlier : \A u \in earlier : t <= u
  BY DEF FirstFailedSafe
<1> HIDE DEF earlier
<1>4. earlier # {} => (CHOOSE t \in earlier : \A u \in earlier : t <= u) \in earlier
  BY <1>1, LeastExists
<1>5. FirstFailedSafe(s) \in earlier
  BY <1>3, <1>4
<1> QED
  BY <1>2, <1>5

LEMMA TruthFindRecovery ==
    ASSUME OInv, TInv, NEW w \in Workers, FindRecovery(w)
    PROVE  TInv'
<1>1. PICK n : n = FirstFailedSafe(local[w].target)
  OBVIOUS
<1> DEFINE l == [local[w] EXCEPT !.failed = n]
<1>2. /\ pc[w] = "recoveries"
      /\ local' = [local EXCEPT ![w] = l]
      /\ pc' = [pc EXCEPT ![w] = "commit"]
      /\ UNCHANGED <<payment, attempt, ledger, charge, shown>>
  BY <1>1 DEF FindRecovery, Goto, OInv, TypeOK, world
<1>3. l.pay = local[w].pay /\ l.target = local[w].target /\ l.failed = n
  BY Facts DEF Locals
<1> HIDE DEF l
<1>4. pc'[w] = "commit" /\ local'[w] = l
  BY <1>2 DEF OInv, TypeOK
<1>5. /\ local[w].target \in Sequences /\ charge[local[w].target] = "paid"
      /\ Truthful(w)
  BY <1>2, WebhookFacts DEF WebhookSteps
<1>6. n # 0 => IsRecovery(n, local[w].target)
  <2>1. n # 0 => n \in Sequences /\ n < local[w].target /\ attempt[n].status = "failed_safe"
    BY <1>1, FirstFailedSafeFailed
  <2>2. n # 0 => charge[n] = "none"
    BY <2>1 DEF TInv, RowsTell, Tells
  <2> QED
    BY <1>5, <2>1, <2>2, BoundsAssumption DEF IsRecovery, Sequences
<1>7. Truthful(w)'
  BY <1>2, <1>3, <1>4, <1>5, <1>6
     DEF Truthful, IsRecovery, Backed, UnpaidSteps, OwnerSteps, RoutingSteps, ReconcileSteps,
         WebhookSteps
<1> QED
  BY <1>2, <1>7, TruthReadKeeps

\* The payment is written from a copy, and may write over a newer row; but what is
\* written of it is so: its presented charge is paid.
LEMMA TruthCommitPaid ==
    ASSUME OInv, TInv, NEW w \in Receivers, CommitPaid(w)
    PROVE  TInv'
<1> DEFINE recovers == local[w].failed # 0
           p == [local[w].pay EXCEPT !.status = "paid", !.paidAt = w,
                                     !.recovered = @ \/ recovers]
<1>1. w \in Workers /\ pc[w] = "commit" /\ local[w] \in Locals
  BY Facts DEF CommitPaid, Workers
<1>2. /\ SavePayment(p)
      /\ recovery' = IF recovers /\ recovery = NoRecovery
                     THEN [failed |-> local[w].failed, successful |-> local[w].target]
                     ELSE recovery
      /\ outbox' = outbox \cup MerchantEvents(p)
      /\ pc' = [pc EXCEPT ![w] = "acknowledge"]
      /\ local' = [local EXCEPT ![w] = local[w]] /\ local' = local
      /\ UNCHANGED <<attempt, event, charge>>
  BY <1>1 DEF CommitPaid, Goto, world, OInv, TypeOK
<1>3. /\ local[w].target \in Sequences /\ charge[local[w].target] = "paid"
      /\ local[w].pay.presented = local[w].target /\ ~local[w].pay.recovered
      /\ recovers => IsRecovery(local[w].failed, local[w].target)
  BY <1>1, WebhookFacts DEF WebhookSteps, Truthful, UnpaidSteps
<1>4. /\ p.status = "paid" /\ p.presented = local[w].target
      /\ p.recovered => recovers
  BY <1>1, <1>3 DEF Locals, PaymentRows
<1> HIDE DEF p
<1>5. OthersStay(w) /\ ChargesKept /\ \A t : Backed(t)' <=> Backed(t)
  BY <1>1, <1>2, MovesOthers, SameCharges
<1>6. pc'[w] = "acknowledge"
  BY <1>1, <1>2 DEF OInv, TypeOK
<1>7. Truthful(w)'
  <2>1. local[w].pay.presented # 0 => Backed(local[w].pay.presented)
    BY <1>1 DEF TInv, Truthful
  <2> QED
    BY <1>2, <1>3, <1>6, <2>1
       DEF Truthful, Backed, UnpaidSteps, OwnerSteps, RoutingSteps, ReconcileSteps,
           WebhookSteps
<1>8. recovery' # NoRecovery => IsRecovery(recovery'.failed, recovery'.successful)
  <2>1. CASE recovers /\ recovery = NoRecovery
    <3>1. recovery'.failed = local[w].failed /\ recovery'.successful = local[w].target
      BY <1>2, <2>1
    <3> QED
      BY <1>3, <2>1, <3>1
  <2>2. CASE ~(recovers /\ recovery = NoRecovery)
    BY <1>2, <2>2 DEF TInv, LedgerTells
  <2> QED
    BY <2>1, <2>2
<1>9. recovers => recovery' # NoRecovery
  BY <1>2 DEF NoRecovery
<1>10. recovery # NoRecovery => recovery' # NoRecovery
  BY <1>2
<1>11. PaymentTells'
  BY <1>2, <1>3, <1>4, <1>9 DEF PaymentTells, PaidIsEarned, SavePayment, Backed
<1>12. LedgerTells'
  <2>1. \A s \in shown' : s \in shown \/ s = local[w].target
    BY <1>2, <1>4 DEF SavePayment
  <2>2. \A s \in Sequences : s \in shown' => Backed(s)
    BY <1>3, <2>1 DEF TInv, LedgerTells, Backed
  <2>3. "payment.recovered" \in outbox' => recovery' # NoRecovery
    BY <1>2, <1>4, <1>9, <1>10 DEF MerchantEvents, TInv, LedgerTells
  <2>4. \E s \in Sequences : charge'[s] = "paid"
    BY <1>2, <1>3
  <2>5. \A s \in Sequences : event'[s] # "absent" => charge'[s] = "paid"
    BY <1>2 DEF TInv, LedgerTells
  <2>6. recovery' # NoRecovery => IsRecovery(recovery.failed, recovery.successful)'
    BY <1>2, <1>8 DEF IsRecovery
  <2> QED
    BY <1>5, <2>2, <2>3, <2>4, <2>5, <2>6 DEF LedgerTells
<1>13. RowsTell'
  BY <1>2, <1>5, RowsStay
<1> QED
  BY <1>1, <1>5, <1>7, <1>11, <1>12, <1>13, TruthKeeps

LEMMA TruthAcknowledgeEvent ==
    ASSUME OInv, TInv, NEW w \in Workers, AcknowledgeEvent(w)
    PROVE  TInv'
<1>1. /\ event' = [event EXCEPT ![local[w].target] = "processed"]
      /\ Return(w)
      /\ pc[w] = "acknowledge"
      /\ UNCHANGED <<payment, attempt, recovery, outbox, charge, shown>>
  BY DEF AcknowledgeEvent, world
<1>2. local[w].target \in Sequences /\ charge[local[w].target] = "paid"
  BY <1>1, WebhookFacts DEF WebhookSteps
<1>3. Truthful(w)' /\ OthersStay(w)
  BY <1>1, ReturnIsTruthful, MovesOthers
<1>4. ChargesKept /\ \A t : Backed(t)' <=> Backed(t)
  BY <1>1, SameCharges
<1>5. RowsTell' /\ PaymentTells'
  BY <1>1, <1>4, RowsStay, PaymentStays
<1>6. LedgerTells'
  <2>1. \A t \in Sequences : event'[t] # "absent" => charge[t] = "paid"
    BY <1>1, <1>2 DEF TInv, LedgerTells, OInv, TypeOK
  <2> QED
    BY <1>1, <1>4, <2>1 DEF TInv, LedgerTells, IsRecovery
<1> QED
  BY <1>3, <1>4, <1>5, <1>6, TruthKeeps

LEMMA TruthFail ==
    ASSUME OInv, TInv, NEW w \in Workers, Fail(w)
    PROVE  TInv'
BY TruthLeaveKeeps DEF Fail

LEMMA TruthAround ==
    ASSUME OInv, TInv, ChargesKept,
           UNCHANGED <<payment, attempt, ledger, shown, pc, local>>
    PROVE  TInv'
<1>1. RowsTell' /\ PaymentTells' /\ LedgerTells'
  BY RowsStay, PaymentStays, LedgerStays DEF ledger
<1>2. ASSUME NEW w \in Workers
      PROVE  Truthful(w)'
  BY TruthfulStays DEF TInv
<1> QED
  BY <1>1, <1>2 DEF TInv

-----------------------------------------------------------------------------
(* The theorems.                                                            *)

LEMMA InitIsTruthful == Init => TInv
<1> SUFFICES ASSUME Init
             PROVE  TInv
  OBVIOUS
<1>1. RowsTell
  BY DEF Init, RowsTell, Tells, NoAttempt
<1>2. payment.status = "absent" /\ payment.presented = 0 /\ ~payment.recovered
  BY Zenon DEF Init, NoPayment
<1>3. PaymentTells
  BY <1>2 DEF PaymentTells, PaidIsEarned
<1>4. LedgerTells
  BY DEF Init, LedgerTells
<1>5. NoLocals.pay.presented = 0
  BY Zenon DEF NoLocals, NoPayment
<1>6. ASSUME NEW w \in Workers
      PROVE  Truthful(w)
  <2>1. pc[w] = "idle" /\ local[w] = NoLocals
    BY DEF Init
  <2> QED
    BY <1>5, <2>1
       DEF Truthful, UnpaidSteps, OwnerSteps, RoutingSteps, ReconcileSteps, WebhookSteps
<1> QED
  BY <1>1, <1>3, <1>4, <1>6 DEF TInv

LEMMA TruthRoutingStep ==
    ASSUME OInv, TInv, NEW w \in Workers, RoutingStep(w)
    PROVE  TInv'
BY TruthListConnections, TruthListAttempts, TruthAddAttempt, TruthGiveUp,
   TruthActivateAttempt, TruthResolveFails, TruthFailUnresolved, TruthMarkRequesting,
   TruthCreatePix, TruthSaveOutcome, TruthSettlePayment
   DEF RoutingStep

LEMMA NextIsTruthful ==
    ASSUME OInv, TInv, [Next]_vars
    PROVE  TInv'
<1>1. ASSUME NEW w \in Creators, NEW f \in Fingerprints, GetOrCreatePayment(w, f)
      PROVE  TInv'
  BY <1>1, TruthGetOrCreatePayment
<1>2. ASSUME NEW w \in Creators, CreatorStep(w) \/ RoutingStep(w)
      PROVE  TInv'
  BY <1>2, TruthReadExisting, TruthStartRouting, TruthRoutingStep DEF CreatorStep, Workers
<1>3. ASSUME NEW w \in Reconcilers, ReadForReconcile(w) \/ ReconcileStep(w) \/ RoutingStep(w)
      PROVE  TInv'
  BY <1>3, TruthReadForReconcile, TruthReadUnknownAttempt, TruthAskProvider, TruthSaveAnswer,
     TruthReroute, TruthRoutingStep
     DEF ReconcileStep, Workers
<1>4. ASSUME NEW w \in Receivers, NEW s \in Sequences, RecordEvent(w, s)
      PROVE  TInv'
  BY <1>4, TruthRecordEvent DEF Workers
<1>5. ASSUME NEW w \in Receivers, WebhookStep(w)
      PROVE  TInv'
  BY <1>5, TruthFindAttempt, TruthReadForPaid, TruthVerifyAttempt, TruthFindRecovery,
     TruthCommitPaid, TruthAcknowledgeEvent
     DEF WebhookStep, Workers
<1>6. ASSUME NEW w \in Workers, Fail(w)
      PROVE  TInv'
  BY <1>6, TruthFail
<1>7. ASSUME NEW c \in Conns, ChangeConnection(c)
      PROVE  TInv'
  BY <1>7, SameCharges, TruthAround DEF ChangeConnection
<1>8. ASSUME NEW s \in Sequences, DecideCharge(s) \/ CustomerPays(s)
      PROVE  TInv'
  <2>1. ChargesKept
    BY <1>8 DEF DecideCharge, CustomerPays, ChargesKept, OInv, TypeOK
  <2> QED
    BY <1>8, <2>1, TruthAround DEF DecideCharge, CustomerPays
<1>9. CASE UNCHANGED vars
  BY <1>9, SameCharges, TruthAround DEF vars, ledger
<1> QED
  BY <1>1, <1>2, <1>3, <1>4, <1>5, <1>6, <1>7, <1>8, <1>9 DEF Next

LEMMA TruthInductive == Spec => []TInv
<1>1. OInv /\ TInv /\ [Next]_vars => TInv'
  BY NextIsTruthful
<1> QED
  BY InitIsTruthful, Inductive, <1>1, PTL DEF Spec

\* However reconciliations overlap, a payment is paid only by a charge that it
\* presented and that the customer paid (MarkPaidWithOutbox).
THEOREM EarnedOverlapping == Spec => []PaidIsEarned
<1>1. TInv => PaidIsEarned
  BY DEF TInv, PaymentTells
<1> QED
  BY TruthInductive, <1>1, PTL

\* However reconciliations overlap, and whatever rows they overwrite, attempts, events,
\* recoveries and the merchant's notices tell of what happened at the provider and of
\* nothing else (executeRouting, ReconcilePayment, ProcessProviderWebhook).
THEOREM NothingInvented == Spec => []NothingIsInvented
<1>1. TInv => NothingIsInvented
  BY DEF TInv, RowsTell, Tells, PaymentTells, LedgerTells, IsRecovery, Backed, NothingIsInvented
<1> QED
  BY TruthInductive, <1>1, PTL

\* However reconciliations overlap, every row and every handler's copy is of its type.
THEOREM TypeCorrectOverlapping == Spec => []TypeOK
<1>1. OInv => TypeOK
  BY DEF OInv
<1> QED
  BY Inductive, <1>1, PTL

=============================================================================
