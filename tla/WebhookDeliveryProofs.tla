------------------------ MODULE WebhookDeliveryProofs ------------------------
(***************************************************************************)
(* What WebhookDelivery guarantees for any number of workers, events and   *)
(* attempts, whenever leases lapse and whatever calls fail.                *)
(*                                                                         *)
(* The strengthening says what a worker may still do with a job it has     *)
(* claimed.  If the row still names the worker, its count is the one the   *)
(* worker claimed with (JobsMatchRows); and as long as no lease of an      *)
(* event has lapsed, only the worker the row names has it in its batch     *)
(* (UnlapsedHeldOnce).                                                     *)
(***************************************************************************)
EXTENDS SerialAdministration, TLAPS, WellFoundedInduction

\* The events a worker has claimed and not recorded.
Holds(w) == local[w].jobs \cup (IF pc[w] = "complete" THEN {local[w].job} ELSE {})

\* The batch fits the step; a worker between two runs has none.
BatchesFit ==
    \A w \in Workers :
        /\ pc[w] \in {"idle", "claim"} => local[w].jobs = {}
        /\ pc[w] = "complete" =>
              local[w].job \in Events \ local[w].jobs /\ local[w].result \in Results

\* Only an open delivery is locked.
LockedAreOpen ==
    \A e \in Events : delivery[e].owner # None => delivery[e].status \in Open

JobsMatchRows ==
    \A w \in Workers : \A e \in Holds(w) :
        delivery[e].owner = w => local[w].count[e] = delivery[e].count

UnlapsedHeldOnce ==
    \A e \in Events \ lapses :
        /\ ~delivery[e].lapsed
        /\ \A w \in Workers : e \in Holds(w) => delivery[e].owner = w

\* An answer 2xx that reached a worker is stored or still to be stored by it.
AcceptanceIsKept ==
    \A e \in Events \ lapses :
        /\ accepted[e] <= 1
        /\ accepted[e] = 1 =>
              /\ delivery[e].status = "succeeded" \/ delivery[e].owner # None
              /\ \A w \in Workers :
                    /\ e \notin local[w].jobs
                    /\ e \in Holds(w) => local[w].result = "accepted"

DInv ==
    /\ TypeOK
    /\ AttemptsTellTheStory
    /\ BatchesFit
    /\ LockedAreOpen
    /\ JobsMatchRows
    /\ UnlapsedHeldOnce
    /\ AcceptanceIsKept

EventPart == <<delivery, history, pc, local, accepted, lapses>>

-----------------------------------------------------------------------------

LEMMA InitDelivers == Init => DInv
BY DeliveryBounds, DeliveryNone DEF Init, NoEndpoint, DInv, TypeOK, AttemptsTellTheStory, TellsTheStory,
   BatchesFit, LockedAreOpen, JobsMatchRows, UnlapsedHeldOnce, AcceptanceIsKept, Holds,
   Endpoints, Requests, NoRequest, Deliveries, NoDelivery, Batches, NoBatch, Sequences,
   Statuses, Open

\* The rows, batches and answers stay as they are.
LEMMA ElsewhereKeeps == DInv /\ UNCHANGED EventPart /\ TypeOK' => DInv'
BY DEF DInv, EventPart, AttemptsTellTheStory, BatchesFit, LockedAreOpen, JobsMatchRows,
   UnlapsedHeldOnce, AcceptanceIsKept, Holds

LEMMA CreateEventKeeps ==
    ASSUME DInv, NEW e \in Events, CreateEvent(e)
    PROVE  DInv'
<1>1. TypeOK'
  BY DEF DInv, TypeOK, CreateEvent, control, workers
<1> QED
  BY <1>1, ElsewhereKeeps DEF CreateEvent, EventPart, workers

LEMMA AdminKeeps ==
    ASSUME DInv, NEW a \in Admins, AdminStep(a)
    PROVE  DInv'
<1>1. UNCHANGED EventPart
  BY DEF AdminStep, ReadEndpoint, UpsertEndpoint, DisableEndpoint, EventPart, workers
<1>2. TypeOK'
  <2>1. CASE ReadEndpoint(a)
    BY <2>1, DeliveryBounds DEF DInv, TypeOK, ReadEndpoint, ActivationTime, Endpoints, Requests,
       outbox, workers
  <2>2. CASE UpsertEndpoint(a)
    BY <2>2 DEF DInv, TypeOK, UpsertEndpoint, Endpoints, Requests, NoRequest, outbox, workers
  <2>3. CASE DisableEndpoint(a)
    <3>1. endpoint' \in Endpoints
      BY <2>3 DEF DInv, TypeOK, DisableEndpoint, Endpoints
    <3>2. changes' \in 0..MaxChanges
      BY <2>3, DeliveryBounds DEF DInv, TypeOK, DisableEndpoint
    <3> QED
      BY <2>3, <3>1, <3>2 DEF DInv, TypeOK, DisableEndpoint, outbox, workers
  <2> QED
    BY <2>1, <2>2, <2>3 DEF AdminStep
<1> QED
  BY <1>1, <1>2, ElsewhereKeeps

LEMMA NewDelivery ==
    [NoDelivery EXCEPT !.status = "pending", !.due = TRUE] \in Deliveries
<1>1. 0 \in 0..MaxAttempts
  BY DeliveryBounds
<1> QED
  BY <1>1 DEF Deliveries, Statuses, Open, NoDelivery

LEMMA MaterializeKeeps ==
    ASSUME DInv, NEW w \in Workers, Materialize(w)
    PROVE  DInv'
<1> DEFINE new == Oldest(Pending, MaterializeLimit)
<1>1. \A e \in Events : e \in new => delivery[e].status = "absent"
  BY DEF Oldest, Pending
<1>2. \A e \in Events :
        delivery'[e] = IF e \in new THEN [NoDelivery EXCEPT !.status = "pending", !.due = TRUE]
                                     ELSE delivery[e]
  BY DEF Materialize
<1> HIDE DEF new
<1>3. /\ UNCHANGED <<history, local, accepted, lapses, faults, changes, created, clock, endpoint, admin>>
      /\ pc[w] = "idle"
      /\ pc' = [pc EXCEPT ![w] = "claim"]
      /\ delivery' = [e \in Events |-> delivery'[e]]
  BY DEF Materialize, outbox, control
<1>4. TypeOK'
  <2>1. [NoDelivery EXCEPT !.status = "pending", !.due = TRUE] \in Deliveries
    BY NewDelivery
  <2>2. delivery' \in [Events -> Deliveries]
    <3>1. \A e \in Events : delivery'[e] \in Deliveries
      BY <1>2, <2>1 DEF DInv, TypeOK
    <3> QED
      BY <1>3, <3>1
  <2>3. pc' \in [Workers -> {"idle", "claim", "send", "complete"}]
    BY <1>3 DEF DInv, TypeOK
  <2> QED
    BY <1>3, <2>2, <2>3 DEF DInv, TypeOK
<1>5. AttemptsTellTheStory'
  <2>1. \A e \in Events : e \in new =>
          delivery[e].count = 0 /\ delivery'[e].count = 0 /\ delivery'[e].status = "pending"
    BY <1>1, <1>2 DEF DInv, AttemptsTellTheStory, TellsTheStory, NoDelivery
  <2>2. \A e \in Events : e \in new => TellsTheStory(delivery'[e], history[e])
    BY <1>1, <2>1 DEF DInv, AttemptsTellTheStory, TellsTheStory
  <2> QED
    BY <1>2, <1>3, <2>2 DEF DInv, AttemptsTellTheStory
<1>6. BatchesFit'
  BY <1>3 DEF DInv, TypeOK, BatchesFit
<1>7. \A v \in Workers : Holds(v)' = Holds(v)
  BY <1>3 DEF DInv, TypeOK, BatchesFit, Holds
<1>8. \A e \in Events :
        /\ delivery[e].status = "absent" => delivery[e].owner = None
        /\ e \in new => delivery'[e].owner = None /\ delivery'[e].lapsed = FALSE
  BY <1>2 DEF DInv, LockedAreOpen, Open, NoDelivery
<1>9. LockedAreOpen'
  BY <1>1, <1>2, <1>8 DEF DInv, LockedAreOpen
<1>10. JobsMatchRows'
  BY <1>1, <1>2, <1>3, <1>7, <1>8, DeliveryNone
  DEF DInv, TypeOK, BatchesFit, Batches, Holds, JobsMatchRows
<1>11. UnlapsedHeldOnce'
  BY <1>1, <1>2, <1>3, <1>7, <1>8, DeliveryNone DEF DInv, UnlapsedHeldOnce
<1>12. AcceptanceIsKept'
  BY <1>1, <1>2, <1>3, <1>7, <1>8 DEF DInv, AcceptanceIsKept
<1> QED
  BY <1>4, <1>5, <1>6, <1>9, <1>10, <1>11, <1>12 DEF DInv

LEMMA ClaimKeeps ==
    ASSUME DInv, NEW w \in Workers, Claim(w)
    PROVE  DInv'
<1>1. PICK batch \in SUBSET Claimable :
        /\ delivery' = [e \in Events |->
              IF e \in batch THEN [delivery[e] EXCEPT !.owner = w, !.lapsed = FALSE]
                             ELSE delivery[e]]
        /\ local' = [local EXCEPT ![w] =
              [NoBatch EXCEPT !.jobs = batch, !.first = (batch # {}),
                  !.count = [e \in Events |-> IF e \in batch THEN delivery[e].count ELSE 0]]]
        /\ pc' = [pc EXCEPT ![w] = IF batch = {} THEN "idle" ELSE "send"]
  BY DEF Claim
<1>2. /\ UNCHANGED <<history, accepted, lapses, faults, changes, created, clock, endpoint, admin>>
      /\ pc[w] = "claim"
  BY DEF Claim, outbox, control
<1>3. /\ batch \subseteq Events
      /\ \A e \in batch : delivery[e].status \in Open /\ (delivery[e].owner = None \/ delivery[e].lapsed)
  BY DEF Claimable, Unsettled, Unlocked
<1>4. TypeOK'
  <2>1. delivery' \in [Events -> Deliveries]
    BY <1>1, <1>3 DEF DInv, TypeOK, Deliveries
  <2>2. [NoBatch EXCEPT !.jobs = batch, !.first = (batch # {}),
            !.count = [e \in Events |-> IF e \in batch THEN delivery[e].count ELSE 0]] \in Batches
    <3>1. [e \in Events |-> IF e \in batch THEN delivery[e].count ELSE 0]
             \in [Events -> 0..MaxAttempts]
      BY DeliveryBounds DEF DInv, TypeOK, Deliveries
    <3> QED
      BY <1>3, <3>1 DEF Batches, NoBatch
  <2>3. local' \in [Workers -> Batches]
    BY <1>1, <2>2 DEF DInv, TypeOK
  <2>4. pc' \in [Workers -> {"idle", "claim", "send", "complete"}]
    BY <1>1 DEF DInv, TypeOK
  <2> QED
    BY <1>2, <2>1, <2>3, <2>4 DEF DInv, TypeOK
<1>5. \A e \in Events :
        /\ delivery'[e].status = delivery[e].status
        /\ delivery'[e].count = delivery[e].count
        /\ e \in batch => delivery'[e].owner = w /\ delivery'[e].lapsed = FALSE
        /\ e \notin batch => delivery'[e] = delivery[e]
  BY <1>1 DEF DInv, TypeOK, Deliveries
<1>6. AttemptsTellTheStory'
  BY <1>2, <1>5 DEF DInv, AttemptsTellTheStory, TellsTheStory
<1>7. /\ Holds(w)' = batch
      /\ local'[w].jobs = batch
      /\ \A e \in batch : local'[w].count[e] = delivery[e].count
      /\ pc'[w] # "complete"
      /\ pc'[w] = "idle" => batch = {}
      /\ pc'[w] # "claim"
      /\ \A v \in Workers \ {w} :
            Holds(v)' = Holds(v) /\ pc'[v] = pc[v] /\ local'[v] = local[v]
  BY <1>1, <1>3 DEF DInv, TypeOK, Holds, NoBatch
<1>8. BatchesFit'
  BY <1>7 DEF DInv, BatchesFit
<1>9. LockedAreOpen'
  BY <1>3, <1>5 DEF DInv, LockedAreOpen
<1>10. \A v \in Workers : Holds(v) \subseteq Events
  BY DEF DInv, TypeOK, Batches, BatchesFit, Holds
<1>11. JobsMatchRows'
  BY <1>3, <1>5, <1>7, <1>10 DEF DInv, JobsMatchRows
<1>12. \A e \in batch \ lapses : delivery[e].owner = None
  BY <1>3 DEF DInv, UnlapsedHeldOnce
<1>13. UnlapsedHeldOnce'
  BY <1>2, <1>3, <1>5, <1>7, <1>12, DeliveryNone DEF DInv, UnlapsedHeldOnce
<1>14. \A e \in batch \ lapses : accepted[e] # 1
  BY <1>3, <1>12 DEF DInv, AcceptanceIsKept, Open
<1>15. AcceptanceIsKept'
  BY <1>2, <1>3, <1>5, <1>7, <1>14, DeliveryNone DEF DInv, AcceptanceIsKept
<1> QED
  BY <1>4, <1>6, <1>8, <1>9, <1>11, <1>13, <1>15 DEF DInv

LEMMA SendKeeps ==
    ASSUME DInv, NEW w \in Workers, Send(w)
    PROVE  DInv'
<1>1. PICK e \in local[w].jobs, result \in Results :
        /\ local' = [local EXCEPT ![w].jobs = local[w].jobs \ {e}, ![w].job = e,
                                  ![w].result = result]
        /\ accepted' = [accepted EXCEPT ![e] =
                IF result = "accepted" /\ accepted[e] < 2 THEN accepted[e] + 1 ELSE accepted[e]]
  BY DEF Send
<1>2. /\ UNCHANGED <<delivery, history, lapses, faults, changes, created, clock, endpoint, admin>>
      /\ pc[w] = "send"
      /\ pc' = [pc EXCEPT ![w] = "complete"]
  BY DEF Send, outbox, control
<1>3. e \in Events /\ local[w] \in Batches
  BY DEF DInv, TypeOK, Batches
<1>4. /\ local'[w].jobs = local[w].jobs \ {e}
      /\ local'[w].job = e
      /\ local'[w].result = result
      /\ local'[w].count = local[w].count
      /\ local'[w] \in Batches
      /\ \A v \in Workers \ {w} : local'[v] = local[v]
      /\ local' \in [Workers -> Batches]
  <2>1. [local[w] EXCEPT !.jobs = local[w].jobs \ {e}, !.job = e, !.result = result] \in Batches
    BY <1>3 DEF Batches
  <2> QED
    BY <1>1, <1>3, <2>1 DEF DInv, TypeOK, Batches
<1>5. TypeOK'
  <2>1. (IF result = "accepted" /\ accepted[e] < 2 THEN accepted[e] + 1 ELSE accepted[e]) \in 0..2
    BY <1>3 DEF DInv, TypeOK
  <2>2. accepted' \in [Events -> 0..2]
    BY <1>1, <2>1 DEF DInv, TypeOK
  <2> QED
    BY <1>2, <1>4, <2>2 DEF DInv, TypeOK
<1>6. AttemptsTellTheStory' /\ LockedAreOpen'
  BY <1>2 DEF DInv, AttemptsTellTheStory, LockedAreOpen
<1>7. BatchesFit'
  BY <1>2, <1>3, <1>4 DEF DInv, TypeOK, BatchesFit
<1>8. \A v \in Workers : Holds(v)' = Holds(v)
  <2>1. Holds(w)' = Holds(w)
    BY <1>2, <1>4 DEF DInv, TypeOK, Holds
  <2>2. \A v \in Workers \ {w} : Holds(v)' = Holds(v)
    BY <1>2, <1>4 DEF DInv, TypeOK, Holds
  <2> QED
    BY <2>1, <2>2
<1>9. JobsMatchRows'
  BY <1>2, <1>4, <1>8 DEF DInv, JobsMatchRows
<1>10. UnlapsedHeldOnce'
  BY <1>2, <1>8 DEF DInv, UnlapsedHeldOnce
<1>11. AcceptanceIsKept'
  <2>1. e \in Holds(w)
    BY DEF Holds
  <2> SUFFICES ASSUME NEW f \in Events \ lapses
               PROVE  /\ accepted'[f] <= 1
                      /\ accepted'[f] = 1 =>
                            /\ delivery[f].status = "succeeded" \/ delivery[f].owner # None
                            /\ \A v \in Workers :
                                  /\ f \notin local'[v].jobs
                                  /\ f \in Holds(v) => local'[v].result = "accepted"
    BY <1>2, <1>8 DEF AcceptanceIsKept
  <2>2. CASE f = e
    <3>1. accepted[e] = 0
      BY <2>2 DEF DInv, TypeOK, AcceptanceIsKept
    <3>2. /\ accepted'[e] <= 1
          /\ accepted'[e] = 1 => result = "accepted"
      BY <1>1, <1>3, <3>1 DEF DInv, TypeOK
    <3>3. /\ delivery[e].owner = w
          /\ \A v \in Workers : e \in Holds(v) => v = w
      BY <2>1, <2>2 DEF DInv, UnlapsedHeldOnce
    <3>4. \A v \in Workers \ {w} : e \notin local'[v].jobs
      BY <1>4, <3>3 DEF Holds
    <3> QED
      BY <1>4, <2>2, <3>2, <3>3, <3>4, DeliveryNone
  <2>3. CASE f # e
    <3>1. accepted'[f] = accepted[f]
      BY <1>1, <2>3 DEF DInv, TypeOK
    <3>2. \A v \in Workers : f \in local'[v].jobs => f \in local[v].jobs
      BY <1>4
    <3>3. f \in Holds(w) => f \in local[w].jobs
      BY <1>2 DEF Holds
    <3>4. CASE accepted[f] = 1
      <4>1. \A v \in Workers : f \notin local[v].jobs
                                /\ (f \in Holds(v) => local[v].result = "accepted")
        BY <3>4 DEF DInv, AcceptanceIsKept
      <4>2. \A v \in Workers : f \in Holds(v) => local'[v].result = "accepted"
        BY <1>4, <3>3, <4>1
      <4> QED
        BY <3>1, <3>2, <3>4, <4>1, <4>2 DEF DInv, AcceptanceIsKept
    <3> QED
      BY <3>1, <3>4 DEF DInv, AcceptanceIsKept
  <2> QED
    BY <2>2, <2>3
<1> QED
  BY <1>5, <1>6, <1>7, <1>9, <1>10, <1>11 DEF DInv

\* A worker gives up its batch; the rows keep their locks.
LEMMA AbandonKeeps ==
    ASSUME DInv, TypeOK', NEW w \in Workers, Abandon(w),
           UNCHANGED <<delivery, history, accepted, lapses>>
    PROVE  DInv'
<1>1. /\ pc'[w] = "idle"
      /\ local'[w].jobs = {}
      /\ Holds(w)' = {}
      /\ \A v \in Workers \ {w} :
            pc'[v] = pc[v] /\ local'[v] = local[v] /\ Holds(v)' = Holds(v)
  BY DEF DInv, TypeOK, Abandon, NoBatch, Holds
<1>2. AttemptsTellTheStory' /\ LockedAreOpen'
  BY DEF DInv, AttemptsTellTheStory, LockedAreOpen
<1>3. BatchesFit'
  BY <1>1 DEF DInv, BatchesFit
<1>4. JobsMatchRows'
  BY <1>1 DEF DInv, JobsMatchRows
<1>5. UnlapsedHeldOnce'
  BY <1>1 DEF DInv, UnlapsedHeldOnce
<1>6. AcceptanceIsKept'
  BY <1>1 DEF DInv, AcceptanceIsKept
<1> QED
  BY <1>2, <1>3, <1>4, <1>5, <1>6 DEF DInv

LEMMA NoBatchIsABatch == NoBatch \in Batches
BY DeliveryBounds DEF NoBatch, Batches

LEMMA CompleteRefusedKeeps ==
    ASSUME DInv, NEW w \in Workers, CompleteRefused(w)
    PROVE  DInv'
<1>1. TypeOK'
  BY NoBatchIsABatch DEF DInv, TypeOK, CompleteRefused, Abandon, outbox, control
<1> QED
  BY <1>1, AbandonKeeps DEF CompleteRefused

LEMMA FailKeeps ==
    ASSUME DInv, NEW w \in Workers, Fail(w)
    PROVE  DInv'
<1>1. TypeOK'
  BY NoBatchIsABatch, DeliveryBounds DEF DInv, TypeOK, Fail, Abandon, outbox, control
<1> QED
  BY <1>1, AbandonKeeps DEF Fail

LEMMA CompletedDelivery ==
    ASSUME NEW row \in Deliveries, NEW result, NEW sequence \in 0..MaxAttempts,
           StatusAfter(result, sequence) \in Statuses
    PROVE  /\ Completed(row, result, sequence) \in Deliveries
           /\ Completed(row, result, sequence).count = sequence
           /\ Completed(row, result, sequence).status = StatusAfter(result, sequence)
<1> DEFINE status == StatusAfter(result, sequence)
           due == status # "retry"
<1>1. due \in BOOLEAN
  OBVIOUS
<1>2. Completed(row, result, sequence) =
        [row EXCEPT !.status = status, !.count = sequence, !.due = due,
                    !.owner = None, !.lapsed = FALSE]
  BY DEF Completed
<1> HIDE DEF status, due
<1>3. LET new == [row EXCEPT !.status = status, !.count = sequence, !.due = due,
                             !.owner = None, !.lapsed = FALSE]
      IN  new \in Deliveries /\ new.status = status /\ new.count = sequence
  <2>1. status \in Statuses
    BY DEF status
  <2> QED
    BY <1>1, <2>1 DEF Deliveries
<1> QED
  BY <1>2, <1>3 DEF status

\* What the row of an open delivery and its attempts become with one more attempt.
LEMMA OneMoreAttempt ==
    ASSUME NEW row \in Deliveries, row.status \in Open,
           NEW results \in [Sequences -> Results \cup {None}], TellsTheStory(row, results),
           NEW result \in Results
    PROVE  /\ row.count + 1 \in Sequences
           /\ results[row.count + 1] = None
           /\ Completed(row, result, row.count + 1) \in Deliveries
           /\ TellsTheStory(Completed(row, result, row.count + 1),
                            [results EXCEPT ![row.count + 1] = result])
<1> DEFINE next == row.count + 1
           new == Completed(row, result, next)
           told == [results EXCEPT ![next] = result]
<1>1. row.count \in 0..MaxAttempts /\ row.count < MaxAttempts
  BY DeliveryBounds DEF TellsTheStory, Deliveries, Open
<1>2. next \in Sequences /\ next - 1 = row.count /\ next # 0
  BY <1>1, DeliveryBounds DEF Sequences
<1>3. StatusAfter(result, next) \in Statuses \ {"absent", "pending"}
  BY DEF StatusAfter, Statuses, Open, Settled, Results
<1>4. /\ new \in Deliveries
      /\ new.count = next
      /\ new.status = StatusAfter(result, next)
  <2>1. next \in 0..MaxAttempts
    BY <1>2, DeliveryBounds DEF Sequences
  <2> QED
    BY <1>3, <2>1, CompletedDelivery
<1>5. results[next] = None
  BY <1>1, <1>2 DEF TellsTheStory
<1>6. /\ told[next] = result
      /\ \A k \in Sequences \ {next} : told[k] = results[k]
  BY <1>2
<1>7. \A k \in Sequences : (told[k] # None <=> k <= next) /\ (k < next => told[k] = "again")
  <2>1. row.count # 0 => results[row.count] = "again"
    BY <1>1 DEF TellsTheStory, Open
  <2> SUFFICES ASSUME NEW k \in Sequences
               PROVE  (told[k] # None <=> k <= next) /\ (k < next => told[k] = "again")
    OBVIOUS
  <2>2. CASE k = next
    BY <1>1, <1>2, <1>6, <2>2, DeliveryNone DEF Sequences
  <2>3. CASE k # next
    <3>1. k \in Int /\ (k <= next <=> k <= row.count) /\ (k < next => k < row.count \/ k = row.count)
      BY <1>1, <2>3, DeliveryBounds DEF Sequences
    <3>2. told[k] = results[k]
      BY <1>6, <2>3
    <3>3. (results[k] # None <=> k <= row.count) /\ (k < row.count => results[k] = "again")
      BY DEF TellsTheStory
    <3>4. k = row.count => row.count # 0
      BY DEF Sequences
    <3> QED
      BY <2>1, <3>1, <3>2, <3>3, <3>4
  <2> QED
    BY <2>2, <2>3
<1>8. TellsTheStory(new, told)
  BY <1>1, <1>2, <1>3, <1>4, <1>6, <1>7, DeliveryBounds
  DEF TellsTheStory, StatusAfter, Spent, Results, Sequences
<1> QED
  BY <1>2, <1>4, <1>5, <1>8

LEMMA CompleteKeeps ==
    ASSUME DInv, NEW w \in Workers, Complete(w)
    PROVE  DInv'
<1> DEFINE e == local[w].job
           result == local[w].result
           next == delivery[e].count + 1
<1>1. /\ pc[w] = "complete"
      /\ delivery[e].owner = w
      /\ history' = [history EXCEPT ![e] = [history[e] EXCEPT ![Sequence(w)] = result]]
      /\ delivery' = [delivery EXCEPT ![e] = Completed(delivery[e], result, Sequence(w))]
      /\ UNCHANGED <<accepted, lapses, faults, changes, created, clock, endpoint, admin>>
  BY DEF Complete, MayComplete, outbox, control
<1>2. /\ e \in Events
      /\ e \notin local[w].jobs
      /\ result \in Results
      /\ e \in Holds(w)
  BY <1>1 DEF DInv, BatchesFit, Holds
<1>3. /\ Sequence(w) = next
      /\ delivery[e].status \in Open
      /\ delivery[e] \in Deliveries
      /\ history[e] \in [Sequences -> Results \cup {None}]
      /\ TellsTheStory(delivery[e], history[e])
  BY <1>1, <1>2, DeliveryNone
  DEF DInv, TypeOK, JobsMatchRows, LockedAreOpen, AttemptsTellTheStory, Sequence
<1>4. /\ next \in Sequences
      /\ Completed(delivery[e], result, next) \in Deliveries
      /\ TellsTheStory(Completed(delivery[e], result, next), [history[e] EXCEPT ![next] = result])
  BY <1>2, <1>3, OneMoreAttempt
<1>5. /\ delivery'[e] = Completed(delivery[e], result, next)
      /\ history'[e] = [history[e] EXCEPT ![next] = result]
      /\ delivery' \in [Events -> Deliveries]
      /\ history' \in [Events -> [Sequences -> Results \cup {None}]]
      /\ \A f \in Events \ {e} : delivery'[f] = delivery[f] /\ history'[f] = history[f]
  BY <1>1, <1>2, <1>3, <1>4 DEF DInv, TypeOK
<1>6. /\ delivery'[e].owner = None
      /\ delivery'[e].lapsed = FALSE
      /\ result = "accepted" => delivery'[e].status = "succeeded"
  BY <1>3, <1>5 DEF Completed, Deliveries, StatusAfter
<1>7. /\ pc'[w] \in {"idle", "send"}
      /\ pc'[w] = "idle" => local'[w].jobs = {}
      /\ local'[w].jobs = local[w].jobs
      /\ local[w].jobs # {} => local'[w].count = local[w].count
      /\ local' \in [Workers -> Batches]
      /\ pc' \in [Workers -> {"idle", "claim", "send", "complete"}]
      /\ \A v \in Workers \ {w} : pc'[v] = pc[v] /\ local'[v] = local[v]
  <2>1. CASE local[w].jobs = {}
    <3>1. pc' = [pc EXCEPT ![w] = "idle"] /\ local' = [local EXCEPT ![w] = NoBatch]
      BY <2>1 DEF Complete
    <3> QED
      BY <2>1, <3>1, NoBatchIsABatch DEF DInv, TypeOK, NoBatch
  <2>2. CASE local[w].jobs # {}
    <3> DEFINE batch == [local[w] EXCEPT !.job = None, !.result = None, !.first = FALSE]
    <3>1. /\ pc' = [pc EXCEPT ![w] = "send"]
          /\ local' = [local EXCEPT ![w] = batch]
      BY <2>2 DEF Complete
    <3>2. batch \in Batches /\ batch.jobs = local[w].jobs /\ batch.count = local[w].count
      BY DEF DInv, TypeOK, Batches
    <3> QED
      BY <2>2, <3>1, <3>2 DEF DInv, TypeOK
  <2> QED
    BY <2>1, <2>2
<1> HIDE DEF e, result, next
<1>8. TypeOK'
  BY <1>1, <1>5, <1>7 DEF DInv, TypeOK
<1>9. AttemptsTellTheStory'
  BY <1>4, <1>5 DEF DInv, AttemptsTellTheStory
<1>10. /\ Holds(w)' = local[w].jobs
       /\ \A v \in Workers \ {w} : Holds(v)' = Holds(v)
  BY <1>7 DEF Holds
<1>11. BatchesFit'
  BY <1>7 DEF DInv, BatchesFit
<1>12. LockedAreOpen'
  BY <1>5, <1>6 DEF DInv, LockedAreOpen
<1>13. local[w].jobs \subseteq Holds(w)
  BY DEF Holds
<1>14. \A v \in Workers : Holds(v) \subseteq Events
  BY DEF DInv, TypeOK, Batches, BatchesFit, Holds
<1>15. JobsMatchRows'
  <2> SUFFICES ASSUME NEW v \in Workers, NEW f \in Holds(v)', delivery'[f].owner = v
               PROVE  local'[v].count[f] = delivery'[f].count
    BY DEF JobsMatchRows
  <2>1. f # e
    BY <1>6, DeliveryNone
  <2>2. f \in Holds(v) /\ f \in Events
    BY <1>10, <1>13, <1>14
  <2>3. local'[v].count[f] = local[v].count[f]
    BY <1>7, <1>10
  <2> QED
    BY <1>5, <2>1, <2>2, <2>3 DEF DInv, JobsMatchRows
<1>16. \A f \in Events \ lapses : \A v \in Workers : f \in Holds(v)' => f # e
  BY <1>1, <1>2, <1>10 DEF DInv, UnlapsedHeldOnce
<1>17. UnlapsedHeldOnce'
  BY <1>1, <1>5, <1>6, <1>10, <1>13, <1>16 DEF DInv, UnlapsedHeldOnce
<1>18. AcceptanceIsKept'
  <2> SUFFICES ASSUME NEW f \in Events \ lapses, accepted[f] = 1
               PROVE  /\ delivery'[f].status = "succeeded" \/ delivery'[f].owner # None
                      /\ \A v \in Workers :
                            /\ f \notin local'[v].jobs
                            /\ f \in Holds(v)' => local'[v].result = "accepted"
    BY <1>1 DEF DInv, AcceptanceIsKept
  <2>1. /\ delivery[f].status = "succeeded" \/ delivery[f].owner # None
        /\ \A v \in Workers :
              /\ f \notin local[v].jobs
              /\ f \in Holds(v) => local[v].result = "accepted"
    BY DEF DInv, AcceptanceIsKept
  <2>2. \A v \in Workers : /\ f \notin local'[v].jobs
                           /\ f \in Holds(v)' => local'[v].result = "accepted"
    BY <1>7, <1>10, <2>1
  <2>3. delivery'[f].status = "succeeded" \/ delivery'[f].owner # None
    <3>1. CASE f = e
      BY <1>2, <1>6, <2>1, <3>1 DEF result
    <3>2. CASE f # e
      BY <1>5, <2>1, <3>2
    <3> QED
      BY <3>1, <3>2
  <2> QED
    BY <2>2, <2>3
<1> QED
  BY <1>8, <1>9, <1>11, <1>12, <1>15, <1>17, <1>18 DEF DInv

LEMMA LeaseLapsesKeeps ==
    ASSUME DInv, NEW e \in Events, LeaseLapses(e)
    PROVE  DInv'
<1>1. /\ delivery' = [delivery EXCEPT ![e].lapsed = TRUE]
      /\ lapses' = lapses \cup {e}
      /\ UNCHANGED <<clock, created, endpoint, admin, history, pc, local, accepted, faults, changes>>
  BY DEF LeaseLapses, outbox, control, workers
<1>2. /\ delivery' \in [Events -> Deliveries]
      /\ \A f \in Events \ {e} : delivery'[f] = delivery[f]
      /\ \A f \in Events : /\ delivery'[f].status = delivery[f].status
                           /\ delivery'[f].count = delivery[f].count
                           /\ delivery'[f].owner = delivery[f].owner
  BY <1>1 DEF DInv, TypeOK, Deliveries
<1>3. TypeOK'
  BY <1>1, <1>2 DEF DInv, TypeOK
<1>4. AttemptsTellTheStory' /\ LockedAreOpen' /\ BatchesFit'
  BY <1>1, <1>2 DEF DInv, AttemptsTellTheStory, TellsTheStory, LockedAreOpen, BatchesFit
<1>5. \A v \in Workers : Holds(v)' = Holds(v) /\ Holds(v) \subseteq Events
  BY <1>1 DEF DInv, TypeOK, Batches, BatchesFit, Holds
<1>6. JobsMatchRows'
  BY <1>1, <1>2, <1>5 DEF DInv, JobsMatchRows
<1>7. UnlapsedHeldOnce' /\ AcceptanceIsKept'
  BY <1>1, <1>2, <1>5 DEF DInv, UnlapsedHeldOnce, AcceptanceIsKept
<1> QED
  BY <1>3, <1>4, <1>6, <1>7 DEF DInv

LEMMA BecomesDueKeeps ==
    ASSUME DInv, NEW e \in Events, BecomesDue(e)
    PROVE  DInv'
<1>1. /\ delivery' = [delivery EXCEPT ![e].due = TRUE]
      /\ UNCHANGED <<clock, created, endpoint, admin, history, pc, local, accepted, lapses, faults, changes>>
  BY DEF BecomesDue, outbox, control, workers
<1>2. /\ delivery' \in [Events -> Deliveries]
      /\ \A f \in Events : /\ delivery'[f].status = delivery[f].status
                           /\ delivery'[f].count = delivery[f].count
                           /\ delivery'[f].owner = delivery[f].owner
                           /\ delivery'[f].lapsed = delivery[f].lapsed
  BY <1>1 DEF DInv, TypeOK, Deliveries
<1>3. TypeOK'
  BY <1>1, <1>2 DEF DInv, TypeOK
<1>4. AttemptsTellTheStory' /\ LockedAreOpen' /\ BatchesFit'
  BY <1>1, <1>2 DEF DInv, AttemptsTellTheStory, TellsTheStory, LockedAreOpen, BatchesFit
<1>5. \A v \in Workers : Holds(v)' = Holds(v) /\ Holds(v) \subseteq Events
  BY <1>1 DEF DInv, TypeOK, Batches, BatchesFit, Holds
<1>6. JobsMatchRows' /\ UnlapsedHeldOnce' /\ AcceptanceIsKept'
  BY <1>1, <1>2, <1>5 DEF DInv, JobsMatchRows, UnlapsedHeldOnce, AcceptanceIsKept
<1> QED
  BY <1>3, <1>4, <1>6 DEF DInv

-----------------------------------------------------------------------------

LEMMA NextDelivers == DInv /\ [Next]_vars => DInv'
<1> SUFFICES ASSUME DInv, [Next]_vars
             PROVE  DInv'
  OBVIOUS
<1>1. CASE UNCHANGED vars
  <2>1. TypeOK' /\ UNCHANGED EventPart
    BY <1>1 DEF DInv, TypeOK, vars, EventPart
  <2> QED
    BY <2>1, ElsewhereKeeps
<1>2. ASSUME NEW w \in Workers, WorkerStep(w)
      PROVE  DInv'
  BY <1>2, MaterializeKeeps, ClaimKeeps, SendKeeps, CompleteKeeps, CompleteRefusedKeeps
  DEF WorkerStep
<1>3. ASSUME NEW e \in Events, CreateEvent(e) \/ LeaseLapses(e) \/ BecomesDue(e)
      PROVE  DInv'
  BY <1>3, CreateEventKeeps, LeaseLapsesKeeps, BecomesDueKeeps
<1> QED
  BY <1>1, <1>2, <1>3, FailKeeps, AdminKeeps DEF Next

\* The inductive invariant holds of every behaviour of the delivery workers.
THEOREM DeliveryInvariance == Spec => []DInv
BY InitDelivers, NextDelivers, PTL DEF Spec

\* Every variable has its type; in particular attempt_count never exceeds the
\* maximum of the service.
THEOREM DeliveryTypeCorrect == Spec => []TypeOK
<1>1. DInv => TypeOK
  BY DEF DInv
<1> QED
  BY <1>1, DeliveryInvariance, PTL

\* The recorded attempts of a delivery are numbered without a gap and explain its
\* status (processJob, CompleteDelivery).
THEOREM StoryIsTold == Spec => []AttemptsTellTheStory
<1>1. DInv => AttemptsTellTheStory
  BY DEF DInv
<1> QED
  BY <1>1, DeliveryInvariance, PTL

\* The unique index never refuses the attempt of a worker that still holds the
\* lock (CompleteDelivery).
THEOREM HolderCompletes == Spec => []HolderCanComplete
<1>1. DInv => HolderCanComplete
  <2> SUFFICES ASSUME DInv, NEW w \in Workers, pc[w] = "complete",
                      delivery[local[w].job].owner = w
               PROVE  history[local[w].job][Sequence(w)] = None
    BY DEF HolderCanComplete, MayComplete
  <2> DEFINE e == local[w].job
  <2>1. e \in Events /\ e \in Holds(w) /\ local[w].result \in Results
    BY DEF DInv, BatchesFit, Holds
  <2>2. /\ Sequence(w) = delivery[e].count + 1
        /\ delivery[e].status \in Open
        /\ delivery[e] \in Deliveries
        /\ history[e] \in [Sequences -> Results \cup {None}]
        /\ TellsTheStory(delivery[e], history[e])
    BY <2>1, DeliveryNone
    DEF DInv, TypeOK, JobsMatchRows, LockedAreOpen, AttemptsTellTheStory, Sequence
  <2> QED
    BY <2>1, <2>2, OneMoreAttempt
<1> QED
  BY <1>1, DeliveryInvariance, PTL

\* An event is accepted by the merchant twice only after a lease of its delivery
\* has lapsed (ClaimDueDeliveries, CompleteDelivery).
THEOREM AcceptedOnce == Spec => []AcceptedOnceUnlessLapsed
<1>1. DInv => AcceptedOnceUnlessLapsed
  BY DEF DInv, AcceptanceIsKept, AcceptedOnceUnlessLapsed
<1> QED
  BY <1>1, DeliveryInvariance, PTL

\* No worker, however late, changes a delivery that is settled or its attempts.
THEOREM SettledKept == Spec => SettledStays
<1>1. ASSUME DInv, Next, NEW e \in Events, delivery[e].status \in Settled
      PROVE  delivery'[e] = delivery[e] /\ history'[e] = history[e]
  <2>1. /\ delivery[e].owner = None
        /\ delivery[e].status \notin Open \cup {"absent"}
    BY <1>1 DEF DInv, LockedAreOpen, Open, Settled
  <2>2. ASSUME NEW w \in Workers, WorkerStep(w)
        PROVE  delivery'[e] = delivery[e] /\ history'[e] = history[e]
    <3>1. CASE Materialize(w)
      BY <2>1, <3>1 DEF Materialize, Oldest, Pending
    <3>2. CASE Claim(w)
      BY <2>1, <3>2 DEF Claim, Claimable, Unsettled
    <3>3. CASE Send(w) \/ CompleteRefused(w)
      BY <3>3 DEF Send, CompleteRefused
    <3>4. CASE Complete(w)
      <4>1. local[w].job # e
        BY <2>1, <3>4, DeliveryNone DEF Complete, MayComplete
      <4> QED
        BY <1>1, <3>4, <4>1 DEF Complete, DInv, TypeOK
    <3> QED
      BY <2>2, <3>1, <3>2, <3>3, <3>4 DEF WorkerStep
  <2>3. ASSUME NEW w \in Workers, Fail(w)
        PROVE  delivery'[e] = delivery[e] /\ history'[e] = history[e]
    BY <2>3 DEF Fail
  <2>4. ASSUME NEW a \in Admins, AdminStep(a)
        PROVE  delivery'[e] = delivery[e] /\ history'[e] = history[e]
    BY <2>4 DEF AdminStep, ReadEndpoint, UpsertEndpoint, DisableEndpoint
  <2>5. ASSUME NEW f \in Events, CreateEvent(f) \/ LeaseLapses(f) \/ BecomesDue(f)
        PROVE  delivery'[e] = delivery[e] /\ history'[e] = history[e]
    <3>1. CASE CreateEvent(f)
      BY <3>1 DEF CreateEvent
    <3>2. CASE LeaseLapses(f)
      BY <1>1, <2>1, <3>2 DEF LeaseLapses, DInv, TypeOK
    <3>3. CASE BecomesDue(f)
      BY <1>1, <2>1, <3>3 DEF BecomesDue, DInv, TypeOK, Open
    <3> QED
      BY <2>5, <3>1, <3>2, <3>3
  <2> QED
    BY <1>1, <2>2, <2>3, <2>4, <2>5 DEF Next
<1>2. DInv /\ [Next]_vars =>
        [\A e \in Events : delivery[e].status \in Settled =>
             /\ delivery'[e] = delivery[e]
             /\ history'[e] = history[e]]_vars
  BY <1>1
<1> QED
  BY <1>2, DeliveryInvariance, PTL DEF Spec, SettledStays

-----------------------------------------------------------------------------
(* The promise to the merchant.                                             *)

\* What a worker holds is owed, or was; and a 2xx it has yet to record has reached it.
HeldAreOwed == \A w \in Workers : \A e \in Holds(w) : delivery[e].status # "absent"

AnswersArrived ==
    \A w \in Workers :
        pc[w] = "complete" /\ local[w].result = "accepted" => accepted[local[w].job] # 0

PInv == HeldAreOwed /\ AnswersArrived

\* A worker's completion: one more attempt of an open delivery.
LEMMA CompleteWrites ==
    ASSUME DInv, NEW w \in Workers, Complete(w)
    PROVE  LET e == local[w].job
               next == delivery[e].count + 1
           IN  /\ e \in Events
               /\ local[w].result \in Results
               /\ delivery[e].status \in Open
               /\ delivery[e].count \in 0..(MaxAttempts - 1)
               /\ delivery'[e].status = StatusAfter(local[w].result, next)
               /\ delivery'[e].count = next
               /\ history'[e][next] = local[w].result
               /\ \A f \in Events \ {e} : delivery'[f] = delivery[f] /\ history'[f] = history[f]
               /\ UNCHANGED accepted
<1> DEFINE e == local[w].job
           result == local[w].result
           next == delivery[e].count + 1
<1>1. /\ pc[w] = "complete"
      /\ delivery[e].owner = w
      /\ history' = [history EXCEPT ![e] = [history[e] EXCEPT ![Sequence(w)] = result]]
      /\ delivery' = [delivery EXCEPT ![e] = Completed(delivery[e], result, Sequence(w))]
      /\ UNCHANGED accepted
  BY DEF Complete, MayComplete
<1>2. /\ e \in Events
      /\ result \in Results
      /\ e \in Holds(w)
  BY <1>1 DEF DInv, BatchesFit, Holds
<1>3. /\ Sequence(w) = next
      /\ delivery[e].status \in Open
      /\ delivery[e] \in Deliveries
      /\ history[e] \in [Sequences -> Results \cup {None}]
      /\ TellsTheStory(delivery[e], history[e])
  BY <1>1, <1>2, DeliveryNone
  DEF DInv, TypeOK, JobsMatchRows, LockedAreOpen, AttemptsTellTheStory, Sequence
<1>4. next \in Sequences
  BY <1>2, <1>3, OneMoreAttempt
<1>5. delivery[e].count \in 0..(MaxAttempts - 1) /\ next \in 0..MaxAttempts
  BY <1>3, <1>4, DeliveryBounds DEF Sequences, Deliveries
<1>6. /\ delivery'[e] = Completed(delivery[e], result, next)
      /\ history'[e] = [history[e] EXCEPT ![next] = result]
      /\ \A f \in Events \ {e} : delivery'[f] = delivery[f] /\ history'[f] = history[f]
  BY <1>1, <1>2, <1>3 DEF DInv, TypeOK
<1>7. history'[e][next] = result
  BY <1>3, <1>4, <1>6
<1>8. StatusAfter(result, next) \in Statuses
  BY <1>2 DEF StatusAfter, Statuses, Open, Settled, Results
<1>9. delivery'[e].status = StatusAfter(result, next) /\ delivery'[e].count = next
  BY <1>3, <1>5, <1>6, <1>8, CompletedDelivery
<1> QED
  BY <1>1, <1>2, <1>3, <1>5, <1>6, <1>7, <1>9

\* A worker's request: one event leaves its jobs, and an answer 2xx arrives or not.
LEMMA SendAnswers ==
    ASSUME DInv, NEW w \in Workers, Send(w)
    PROVE  \E e \in local[w].jobs, result \in Results :
              /\ e \in Events
              /\ local'[w].jobs = local[w].jobs \ {e}
              /\ local'[w].job = e
              /\ local'[w].result = result
              /\ pc'[w] = "complete"
              /\ result = "accepted" => accepted'[e] # 0
              /\ \A f \in Events : accepted'[f] = 0 <=> accepted[f] = 0 /\ (f = e => result # "accepted")
              /\ \A v \in Workers \ {w} : pc'[v] = pc[v] /\ local'[v] = local[v]
              /\ UNCHANGED <<delivery, history>>
<1>1. PICK e \in local[w].jobs, result \in Results :
        /\ local' = [local EXCEPT ![w].jobs = local[w].jobs \ {e}, ![w].job = e,
                                  ![w].result = result]
        /\ accepted' = [accepted EXCEPT ![e] =
                IF result = "accepted" /\ accepted[e] < 2 THEN accepted[e] + 1 ELSE accepted[e]]
  BY DEF Send
<1>2. e \in Events /\ local[w] \in Batches
  BY DEF DInv, TypeOK, Batches
<1>3. /\ local'[w].jobs = local[w].jobs \ {e}
      /\ local'[w].job = e
      /\ local'[w].result = result
      /\ \A v \in Workers \ {w} : local'[v] = local[v]
  BY <1>1, <1>2 DEF DInv, TypeOK, Batches
<1>4. /\ pc'[w] = "complete"
      /\ \A v \in Workers \ {w} : pc'[v] = pc[v]
      /\ UNCHANGED <<delivery, history>>
  BY DEF Send, DInv, TypeOK
<1>5. /\ \A f \in Events \ {e} : accepted'[f] = accepted[f]
      /\ result # "accepted" => accepted'[e] = accepted[e]
      /\ result = "accepted" => accepted'[e] # 0
  BY <1>1, <1>2 DEF DInv, TypeOK
<1> QED
  BY <1>2, <1>3, <1>4, <1>5

\* Claims, lapses and due times change no delivery's status and no count.
LEMMA LockingIsUnseen ==
    ASSUME DInv,
           \/ \E w \in Workers : Claim(w)
           \/ \E f \in Events : LeaseLapses(f) \/ BecomesDue(f)
    PROVE  /\ \A e \in Events : /\ delivery'[e].status = delivery[e].status
                               /\ delivery'[e].count = delivery[e].count
           /\ UNCHANGED <<history, accepted>>
<1>1. \A e \in Events : delivery[e] \in Deliveries
  BY DEF DInv, TypeOK
<1>2. ASSUME NEW w \in Workers, Claim(w)
      PROVE  \A e \in Events : /\ delivery'[e].status = delivery[e].status
                              /\ delivery'[e].count = delivery[e].count
  <2>1. PICK batch : delivery' = [e \in Events |->
              IF e \in batch THEN [delivery[e] EXCEPT !.owner = w, !.lapsed = FALSE]
                             ELSE delivery[e]]
    BY <1>2 DEF Claim
  <2> QED
    BY <1>1, <2>1 DEF Deliveries
<1>3. ASSUME NEW f \in Events, LeaseLapses(f) \/ BecomesDue(f)
      PROVE  \A e \in Events : /\ delivery'[e].status = delivery[e].status
                              /\ delivery'[e].count = delivery[e].count
  <2>1. \/ delivery' = [delivery EXCEPT ![f].lapsed = TRUE]
        \/ delivery' = [delivery EXCEPT ![f].due = TRUE]
    BY <1>3 DEF LeaseLapses, BecomesDue
  <2> QED
    BY <1>1, <2>1 DEF DInv, TypeOK, Deliveries
<1> QED
  BY <1>2, <1>3 DEF Claim, LeaseLapses, BecomesDue

\* What an event is counts up: owed once, it stays so or ends; taken once, it stays taken.
LEMMA NothingIsTakenBack ==
    ASSUME DInv, [Next]_vars, NEW e \in Events
    PROVE  /\ delivery[e].status # "absent" => delivery'[e].status # "absent"
           /\ accepted[e] # 0 => accepted'[e] # 0
<1>1. ASSUME NEW w \in Workers, Materialize(w)
      PROVE  /\ delivery[e].status # "absent" => delivery'[e] = delivery[e]
             /\ UNCHANGED accepted
  BY <1>1 DEF Materialize, Oldest, Pending
<1>2. CASE \/ \E w \in Workers : Claim(w)
           \/ \E f \in Events : LeaseLapses(f) \/ BecomesDue(f)
  BY <1>2, LockingIsUnseen
<1>3. ASSUME NEW w \in Workers, Send(w)
      PROVE  delivery' = delivery /\ (accepted[e] # 0 => accepted'[e] # 0)
  BY <1>3, SendAnswers
<1>4. ASSUME NEW w \in Workers, Complete(w)
      PROVE  /\ delivery[e].status # "absent" => delivery'[e].status # "absent"
             /\ UNCHANGED accepted
  BY <1>4, CompleteWrites DEF StatusAfter, Results
<1>5. CASE \/ \E w \in Workers : CompleteRefused(w) \/ Fail(w)
           \/ \E a \in Admins : AdminStep(a)
           \/ \E f \in Events : CreateEvent(f)
           \/ UNCHANGED vars
  BY <1>5 DEF CompleteRefused, Fail, AdminStep, ReadEndpoint, UpsertEndpoint, DisableEndpoint,
     CreateEvent, vars
<1> QED
  BY <1>1, <1>2, <1>3, <1>4, <1>5 DEF Next, WorkerStep

\* A worker comes to hold an event by claiming it, and an answer by sending.
LEMMA HoldingStarts ==
    ASSUME DInv, [Next]_vars, NEW w \in Workers
    PROVE  \/ Claim(w)
           \/ Send(w)
           \/ Holds(w)' \subseteq Holds(w)
                /\ (pc'[w] = "complete" => pc[w] = "complete" /\ local'[w] = local[w])
<1>1. ASSUME NEW v \in Workers, v # w, WorkerStep(v) \/ Fail(v)
      PROVE  pc'[w] = pc[w] /\ local'[w] = local[w]
  <2>1. CASE Materialize(v) \/ Claim(v) \/ CompleteRefused(v) \/ Fail(v)
    BY <1>1, <2>1 DEF Materialize, Claim, CompleteRefused, Fail, Abandon, DInv, TypeOK
  <2>2. CASE Send(v)
    BY <1>1, <2>2, SendAnswers
  <2>3. CASE Complete(v)
    BY <1>1, <2>3 DEF Complete, DInv, TypeOK
  <2> QED
    BY <1>1, <2>1, <2>2, <2>3 DEF WorkerStep
<1>2. CASE Materialize(w)
  BY <1>2 DEF Materialize, Holds, DInv, TypeOK
<1>3. CASE CompleteRefused(w) \/ Fail(w)
  BY <1>3 DEF CompleteRefused, Fail, Abandon, Holds, NoBatch, DInv, TypeOK
<1>4. CASE Complete(w)
  <2>1. pc'[w] \in {"idle", "send"} /\ local'[w].jobs \subseteq local[w].jobs
    <3>1. CASE local[w].jobs = {}
      BY <1>4, <3>1 DEF Complete, NoBatch, DInv, TypeOK
    <3>2. CASE local[w].jobs # {}
      BY <1>4, <3>2 DEF Complete, DInv, TypeOK, Batches
    <3> QED
      BY <3>1, <3>2
  <2> QED
    BY <2>1 DEF Holds
<1>5. CASE \/ \E a \in Admins : AdminStep(a)
           \/ \E e \in Events : CreateEvent(e) \/ LeaseLapses(e) \/ BecomesDue(e)
           \/ UNCHANGED vars
  BY <1>5 DEF AdminStep, ReadEndpoint, UpsertEndpoint, DisableEndpoint, CreateEvent,
     LeaseLapses, BecomesDue, vars, workers, Holds
<1>6. pc'[w] = pc[w] /\ local'[w] = local[w] => Holds(w)' = Holds(w)
  BY DEF Holds
<1> QED
  BY <1>1, <1>2, <1>3, <1>4, <1>5, <1>6 DEF Next, WorkerStep

LEMMA InitPromises == Init => PInv
BY DEF Init, PInv, HeldAreOwed, AnswersArrived, Holds, NoBatch

LEMMA NextPromises ==
    ASSUME DInv, PInv, [Next]_vars
    PROVE  PInv'
<1>1. \A w \in Workers : Holds(w) \subseteq Events
  BY DEF DInv, TypeOK, Batches, BatchesFit, Holds
<1>2. HeldAreOwed'
  <2> SUFFICES ASSUME NEW w \in Workers, NEW e \in Holds(w)'
               PROVE  delivery'[e].status # "absent"
    BY DEF HeldAreOwed
  <2>1. CASE e \in Holds(w)
    BY <1>1, <2>1, NothingIsTakenBack DEF PInv, HeldAreOwed
  <2>2. CASE Claim(w)
    <3>1. e \in Claimable
      BY <2>2 DEF Claim, Holds, DInv, TypeOK, NoBatch
    <3> QED
      BY <3>1, NothingIsTakenBack DEF Claimable, Unsettled, Open
  <2>3. CASE Send(w)
    BY <2>1, <2>3, SendAnswers DEF Holds
  <2> QED
    BY <2>1, <2>2, <2>3, HoldingStarts
<1>3. AnswersArrived'
  <2> SUFFICES ASSUME NEW w \in Workers, pc'[w] = "complete", local'[w].result = "accepted"
               PROVE  accepted'[local'[w].job] # 0
    BY DEF AnswersArrived
  <2>1. CASE Claim(w)
    BY <2>1 DEF Claim, DInv, TypeOK
  <2>2. CASE Send(w)
    BY <2>2, SendAnswers
  <2>3. CASE pc[w] = "complete" /\ local'[w] = local[w]
    <3>1. local[w].job \in Events
      BY <2>3 DEF DInv, BatchesFit
    <3> QED
      BY <2>3, <3>1, NothingIsTakenBack DEF PInv, AnswersArrived
  <2> QED
    BY <2>1, <2>2, <2>3, HoldingStarts
<1> QED
  BY <1>2, <1>3 DEF PInv

State == [e \in Events |-> StateOf(delivery[e], history[e])]

Tries == [e \in Events |-> delivery[e].count]

Taken == {e \in Events : accepted[e] # 0}

\* Locks, leases and due times are none of the merchant's business.
LEMMA SameRowsStutter ==
    ASSUME \A e \in Events : /\ delivery'[e].status = delivery[e].status
                             /\ delivery'[e].count = delivery[e].count,
           UNCHANGED <<history, accepted>>
    PROVE  UNCHANGED Promise!vars
<1>1. \A e \in Events : StateOf(delivery[e], history[e])' = StateOf(delivery[e], history[e])
  BY DEF StateOf
<1> QED
  BY <1>1 DEF Promise!vars

LEMMA InitIsPromise == Init => Promise!Init
<1> SUFFICES ASSUME Init
             PROVE  Promise!Init
  OBVIOUS
<1>1. \A e \in Events : StateOf(delivery[e], history[e]) = "absent" /\ delivery[e].count = 0
  <2>1. \A e \in Events : delivery[e] = NoDelivery
    BY DEF Init
  <2>2. NoDelivery.status = "absent" /\ NoDelivery.count = 0
    BY DEF NoDelivery
  <2> QED
    BY <2>1, <2>2 DEF StateOf, Open
<1>2. {e \in Events : accepted[e] # 0} = {}
  BY DEF Init
<1> QED
  BY <1>1, <1>2 DEF Promise!Init

LEMMA MaterializeIsOwe ==
    ASSUME DInv, NEW w \in Workers, Materialize(w)
    PROVE  Promise!Next
<1> DEFINE new == Oldest(Pending, MaterializeLimit)
<1>1. \A e \in new : e \in Events /\ delivery[e].status = "absent"
  BY DEF Oldest, Pending
<1>2. /\ \A e \in Events :
            delivery'[e] = IF e \in new
                           THEN [NoDelivery EXCEPT !.status = "pending", !.due = TRUE]
                           ELSE delivery[e]
      /\ UNCHANGED <<history, accepted>>
  BY DEF Materialize
<1> HIDE DEF new
<1>3. new \in SUBSET {e \in Events : State[e] = "absent"}
  <2>1. \A e \in new : State[e] = "absent"
    BY <1>1 DEF State, StateOf, Open
  <2> QED
    BY <1>1, <2>1
<1>4. State' = [e \in Events |-> IF e \in new THEN "owed" ELSE State[e]]
  <2>1. \A e \in new : StateOf(delivery[e], history[e])' = "owed"
    BY <1>1, <1>2 DEF StateOf, NoDelivery, Open
  <2>2. \A e \in Events \ new :
           StateOf(delivery[e], history[e])' = StateOf(delivery[e], history[e])
    BY <1>2 DEF StateOf
  <2> QED
    BY <2>1, <2>2 DEF State
<1>5. \A e \in Events : delivery'[e].count = delivery[e].count
  <2>1. [NoDelivery EXCEPT !.status = "pending", !.due = TRUE].count = 0
    BY DEF NoDelivery
  <2>2. \A e \in new : delivery[e].count = 0
    BY <1>1 DEF DInv, AttemptsTellTheStory, TellsTheStory
  <2> QED
    BY <1>2, <2>1, <2>2
<1>6. Promise!Owe
  BY <1>2, <1>3, <1>4, <1>5 DEF State, Promise!Owe
<1> QED
  BY <1>6 DEF Promise!Next

LEMMA SendIsTake ==
    ASSUME DInv, PInv, NEW w \in Workers, Send(w)
    PROVE  [Promise!Next]_(Promise!vars)
<1>1. PICK e \in local[w].jobs, result \in Results :
         /\ e \in Events
         /\ \A f \in Events : accepted'[f] = 0 <=> accepted[f] = 0 /\ (f = e => result # "accepted")
         /\ UNCHANGED <<delivery, history>>
  BY SendAnswers
<1>2. delivery[e].status # "absent" /\ delivery[e].status \in Statuses
  BY <1>1 DEF PInv, HeldAreOwed, Holds, DInv, TypeOK, Deliveries
<1>3. CASE result = "accepted"
  <2>1. Taken' = Taken \cup {e}
    BY <1>1, <1>3 DEF Taken
  <2>2. State[e] # "absent"
    BY <1>1, <1>2 DEF State, StateOf, Statuses, Open, Settled
  <2>3. State' = State /\ Tries' = Tries
    BY <1>1 DEF State, StateOf, Tries
  <2>4. Promise!Take(e)
    BY <2>1, <2>2, <2>3 DEF State, Tries, Taken, Promise!Take
  <2> QED
    BY <1>1, <2>4 DEF Promise!Next
<1>4. CASE result # "accepted"
  <2>1. Taken' = Taken /\ State' = State /\ Tries' = Tries
    BY <1>1, <1>4 DEF Taken, State, StateOf, Tries
  <2> QED
    BY <2>1 DEF State, Tries, Taken, Promise!vars
<1> QED
  BY <1>3, <1>4

LEMMA CompleteIsTry ==
    ASSUME DInv, PInv, NEW w \in Workers, Complete(w)
    PROVE  Promise!Next
<1>0. PICK e \in Events : e = local[w].job
  BY CompleteWrites
<1> DEFINE result == local[w].result
           next == delivery[e].count + 1
           after == StatusAfter(result, next)
<1>1. /\ result \in Results
      /\ delivery[e].status \in Open
      /\ delivery[e].count \in 0..(MaxAttempts - 1)
      /\ delivery'[e].status = after
      /\ delivery'[e].count = next
      /\ history'[e][next] = result
      /\ \A f \in Events \ {e} : delivery'[f] = delivery[f] /\ history'[f] = history[f]
      /\ UNCHANGED accepted
  BY <1>0, CompleteWrites
<1>2. result = "accepted" => e \in Taken
  BY <1>0, <1>1 DEF Complete, MayComplete, PInv, AnswersArrived, Taken
<1> DEFINE s == StateOf(delivery'[e], history'[e])
<1>3. s \in {"refused"} \cup (IF e \in Taken THEN {"delivered"} ELSE {})
              \cup (IF next < MaxAttempts THEN {"owed"} ELSE {"exhausted"})
  <2>1. CASE result = "accepted"
    BY <1>1, <1>2, <2>1 DEF StateOf, StatusAfter, Open
  <2>2. CASE result = "refused"
    BY <1>1, <2>2 DEF StateOf, StatusAfter, Open
  <2>3. CASE result = "again"
    BY <1>1, <2>3, DeliveryBounds DEF StateOf, StatusAfter, Spent, Open
  <2> QED
    BY <1>1, <2>1, <2>2, <2>3 DEF Results
<1>4. State' = [State EXCEPT ![e] = s] /\ State[e] = "owed"
  <2>1. StateOf(delivery[e], history[e]) = "owed"
    BY <1>1 DEF StateOf, Open
  <2>2. \A f \in Events \ {e} :
           StateOf(delivery'[f], history'[f]) = StateOf(delivery[f], history[f])
    BY <1>1
  <2>3. State' = [f \in Events |-> StateOf(delivery'[f], history'[f])]
    BY DEF State
  <2> QED
    BY <1>1, <2>1, <2>2, <2>3 DEF State
<1>5. Tries' = [Tries EXCEPT ![e] = Tries[e] + 1] /\ Tries[e] = delivery[e].count
  BY <1>1 DEF Tries
<1>6. Taken' = Taken
  BY <1>1 DEF Taken
<1>7. s \in Promise!Ends(e)
  BY <1>1, <1>3, <1>5 DEF Promise!Ends, Tries, Taken
<1> HIDE DEF s
<1>8. Promise!Try(e)
  <2>1. Tries[e] < MaxAttempts
    BY <1>1, <1>5, DeliveryBounds
  <2>2. \E t \in Promise!Ends(e) : State' = [State EXCEPT ![e] = t]
    BY <1>4, <1>7
  <2> QED
    BY <1>4, <1>5, <1>6, <2>1, <2>2 DEF State, Tries, Taken, Promise!Try
<1> QED
  BY <1>8 DEF Promise!Next

LEMMA NextIsPromise ==
    ASSUME DInv, PInv, [Next]_vars
    PROVE  [Promise!Next]_(Promise!vars)
<1>1. CASE \/ \E w \in Workers : Claim(w)
           \/ \E e \in Events : LeaseLapses(e) \/ BecomesDue(e)
  BY <1>1, LockingIsUnseen, SameRowsStutter
<1>2. CASE \/ \E w \in Workers : CompleteRefused(w) \/ Fail(w)
           \/ \E a \in Admins : AdminStep(a)
           \/ \E e \in Events : CreateEvent(e)
           \/ UNCHANGED vars
  <2>1. UNCHANGED <<delivery, history, accepted>>
    BY <1>2 DEF CompleteRefused, Fail, AdminStep, ReadEndpoint, UpsertEndpoint, DisableEndpoint,
       CreateEvent, vars
  <2> QED
    BY <2>1, SameRowsStutter
<1> QED
  BY <1>1, <1>2, MaterializeIsOwe, SendIsTake, CompleteIsTry DEF Next, WorkerStep

\* The workers keep the promise to the merchant, for any number of workers, events and
\* attempts, whenever leases lapse and whatever calls fail.
THEOREM PromiseKept == Spec => KeepsPromise
<1>1. Spec => []PInv
  BY InitPromises, NextPromises, DeliveryInvariance, PTL DEF Spec
<1> QED
  BY <1>1, InitIsPromise, NextIsPromise, DeliveryInvariance, PTL
     DEF Spec, KeepsPromise, Promise!Spec

-----------------------------------------------------------------------------
(* The activation window, when changes of the endpoint do not overlap.      *)

\* A request that has read a disabled endpoint writes an activation time after
\* its disabling, because nobody has changed the endpoint since.
WindowInv ==
    /\ TypeOK
    /\ endpoint.updatedAt <= clock
    /\ \A a \in Admins :
          admin[a] # NoRequest =>
              /\ admin[a].updatedAt <= clock
              /\ ~endpoint.enabled => admin[a].activeSince >= endpoint.updatedAt

LEMMA InitWindow == Init => WindowInv
BY InitDelivers DEF DInv, Init, NoEndpoint, WindowInv

LEMMA NextWindow == DInv /\ DInv' /\ WindowInv /\ [Next]_vars => WindowInv'
<1> SUFFICES ASSUME DInv, DInv', WindowInv, [Next]_vars
             PROVE  WindowInv'
  OBVIOUS
<1>1. TypeOK' /\ TypeOK
  BY DEF DInv
<1>2. CASE UNCHANGED <<clock, endpoint, admin>>
  BY <1>1, <1>2 DEF WindowInv
<1>3. ASSUME NEW a \in Admins, AdminStep(a)
      PROVE  WindowInv'
  <2>1. \A b \in Admins : b = a
    BY SerialAdminAssumption
  <2>2. CASE ReadEndpoint(a)
    BY <1>1, <2>1, <2>2 DEF ReadEndpoint, ActivationTime, WindowInv, TypeOK, Endpoints,
       Requests, outbox
  <2>3. CASE UpsertEndpoint(a)
    BY <1>1, <2>1, <2>3 DEF UpsertEndpoint, WindowInv, TypeOK, Requests, outbox
  <2>4. CASE DisableEndpoint(a)
    BY <1>1, <2>1, <2>4 DEF DisableEndpoint, WindowInv, TypeOK, Endpoints, outbox
  <2> QED
    BY <1>3, <2>2, <2>3, <2>4 DEF AdminStep
<1>4. ASSUME NEW e \in Events, CreateEvent(e)
      PROVE  WindowInv'
  BY <1>1, <1>4 DEF CreateEvent, control, WindowInv, TypeOK, Endpoints, Requests
<1>5. ASSUME NEW w \in Workers, WorkerStep(w) \/ Fail(w)
      PROVE  UNCHANGED <<clock, endpoint, admin>>
  BY <1>5 DEF WorkerStep, Materialize, Claim, Send, Complete, CompleteRefused, Fail,
     outbox, control
<1>6. ASSUME NEW e \in Events, LeaseLapses(e) \/ BecomesDue(e)
      PROVE  UNCHANGED <<clock, endpoint, admin>>
  BY <1>6 DEF LeaseLapses, BecomesDue, outbox, control
<1>7. UNCHANGED vars => UNCHANGED <<clock, endpoint, admin>>
  BY DEF vars
<1> QED
  BY <1>2, <1>3, <1>4, <1>5, <1>6, <1>7 DEF Next

\* After a disabling the window starts anew: no event from before it is sent because
\* the endpoint is enabled again (SetEndpoint, UpsertWebhookEndpoint).
THEOREM WindowIsReset == Spec => WindowResets
<1>1. Spec => []WindowInv
  BY InitWindow, NextWindow, DeliveryInvariance, PTL DEF Spec
<1>2. ASSUME WindowInv, [Next]_vars, ~endpoint.enabled, endpoint'.enabled
      PROVE  endpoint'.activeSince >= endpoint.updatedAt
  <2>1. ASSUME NEW a \in Admins, AdminStep(a)
        PROVE  endpoint'.activeSince >= endpoint.updatedAt
    <3>1. CASE UpsertEndpoint(a)
      BY <1>2, <3>1 DEF UpsertEndpoint, WindowInv
    <3>2. CASE ReadEndpoint(a)
      BY <1>2, <3>2 DEF ReadEndpoint
    <3>3. CASE DisableEndpoint(a)
      BY <1>2, <3>3 DEF DisableEndpoint, WindowInv, TypeOK, Endpoints
    <3> QED
      BY <2>1, <3>1, <3>2, <3>3 DEF AdminStep
  <2>2. ASSUME NEW w \in Workers, WorkerStep(w) \/ Fail(w)
        PROVE  endpoint' = endpoint
    BY <2>2 DEF WorkerStep, Materialize, Claim, Send, Complete, CompleteRefused, Fail, control
  <2>3. ASSUME NEW e \in Events, CreateEvent(e) \/ LeaseLapses(e) \/ BecomesDue(e)
        PROVE  endpoint' = endpoint
    BY <2>3 DEF CreateEvent, LeaseLapses, BecomesDue, control
  <2> QED
    BY <1>2, <2>1, <2>2, <2>3 DEF Next, vars
<1>3. WindowInv /\ [Next]_vars =>
        [~endpoint.enabled /\ endpoint'.enabled =>
            endpoint'.activeSince >= endpoint.updatedAt]_vars
  BY <1>2
<1> QED
  BY <1>1, <1>3, PTL DEF Spec, WindowResets

-----------------------------------------------------------------------------
(* The back-off.  The recursive function is compared with a table, by the least
   sequence at which the two would differ. *)

Doublings == <<30, 60, 120, 240, 480, 960, 1920, 3840, 7680, 15360, 30720>>

BaseTable ==
    [n \in Nat |-> IF n <= 1 THEN 30 ELSE IF n <= 11 THEN Doublings[n] ELSE 21600]

LEMMA TableDoubles ==
    BaseTable = [n \in Nat |-> IF n <= 1 THEN First ELSE NextBase(BaseTable[n - 1])]
<1>1. ASSUME NEW n \in Nat
      PROVE  BaseTable[n] = IF n <= 1 THEN First ELSE NextBase(BaseTable[n - 1])
  <2>1. CASE n <= 1
    BY <2>1 DEF BaseTable, First
  <2>2. CASE n > 1
    <3>1. /\ BaseTable[n] = IF n <= 11 THEN Doublings[n] ELSE 21600
          /\ BaseTable[n - 1] = IF n = 2 THEN 30 ELSE IF n <= 12 THEN Doublings[n - 1] ELSE 21600
      BY <2>2 DEF BaseTable
    <3>2. CASE n \in 2..12
      BY <3>1, <3>2 DEF Doublings, NextBase, Longest
    <3>3. CASE n > 12
      BY <3>1, <3>3 DEF NextBase, Longest
    <3> QED
      BY <2>2, <3>2, <3>3
  <2> QED
    BY <2>1, <2>2
<1> QED
  BY <1>1 DEF BaseTable

LEMMA BasesDouble ==
    Bases = [n \in Nat |-> IF n <= 1 THEN First ELSE NextBase(Bases[n - 1])]
BY TableDoubles DEF Bases

LEMMA LeastExists ==
    ASSUME NEW T \in SUBSET Nat, T # {}
    PROVE  \E x \in T : \A y \in T : x <= y
<1>1. PICK x \in T : \A y \in T : <<y, x>> \notin OpToRel(<, Nat)
  BY NatLessThanWellFounded, WFMin
<1>2. ASSUME NEW y \in T
      PROVE  x <= y
  <2>1. <<y, x>> \in Nat \X Nat
    OBVIOUS
  <2>2. ~(y < x)
    BY <1>1, <2>1 DEF OpToRel
  <2> QED
    BY <2>2
<1> QED
  BY <1>2

LEMMA BasesAreTabled == \A n \in Nat : Bases[n] = BaseTable[n]
<1> DEFINE T == {n \in Nat : Bases[n] # BaseTable[n]}
<1>1. ASSUME T # {}
      PROVE  FALSE
  <2>1. PICK x \in T : \A y \in T : x <= y
    BY <1>1, LeastExists
  <2>2. x \in Nat /\ Bases[x] # BaseTable[x]
    OBVIOUS
  <2>3. /\ Bases[x] = IF x <= 1 THEN First ELSE NextBase(Bases[x - 1])
        /\ BaseTable[x] = IF x <= 1 THEN First ELSE NextBase(BaseTable[x - 1])
    BY <2>2, BasesDouble, TableDoubles
  <2>4. x > 1
    BY <2>2, <2>3
  <2>5. x - 1 \in Nat /\ x - 1 \notin T
    BY <2>1, <2>2, <2>4
  <2>6. Bases[x - 1] = BaseTable[x - 1]
    BY <2>5
  <2> QED
    BY <2>2, <2>3, <2>4, <2>6
<1> QED
  BY <1>1

LEMMA PowersOfTwo ==
    /\ 2^0 = 1 /\ 2^1 = 2 /\ 2^2 = 4 /\ 2^3 = 8 /\ 2^4 = 16
    /\ 2^5 = 32 /\ 2^6 = 64 /\ 2^7 = 128 /\ 2^8 = 256 /\ 2^9 = 512
OBVIOUS

\* The bases are tens of seconds, whose tenths are whole seconds.
IsDelay(base) == \E ten \in Nat : base = 10 * ten /\ 30 <= base /\ base <= Longest

\* What the loop computes for an ideal base: what goes past the cap stays close to it.
IsUncapped(base, ideal) ==
    /\ base \in Nat /\ base <= 2 * Longest
    /\ base > Longest => ideal = Longest
    /\ base <= Longest => ideal = base
    /\ IsDelay(ideal)

LEMMA Delays ==
    /\ IsDelay(30) /\ IsDelay(60) /\ IsDelay(120) /\ IsDelay(240) /\ IsDelay(480)
    /\ IsDelay(960) /\ IsDelay(1920) /\ IsDelay(3840) /\ IsDelay(7680) /\ IsDelay(15360)
    /\ IsDelay(Longest)
<1>1. 30 = 10 * 3 /\ 3 \in Nat
  BY SMT DEF Longest
<1>2. 60 = 10 * 6 /\ 6 \in Nat
  BY SMT DEF Longest
<1>3. 120 = 10 * 12 /\ 12 \in Nat
  BY SMT DEF Longest
<1>4. 240 = 10 * 24 /\ 24 \in Nat
  BY SMT DEF Longest
<1>5. 480 = 10 * 48 /\ 48 \in Nat
  BY SMT DEF Longest
<1>6. 960 = 10 * 96 /\ 96 \in Nat
  BY SMT DEF Longest
<1>7. 1920 = 10 * 192 /\ 192 \in Nat
  BY SMT DEF Longest
<1>8. 3840 = 10 * 384 /\ 384 \in Nat
  BY SMT DEF Longest
<1>9. 7680 = 10 * 768 /\ 768 \in Nat
  BY SMT DEF Longest
<1>10. 15360 = 10 * 1536 /\ 1536 \in Nat
  BY SMT DEF Longest
<1>11. Longest = 10 * 2160 /\ 2160 \in Nat
  BY SMT DEF Longest
<1> QED
  BY <1>1, <1>2, <1>3, <1>4, <1>5, <1>6, <1>7, <1>8, <1>9, <1>10, <1>11, SMT DEF IsDelay, Longest

LEMMA TableIsIdeal ==
    ASSUME NEW n \in Nat \ {0}
    PROVE  IsUncapped(BaseTable[n], IdealBase(n))
<1>1. BaseTable[n] = IF n <= 1 THEN 30 ELSE IF n <= 11 THEN Doublings[n] ELSE Longest
  BY SMT DEF BaseTable, Longest
<1>2. IdealBase(n) = IF n > 10 THEN Longest ELSE 30 * 2^(n - 1)
  BY SMT DEF IdealBase, First
<1>3. CASE n = 1
  <2>1. n - 1 = 0 /\ BaseTable[n] = 30
    BY <1>1, <1>3, SMT DEF Doublings
  <2>2. IdealBase(n) = 30
    BY <1>2, <1>3, <2>1, PowersOfTwo, SMT
  <2> QED
    BY <2>1, <2>2, Delays, SMT DEF IsUncapped, Longest
<1>4. CASE n = 2
  <2>1. n - 1 = 1 /\ BaseTable[n] = 60
    BY <1>1, <1>4, SMT DEF Doublings
  <2>2. IdealBase(n) = 60
    BY <1>2, <1>4, <2>1, PowersOfTwo, SMT
  <2> QED
    BY <2>1, <2>2, Delays, SMT DEF IsUncapped, Longest
<1>5. CASE n = 3
  <2>1. n - 1 = 2 /\ BaseTable[n] = 120
    BY <1>1, <1>5, SMT DEF Doublings
  <2>2. IdealBase(n) = 120
    BY <1>2, <1>5, <2>1, PowersOfTwo, SMT
  <2> QED
    BY <2>1, <2>2, Delays, SMT DEF IsUncapped, Longest
<1>6. CASE n = 4
  <2>1. n - 1 = 3 /\ BaseTable[n] = 240
    BY <1>1, <1>6, SMT DEF Doublings
  <2>2. IdealBase(n) = 240
    BY <1>2, <1>6, <2>1, PowersOfTwo, SMT
  <2> QED
    BY <2>1, <2>2, Delays, SMT DEF IsUncapped, Longest
<1>7. CASE n = 5
  <2>1. n - 1 = 4 /\ BaseTable[n] = 480
    BY <1>1, <1>7, SMT DEF Doublings
  <2>2. IdealBase(n) = 480
    BY <1>2, <1>7, <2>1, PowersOfTwo, SMT
  <2> QED
    BY <2>1, <2>2, Delays, SMT DEF IsUncapped, Longest
<1>8. CASE n = 6
  <2>1. n - 1 = 5 /\ BaseTable[n] = 960
    BY <1>1, <1>8, SMT DEF Doublings
  <2>2. IdealBase(n) = 960
    BY <1>2, <1>8, <2>1, PowersOfTwo, SMT
  <2> QED
    BY <2>1, <2>2, Delays, SMT DEF IsUncapped, Longest
<1>9. CASE n = 7
  <2>1. n - 1 = 6 /\ BaseTable[n] = 1920
    BY <1>1, <1>9, SMT DEF Doublings
  <2>2. IdealBase(n) = 1920
    BY <1>2, <1>9, <2>1, PowersOfTwo, SMT
  <2> QED
    BY <2>1, <2>2, Delays, SMT DEF IsUncapped, Longest
<1>10. CASE n = 8
  <2>1. n - 1 = 7 /\ BaseTable[n] = 3840
    BY <1>1, <1>10, SMT DEF Doublings
  <2>2. IdealBase(n) = 3840
    BY <1>2, <1>10, <2>1, PowersOfTwo, SMT
  <2> QED
    BY <2>1, <2>2, Delays, SMT DEF IsUncapped, Longest
<1>11. CASE n = 9
  <2>1. n - 1 = 8 /\ BaseTable[n] = 7680
    BY <1>1, <1>11, SMT DEF Doublings
  <2>2. IdealBase(n) = 7680
    BY <1>2, <1>11, <2>1, PowersOfTwo, SMT
  <2> QED
    BY <2>1, <2>2, Delays, SMT DEF IsUncapped, Longest
<1>12. CASE n = 10
  <2>1. n - 1 = 9 /\ BaseTable[n] = 15360
    BY <1>1, <1>12, SMT DEF Doublings
  <2>2. IdealBase(n) = 15360
    BY <1>2, <1>12, <2>1, PowersOfTwo, SMT
  <2> QED
    BY <2>1, <2>2, Delays, SMT DEF IsUncapped, Longest
<1>13. CASE n = 11
  <2>1. BaseTable[n] = 30720 /\ IdealBase(n) = Longest
    BY <1>1, <1>2, <1>13, SMT DEF Doublings
  <2> QED
    BY <2>1, Delays, SMT DEF IsUncapped, Longest
<1>14. CASE n > 11
  <2>1. BaseTable[n] = Longest /\ IdealBase(n) = Longest
    BY <1>1, <1>2, <1>14, SMT
  <2> QED
    BY <2>1, Delays, SMT DEF IsUncapped, Longest
<1>15. \/ n = 1 \/ n = 2 \/ n = 3 \/ n = 4 \/ n = 5 \/ n = 6 \/ n = 7
       \/ n = 8 \/ n = 9 \/ n = 10 \/ n = 11 \/ n > 11
  OBVIOUS
<1> QED
  BY <1>3, <1>4, <1>5, <1>6, <1>7, <1>8, <1>9, <1>10, <1>11, <1>12, <1>13, <1>14, <1>15

LEMMA BaseIsIdeal ==
    ASSUME NEW sequence \in Int
    PROVE  /\ Base(sequence) = IdealBase(sequence)
           /\ IsDelay(Base(sequence))
           /\ sequence >= 1 => Bases[sequence] \in Nat /\ Bases[sequence] <= 2 * Longest
<1> DEFINE n == IF sequence < 1 THEN 1 ELSE sequence
<1>1. n \in Nat \ {0} /\ IdealBase(n) = IdealBase(sequence)
  BY PowersOfTwo, SMT DEF IdealBase, First
<1>2. Base(sequence) = IF Bases[n] > Longest THEN Longest ELSE Bases[n]
  BY DEF Base
<1>3. sequence >= 1 => n = sequence
  OBVIOUS
<1> HIDE DEF n
<1>4. n \in Nat /\ Bases[n] = BaseTable[n]
  BY <1>1, BasesAreTabled
<1>5. IsUncapped(Bases[n], IdealBase(n))
  BY <1>1, <1>4, TableIsIdeal, Zenon
<1>6. Longest \in Nat
  BY SMT DEF Longest
<1>7. Base(sequence) = IdealBase(n)
  BY <1>2, <1>5, <1>6 DEF IsUncapped
<1>8. IsDelay(IdealBase(n)) /\ Bases[n] \in Nat /\ Bases[n] <= 2 * Longest
  BY <1>5 DEF IsUncapped
<1> QED
  BY <1>1, <1>3, <1>7, <1>8

\* Thousandths are cut off, and the base is a multiple of ten.
LEMMA JitterIsATenth ==
    ASSUME NEW base, IsDelay(base), NEW permille \in 900..1100
    PROVE  LET d == ((base * permille) \div 1000) * 10
           IN  9 * base <= d /\ d <= 11 * base
<1>1. PICK ten \in Nat : base = 10 * ten
  BY DEF IsDelay
<1> DEFINE product == ten * permille
<1>2. product \in Int /\ 900 * ten <= product /\ product <= 1100 * ten
  BY SMT
<1>3. base * permille = 10 * product
  BY <1>1, SMT
<1> HIDE DEF product
<1>4. /\ 90 * ten <= ((10 * product) \div 1000) * 10
      /\ ((10 * product) \div 1000) * 10 <= 110 * ten
  BY <1>2, SMT
<1> QED
  BY <1>1, <1>3, <1>4, SMT

\* Every retry of every delivery is bounded: the base is 30 s doubled for each attempt
\* before, at most six hours, the jitter stays within a tenth of it, and nothing that is
\* computed on the way overflows (retryDelay).
THEOREM EveryDelayIsBounded ==
    \A sequence \in Int : DelayIsBounded(sequence, Buckets)
<1> SUFFICES ASSUME NEW sequence \in Int
             PROVE  DelayIsBounded(sequence, Buckets)
  OBVIOUS
<1>1. Base(sequence) = IdealBase(sequence) /\ IsDelay(Base(sequence))
  BY BaseIsIdeal
<1>2. ASSUME sequence >= 1
      PROVE  Bases[sequence] * 1100 < 10^8
  <2>1. 10^8 = 100000000
    BY SMT
  <2>2. Bases[sequence] \in Nat /\ Bases[sequence] <= 43200
    BY <1>2, BaseIsIdeal, SMT DEF Longest
  <2> QED
    BY <2>1, <2>2, SMT
<1>3. ASSUME NEW bucket \in Buckets
      PROVE  LET d == RetryDelay(sequence, bucket) * 10
             IN  9 * Base(sequence) <= d /\ d <= 11 * Base(sequence)
  <2>1. Permille(bucket) \in 900..1100
    BY SMT DEF Permille, Buckets
  <2> QED
    BY <1>1, <2>1, JitterIsATenth DEF RetryDelay
<1> QED
  BY <1>1, <1>2, <1>3 DEF DelayIsBounded

\* BackoffIsBounded: the sequences it speaks of are among those of EveryDelayIsBounded.
THEOREM BackoffBounded == Spec => []BackoffIsBounded
<1>1. DInv => BackoffIsBounded
  <2> SUFFICES ASSUME DInv, NEW e \in Events, NEW sequence \in delivery[e].count..45
               PROVE  EarlyDelays[sequence]
    BY DEF BackoffIsBounded
  <2>1. delivery[e].count \in Nat
    BY DEF DInv, TypeOK, Deliveries
  <2>2. sequence \in 0..45
    BY <2>1
  <2>3. DelayIsBounded(sequence, Buckets)
    BY <2>2, EveryDelayIsBounded
  <2>4. \A bucket \in {0, 100, 200, 201, 65535} : bucket \in Buckets
    BY SMT DEF Buckets
  <2>5. DelayIsBounded(sequence, {0, 100, 200, 201, 65535})
    BY <2>3, <2>4 DEF DelayIsBounded
  <2> QED
    BY <2>2, <2>5 DEF EarlyDelays
<1> QED
  BY <1>1, DeliveryInvariance, PTL

=============================================================================
