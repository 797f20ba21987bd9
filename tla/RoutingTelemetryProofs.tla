------------------------ MODULE RoutingTelemetryProofs ------------------------
(***************************************************************************)
(* What the circuit breaker guarantees for any number of executions and    *)
(* requests and any window, cool-down and sample size, whatever executions *)
(* overlap.                                                                *)
(*                                                                         *)
(* The first part rests on what a stale execution may carry: a circuit it  *)
(* has read is one that was opened no earlier than any other (ReadSince),  *)
(* and what it is about to write has its evidence already (HandlerHolds).  *)
(* The second adds that this write follows from what was read (StepFits),  *)
(* which later answers and reconciliations do not take back.               *)
(***************************************************************************)
EXTENDS RoutingTelemetry, TLAPS

Known(c) ==
    IF c.state = "closed" THEN c.openedAt = Never ELSE c.openedAt \in 1..clock

ReadSince(c) ==
    c.state # "closed" => firstOpened # Never /\ c.openedAt >= firstOpened

SuccessSince(t) ==
    \E a \in Attempts : attempt[a].status = "succeeded" /\ attempt[a].started >= t

\* What an execution is about to write has its evidence.
Founded(next) ==
    /\ next.state = "closed" => firstOpened # Never /\ SuccessSince(firstOpened)
    /\ next.state # "closed" => bad = 2
    /\ next.state = "half_open" => ReadSince(next)

HandlerHolds(h) ==
    LET l == local[h]
    IN  /\ Known(l.conn)
        /\ Known(l.next)
        /\ ReadSince(l.conn)
        /\ l.now <= clock
        /\ pc[h] \in Refreshing => l.now >= 1
        /\ l.previous.unhealthy => bad >= 1
        /\ pc[h] = "probe" => l.conn.state = "half_open"
        /\ pc[h] = "update" => Founded(l.next)
        /\ pc[h] = "answer" => l.sent # 0 /\ attempt[l.sent].status = "requesting"

SentApart ==
    \A g, h \in Handlers :
        pc[g] = "answer" /\ pc[h] = "answer" /\ local[g].sent = local[h].sent => g = h

TInv ==
    /\ TypeOK
    /\ OpensOnTwoSnapshots
    /\ ClosesOnSuccess
    /\ OpeningIsKnown
    /\ ReadSince(circuit)
    /\ latest.unhealthy => bad >= 1
    /\ SentApart
    /\ \A h \in Handlers : HandlerHolds(h)

-----------------------------------------------------------------------------

LEMMA InitTelemetry == Init => TInv
BY TelemetryBounds DEF Init, TInv, TypeOK, OpensOnTwoSnapshots, ClosesOnSuccess, OpeningIsKnown,
   ReadSince, SentApart, HandlerHolds, Known, Circuits, Closed, Snapshots, NoSnapshot,
   AttemptRows, Unsent, Statuses, Locals, NoLocal, Times, Never, Steps, Refreshing

\* Time, evidence and successes only grow.
Progress ==
    /\ clock' >= clock
    /\ bad' >= bad
    /\ firstOpened # Never => firstOpened' # Never /\ firstOpened' <= firstOpened
    /\ \A a \in Attempts : attempt[a].status = "succeeded" => attempt'[a] = attempt[a]

LEMMA KnownStays ==
    ASSUME TypeOK, TypeOK', clock' >= clock, NEW c \in Circuits, Known(c)
    PROVE  Known(c)'
BY DEF Known, TypeOK, Circuits, Times, Never

LEMMA ReadSinceStays ==
    ASSUME TypeOK, TypeOK', Progress, NEW c \in Circuits, ReadSince(c)
    PROVE  ReadSince(c)'
BY TelemetryBounds DEF ReadSince, TypeOK, Progress, Circuits, Times, Never

LEMMA SuccessStays ==
    ASSUME TypeOK, TypeOK', Progress, firstOpened # Never, SuccessSince(firstOpened)
    PROVE  SuccessSince(firstOpened)'
<1>1. PICK a \in Attempts : attempt[a].status = "succeeded" /\ attempt[a].started >= firstOpened
  BY DEF SuccessSince
<1>2. attempt'[a].status = "succeeded" /\ attempt'[a].started >= firstOpened'
  BY <1>1, TelemetryBounds DEF Progress, TypeOK, AttemptRows, Times, Never
<1> QED
  BY <1>2 DEF SuccessSince

LEMMA FoundedStays ==
    ASSUME TypeOK, TypeOK', Progress, NEW c \in Circuits, Founded(c)
    PROVE  Founded(c)'
<1>1. c.state # "closed" => bad' = 2
  BY DEF Founded, Progress, TypeOK
<1>2. c.state = "closed" => firstOpened' # Never /\ SuccessSince(firstOpened)'
  BY SuccessStays DEF Founded, Progress
<1>3. c.state = "half_open" => ReadSince(c)'
  BY ReadSinceStays DEF Founded
<1> QED
  BY <1>1, <1>2, <1>3 DEF Founded

\* Another execution, or time, takes a step.
LEMMA BystanderHolds ==
    ASSUME TypeOK, TypeOK', Progress, NEW g \in Handlers, HandlerHolds(g),
           pc'[g] = pc[g], local'[g] = local[g],
           pc[g] = "answer" => attempt'[local[g].sent] = attempt[local[g].sent]
    PROVE  HandlerHolds(g)'
<1> DEFINE l == local[g]
<1>1. l \in Locals
  BY DEF TypeOK
<1>2. l.conn \in Circuits /\ l.next \in Circuits
  BY <1>1 DEF Locals
<1>3. Known(l.conn)' /\ Known(l.next)'
  BY <1>2, KnownStays DEF HandlerHolds, Progress
<1>4. ReadSince(l.conn)'
  BY <1>2, ReadSinceStays DEF HandlerHolds
<1>5. pc[g] = "update" => Founded(l.next)'
  BY <1>2, FoundedStays DEF HandlerHolds
<1>6. l.now <= clock'
  BY <1>1 DEF HandlerHolds, Progress, TypeOK, Locals, Times, Never
<1>7. l.previous.unhealthy => bad' >= 1
  BY DEF HandlerHolds, Progress, TypeOK
<1> QED
  BY <1>3, <1>4, <1>5, <1>6, <1>7 DEF HandlerHolds

LEMMA ClosedStays ==
    ASSUME TInv, TypeOK', Progress, firstOpened' = firstOpened, circuit' = circuit
    PROVE  ClosesOnSuccess'
<1> SUFFICES ASSUME firstOpened # Never, circuit.state = "closed"
             PROVE  SuccessSince(firstOpened)'
  BY DEF ClosesOnSuccess, SuccessSince
<1> QED
  BY SuccessStays DEF TInv, ClosesOnSuccess, SuccessSince

\* A step of one execution that leaves the circuit and the attempts alone.
LEMMA ReadKeeps ==
    ASSUME TInv, TypeOK', NEW h \in Handlers,
           UNCHANGED <<clock, circuit, attempt, firstOpened>>, bad' >= bad,
           latest'.unhealthy => bad' >= 1,
           \A g \in Handlers \ {h} : pc'[g] = pc[g] /\ local'[g] = local[g],
           pc'[h] # "answer", HandlerHolds(h)'
    PROVE  TInv'
<1>1. Progress
  BY DEF Progress, TInv, TypeOK, Times, Never
<1>2. \A g \in Handlers : HandlerHolds(g)'
  <2> SUFFICES ASSUME NEW g \in Handlers \ {h}
               PROVE  HandlerHolds(g)'
    OBVIOUS
  <2> QED
    BY <1>1, BystanderHolds DEF TInv
<1>3. SentApart'
  BY DEF TInv, SentApart
<1>4. ClosesOnSuccess'
  BY <1>1, ClosedStays
<1>5. OpensOnTwoSnapshots'
  BY DEF TInv, OpensOnTwoSnapshots, TypeOK
<1>6. OpeningIsKnown' /\ ReadSince(circuit)'
  BY DEF TInv, OpeningIsKnown, ReadSince
<1> QED
  BY <1>2, <1>3, <1>4, <1>5, <1>6 DEF TInv


LEMMA NoLocalType == NoLocal \in Locals
<1>1. Never \in Times /\ 0 \in 0..MaxRequests
  BY TelemetryBounds DEF Times, Never
<1>2. Closed \in Circuits /\ NoSnapshot \in Snapshots
  BY <1>1 DEF Circuits, Closed, Snapshots, NoSnapshot
<1> QED
  BY <1>1, <1>2 DEF Locals, NoLocal

\* An execution that remembers nothing.
LEMMA RestedHolds ==
    ASSUME TInv, TypeOK', NEW h \in Handlers, local'[h] = NoLocal, pc'[h] = "idle"
    PROVE  HandlerHolds(h)'
BY DEF HandlerHolds, NoLocal, NoSnapshot, Closed, Known, ReadSince, Never, Refreshing, TypeOK

LEMMA ListConnectionsKeeps ==
    ASSUME TInv, NEW h \in Handlers, ListConnections(h)
    PROVE  TInv'
<1> DEFINE l == [NoLocal EXCEPT !.conn = circuit, !.now = clock]
<1>1. clock \in Times /\ circuit \in Circuits
  BY TelemetryBounds DEF TInv, TypeOK, Times, Never
<1>2. /\ l \in Locals
      /\ l.conn = circuit
      /\ l.now = clock
      /\ l.next = Closed
      /\ l.previous = NoSnapshot
  BY <1>1, NoLocalType DEF Locals, NoLocal
<1>3. local' = [local EXCEPT ![h] = l]
  BY DEF ListConnections
<1> HIDE DEF l
<1>4. TypeOK'
  BY <1>2, <1>3 DEF ListConnections, TInv, TypeOK, Steps, Refreshing, history
<1>5. local'[h] = l /\ pc'[h] = "previous"
  BY <1>3 DEF ListConnections, TInv, TypeOK
<1>6. UNCHANGED <<clock, circuit, latest, attempt, bad, firstOpened>>
  BY DEF ListConnections, history
<1>7. Known(circuit)' /\ ReadSince(circuit)'
  BY <1>6 DEF TInv, OpeningIsKnown, Known, ReadSince
<1>8. Known(Closed)'
  BY DEF Known, Closed
<1>9. clock' \in Nat /\ clock' >= 1
  BY <1>6 DEF TInv, TypeOK
<1>10. ~NoSnapshot.unhealthy
  BY DEF NoSnapshot
<1>11. HandlerHolds(h)'
  BY <1>2, <1>5, <1>6, <1>7, <1>8, <1>9, <1>10 DEF HandlerHolds, Known, ReadSince
<1> QED
  BY <1>3, <1>4, <1>5, <1>6, <1>11, ReadKeeps DEF ListConnections, TInv, TypeOK

LEMMA ReadPreviousKeeps ==
    ASSUME TInv, NEW h \in Handlers, ReadPrevious(h)
    PROVE  TInv'
<1>1. local[h] \in Locals /\ latest \in Snapshots
  BY DEF TInv, TypeOK
<1>2. PICK now \in local[h].now..clock :
        local' = [local EXCEPT ![h].now = now, ![h].previous = latest]
  BY DEF ReadPrevious
<1>3. /\ local[h].now \in Times /\ local[h].now >= 1
      /\ pc[h] = "previous"
  BY <1>1 DEF ReadPrevious, TInv, HandlerHolds, Refreshing, Locals
<1>4. now \in Times /\ now >= 1 /\ now <= clock
  BY <1>2, <1>3, TelemetryBounds DEF TInv, TypeOK, Times, Never
<1>5. PICK l : l = [local[h] EXCEPT !.now = now, !.previous = latest]
  OBVIOUS
<1>6. /\ l \in Locals
      /\ l.conn = local[h].conn /\ l.now = now /\ l.next = local[h].next
      /\ l.previous = latest
  BY <1>1, <1>4, <1>5 DEF Locals
<1>7. local' = [local EXCEPT ![h] = l]
  BY <1>2, <1>5 DEF TInv, TypeOK
<1>8. TypeOK'
  BY <1>6, <1>7 DEF ReadPrevious, TInv, TypeOK, Steps, Refreshing, history
<1>9. local'[h] = l /\ pc'[h] = "aggregate"
  BY <1>7 DEF ReadPrevious, TInv, TypeOK
<1>10. HandlerHolds(h)'
  BY <1>4, <1>6, <1>9 DEF ReadPrevious, TInv, TypeOK, HandlerHolds, Known, ReadSince, Refreshing, history
<1> QED
  BY <1>7, <1>8, <1>9, <1>10, ReadKeeps DEF ReadPrevious, TInv, TypeOK, history

LEMMA AggregateKeeps ==
    ASSUME TInv, NEW h \in Handlers, Aggregate(h)
    PROVE  TInv'
<1> DEFINE verdict == Unhealthy(Samples(local[h].now))
           l == [local[h] EXCEPT !.current = verdict]
<1>0. verdict \in BOOLEAN
  BY DEF Unhealthy
<1>1. local[h] \in Locals
  BY DEF TInv, TypeOK
<1> HIDE DEF verdict
<1>2. /\ l \in Locals
      /\ l.conn = local[h].conn /\ l.now = local[h].now /\ l.next = local[h].next
      /\ l.previous = local[h].previous
  BY <1>0, <1>1 DEF Locals
<1>3. local' = [local EXCEPT ![h] = l]
  BY DEF Aggregate, TInv, TypeOK, verdict
<1> HIDE DEF l
<1>4. TypeOK'
  BY <1>2, <1>3 DEF Aggregate, TInv, TypeOK, Steps, Refreshing, history
<1>5. local'[h] = l /\ pc'[h] = "save" /\ pc[h] = "aggregate"
  BY <1>3 DEF Aggregate, TInv, TypeOK
<1>6. HandlerHolds(h)'
  BY <1>2, <1>5 DEF Aggregate, TInv, TypeOK, HandlerHolds, Known, ReadSince, Refreshing, history
<1> QED
  BY <1>3, <1>4, <1>5, <1>6, ReadKeeps DEF Aggregate, TInv, TypeOK, history

\* What evaluateCircuit may write at once.
LEMMA EvaluatedCases ==
    ASSUME NEW l
    PROVE  /\ \/ l.conn.state = "closed" /\ Trips(l) /\ Evaluated(l) = Opened(l.now)
              \/ /\ l.conn.state = "open" /\ Cooled(l)
                 /\ Evaluated(l) = HalfOpened(l.conn.openedAt)
              \/ /\ l.conn.state = "half_open" /\ l.conn.openedAt = Never
                 /\ Evaluated(l) = Opened(l.now)
              \/ Evaluated(l) = l.conn
           /\ l.conn.state = "open" /\ l.conn.openedAt # Never /\ Cooled(l) =>
                 Evaluated(l) = HalfOpened(l.conn.openedAt)
BY DEF Evaluated

LEMMA SaveSnapshotKeeps ==
    ASSUME TInv, NEW h \in Handlers, SaveSnapshot(h)
    PROVE  TInv'
<1>1. PICK o \in Locals : o = local[h]
  BY DEF TInv, TypeOK
<1>2. /\ o.now \in Times /\ o.conn \in Circuits
      /\ o.current \in BOOLEAN /\ o.previous \in Snapshots
  BY DEF Locals
<1>3. /\ o.now >= 1 /\ o.now <= clock /\ Known(o.conn) /\ ReadSince(o.conn)
      /\ o.previous.unhealthy => bad >= 1
  BY <1>1 DEF TInv, HandlerHolds, SaveSnapshot, Refreshing
<1>4. Opened(o.now) \in Circuits /\ HalfOpened(o.conn.openedAt) \in Circuits
  BY <1>2 DEF Opened, HalfOpened, Circuits
<1>5. PICK next \in Circuits : next = Evaluated(o)
  BY <1>2, <1>4, EvaluatedCases
<1>6. PICK l \in Locals :
        l = [NoLocal EXCEPT !.conn = o.conn, !.now = o.now, !.next = next]
  BY <1>2, NoLocalType DEF Locals, NoLocal
<1>7. l.conn = o.conn /\ l.now = o.now /\ l.next = next /\ l.previous = NoSnapshot
  BY <1>6, NoLocalType DEF Locals, NoLocal
<1>8. local' = [local EXCEPT ![h] = l]
  BY <1>1, <1>5, <1>6 DEF SaveSnapshot
<1>9. PICK step : step = AfterSave(o)
  OBVIOUS
<1>10. /\ step = "update" => next # o.conn
       /\ step = "probe" => o.conn.state = "half_open"
       /\ step \in {"update", "probe", "relist"}
  BY <1>5, <1>9 DEF AfterSave
<1>11. pc' = [pc EXCEPT ![h] = step]
  BY <1>1, <1>9 DEF SaveSnapshot
<1>12. local'[h] = l /\ pc'[h] = step
  BY <1>8, <1>11 DEF TInv, TypeOK
<1>13. /\ bad' >= bad /\ bad' \in 0..2
       /\ o.current => bad' >= 1
       /\ o.current /\ bad >= 1 => bad' = 2
  BY <1>1, <1>2 DEF SaveSnapshot, TInv, TypeOK
<1>14. latest' \in Snapshots /\ (latest'.unhealthy => bad' >= 1)
  <2>1. [observed |-> o.now, unhealthy |-> o.current] \in Snapshots
    BY <1>2 DEF Snapshots
  <2> QED
    BY <2>1, <1>1, <1>13 DEF SaveSnapshot, LatestOf, TInv, TypeOK
<1>15. UNCHANGED <<clock, circuit, attempt, firstOpened>>
  BY DEF SaveSnapshot
<1>16. TypeOK'
  BY <1>8, <1>10, <1>11, <1>13, <1>14, <1>15 DEF TInv, TypeOK, Steps, Refreshing
<1>17. Known(next) /\ Known(o.conn)
  BY <1>2, <1>3, <1>5, EvaluatedCases DEF Known, Opened, HalfOpened, Times, Never, TInv, TypeOK,
     Circuits
<1>18. step = "update" => Founded(next)'
  <2> SUFFICES ASSUME next # o.conn
               PROVE  Founded(next)'
    BY <1>10
  <2>1. CASE o.conn.state = "closed" /\ Trips(o) /\ next = Opened(o.now)
    <3>1. bad' = 2
      BY <2>1, <1>3, <1>13 DEF Trips
    <3> QED
      BY <3>1, <2>1 DEF Founded, Opened
  <2>2. CASE o.conn.state = "open" /\ next = HalfOpened(o.conn.openedAt)
    <3>1. firstOpened # Never /\ o.conn.openedAt >= firstOpened
      BY <2>2, <1>3 DEF ReadSince
    <3>2. bad' = 2
      BY <3>1, <1>13 DEF TInv, OpensOnTwoSnapshots, TypeOK
    <3> QED
      BY <3>1, <3>2, <2>2, <1>15 DEF Founded, HalfOpened, ReadSince
  <2>3. ~(o.conn.state = "half_open" /\ o.conn.openedAt = Never)
    BY <1>3 DEF Known, Never
  <2> QED
    BY <2>1, <2>2, <2>3, <1>5, EvaluatedCases
<1>19. Known(l.conn)' /\ Known(l.next)' /\ ReadSince(l.conn)'
  BY <1>3, <1>7, <1>15, <1>17 DEF Known, ReadSince
<1>20. HandlerHolds(h)'
  BY <1>3, <1>7, <1>10, <1>12, <1>15, <1>18, <1>19 DEF HandlerHolds, NoSnapshot
<1> QED
  BY <1>8, <1>10, <1>11, <1>12, <1>13, <1>14, <1>15, <1>16, <1>20, ReadKeeps DEF TInv, TypeOK

LEMMA ProbeKeeps ==
    ASSUME TInv, NEW h \in Handlers, ReadProbe(h)
    PROVE  TInv'
<1>1. PICK o \in Locals : o = local[h]
  BY DEF TInv, TypeOK
<1>2. /\ o.now \in Times /\ o.conn \in Circuits /\ o.next \in Circuits
  BY DEF Locals
<1>3. /\ o.now >= 1 /\ o.now <= clock /\ Known(o.conn) /\ Known(o.next) /\ ReadSince(o.conn)
      /\ o.conn.state = "half_open"
      /\ o.previous.unhealthy => bad >= 1
  BY <1>1 DEF TInv, HandlerHolds, ReadProbe, Refreshing
<1>4. PICK a \in Probes(o.conn.openedAt) :
        /\ local' = [local EXCEPT ![h].next = Verdict(o, attempt[a].status)]
        /\ pc' = [pc EXCEPT ![h] =
                      IF Verdict(o, attempt[a].status) # o.conn THEN "update" ELSE "relist"]
  BY <1>1 DEF ReadProbe
<1>5. PICK s \in Statuses : s = attempt[a].status
  BY DEF TInv, TypeOK, AttemptRows, Probes
<1>6. Closed \in Circuits /\ Opened(o.now) \in Circuits
  BY <1>2, TelemetryBounds DEF Closed, Opened, Circuits, Times, Never
<1>7. PICK next \in Circuits : next = Verdict(o, s)
  BY <1>2, <1>6 DEF Verdict
<1>8. PICK l \in Locals : l = [o EXCEPT !.next = next]
  BY DEF Locals
<1>9. l.conn = o.conn /\ l.now = o.now /\ l.next = next /\ l.previous = o.previous
  BY <1>8 DEF Locals
<1>10. PICK step \in {"update", "relist"} : step = IF next # o.conn THEN "update" ELSE "relist"
  OBVIOUS
<1>11. local' = [local EXCEPT ![h] = l] /\ pc' = [pc EXCEPT ![h] = step]
  BY <1>1, <1>4, <1>5, <1>7, <1>8, <1>10 DEF TInv, TypeOK
<1>12. local'[h] = l /\ pc'[h] = step
  BY <1>11 DEF TInv, TypeOK
<1>13. UNCHANGED <<clock, circuit, latest, attempt, bad, firstOpened>>
  BY DEF ReadProbe, history
<1>14. TypeOK'
  BY <1>11, <1>13 DEF TInv, TypeOK, Steps, Refreshing
<1>15. firstOpened # Never /\ bad = 2 /\ o.conn.openedAt >= firstOpened
  BY <1>3 DEF ReadSince, TInv, OpensOnTwoSnapshots
<1>16. \/ next = Closed /\ s = "succeeded"
       \/ next = Opened(o.now)
       \/ next = o.conn
  BY <1>7 DEF Verdict
<1>17. next # o.conn => Founded(next)'
  <2>1. CASE next = Closed /\ s = "succeeded"
    <3>1. attempt[a].status = "succeeded" /\ attempt[a].started >= firstOpened /\ a \in Attempts
      BY <2>1, <1>2, <1>5, <1>15 DEF Probes, TInv, TypeOK, AttemptRows, Times, Never, Circuits
    <3>2. SuccessSince(firstOpened)'
      BY <3>1, <1>13 DEF SuccessSince
    <3> QED
      BY <3>2, <2>1, <1>13, <1>15 DEF Founded, Closed
  <2>2. CASE next = Opened(o.now)
    BY <2>2, <1>13, <1>15 DEF Founded, Opened
  <2> QED
    BY <2>1, <2>2, <1>16
<1>18. Known(next)'
  BY <1>2, <1>3, <1>13, <1>16 DEF Known, Opened, Closed, TInv, TypeOK, Times, Never
<1>19. Known(o.conn)' /\ ReadSince(o.conn)'
  BY <1>3, <1>13 DEF Known, ReadSince
<1>20. HandlerHolds(h)'
  BY <1>3, <1>9, <1>10, <1>12, <1>13, <1>17, <1>18, <1>19 DEF HandlerHolds
<1> QED
  BY <1>10, <1>11, <1>12, <1>13, <1>14, <1>20, ReadKeeps DEF TInv, TypeOK

LEMMA NoProbeKeeps ==
    ASSUME TInv, NEW h \in Handlers, NoProbe(h)
    PROVE  TInv'
<1>1. UNCHANGED <<clock, circuit, latest, attempt, local, bad, firstOpened>>
  BY DEF NoProbe, history
<1>2. pc[h] = "probe" /\ pc' = [pc EXCEPT ![h] = "relist"]
  BY DEF NoProbe
<1>3. TypeOK'
  BY <1>1, <1>2 DEF TInv, TypeOK, Steps
<1>4. HandlerHolds(h)'
  BY <1>1, <1>2 DEF TInv, TypeOK, HandlerHolds, Known, ReadSince, Refreshing
<1> QED
  BY <1>1, <1>2, <1>3, <1>4, ReadKeeps DEF TInv, TypeOK


LEMMA UpdateCircuitKeeps ==
    ASSUME TInv, NEW h \in Handlers, UpdateCircuit(h)
    PROVE  TInv'
<1>1. PICK o \in Locals : o = local[h]
  BY DEF TInv, TypeOK
<1>2. PICK next \in Circuits : next = o.next
  BY DEF Locals
<1>3. Known(next) /\ Founded(next)
  BY <1>1, <1>2 DEF TInv, HandlerHolds, UpdateCircuit
<1>4. /\ circuit' = next
      /\ firstOpened' =
            IF next.state = "open" /\ (firstOpened = Never \/ next.openedAt < firstOpened)
            THEN next.openedAt
            ELSE firstOpened
      /\ pc' = [pc EXCEPT ![h] = "relist"]
      /\ UNCHANGED <<clock, latest, attempt, local, bad>>
  BY <1>1, <1>2 DEF UpdateCircuit
<1>5. next.openedAt \in Times /\ firstOpened \in Times /\ Times \subseteq Nat
  BY TelemetryBounds DEF TInv, TypeOK, Circuits, Times, Never
<1>6. TypeOK'
  BY <1>4, <1>5 DEF TInv, TypeOK, Steps
<1>7. next.state # "closed" => next.openedAt \in 1..clock
  BY <1>3 DEF Known
<1>8. Progress
  BY <1>4, <1>5, <1>7 DEF Progress, Never, TInv, TypeOK
<1>9. ReadSince(circuit)'
  <2>1. CASE next.state = "closed"
    BY <2>1, <1>4 DEF ReadSince
  <2>2. CASE next.state = "open"
    BY <2>2, <1>4, <1>5, <1>7 DEF ReadSince, Never, TInv, TypeOK
  <2>3. CASE next.state = "half_open"
    BY <2>3, <1>3, <1>4 DEF ReadSince, Founded
  <2> QED
    BY <2>1, <2>2, <2>3 DEF Circuits
<1>10. OpeningIsKnown'
  BY <1>3, <1>4 DEF OpeningIsKnown, Known
<1>11. OpensOnTwoSnapshots'
  BY <1>3, <1>4 DEF OpensOnTwoSnapshots, TInv, Founded
<1>12. ClosesOnSuccess'
  <2> SUFFICES ASSUME next.state = "closed"
               PROVE  SuccessSince(firstOpened)'
    BY <1>4 DEF ClosesOnSuccess, SuccessSince
  <2> QED
    BY <1>3, <1>4 DEF Founded, SuccessSince
<1>13. SentApart'
  BY <1>4 DEF TInv, TypeOK, SentApart
<1>14. \A g \in Handlers \ {h} : HandlerHolds(g)'
  BY <1>4, <1>6, <1>8, BystanderHolds DEF TInv, TypeOK
<1>15. HandlerHolds(h)'
  <2>1. pc'[h] = "relist" /\ local'[h] = o /\ pc[h] = "update"
    BY <1>1, <1>4 DEF TInv, TypeOK, UpdateCircuit
  <2>2. o.conn \in Circuits /\ Known(o.conn) /\ ReadSince(o.conn)
    BY <1>1 DEF TInv, HandlerHolds, Locals
  <2>3. Known(o.conn)' /\ ReadSince(o.conn)' /\ Known(next)'
    BY <2>2, <1>3, <1>6, <1>8, KnownStays, ReadSinceStays DEF TInv, Progress
  <2> QED
    BY <2>1, <2>3, <1>1, <1>2, <1>4 DEF TInv, HandlerHolds, Refreshing
<1> QED
  BY <1>4, <1>6, <1>9, <1>10, <1>11, <1>12, <1>13, <1>14, <1>15 DEF TInv

LEMMA RelistKeeps ==
    ASSUME TInv, NEW h \in Handlers, Relist(h)
    PROVE  TInv'
<1>1. PICK l : l = [NoLocal EXCEPT !.now = clock]
  OBVIOUS
<1>2. clock \in Times
  BY TelemetryBounds DEF TInv, TypeOK, Times, Never
<1>3. /\ l \in Locals /\ l.conn = Closed /\ l.next = Closed /\ l.now = clock
      /\ l.previous = NoSnapshot
  BY <1>1, <1>2, NoLocalType DEF Locals, NoLocal
<1>4. /\ local' = [local EXCEPT ![h] = l] /\ pc' = [pc EXCEPT ![h] = "send"]
      /\ UNCHANGED <<clock, circuit, latest, attempt, bad, firstOpened>>
  BY <1>1 DEF Relist, history
<1>5. TypeOK'
  BY <1>3, <1>4 DEF TInv, TypeOK, Steps
<1>6. local'[h] = l /\ pc'[h] = "send"
  BY <1>4 DEF TInv, TypeOK
<1>7. HandlerHolds(h)'
  BY <1>3, <1>4, <1>6 DEF HandlerHolds, NoSnapshot, Closed, Known, ReadSince, Never, Refreshing,
     TInv, TypeOK
<1> QED
  BY <1>4, <1>5, <1>6, <1>7, ReadKeeps DEF TInv, TypeOK

LEMMA LeaveKeeps ==
    ASSUME TInv, NEW h \in Handlers, Leave(h)
    PROVE  TInv'
<1>1. /\ pc' = [pc EXCEPT ![h] = "idle"] /\ local' = [local EXCEPT ![h] = NoLocal]
      /\ UNCHANGED <<clock, circuit, latest, attempt, bad, firstOpened>>
  BY DEF Leave, Idle, history
<1>2. TypeOK'
  BY <1>1, NoLocalType DEF TInv, TypeOK, Steps
<1>3. pc'[h] = "idle" /\ local'[h] = NoLocal
  BY <1>1 DEF TInv, TypeOK
<1>4. HandlerHolds(h)'
  BY <1>2, <1>3, RestedHolds
<1> QED
  BY <1>1, <1>2, <1>3, <1>4, ReadKeeps DEF TInv, TypeOK

\* The attempt of a request changes; no success is taken back.
LEMMA AttemptKeeps ==
    ASSUME TInv, TypeOK', UNCHANGED <<clock, circuit, latest, bad, firstOpened>>,
           NEW a \in Attempts, attempt[a].status # "succeeded",
           \A b \in Attempts \ {a} : attempt'[b] = attempt[b]
    PROVE  /\ OpensOnTwoSnapshots' /\ ClosesOnSuccess' /\ OpeningIsKnown'
           /\ ReadSince(circuit)' /\ (latest'.unhealthy => bad' >= 1)
           /\ Progress
<1>1. Progress
  BY DEF Progress, TInv, TypeOK, Times, Never
<1>2. ClosesOnSuccess'
  BY <1>1, ClosedStays
<1> QED
  BY <1>1, <1>2 DEF TInv, OpensOnTwoSnapshots, OpeningIsKnown, ReadSince

LEMMA SendKeeps ==
    ASSUME TInv, NEW h \in Handlers, Send(h)
    PROVE  TInv'
<1>1. PICK a \in Attempts :
        /\ attempt[a].status = "unsent"
        /\ \E t \in local[h].now..clock :
              attempt' = [attempt EXCEPT ![a] = [status |-> "requesting", started |-> t]]
        /\ local' = [local EXCEPT ![h] = [NoLocal EXCEPT !.sent = a]]
  BY DEF Send
<1>time. PICK t \in local[h].now..clock :
        attempt' = [attempt EXCEPT ![a] = [status |-> "requesting", started |-> t]]
  BY <1>1
<1>typed. t \in Times
  <2>1. local[h].now \in Times
    BY DEF TInv, TypeOK, Locals
  <2> QED
    BY <2>1, TelemetryBounds DEF TInv, TypeOK, Times, Never
<1>2. PICK l \in Locals : l = [NoLocal EXCEPT !.sent = a]
  <2>1. a \in 0..MaxRequests
    BY TelemetryBounds DEF Attempts
  <2>2. [NoLocal EXCEPT !.sent = a] \in Locals
    BY <2>1, NoLocalType DEF Locals, NoLocal
  <2> QED
    BY <2>2
<1>3. /\ l.conn = Closed /\ l.next = Closed /\ l.now = Never /\ l.previous = NoSnapshot
      /\ l.sent = a
  BY <1>2, NoLocalType DEF Locals, NoLocal
<1>4. [status |-> "requesting", started |-> t] \in AttemptRows
  BY <1>typed DEF AttemptRows, Statuses
<1>5. pc' = [pc EXCEPT ![h] = "answer"] /\ UNCHANGED <<clock, circuit, latest, bad, firstOpened>>
  BY DEF Send, history
<1>6. TypeOK'
  BY <1>1, <1>time, <1>2, <1>4, <1>5 DEF TInv, TypeOK, Steps
<1>7. /\ attempt'[a].status = "requesting"
      /\ \A b \in Attempts \ {a} : attempt'[b] = attempt[b]
      /\ pc'[h] = "answer" /\ local'[h] = l
      /\ \A g \in Handlers \ {h} : pc'[g] = pc[g] /\ local'[g] = local[g]
  BY <1>1, <1>time, <1>2, <1>5 DEF TInv, TypeOK
<1>8. /\ OpensOnTwoSnapshots' /\ ClosesOnSuccess' /\ OpeningIsKnown'
      /\ ReadSince(circuit)' /\ (latest'.unhealthy => bad' >= 1)
      /\ Progress
  BY <1>1, <1>5, <1>6, <1>7, AttemptKeeps
<1>9. \A g \in Handlers \ {h} : pc[g] = "answer" =>
          local[g].sent \in Attempts /\ local[g].sent # a
  BY <1>1 DEF TInv, TypeOK, HandlerHolds, Locals, Attempts
<1>10. \A g \in Handlers \ {h} : HandlerHolds(g)'
  <2> SUFFICES ASSUME NEW g \in Handlers \ {h}
               PROVE  HandlerHolds(g)'
    OBVIOUS
  <2> QED
    BY <1>6, <1>7, <1>8, <1>9, BystanderHolds DEF TInv
<1>11. HandlerHolds(h)'
  BY <1>3, <1>5, <1>6, <1>7 DEF HandlerHolds, Closed, NoSnapshot, Known, ReadSince, Never,
     Refreshing, TypeOK, Attempts
<1>12. SentApart'
  BY <1>3, <1>7, <1>9 DEF TInv, SentApart
<1> QED
  BY <1>6, <1>8, <1>10, <1>11, <1>12 DEF TInv

LEMMA AnswerKeeps ==
    ASSUME TInv, NEW h \in Handlers, Answer(h)
    PROVE  TInv'
<1>1. PICK a \in Attempts : a = local[h].sent /\ attempt[a].status = "requesting"
  BY DEF TInv, TypeOK, HandlerHolds, Answer, Locals, Attempts
<1>2. PICK s \in Statuses : attempt' = [attempt EXCEPT ![a] = [attempt[a] EXCEPT !.status = s]]
  BY <1>1 DEF Answer, Statuses, TInv, TypeOK
<1>3. /\ pc' = [pc EXCEPT ![h] = "idle"] /\ local' = [local EXCEPT ![h] = NoLocal]
      /\ pc[h] = "answer" /\ UNCHANGED <<clock, circuit, latest, bad, firstOpened>>
  BY DEF Answer, Idle, history
<1>4. [attempt[a] EXCEPT !.status = s] \in AttemptRows
  BY DEF TInv, TypeOK, AttemptRows
<1>5. TypeOK'
  BY <1>2, <1>3, <1>4, NoLocalType DEF TInv, TypeOK, Steps
<1>6. /\ \A b \in Attempts \ {a} : attempt'[b] = attempt[b]
      /\ pc'[h] = "idle" /\ local'[h] = NoLocal
      /\ \A g \in Handlers \ {h} : pc'[g] = pc[g] /\ local'[g] = local[g]
  BY <1>2, <1>3 DEF TInv, TypeOK
<1>7. /\ OpensOnTwoSnapshots' /\ ClosesOnSuccess' /\ OpeningIsKnown'
      /\ ReadSince(circuit)' /\ (latest'.unhealthy => bad' >= 1)
      /\ Progress
  BY <1>1, <1>3, <1>5, <1>6, AttemptKeeps
<1>8. \A g \in Handlers \ {h} : pc[g] = "answer" =>
          local[g].sent \in Attempts /\ local[g].sent # a
  BY <1>1, <1>3 DEF TInv, TypeOK, HandlerHolds, SentApart, Locals, Attempts
<1>9. \A g \in Handlers \ {h} : HandlerHolds(g)'
  <2> SUFFICES ASSUME NEW g \in Handlers \ {h}
               PROVE  HandlerHolds(g)'
    OBVIOUS
  <2> QED
    BY <1>5, <1>6, <1>7, <1>8, BystanderHolds DEF TInv
<1>10. HandlerHolds(h)'
  BY <1>5, <1>6, RestedHolds
<1>11. SentApart'
  BY <1>6 DEF TInv, SentApart
<1> QED
  BY <1>5, <1>7, <1>9, <1>10, <1>11 DEF TInv

LEMMA ReconcileKeeps ==
    ASSUME TInv, NEW a \in Attempts, Reconcile(a)
    PROVE  TInv'
<1>1. PICK s \in Statuses : attempt' = [attempt EXCEPT ![a] = [attempt[a] EXCEPT !.status = s]]
  BY DEF Reconcile, Statuses, TInv, TypeOK
<1>2. /\ UNCHANGED <<clock, circuit, latest, pc, local, bad, firstOpened>>
      /\ attempt[a].status = "unknown"
  BY DEF Reconcile, executions, history
<1>3. [attempt[a] EXCEPT !.status = s] \in AttemptRows
  BY DEF TInv, TypeOK, AttemptRows
<1>4. TypeOK'
  BY <1>1, <1>2, <1>3 DEF TInv, TypeOK
<1>5. \A b \in Attempts \ {a} : attempt'[b] = attempt[b]
  BY <1>1 DEF TInv, TypeOK
<1>6. /\ OpensOnTwoSnapshots' /\ ClosesOnSuccess' /\ OpeningIsKnown'
      /\ ReadSince(circuit)' /\ (latest'.unhealthy => bad' >= 1)
      /\ Progress
  BY <1>2, <1>4, <1>5, AttemptKeeps
<1>7. \A g \in Handlers : pc[g] = "answer" => local[g].sent \in Attempts /\ local[g].sent # a
  BY <1>2 DEF TInv, TypeOK, HandlerHolds, Locals, Attempts
<1>8. \A g \in Handlers : HandlerHolds(g)'
  BY <1>2, <1>4, <1>5, <1>6, <1>7, BystanderHolds DEF TInv
<1>9. SentApart'
  BY <1>2 DEF TInv, SentApart
<1> QED
  BY <1>4, <1>6, <1>8, <1>9 DEF TInv

LEMMA TickKeeps ==
    ASSUME TInv, Tick
    PROVE  TInv'
<1>1. clock' = clock + 1 /\ UNCHANGED <<circuit, latest, attempt, pc, local, bad, firstOpened>>
  BY DEF Tick, executions, history
<1>2. TypeOK'
  BY <1>1, TelemetryBounds DEF TInv, TypeOK, Tick
<1>3. Progress
  BY <1>1 DEF Progress, TInv, TypeOK, Times, Never
<1>4. \A g \in Handlers : HandlerHolds(g)'
  BY <1>1, <1>2, <1>3, BystanderHolds DEF TInv
<1>5. OpeningIsKnown'
  BY <1>1 DEF TInv, TypeOK, OpeningIsKnown
<1>6. ClosesOnSuccess' /\ OpensOnTwoSnapshots' /\ ReadSince(circuit)' /\ SentApart'
  BY <1>1, <1>2, <1>3, ClosedStays DEF TInv, OpensOnTwoSnapshots, ReadSince, SentApart
<1> QED
  BY <1>1, <1>2, <1>4, <1>5, <1>6 DEF TInv

LEMMA NextKeepsTelemetry == TInv /\ [Next]_vars => TInv'
<1> SUFFICES ASSUME TInv, [Next]_vars
             PROVE  TInv'
  OBVIOUS
<1>1. CASE UNCHANGED vars
  BY <1>1 DEF vars, TInv, TypeOK, OpensOnTwoSnapshots, ClosesOnSuccess, OpeningIsKnown, ReadSince,
     SentApart, HandlerHolds, Known, Founded, SuccessSince
<1>2. ASSUME NEW h \in Handlers, Refresh(h)
      PROVE  TInv'
  BY <1>2, ListConnectionsKeeps, ReadPreviousKeeps, AggregateKeeps, SaveSnapshotKeeps, ProbeKeeps,
     NoProbeKeeps, UpdateCircuitKeeps DEF Refresh
<1> QED
  BY <1>1, <1>2, RelistKeeps, LeaveKeeps, SendKeeps, AnswerKeeps, ReconcileKeeps, TickKeeps
     DEF Next

\* The invariant of the executions and what each may still write, whatever overlaps.
THEOREM TelemetryInvariance == Spec => []TInv
BY InitTelemetry, NextKeepsTelemetry, PTL DEF Spec

\* Type correctness for every instance.
THEOREM TelemetryTypes == Spec => []TypeOK
BY TelemetryInvariance, PTL DEF TInv

\* A circuit is opened on two unhealthy snapshots, for every instance and any overlap.
THEOREM TwoSnapshots == Spec => []OpensOnTwoSnapshots
BY TelemetryInvariance, PTL DEF TInv

\* A circuit that was opened is closed again only after a success since then.
THEOREM ClosedBySuccess == Spec => []ClosesOnSuccess
BY TelemetryInvariance, PTL DEF TInv

\* The time of the opening is there as long as it is needed.
THEOREM OpeningKnown == Spec => []OpeningIsKnown
BY TelemetryInvariance, PTL DEF TInv

\* The latest snapshot is never replaced by an older one.
THEOREM SnapshotsForward == Spec => SnapshotsMoveForward
<1>1. TInv /\ [Next]_vars => [latest'.observed >= latest.observed]_vars
  <2> SUFFICES ASSUME TInv, Next
               PROVE  latest'.observed >= latest.observed
    OBVIOUS
  <2>1. latest.observed \in Nat
    BY TelemetryBounds DEF TInv, TypeOK, Snapshots, Times, Never
  <2>2. ASSUME NEW h \in Handlers, SaveSnapshot(h)
        PROVE  latest'.observed >= latest.observed
    BY <2>1, <2>2 DEF SaveSnapshot, LatestOf
  <2>3. latest' = latest \/ \E h \in Handlers : SaveSnapshot(h)
    BY DEF Next, Refresh, ListConnections, ReadPrevious, Aggregate, ReadProbe, NoProbe,
       UpdateCircuit, Relist, Send, Answer, Leave, Reconcile, Tick
  <2> QED
    BY <2>1, <2>2, <2>3
<1> QED
  BY <1>1, TelemetryInvariance, PTL DEF Spec, SnapshotsMoveForward

-----------------------------------------------------------------------------
(* What a refresh writes follows from what it has read.                     *)

SucceededSince(c) ==
    \E a \in Attempts : attempt[a].status = "succeeded" /\ attempt[a].started >= c.openedAt

AnsweredSince(c) ==
    \E a \in Attempts :
        attempt[a].status \notin {"unsent", "requesting"} /\ attempt[a].started >= c.openedAt

StepFits(l) ==
    \/ l.conn.state = "closed" /\ l.next = Opened(l.now)
    \/ l.conn.state = "open" /\ Cooled(l) /\ l.next = HalfOpened(l.conn.openedAt)
    \/ l.conn.state = "half_open" /\ l.next = Closed /\ SucceededSince(l.conn)
    \/ l.conn.state = "half_open" /\ l.next = Opened(l.now) /\ AnsweredSince(l.conn)

\* A circuit read half-open had cooled down, so an opening after it is a later one.
RefreshHolds(h) ==
    LET l == local[h]
    IN  /\ l.conn.state = "half_open" => l.conn.openedAt + Cooldown <= l.now
        /\ pc[h] = "update" => StepFits(l)

WInv ==
    /\ circuit.state = "half_open" => circuit.openedAt + Cooldown <= clock
    /\ \A h \in Handlers : RefreshHolds(h)

LEMMA InitWrites == Init => WInv
BY DEF Init, WInv, RefreshHolds, NoLocal, Closed

\* What requests come to is kept.
AttemptsGrow ==
    \A a \in Attempts :
        attempt[a].status \notin {"unsent", "requesting"} =>
            /\ attempt'[a].status \notin {"unsent", "requesting"}
            /\ attempt'[a].started = attempt[a].started
            /\ attempt[a].status = "succeeded" => attempt'[a].status = "succeeded"

LEMMA FitsStays ==
    ASSUME AttemptsGrow, NEW l, StepFits(l)
    PROVE  StepFits(l)'
<1>1. SucceededSince(l.conn) => SucceededSince(l.conn)'
  BY DEF SucceededSince, AttemptsGrow
<1>2. AnsweredSince(l.conn) => AnsweredSince(l.conn)'
  BY DEF AnsweredSince, AttemptsGrow
<1> QED
  BY <1>1, <1>2 DEF StepFits, Cooled

\* A step that leaves the circuit as it is, and leaves all executions but one or all of
\* them as they are.
LEMMA BesideKeeps ==
    ASSUME TypeOK, TypeOK', WInv, circuit' = circuit, clock' >= clock, AttemptsGrow,
           \A g \in Handlers :
               \/ pc'[g] = pc[g] /\ local'[g] = local[g]
               \/ RefreshHolds(g)'
    PROVE  WInv'
<1>1. circuit'.state = "half_open" => circuit'.openedAt + Cooldown <= clock'
  BY TelemetryBounds DEF WInv, TypeOK, Circuits, Times, Never
<1>2. ASSUME NEW g \in Handlers, pc'[g] = pc[g], local'[g] = local[g]
      PROVE  RefreshHolds(g)'
  <2>1. PICK l : l = local[g]
    OBVIOUS
  <2>2. RefreshHolds(g)
    BY DEF WInv
  <2>3. pc[g] = "update" => StepFits(l)'
    BY <2>1, <2>2, FitsStays DEF RefreshHolds
  <2> QED
    BY <1>2, <2>1, <2>2, <2>3 DEF RefreshHolds
<1> QED
  BY <1>1, <1>2 DEF WInv

\* A step of one refresh that leaves the circuit and the attempts as they are.
LEMMA WithinKeeps ==
    ASSUME TInv, TypeOK', WInv, NEW h \in Handlers, NEW l, NEW step,
           pc' = [pc EXCEPT ![h] = step], local' = [local EXCEPT ![h] = l],
           UNCHANGED <<clock, circuit, attempt>>,
           l.conn.state = "half_open" => l.conn.openedAt + Cooldown <= l.now,
           step = "update" => StepFits(l)
    PROVE  WInv'
<1>1. pc'[h] = step /\ local'[h] = l
  BY DEF TInv, TypeOK
<1>2. step = "update" => StepFits(l)'
  BY DEF StepFits, Cooled, SucceededSince, AnsweredSince
<1>3. RefreshHolds(h)'
  BY <1>1, <1>2 DEF RefreshHolds
<1>4. \A g \in Handlers \ {h} : pc'[g] = pc[g] /\ local'[g] = local[g]
  BY DEF TInv, TypeOK
<1>5. clock' >= clock /\ AttemptsGrow
  BY DEF TInv, TypeOK, AttemptsGrow
<1> QED
  BY <1>3, <1>4, <1>5, BesideKeeps DEF TInv

LEMMA ListConnectionsFits ==
    ASSUME TInv, TypeOK', WInv, NEW h \in Handlers, ListConnections(h)
    PROVE  WInv'
<1>1. PICK l : l = [NoLocal EXCEPT !.conn = circuit, !.now = clock]
  OBVIOUS
<1>2. l.conn = circuit /\ l.now = clock
  BY <1>1 DEF NoLocal
<1>3. local' = [local EXCEPT ![h] = l] /\ pc' = [pc EXCEPT ![h] = "previous"]
  BY <1>1 DEF ListConnections
<1> QED
  BY <1>2, <1>3, WithinKeeps DEF ListConnections, WInv

LEMMA ReadPreviousFits ==
    ASSUME TInv, TypeOK', WInv, NEW h \in Handlers, ReadPrevious(h)
    PROVE  WInv'
<1>1. PICK now \in local[h].now..clock :
        local' = [local EXCEPT ![h].now = now, ![h].previous = latest]
  BY DEF ReadPrevious
<1>2. PICK l : l = [local[h] EXCEPT !.now = now, !.previous = latest]
  OBVIOUS
<1>3. l.conn = local[h].conn /\ l.now = now
  BY <1>2 DEF TInv, TypeOK, Locals
<1>4. local' = [local EXCEPT ![h] = l] /\ pc' = [pc EXCEPT ![h] = "aggregate"]
  BY <1>1, <1>2 DEF ReadPrevious, TInv, TypeOK
<1>5. /\ local[h].now \in Nat /\ local[h].conn.openedAt \in Nat /\ Cooldown \in Nat
      /\ clock \in Nat
  BY TelemetryBounds DEF TInv, TypeOK, Locals, Circuits, Times, Never
<1>6. l.conn.state = "half_open" => l.conn.openedAt + Cooldown <= l.now
  BY <1>3, <1>5 DEF WInv, RefreshHolds
<1> QED
  BY <1>4, <1>6, WithinKeeps DEF ReadPrevious

LEMMA AggregateFits ==
    ASSUME TInv, TypeOK', WInv, NEW h \in Handlers, Aggregate(h)
    PROVE  WInv'
<1>1. PICK l : l = [local[h] EXCEPT !.current = Unhealthy(Samples(local[h].now))]
  OBVIOUS
<1>2. l.conn = local[h].conn /\ l.now = local[h].now
  BY <1>1 DEF TInv, TypeOK, Locals
<1>3. local' = [local EXCEPT ![h] = l] /\ pc' = [pc EXCEPT ![h] = "save"]
  BY <1>1 DEF Aggregate, TInv, TypeOK
<1>4. l.conn.state = "half_open" => l.conn.openedAt + Cooldown <= l.now
  BY <1>2 DEF WInv, RefreshHolds
<1> QED
  BY <1>3, <1>4, WithinKeeps DEF Aggregate

\* An execution that ends its refresh without a write.
NothingDue(l) == ~(l.conn.state = "open" /\ l.now >= l.conn.openedAt + Cooldown)

LEMMA SaveSnapshotFits ==
    ASSUME TInv, TypeOK', WInv, NEW h \in Handlers, SaveSnapshot(h)
    PROVE  WInv' /\ (pc'[h] = "relist" => NothingDue(local[h]))
<1>1. PICK o \in Locals : o = local[h]
  BY DEF TInv, TypeOK
<1>2. PICK next : next = Evaluated(o)
  OBVIOUS
<1>3. PICK step : step = AfterSave(o)
  OBVIOUS
<1>4. PICK l : l = [NoLocal EXCEPT !.conn = o.conn, !.now = o.now, !.next = next]
  OBVIOUS
<1>5. l.conn = o.conn /\ l.now = o.now /\ l.next = next
  BY <1>4 DEF NoLocal
<1>6. local' = [local EXCEPT ![h] = l] /\ pc' = [pc EXCEPT ![h] = step]
  BY <1>1, <1>2, <1>3, <1>4 DEF SaveSnapshot
<1>7. /\ step = "update" => next # o.conn
      /\ step = "relist" => next = o.conn
  BY <1>2, <1>3 DEF AfterSave
<1>8. o.conn.state # "closed" => o.conn.openedAt # Never
  BY <1>1 DEF TInv, HandlerHolds, Known, Never, TypeOK
<1>9. step = "update" => StepFits(l)
  BY <1>2, <1>5, <1>7, <1>8, EvaluatedCases DEF StepFits, Cooled
<1>10. step = "relist" => NothingDue(o)
  BY <1>2, <1>7, <1>8, EvaluatedCases DEF NothingDue, Cooled, HalfOpened
<1>11. l.conn.state = "half_open" => l.conn.openedAt + Cooldown <= l.now
  BY <1>1, <1>5 DEF WInv, RefreshHolds
<1>12. pc'[h] = step
  BY <1>6 DEF TInv, TypeOK
<1> QED
  BY <1>1, <1>6, <1>9, <1>10, <1>11, <1>12, WithinKeeps DEF SaveSnapshot

LEMMA ReadProbeFits ==
    ASSUME TInv, TypeOK', WInv, NEW h \in Handlers, ReadProbe(h)
    PROVE  WInv' /\ NothingDue(local[h])
<1>1. PICK o \in Locals : o = local[h]
  BY DEF TInv, TypeOK
<1>2. PICK a \in Probes(o.conn.openedAt) :
        /\ local' = [local EXCEPT ![h].next = Verdict(o, attempt[a].status)]
        /\ pc' = [pc EXCEPT ![h] =
                      IF Verdict(o, attempt[a].status) # o.conn THEN "update" ELSE "relist"]
  BY <1>1 DEF ReadProbe
<1>3. PICK next : next = Verdict(o, attempt[a].status)
  OBVIOUS
<1>4. PICK l : l = [o EXCEPT !.next = next]
  OBVIOUS
<1>5. l.conn = o.conn /\ l.now = o.now /\ l.next = next
  BY <1>4 DEF Locals
<1>6. PICK step \in {"update", "relist"} : step = IF next # o.conn THEN "update" ELSE "relist"
  OBVIOUS
<1>7. local' = [local EXCEPT ![h] = l] /\ pc' = [pc EXCEPT ![h] = step]
  BY <1>1, <1>2, <1>3, <1>4, <1>6 DEF TInv, TypeOK
<1>8. o.conn.state = "half_open"
  BY <1>1 DEF TInv, HandlerHolds, ReadProbe
<1>9. a \in Attempts /\ attempt[a].started >= o.conn.openedAt
  BY DEF Probes
<1>10. step = "update" => StepFits(l)
  BY <1>3, <1>5, <1>6, <1>8, <1>9 DEF StepFits, Verdict, SucceededSince, AnsweredSince
<1>11. l.conn.state = "half_open" => l.conn.openedAt + Cooldown <= l.now
  BY <1>1, <1>5 DEF WInv, RefreshHolds
<1>12. NothingDue(local[h])
  BY <1>1, <1>8 DEF NothingDue
<1> QED
  BY <1>7, <1>10, <1>11, <1>12, WithinKeeps DEF ReadProbe

LEMMA NoProbeFits ==
    ASSUME TInv, TypeOK', WInv, NEW h \in Handlers, NoProbe(h)
    PROVE  WInv' /\ NothingDue(local[h])
<1>1. local[h].conn.state = "half_open"
  BY DEF TInv, HandlerHolds, NoProbe
<1>2. local' = [local EXCEPT ![h] = local[h]]
  BY DEF NoProbe, TInv, TypeOK
<1> QED
  BY <1>1, <1>2, WithinKeeps DEF NoProbe, NothingDue, WInv, RefreshHolds

\* The one write of the circuit, and the step it takes.
LEMMA UpdateCircuitFits ==
    ASSUME TInv, TypeOK', WInv, NEW h \in Handlers, UpdateCircuit(h)
    PROVE  WInv' /\ CircuitStep(local[h].conn, circuit')
<1>1. PICK l \in Locals : l = local[h]
  BY DEF TInv, TypeOK
<1>2. /\ circuit' = l.next /\ pc[h] = "update" /\ local' = local
      /\ pc' = [pc EXCEPT ![h] = "relist"] /\ UNCHANGED <<clock, attempt>>
  BY <1>1 DEF UpdateCircuit
<1>3. /\ StepFits(l)
      /\ l.conn.state = "half_open" => l.conn.openedAt + Cooldown <= l.now
  BY <1>1, <1>2 DEF WInv, RefreshHolds
<1>4. /\ l.now \in Nat /\ l.now <= clock /\ l.conn.openedAt \in Nat /\ clock \in Nat
      /\ Cooldown \in Nat /\ Cooldown > 0
  BY <1>1, TelemetryBounds DEF TInv, TypeOK, HandlerHolds, Locals, Circuits, Times, Never
<1>5. CircuitStep(l.conn, circuit')
  <2>1. CASE l.conn.state = "half_open" /\ l.next = Closed /\ SucceededSince(l.conn)
    BY <2>1, <1>2 DEF CircuitStep, SucceededSince, Closed
  <2>2. CASE l.conn.state = "half_open" /\ l.next = Opened(l.now) /\ AnsweredSince(l.conn)
    BY <2>2, <1>2, <1>3, <1>4 DEF CircuitStep, AnsweredSince, Opened
  <2>3. CASE l.conn.state = "closed" /\ l.next = Opened(l.now)
    BY <2>3, <1>2 DEF CircuitStep, Opened
  <2>4. CASE l.conn.state = "open" /\ Cooled(l) /\ l.next = HalfOpened(l.conn.openedAt)
    BY <2>4, <1>2, <1>4 DEF CircuitStep, Cooled
  <2> QED
    BY <2>1, <2>2, <2>3, <2>4, <1>3 DEF StepFits
<1>6. circuit'.state = "half_open" => circuit'.openedAt + Cooldown <= clock'
  BY <1>2, <1>3, <1>4 DEF StepFits, Cooled, Opened, HalfOpened, Closed
<1>7. \A g \in Handlers : pc'[g] = "update" => pc[g] = "update"
  BY <1>2 DEF TInv, TypeOK
<1>8. \A g \in Handlers : RefreshHolds(g)'
  BY <1>2, <1>7 DEF WInv, RefreshHolds, StepFits, Cooled, SucceededSince, AnsweredSince
<1> QED
  BY <1>1, <1>5, <1>6, <1>8 DEF WInv

\* An execution goes on to send, waits, or ends.
LEMMA RestFits ==
    ASSUME TInv, TypeOK', WInv, NEW h \in Handlers,
           NEW step \in {"idle", "send", "answer"}, NEW l, l.conn = Closed,
           pc' = [pc EXCEPT ![h] = step], local' = [local EXCEPT ![h] = l],
           UNCHANGED <<clock, circuit>>, AttemptsGrow
    PROVE  WInv'
<1>1. clock' >= clock
  BY DEF TInv, TypeOK
<1>2. \A g \in Handlers \ {h} : pc'[g] = pc[g] /\ local'[g] = local[g]
  BY DEF TInv, TypeOK
<1>3. RefreshHolds(h)'
  BY DEF TInv, TypeOK, RefreshHolds, Closed
<1> QED
  BY <1>1, <1>2, <1>3, BesideKeeps DEF TInv

LEMMA NextKeepsWrites == TInv /\ WInv /\ [Next]_vars => WInv'
<1> SUFFICES ASSUME TInv, WInv, [Next]_vars
             PROVE  WInv'
  OBVIOUS
<1>0. TypeOK'
  BY NextKeepsTelemetry DEF TInv
<1>1. CASE UNCHANGED vars
  BY <1>1 DEF vars, WInv, RefreshHolds, StepFits, Cooled, SucceededSince, AnsweredSince
<1>2. ASSUME NEW h \in Handlers, Refresh(h)
      PROVE  WInv'
  BY <1>0, <1>2, ListConnectionsFits, ReadPreviousFits, AggregateFits, SaveSnapshotFits,
     ReadProbeFits, NoProbeFits, UpdateCircuitFits DEF Refresh
<1>3. attempt' = attempt => AttemptsGrow
  BY DEF AttemptsGrow
<1>4. ASSUME NEW h \in Handlers, Relist(h)
      PROVE  WInv'
  <2>1. PICK l : l = [NoLocal EXCEPT !.now = clock]
    OBVIOUS
  <2>2. l.conn = Closed /\ local' = [local EXCEPT ![h] = l]
    BY <1>4, <2>1 DEF Relist, NoLocal
  <2> QED
    BY <1>0, <1>3, <1>4, <2>2, RestFits DEF Relist
<1>5. ASSUME NEW h \in Handlers, Leave(h)
      PROVE  WInv'
  <2>1. NoLocal.conn = Closed
    BY DEF NoLocal
  <2> QED
    BY <1>0, <1>3, <1>5, <2>1, RestFits DEF Leave, Idle
<1>6. ASSUME NEW h \in Handlers, Send(h)
      PROVE  WInv'
  <2>1. PICK a \in Attempts :
          /\ attempt[a].status = "unsent"
          /\ \A b \in Attempts \ {a} : attempt'[b] = attempt[b]
          /\ local' = [local EXCEPT ![h] = [NoLocal EXCEPT !.sent = a]]
    BY <1>6 DEF Send, TInv, TypeOK
  <2>2. AttemptsGrow
    BY <2>1 DEF AttemptsGrow
  <2>3. PICK l : l = [NoLocal EXCEPT !.sent = a]
    OBVIOUS
  <2>4. l.conn = Closed /\ local' = [local EXCEPT ![h] = l]
    BY <2>1, <2>3 DEF NoLocal
  <2> QED
    BY <1>0, <1>6, <2>2, <2>4, RestFits DEF Send
<1>7. ASSUME NEW h \in Handlers, Answer(h)
      PROVE  WInv'
  <2>1. attempt[local[h].sent].status = "requesting" /\ local[h].sent \in Attempts
    BY <1>7 DEF TInv, TypeOK, HandlerHolds, Answer, Locals, Attempts
  <2>2. AttemptsGrow
    BY <1>7, <2>1 DEF Answer, AttemptsGrow, TInv, TypeOK
  <2>3. NoLocal.conn = Closed
    BY DEF NoLocal
  <2> QED
    BY <1>0, <1>7, <2>2, <2>3, RestFits DEF Answer, Idle
<1>8. ASSUME NEW a \in Attempts, Reconcile(a)
      PROVE  WInv'
  <2>1. PICK s \in {"succeeded", "failed"} :
          attempt' = [attempt EXCEPT ![a] = [attempt[a] EXCEPT !.status = s]]
    BY <1>8 DEF Reconcile, TInv, TypeOK
  <2>2. attempt'[a].started = attempt[a].started /\ attempt'[a].status = s
    BY <2>1 DEF TInv, TypeOK, AttemptRows
  <2>3. AttemptsGrow
    BY <1>8, <2>1, <2>2 DEF Reconcile, AttemptsGrow, TInv, TypeOK
  <2>4. clock' >= clock /\ UNCHANGED <<circuit, pc, local>>
    BY <1>8 DEF Reconcile, executions, TInv, TypeOK
  <2> QED
    BY <1>0, <2>3, <2>4, BesideKeeps DEF TInv
<1>9. CASE Tick
  <2>1. clock' >= clock /\ UNCHANGED <<circuit, attempt, pc, local>>
    BY <1>9 DEF Tick, executions, TInv, TypeOK
  <2> QED
    BY <1>0, <1>3, <2>1, BesideKeeps DEF TInv
<1> QED
  BY <1>1, <1>2, <1>4, <1>5, <1>6, <1>7, <1>8, <1>9 DEF Next

\* What any execution is about to write follows from the circuit it has read.
THEOREM WritesFollow == Spec => [](TInv /\ WInv)
<1>1. TInv /\ WInv /\ [Next]_vars => (TInv /\ WInv)'
  BY NextKeepsTelemetry, NextKeepsWrites
<1> QED
  BY <1>1, InitTelemetry, InitWrites, PTL DEF Spec

\* Every refresh that ends has taken a step of closed, open, half-open from the circuit
\* it read, or had none to take, for every instance and any overlap.
THEOREM CircuitMachine == Spec => CircuitSteps
<1> DEFINE Ended == \A h \in Handlers :
                       pc[h] # "relist" /\ pc'[h] = "relist" =>
                           LET old == local[h].conn
                           IN  IF pc[h] = "update" THEN CircuitStep(old, circuit')
                               ELSE ~(old.state = "open" /\ local[h].now >= old.openedAt + Cooldown)
<1>1. TInv /\ WInv /\ [Next]_vars => [Ended]_vars
  <2> SUFFICES ASSUME TInv, WInv, Next, NEW h \in Handlers, pc[h] # "relist", pc'[h] = "relist"
               PROVE  IF pc[h] = "update" THEN CircuitStep(local[h].conn, circuit')
                      ELSE NothingDue(local[h])
    BY DEF NothingDue
  <2>0. TypeOK'
    BY NextKeepsTelemetry DEF TInv
  <2>1. SaveSnapshot(h) \/ ReadProbe(h) \/ NoProbe(h) \/ UpdateCircuit(h)
    <3>1. \A step : pc' = [pc EXCEPT ![h] = step] => pc'[h] = step
      BY DEF TInv, TypeOK
    <3>2. \A g \in Handlers : \A step : pc' = [pc EXCEPT ![g] = step] => g = h
      BY DEF TInv, TypeOK
    <3>3. pc' # pc
      OBVIOUS
    <3>4. ASSUME NEW g \in Handlers,
                 \/ Refresh(g) \/ Relist(g) \/ Send(g) \/ Answer(g) \/ Leave(g)
          PROVE  g = h
      BY <3>2, <3>4 DEF Refresh, ListConnections, ReadPrevious, Aggregate, SaveSnapshot, ReadProbe,
         NoProbe, UpdateCircuit, Relist, Send, Answer, Leave, Idle
    <3>5. Refresh(h) \/ Relist(h) \/ Send(h) \/ Answer(h) \/ Leave(h)
      BY <3>3, <3>4 DEF Next, Reconcile, Tick, executions
    <3> QED
      BY <3>1, <3>5 DEF Refresh, ListConnections, ReadPrevious, Aggregate, Relist, Send, Answer,
         Leave, Idle
  <2>2. CASE UpdateCircuit(h)
    BY <2>0, <2>2, UpdateCircuitFits DEF UpdateCircuit
  <2>3. CASE SaveSnapshot(h)
    BY <2>0, <2>3, SaveSnapshotFits DEF SaveSnapshot
  <2>4. CASE ReadProbe(h)
    BY <2>0, <2>4, ReadProbeFits DEF ReadProbe
  <2>5. CASE NoProbe(h)
    BY <2>0, <2>5, NoProbeFits DEF NoProbe
  <2> QED
    BY <2>1, <2>2, <2>3, <2>4, <2>5
<1> QED
  BY <1>1, WritesFollow, PTL DEF Spec, CircuitSteps

=============================================================================
