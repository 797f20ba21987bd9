--------------------------- MODULE RoutingTelemetry ---------------------------
(***************************************************************************)
(* The health snapshots and the circuit breaker of one provider connection *)
(* (internal/routingtelemetry and its postgres repository), as the routing *)
(* of payments drives them (executeRouting).                               *)
(*                                                                         *)
(* Every execution that routes a payment first refreshes the telemetry: it *)
(* reads the connection and the last snapshot, aggregates the attempts of  *)
(* the window, saves a snapshot and may move the circuit.  Then it reads   *)
(* the connection again and may send it the payment.  Nothing keeps two    *)
(* executions from refreshing at once, and the circuit is written without  *)
(* regard to what it has become since it was read.                         *)
(*                                                                         *)
(* Connections are refreshed one after the other and share nothing, so one *)
(* is modelled.  Time is an integer; 0 stands for NULL.                    *)
(***************************************************************************)
EXTENDS Integers, FiniteSets

CONSTANTS
    Handlers,        \* executions of executeRouting that may overlap
    MaxRequests,     \* bound on the create calls to the connection
    MaxTime,         \* bound on the clock
    Window,          \* Options.Window, 15 minutes
    Cooldown,        \* Options.CircuitCooldown, 1 minute
    MinimumSamples   \* Options.MinimumSamples, 20

ASSUME TelemetryBounds ==
    /\ MaxRequests \in Nat
    /\ MaxTime \in Nat \ {0}
    /\ Window \in Nat \ {0}
    /\ Cooldown \in Nat \ {0}
    /\ MinimumSamples \in Nat \ {0}

VARIABLES
    clock,        \* the time
    circuit,      \* circuit_state and circuit_opened_at of the connection
    latest,       \* its provider_health_snapshots row with the latest observed_at
    attempt,      \* its payment_attempts rows, in the order they are sent
    pc,           \* the next call of each execution
    local,        \* what each execution has read
    bad,          \* history: unhealthy snapshots saved so far, up to two
    firstOpened   \* history: the earliest time the circuit was opened at

vars == <<clock, circuit, latest, attempt, pc, local, bad, firstOpened>>

executions == <<pc, local>>
history == <<bad, firstOpened>>

-----------------------------------------------------------------------------

Never == 0

Times == Never..MaxTime

Attempts == 1..MaxRequests

\* failed is failed_safe and failed_terminal, which count alike.
Statuses == {"unsent", "requesting", "succeeded", "failed", "unknown"}

Circuits == [state : {"closed", "open", "half_open"}, openedAt : Times]

Closed == [state |-> "closed", openedAt |-> Never]

\* Slip: the end of the cool-down is stored in place of its start.
OpenedSlip(t) == [state |-> "open", openedAt |-> t + Cooldown]

Opened(t) == [state |-> "open", openedAt |-> t]

HalfOpened(t) == [state |-> "half_open", openedAt |-> t]

\* Of a snapshot only its time and what unhealthy says of it matter here.
Snapshots == [observed : Times, unhealthy : BOOLEAN]

NoSnapshot == [observed |-> Never, unhealthy |-> FALSE]

AttemptRows == [status : Statuses, started : Times]

Unsent == [status |-> "unsent", started |-> Never]

Locals ==
    [conn     : Circuits,     \* the connection as listed
     now      : Times,        \* the time Refresh was called with, or of the last listing
     previous : Snapshots,    \* the snapshot before its own
     current  : BOOLEAN,      \* its own snapshot is unhealthy
     next     : Circuits,     \* what it is about to write
     sent     : 0..MaxRequests]  \* the attempt it waits for, 0 when there is none

NoLocal ==
    [conn |-> Closed, now |-> Never, previous |-> NoSnapshot, current |-> FALSE,
     next |-> Closed, sent |-> 0]

Refreshing == {"previous", "aggregate", "save", "probe", "update"}

Steps == {"idle"} \cup Refreshing \cup {"relist", "send", "answer"}

TypeOK ==
    /\ clock \in 1..MaxTime
    /\ circuit \in Circuits
    /\ latest \in Snapshots
    /\ attempt \in [Attempts -> AttemptRows]
    /\ pc \in [Handlers -> Steps]
    /\ local \in [Handlers -> Locals]
    /\ bad \in 0..2
    /\ firstOpened \in Times

\* A new connection.
Init ==
    /\ clock = 1
    /\ circuit = Closed
    /\ latest = NoSnapshot
    /\ attempt = [a \in Attempts |-> Unsent]
    /\ pc = [h \in Handlers |-> "idle"]
    /\ local = [h \in Handlers |-> NoLocal]
    /\ bad = 0
    /\ firstOpened = Never

-----------------------------------------------------------------------------
(* Refresh.                                                                 *)

Idle(h) ==
    /\ pc' = [pc EXCEPT ![h] = "idle"]
    /\ local' = [local EXCEPT ![h] = NoLocal]

\* l.now is the time of the reading, until the clock is read for Refresh.
ListConnections(h) ==
    /\ pc[h] = "idle"
    /\ pc' = [pc EXCEPT ![h] = "previous"]
    /\ local' = [local EXCEPT ![h] = [NoLocal EXCEPT !.conn = circuit, !.now = clock]]
    /\ UNCHANGED <<clock, circuit, latest, attempt, history>>

\* The clock was read between the connections and the snapshot.
ReadPrevious(h) ==
    /\ pc[h] = "previous"
    /\ pc' = [pc EXCEPT ![h] = "aggregate"]
    /\ \E now \in local[h].now..clock :
          local' = [local EXCEPT ![h].now = now, ![h].previous = latest]
    /\ UNCHANGED <<clock, circuit, latest, attempt, history>>

\* Requests of the window; an attempt that is not sent has no request_started_at.
Samples(now) ==
    {a \in Attempts : /\ attempt[a].status # "unsent"
                      /\ attempt[a].started >= now - Window
                      /\ attempt[a].started < now}

CountOf(samples, statuses) ==
    Cardinality({a \in samples : attempt[a].status \in statuses})

\* Less than 70% succeeded, 30% failed, or 20% timed out.  The comparisons of the
\* code are between a quotient and a decimal, both rounded to the nearest double,
\* which for small counts is the comparison of the fractions.
Unhealthy(samples) ==
    LET n == Cardinality(samples)
    IN  /\ n >= MinimumSamples
        /\ \/ 10 * CountOf(samples, {"succeeded"}) < 7 * n
           \/ 10 * CountOf(samples, {"failed"}) >= 3 * n
           \/ 5 * CountOf(samples, {"unknown"}) >= n

Aggregate(h) ==
    /\ pc[h] = "aggregate"
    /\ pc' = [pc EXCEPT ![h] = "save"]
    /\ local' = [local EXCEPT ![h].current = Unhealthy(Samples(local[h].now))]
    /\ UNCHANGED <<clock, circuit, latest, attempt, history>>

\* Slip: what the earlier snapshot says is not looked at.
TripsSlip(l) == l.current /\ l.previous.observed # Never

\* Two unhealthy snapshots, the earlier of them not older than the window.
Trips(l) ==
    /\ l.current
    /\ l.previous.unhealthy
    /\ l.previous.observed # Never
    /\ l.previous.observed >= l.now - Window

\* Slip: the first moment after the cool-down does not count.
CooledLateSlip(l) == l.now > l.conn.openedAt + Cooldown

Cooled(l) == l.now >= l.conn.openedAt + Cooldown

\* What evaluateCircuit writes before it looks for a probe; the circuit as read when
\* it writes nothing.
Evaluated(l) ==
    CASE l.conn.state = "closed" /\ Trips(l) -> Opened(l.now)
      [] l.conn.state = "open" /\ l.conn.openedAt # Never /\ Cooled(l) ->
            HalfOpened(l.conn.openedAt)
      [] l.conn.state = "half_open" /\ l.conn.openedAt = Never -> Opened(l.now)
      [] OTHER -> l.conn

AfterSave(l) ==
    IF Evaluated(l) # l.conn
        THEN "update"
        ELSE IF l.conn.state = "half_open" THEN "probe" ELSE "relist"

\* Slip: the row inserted last is taken for the latest.
LatestOfSlip(old, new) == new

\* The snapshot that ORDER BY observed_at DESC, id DESC puts first after the insert.
LatestOf(old, new) == IF new.observed >= old.observed THEN new ELSE old

SaveSnapshot(h) ==
    LET l == local[h]
    IN  /\ pc[h] = "save"
        /\ latest' = LatestOf(latest, [observed |-> l.now, unhealthy |-> l.current])
        /\ bad' = IF l.current /\ bad < 2 THEN bad + 1 ELSE bad
        /\ pc' = [pc EXCEPT ![h] = AfterSave(l)]
        /\ local' = [local EXCEPT ![h] = [NoLocal EXCEPT !.conn = l.conn, !.now = l.now,
                                                        !.next = Evaluated(l)]]
        /\ UNCHANGED <<clock, circuit, attempt, firstOpened>>

\* Slip: the latest request, whenever it was made.
ProbesSlip(since) ==
    {a \in Attempts :
        /\ attempt[a].status # "unsent"
        /\ \A b \in Attempts :
              attempt[b].status # "unsent" => attempt[b].started <= attempt[a].started}

\* The latest request since the opening; which of two with the same time is up to
\* their random ids.
Probes(since) ==
    {a \in Attempts :
        /\ attempt[a].status # "unsent"
        /\ attempt[a].started >= since
        /\ \A b \in Attempts :
              attempt[b].status # "unsent" => attempt[b].started <= attempt[a].started}

Verdict(l, status) ==
    CASE status = "succeeded" -> Closed
      [] status \in {"failed", "unknown"} -> Opened(l.now)
      [] OTHER -> l.conn

ReadProbe(h) ==
    /\ pc[h] = "probe"
    /\ \E a \in Probes(local[h].conn.openedAt) :
          LET verdict == Verdict(local[h], attempt[a].status)
          IN  /\ local' = [local EXCEPT ![h].next = verdict]
              /\ pc' = [pc EXCEPT ![h] =
                            IF verdict # local[h].conn THEN "update" ELSE "relist"]
    /\ UNCHANGED <<clock, circuit, latest, attempt, history>>

NoProbe(h) ==
    /\ pc[h] = "probe"
    /\ Probes(local[h].conn.openedAt) = {}
    /\ pc' = [pc EXCEPT ![h] = "relist"]
    /\ UNCHANGED <<clock, circuit, latest, attempt, local, history>>

UpdateCircuit(h) ==
    LET next == local[h].next
    IN  /\ pc[h] = "update"
        /\ circuit' = next
        /\ firstOpened' =
              IF next.state = "open" /\ (firstOpened = Never \/ next.openedAt < firstOpened)
              THEN next.openedAt
              ELSE firstOpened
        /\ pc' = [pc EXCEPT ![h] = "relist"]
        /\ UNCHANGED <<clock, latest, attempt, local, bad>>

-----------------------------------------------------------------------------
(* The create call that follows the refresh.                                *)

\* The list the router selects from, in this round and in the fallback rounds of the
\* same execution.
Relist(h) ==
    /\ pc[h] = "relist"
    /\ circuit.state # "open"
    /\ pc' = [pc EXCEPT ![h] = "send"]
    /\ local' = [local EXCEPT ![h] = [NoLocal EXCEPT !.now = clock]]
    /\ UNCHANGED <<clock, circuit, latest, attempt, history>>

\* The router has selected the connection; the attempt is recorded and saved as
\* requesting, with a time that was read before the saving.
Send(h) ==
    /\ pc[h] = "send"
    /\ \E a \in Attempts :
          /\ attempt[a].status = "unsent"
          /\ \A b \in 1..(a - 1) : attempt[b].status # "unsent"
          /\ \E t \in local[h].now..clock :
                attempt' = [attempt EXCEPT ![a] = [status |-> "requesting", started |-> t]]
          /\ local' = [local EXCEPT ![h] = [NoLocal EXCEPT !.sent = a]]
    /\ pc' = [pc EXCEPT ![h] = "answer"]
    /\ UNCHANGED <<clock, circuit, latest, history>>

\* The outcome of the create call is saved.
Answer(h) ==
    /\ pc[h] = "answer"
    /\ \E s \in {"succeeded", "failed", "unknown"} :
          attempt' = [attempt EXCEPT ![local[h].sent].status = s]
    /\ Idle(h)
    /\ UNCHANGED <<clock, circuit, latest, history>>

\* The execution ends here: a call fails, the process dies, the router has selected
\* another connection or none.  What it has written stays.
Leave(h) ==
    /\ pc[h] # "idle"
    /\ Idle(h)
    /\ UNCHANGED <<clock, circuit, latest, attempt, history>>

\* ReconcilePayment finds out about an unknown attempt; its time stays.
Reconcile(a) ==
    /\ attempt[a].status = "unknown"
    /\ \E s \in {"succeeded", "failed"} :
          attempt' = [attempt EXCEPT ![a].status = s]
    /\ UNCHANGED <<clock, circuit, latest, executions, history>>

Tick ==
    /\ clock < MaxTime
    /\ clock' = clock + 1
    /\ UNCHANGED <<circuit, latest, attempt, executions, history>>

-----------------------------------------------------------------------------

Refresh(h) ==
    \/ ListConnections(h) \/ ReadPrevious(h) \/ Aggregate(h) \/ SaveSnapshot(h)
    \/ ReadProbe(h) \/ NoProbe(h) \/ UpdateCircuit(h)

Next ==
    \/ \E h \in Handlers : Refresh(h) \/ Relist(h) \/ Send(h) \/ Answer(h) \/ Leave(h)
    \/ \E a \in Attempts : Reconcile(a)
    \/ Tick

Spec == Init /\ [][Next]_vars

-----------------------------------------------------------------------------
(* Properties.                                                              *)

\* One bad snapshot does not open the circuit, not even when executions refresh at
\* once: the second is another row than the first (evaluateCircuit,
\* TestCircuitDoesNotOpenFromSingleBadSnapshot).
OpensOnTwoSnapshots == firstOpened # Never => bad = 2

\* A circuit that has ever been opened is closed again only after a request that was
\* sent since then has succeeded, however stale the execution that closes it.
ClosesOnSuccess ==
    firstOpened # Never /\ circuit.state = "closed" =>
        \E a \in Attempts :
            attempt[a].status = "succeeded" /\ attempt[a].started >= firstOpened

\* An open or half-open circuit knows when it was opened, and that is not ahead of the
\* clock: else it would never cool down, or never find its probe.
OpeningIsKnown ==
    IF circuit.state = "closed" THEN circuit.openedAt = Never
    ELSE circuit.openedAt \in 1..clock

\* A slow execution does not hide a newer snapshot behind its older one.
SnapshotsMoveForward == [][latest'.observed >= latest.observed]_vars

\* The circuit goes closed, open, half-open, and on from there by a probe: a request
\* sent since the opening that succeeded, or one that was answered otherwise.  It is
\* not half-open before the cool-down is over, and every opening is a later one.
CircuitStep(old, new) ==
    \/ old.state = "closed" /\ new.state = "open"
    \/ /\ old.state = "open"
       /\ new = HalfOpened(old.openedAt)
       /\ clock >= old.openedAt + Cooldown
    \/ /\ old.state = "half_open"
       /\ \/ new.state = "closed"
          \/ new.state = "open" /\ new.openedAt > old.openedAt
       /\ \E a \in Attempts :
             /\ attempt[a].started >= old.openedAt
             /\ IF new.state = "closed" THEN attempt[a].status = "succeeded"
                ELSE attempt[a].status \notin {"unsent", "requesting"}

\* Since nothing keeps refreshes apart, what an execution writes may not follow from
\* the circuit it overwrites (UpdateProviderCircuit).  It follows, with evidence that
\* still stands when it is written, from a circuit the connection has had: a late
\* write of evaluateCircuit never invents an opening, a cool-down or a probe.  And an
\* execution that found the circuit open after its cool-down does not end its refresh
\* without moving it: the connection comes back, although nobody but the payments looks.
CircuitSteps ==
    [][\A h \in Handlers :
          pc[h] # "relist" /\ pc'[h] = "relist" =>
              LET old == local[h].conn
              IN  IF pc[h] = "update" THEN CircuitStep(old, circuit')
                  ELSE ~(old.state = "open" /\ local[h].now >= old.openedAt + Cooldown)]_vars

=============================================================================
