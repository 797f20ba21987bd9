------------------------------- MODULE Routing -------------------------------
(***************************************************************************)
(* How one execution of executeRouting chooses the connections it tries    *)
(* (internal/orchestration/router.go and the loop around it).              *)
(*                                                                         *)
(* Router.Select goes once through the connections, in order of priority   *)
(* and id, notes of each why it is excluded, and keeps the best candidate  *)
(* so far.  The execution records the choice with its evidence, calls the  *)
(* provider, and after a safe failure selects again without the connection *)
(* just tried.  The list and the health scores are those read at the start *)
(* of the execution; they do not change while it runs.                     *)
(*                                                                         *)
(* Ids are integers, ordered as the code orders its strings, and scores    *)
(* are percentages.                                                        *)
(***************************************************************************)
EXTENDS Integers, FiniteSets

CONSTANTS
    Conns,         \* ids of the workspace's connections
    Priorities,    \* priorities that occur
    Scores,        \* health scores that occur
    Failing,       \* sets of rules that a connection may fail at once
    MaxAttempts,   \* Options.MaxAttempts
    None           \* no connection, no score, no reason

\* The rules on the connection itself, which stay as they are in one execution.
Rules == {"connector_not_registered", "capability_unsupported", "disabled",
          "wrong_environment", "invalid_credentials"}

Reasons == Rules \cup {"already_attempted", "circuit_open"}

ColdScore == 50

ASSUME RoutingBounds ==
    /\ Conns \subseteq Int
    /\ IsFiniteSet(Conns)
    /\ Priorities \subseteq Int
    /\ Scores \subseteq 0..100
    /\ Failing \subseteq SUBSET Rules
    /\ MaxAttempts \in Nat \ {0}

ASSUME RoutingNone == None \notin Conns /\ None \notin Scores /\ None \notin Reasons

VARIABLES
    conn,       \* the listed connections
    health,     \* the scores of the refresh
    excluded,   \* connections of attempts made already
    attempts,   \* number of attempts of the payment
    unseen,     \* connections Select has still to go through
    best,       \* the best candidate so far
    evidence,   \* the reason noted for each connection
    decision,   \* the routing_decisions rows, by attempt sequence
    pc          \* where the execution stands

vars == <<conn, health, excluded, attempts, unseen, best, evidence, decision, pc>>

inputs == <<conn, health>>

-----------------------------------------------------------------------------

Connections ==
    [priority : Priorities,
     fails    : Failing,
     circuit  : {"closed", "open", "half_open"}]

NoEvidence == [c \in Conns |-> None]

Decisions ==
    [selected : Conns \cup {None}, evidence : [Conns -> Reasons \cup {None}]]

NoDecision == [selected |-> None, evidence |-> NoEvidence]

Sequences == 1..MaxAttempts

\* Slip: one attempt more than the budget.
WithinBudgetSlip(n) == n <= MaxAttempts

WithinBudget(n) == n < MaxAttempts

TypeOK ==
    /\ conn \in [Conns -> Connections]
    /\ health \in [Conns -> Scores \cup {None}]
    /\ excluded \subseteq Conns
    /\ attempts \in 0..MaxAttempts
    /\ unseen \subseteq Conns
    /\ best \in Conns \cup {None}
    /\ evidence \in [Conns -> Reasons \cup {None}]
    /\ decision \in [Sequences -> Decisions]
    /\ pc \in {"select", "calling", "settled", "no_eligible_provider",
               "fallback_budget_exhausted"}

\* A first execution, or one that ReconcilePayment starts after earlier attempts.
Init ==
    /\ conn \in [Conns -> Connections]
    /\ health \in [Conns -> Scores \cup {None}]
    /\ excluded \in SUBSET Conns
    /\ attempts = Cardinality(excluded)
    /\ attempts <= MaxAttempts
    /\ unseen = Conns
    /\ best = None
    /\ evidence = NoEvidence
    /\ decision = [k \in Sequences |-> NoDecision]
    /\ pc = IF WithinBudget(attempts) THEN "select" ELSE "fallback_budget_exhausted"

-----------------------------------------------------------------------------
(* Router.Select.                                                           *)

CircuitRank(c) ==
    CASE conn[c].circuit = "closed" -> 0
      [] conn[c].circuit = "half_open" -> 1
      [] OTHER -> 2

CandidateScore(c) == IF health[c] = None THEN ColdScore ELSE health[c]

\* Slip: scores are compared only when both connections have telemetry.
BetterCandidateSlip(a, b) ==
    IF CircuitRank(a) # CircuitRank(b) THEN CircuitRank(a) < CircuitRank(b)
    ELSE IF /\ health[a] # None /\ health[b] # None
            /\ CandidateScore(a) # CandidateScore(b)
    THEN CandidateScore(a) > CandidateScore(b)
    ELSE IF conn[a].priority # conn[b].priority THEN conn[a].priority < conn[b].priority
    ELSE a < b

\* betterCandidate: a before b.
BetterCandidate(a, b) ==
    IF CircuitRank(a) # CircuitRank(b) THEN CircuitRank(a) < CircuitRank(b)
    ELSE IF /\ health[a] # None \/ health[b] # None
            /\ CandidateScore(a) # CandidateScore(b)
    THEN CandidateScore(a) > CandidateScore(b)
    ELSE IF conn[a].priority # conn[b].priority THEN conn[a].priority < conn[b].priority
    ELSE a < b

\* The order in which the rules are asked.
Precedence ==
    <<"connector_not_registered", "capability_unsupported", "already_attempted", "disabled",
      "wrong_environment", "invalid_credentials", "circuit_open">>

\* Slip: a connection tried before is not left out.
FailedRulesSlip(c) ==
    conn[c].fails \cup (IF conn[c].circuit = "open" THEN {"circuit_open"} ELSE {})

\* Slip: only a closed circuit is good enough.
FailedRulesStrictSlip(c) ==
    conn[c].fails \cup (IF c \in excluded THEN {"already_attempted"} ELSE {})
                  \cup (IF conn[c].circuit # "closed" THEN {"circuit_open"} ELSE {})

FailedRules(c) ==
    conn[c].fails \cup (IF c \in excluded THEN {"already_attempted"} ELSE {})
                  \cup (IF conn[c].circuit = "open" THEN {"circuit_open"} ELSE {})

Places(c) == {i \in 1..7 : Precedence[i] \in FailedRules(c)}

\* The first rule that excludes a connection, None when it is eligible.
Exclusion(c) ==
    IF Places(c) = {} THEN None
    ELSE Precedence[CHOOSE i \in Places(c) : \A j \in Places(c) : i <= j]

\* The sort: by priority, then by id.
Earlier(a, b) ==
    \/ conn[a].priority < conn[b].priority
    \/ conn[a].priority = conn[b].priority /\ a < b

Consider(c) ==
    /\ pc = "select"
    /\ c \in unseen
    /\ \A d \in unseen \ {c} : Earlier(c, d)
    /\ unseen' = unseen \ {c}
    /\ evidence' = [evidence EXCEPT ![c] = Exclusion(c)]
    /\ best' = IF Exclusion(c) = None /\ (best = None \/ BetterCandidate(c, best))
               THEN c ELSE best
    /\ UNCHANGED <<inputs, excluded, attempts, decision, pc>>

-----------------------------------------------------------------------------
(* The loop of executeRouting.                                              *)

\* AddAttemptWithRoutingDecision; the provider is called.
Decide ==
    /\ pc = "select"
    /\ unseen = {}
    /\ best # None
    /\ attempts' = attempts + 1
    /\ decision' =
          [decision EXCEPT ![attempts + 1] = [selected |-> best, evidence |-> evidence]]
    /\ pc' = "calling"
    /\ UNCHANGED <<inputs, excluded, unseen, best, evidence>>

\* Nobody is eligible: the payment fails and what Select returned is dropped.
GiveUp ==
    /\ pc = "select"
    /\ unseen = {}
    /\ best = None
    /\ pc' = "no_eligible_provider"
    /\ UNCHANGED <<inputs, excluded, attempts, unseen, best, evidence, decision>>

\* The attempt has failed safely: select again within the budget.
FailsSafely ==
    /\ pc = "calling"
    /\ excluded' = excluded \cup {best}
    /\ unseen' = Conns
    /\ best' = None
    /\ evidence' = NoEvidence
    /\ pc' = IF WithinBudget(attempts) THEN "select" ELSE "fallback_budget_exhausted"
    /\ UNCHANGED <<inputs, attempts, decision>>

\* Any other outcome ends the execution.
Settles ==
    /\ pc = "calling"
    /\ pc' = "settled"
    /\ UNCHANGED <<inputs, excluded, attempts, unseen, best, evidence, decision>>

Next ==
    \/ \E c \in Conns : Consider(c)
    \/ Decide
    \/ GiveUp
    \/ FailsSafely
    \/ Settles

Spec == Init /\ [][Next]_vars

-----------------------------------------------------------------------------
(* Properties.                                                              *)

\* What the choice should be, without the loop: closed before half-open circuits,
\* then the score, then the priority, then the id.
Beats(a, b) ==
    \/ CircuitRank(a) < CircuitRank(b)
    \/ /\ CircuitRank(a) = CircuitRank(b)
       /\ \/ CandidateScore(a) > CandidateScore(b)
          \/ CandidateScore(a) = CandidateScore(b) /\ Earlier(a, b)

Usable(c) == conn[c].fails = {} /\ conn[c].circuit # "open"

\* The connections the execution may still try.
Eligible == {c \in Conns : Usable(c) /\ c \notin excluded}

\* Each provider called is the one eligible connection that beats all others, although
\* Select compares each candidate with the best so far only.
BestIsCalled ==
    pc = "calling" => best \in Eligible /\ \A c \in Eligible \ {best} : Beats(best, c)

\* A payment fails for want of a provider only when there is none left.
FailsWithoutProvider == pc = "no_eligible_provider" => Eligible = {}

\* Fallbacks go down the ranking and never come back to a connection.
FallbacksDescend ==
    \A j, k \in Sequences :
        j < k /\ decision[j].selected # None /\ decision[k].selected # None =>
            Beats(decision[j].selected, decision[k].selected)

\* The recorded decisions explain one another: the selected connection has no reason
\* against it, every usable one is passed over for its rank alone or because it was
\* tried before, and a connection tried before is noted as such.
DecisionsExplain ==
    \A k \in Sequences :
        LET d == decision[k]
        IN  d.selected # None =>
              /\ d.evidence[d.selected] = None
              /\ \A c \in Conns :
                    IF Usable(c) THEN d.evidence[c] \in {None, "already_attempted"}
                    ELSE d.evidence[c] \notin {None, "already_attempted"} \/ c \in excluded
              /\ \A j \in 1..(k - 1) :
                    decision[j].selected # None =>
                        d.evidence[decision[j].selected] = "already_attempted"

\* A payment that no provider was tried for can be accounted for: why each connection
\* was left out is on record (AC-013, of GiveUp).
ExclusionsAreExplained ==
    pc = "no_eligible_provider" /\ attempts = 0 =>
        \A c \in Conns : \E k \in Sequences : decision[k].evidence[c] = Exclusion(c)

=============================================================================
