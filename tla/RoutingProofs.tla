---------------------------- MODULE RoutingProofs ----------------------------
(***************************************************************************)
(* Proofs about Routing.  The argument: the pass of Select keeps the best  *)
(* eligible connection of those seen (Scan), whose order is total and      *)
(* transitive; what it notes of each is the first rule against it (Noted); *)
(* and every connection recorded as selected beats whatever may still be   *)
(* selected (Ranked) and is among the excluded ones when the next is       *)
(* chosen (Spent).                                                         *)
(***************************************************************************)
EXTENDS Routing, FiniteSetTheorems, TLAPS

\* The pass over the connections has kept the best one.
Scan ==
    /\ best = None => \A c \in Conns \ unseen : c \notin Eligible
    /\ best # None =>
          /\ best \in Eligible
          /\ best \notin unseen
          /\ \A c \in (Eligible \ unseen) \ {best} : Beats(best, c)

\* The pass has noted the reason of every connection it has seen.
Noted == \A c \in Conns \ unseen : evidence[c] = Exclusion(c)

\* What holds at each point of the loop.
Stage ==
    /\ pc = "select" => attempts < MaxAttempts
    /\ pc = "calling" =>
          /\ unseen = {}
          /\ best # None
          /\ attempts \in Sequences
          /\ decision[attempts].selected = best
    /\ pc = "no_eligible_provider" => unseen = {} /\ best = None

\* Selected connections are usable and were tried, all but perhaps the last before the
\* one that is being called.
Spent ==
    \A k \in Sequences :
        decision[k].selected # None =>
            /\ k <= attempts
            /\ Usable(decision[k].selected)
            /\ \/ decision[k].selected \in excluded
               \/ k = attempts /\ pc \in {"calling", "settled"}

\* A selected connection beats every usable one not tried yet.
Ranked ==
    \A k \in Sequences :
        decision[k].selected # None =>
            \A c \in Eligible \ {decision[k].selected} : Beats(decision[k].selected, c)

RInv ==
    /\ TypeOK
    /\ Scan
    /\ Noted
    /\ Stage
    /\ Spent
    /\ Ranked
    /\ FallbacksDescend
    /\ DecisionsExplain

-----------------------------------------------------------------------------
(* The order of the candidates.                                             *)

LEMMA Ranks ==
    ASSUME TypeOK, NEW c \in Conns
    PROVE  /\ CircuitRank(c) \in 0..2
           /\ CandidateScore(c) \in Int
           /\ conn[c].priority \in Int
           /\ c \in Int
<1>1. conn[c] \in Connections BY DEF TypeOK
<1>2. CircuitRank(c) \in 0..2 BY <1>1 DEF CircuitRank, Connections
<1>3. CandidateScore(c) \in Int
  <2>1. health[c] \in Scores \cup {None} BY DEF TypeOK
  <2>2. \A x \in Scores : x \in Int BY RoutingBounds
  <2>3. ColdScore \in Int BY DEF ColdScore
  <2> QED BY <2>1, <2>2, <2>3 DEF CandidateScore
<1>4. conn[c].priority \in Int /\ c \in Int BY <1>1, RoutingBounds DEF Connections
<1> QED BY <1>2, <1>3, <1>4

\* The comparison of the code, which looks at the scores only when one of the two has
\* telemetry, is the lexicographic order.
LEMMA BetterIsBeats ==
    ASSUME TypeOK, NEW a \in Conns, NEW b \in Conns, a # b
    PROVE  BetterCandidate(a, b) <=> Beats(a, b)
<1>1. health[a] = None /\ health[b] = None => CandidateScore(a) = CandidateScore(b)
  BY DEF CandidateScore
<1>2. /\ CircuitRank(a) \in 0..2 /\ CircuitRank(b) \in 0..2
      /\ CandidateScore(a) \in Int /\ CandidateScore(b) \in Int
      /\ conn[a].priority \in Int /\ conn[b].priority \in Int
      /\ a \in Int /\ b \in Int
  BY Ranks
<1> QED BY <1>1, <1>2 DEF BetterCandidate, Beats, Earlier

LEMMA BeatsTotal ==
    ASSUME TypeOK, NEW a \in Conns, NEW b \in Conns, a # b
    PROVE  Beats(a, b) \/ Beats(b, a)
<1>1. /\ CircuitRank(a) \in 0..2 /\ CircuitRank(b) \in 0..2
      /\ CandidateScore(a) \in Int /\ CandidateScore(b) \in Int
      /\ conn[a].priority \in Int /\ conn[b].priority \in Int
      /\ a \in Int /\ b \in Int
  BY Ranks
<1> QED BY <1>1 DEF Beats, Earlier

LEMMA BeatsTransitive ==
    ASSUME TypeOK, NEW a \in Conns, NEW b \in Conns, NEW c \in Conns,
           Beats(a, b), Beats(b, c)
    PROVE  Beats(a, c)
<1>1. /\ CircuitRank(a) \in 0..2 /\ CircuitRank(b) \in 0..2 /\ CircuitRank(c) \in 0..2
      /\ CandidateScore(a) \in Int /\ CandidateScore(b) \in Int /\ CandidateScore(c) \in Int
      /\ conn[a].priority \in Int /\ conn[b].priority \in Int /\ conn[c].priority \in Int
      /\ a \in Int /\ b \in Int /\ c \in Int
  BY Ranks
<1> QED BY <1>1 DEF Beats, Earlier

\* The ranking and the rules are those of the list and the scores, which stay.
LEMMA RankingStays ==
    ASSUME UNCHANGED inputs, NEW a, NEW b
    PROVE  /\ Usable(a)' <=> Usable(a)
           /\ Beats(a, b)' <=> Beats(a, b)
BY DEF inputs, Usable, Beats, CircuitRank, CandidateScore, Earlier

-----------------------------------------------------------------------------
(* The first rule against a connection.                                     *)

LEMMA FirstPlace ==
    ASSUME NEW S \in SUBSET (1..7), S # {}
    PROVE  \E i \in S : \A j \in S : i <= j
<1>1. \A j \in S : j \in 1..7 OBVIOUS
<1>2. CASE 1 \in S BY <1>1, <1>2
<1>3. CASE 1 \notin S /\ 2 \in S BY <1>1, <1>3
<1>4. CASE 1 \notin S /\ 2 \notin S /\ 3 \in S BY <1>1, <1>4
<1>5. CASE 1 \notin S /\ 2 \notin S /\ 3 \notin S
  <2>1. \A j \in S : j \in 4..7 BY <1>1, <1>5
  <2>2. CASE 4 \in S BY <2>1, <2>2
  <2>3. CASE 4 \notin S /\ 5 \in S BY <2>1, <2>3
  <2>4. CASE 4 \notin S /\ 5 \notin S /\ 6 \in S BY <2>1, <2>4
  <2>5. CASE 4 \notin S /\ 5 \notin S /\ 6 \notin S
    <3>1. \A j \in S : j = 7 BY <2>1, <2>5
    <3>2. PICK i : i \in S OBVIOUS
    <3>3. \A j \in S : i <= j BY <3>1, <3>2
    <3> QED BY <3>2, <3>3
  <2> QED BY <2>2, <2>3, <2>4, <2>5
<1> QED BY <1>2, <1>3, <1>4, <1>5

\* Exclusion returns one of the rules a connection fails, and None when it fails none.
LEMMA ExclusionIsAReason ==
    ASSUME TypeOK, NEW c \in Conns
    PROVE  /\ FailedRules(c) = {} => Exclusion(c) = None
           /\ FailedRules(c) # {} => Exclusion(c) \in FailedRules(c)
           /\ FailedRules(c) \subseteq Reasons
<1>1. FailedRules(c) \subseteq Reasons
  <2>1. conn[c].fails \subseteq Rules BY RoutingBounds DEF TypeOK, Connections
  <2> QED BY <2>1 DEF FailedRules, Reasons
<1>2. ASSUME FailedRules(c) = {} PROVE Exclusion(c) = None
  BY <1>2 DEF Exclusion, Places
<1>3. ASSUME FailedRules(c) # {} PROVE Exclusion(c) \in FailedRules(c)
  <2>1. PICK r : r \in FailedRules(c) BY <1>3
  <2>2. \E i \in 1..7 : Precedence[i] = r
    <3>1. r \in Reasons BY <1>1, <2>1
    <3>2. \/ r = Precedence[1] \/ r = Precedence[2] \/ r = Precedence[3]
          \/ r = Precedence[4] \/ r = Precedence[5] \/ r = Precedence[6] \/ r = Precedence[7]
      BY <3>1 DEF Reasons, Rules, Precedence
    <3> QED BY <3>2
  <2>3. Places(c) # {} BY <2>1, <2>2 DEF Places
  <2>4. Places(c) \in SUBSET (1..7) BY DEF Places
  <2>5. \E i \in Places(c) : \A j \in Places(c) : i <= j BY <2>3, <2>4, FirstPlace
  <2>6. PICK m : m = (CHOOSE i \in Places(c) : \A j \in Places(c) : i <= j) OBVIOUS
  <2>7. m \in Places(c) BY <2>5, <2>6
  <2>8. Exclusion(c) = Precedence[m] BY <2>3, <2>6 DEF Exclusion
  <2> QED BY <2>7, <2>8 DEF Places
<1> QED BY <1>1, <1>2, <1>3

LEMMA NoReasonIsEligible ==
    ASSUME TypeOK, NEW c \in Conns
    PROVE  Exclusion(c) = None <=> c \in Eligible
<1>1. FailedRules(c) = {} <=> c \in Eligible
  BY DEF FailedRules, Eligible, Usable
<1>2. FailedRules(c) # {} => Exclusion(c) # None
  BY ExclusionIsAReason, RoutingNone
<1> QED BY <1>1, <1>2, ExclusionIsAReason

-----------------------------------------------------------------------------
(* The invariant.                                                           *)

LEMMA RInit == Init => RInv
<1> SUFFICES ASSUME Init PROVE RInv OBVIOUS
<1>1. attempts \in 0..MaxAttempts
  <2>1. IsFiniteSet(excluded) BY RoutingBounds, FS_Subset DEF Init
  <2> QED BY <2>1, FS_CardinalityType, RoutingBounds DEF Init
<1>2. decision \in [Sequences -> Decisions]
  <2>1. NoDecision \in Decisions BY DEF NoDecision, Decisions, NoEvidence
  <2> QED BY <2>1 DEF Init
<1>3. evidence \in [Conns -> Reasons \cup {None}] BY DEF Init, NoEvidence
<1>4. TypeOK BY <1>1, <1>2, <1>3 DEF Init, TypeOK
<1>5. Scan /\ Noted BY DEF Init, Scan, Noted
<1>6. Stage
  <2>1. attempts \in Int /\ MaxAttempts \in Int BY <1>1, RoutingBounds
  <2> QED BY <2>1 DEF Init, Stage, WithinBudget
<1>7. \A k \in Sequences : decision[k].selected = None
  BY DEF Init, NoDecision
<1>8. Spent /\ Ranked /\ FallbacksDescend /\ DecisionsExplain
  BY <1>7 DEF Spent, Ranked, FallbacksDescend, DecisionsExplain
<1> QED BY <1>4, <1>5, <1>6, <1>8 DEF RInv

\* A step that leaves the decisions and the excluded connections alone keeps what is
\* said of them, if it does not leave a call behind.
LEMMA HistoryStays ==
    ASSUME Spent, Ranked, FallbacksDescend, DecisionsExplain,
           UNCHANGED <<inputs, excluded, attempts, decision>>,
           pc' = pc \/ (pc = "select" /\ pc' # "calling") \/ (pc = "calling" /\ pc' = "settled")
    PROVE  Spent' /\ Ranked' /\ FallbacksDescend' /\ DecisionsExplain'
<1>1. \A c : Usable(c)' <=> Usable(c) BY RankingStays
<1>2. \A a, b : Beats(a, b)' <=> Beats(a, b) BY RankingStays
<1>3. Eligible' = Eligible BY <1>1 DEF Eligible
<1>4. Spent' BY <1>1 DEF Spent
<1>5. Ranked' BY <1>2, <1>3 DEF Ranked
<1>6. FallbacksDescend' BY <1>2 DEF FallbacksDescend
<1>7. DecisionsExplain' BY <1>1 DEF DecisionsExplain
<1> QED BY <1>4, <1>5, <1>6, <1>7

LEMMA ConsiderKeeps ==
    ASSUME RInv, NEW c \in Conns, Consider(c)
    PROVE  RInv'
<1> USE DEF RInv
<1>1. /\ UNCHANGED <<inputs, excluded, attempts, decision>>
      /\ pc' = pc /\ pc = "select"
  BY DEF Consider
<1>2. Exclusion(c) \in Reasons \cup {None}
  <2>1. FailedRules(c) = {} \/ FailedRules(c) # {} OBVIOUS
  <2> QED BY <2>1, ExclusionIsAReason
<1>3. TypeOK' BY <1>1, <1>2 DEF TypeOK, Consider, inputs
<1>4. \A d : Usable(d)' <=> Usable(d) BY <1>1, RankingStays
<1>5. \A a, b : Beats(a, b)' <=> Beats(a, b) BY <1>1, RankingStays
<1>6. Eligible' = Eligible BY <1>1, <1>4 DEF Eligible
<1>7. Scan'
  <2>1. c \in unseen /\ unseen' = unseen \ {c} BY DEF Consider
  <2>2. CASE c \notin Eligible
    <3>1. best' = best BY <2>2, NoReasonIsEligible DEF Consider
    <3> QED BY <3>1, <2>1, <2>2, <1>5, <1>6 DEF Scan, TypeOK
  <2>3. CASE c \in Eligible /\ best = None
    <3>1. best' = c BY <2>3, NoReasonIsEligible DEF Consider
    <3>2. c # None BY RoutingNone
    <3> QED BY <3>1, <3>2, <2>1, <2>3, <1>6 DEF Scan, Eligible, TypeOK
  <2>4. CASE c \in Eligible /\ best # None
    <3>1. best \in Conns /\ best # c BY <2>1, <2>4 DEF Scan, Eligible
    <3>2. CASE Beats(c, best)
      <4>1. best' = c
        BY <2>4, <3>1, <3>2, NoReasonIsEligible, BetterIsBeats DEF Consider
      <4>2. \A d \in (Eligible \ unseen) \ {best} : Beats(c, d)
        BY <2>4, <3>1, <3>2, BeatsTransitive DEF Scan, Eligible
      <4>3. c # None BY RoutingNone
      <4> QED BY <4>1, <4>2, <4>3, <3>2, <2>1, <2>4, <1>5, <1>6 DEF Scan
    <3>3. CASE ~Beats(c, best)
      <4>1. best' = best
        BY <2>4, <3>1, <3>3, BetterIsBeats DEF Consider
      <4>2. Beats(best, c) BY <3>1, <3>3, BeatsTotal
      <4> QED BY <4>1, <4>2, <2>1, <2>4, <1>5, <1>6 DEF Scan
    <3> QED BY <3>2, <3>3
  <2> QED BY <2>2, <2>3, <2>4
<1>8. Noted'
  <2>1. \A d \in Conns : Exclusion(d)' = Exclusion(d)
    BY <1>1 DEF Exclusion, Places, FailedRules, inputs
  <2>2. evidence' = [evidence EXCEPT ![c] = Exclusion(c)] /\ unseen' = unseen \ {c}
    BY DEF Consider
  <2>3. \A d \in Conns \ unseen' : evidence'[d] = Exclusion(d)
    BY <2>2 DEF Noted, TypeOK
  <2> QED BY <2>1, <2>3 DEF Noted
<1>9. Stage' BY <1>1 DEF Stage
<1>10. Spent' /\ Ranked' /\ FallbacksDescend' /\ DecisionsExplain'
  BY <1>1, HistoryStays
<1> QED BY <1>3, <1>7, <1>8, <1>9, <1>10

LEMMA DecideKeeps ==
    ASSUME RInv, Decide
    PROVE  RInv'
<1> USE DEF RInv
<1>1. /\ UNCHANGED <<inputs, excluded, unseen, best, evidence>>
      /\ pc = "select" /\ pc' = "calling"
      /\ unseen = {} /\ best # None
      /\ attempts' = attempts + 1
  BY DEF Decide
<1> PICK n : n = attempts + 1 OBVIOUS
<1> PICK d : d = [selected |-> best, evidence |-> evidence] OBVIOUS
<1>2. n \in Sequences /\ n = attempts' /\ n <= MaxAttempts /\ attempts \in Nat
  BY <1>1, RoutingBounds DEF Stage, TypeOK, Sequences
<1>3. decision' = [decision EXCEPT ![n] = d] BY DEF Decide
<1>4. /\ decision'[n] = d
      /\ \A k \in Sequences \ {n} : decision'[k] = decision[k]
  BY <1>2, <1>3 DEF TypeOK
<1>5. TypeOK'
  <2>1. d \in Decisions BY DEF Decisions, TypeOK
  <2>2. decision' \in [Sequences -> Decisions] BY <1>3, <2>1 DEF TypeOK
  <2>3. attempts' \in 0..MaxAttempts BY <1>2, RoutingBounds
  <2> QED BY <1>1, <2>2, <2>3 DEF TypeOK, inputs
<1>6. \A c : Usable(c)' <=> Usable(c) BY <1>1, RankingStays
<1>7. \A a, b : Beats(a, b)' <=> Beats(a, b) BY <1>1, RankingStays
<1>8. Eligible' = Eligible BY <1>1, <1>6 DEF Eligible
<1>9. Scan' BY <1>1, <1>7, <1>8 DEF Scan
<1>10. Noted'
  <2>1. \A c \in Conns : Exclusion(c)' = Exclusion(c)
    BY <1>1 DEF Exclusion, Places, FailedRules, inputs
  <2> QED BY <1>1, <2>1 DEF Noted
<1>11. Stage' BY <1>1, <1>2, <1>4 DEF Stage
<1>12. best \in Eligible /\ \A c \in Eligible \ {best} : Beats(best, c)
  BY <1>1 DEF Scan
<1>13. \A k \in Sequences \ {n} : decision[k].selected # None =>
          /\ k <= attempts
          /\ Usable(decision[k].selected)
          /\ decision[k].selected \in excluded
  BY <1>1 DEF Spent
<1>14. Spent'
  <2>1. Usable(best) BY <1>12 DEF Eligible
  <2>2. \A k \in Sequences : decision'[k].selected # None =>
            /\ k <= attempts'
            /\ Usable(decision'[k].selected)
            /\ decision'[k].selected \in excluded \/ k = attempts'
    BY <1>2, <1>4, <1>13, <2>1 DEF Sequences
  <2> QED BY <2>2, <1>1, <1>6 DEF Spent
<1>15. Ranked'
  <2>1. \A k \in Sequences : decision'[k].selected # None =>
           \A c \in Eligible \ {decision'[k].selected} : Beats(decision'[k].selected, c)
    BY <1>4, <1>12 DEF Ranked
  <2> QED BY <2>1, <1>7, <1>8 DEF Ranked
<1>16. \A k \in Sequences : decision[k].selected # None => k < n
  BY <1>1, <1>2 DEF Spent, Sequences
<1>17. FallbacksDescend'
  <2>1. ASSUME NEW j \in Sequences, NEW k \in Sequences, j < k,
               decision'[j].selected # None, decision'[k].selected # None
        PROVE  Beats(decision'[j].selected, decision'[k].selected)
    <3>1. j # n
      BY <2>1, <1>2, <1>4, <1>16 DEF Sequences
    <3>2. decision'[j] = decision[j] /\ decision[j].selected # None BY <3>1, <2>1, <1>4
    <3>3. CASE k = n
      <4>1. decision[j].selected \in excluded BY <3>1, <3>2, <1>13
      <4>2. best \in Eligible \ {decision[j].selected} BY <4>1, <1>12 DEF Eligible
      <4> QED BY <4>2, <3>2, <3>3, <1>4 DEF Ranked
    <3>4. CASE k # n
      BY <3>2, <3>4, <2>1, <1>4 DEF FallbacksDescend
    <3> QED BY <3>3, <3>4
  <2> QED BY <2>1, <1>7 DEF FallbacksDescend
<1>18. DecisionsExplain'
  <2>1. \A c \in Conns : evidence[c] = Exclusion(c) BY <1>1 DEF Noted
  <2>2. evidence[best] = None BY <2>1, <1>12, NoReasonIsEligible DEF Eligible
  <2>3. ASSUME NEW c \in Conns
        PROVE  IF Usable(c) THEN evidence[c] \in {None, "already_attempted"}
               ELSE evidence[c] \notin {None, "already_attempted"} \/ c \in excluded
    <3>1. CASE FailedRules(c) = {}
      BY <3>1, <2>1, ExclusionIsAReason DEF FailedRules, Usable
    <3>2. CASE FailedRules(c) # {}
      <4>1. evidence[c] \in FailedRules(c) /\ evidence[c] \in Reasons
        BY <3>2, <2>1, ExclusionIsAReason
      <4>2. evidence[c] # None BY <4>1, RoutingNone
      <4>3. Usable(c) => FailedRules(c) \subseteq {"already_attempted"}
        BY DEF Usable, FailedRules
      <4>4. c \notin excluded => "already_attempted" \notin FailedRules(c)
        <5>1. conn[c].fails \subseteq Rules BY RoutingBounds DEF TypeOK, Connections
        <5> QED BY <5>1 DEF FailedRules, Rules
      <4> QED BY <4>1, <4>2, <4>3, <4>4
    <3> QED BY <3>1, <3>2
  <2>4. ASSUME NEW c \in Conns, Usable(c), c \in excluded
        PROVE  evidence[c] = "already_attempted"
    <3>1. FailedRules(c) = {"already_attempted"} BY <2>4 DEF Usable, FailedRules
    <3> QED BY <3>1, <2>1, ExclusionIsAReason
  <2>5. \A j \in Sequences \ {n} : decision[j].selected # None =>
            evidence[decision[j].selected] = "already_attempted"
    <3>1. excluded \subseteq Conns BY DEF TypeOK
    <3> QED BY <1>13, <2>4, <3>1
  <2>7. \A k \in Sequences : k <= n => 1..(k - 1) \subseteq Sequences \ {n}
    BY <1>2, RoutingBounds DEF Sequences
  <2>6. ASSUME NEW k \in Sequences, decision'[k].selected # None
        PROVE  /\ decision'[k].evidence[decision'[k].selected] = None
               /\ \A c \in Conns :
                     IF Usable(c) THEN decision'[k].evidence[c] \in {None, "already_attempted"}
                     ELSE \/ decision'[k].evidence[c] \notin {None, "already_attempted"}
                          \/ c \in excluded
               /\ \A j \in 1..(k - 1) :
                     decision'[j].selected # None =>
                         decision'[k].evidence[decision'[j].selected] = "already_attempted"
    <3>1. CASE k = n
      <4>1. decision'[k].selected = best /\ decision'[k].evidence = evidence
        BY <3>1, <1>4
      <4>2. \A j \in 1..(k - 1) : j \in Sequences \ {n} /\ decision'[j] = decision[j]
        BY <3>1, <1>2, <1>4, <2>7 DEF Sequences
      <4> QED BY <4>1, <4>2, <2>2, <2>3, <2>5
    <3>2. CASE k # n
      <4>1. decision'[k] = decision[k] BY <3>2, <1>4
      <4>2. k < n BY <4>1, <2>6, <1>16
      <4>3. \A j \in 1..(k - 1) : decision'[j] = decision[j]
        BY <4>2, <1>2, <1>4, <2>7 DEF Sequences
      <4> QED BY <4>1, <4>3, <2>6 DEF DecisionsExplain
    <3> QED BY <3>1, <3>2
  <2> QED BY <2>6, <1>1, <1>6 DEF DecisionsExplain
<1> QED BY <1>5, <1>9, <1>10, <1>11, <1>14, <1>15, <1>17, <1>18

LEMMA GiveUpKeeps ==
    ASSUME RInv, GiveUp
    PROVE  RInv'
<1> USE DEF RInv
<1>1. /\ UNCHANGED <<inputs, excluded, attempts, unseen, best, evidence, decision>>
      /\ pc = "select" /\ pc' = "no_eligible_provider"
      /\ unseen = {} /\ best = None
  BY DEF GiveUp
<1>2. TypeOK' BY <1>1 DEF TypeOK, inputs
<1>3. Scan' /\ Noted'
  BY <1>1 DEF Scan, Noted, Eligible, Usable, Beats, CircuitRank, CandidateScore, Earlier,
              Exclusion, Places, FailedRules, inputs
<1>4. Stage' BY <1>1 DEF Stage
<1>5. Spent' /\ Ranked' /\ FallbacksDescend' /\ DecisionsExplain'
  BY <1>1, HistoryStays
<1> QED BY <1>2, <1>3, <1>4, <1>5

LEMMA SettlesKeeps ==
    ASSUME RInv, Settles
    PROVE  RInv'
<1> USE DEF RInv
<1>1. /\ UNCHANGED <<inputs, excluded, attempts, unseen, best, evidence, decision>>
      /\ pc = "calling" /\ pc' = "settled"
  BY DEF Settles
<1>2. TypeOK' BY <1>1 DEF TypeOK, inputs
<1>3. Scan' /\ Noted'
  BY <1>1 DEF Scan, Noted, Eligible, Usable, Beats, CircuitRank, CandidateScore, Earlier,
              Exclusion, Places, FailedRules, inputs
<1>4. Stage' BY <1>1 DEF Stage
<1>5. Spent' /\ Ranked' /\ FallbacksDescend' /\ DecisionsExplain'
  BY <1>1, HistoryStays
<1> QED BY <1>2, <1>3, <1>4, <1>5

LEMMA FailsSafelyKeeps ==
    ASSUME RInv, FailsSafely
    PROVE  RInv'
<1> USE DEF RInv
<1>1. /\ UNCHANGED <<inputs, attempts, decision>>
      /\ pc = "calling"
      /\ excluded' = excluded \cup {best}
      /\ unseen' = Conns /\ best' = None /\ evidence' = NoEvidence
      /\ pc' = IF WithinBudget(attempts) THEN "select" ELSE "fallback_budget_exhausted"
  BY DEF FailsSafely
<1>2. best \in Conns /\ decision[attempts].selected = best /\ attempts \in Sequences
  BY <1>1 DEF Stage, TypeOK
<1>3. TypeOK'
  <2>1. evidence' \in [Conns -> Reasons \cup {None}] BY <1>1 DEF NoEvidence
  <2> QED BY <1>1, <1>2, <2>1 DEF TypeOK, inputs
<1>4. \A c : Usable(c)' <=> Usable(c) BY <1>1, RankingStays
<1>5. \A a, b : Beats(a, b)' <=> Beats(a, b) BY <1>1, RankingStays
<1>6. Eligible' = Eligible \ {best} BY <1>1, <1>4 DEF Eligible
<1>7. Scan' /\ Noted' BY <1>1 DEF Scan, Noted
<1>8. Stage' BY <1>1 DEF Stage, WithinBudget
<1>9. Spent'
  <2>1. \A k \in Sequences : decision[k].selected # None =>
           k <= attempts /\ Usable(decision[k].selected) /\ decision[k].selected \in excluded'
    BY <1>1, <1>2 DEF Spent
  <2> QED BY <2>1, <1>1, <1>4 DEF Spent
<1>10. Ranked' BY <1>1, <1>5, <1>6 DEF Ranked
<1>11. FallbacksDescend' BY <1>1, <1>5 DEF FallbacksDescend
<1>12. DecisionsExplain' BY <1>1, <1>4 DEF DecisionsExplain
<1> QED BY <1>3, <1>7, <1>8, <1>9, <1>10, <1>11, <1>12

LEMMA RNext == RInv /\ [Next]_vars => RInv'
<1> SUFFICES ASSUME RInv, [Next]_vars PROVE RInv' OBVIOUS
<1>1. CASE \E c \in Conns : Consider(c) BY <1>1, ConsiderKeeps
<1>2. CASE Decide BY <1>2, DecideKeeps
<1>3. CASE GiveUp BY <1>3, GiveUpKeeps
<1>4. CASE FailsSafely BY <1>4, FailsSafelyKeeps
<1>5. CASE Settles BY <1>5, SettlesKeeps
<1>6. CASE UNCHANGED vars
  <2>1. TypeOK' BY <1>6 DEF RInv, TypeOK, vars
  <2>2. Scan' /\ Noted' /\ Stage'
    BY <1>6 DEF RInv, Scan, Noted, Stage, Eligible, Usable, Beats, CircuitRank,
                CandidateScore, Earlier, Exclusion, Places, FailedRules, vars
  <2>3. Spent' /\ Ranked' /\ FallbacksDescend' /\ DecisionsExplain'
    BY <1>6, HistoryStays DEF RInv, vars, inputs
  <2> QED BY <2>1, <2>2, <2>3 DEF RInv
<1> QED BY <1>1, <1>2, <1>3, <1>4, <1>5, <1>6 DEF Next

\* The inductive invariant: the pass keeps the best of the connections seen, and what was
\* selected before is tried, usable and ranked above whatever may follow.
THEOREM RoutingInvariance == Spec => []RInv
BY RInit, RNext, PTL DEF Spec

\* Type correctness for any connections, priorities and scores; in particular no
\* decision is recorded beyond the attempt budget.
THEOREM RoutingTypes == Spec => []TypeOK
<1>1. RInv => TypeOK BY DEF RInv
<1> QED BY <1>1, RoutingInvariance, PTL

\* The provider called is eligible and beats every other eligible one: the single pass
\* with its pairwise comparison finds the best of the list, in whatever order it goes.
THEOREM TheBestIsCalled == Spec => []BestIsCalled
<1>1. RInv => BestIsCalled BY DEF RInv, Stage, Scan, BestIsCalled
<1> QED BY <1>1, RoutingInvariance, PTL

\* A payment fails for want of a provider only when no connection is eligible.
THEOREM NoneWasLeft == Spec => []FailsWithoutProvider
<1>1. RInv => FailsWithoutProvider
  BY DEF RInv, Stage, Scan, FailsWithoutProvider, Eligible
<1> QED BY <1>1, RoutingInvariance, PTL

\* Fallbacks go down the ranking, so no connection is selected twice in an execution.
THEOREM FallbacksGoDown == Spec => []FallbacksDescend
<1>1. RInv => FallbacksDescend BY DEF RInv
<1> QED BY <1>1, RoutingInvariance, PTL

\* The recorded evidence of the decisions is consistent with the rules, with the
\* selection and with the decisions before it.
THEOREM EvidenceExplains == Spec => []DecisionsExplain
<1>1. RInv => DecisionsExplain BY DEF RInv
<1> QED BY <1>1, RoutingInvariance, PTL

=============================================================================
