----------------------- MODULE MCPaymentOrchestration -----------------------
(* Instances of the orchestration with at most one reconciliation at a time. *)
EXTENDS SerialReconciliation, TLC

\* Requests, webhook executions and connections are interchangeable; only the
\* safety runs use this.
Symmetry ==
    Permutations(Creators) \cup Permutations(Receivers) \cup Permutations(Conns)

=============================================================================
