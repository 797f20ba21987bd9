-------------------- MODULE MCOverlappingReconciliation --------------------
(* Instances of the orchestration in which reconciliations may overlap. *)
EXTENDS PaymentOrchestration, TLC

Symmetry ==
    Permutations(Reconcilers) \cup Permutations(Receivers) \cup Permutations(Conns)

=============================================================================
