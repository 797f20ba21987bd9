------------------------- MODULE MCRoutingTelemetry -------------------------
(* Instances of the circuit breaker; executions are interchangeable. *)
EXTENDS RoutingTelemetry, TLC

Symmetry == Permutations(Handlers)

=============================================================================
