------------------------------ MODULE MCRouting ------------------------------
(* An instance of the routing of one execution. *)
EXTENDS Routing

\* Connections that fail no rule, one rule, or two of them.
SomeFailing == {{}, {"disabled"}, {"capability_unsupported", "invalid_credentials"}}

=============================================================================
