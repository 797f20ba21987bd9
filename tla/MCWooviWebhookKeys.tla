------------------------- MODULE MCWooviWebhookKeys -------------------------
(* Handlers and keys are interchangeable. *)
EXTENDS WooviWebhookKeys, TLC

Symmetry == Permutations(Handlers) \cup Permutations(Keys)

=============================================================================
