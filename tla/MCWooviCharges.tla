--------------------------- MODULE MCWooviCharges ---------------------------
(* Two accounts, one known to each API. *)
EXTENDS WooviCharges, TLC

AccountHomes == [a \in Accounts |-> a]

Symmetry ==
    Permutations(Workspaces) \cup Permutations(Requests) \cup Permutations(Attempts)

=============================================================================
