---------------------------- MODULE ProviderPort ----------------------------
(***************************************************************************)
(* What the orchestration relies on of a provider connector, whichever     *)
(* provider is behind it (internal/provider/adapter.go, connector.go): an  *)
(* attempt is sent once, its charge may be decided long after the call was *)
(* given up on, and what the connector tells of it never claims more than  *)
(* is so: succeeded only of a charge that exists, failed_safe only of one  *)
(* that does not and never will.  The orchestration is written against     *)
(* this, and its rows must keep it too.                                    *)
(***************************************************************************)

CONSTANT Attempts

VARIABLES
    charge,    \* as in PaymentOrchestration
    told       \* what the connector told of the attempt last

vars == <<charge, told>>

Init ==
    /\ charge = [a \in Attempts |-> "unsent"]
    /\ told = [a \in Attempts |-> "nothing"]

\* The statements the state of the charge allows.
True(a) ==
    {"unknown", "failed_terminal"}
        \cup (IF charge[a] = "none" THEN {"failed_safe"} ELSE {})
        \cup (IF charge[a] \in {"live", "paid"} THEN {"succeeded"} ELSE {})

\* Who looks only when the call has returned finds the charge decided, or not yet.
Send(a) ==
    /\ charge[a] = "unsent"
    /\ told[a] = "nothing"
    /\ \E c \in {"none", "inflight", "live"} : charge' = [charge EXCEPT ![a] = c]
    /\ UNCHANGED told

Decide(a) ==
    /\ charge[a] = "inflight"
    /\ \E c \in {"none", "live"} : charge' = [charge EXCEPT ![a] = c]
    /\ UNCHANGED told

\* What is settled is not asked about again.
Tell(a) ==
    /\ told[a] \in {"nothing", "unknown"}
    /\ \E t \in True(a) : told' = [told EXCEPT ![a] = t]
    /\ UNCHANGED charge

\* The customer has the Pix once its attempt succeeded.
CustomerPays(a) ==
    /\ charge[a] = "live"
    /\ told[a] = "succeeded"
    /\ charge' = [charge EXCEPT ![a] = "paid"]
    /\ UNCHANGED told

Next == \E a \in Attempts : Send(a) \/ Decide(a) \/ Tell(a) \/ CustomerPays(a)

Spec == Init /\ [][Next]_vars

=============================================================================
