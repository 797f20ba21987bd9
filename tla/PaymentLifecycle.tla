-------------------------- MODULE PaymentLifecycle --------------------------
(***************************************************************************)
(* What a merchant is promised of one payment, whatever the processes      *)
(* behind the API do: the payment moves forward through its statuses, it   *)
(* shows one Pix or none, it is paid by that Pix only and only when the    *)
(* customer has paid it, and the merchant is told of that in the same      *)
(* instant.  A paid or a failed payment does not change any more.          *)
(***************************************************************************)
EXTENDS Integers

CONSTANT Pixes        \* the Pix that the attempts of the payment may produce

VARIABLES
    status,           \* what GET /v1/payments says of the payment
    shown,            \* the Pix the merchant was ever given
    settled,          \* the Pix the customer has paid
    told,             \* the merchant events
    recovered         \* whether the payment counts as recovered revenue

vars == <<status, shown, settled, told, recovered>>

Init ==
    /\ status = "absent"
    /\ shown = {}
    /\ settled = {}
    /\ told = {}
    /\ recovered = FALSE

Accept ==
    /\ status = "absent"
    /\ status' = "created"
    /\ UNCHANGED <<shown, settled, told, recovered>>

Route ==
    /\ status \in {"created", "reconciling"}
    /\ status' = "routing"
    /\ UNCHANGED <<shown, settled, told, recovered>>

\* The outcome of the last attempt is not known.
Doubt ==
    /\ status = "routing"
    /\ status' = "reconciling"
    /\ UNCHANGED <<shown, settled, told, recovered>>

Present(p) ==
    /\ status \in {"routing", "reconciling"}
    /\ shown = {}
    /\ status' = "awaiting_payment"
    /\ shown' = {p}
    /\ UNCHANGED <<settled, told, recovered>>

Fail ==
    /\ status \in {"routing", "reconciling"}
    /\ status' = "failed"
    /\ UNCHANGED <<shown, settled, told, recovered>>

CustomerPays(p) ==
    /\ p \in shown
    /\ settled' = settled \cup {p}
    /\ UNCHANGED <<status, shown, told, recovered>>

\* The payment, its recovery and the events about both are one change.
Pay ==
    /\ status = "awaiting_payment"
    /\ shown \subseteq settled
    /\ status' = "paid"
    /\ recovered' \in BOOLEAN
    /\ told' = {"payment.paid"} \cup (IF recovered' THEN {"payment.recovered"} ELSE {})
    /\ UNCHANGED <<shown, settled>>

Next ==
    \/ Accept \/ Route \/ Doubt \/ Fail \/ Pay
    \/ \E p \in Pixes : Present(p) \/ CustomerPays(p)

Spec == Init /\ [][Next]_vars

=============================================================================
