------------------------ MODULE SerialReconciliation ------------------------
(***************************************************************************)
(* The deployment the safety of the orchestration rests on: executions of  *)
(* ReconcilePayment for one payment do not overlap.  The code does not     *)
(* enforce it (ReconcilePayment takes no lock on the payment and           *)
(* SavePayment is an unconditional UPDATE), so it is an assumption here    *)
(* and not a guard of the model.  Under it the orchestration keeps what    *)
(* PaymentLifecycle promises, and its rows say of the provider no more     *)
(* than ProviderPort allows a connector to say.                            *)
(***************************************************************************)
EXTENDS PaymentOrchestration

ASSUME SerialAssumption == \A v, w \in Reconcilers : v = w

\* A Pix is named by its attempt.
Lifecycle ==
    INSTANCE PaymentLifecycle WITH
        Pixes     <- Sequences,
        status    <- payment.status,
        settled   <- {s \in Sequences : charge[s] = "paid"},
        told      <- outbox,
        recovered <- payment.recovered

\* The handlers together implement the promise to the merchant: no interleaving, no
\* stale write and no failed call takes a payment along a way the merchant must not
\* see (CreatePayment, executeRouting, ReconcilePayment, MarkPaidWithOutbox).
KeepsLifecycle == Lifecycle!Spec

\* The attempt rows remember what the connector told.
Told ==
    [s \in Sequences |->
        IF attempt[s].status \in {"absent", "created", "requesting"}
        THEN "nothing"
        ELSE attempt[s].status]

Port == INSTANCE ProviderPort WITH Attempts <- Sequences, told <- Told

\* An attempt is sent once and before anything is told of it, its row changes only from
\* not known to known, and at that moment it is true of the charge, however long ago the
\* connector answered and whatever failed in between (executeRouting, ReconcilePayment).
RowsKeepPort == Port!Spec

=============================================================================
