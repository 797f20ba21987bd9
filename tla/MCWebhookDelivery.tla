-------------------------- MODULE MCWebhookDelivery --------------------------
(* Instances of the webhook delivery whose endpoint one request at a time changes. *)
EXTENDS SerialAdministration

=============================================================================
