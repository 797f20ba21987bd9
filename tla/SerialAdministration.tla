------------------------ MODULE SerialAdministration ------------------------
(***************************************************************************)
(* Webhook delivery when the requests that change an endpoint do not       *)
(* overlap.  SetEndpoint reads the endpoint and upserts it in two          *)
(* statements without a transaction, so this is a promise of the caller.   *)
(***************************************************************************)
EXTENDS WebhookDelivery

ASSUME SerialAdminAssumption == \A a, b \in Admins : a = b

=============================================================================
