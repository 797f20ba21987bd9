--------------------- MODULE MCOverlappingAdministration ---------------------
(* Instances of the webhook delivery in which changes of the endpoint overlap. *)
EXTENDS WebhookDelivery

=============================================================================
