------------------------- MODULE MCWebhookDelivery -------------------------
(* WebhookDelivery on small instances for TLC.                             *)
EXTENDS WebhookDelivery

=============================================================================
