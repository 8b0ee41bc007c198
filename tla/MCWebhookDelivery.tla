------------------------- MODULE MCWebhookDelivery -------------------------
(* Small instances of WebhookDelivery: one endpoint.                       *)
EXTENDS WebhookDelivery, TLC

CONSTANT e1

MCEndpointOf == [d \in Deliveries |-> e1]
=============================================================================
