------------------------- MODULE MCWebhookDeliveries -------------------------
(* Instances of WebhookDeliveries for TLC. *)
EXTENDS WebhookDeliveries, TLC

Symmetry == Permutations(Deliveries) \cup Permutations(Senders)
=============================================================================
