--------------------------- MODULE MCWebhookInbox ---------------------------
(* Instances of WebhookInbox for TLC. *)
EXTENDS WebhookInbox, TLC

CONSTANTS w1, w2

Symmetry == Permutations(Workers)
=============================================================================
