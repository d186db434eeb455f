---------------------------- MODULE MCWebhookIntake ----------------------------
(* Instances of WebhookIntake for TLC.                                     *)
EXTENDS WebhookIntake

CONSTANTS e1, e2, d1, d2, d3
=============================================================================
