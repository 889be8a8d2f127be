------------------------------ MODULE MCCerts ------------------------------
(* One pod of the release before the rename of the webhook Service, one after. *)
EXTENDS WebhookCerts, TLC

CONSTANTS old, new
MCServiceOf == (old :> "skyhook") @@ (new :> "nodewright")
============================================================================
