----------------------------- MODULE MCWebhooks -----------------------------
(***************************************************************************)
(* One mirror; every order comes through a partner with a webhook.         *)
(***************************************************************************)
EXTENDS Webhooks

CONSTANTS m1, web

OnlyOne == <<m1>>
Every == Keys

=============================================================================
