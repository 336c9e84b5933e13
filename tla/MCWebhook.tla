------------------------------ MODULE MCWebhook ------------------------------
(* WebhookHistory on small instances.                                      *)
EXTENDS WebhookHistory, TLC

(* No definition names an event, a url or a secret.                        *)
Interchangeable == Permutations(Events) \cup Permutations(URLs) \cup Permutations(Secrets)
=============================================================================
