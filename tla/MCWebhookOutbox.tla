-------------------------- MODULE MCWebhookOutbox ---------------------------
(* Threads for model checking WebhookOutbox; drainers are interchangeable.  *)
EXTENDS WebhookOutbox, TLC

CONSTANTS d1, d2

TwoDrainers == {d1, d2}

Symmetry == Permutations(TwoDrainers)

=============================================================================
