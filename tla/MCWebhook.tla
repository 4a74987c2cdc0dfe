------------------------------ MODULE MCWebhook ------------------------------
(* Instances of Webhook for TLC.                                             *)
EXTENDS Webhook, TLC

CONSTANTS e1, e2

\* A purchase by user 1 and a transfer from user 1 to user 2.
MCParticipants == (e1 :> {1}) @@ (e2 :> {1, 2})

MCSymmetry == Permutations(Workers)
=============================================================================
