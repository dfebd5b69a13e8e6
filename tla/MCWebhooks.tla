------------------------------ MODULE MCWebhooks ------------------------------
(* Small instances of Webhooks for TLC.                                    *)
EXTENDS Webhooks

CONSTANTS p1, e1, w1, w2
=============================================================================
