--------------------------- MODULE MCStripeRefunds ---------------------------
(* Small instances of StripeRefunds for TLC.                               *)
EXTENDS StripeRefunds, TLC

CONSTANTS q1, q2, q3, q4

MCSymmetry == Permutations(Requests)
=============================================================================
