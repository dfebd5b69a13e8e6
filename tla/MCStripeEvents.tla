--------------------------- MODULE MCStripeEvents ---------------------------
(* Stripe's events for TLC: declined attempts and a charge of one order,    *)
(* posted again and handled by two processes at once.                       *)
EXTENDS StripeEvents, TLC

CONSTANTS o1, e1, e2, e3, h1, h2

MCSymmetry == Permutations({e1, e2, e3}) \union Permutations({h1, h2})
=============================================================================
