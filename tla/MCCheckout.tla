----------------------------- MODULE MCCheckout -----------------------------
(* Checkouts for TLC: two requests at once, which may share a cart, a key,  *)
(* an address and the last use of a code.                                   *)
EXTENDS Checkout, TLC

CONSTANTS a, b, k1, k2, e1, e2, r1, r2, o1, o2, i1, i2

MCCarts == {a, b}
MCKeys == {k1, k2}
MCCashKeys == {k2}
MCEmails == {e1, e2}
MCRequests == {r1, r2}
MCOrderIds == {o1, o2}

MCSymmetry ==
    Permutations(MCCarts) \union Permutations(MCEmails) \union Permutations(MCRequests)
        \union Permutations(MCOrderIds) \union Permutations({i1, i2})
=============================================================================
