------------------------------ MODULE MCOrders ------------------------------
(* Small instances of the order, stock and money modules for TLC.          *)
EXTENDS OrderProperties, TLC

CONSTANTS o1, o2, s1, s2

MCSymmetry == Permutations({o1, o2})
=============================================================================
