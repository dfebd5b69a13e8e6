------------------------------- MODULE Totals -------------------------------
(***************************************************************************)
(* Sums over the rows of a table: what an order's parcels hold, what its   *)
(* refunds come to, what every order has reserved of a shelf.              *)
(***************************************************************************)
EXTENDS Integers, FiniteSetsExt

(* SELECT sum(f) of the rows in S.                                         *)
Total(f, S) == MapThenSumSet(LAMBDA x : f[x], S)
=============================================================================
