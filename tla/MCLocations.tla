----------------------------- MODULE MCLocations -----------------------------
(* Two places, two sessions and one order of one unit, for TLC.             *)
EXTENDS Locations, TLC

CONSTANTS s1, s2, o1

(* A variant that is not tracked sells past zero as it is; and what two     *)
(* transactions do to each other without an order is followed before there  *)
(* is one, and not again once it is over.                                   *)
MCBounds ==
    /\ variant.track \/ ~variant.continue
    /\ order[o1].status = "over" => \E s \in Sessions : tx[s] = NoTx

MCSymmetry == Permutations({s1, s2})
=============================================================================
