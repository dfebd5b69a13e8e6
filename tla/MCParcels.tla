------------------------------ MODULE MCParcels ------------------------------
(* Parcels for TLC: one line of up to two units, shipped by two requests.   *)
EXTENDS Parcels

CONSTANTS l1, c1, c2

MCLines == {l1}
MCCallers == {c1, c2}
=============================================================================
