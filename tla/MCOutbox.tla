------------------------------ MODULE MCOutbox ------------------------------
(* Small instances of Outbox for TLC.                                      *)
EXTENDS Outbox

CONSTANTS w1, w2, h1

MCRows == 1..2
MCWorkers == {w1, w2}
MCHandlers == {h1}

(* Bound: one lost worker, lost outcome or repair in a behaviour.          *)
MCOneFault == crashes + dberrors + requeues <= 1
=============================================================================
