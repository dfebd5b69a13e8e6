----------------------------- MODULE MCTracking -----------------------------
(* Shiprocket's reports for TLC: a post and a poll at once about an order   *)
(* of one unit, whose first booking may be given up for another.            *)
EXTENDS ShiprocketTracking

CONSTANTS l1, c1, hook, poller

MCLines == {l1}
MCCallers == {c1}
MCHandlers == {hook}
MCPollers == {poller}
=============================================================================
