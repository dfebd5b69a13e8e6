----------------------------- MODULE Inventory -----------------------------
(***************************************************************************)
(* Stock on shelves: src/core/inventory.go.  A shelf is one row of         *)
(* variant_stock, a variant at a location.  The order path moves whole     *)
(* baskets of units (one quantity per shelf) and operators correct one     *)
(* shelf at a time.  Every movement is a single conditional UPDATE inside  *)
(* its caller's transaction, so that it is an operator on `stock` here and *)
(* the caller's action says what else commits with it.                     *)
(***************************************************************************)
EXTENDS Integers

CONSTANTS
    Shelves,      \* rows of variant_stock
    Untracked,    \* shelves of variants with track_inventory off
    Backorder,    \* shelves of variants with continue_selling on
    InitialStock, \* on_hand of every shelf at the start
    MaxQty,       \* bound: units of one shelf in one basket
    MaxReceived   \* bound: units an operator brings a shelf up to

ASSUME ShelvesAssumption == Untracked \subseteq Shelves /\ Backorder \subseteq Shelves
ASSUME QtyAssumption ==
    MaxQty \in Nat \ {0} /\ MaxReceived \in Nat /\ InitialStock \in 0..MaxReceived

VARIABLES
    stock,     \* stock[s]: on_hand and reserved
    received   \* history: units of s the store has had in all, net of write-offs

inventoryVars == <<stock, received>>

Baskets == [Shelves -> 0..MaxQty]
Empty == [s \in Shelves |-> 0]

(* Every stock row starts with units nobody holds.                         *)
InventoryInit ==
    /\ stock = [s \in Shelves |-> [on_hand |-> InitialStock, reserved |-> 0]]
    /\ received = [s \in Shelves |-> InitialStock]

(* CASE WHEN track_inventory THEN $3 ELSE 0 END.                           *)
Applied(s, q) == IF s \in Untracked THEN 0 ELSE q

Available(s) == stock[s].on_hand - stock[s].reserved

(* Mutant: the reservation is checked against what is on the shelf.        *)
CanTakeOnHand(s, q) == s \in Untracked \/ s \in Backorder \/ stock[s].on_hand >= q

(* The WHERE of reserveStock and of sellStock.                             *)
CanTake(s, q) == s \in Untracked \/ s \in Backorder \/ Available(s) >= q

CanTakeAll(basket) == \A s \in Shelves : basket[s] > 0 => CanTake(s, basket[s])

Reserve(basket) ==
    /\ CanTakeAll(basket)
    /\ stock' = [s \in Shelves |-> [stock[s] EXCEPT !.reserved = @ + Applied(s, basket[s])]]

(* commitStock has no condition: what it takes was reserved.  The column's *)
(* CHECK (reserved >= 0) fails the transaction if it was not.              *)
Commit(basket) ==
    /\ \A s \in Shelves : stock[s].reserved >= Applied(s, basket[s])
    /\ stock' = [s \in Shelves |->
           [on_hand  |-> stock[s].on_hand - Applied(s, basket[s]),
            reserved |-> stock[s].reserved - Applied(s, basket[s])]]

(* greatest(0, reserved - $3).                                             *)
Less(n, q) == IF n >= q THEN n - q ELSE 0

Release(basket) ==
    stock' = [s \in Shelves |-> [stock[s] EXCEPT !.reserved = Less(@, Applied(s, basket[s]))]]

Restock(basket) ==
    stock' = [s \in Shelves |-> [stock[s] EXCEPT !.on_hand = @ + Applied(s, basket[s])]]

Sell(basket) ==
    /\ CanTakeAll(basket)
    /\ stock' = [s \in Shelves |-> [stock[s] EXCEPT !.on_hand = @ - Applied(s, basket[s])]]

(* moveOrderStock, line by line: `more` is what an edit adds to each shelf *)
(* and `fewer` what it gives back, against the pool the order draws on.    *)
MoveReserved(more, fewer) ==
    /\ CanTakeAll(more)
    /\ stock' = [s \in Shelves |->
           [stock[s] EXCEPT !.reserved = Less(@ + Applied(s, more[s]), Applied(s, fewer[s]))]]

MoveCommitted(more, fewer) ==
    /\ CanTakeAll(more)
    /\ stock' = [s \in Shelves |->
           [stock[s] EXCEPT !.on_hand = @ - Applied(s, more[s]) + Applied(s, fewer[s])]]

-----------------------------------------------------------------------------
(* Adjust: a delta, refused when it would leave less than is reserved.     *)
(* It counts untracked variants too.                                       *)
Adjust(s, delta) ==
    /\ delta # 0
    /\ stock[s].on_hand + delta >= stock[s].reserved
    /\ received[s] + delta \in 0..MaxReceived
    /\ stock' = [stock EXCEPT ![s].on_hand = @ + delta]
    /\ received' = [received EXCEPT ![s] = @ + delta]

(* SetOnHand: a stock take.                                                *)
SetOnHand(s, count) ==
    /\ count >= stock[s].reserved
    /\ received[s] + count - stock[s].on_hand \in 0..MaxReceived
    /\ stock' = [stock EXCEPT ![s].on_hand = count]
    /\ received' = [received EXCEPT ![s] = @ + count - stock[s].on_hand]

Count ==
    \E s \in Shelves :
        \/ \E delta \in (-MaxQty)..MaxQty : Adjust(s, delta)
        \/ \E count \in 0..MaxReceived : SetOnHand(s, count)
=============================================================================
