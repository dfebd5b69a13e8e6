------------------------------- MODULE Orders -------------------------------
(***************************************************************************)
(* An order from checkout to its end: src/core/orders.go, the stock side   *)
(* of src/core/checkout.go, src/core/returns.go, the status side of        *)
(* src/core/fulfillment.go, and the gift cards of src/core/giftcards.go.   *)
(*                                                                         *)
(* Every verb runs inside Orders.transition: one transaction that holds    *)
(* the order's row FOR UPDATE, so each is one action.  A verb that answers *)
(* "already done" or is refused changes nothing and is no step.            *)
(*                                                                         *)
(* Data is abstracted: a line is a quantity on a shelf (pickLocation's     *)
(* choice of shelf is any shelf that can cover it), prices are not         *)
(* multiplied out (a basket's subtotal, discount and charges are one       *)
(* amount), and parcels are the units they hold.                           *)
(***************************************************************************)
EXTENDS Inventory, Totals, FiniteSets

CONSTANTS
    OrderIds,     \* orders a checkout may create
    CardSellers,  \* those that have a gift card among their lines
    MaxSubtotal,  \* bound: what a basket may cost
    TaxOnTop,     \* tax of an order where prices are exclusive of it, else 0
    CardBalance,  \* what the one gift card that shoppers hold is worth
    ReturnIds     \* bound: return records per order

ASSUME OrdersAssumption ==
    /\ IsFiniteSet(OrderIds) /\ IsFiniteSet(ReturnIds)
    /\ CardSellers \subseteq OrderIds
    /\ MaxSubtotal \in Nat \ {0}
    /\ TaxOnTop \in Nat
    /\ CardBalance \in Nat

VARIABLES
    order,     \* order[o]: the orders row and its lines
    returns,   \* returns[o][i]: order_returns and their lines
    card       \* balance_minor of the gift card

orderVars == <<order, returns, card>>

Amounts == 0..(MaxSubtotal + TaxOnTop)

(* "absent": no checkout has created the order yet.                        *)
Statuses == {"absent", "pending", "confirmed", "partial", "shipped", "delivered", "cancelled"}
Payments == {"pending", "paid", "failed", "refunded"}

(* reservation_expires_at: NULL, ahead, passed, and passed for longer than *)
(* sweepAskGrace.                                                          *)
Deadlines == {"none", "ahead", "passed", "stale"}

OrderRows ==
    [status : Statuses, payment : Payments, lines : Baskets, shipped : Baskets,
     subtotal : 0..MaxSubtotal, total : Amounts, refunded : Amounts, gift : Amounts,
     deadline : Deadlines, bought : {"none", "active", "off"}]

ReturnRows ==
    [status : {"none", "received", "withdrawn"}, units : Baskets, restock : BOOLEAN]

OrdersInit ==
    /\ order = [o \in OrderIds |->
           [status |-> "absent", payment |-> "pending", lines |-> Empty, shipped |-> Empty,
            subtotal |-> 0, total |-> 0, refunded |-> 0, gift |-> 0,
            deadline |-> "none", bought |-> "none"]]
    /\ returns = [o \in OrderIds |-> [i \in ReturnIds |->
           [status |-> "none", units |-> Empty, restock |-> FALSE]]]
    /\ card = CardBalance

Set(o, row) == order' = [order EXCEPT ![o] = row]

Smaller(a, b) == IF a < b THEN a ELSE b

-----------------------------------------------------------------------------
(* createOrderFromCart: one transaction reserves every line, charges the   *)
(* gift card on the cart if there is one, and writes the order.            *)
Place(o, basket, subtotal, withCard) ==
    LET due  == subtotal + TaxOnTop
        gift == IF withCard THEN Smaller(card, due) ELSE 0
    IN  /\ order[o].status = "absent"
        /\ basket # Empty
        /\ withCard => card > 0
        /\ Reserve(basket)
        /\ card' = card - gift
        /\ Set(o, [order[o] EXCEPT !.status = "pending", !.lines = basket,
                                   !.subtotal = subtotal, !.total = due - gift,
                                   !.gift = gift, !.deadline = "ahead"])
        /\ UNCHANGED <<received, returns>>

(* What commitOrderStock and setOrderStatus leave of a pending order.      *)
Confirmed(row) == [row EXCEPT !.status = "confirmed", !.deadline = "none"]

(* Confirm: the checkout of a cash-on-delivery order.                      *)
Confirm(o) ==
    /\ order[o].status = "pending"
    /\ Commit(order[o].lines)
    /\ Set(o, Confirmed(order[o]))
    /\ UNCHANGED <<received, returns, card>>

(* Mutant: a confirmed order that has sent nothing still holds a reservation. *)
stockCommittedOnShipping(status) == status \in {"partial", "shipped", "delivered"}

stockCommitted(status) == status \in {"confirmed", "partial", "shipped", "delivered"}

hasActiveReturn(o) == \E i \in ReturnIds : returns[o][i].status = "received"

(* Mutant: nobody asks whether goods have come back.                       *)
CancellableAfterReturn(o) == order[o].status \in {"pending", "confirmed"}

Cancellable(o) ==
    /\ order[o].status \in {"pending", "confirmed"}
    /\ ~hasActiveReturn(o)

(* restoreTx: what the card paid goes back to it, and the cards that this  *)
(* order bought are switched off.                                          *)
Restored(row) == [row EXCEPT !.bought = IF @ = "active" THEN "off" ELSE @]

(* Cancel.  It does not look at the payment.                               *)
Cancel(o) ==
    /\ Cancellable(o)
    /\ IF stockCommitted(order[o].status) THEN Restock(order[o].lines) ELSE Release(order[o].lines)
    /\ card' = card + order[o].gift
    /\ Set(o, [Restored(order[o]) EXCEPT !.status = "cancelled", !.deadline = "none"])
    /\ UNCHANGED <<received, returns>>

(* EditLines: the whole desired set of lines.  The total is taken again    *)
(* from subtotal, shipping, discount and fee.                              *)
EditLines(o, basket, subtotal) ==
    LET more  == [s \in Shelves |-> Less(basket[s], order[o].lines[s])]
        fewer == [s \in Shelves |-> Less(order[o].lines[s], basket[s])]
    IN  /\ order[o].status \in {"pending", "confirmed"}
        /\ order[o].refunded = 0
        /\ ~hasActiveReturn(o)
        /\ order[o].gift = 0
        /\ basket # Empty
        /\ basket = order[o].lines => subtotal = order[o].subtotal
        /\ IF stockCommitted(order[o].status)
           THEN MoveCommitted(more, fewer)
           ELSE MoveReserved(more, fewer)
        /\ Set(o, [order[o] EXCEPT !.lines = basket, !.subtotal = subtotal, !.total = subtotal])
        /\ UNCHANGED <<received, returns, card>>

-----------------------------------------------------------------------------
(* shippingState: the status is what the live parcels add up to.           *)
ShippingState(lines, shipped) ==
    IF shipped = Empty THEN "confirmed"
    ELSE IF \A s \in Shelves : shipped[s] >= lines[s] THEN "shipped"
    ELSE "partial"

Parcels(o, shipped) ==
    Set(o, [order[o] EXCEPT !.shipped = shipped,
                            !.status = ShippingState(order[o].lines, shipped)])

(* Mutant: each parcel is held against the order alone.                    *)
checkShipLinesAlone(o, units) == \A s \in Shelves : units[s] <= order[o].lines[s]

(* With the live parcels, no parcel holds more than was ordered.           *)
checkShipLines(o, units) ==
    \A s \in Shelves : order[o].shipped[s] + units[s] <= order[o].lines[s]

(* Fulfillments.Create, after the carrier answered.                        *)
Ship(o, units) ==
    /\ order[o].status \in {"confirmed", "partial"}
    /\ units # Empty
    /\ checkShipLines(o, units)
    /\ Parcels(o, [s \in Shelves |-> order[o].shipped[s] + units[s]])
    /\ UNCHANGED <<inventoryVars, returns, card>>

(* Fulfillments.Delete or Cancel of a parcel that held these units.        *)
Unship(o, units) ==
    /\ order[o].status \in {"partial", "shipped"}
    /\ units # Empty
    /\ \A s \in Shelves : units[s] <= order[o].shipped[s]
    /\ Parcels(o, [s \in Shelves |-> order[o].shipped[s] - units[s]])
    /\ UNCHANGED <<inventoryVars, returns, card>>

(* MarkDelivered, or a carrier's report about the last parcel.             *)
Deliver(o) ==
    /\ order[o].status = "shipped"
    /\ Set(o, [order[o] EXCEPT !.status = "delivered"])
    /\ UNCHANGED <<inventoryVars, returns, card>>

MarkUndelivered(o) ==
    /\ order[o].status = "delivered"
    /\ Set(o, [order[o] EXCEPT !.status = "shipped"])
    /\ UNCHANGED <<inventoryVars, returns, card>>

(* Units of o's line on s that an active return has brought back.          *)
Returned(o, s) ==
    Total([i \in ReturnIds |-> returns[o][i].units[s]],
          {i \in ReturnIds : returns[o][i].status = "received"})

(* What may still come back: what was sold, or on a partly shipped order   *)
(* what has gone out, less what came back already.                         *)
Returnable(o, s) ==
    (IF order[o].status = "partial"
     THEN Smaller(order[o].lines[s], order[o].shipped[s])
     ELSE order[o].lines[s]) - Returned(o, s)

(* Return: units come back, to the shelf they were picked from or not.     *)
Return(o, i, units, restock) ==
    /\ order[o].status \in {"partial", "shipped", "delivered"}
    /\ returns[o][i].status = "none"
    /\ units # Empty
    /\ \A s \in Shelves : units[s] > 0 => units[s] <= Returnable(o, s)
    /\ IF restock THEN Restock(units) ELSE UNCHANGED stock
    /\ returns' = [returns EXCEPT ![o][i] =
                      [status |-> "received", units |-> units, restock |-> restock]]
    /\ UNCHANGED <<received, order, card>>

(* WithdrawReturn: the units it restocked come off the shelf again, unless *)
(* they have gone out since.                                               *)
WithdrawReturn(o, i) ==
    /\ returns[o][i].status = "received"
    /\ IF returns[o][i].restock THEN Sell(returns[o][i].units) ELSE UNCHANGED stock
    /\ returns' = [returns EXCEPT ![o][i].status = "withdrawn"]
    /\ UNCHANGED <<received, order, card>>

-----------------------------------------------------------------------------
(* The clock passes reservation_expires_at, and later the sweep's grace.   *)
Expire(o) ==
    /\ order[o].deadline \in {"ahead", "passed"}
    /\ Set(o, [order[o] EXCEPT !.deadline = IF @ = "ahead" THEN "passed" ELSE "stale"])
    /\ UNCHANGED <<inventoryVars, returns, card>>

OrdersNext ==
    \/ \E o \in OrderIds :
          \/ \E b \in Baskets, n \in 1..MaxSubtotal, c \in BOOLEAN : Place(o, b, n, c)
          \/ Confirm(o) \/ Cancel(o) \/ Deliver(o) \/ MarkUndelivered(o) \/ Expire(o)
          \/ \E b \in Baskets, n \in 1..MaxSubtotal : EditLines(o, b, n)
          \/ \E b \in Baskets : Ship(o, b) \/ Unship(o, b)
          \/ \E i \in ReturnIds :
                \/ \E b \in Baskets, r \in BOOLEAN : Return(o, i, b, r)
                \/ WithdrawReturn(o, i)
    \/ Count /\ UNCHANGED orderVars
=============================================================================
