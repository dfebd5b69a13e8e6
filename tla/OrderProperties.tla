-------------------------- MODULE OrderProperties --------------------------
(***************************************************************************)
(* What must hold of orders, stock and money together, whatever checkouts, *)
(* operators, webhooks, refunds and the sweeper interleave.                *)
(***************************************************************************)
EXTENDS Payments

Counted(s) == s \notin Untracked

(* What an order has reserved, and what of it is no longer on the shelf.   *)
ReservedBy(o, s) == IF order[o].status = "pending" THEN order[o].lines[s] ELSE 0

BackOnShelf(o, s) ==
    Total([i \in ReturnIds |-> returns[o][i].units[s]],
          {i \in ReturnIds : returns[o][i].status = "received" /\ returns[o][i].restock})

OutOfStore(o, s) ==
    IF stockCommitted(order[o].status)
    THEN order[o].lines[s] - BackOnShelf(o, s)
    ELSE order[o].shipped[s]

(* Every reserved unit belongs to a pending order and every pending order  *)
(* holds its units: no confirmation, cancellation, sweep or edit strands a *)
(* reservation ("holds inventory out of sale forever", SweepUnpaidPass) or *)
(* takes another order's.                                                  *)
ReservationsAgree ==
    \A s \in Shelves : Counted(s) =>
        stock[s].reserved = Total([o \in OrderIds |-> ReservedBy(o, s)], OrderIds)

(* A unit is on the shelf or with an order, never both: no cancellation,   *)
(* edit, return or withdrawal puts units back a second time ("inventing    *)
(* inventory", Orders.Cancel and Orders.Return) or takes them twice.       *)
StockConserved ==
    \A s \in Shelves : Counted(s) =>
        stock[s].on_hand + Total([o \in OrderIds |-> OutOfStore(o, s)], OrderIds) = received[s]

(* No two checkouts, edits, withdrawn returns or stock takes promise the   *)
(* same unit: what migration 17 left to reserveStock to keep, and what the *)
(* doctor looks for.                                                       *)
NeverOversold ==
    \A s \in Shelves \ Backorder : stock[s].reserved <= stock[s].on_hand

(* A paid order is never still waiting for its stock, so the sweeper's     *)
(* query can never list one; nor has a pending order's money come back.    *)
PaidOrdersHoldTheirStock ==
    \A o \in OrderIds : order[o].status = "pending" =>
        order[o].payment \in {"pending", "failed"} /\ order[o].refunded = 0

(* A gift card's money is on the card or in one live order.                *)
CardMoneyConserved ==
    card + Total([o \in OrderIds |-> order[o].gift],
                 {o \in OrderIds : order[o].status # "cancelled"}) = CardBalance

(* A cancelled order leaves no card it bought spendable, however payments, *)
(* corrections and the cancellation came one after another (restoreTx).    *)
NoCardOutlivesItsOrder ==
    \A o \in OrderIds : order[o].status = "cancelled" => order[o].bought # "active"

GiftCardsAgree == CardMoneyConserved /\ NoCardOutlivesItsOrder

(* refunded_minor is the sum of the ledger, each row counted once whoever  *)
(* settled it.                                                             *)
RefundedIsTheLedger ==
    \A o \in OrderIds : order[o].refunded = Refunds(o, {"succeeded"})

(* No order gives back more than it cost (orders_refunded_within_total),   *)
(* whatever edits and settlements do to either number.                     *)
RefundedWithinTotal ==
    \A o \in OrderIds : order[o].refunded <= order[o].total

(* What the ledger records as sent back, the gateway sent back.            *)
RecordedRefundsWentOut ==
    \A r \in RefundIds : refunds[r].status = "succeeded" => r \in moved

LedgerAgrees == RefundedIsTheLedger /\ RefundedWithinTotal /\ RecordedRefundsWentOut

(* No two refunds, in flight or settled, are started on the same money.    *)
RefundsReserveOnce ==
    [][\A o \in OrderIds :
          Refunds(o, {"pending", "succeeded"})' > Refunds(o, {"pending", "succeeded"})
            => Refunds(o, {"pending", "succeeded"})' <= order'[o].total]_vars

(* An abandoned checkout does not hold its stock for ever: an order whose  *)
(* reservation ran out is paid, confirmed or cancelled at last, whatever   *)
(* its gateway answers and however often its payment fails.                *)
ExpiredHoldsEnd ==
    \A o \in OrderIds :
        (order[o].status = "pending" /\ order[o].deadline # "ahead")
            ~> order[o].status # "pending"
=============================================================================
