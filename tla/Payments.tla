------------------------------ MODULE Payments ------------------------------
(***************************************************************************)
(* The money of an order and what races with it: src/core/payments.go and  *)
(* the unpaid sweeper of src/core/orders.go, over the orders of Orders.    *)
(*                                                                         *)
(* Three things here are not one transaction.  A refund reserves its       *)
(* amount, asks the gateway outside every transaction, and settles; the    *)
(* process may die at each point between.  The sweeper reads its list,     *)
(* asks a gateway about each order, and cancels later.  And a shopper pays *)
(* at the gateway at a moment of their own, whether or not a webhook says  *)
(* so afterwards.                                                          *)
(***************************************************************************)
EXTENDS Orders

CONSTANTS
    Askable,     \* orders whose gateway can be asked about a payment
    RefundIds,   \* bound: rows of order_refunds
    SweepBatch,  \* sweepUnpaidBatch
    NoOrder,     \* the order of a row that does not exist yet
    MaxLost      \* bound: refund requests that die before they settle

ASSUME PaymentsAssumption ==
    /\ Askable \subseteq OrderIds
    /\ IsFiniteSet(RefundIds)
    /\ SweepBatch \in Nat \ {0}
    /\ NoOrder \notin OrderIds
    /\ MaxLost \in Nat

VARIABLES
    refunds,   \* refunds[r]: the row and the request that carries it
    moved,     \* history: refunds whose money the gateway sent back
    lost,      \* what MaxLost counts
    captured,  \* captured[o]: what the gateway took from the shopper, 0 if nothing
    listed,    \* orders the sweeper's pass has still to look at
    doomed     \* orders holdFromSweep let go, about to be cancelled

refundVars == <<refunds, moved, lost>>
sweepVars  == <<listed, doomed>>
vars == <<inventoryVars, orderVars, refundVars, captured, sweepVars>>

(* request: waiting for the gateway, holding its answer, or over.          *)
RefundRows ==
    [status : {"none", "pending", "succeeded", "failed"}, order : OrderIds \union {NoOrder},
     amount : Amounts, request : {"none", "asking", "accepted", "declined", "over"}]

Init ==
    /\ InventoryInit
    /\ OrdersInit
    /\ refunds = [r \in RefundIds |->
           [status |-> "none", order |-> NoOrder, amount |-> 0, request |-> "none"]]
    /\ moved = {}
    /\ lost = 0
    /\ captured = [o \in OrderIds |-> 0]
    /\ listed = {}
    /\ doomed = {}

-----------------------------------------------------------------------------
(* issueForOrderTx: cards exist from the first time the order is paid.     *)
Issued(o, row) ==
    [row EXCEPT !.bought = IF o \in CardSellers /\ @ = "none" THEN "active" ELSE @]

(* Mutant: a cancelled order can be paid for.                              *)
PayableWhenCancelled(o) ==
    /\ order[o].status # "absent"
    /\ order[o].payment \in {"pending", "failed"}
    /\ order[o].refunded = 0

Payable(o) ==
    /\ order[o].status \notin {"absent", "cancelled"}
    /\ order[o].payment \in {"pending", "failed"}
    /\ order[o].refunded = 0

(* Mutant: a payment after a recorded failure no longer confirms.          *)
UnconfirmedUnlessFailed(o) == order[o].status = "pending" /\ order[o].payment = "pending"

Unconfirmed(o) == order[o].status = "pending"

(* markPaid: a pending order is confirmed and its stock committed in the   *)
(* same transaction.                                                       *)
RecordPayment(o) ==
    /\ Payable(o)
    /\ IF Unconfirmed(o)
       THEN /\ Commit(order[o].lines)
            /\ Set(o, Issued(o, Confirmed([order[o] EXCEPT !.payment = "paid"])))
       ELSE /\ Set(o, Issued(o, [order[o] EXCEPT !.payment = "paid"]))
            /\ UNCHANGED stock
    /\ UNCHANGED <<received, returns, card>>

(* MarkPaid: a webhook, or an operator.  Neither names an amount.          *)
MarkPaid(o) ==
    /\ RecordPayment(o)
    /\ UNCHANGED <<refundVars, captured, sweepVars>>

(* CheckPayment: the gateway's amount must be the order's total.           *)
CheckPayment(o) ==
    /\ o \in Askable
    /\ captured[o] > 0
    /\ captured[o] = order[o].total
    /\ RecordPayment(o)
    /\ UNCHANGED <<refundVars, captured, sweepVars>>

(* MarkUnpaid: takes a payment, or a recorded failure, back.  It does not  *)
(* look at refunds in flight.                                              *)
MarkUnpaid(o) ==
    /\ order[o].refunded = 0
    /\ \/ order[o].payment = "paid"
       \/ order[o].payment = "failed" /\ order[o].status # "cancelled"
    /\ Set(o, [order[o] EXCEPT !.payment = "pending"])
    /\ UNCHANGED <<inventoryVars, returns, card, refundVars, captured, sweepVars>>

MarkFailed(o) ==
    /\ order[o].status \notin {"absent", "cancelled"}
    /\ order[o].payment = "pending"
    /\ order[o].refunded = 0
    /\ Set(o, [order[o] EXCEPT !.payment = "failed"])
    /\ UNCHANGED <<inventoryVars, returns, card, refundVars, captured, sweepVars>>

(* The shopper pays at the gateway what the order says now.                *)
Capture(o) ==
    /\ order[o].status # "absent"
    /\ order[o].total > 0
    /\ captured[o] = 0
    /\ captured' = [captured EXCEPT ![o] = order[o].total]
    /\ UNCHANGED <<inventoryVars, orderVars, refundVars, sweepVars>>

-----------------------------------------------------------------------------
(* The sum of o's refund rows in a set of states.                          *)
Refunds(o, states) ==
    Total([r \in RefundIds |-> refunds[r].amount],
          {r \in RefundIds : refunds[r].order = o /\ refunds[r].status \in states})

(* Mutant: refunds in flight do not count.                                 *)
RemainingWithoutPending(o) == order[o].total - order[o].refunded

refundRemaining(o) == order[o].total - order[o].refunded - Refunds(o, {"pending"})

(* reserveRefund: commits the pending row before the gateway is asked.     *)
ReserveRefund(r, o, amount) ==
    /\ refunds[r].status = "none"
    /\ order[o].payment = "paid"
    /\ amount \in 1..refundRemaining(o)
    /\ refunds' = [refunds EXCEPT ![r] =
           [status |-> "pending", order |-> o, amount |-> amount, request |-> "asking"]]
    /\ UNCHANGED <<inventoryVars, orderVars, moved, lost, captured, sweepVars>>

(* The gateway sends the money back or declines.  An error is taken for a  *)
(* refusal, also when it is an answer that got lost and the money has gone.*)
GatewayAnswers(r) ==
    /\ refunds[r].request = "asking"
    /\ \E answer \in {"accepted", "declined"} :
          /\ refunds' = [refunds EXCEPT ![r].request = answer]
          /\ moved' \in {moved \union {r}} \union
                 (IF answer = "declined" THEN {moved} ELSE {})
    /\ UNCHANGED <<inventoryVars, orderVars, lost, captured, sweepVars>>

(* Mutant: whoever comes second records the refund again.                  *)
SettledOrNot(r) == refunds[r].status # "none"

(* WHERE status = 'pending': the row is settled once.                      *)
Unsettled(r) == refunds[r].status = "pending"

(* settleRefund of a row nobody settled yet.  orders_refunded_within_total *)
(* fails the transaction when the total was lowered under it meanwhile.    *)
RecordRefund(r, request) ==
    LET o    == refunds[r].order
        back == order[o].refunded + refunds[r].amount
    IN  /\ Unsettled(r)
        /\ back <= order[o].total
        /\ Set(o, [order[o] EXCEPT !.refunded = back,
                                   !.payment = IF back >= order[o].total THEN "refunded" ELSE @])
        /\ refunds' = [refunds EXCEPT ![r].status = "succeeded", ![r].request = request]
        /\ UNCHANGED <<inventoryVars, returns, card>>

(* The gateway accepted; somebody may have settled the row by hand first.  *)
SettleRefund(r) ==
    /\ refunds[r].request = "accepted"
    /\ \/ RecordRefund(r, "over")
       \/ /\ ~Unsettled(r)
          /\ refunds' = [refunds EXCEPT ![r].request = "over"]
          /\ UNCHANGED <<inventoryVars, orderVars>>
    /\ UNCHANGED <<moved, lost, captured, sweepVars>>

(* failRefund: the amount is no longer reserved.                           *)
FailRefund(r) ==
    /\ refunds[r].request = "declined"
    /\ refunds' = [refunds EXCEPT ![r].status = IF Unsettled(r) THEN "failed" ELSE @,
                                  ![r].request = "over"]
    /\ UNCHANGED <<inventoryVars, orderVars, moved, lost, captured, sweepVars>>

(* The request ends without a word in the ledger: the process died, or the *)
(* settling transaction failed.  What the gateway did, it did.             *)
LoseRequest(r) ==
    /\ refunds[r].request \in {"asking", "accepted", "declined"}
    /\ lost < MaxLost
    /\ lost' = lost + 1
    /\ refunds' = [refunds EXCEPT ![r].request = "over"]
    /\ moved' \in {moved} \union
           (IF refunds[r].request = "asking" THEN {moved \union {r}} ELSE {})
    /\ UNCHANGED <<inventoryVars, orderVars, captured, sweepVars>>

(* Settling fails on the total: the row stays pending.                     *)
RefundRefused(r) ==
    /\ refunds[r].request = "accepted"
    /\ Unsettled(r)
    /\ order[refunds[r].order].refunded + refunds[r].amount > order[refunds[r].order].total
    /\ refunds' = [refunds EXCEPT ![r].request = "over"]
    /\ UNCHANGED <<inventoryVars, orderVars, moved, lost, captured, sweepVars>>

(* SettleRefund by an operator who looked at the gateway fifteen minutes   *)
(* after the refund was started, when the gateway had long answered,       *)
(* whether or not the request that asked it is over.                       *)
SettleByHand(r) ==
    /\ refunds[r].request \in {"accepted", "declined", "over"}
    /\ Unsettled(r)
    /\ IF r \in moved
       THEN RecordRefund(r, refunds[r].request)
       ELSE /\ refunds' = [refunds EXCEPT ![r].status = "failed"]
            /\ UNCHANGED <<inventoryVars, orderVars>>
    /\ UNCHANGED <<moved, lost, captured, sweepVars>>

-----------------------------------------------------------------------------
(* Mutant: a recorded failure takes an order out of the sweep, as it did   *)
(* before migration 23.                                                    *)
UnsettledAsPending(o) ==
    /\ order[o].status = "pending"
    /\ order[o].payment = "pending"
    /\ order[o].deadline \in {"passed", "stale"}

(* The WHERE of SweepUnpaidPass.                                           *)
Unpaid(o) ==
    /\ order[o].status = "pending"
    /\ order[o].payment \in {"pending", "failed"}
    /\ order[o].deadline \in {"passed", "stale"}

(* One pass: at most a batch of them, in no particular order.              *)
SweepList ==
    /\ listed = {} /\ doomed = {}
    /\ \E S \in SUBSET {o \in OrderIds : Unpaid(o)} :
          /\ S # {}
          /\ \/ Cardinality(S) = SweepBatch
             \/ Cardinality(S) < SweepBatch /\ S = {o \in OrderIds : Unpaid(o)}
          /\ listed' = S
    /\ UNCHANGED <<inventoryVars, orderVars, refundVars, captured, doomed>>

Hold(o) == listed' = listed \ {o} /\ UNCHANGED doomed
Doom(o) == listed' = listed \ {o} /\ doomed' = doomed \union {o}

(* A gateway that could not answer, or whose answer could not be recorded, *)
(* is waited for until the deadline passed sweepAskGrace ago.  That        *)
(* deadline is the one in the list: the order may have lost its own since. *)
WaitForGateway(o) ==
    /\ o \in Askable
    /\ order[o].deadline # "stale"
    /\ Hold(o)
    /\ UNCHANGED <<inventoryVars, orderVars>>

(* The gateway says it was paid: CheckPayment records it, or finds that it *)
(* was recorded.                                                           *)
FoundPaid(o) ==
    /\ o \in Askable
    /\ Hold(o)
    /\ \/ order[o].payment = "paid" /\ UNCHANGED <<inventoryVars, orderVars>>
       \/ /\ captured[o] > 0
          /\ captured[o] = order[o].total
          /\ RecordPayment(o)

(* It says it was not, or cannot be asked (no status call, not set up, the *)
(* order could not be read), or has been waited for long enough.           *)
NotFoundPaid(o) ==
    /\ Doom(o)
    /\ UNCHANGED <<inventoryVars, orderVars>>

(* holdFromSweep.                                                          *)
SweepAsk(o) ==
    /\ doomed = {}
    /\ o \in listed
    /\ WaitForGateway(o) \/ FoundPaid(o) \/ NotFoundPaid(o)
    /\ UNCHANGED <<refundVars, captured>>

(* Cancel, in a transaction of its own; a refusal is logged and skipped.   *)
SweepCancel(o) ==
    /\ o \in doomed
    /\ doomed' = doomed \ {o}
    /\ IF Cancellable(o) THEN Cancel(o) ELSE UNCHANGED <<inventoryVars, orderVars>>
    /\ UNCHANGED <<refundVars, captured, listed>>

-----------------------------------------------------------------------------
Sweep == SweepList \/ \E o \in OrderIds : SweepAsk(o) \/ SweepCancel(o)

Refunding ==
    \E r \in RefundIds :
        \/ \E o \in OrderIds, a \in Amounts : ReserveRefund(r, o, a)
        \/ GatewayAnswers(r) \/ SettleRefund(r) \/ FailRefund(r)
        \/ LoseRequest(r) \/ RefundRefused(r) \/ SettleByHand(r)

Next ==
    \/ OrdersNext /\ UNCHANGED <<refundVars, captured, sweepVars>>
    \/ \E o \in OrderIds : \/ MarkPaid(o) \/ CheckPayment(o) \/ MarkUnpaid(o)
                           \/ MarkFailed(o) \/ Capture(o)
    \/ Refunding
    \/ Sweep

Spec == Init /\ [][Next]_vars

(* The sweeper's ticker runs for as long as the application does and each  *)
(* of its steps ends (a gateway is asked for ten seconds at most); clocks  *)
(* move.  Nothing is assumed of shoppers, operators, gateways or webhooks. *)
FairSpec ==
    /\ Spec
    /\ \A o \in OrderIds :
          /\ WF_vars(Expire(o) /\ UNCHANGED <<refundVars, captured, sweepVars>>)
          /\ WF_vars(SweepAsk(o))
          /\ WF_vars(SweepCancel(o))
    /\ WF_vars(SweepList)
-----------------------------------------------------------------------------
TypeOK ==
    /\ stock \in [Shelves -> [on_hand : Int, reserved : Nat]]
    /\ received \in [Shelves -> 0..MaxReceived]
    /\ order \in [OrderIds -> OrderRows]
    /\ returns \in [OrderIds -> [ReturnIds -> ReturnRows]]
    /\ card \in Nat
    /\ refunds \in [RefundIds -> RefundRows]
    /\ moved \subseteq RefundIds
    /\ lost \in 0..MaxLost
    /\ captured \in [OrderIds -> Amounts]
    /\ listed \subseteq OrderIds
    /\ doomed \subseteq OrderIds
=============================================================================
