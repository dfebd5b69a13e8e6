----------------------------- MODULE OrderProofs -----------------------------
(***************************************************************************)
(* Theorems about orders, stock and money: for any number of orders,       *)
(* shelves, returns and refunds, and any bounds.                           *)
(*                                                                         *)
(* First what each row shows by itself (Inv), then what the orders add up  *)
(* to (Books), then the ledger of refunds.                                 *)
(***************************************************************************)
EXTENDS OrderProperties, TotalsProofs

(* An order that is past waiting for its payment.                          *)
Started(row) == row.status \notin {"absent", "pending"}

(* What every orders row satisfies: the part of the invariant that one row *)
(* can show.                                                               *)
RowOK(row) ==
    /\ row \in OrderRows
    /\ ~Started(row) => row.payment \in {"pending", "failed"} /\ row.refunded = 0
    /\ row.refunded <= row.total
    /\ row.status = "cancelled" => row.bought # "active"

OrdersOK == order \in [OrderIds -> OrderRows] /\ \A o \in OrderIds : RowOK(order[o])

(* No order goes back to waiting.                                          *)
NoneWaitsAgain == \A o \in OrderIds : Started(order[o]) => Started(order'[o])

(* What a verb does to the orders table.                                   *)
OrdersMoveOn == OrdersOK' /\ NoneWaitsAgain

StockOK ==
    /\ stock \in [Shelves -> [on_hand : Int, reserved : Nat]]
    /\ NeverOversold

HistoryOK ==
    /\ received \in [Shelves -> 0..MaxReceived]
    /\ returns \in [OrderIds -> [ReturnIds -> ReturnRows]]
    /\ card \in Nat

(* A refund in flight is of an order that was paid, and what the gateway   *)
(* accepted it has sent.                                                   *)
RefundsOK ==
    /\ refunds \in [RefundIds -> RefundRows]
    /\ \A r \in RefundIds :
          /\ refunds[r].status = "pending" =>
                refunds[r].order \in OrderIds /\ Started(order[refunds[r].order])
          /\ refunds[r].request = "accepted" => r \in moved
          /\ refunds[r].status = "succeeded" => r \in moved

RestOK ==
    /\ moved \subseteq RefundIds
    /\ lost \in 0..MaxLost
    /\ captured \in [OrderIds -> Amounts]
    /\ listed \subseteq OrderIds
    /\ doomed \subseteq OrderIds

(* The inductive invariant.                                                *)
Inv == StockOK /\ OrdersOK /\ HistoryOK /\ RefundsOK /\ RestOK

-----------------------------------------------------------------------------
(* Baskets and shelves.                                                    *)

LEMMA AppliedNat ==
    ASSUME NEW s \in Shelves, NEW q \in Nat
    PROVE  Applied(s, q) \in Nat /\ Applied(s, q) <= q
  BY DEF Applied

LEMMA BasketNat ==
    ASSUME NEW b \in Baskets, NEW s \in Shelves
    PROVE  b[s] \in Nat
  BY QtyAssumption DEF Baskets

LEMMA LessNat ==
    ASSUME NEW n \in Nat, NEW q \in Nat
    PROVE  Less(n, q) \in Nat /\ Less(n, q) <= n
  BY DEF Less

LEMMA ReserveKeeps ==
    ASSUME StockOK, NEW b \in Baskets, Reserve(b)
    PROVE  StockOK'
<1>1. \A s \in Shelves : b[s] \in Nat
  BY BasketNat
<1>2. stock' \in [Shelves -> [on_hand : Int, reserved : Nat]]
  BY <1>1, AppliedNat DEF StockOK, Reserve
<1>3. SUFFICES ASSUME NEW s \in Shelves \ Backorder
               PROVE  stock'[s].reserved <= stock'[s].on_hand
  BY <1>2 DEF StockOK, NeverOversold
<1>4. stock[s].on_hand \in Int /\ stock[s].reserved \in Nat /\ stock[s].reserved <= stock[s].on_hand
  BY DEF StockOK, NeverOversold
<1>5. /\ stock'[s].on_hand = stock[s].on_hand
      /\ stock'[s].reserved = stock[s].reserved + Applied(s, b[s])
  BY DEF Reserve, StockOK
<1>6. CASE b[s] = 0
  BY <1>4, <1>5, <1>6 DEF Applied
<1>7. CASE b[s] > 0
  BY <1>1, <1>4, <1>5, <1>7 DEF Reserve, CanTakeAll, CanTake, Available, Applied
<1> QED
  BY <1>1, <1>6, <1>7

LEMMA CommitKeeps ==
    ASSUME StockOK, NEW b \in Baskets, Commit(b)
    PROVE  StockOK'
<1>1. \A s \in Shelves : b[s] \in Nat
  BY BasketNat
<1>2. stock' \in [Shelves -> [on_hand : Int, reserved : Nat]]
  BY <1>1, AppliedNat DEF StockOK, Commit
<1>3. SUFFICES ASSUME NEW s \in Shelves \ Backorder
               PROVE  stock'[s].reserved <= stock'[s].on_hand
  BY <1>2 DEF StockOK, NeverOversold
<1>4. stock[s].on_hand \in Int /\ stock[s].reserved \in Nat /\ stock[s].reserved <= stock[s].on_hand
  BY DEF StockOK, NeverOversold
<1>5. /\ stock'[s].on_hand = stock[s].on_hand - Applied(s, b[s])
      /\ stock'[s].reserved = stock[s].reserved - Applied(s, b[s])
  BY DEF Commit
<1> QED
  BY <1>1, <1>4, <1>5, AppliedNat

LEMMA ReleaseKeeps ==
    ASSUME StockOK, NEW b \in Baskets, Release(b)
    PROVE  StockOK'
<1>1. \A s \in Shelves : Applied(s, b[s]) \in Nat
  BY BasketNat, AppliedNat
<1>2. stock' \in [Shelves -> [on_hand : Int, reserved : Nat]]
  BY <1>1, LessNat DEF StockOK, Release
<1>3. SUFFICES ASSUME NEW s \in Shelves \ Backorder
               PROVE  stock'[s].reserved <= stock'[s].on_hand
  BY <1>2 DEF StockOK, NeverOversold
<1>4. stock[s].on_hand \in Int /\ stock[s].reserved \in Nat /\ stock[s].reserved <= stock[s].on_hand
  BY DEF StockOK, NeverOversold
<1>5. /\ stock'[s].on_hand = stock[s].on_hand
      /\ stock'[s].reserved = Less(stock[s].reserved, Applied(s, b[s]))
  BY DEF Release, StockOK
<1>6. /\ Less(stock[s].reserved, Applied(s, b[s])) \in Nat
      /\ Less(stock[s].reserved, Applied(s, b[s])) <= stock[s].reserved
  BY <1>1, <1>4, LessNat
<1> QED
  BY <1>4, <1>5, <1>6

LEMMA RestockKeeps ==
    ASSUME StockOK, NEW b \in Baskets, Restock(b)
    PROVE  StockOK'
<1>1. \A s \in Shelves : Applied(s, b[s]) \in Nat
  BY BasketNat, AppliedNat
<1>2. stock' \in [Shelves -> [on_hand : Int, reserved : Nat]]
  BY <1>1 DEF StockOK, Restock
<1>3. SUFFICES ASSUME NEW s \in Shelves \ Backorder
               PROVE  stock'[s].reserved <= stock'[s].on_hand
  BY <1>2 DEF StockOK, NeverOversold
<1>4. stock[s].on_hand \in Int /\ stock[s].reserved \in Nat /\ stock[s].reserved <= stock[s].on_hand
  BY DEF StockOK, NeverOversold
<1>5. /\ stock'[s].on_hand = stock[s].on_hand + Applied(s, b[s])
      /\ stock'[s].reserved = stock[s].reserved
  BY DEF Restock, StockOK
<1> QED
  BY <1>1, <1>4, <1>5

LEMMA SellKeeps ==
    ASSUME StockOK, NEW b \in Baskets, Sell(b)
    PROVE  StockOK'
<1>1. \A s \in Shelves : b[s] \in Nat
  BY BasketNat
<1>2. stock' \in [Shelves -> [on_hand : Int, reserved : Nat]]
  BY <1>1, AppliedNat DEF StockOK, Sell
<1>3. SUFFICES ASSUME NEW s \in Shelves \ Backorder
               PROVE  stock'[s].reserved <= stock'[s].on_hand
  BY <1>2 DEF StockOK, NeverOversold
<1>4. stock[s].on_hand \in Int /\ stock[s].reserved \in Nat /\ stock[s].reserved <= stock[s].on_hand
  BY DEF StockOK, NeverOversold
<1>5. /\ stock'[s].on_hand = stock[s].on_hand - Applied(s, b[s])
      /\ stock'[s].reserved = stock[s].reserved
  BY DEF Sell, StockOK
<1>6. CASE b[s] = 0
  BY <1>4, <1>5, <1>6 DEF Applied
<1>7. CASE b[s] > 0
  BY <1>1, <1>4, <1>5, <1>7 DEF Sell, CanTakeAll, CanTake, Available, Applied
<1> QED
  BY <1>1, <1>6, <1>7

LEMMA MoveReservedKeeps ==
    ASSUME StockOK, NEW more \in Baskets, NEW fewer \in Baskets, MoveReserved(more, fewer)
    PROVE  StockOK'
<1>1. \A s \in Shelves : /\ more[s] \in Nat
                         /\ Applied(s, more[s]) \in Nat
                         /\ Applied(s, fewer[s]) \in Nat
  BY BasketNat, AppliedNat
<1>2. stock' \in [Shelves -> [on_hand : Int, reserved : Nat]]
  <2>1. SUFFICES ASSUME NEW s \in Shelves
                 PROVE  Less(stock[s].reserved + Applied(s, more[s]), Applied(s, fewer[s])) \in Nat
    BY DEF StockOK, MoveReserved
  <2>2. stock[s].reserved \in Nat
    BY DEF StockOK
  <2>3. stock[s].reserved + Applied(s, more[s]) \in Nat
    BY <1>1, <2>2
  <2> QED
    BY <1>1, <2>3, LessNat
<1>3. SUFFICES ASSUME NEW s \in Shelves \ Backorder
               PROVE  stock'[s].reserved <= stock'[s].on_hand
  BY <1>2 DEF StockOK, NeverOversold
<1>4. stock[s].on_hand \in Int /\ stock[s].reserved \in Nat /\ stock[s].reserved <= stock[s].on_hand
  BY DEF StockOK, NeverOversold
<1> DEFINE held == stock[s].reserved + Applied(s, more[s])
<1>5. /\ stock'[s].on_hand = stock[s].on_hand
      /\ stock'[s].reserved = Less(held, Applied(s, fewer[s]))
  BY DEF MoveReserved, StockOK
<1>6. held \in Nat /\ held <= stock[s].on_hand
  <2>1. CASE more[s] = 0
    BY <1>4, <2>1 DEF Applied
  <2>2. CASE more[s] > 0
    BY <1>1, <1>4, <2>2 DEF MoveReserved, CanTakeAll, CanTake, Available, Applied
  <2> QED
    BY <1>1, <2>1, <2>2
<1>7. Less(held, Applied(s, fewer[s])) \in Nat /\ Less(held, Applied(s, fewer[s])) <= held
  BY <1>1, <1>6, LessNat
<1> HIDE DEF held
<1> QED
  BY <1>4, <1>5, <1>6, <1>7

LEMMA MoveCommittedKeeps ==
    ASSUME StockOK, NEW more \in Baskets, NEW fewer \in Baskets, MoveCommitted(more, fewer)
    PROVE  StockOK'
<1>1. \A s \in Shelves : /\ more[s] \in Nat
                         /\ Applied(s, more[s]) \in Nat
                         /\ Applied(s, fewer[s]) \in Nat
  BY BasketNat, AppliedNat
<1>2. stock' \in [Shelves -> [on_hand : Int, reserved : Nat]]
  BY <1>1 DEF StockOK, MoveCommitted
<1>3. SUFFICES ASSUME NEW s \in Shelves \ Backorder
               PROVE  stock'[s].reserved <= stock'[s].on_hand
  BY <1>2 DEF StockOK, NeverOversold
<1>4. stock[s].on_hand \in Int /\ stock[s].reserved \in Nat /\ stock[s].reserved <= stock[s].on_hand
  BY DEF StockOK, NeverOversold
<1>5. /\ stock'[s].on_hand = stock[s].on_hand - Applied(s, more[s]) + Applied(s, fewer[s])
      /\ stock'[s].reserved = stock[s].reserved
  BY DEF MoveCommitted, StockOK
<1>6. stock[s].reserved <= stock[s].on_hand - Applied(s, more[s])
  <2>1. CASE more[s] = 0
    BY <1>4, <2>1 DEF Applied
  <2>2. CASE more[s] > 0
    BY <1>1, <1>4, <2>2 DEF MoveCommitted, CanTakeAll, CanTake, Available, Applied
  <2> QED
    BY <1>1, <2>1, <2>2
<1> QED
  BY <1>1, <1>4, <1>5, <1>6

LEMMA CountKeeps ==
    ASSUME StockOK, received \in [Shelves -> 0..MaxReceived], Count
    PROVE  StockOK' /\ received' \in [Shelves -> 0..MaxReceived]
<1>1. PICK s \in Shelves :
          \/ \E delta \in (-MaxQty)..MaxQty : Adjust(s, delta)
          \/ \E count \in 0..MaxReceived : SetOnHand(s, count)
  BY DEF Count
<1>2. CASE \E delta \in (-MaxQty)..MaxQty : Adjust(s, delta)
  BY <1>2, QtyAssumption DEF Adjust, StockOK, NeverOversold
<1>3. CASE \E count \in 0..MaxReceived : SetOnHand(s, count)
  BY <1>3, QtyAssumption DEF SetOnHand, StockOK, NeverOversold
<1> QED
  BY <1>1, <1>2, <1>3

-----------------------------------------------------------------------------
(* Orders.                                                                 *)

LEMMA AmountsNat == Amounts \subseteq Nat /\ 0..MaxSubtotal \subseteq Amounts /\ 0 \in Amounts
  BY OrdersAssumption DEF Amounts

LEMMA EmptyBasket == Empty \in Baskets
  BY QtyAssumption DEF Empty, Baskets

LEMMA SetKeeps ==
    ASSUME OrdersOK, NEW o \in OrderIds, NEW row,
           RowOK(row), Started(order[o]) => Started(row), Set(o, row)
    PROVE  OrdersMoveOn
  BY DEF OrdersOK, OrdersMoveOn, NoneWaitsAgain, Set, RowOK

LEMMA UnchangedKeeps ==
    ASSUME OrdersOK, UNCHANGED order
    PROVE  OrdersMoveOn
  BY DEF OrdersOK, OrdersMoveOn, NoneWaitsAgain

LEMMA PlaceKeeps ==
    ASSUME StockOK, OrdersOK, HistoryOK,
           NEW o \in OrderIds, NEW b \in Baskets, NEW n \in 1..MaxSubtotal, NEW c \in BOOLEAN,
           Place(o, b, n, c)
    PROVE  StockOK' /\ OrdersMoveOn /\ HistoryOK'
<1> DEFINE due == n + TaxOnTop
           gift == IF c THEN Smaller(card, due) ELSE 0
           row == [order[o] EXCEPT !.status = "pending", !.lines = b,
                                   !.subtotal = n, !.total = due - gift,
                                   !.gift = gift, !.deadline = "ahead"]
<1>1. due \in Amounts /\ due \in Nat
  BY OrdersAssumption DEF Amounts
<1>2. card \in Nat
  BY DEF HistoryOK
<1>3. gift \in 0..due /\ gift <= card /\ gift \in Nat
  BY <1>1, <1>2 DEF Smaller
<1>4. gift \in Amounts /\ due - gift \in Amounts
  BY <1>1, <1>3, OrdersAssumption DEF Amounts
<1>5. /\ Reserve(b)
      /\ card' = card - gift
      /\ Set(o, row)
      /\ UNCHANGED <<received, returns>>
      /\ order[o].status = "absent"
  BY DEF Place
<1>6. StockOK'
  BY <1>5, ReserveKeeps
<1>7. HistoryOK'
  BY <1>2, <1>3, <1>5 DEF HistoryOK
<1>8. RowOK(row)
  <2>1. order[o] \in OrderRows /\ RowOK(order[o]) /\ n \in 0..MaxSubtotal
    BY OrdersAssumption DEF OrdersOK
  <2> HIDE DEF due, gift
  <2>2. row \in OrderRows
    BY <1>4, <2>1 DEF OrderRows, Statuses, Deadlines
  <2>3. row.refunded = 0 /\ row.payment \in {"pending", "failed"} /\ row.status = "pending"
    BY <1>5, <2>1 DEF RowOK, Started, OrderRows
  <2>4. row.total \in Amounts
    BY <2>2 DEF OrderRows
  <2> QED
    BY <2>2, <2>3, <2>4, AmountsNat DEF RowOK, Started
<1>9. OrdersMoveOn
  <2>1. ~Started(order[o])
    BY <1>5 DEF Started
  <2> HIDE DEF row
  <2> QED
    BY <1>5, <1>8, <2>1, SetKeeps
<1> QED
  BY <1>6, <1>7, <1>9

LEMMA RowTypes ==
    ASSUME OrdersOK, NEW o \in OrderIds
    PROVE  /\ order[o] \in OrderRows /\ RowOK(order[o])
           /\ order[o].lines \in Baskets /\ order[o].shipped \in Baskets
           /\ order[o].gift \in Nat /\ order[o].total \in Amounts
           /\ order[o].refunded \in Amounts
  BY AmountsNat DEF OrdersOK, OrderRows

(* The row commitOrderStock and setOrderStatus leave.                      *)
LEMMA ConfirmedRow ==
    ASSUME NEW row \in OrderRows, row.refunded <= row.total
    PROVE  /\ RowOK(Confirmed(row)) /\ Started(Confirmed(row))
           /\ Confirmed(row).status = "confirmed"
<1>1. Confirmed(row) \in OrderRows
  BY DEF Confirmed, OrderRows, Statuses, Deadlines
<1>2. /\ Confirmed(row).status = "confirmed"
      /\ Confirmed(row).refunded = row.refunded
      /\ Confirmed(row).total = row.total
  BY DEF Confirmed, OrderRows
<1> QED
  BY <1>1, <1>2 DEF RowOK, Started

LEMMA ConfirmKeeps ==
    ASSUME StockOK, OrdersOK, HistoryOK, NEW o \in OrderIds, Confirm(o)
    PROVE  StockOK' /\ OrdersMoveOn /\ HistoryOK'
<1>1. StockOK'
  BY RowTypes, CommitKeeps DEF Confirm
<1>2. HistoryOK'
  BY DEF Confirm, HistoryOK
<1>3. OrdersMoveOn
  <2>1. RowOK(Confirmed(order[o])) /\ Started(Confirmed(order[o]))
    BY RowTypes, ConfirmedRow DEF RowOK
  <2> QED
    BY <2>1, SetKeeps DEF Confirm
<1> QED
  BY <1>1, <1>2, <1>3

LEMMA CancelKeeps ==
    ASSUME StockOK, OrdersOK, HistoryOK, NEW o \in OrderIds, Cancel(o)
    PROVE  StockOK' /\ OrdersMoveOn /\ HistoryOK'
<1> DEFINE row == [Restored(order[o]) EXCEPT !.status = "cancelled", !.deadline = "none"]
<1>1. StockOK'
  BY RowTypes, RestockKeeps, ReleaseKeeps DEF Cancel
<1>2. HistoryOK'
  <2>1. card \in Nat /\ order[o].gift \in Nat
    BY RowTypes DEF HistoryOK
  <2> QED
    BY <2>1 DEF Cancel, HistoryOK
<1>3. RowOK(row)
  <2>1. order[o] \in OrderRows /\ RowOK(order[o])
    BY RowTypes
  <2>2. /\ Restored(order[o]) \in OrderRows
        /\ Restored(order[o]).bought # "active"
        /\ Restored(order[o]).total = order[o].total
        /\ Restored(order[o]).refunded = order[o].refunded
    BY <2>1 DEF Restored, OrderRows
  <2>3. row \in OrderRows
    BY <2>2 DEF OrderRows, Statuses, Deadlines
  <2>4. /\ row.status = "cancelled" /\ row.bought # "active"
        /\ row.total = order[o].total /\ row.refunded = order[o].refunded
    BY <2>2 DEF OrderRows
  <2> QED
    BY <2>1, <2>3, <2>4 DEF RowOK, Started
<1>4. Started(row)
  BY RowTypes DEF Started, Restored, OrderRows
<1>5. Set(o, row)
  BY DEF Cancel
<1>6. OrdersMoveOn
  <2> HIDE DEF row
  <2> QED
    BY <1>3, <1>4, <1>5, SetKeeps
<1> QED
  BY <1>1, <1>2, <1>6

LEMMA EditLinesKeeps ==
    ASSUME StockOK, OrdersOK, HistoryOK,
           NEW o \in OrderIds, NEW b \in Baskets, NEW n \in 1..MaxSubtotal, EditLines(o, b, n)
    PROVE  StockOK' /\ OrdersMoveOn /\ HistoryOK'
<1> DEFINE more == [s \in Shelves |-> Less(b[s], order[o].lines[s])]
           fewer == [s \in Shelves |-> Less(order[o].lines[s], b[s])]
           row == [order[o] EXCEPT !.lines = b, !.subtotal = n, !.total = n]
<1>1. more \in Baskets /\ fewer \in Baskets
  BY RowTypes, QtyAssumption DEF Baskets, Less
<1>2. MoveCommitted(more, fewer) \/ MoveReserved(more, fewer)
  BY DEF EditLines
<1>3. StockOK'
  <2> HIDE DEF more, fewer
  <2> QED
    BY <1>1, <1>2, MoveCommittedKeeps, MoveReservedKeeps
<1>4. HistoryOK'
  BY DEF EditLines, HistoryOK
<1>5. order[o].refunded = 0 /\ order[o].status \in {"pending", "confirmed"} /\ Set(o, row)
  BY DEF EditLines
<1>6. order[o] \in OrderRows /\ RowOK(order[o])
  BY RowTypes
<1>7. n \in Nat /\ n \in 0..MaxSubtotal /\ n \in Amounts
  BY OrdersAssumption DEF Amounts
<1>8. row \in OrderRows
  BY <1>6, <1>7 DEF OrderRows
<1>9. /\ row.status = order[o].status /\ row.payment = order[o].payment
      /\ row.refunded = 0 /\ row.total = n
  BY <1>5, <1>6 DEF OrderRows
<1>10. RowOK(row) /\ (Started(order[o]) => Started(row))
  <2> HIDE DEF row
  <2> QED
    BY <1>5, <1>6, <1>7, <1>8, <1>9 DEF RowOK, Started
<1>11. OrdersMoveOn
  <2> HIDE DEF row
  <2> QED
    BY <1>5, <1>10, SetKeeps
<1> QED
  BY <1>3, <1>4, <1>11

(* A change of a live order's parcels or of its status alone.              *)
LEMMA ParcelsKeep ==
    ASSUME OrdersOK, NEW o \in OrderIds, NEW shipped \in Baskets,
           Started(order[o]), order[o].status # "cancelled", Parcels(o, shipped)
    PROVE  OrdersMoveOn
<1> DEFINE status == ShippingState(order[o].lines, shipped)
           row == [order[o] EXCEPT !.shipped = shipped, !.status = status]
<1>1. status \in {"confirmed", "partial", "shipped"}
  BY DEF ShippingState
<1>2. order[o] \in OrderRows /\ RowOK(order[o])
  BY RowTypes
<1>3. Set(o, row)
  BY DEF Parcels
<1> HIDE DEF status
<1>4. row \in OrderRows
  BY <1>1, <1>2 DEF OrderRows, Statuses
<1>5. /\ row.status = status
      /\ row.refunded = order[o].refunded /\ row.total = order[o].total
  BY <1>2 DEF OrderRows
<1> HIDE DEF row
<1>6. RowOK(row) /\ Started(row)
  BY <1>1, <1>2, <1>4, <1>5 DEF RowOK, Started
<1> QED
  BY <1>3, <1>6, SetKeeps

LEMMA StatusKeeps ==
    ASSUME OrdersOK, NEW o \in OrderIds, NEW status \in {"shipped", "delivered"},
           Started(order[o]), Set(o, [order[o] EXCEPT !.status = status])
    PROVE  OrdersMoveOn
<1> DEFINE row == [order[o] EXCEPT !.status = status]
<1>1. order[o] \in OrderRows /\ RowOK(order[o])
  BY RowTypes
<1>2. row \in OrderRows
  BY <1>1 DEF OrderRows, Statuses
<1>3. row.status = status /\ row.refunded = order[o].refunded /\ row.total = order[o].total
  BY <1>1 DEF OrderRows
<1>4. Set(o, row)
  OBVIOUS
<1> HIDE DEF row
<1>5. RowOK(row) /\ Started(row)
  BY <1>1, <1>2, <1>3 DEF RowOK, Started
<1> QED
  BY <1>4, <1>5, SetKeeps

LEMMA ShipKeeps ==
    ASSUME OrdersOK, NEW o \in OrderIds, NEW b \in Baskets, Ship(o, b)
    PROVE  OrdersMoveOn
<1> DEFINE shipped == [s \in Shelves |-> order[o].shipped[s] + b[s]]
<1>1. shipped \in Baskets
  BY RowTypes, QtyAssumption DEF Ship, checkShipLines, Baskets
<1>2. Started(order[o]) /\ order[o].status # "cancelled" /\ Parcels(o, shipped)
  BY DEF Ship, Started
<1> QED
  BY <1>1, <1>2, ParcelsKeep

LEMMA UnshipKeeps ==
    ASSUME OrdersOK, NEW o \in OrderIds, NEW b \in Baskets, Unship(o, b)
    PROVE  OrdersMoveOn
<1> DEFINE shipped == [s \in Shelves |-> order[o].shipped[s] - b[s]]
<1>1. shipped \in Baskets
  BY RowTypes, QtyAssumption DEF Unship, Baskets
<1>2. Started(order[o]) /\ order[o].status # "cancelled" /\ Parcels(o, shipped)
  BY DEF Unship, Started
<1> QED
  BY <1>1, <1>2, ParcelsKeep

LEMMA ExpireKeeps ==
    ASSUME OrdersOK, NEW o \in OrderIds, Expire(o)
    PROVE  OrdersMoveOn
<1> DEFINE row == [order[o] EXCEPT !.deadline = IF @ = "ahead" THEN "passed" ELSE "stale"]
<1>1. order[o] \in OrderRows /\ RowOK(order[o])
  BY RowTypes
<1>2. row \in OrderRows
  BY <1>1 DEF OrderRows, Deadlines
<1>3. /\ row.status = order[o].status /\ row.payment = order[o].payment
      /\ row.refunded = order[o].refunded /\ row.total = order[o].total
      /\ row.bought = order[o].bought
  BY <1>1 DEF OrderRows
<1>4. Set(o, row)
  BY DEF Expire
<1> HIDE DEF row
<1>5. RowOK(row) /\ (Started(order[o]) => Started(row))
  BY <1>1, <1>2, <1>3 DEF RowOK, Started
<1> QED
  BY <1>4, <1>5, SetKeeps

LEMMA ReturnKeeps ==
    ASSUME StockOK, HistoryOK, NEW o \in OrderIds, NEW i \in ReturnIds,
           NEW b \in Baskets, NEW r \in BOOLEAN, Return(o, i, b, r)
    PROVE  StockOK' /\ HistoryOK'
<1>1. StockOK'
  <2>1. CASE Restock(b)
    BY <2>1, RestockKeeps
  <2>2. CASE UNCHANGED stock
    BY <2>2 DEF StockOK, NeverOversold
  <2> QED
    BY <2>1, <2>2 DEF Return
<1>2. [status |-> "received", units |-> b, restock |-> r] \in ReturnRows
  BY DEF ReturnRows
<1>3. HistoryOK'
  BY <1>2 DEF Return, HistoryOK
<1> QED
  BY <1>1, <1>3

LEMMA WithdrawReturnKeeps ==
    ASSUME StockOK, HistoryOK, NEW o \in OrderIds, NEW i \in ReturnIds, WithdrawReturn(o, i)
    PROVE  StockOK' /\ HistoryOK'
<1>1. returns[o][i] \in ReturnRows
  BY DEF HistoryOK
<1>2. StockOK'
  <2>1. CASE Sell(returns[o][i].units)
    BY <1>1, <2>1, SellKeeps DEF ReturnRows
  <2>2. CASE UNCHANGED stock
    BY <2>2 DEF StockOK, NeverOversold
  <2> QED
    BY <2>1, <2>2 DEF WithdrawReturn
<1>3. [returns[o][i] EXCEPT !.status = "withdrawn"] \in ReturnRows
  BY <1>1 DEF ReturnRows
<1>4. returns' = [returns EXCEPT ![o] = [returns[o] EXCEPT ![i] =
                                           [returns[o][i] EXCEPT !.status = "withdrawn"]]]
  BY DEF WithdrawReturn
<1>5. HistoryOK'
  BY <1>3, <1>4 DEF WithdrawReturn, HistoryOK
<1> QED
  BY <1>2, <1>5

LEMMA StockUnchanged ==
    ASSUME StockOK, UNCHANGED stock
    PROVE  StockOK'
  BY DEF StockOK, NeverOversold

LEMMA HistoryUnchanged ==
    ASSUME HistoryOK, UNCHANGED <<received, returns, card>>
    PROVE  HistoryOK'
  BY DEF HistoryOK

(* Every verb on an order, and every correction of a shelf.                *)
LEMMA OrdersNextKeeps ==
    ASSUME StockOK, OrdersOK, HistoryOK, OrdersNext
    PROVE  StockOK' /\ OrdersMoveOn /\ HistoryOK'
<1> USE StockUnchanged, HistoryUnchanged, UnchangedKeeps
<1>1. ASSUME NEW o \in OrderIds, NEW b \in Baskets, NEW n \in 1..MaxSubtotal,
             NEW c \in BOOLEAN, Place(o, b, n, c)
      PROVE  StockOK' /\ OrdersMoveOn /\ HistoryOK'
  BY <1>1, PlaceKeeps
<1>2. ASSUME NEW o \in OrderIds, Confirm(o) \/ Cancel(o)
      PROVE  StockOK' /\ OrdersMoveOn /\ HistoryOK'
  BY <1>2, ConfirmKeeps, CancelKeeps
<1>3. ASSUME NEW o \in OrderIds, Deliver(o) \/ MarkUndelivered(o)
      PROVE  StockOK' /\ OrdersMoveOn /\ HistoryOK'
  <2>1. UNCHANGED <<stock, received, returns, card>>
    BY <1>3 DEF Deliver, MarkUndelivered, inventoryVars
  <2>2. Started(order[o])
    BY <1>3 DEF Deliver, MarkUndelivered, Started
  <2>3. \E status \in {"shipped", "delivered"} : Set(o, [order[o] EXCEPT !.status = status])
    BY <1>3 DEF Deliver, MarkUndelivered
  <2>4. OrdersMoveOn
    BY <2>2, <2>3, StatusKeeps
  <2> QED
    BY <2>1, <2>4
<1>4. ASSUME NEW o \in OrderIds, Expire(o)
      PROVE  StockOK' /\ OrdersMoveOn /\ HistoryOK'
  <2>1. UNCHANGED <<stock, received, returns, card>>
    BY <1>4 DEF Expire, inventoryVars
  <2> QED
    BY <1>4, <2>1, ExpireKeeps
<1>5. ASSUME NEW o \in OrderIds, NEW b \in Baskets, NEW n \in 1..MaxSubtotal, EditLines(o, b, n)
      PROVE  StockOK' /\ OrdersMoveOn /\ HistoryOK'
  BY <1>5, EditLinesKeeps
<1>6. ASSUME NEW o \in OrderIds, NEW b \in Baskets, Ship(o, b) \/ Unship(o, b)
      PROVE  StockOK' /\ OrdersMoveOn /\ HistoryOK'
  <2>1. UNCHANGED <<stock, received, returns, card>>
    BY <1>6 DEF Ship, Unship, inventoryVars
  <2> QED
    BY <1>6, <2>1, ShipKeeps, UnshipKeeps
<1>7. ASSUME NEW o \in OrderIds, NEW i \in ReturnIds,
             \/ \E b \in Baskets, r \in BOOLEAN : Return(o, i, b, r)
             \/ WithdrawReturn(o, i)
      PROVE  StockOK' /\ OrdersMoveOn /\ HistoryOK'
  <2>1. StockOK' /\ HistoryOK'
    BY <1>7, ReturnKeeps, WithdrawReturnKeeps
  <2>2. UNCHANGED order
    BY <1>7 DEF Return, WithdrawReturn
  <2> QED
    BY <2>1, <2>2
<1>8. ASSUME Count, UNCHANGED orderVars
      PROVE  StockOK' /\ OrdersMoveOn /\ HistoryOK'
  <2>1. UNCHANGED <<order, returns, card>>
    BY <1>8 DEF orderVars
  <2>2. StockOK' /\ received' \in [Shelves -> 0..MaxReceived]
    BY <1>8, CountKeeps DEF HistoryOK
  <2> QED
    BY <2>1, <2>2 DEF HistoryOK
<1> QED
  BY <1>1, <1>2, <1>3, <1>4, <1>5, <1>6, <1>7, <1>8 DEF OrdersNext

-----------------------------------------------------------------------------
(* Payments.                                                               *)

LEMMA IssuedRow ==
    ASSUME NEW o \in OrderIds, NEW row, RowOK(row), row.status # "cancelled"
    PROVE  RowOK(Issued(o, row)) /\ (Started(row) => Started(Issued(o, row)))
<1>1. row \in OrderRows
  BY DEF RowOK
<1>2. Issued(o, row) \in OrderRows
  BY <1>1 DEF Issued, OrderRows
<1>3. /\ Issued(o, row).status = row.status /\ Issued(o, row).payment = row.payment
      /\ Issued(o, row).refunded = row.refunded /\ Issued(o, row).total = row.total
  BY <1>1 DEF Issued, OrderRows
<1> QED
  BY <1>2, <1>3 DEF RowOK, Started

(* A change of the payment alone, of an order that need not wait for it.   *)
LEMMA PaymentRow ==
    ASSUME NEW row, RowOK(row), NEW payment \in Payments,
           Started(row) \/ payment \in {"pending", "failed"}
    PROVE  /\ RowOK([row EXCEPT !.payment = payment])
           /\ Started(row) => Started([row EXCEPT !.payment = payment])
           /\ [row EXCEPT !.payment = payment].status = row.status
<1>1. row \in OrderRows
  BY DEF RowOK
<1> DEFINE new == [row EXCEPT !.payment = payment]
<1>2. new \in OrderRows
  BY <1>1 DEF OrderRows
<1>3. /\ new.status = row.status /\ new.payment = payment
      /\ new.refunded = row.refunded /\ new.total = row.total
      /\ new.bought = row.bought
  BY <1>1 DEF OrderRows
<1> HIDE DEF new
<1>4. RowOK(new) /\ (Started(row) => Started(new))
  BY <1>2, <1>3 DEF RowOK, Started
<1> QED
  BY <1>3, <1>4 DEF new

LEMMA RecordPaymentKeeps ==
    ASSUME StockOK, OrdersOK, HistoryOK, NEW o \in OrderIds, RecordPayment(o)
    PROVE  StockOK' /\ OrdersMoveOn /\ HistoryOK'
<1>1. HistoryOK'
  BY DEF RecordPayment, HistoryOK
<1>2. order[o] \in OrderRows /\ RowOK(order[o]) /\ order[o].lines \in Baskets
  BY RowTypes
<1>3. CASE Unconfirmed(o)
  <2> DEFINE paid == [order[o] EXCEPT !.payment = "paid"]
  <2>1. StockOK'
    BY <1>2, <1>3, CommitKeeps DEF RecordPayment
  <2>2. paid \in OrderRows /\ paid.refunded <= paid.total
    BY <1>2 DEF OrderRows, Payments, RowOK
  <2>3. Set(o, Issued(o, Confirmed(paid)))
    BY <1>3 DEF RecordPayment
  <2> HIDE DEF paid
  <2>4. RowOK(Issued(o, Confirmed(paid))) /\ Started(Issued(o, Confirmed(paid)))
    BY <2>2, ConfirmedRow, IssuedRow
  <2> QED
    BY <1>1, <2>1, <2>3, <2>4, SetKeeps
<1>4. CASE ~Unconfirmed(o)
  <2> DEFINE paid == [order[o] EXCEPT !.payment = "paid"]
  <2>1. StockOK'
    BY <1>4, StockUnchanged DEF RecordPayment
  <2>2. Started(order[o]) /\ order[o].status # "cancelled"
    BY <1>4 DEF RecordPayment, Payable, Unconfirmed, Started
  <2>3. "paid" \in Payments
    BY DEF Payments
  <2>4. RowOK(paid) /\ Started(paid) /\ paid.status # "cancelled"
    BY <1>2, <2>2, <2>3, PaymentRow
  <2>5. Set(o, Issued(o, paid))
    BY <1>4 DEF RecordPayment
  <2> HIDE DEF paid
  <2>6. RowOK(Issued(o, paid)) /\ Started(Issued(o, paid))
    BY <2>4, IssuedRow
  <2> QED
    BY <1>1, <2>1, <2>5, <2>6, SetKeeps
<1> QED
  BY <1>3, <1>4

LEMMA MarkUnpaidKeeps ==
    ASSUME OrdersOK, NEW o \in OrderIds, MarkUnpaid(o) \/ MarkFailed(o)
    PROVE  OrdersMoveOn
<1>1. PICK payment \in {"pending", "failed"} : Set(o, [order[o] EXCEPT !.payment = payment])
  BY DEF MarkUnpaid, MarkFailed
<1>2. payment \in Payments
  BY DEF Payments
<1>3. RowOK(order[o])
  BY RowTypes
<1> DEFINE new == [order[o] EXCEPT !.payment = payment]
<1>4. RowOK(new) /\ (Started(order[o]) => Started(new))
  BY <1>2, <1>3, PaymentRow
<1>5. Set(o, new)
  BY <1>1
<1> HIDE DEF new
<1> QED
  BY <1>4, <1>5, SetKeeps

-----------------------------------------------------------------------------
(* Refunds.                                                                *)

LEMMA RefundsUnchanged ==
    ASSUME RefundsOK, NoneWaitsAgain, UNCHANGED <<refunds, moved>>
    PROVE  RefundsOK'
  BY DEF RefundsOK, NoneWaitsAgain, RefundRows

(* A step that rewrites one row of the ledger.                             *)
LEMMA RefundSet ==
    ASSUME RefundsOK, NoneWaitsAgain, moved \subseteq moved',
           NEW r \in RefundIds, NEW row \in RefundRows,
           refunds' = [refunds EXCEPT ![r] = row],
           row.status = "pending" => row.order \in OrderIds /\ Started(order[row.order]),
           row.request = "accepted" => r \in moved',
           row.status = "succeeded" => r \in moved'
    PROVE  RefundsOK'
<1>1. refunds' \in [RefundIds -> RefundRows]
  BY DEF RefundsOK
<1>2. SUFFICES ASSUME NEW q \in RefundIds
               PROVE  /\ refunds'[q].status = "pending" =>
                            refunds'[q].order \in OrderIds /\ Started(order'[refunds'[q].order])
                      /\ refunds'[q].request = "accepted" => q \in moved'
                      /\ refunds'[q].status = "succeeded" => q \in moved'
  BY <1>1 DEF RefundsOK, Started
<1>3. CASE q = r
  <2>1. refunds'[q] = row
    BY <1>3 DEF RefundsOK
  <2> QED
    BY <1>3, <2>1 DEF NoneWaitsAgain
<1>4. CASE q # r
  <2>1. refunds'[q] = refunds[q]
    BY <1>4 DEF RefundsOK
  <2> QED
    BY <2>1 DEF RefundsOK, NoneWaitsAgain
<1> QED
  BY <1>3, <1>4

LEMMA RefundTypes ==
    ASSUME RefundsOK, NEW r \in RefundIds
    PROVE  /\ refunds[r] \in RefundRows
           /\ refunds[r].amount \in Nat
           /\ refunds[r].status = "pending" =>
                refunds[r].order \in OrderIds /\ Started(order[refunds[r].order])
           /\ refunds[r].request = "accepted" => r \in moved
           /\ refunds[r].status = "succeeded" => r \in moved
<1>1. refunds[r] \in RefundRows
  BY DEF RefundsOK
<1>2. refunds[r].amount \in Nat
  BY <1>1, AmountsNat DEF RefundRows
<1> QED
  BY <1>1, <1>2 DEF RefundsOK

(* The request of a row comes to a new state; its status stays.            *)
LEMMA RequestKeeps ==
    ASSUME RefundsOK, NoneWaitsAgain, moved \subseteq moved', NEW r \in RefundIds,
           NEW request \in {"accepted", "declined", "over"},
           request = "accepted" => r \in moved',
           refunds' = [refunds EXCEPT ![r].request = request]
    PROVE  RefundsOK'
<1> DEFINE row == [refunds[r] EXCEPT !.request = request]
<1>1. refunds[r] \in RefundRows
  BY RefundTypes
<1>2. /\ row \in RefundRows /\ row.request = request
      /\ row.status = refunds[r].status /\ row.order = refunds[r].order
  BY <1>1 DEF RefundRows
<1>3. refunds' = [refunds EXCEPT ![r] = row]
  OBVIOUS
<1> HIDE DEF row
<1> QED
  BY <1>2, <1>3, RefundTypes, RefundSet

(* The amount is released: the row failed.                                 *)
LEMMA FailedKeeps ==
    ASSUME RefundsOK, NoneWaitsAgain, moved' = moved, NEW r \in RefundIds, NEW row,
           row \in {[refunds[r] EXCEPT !.status = "failed"],
                    [refunds[r] EXCEPT !.status = "failed", !.request = "over"]},
           refunds' = [refunds EXCEPT ![r] = row]
    PROVE  RefundsOK'
<1>1. refunds[r] \in RefundRows
  BY RefundTypes
<1>2. /\ row \in RefundRows /\ row.status = "failed"
      /\ row.request \in {refunds[r].request, "over"}
  BY <1>1 DEF RefundRows
<1> QED
  BY <1>2, RefundTypes, RefundSet

LEMMA ReserveRefundKeeps ==
    ASSUME OrdersOK, RefundsOK, NEW r \in RefundIds, NEW o \in OrderIds, NEW a \in Amounts,
           ReserveRefund(r, o, a)
    PROVE  RefundsOK' /\ OrdersMoveOn
<1> DEFINE row == [status |-> "pending", order |-> o, amount |-> a, request |-> "asking"]
<1>1. UNCHANGED order /\ moved' = moved
  BY DEF ReserveRefund, orderVars
<1>2. OrdersMoveOn
  BY <1>1, UnchangedKeeps
<1>3. row \in RefundRows /\ row.status = "pending" /\ row.order = o /\ row.request = "asking"
  BY DEF RefundRows
<1>4. refunds' = [refunds EXCEPT ![r] = row]
  BY DEF ReserveRefund
<1>5. Started(order[o])
  BY RowTypes DEF ReserveRefund, RowOK
<1> HIDE DEF row
<1> QED
  BY <1>1, <1>2, <1>3, <1>4, <1>5, RefundSet DEF OrdersMoveOn

(* settleRefund of money the gateway has sent.                             *)
LEMMA RecordRefundKeeps ==
    ASSUME OrdersOK, RefundsOK, NEW r \in RefundIds, r \in moved, moved' = moved,
           NEW request \in {"accepted", "declined", "over"}, RecordRefund(r, request)
    PROVE  RefundsOK' /\ OrdersMoveOn
<1> DEFINE o == refunds[r].order
           back == order[o].refunded + refunds[r].amount
           payment == IF back >= order[o].total THEN "refunded" ELSE order[o].payment
           new == [order[o] EXCEPT !.refunded = back, !.payment = payment]
           row == [refunds[r] EXCEPT !.status = "succeeded", !.request = request]
<1>1. o \in OrderIds /\ Started(order[o])
  BY RefundTypes DEF RecordRefund, Unsettled
<1>2. /\ order[o] \in OrderRows /\ RowOK(order[o])
      /\ order[o].refunded \in Nat /\ order[o].total \in Amounts
  BY <1>1, RowTypes, AmountsNat
<1>3. back \in Nat /\ back <= order[o].total
  BY <1>2, RefundTypes DEF RecordRefund
<1>4. back \in Amounts
  BY <1>2, <1>3, OrdersAssumption DEF Amounts
<1>5. payment \in Payments
  BY <1>2 DEF OrderRows, Payments
<1>6. Set(o, new)
  BY DEF RecordRefund
<1>7. RowOK(new) /\ Started(new)
  <2> HIDE DEF back, payment, o
  <2>1. new \in OrderRows
    BY <1>2, <1>4, <1>5 DEF OrderRows
  <2>2. /\ new.status = order[o].status /\ new.refunded = back
        /\ new.total = order[o].total /\ new.bought = order[o].bought
    BY <1>2 DEF OrderRows
  <2> HIDE DEF new
  <2> QED
    BY <1>1, <1>2, <1>3, <2>1, <2>2 DEF RowOK, Started
<1>8. OrdersMoveOn
  <2> HIDE DEF new, o
  <2> QED
    BY <1>1, <1>6, <1>7, SetKeeps
<1>9. refunds' = [refunds EXCEPT ![r] = row]
  BY DEF RecordRefund, RefundsOK
<1>10. row \in RefundRows /\ row.status = "succeeded"
  BY RefundTypes DEF RefundRows
<1>11. RefundsOK'
  <2> HIDE DEF row
  <2> QED
    BY <1>8, <1>9, <1>10, RefundSet DEF OrdersMoveOn
<1> QED
  BY <1>8, <1>11

(* Every step of a refund.                                                 *)
LEMMA RefundingKeeps ==
    ASSUME OrdersOK, RefundsOK, RestOK, Refunding
    PROVE  RefundsOK' /\ OrdersMoveOn /\ RestOK'
<1>1. ASSUME NEW r \in RefundIds, NEW o \in OrderIds, NEW a \in Amounts, ReserveRefund(r, o, a)
      PROVE  RefundsOK' /\ OrdersMoveOn /\ RestOK'
  <2>1. RestOK'
    BY <1>1 DEF ReserveRefund, RestOK, sweepVars
  <2> QED
    BY <1>1, <2>1, ReserveRefundKeeps
<1>2. ASSUME NEW r \in RefundIds, GatewayAnswers(r)
      PROVE  RefundsOK' /\ OrdersMoveOn /\ RestOK'
  <2>1. UNCHANGED order /\ moved \subseteq moved'
    BY <1>2 DEF GatewayAnswers, orderVars
  <2>2. PICK answer \in {"accepted", "declined"} :
            /\ refunds' = [refunds EXCEPT ![r].request = answer]
            /\ moved' \in {moved \union {r}} \union (IF answer = "declined" THEN {moved} ELSE {})
    BY <1>2 DEF GatewayAnswers
  <2>3. OrdersMoveOn
    BY <2>1, UnchangedKeeps
  <2>4. RefundsOK'
    BY <2>1, <2>2, <2>3, RequestKeeps DEF OrdersMoveOn
  <2>5. RestOK'
    BY <1>2, <2>2 DEF GatewayAnswers, RestOK, sweepVars
  <2> QED
    BY <2>3, <2>4, <2>5
<1>3. ASSUME NEW r \in RefundIds, SettleRefund(r)
      PROVE  RefundsOK' /\ OrdersMoveOn /\ RestOK'
  <2>1. RestOK'
    BY <1>3 DEF SettleRefund, RestOK, sweepVars
  <2>2. r \in moved /\ moved' = moved
    BY <1>3, RefundTypes DEF SettleRefund
  <2>3. CASE RecordRefund(r, "over")
    BY <2>1, <2>2, <2>3, RecordRefundKeeps
  <2>4. CASE refunds' = [refunds EXCEPT ![r].request = "over"] /\ UNCHANGED orderVars
    <3>1. OrdersMoveOn
      BY <2>4, UnchangedKeeps DEF orderVars
    <3>2. RefundsOK'
      BY <2>2, <2>4, <3>1, RequestKeeps DEF OrdersMoveOn
    <3> QED
      BY <2>1, <3>1, <3>2
  <2> QED
    BY <1>3, <2>3, <2>4 DEF SettleRefund
<1>4. ASSUME NEW r \in RefundIds, FailRefund(r)
      PROVE  RefundsOK' /\ OrdersMoveOn /\ RestOK'
  <2>1. RestOK'
    BY <1>4 DEF FailRefund, RestOK, sweepVars
  <2>2. OrdersMoveOn
    BY <1>4, UnchangedKeeps DEF FailRefund, orderVars
  <2>3. moved' = moved /\ refunds[r] \in RefundRows
    BY <1>4, RefundTypes DEF FailRefund
  <2>4. CASE Unsettled(r)
    <3> DEFINE row == [refunds[r] EXCEPT !.status = "failed", !.request = "over"]
    <3>1. refunds' = [refunds EXCEPT ![r] = row]
      BY <1>4, <2>3, <2>4 DEF FailRefund, RefundsOK
    <3>2. RefundsOK'
      BY <2>2, <2>3, <3>1, FailedKeeps DEF OrdersMoveOn
    <3> QED
      BY <2>1, <2>2, <3>2
  <2>5. CASE ~Unsettled(r)
    <3>1. [refunds[r] EXCEPT !.status = refunds[r].status] = refunds[r]
      BY <2>3 DEF RefundRows
    <3>2. refunds' = [refunds EXCEPT ![r].request = "over"]
      BY <1>4, <2>5, <3>1 DEF FailRefund, RefundsOK
    <3>3. RefundsOK'
      BY <2>2, <2>3, <3>2, RequestKeeps DEF OrdersMoveOn
    <3> QED
      BY <2>1, <2>2, <3>3
  <2> QED
    BY <2>4, <2>5
<1>5. ASSUME NEW r \in RefundIds, LoseRequest(r)
      PROVE  RefundsOK' /\ OrdersMoveOn /\ RestOK'
  <2>1. OrdersMoveOn /\ moved \subseteq moved' /\ moved' \subseteq moved \union {r}
    BY <1>5, UnchangedKeeps DEF LoseRequest, orderVars
  <2>2. RefundsOK'
    BY <1>5, <2>1, RequestKeeps DEF LoseRequest, OrdersMoveOn
  <2>3. RestOK'
    BY <1>5, <2>1, PaymentsAssumption DEF LoseRequest, RestOK, sweepVars
  <2> QED
    BY <2>1, <2>2, <2>3
<1>6. ASSUME NEW r \in RefundIds, RefundRefused(r)
      PROVE  RefundsOK' /\ OrdersMoveOn /\ RestOK'
  <2>1. OrdersMoveOn
    BY <1>6, UnchangedKeeps DEF RefundRefused, orderVars
  <2>2. RefundsOK'
    BY <1>6, <2>1, RequestKeeps DEF RefundRefused, OrdersMoveOn
  <2>3. RestOK'
    BY <1>6 DEF RefundRefused, RestOK, sweepVars
  <2> QED
    BY <2>1, <2>2, <2>3
<1>7. ASSUME NEW r \in RefundIds, SettleByHand(r)
      PROVE  RefundsOK' /\ OrdersMoveOn /\ RestOK'
  <2>1. RestOK'
    BY <1>7 DEF SettleByHand, RestOK, sweepVars
  <2>2. moved' = moved /\ refunds[r].request \in {"accepted", "declined", "over"}
    BY <1>7 DEF SettleByHand
  <2>3. CASE r \in moved
    BY <1>7, <2>1, <2>2, <2>3, RecordRefundKeeps DEF SettleByHand
  <2>4. CASE r \notin moved
    <3> DEFINE row == [refunds[r] EXCEPT !.status = "failed"]
    <3>1. refunds' = [refunds EXCEPT ![r] = row] /\ UNCHANGED order
      BY <1>7, <2>4 DEF SettleByHand, orderVars
    <3>2. OrdersMoveOn
      BY <3>1, UnchangedKeeps
    <3>3. RefundsOK'
      BY <2>2, <3>1, <3>2, FailedKeeps DEF OrdersMoveOn
    <3> QED
      BY <2>1, <3>2, <3>3
  <2> QED
    BY <2>3, <2>4
<1> QED
  BY <1>1, <1>2, <1>3, <1>4, <1>5, <1>6, <1>7 DEF Refunding

-----------------------------------------------------------------------------
(* The sweeper, and the whole.                                             *)

LEMMA SweepKeeps ==
    ASSUME Inv, Sweep
    PROVE  /\ StockOK' /\ OrdersMoveOn /\ HistoryOK' /\ RestOK'
           /\ UNCHANGED <<refunds, moved>>
<1> USE StockUnchanged, HistoryUnchanged, UnchangedKeeps DEF Inv
<1>1. CASE SweepList
  BY <1>1 DEF SweepList, RestOK, inventoryVars, orderVars, refundVars
<1>2. ASSUME NEW o \in OrderIds, SweepAsk(o)
      PROVE  /\ StockOK' /\ OrdersMoveOn /\ HistoryOK' /\ RestOK'
             /\ UNCHANGED <<refunds, moved>>
  <2>1. UNCHANGED <<refunds, moved>>
    BY <1>2 DEF SweepAsk, refundVars
  <2>2. RestOK'
    BY <1>2 DEF SweepAsk, WaitForGateway, FoundPaid, NotFoundPaid, Hold, Doom, RestOK, refundVars
  <2>3. CASE UNCHANGED <<inventoryVars, orderVars>>
    BY <2>1, <2>2, <2>3 DEF inventoryVars, orderVars
  <2>4. CASE RecordPayment(o)
    BY <2>1, <2>2, <2>4, RecordPaymentKeeps
  <2> QED
    BY <1>2, <2>3, <2>4 DEF SweepAsk, WaitForGateway, FoundPaid, NotFoundPaid
<1>3. ASSUME NEW o \in OrderIds, SweepCancel(o)
      PROVE  /\ StockOK' /\ OrdersMoveOn /\ HistoryOK' /\ RestOK'
             /\ UNCHANGED <<refunds, moved>>
  <2>1. UNCHANGED <<refunds, moved>> /\ RestOK'
    BY <1>3 DEF SweepCancel, RestOK, refundVars
  <2>2. CASE Cancel(o)
    BY <2>1, <2>2, CancelKeeps
  <2>3. CASE UNCHANGED <<inventoryVars, orderVars>>
    BY <2>1, <2>3 DEF inventoryVars, orderVars
  <2> QED
    BY <1>3, <2>2, <2>3 DEF SweepCancel
<1> QED
  BY <1>1, <1>2, <1>3 DEF Sweep

LEMMA InvInit == Init => Inv
<1> SUFFICES ASSUME Init PROVE Inv
  OBVIOUS
<1> USE QtyAssumption, OrdersAssumption, PaymentsAssumption, AmountsNat, EmptyBasket
<1>1. StockOK
  BY DEF Init, InventoryInit, StockOK, NeverOversold
<1>2. OrdersOK
  <2> DEFINE row == [status |-> "absent", payment |-> "pending", lines |-> Empty,
                     shipped |-> Empty, subtotal |-> 0, total |-> 0, refunded |-> 0,
                     gift |-> 0, deadline |-> "none", bought |-> "none"]
  <2>1. row \in OrderRows
    BY DEF OrderRows, Statuses, Payments, Deadlines
  <2>2. RowOK(row)
    BY <2>1 DEF RowOK, Started
  <2>3. order = [o \in OrderIds |-> row]
    BY DEF Init, OrdersInit
  <2> HIDE DEF row
  <2> QED
    BY <2>2, <2>3 DEF OrdersOK, RowOK
<1>3. HistoryOK
  BY DEF Init, InventoryInit, OrdersInit, HistoryOK, ReturnRows
<1>4. RefundsOK
  BY DEF Init, RefundsOK, RefundRows
<1>5. RestOK
  BY DEF Init, RestOK
<1> QED
  BY <1>1, <1>2, <1>3, <1>4, <1>5 DEF Inv

LEMMA InvNext == Inv /\ [Next]_vars => Inv'
<1> SUFFICES ASSUME Inv, [Next]_vars PROVE Inv'
  OBVIOUS
<1> USE StockUnchanged, HistoryUnchanged, UnchangedKeeps, RefundsUnchanged DEF Inv, OrdersMoveOn
<1>1. CASE OrdersNext /\ UNCHANGED <<refundVars, captured, sweepVars>>
  <2>1. StockOK' /\ OrdersMoveOn /\ HistoryOK'
    BY <1>1, OrdersNextKeeps
  <2>2. UNCHANGED <<refunds, moved, lost, captured, listed, doomed>>
    BY <1>1 DEF refundVars, sweepVars
  <2>3. RestOK'
    BY <2>2 DEF RestOK
  <2> QED
    BY <2>1, <2>2, <2>3
<1>2. ASSUME NEW o \in OrderIds, MarkPaid(o) \/ CheckPayment(o)
      PROVE  Inv'
  <2>1. RecordPayment(o) /\ UNCHANGED <<refunds, moved, lost, captured, listed, doomed>>
    BY <1>2 DEF MarkPaid, CheckPayment, refundVars, sweepVars
  <2>2. StockOK' /\ OrdersMoveOn /\ HistoryOK'
    BY <2>1, RecordPaymentKeeps
  <2>3. RestOK'
    BY <2>1 DEF RestOK
  <2> QED
    BY <2>1, <2>2, <2>3
<1>3. ASSUME NEW o \in OrderIds, MarkUnpaid(o) \/ MarkFailed(o)
      PROVE  Inv'
  <2>1. UNCHANGED <<stock, received, returns, card, refunds, moved, lost, captured, listed, doomed>>
    BY <1>3 DEF MarkUnpaid, MarkFailed, inventoryVars, refundVars, sweepVars
  <2>2. OrdersMoveOn
    BY <1>3, MarkUnpaidKeeps
  <2>3. RestOK'
    BY <2>1 DEF RestOK
  <2> QED
    BY <2>1, <2>2, <2>3
<1>4. ASSUME NEW o \in OrderIds, Capture(o)
      PROVE  Inv'
  <2>1. UNCHANGED <<stock, received, order, returns, card, refunds, moved, lost, listed, doomed>>
    BY <1>4 DEF Capture, inventoryVars, orderVars, refundVars, sweepVars
  <2>2. RestOK'
    BY <1>4, <2>1, RowTypes DEF Capture, RestOK
  <2> QED
    BY <2>1, <2>2
<1>5. CASE Refunding
  <2>1. RefundsOK' /\ OrdersMoveOn /\ RestOK'
    BY <1>5, RefundingKeeps
  <2>2. UNCHANGED <<stock, received, returns, card>>
    BY <1>5 DEF Refunding, ReserveRefund, GatewayAnswers, SettleRefund, FailRefund, LoseRequest,
                RefundRefused, SettleByHand, RecordRefund, inventoryVars, orderVars
  <2> QED
    BY <2>1, <2>2
<1>6. CASE Sweep
  BY <1>6, SweepKeeps
<1>7. CASE UNCHANGED vars
  <2>1. UNCHANGED <<stock, received, order, returns, card, refunds, moved, lost, captured,
                    listed, doomed>>
    BY <1>7 DEF vars, inventoryVars, orderVars, refundVars, sweepVars
  <2>2. RestOK'
    BY <2>1 DEF RestOK
  <2> QED
    BY <2>1, <2>2
<1> QED
  BY <1>1, <1>2, <1>3, <1>4, <1>5, <1>6, <1>7 DEF Next

LEMMA InvHolds == Spec => []Inv
  BY InvInit, InvNext, PTL DEF Spec

-----------------------------------------------------------------------------
(* Every table keeps its types: no total, refund, parcel or reservation    *)
(* leaves its range, however orders, refunds and the sweeper interleave.   *)
THEOREM TypeCorrect == Spec => []TypeOK
<1>1. Inv => TypeOK
  BY DEF Inv, StockOK, OrdersOK, HistoryOK, RefundsOK, RestOK, TypeOK
<1> QED
  BY <1>1, InvHolds, PTL

(* No unit of a shelf that may not be sold on backorder is promised twice: *)
(* reserveStock, sellStock, moveOrderStock, Adjust and SetOnHand each keep *)
(* it, and commitStock and releaseStock cannot break it.                   *)
THEOREM NothingIsOversold == Spec => []NeverOversold
<1>1. Inv => NeverOversold
  BY DEF Inv, StockOK
<1> QED
  BY <1>1, InvHolds, PTL

(* A pending order is unpaid and has had nothing refunded: whoever records *)
(* a payment confirms it, and no refund in flight is of a pending order.   *)
THEOREM PaidOrdersAreConfirmed == Spec => []PaidOrdersHoldTheirStock
<1>1. Inv => PaidOrdersHoldTheirStock
  BY DEF Inv, OrdersOK, RowOK, Started, PaidOrdersHoldTheirStock
<1> QED
  BY <1>1, InvHolds, PTL

(* No order gives back more than it cost: an edit finds nothing refunded   *)
(* yet, and a settlement that would pass the total is refused.             *)
THEOREM RefundsFitTheTotal == Spec => []RefundedWithinTotal
<1>1. Inv => RefundedWithinTotal
  BY DEF Inv, OrdersOK, RowOK, RefundedWithinTotal
<1> QED
  BY <1>1, InvHolds, PTL

(* The ledger never records money as sent back that the gateway has kept.  *)
THEOREM LedgerIsTrue == Spec => []RecordedRefundsWentOut
<1>1. Inv => RecordedRefundsWentOut
  BY DEF Inv, RefundsOK, RecordedRefundsWentOut
<1> QED
  BY <1>1, InvHolds, PTL

(* A cancelled order has no spendable card: Cancel switches its cards off, *)
(* and an order once cancelled cannot be paid again.                       *)
THEOREM CancelledCardsAreOff == Spec => []NoCardOutlivesItsOrder
<1>1. Inv => NoCardOutlivesItsOrder
  BY DEF Inv, OrdersOK, RowOK, NoCardOutlivesItsOrder
<1> QED
  BY <1>1, InvHolds, PTL

-----------------------------------------------------------------------------
(* What the orders add up to: units on shelves and money on the card.      *)

(* What the sums rest on in a single row: nothing has left an order that   *)
(* is not on its way, goods have come back of none that never went out or  *)
(* is over, and no card has paid for one that does not exist.              *)
RowUnits(o) ==
    /\ order[o].status \in {"absent", "pending", "confirmed", "cancelled"} =>
          order[o].shipped = Empty
    /\ order[o].status \in {"absent", "pending", "cancelled"} => ~hasActiveReturn(o)
    /\ order[o].status = "absent" => order[o].gift = 0

UnitsOK == \A o \in OrderIds : RowUnits(o)

Shelved == ReservationsAgree /\ StockConserved
Books == UnitsOK /\ Shelved /\ CardMoneyConserved
Typed == StockOK /\ OrdersOK /\ HistoryOK

UnitTypes ==
    \A o \in OrderIds, s \in Shelves :
        /\ order[o].lines[s] \in Nat /\ order[o].shipped[s] \in Nat
        /\ ReservedBy(o, s) \in Nat
        /\ BackOnShelf(o, s) \in Nat
        /\ OutOfStore(o, s) \in Int

GiftTypes == \A o \in OrderIds : order[o].gift \in Nat

LEMMA GiftsAreTyped == Typed => GiftTypes
  BY RowTypes DEF Typed, GiftTypes

LEMMA UnitsAreTyped == Typed => UnitTypes
<1> SUFFICES ASSUME OrdersOK, HistoryOK, NEW o \in OrderIds, NEW s \in Shelves
             PROVE  /\ order[o].lines[s] \in Nat /\ order[o].shipped[s] \in Nat
                    /\ ReservedBy(o, s) \in Nat
                    /\ BackOnShelf(o, s) \in Nat
                    /\ OutOfStore(o, s) \in Int
  BY DEF Typed, UnitTypes
<1>1. order[o].lines[s] \in Nat /\ order[o].shipped[s] \in Nat
  BY RowTypes, BasketNat
<1>2. ReservedBy(o, s) \in Nat
  BY <1>1 DEF ReservedBy
<1>3. BackOnShelf(o, s) \in Nat
  <2> DEFINE f == [i \in ReturnIds |-> returns[o][i].units[s]]
             S == {i \in ReturnIds : returns[o][i].status = "received" /\ returns[o][i].restock}
  <2>1. IsFiniteSet(S)
    BY OrdersAssumption, FS_Subset
  <2>2. \A i \in S : f[i] \in Nat
    BY BasketNat DEF HistoryOK, ReturnRows
  <2> HIDE DEF f, S
  <2>3. Total(f, S) \in Nat
    BY <2>1, <2>2, TotalNat
  <2>4. QED
    BY <2>3 DEF BackOnShelf, f, S
<1>4. QED
  BY <1>1, <1>2, <1>3 DEF OutOfStore

(* A step that moves units of one order keeps the books of a shelf if what *)
(* it does to the shelf is what it does to the order.                      *)
LEMMA Balanced ==
    ASSUME Typed, Typed', Shelved, NEW o \in OrderIds,
           \A p \in OrderIds \ {o} : order'[p] = order[p] /\ returns'[p] = returns[p],
           \A s \in Shelves : Counted(s) =>
              /\ stock'[s].reserved + ReservedBy(o, s) = stock[s].reserved + ReservedBy(o, s)'
              /\ stock'[s].on_hand + OutOfStore(o, s)' + received[s]
                    = stock[s].on_hand + OutOfStore(o, s) + received'[s]
    PROVE  Shelved'
<1>1. SUFFICES ASSUME NEW s \in Shelves, Counted(s)
               PROVE  /\ stock'[s].reserved
                            = Total([p \in OrderIds |-> ReservedBy(p, s)'], OrderIds)
                      /\ stock'[s].on_hand + Total([p \in OrderIds |-> OutOfStore(p, s)'], OrderIds)
                            = received'[s]
  BY DEF Shelved, ReservationsAgree, StockConserved, Counted
<1>2. /\ stock[s].reserved \in Nat /\ stock'[s].reserved \in Nat
      /\ stock[s].on_hand \in Int /\ stock'[s].on_hand \in Int
      /\ received[s] \in Int /\ received'[s] \in Int
  BY QtyAssumption DEF Typed, StockOK, HistoryOK
<1>3. IsFiniteSet(OrderIds)
  BY OrdersAssumption
<1>4. UnitTypes /\ UnitTypes'
  BY UnitsAreTyped, PTL
<1>5. stock'[s].reserved = Total([p \in OrderIds |-> ReservedBy(p, s)'], OrderIds)
  <2> DEFINE f == [p \in OrderIds |-> ReservedBy(p, s)]
             g == [p \in OrderIds |-> ReservedBy(p, s)']
  <2>1. \A p \in OrderIds : f[p] \in Int /\ g[p] \in Int
    BY <1>4 DEF UnitTypes
  <2>2. \A p \in OrderIds \ {o} : f[p] = g[p]
    BY DEF ReservedBy
  <2>3. stock[s].reserved = Total(f, OrderIds)
    BY <1>1 DEF Shelved, ReservationsAgree
  <2>4. f[o] = ReservedBy(o, s) /\ g[o] = ReservedBy(o, s)'
    OBVIOUS
  <2> HIDE DEF f, g
  <2>5. Total(g, OrderIds) = Total(f, OrderIds) - f[o] + g[o]
    BY <1>3, <2>1, <2>2, TotalChanges
  <2>6. stock'[s].reserved = Total(g, OrderIds)
    BY <1>1, <1>2, <2>1, <2>3, <2>4, <2>5
  <2>7. QED
    BY <2>6 DEF g
<1>6. stock'[s].on_hand + Total([p \in OrderIds |-> OutOfStore(p, s)'], OrderIds) = received'[s]
  <2> DEFINE f == [p \in OrderIds |-> OutOfStore(p, s)]
             g == [p \in OrderIds |-> OutOfStore(p, s)']
  <2>1. \A p \in OrderIds : f[p] \in Int /\ g[p] \in Int
    BY <1>4 DEF UnitTypes
  <2>2. \A p \in OrderIds \ {o} : f[p] = g[p]
    BY DEF OutOfStore, BackOnShelf
  <2>3. stock[s].on_hand + Total(f, OrderIds) = received[s]
    BY <1>1 DEF Shelved, StockConserved
  <2>4. f[o] = OutOfStore(o, s) /\ g[o] = OutOfStore(o, s)'
    OBVIOUS
  <2> HIDE DEF f, g
  <2>5. Total(g, OrderIds) = Total(f, OrderIds) - f[o] + g[o] /\ Total(f, OrderIds) \in Int
    BY <1>3, <2>1, <2>2, TotalChanges, TotalInt
  <2>6. stock'[s].on_hand + Total(g, OrderIds) = received'[s]
    BY <1>1, <1>2, <2>1, <2>3, <2>4, <2>5
  <2>7. QED
    BY <2>6 DEF g
<1>7. QED
  BY <1>5, <1>6

(* What a change of one order's row leaves of the others.                  *)
OnlyOrder(o) ==
    /\ \A p \in OrderIds \ {o} : order'[p] = order[p]
    /\ UNCHANGED returns

LEMMA SetOnly ==
    ASSUME OrdersOK, NEW o \in OrderIds, NEW row, Set(o, row), UNCHANGED returns
    PROVE  OnlyOrder(o) /\ order'[o] = row
  BY DEF OrdersOK, Set, OnlyOrder

LEMMA UnitsOfOne ==
    ASSUME UnitsOK, NEW o \in OrderIds,
           \A p \in OrderIds \ {o} : order'[p] = order[p] /\ returns'[p] = returns[p],
           RowUnits(o)'
    PROVE  UnitsOK'
  BY DEF UnitsOK, RowUnits, hasActiveReturn

(* Nothing has come back of an order without returns.                      *)
LEMMA NothingBack ==
    ASSUME NEW o \in OrderIds, NEW s \in Shelves, ~hasActiveReturn(o)
    PROVE  BackOnShelf(o, s) = 0
<1>1. {i \in ReturnIds : returns[o][i].status = "received" /\ returns[o][i].restock} = {}
  BY DEF hasActiveReturn
<1>2. QED
  BY <1>1, TotalOfNone DEF BackOnShelf

(* Verbs that neither move units nor change what an order holds of them.   *)
LEMMA ShelvedSame ==
    ASSUME Shelved, UNCHANGED <<stock, received, returns>>,
           \A p \in OrderIds :
              /\ order'[p].lines = order[p].lines
              /\ order'[p].status = "pending" <=> order[p].status = "pending"
              /\ stockCommitted(order'[p].status) <=> stockCommitted(order[p].status)
              /\ ~stockCommitted(order[p].status) => order'[p].shipped = order[p].shipped
    PROVE  Shelved'
<1>1. SUFFICES ASSUME NEW s \in Shelves, Counted(s)
               PROVE  /\ stock[s].reserved
                            = Total([p \in OrderIds |-> ReservedBy(p, s)'], OrderIds)
                      /\ stock[s].on_hand + Total([p \in OrderIds |-> OutOfStore(p, s)'], OrderIds)
                            = received[s]
  BY DEF Shelved, ReservationsAgree, StockConserved, Counted
<1>2. [p \in OrderIds |-> ReservedBy(p, s)'] = [p \in OrderIds |-> ReservedBy(p, s)]
  BY DEF ReservedBy
<1>3. [p \in OrderIds |-> OutOfStore(p, s)'] = [p \in OrderIds |-> OutOfStore(p, s)]
  BY DEF OutOfStore, BackOnShelf
<1>4. QED
  BY <1>1, <1>2, <1>3 DEF Shelved, ReservationsAgree, StockConserved

LEMMA CardsSame ==
    ASSUME CardMoneyConserved, UNCHANGED card,
           \A p \in OrderIds :
              /\ order'[p].gift = order[p].gift
              /\ order'[p].status = "cancelled" <=> order[p].status = "cancelled"
    PROVE  CardMoneyConserved'
<1>1. [p \in OrderIds |-> order'[p].gift] = [p \in OrderIds |-> order[p].gift]
  OBVIOUS
<1>2. {p \in OrderIds : order'[p].status # "cancelled"} = {p \in OrderIds : order[p].status # "cancelled"}
  OBVIOUS
<1>3. QED
  BY <1>1, <1>2 DEF CardMoneyConserved

LEMMA PlaceBooks ==
    ASSUME Typed, Typed', Books,
           NEW o \in OrderIds, NEW b \in Baskets, NEW n \in 1..MaxSubtotal, NEW c \in BOOLEAN,
           Place(o, b, n, c)
    PROVE  Books'
<1> DEFINE due == n + TaxOnTop
           gift == IF c THEN Smaller(card, due) ELSE 0
<1>1. /\ order[o].status = "absent" /\ order[o] \in OrderRows /\ order[o].shipped = Empty
      /\ order[o].gift = 0 /\ ~hasActiveReturn(o)
  BY RowTypes DEF Place, Typed, Books, UnitsOK, RowUnits
<1>2. /\ OnlyOrder(o)
      /\ order'[o] = [order[o] EXCEPT !.status = "pending", !.lines = b,
                                      !.subtotal = n, !.total = due - gift,
                                      !.gift = gift, !.deadline = "ahead"]
      /\ UNCHANGED <<received, returns>> /\ card' = card - gift
  BY SetOnly DEF Place, Typed
<1> HIDE DEF gift, due
<1>3. /\ order'[o].status = "pending" /\ order'[o].lines = b
      /\ order'[o].shipped = Empty /\ order'[o].gift = gift
  BY <1>1, <1>2 DEF OrderRows
<1>4. UnitsOK'
  <2>1. RowUnits(o)'
    BY <1>1, <1>2, <1>3 DEF RowUnits, hasActiveReturn
  <2>2. QED
    BY <1>2, <2>1, UnitsOfOne DEF Books, OnlyOrder
<1>5. Shelved'
  <2>1. SUFFICES ASSUME NEW s \in Shelves, Counted(s)
                 PROVE  /\ stock'[s].reserved + ReservedBy(o, s) = stock[s].reserved + ReservedBy(o, s)'
                        /\ stock'[s].on_hand + OutOfStore(o, s)' + received[s]
                              = stock[s].on_hand + OutOfStore(o, s) + received'[s]
    BY <1>2, Balanced DEF Books, OnlyOrder
  <2>2. stock'[s].reserved = stock[s].reserved + b[s] /\ stock'[s].on_hand = stock[s].on_hand
    BY <2>1 DEF Place, Reserve, Applied, Counted, Typed, StockOK
  <2>3. ReservedBy(o, s) = 0 /\ ReservedBy(o, s)' = b[s]
    BY <1>1, <1>3 DEF ReservedBy
  <2>4. OutOfStore(o, s)' = OutOfStore(o, s)
    BY <1>1, <1>3 DEF OutOfStore, stockCommitted
  <2>5. QED
    BY <1>2, <2>2, <2>3, <2>4, BasketNat DEF Typed, StockOK
<1>6. CardMoneyConserved'
  <2> DEFINE f == [p \in OrderIds |-> order[p].gift]
             g == [p \in OrderIds |-> order'[p].gift]
             S == {p \in OrderIds : order[p].status # "cancelled"}
  <2>1. {p \in OrderIds : order'[p].status # "cancelled"} = S /\ o \in S
    <3>1. order'[o].status # "cancelled" /\ order[o].status # "cancelled"
      BY <1>1, <1>3
    <3>2. \A p \in OrderIds \ {o} : order'[p] = order[p]
      BY <1>2 DEF OnlyOrder
    <3>3. QED
      BY <3>1, <3>2
  <2>2. IsFiniteSet(S)
    BY OrdersAssumption, FS_Subset
  <2>3. \A p \in S : f[p] \in Int /\ g[p] \in Int
    <3>1. GiftTypes /\ GiftTypes'
      BY GiftsAreTyped, PTL
    <3>2. QED
      BY <3>1 DEF GiftTypes
  <2>4. \A p \in S \ {o} : f[p] = g[p]
    BY <1>2 DEF OnlyOrder
  <2>5. f[o] = 0 /\ g[o] = gift
    BY <1>1, <1>3
  <2>6. card + Total(f, S) = CardBalance
    BY DEF Books, CardMoneyConserved
  <2>7. card \in Int /\ g[o] \in Int
    BY <2>1, <2>3 DEF Typed, HistoryOK
  <2> HIDE DEF f, g, S
  <2>8. Total(g, S) = Total(f, S) - f[o] + g[o] /\ Total(f, S) \in Int
    BY <2>1, <2>2, <2>3, <2>4, TotalChanges, TotalInt
  <2>9. card' + Total(g, S) = CardBalance
    BY <1>2, <2>5, <2>6, <2>7, <2>8
  <2>10. QED
    BY <2>1, <2>9 DEF CardMoneyConserved, g
<1>7. QED
  BY <1>4, <1>5, <1>6 DEF Books

LEMMA CommitBooks ==
    ASSUME Typed, Typed', Books, NEW o \in OrderIds, order[o].status = "pending",
           Commit(order[o].lines), OnlyOrder(o), UNCHANGED <<received, card>>,
           order'[o].status = "confirmed", order'[o].lines = order[o].lines,
           order'[o].shipped = order[o].shipped, order'[o].gift = order[o].gift
    PROVE  Books'
<1>1. order[o].shipped = Empty /\ ~hasActiveReturn(o) /\ order[o].lines \in Baskets
  BY RowTypes DEF Typed, Books, UnitsOK, RowUnits
<1>2. UnitsOK'
  <2>1. RowUnits(o)'
    BY <1>1 DEF RowUnits
  <2>2. QED
    BY <2>1, UnitsOfOne DEF Books, OnlyOrder
<1>3. Shelved'
  <2>1. SUFFICES ASSUME NEW s \in Shelves, Counted(s)
                 PROVE  /\ stock'[s].reserved + ReservedBy(o, s) = stock[s].reserved + ReservedBy(o, s)'
                        /\ stock'[s].on_hand + OutOfStore(o, s)' + received[s]
                              = stock[s].on_hand + OutOfStore(o, s) + received'[s]
    BY Balanced DEF Books, OnlyOrder
  <2>2. /\ stock'[s].reserved = stock[s].reserved - order[o].lines[s]
        /\ stock'[s].on_hand = stock[s].on_hand - order[o].lines[s]
    BY <2>1 DEF Commit, Applied, Counted
  <2>3. ReservedBy(o, s) = order[o].lines[s] /\ ReservedBy(o, s)' = 0
    BY DEF ReservedBy
  <2>4. OutOfStore(o, s) = 0
    BY <1>1 DEF OutOfStore, stockCommitted, Empty
  <2>5. BackOnShelf(o, s)' = 0
    BY <1>1, NothingBack DEF OnlyOrder, BackOnShelf
  <2>6. OutOfStore(o, s)' = order[o].lines[s] - 0
    BY <2>5 DEF OutOfStore, stockCommitted
  <2>7. /\ order[o].lines[s] \in Nat /\ stock[s].reserved \in Nat /\ stock[s].on_hand \in Int
        /\ received[s] \in Int
    BY <1>1, BasketNat, QtyAssumption DEF Typed, StockOK, HistoryOK
  <2>8. QED
    BY <2>2, <2>3, <2>4, <2>6, <2>7
<1>4. CardMoneyConserved'
  BY CardsSame DEF Books, OnlyOrder
<1>5. QED
  BY <1>2, <1>3, <1>4 DEF Books

LEMMA ConfirmBooks ==
    ASSUME Typed, Typed', Books, NEW o \in OrderIds, Confirm(o)
    PROVE  Books'
<1>1. /\ OnlyOrder(o) /\ order'[o] = Confirmed(order[o])
      /\ UNCHANGED <<received, card>> /\ order[o].status = "pending" /\ Commit(order[o].lines)
  BY SetOnly DEF Confirm, Typed
<1>2. order[o] \in OrderRows
  BY RowTypes DEF Typed
<1>3. /\ order'[o].status = "confirmed" /\ order'[o].lines = order[o].lines
      /\ order'[o].shipped = order[o].shipped /\ order'[o].gift = order[o].gift
  BY <1>1, <1>2 DEF Confirmed, OrderRows
<1>4. QED
  BY <1>1, <1>3, CommitBooks

(* A change of one row that moves no unit and no card.                     *)
LEMMA RowBooks ==
    ASSUME Books, NEW o \in OrderIds, OnlyOrder(o), UNCHANGED <<stock, received, card>>,
           order'[o].lines = order[o].lines, order'[o].gift = order[o].gift,
           \/ order'[o].status = order[o].status /\ order'[o].shipped = order[o].shipped
           \/ stockCommitted(order[o].status) /\ stockCommitted(order'[o].status),
           order'[o].status = "confirmed" => order'[o].shipped = Empty
    PROVE  Books'
<1>1. RowUnits(o)
  BY DEF Books, UnitsOK
<1>2. UnitsOK'
  <2>1. RowUnits(o)'
    BY <1>1 DEF RowUnits, hasActiveReturn, OnlyOrder, stockCommitted
  <2>2. QED
    BY <2>1, UnitsOfOne DEF Books, OnlyOrder
<1>3. Shelved'
  BY ShelvedSame DEF Books, OnlyOrder, stockCommitted
<1>4. CardMoneyConserved'
  BY CardsSame DEF Books, OnlyOrder, stockCommitted
<1>5. QED
  BY <1>2, <1>3, <1>4 DEF Books

LEMMA RecordPaymentBooks ==
    ASSUME Typed, Typed', Books, NEW o \in OrderIds, RecordPayment(o)
    PROVE  Books'
<1>1. order[o] \in OrderRows
  BY RowTypes DEF Typed
<1>2. CASE Unconfirmed(o)
  <2>1. /\ OnlyOrder(o)
        /\ order'[o] = Issued(o, Confirmed([order[o] EXCEPT !.payment = "paid"]))
        /\ UNCHANGED <<received, card>> /\ order[o].status = "pending" /\ Commit(order[o].lines)
    BY <1>2, SetOnly DEF RecordPayment, Unconfirmed, Typed
  <2>2. /\ order'[o].status = "confirmed" /\ order'[o].lines = order[o].lines
        /\ order'[o].shipped = order[o].shipped /\ order'[o].gift = order[o].gift
    BY <1>1, <2>1 DEF Issued, Confirmed, OrderRows
  <2>3. QED
    BY <2>1, <2>2, CommitBooks
<1>3. CASE ~Unconfirmed(o)
  <2>1. /\ OnlyOrder(o) /\ order'[o] = Issued(o, [order[o] EXCEPT !.payment = "paid"])
        /\ UNCHANGED <<stock, received, card>>
    BY <1>3, SetOnly DEF RecordPayment, Typed
  <2>2. /\ order'[o].status = order[o].status /\ order'[o].lines = order[o].lines
        /\ order'[o].shipped = order[o].shipped /\ order'[o].gift = order[o].gift
    BY <1>1, <2>1 DEF Issued, OrderRows
  <2>3. RowUnits(o)
    BY DEF Books, UnitsOK
  <2>4. QED
    BY <2>1, <2>2, <2>3, RowBooks DEF RowUnits
<1>4. QED
  BY <1>2, <1>3

(* What a pending order holds, its shelf has.                              *)
LEMMA HeldOnShelf ==
    ASSUME Typed, Shelved, NEW o \in OrderIds, NEW s \in Shelves, Counted(s)
    PROVE  ReservedBy(o, s) <= stock[s].reserved
<1> DEFINE f == [p \in OrderIds |-> ReservedBy(p, s)]
<1>1. \A p \in OrderIds : f[p] \in Nat
  BY UnitsAreTyped DEF UnitTypes
<1>2. stock[s].reserved = Total(f, OrderIds) /\ f[o] = ReservedBy(o, s)
  BY DEF Shelved, ReservationsAgree
<1> HIDE DEF f
<1>3. f[o] <= Total(f, OrderIds)
  BY <1>1, TotalHolds, OrdersAssumption
<1>4. QED
  BY <1>2, <1>3

LEMMA CancelBooks ==
    ASSUME Typed, Typed', Books, NEW o \in OrderIds, Cancel(o)
    PROVE  Books'
<1> DEFINE row == [Restored(order[o]) EXCEPT !.status = "cancelled", !.deadline = "none"]
<1>1. /\ order[o] \in OrderRows /\ order[o].lines \in Baskets
      /\ order[o].status \in {"pending", "confirmed"} /\ order[o].shipped = Empty
      /\ ~hasActiveReturn(o)
  BY RowTypes DEF Typed, Books, UnitsOK, RowUnits, Cancel, Cancellable
<1>2. /\ OnlyOrder(o) /\ order'[o] = row
      /\ UNCHANGED <<received, returns>> /\ card' = card + order[o].gift
      /\ IF stockCommitted(order[o].status) THEN Restock(order[o].lines) ELSE Release(order[o].lines)
  BY SetOnly DEF Cancel, Typed
<1>3. /\ row.status = "cancelled" /\ row.lines = order[o].lines
      /\ row.shipped = Empty /\ row.gift = order[o].gift
  BY <1>1 DEF Restored, OrderRows
<1> HIDE DEF row
<1>4. UnitsOK'
  <2>1. RowUnits(o)'
    BY <1>1, <1>2, <1>3 DEF RowUnits, hasActiveReturn
  <2>2. QED
    BY <1>2, <2>1, UnitsOfOne DEF Books, OnlyOrder
<1>5. Shelved'
  <2>1. SUFFICES ASSUME NEW s \in Shelves, Counted(s)
                 PROVE  /\ stock'[s].reserved + ReservedBy(o, s) = stock[s].reserved + ReservedBy(o, s)'
                        /\ stock'[s].on_hand + OutOfStore(o, s)' + received[s]
                              = stock[s].on_hand + OutOfStore(o, s) + received'[s]
    BY <1>2, Balanced DEF Books, OnlyOrder
  <2>2. /\ order[o].lines[s] \in Nat /\ stock[s].reserved \in Nat /\ stock[s].on_hand \in Int
        /\ received[s] \in Int
    BY <1>1, BasketNat, QtyAssumption DEF Typed, StockOK, HistoryOK
  <2>3. ReservedBy(o, s)' = 0 /\ OutOfStore(o, s)' = 0
    BY <1>2, <1>3 DEF ReservedBy, OutOfStore, stockCommitted, Empty
  <2>4. CASE order[o].status = "pending"
    <3>1. ReservedBy(o, s) = order[o].lines[s] /\ OutOfStore(o, s) = 0
      BY <1>1, <2>4 DEF ReservedBy, OutOfStore, stockCommitted, Empty
    <3>2. /\ stock'[s].reserved = Less(stock[s].reserved, order[o].lines[s])
          /\ stock'[s].on_hand = stock[s].on_hand
      BY <1>2, <2>1, <2>4 DEF Release, Applied, Counted, stockCommitted, Typed, StockOK
    <3>3. order[o].lines[s] <= stock[s].reserved
      BY <2>1, <3>1, HeldOnShelf DEF Books
    <3>4. QED
      BY <1>2, <2>2, <2>3, <3>1, <3>2, <3>3 DEF Less
  <2>5. CASE order[o].status = "confirmed"
    <3>1. BackOnShelf(o, s) = 0
      BY <1>1, NothingBack
    <3>2. ReservedBy(o, s) = 0 /\ OutOfStore(o, s) = order[o].lines[s] - 0
      BY <2>5, <3>1 DEF ReservedBy, OutOfStore, stockCommitted
    <3>3. /\ stock'[s].reserved = stock[s].reserved
          /\ stock'[s].on_hand = stock[s].on_hand + order[o].lines[s]
      BY <1>2, <2>1, <2>5 DEF Restock, Applied, Counted, stockCommitted, Typed, StockOK
    <3>4. QED
      BY <1>2, <2>2, <2>3, <3>2, <3>3
  <2>6. QED
    BY <1>1, <2>4, <2>5
<1>6. CardMoneyConserved'
  <2> DEFINE f == [p \in OrderIds |-> order[p].gift]
             S == {p \in OrderIds : order[p].status # "cancelled"}
  <2>1. {p \in OrderIds : order'[p].status # "cancelled"} = S \ {o} /\ o \in S
    <3>1. order'[o].status = "cancelled" /\ order[o].status # "cancelled"
      BY <1>1, <1>2, <1>3
    <3>2. \A p \in OrderIds \ {o} : order'[p] = order[p]
      BY <1>2 DEF OnlyOrder
    <3>3. QED
      BY <3>1, <3>2
  <2>2. [p \in OrderIds |-> order'[p].gift] = f
    BY <1>2, <1>3 DEF OnlyOrder
  <2>3. IsFiniteSet(S) /\ IsFiniteSet(S \ {o})
    BY OrdersAssumption, FS_Subset
  <2>4. \A p \in S : f[p] \in Int
    BY GiftsAreTyped DEF GiftTypes
  <2>5. f[o] = order[o].gift /\ card + Total(f, S) = CardBalance
    BY DEF Books, CardMoneyConserved
  <2>6. card \in Int /\ f[o] \in Int
    BY <2>1, <2>4 DEF Typed, HistoryOK
  <2>7. CardMoneyConserved' <=> card' + Total(f, S \ {o}) = CardBalance
    BY <2>1, <2>2 DEF CardMoneyConserved
  <2> HIDE DEF f, S
  <2>8. Total(f, S) = f[o] + Total(f, S \ {o}) /\ Total(f, S \ {o}) \in Int
    BY <2>1, <2>3, <2>4, TotalTakes, TotalInt
  <2>9. QED
    BY <1>2, <2>5, <2>6, <2>7, <2>8
<1>7. QED
  BY <1>4, <1>5, <1>6 DEF Books

LEMMA EditLinesBooks ==
    ASSUME Typed, Typed', Books,
           NEW o \in OrderIds, NEW b \in Baskets, NEW n \in 1..MaxSubtotal, EditLines(o, b, n)
    PROVE  Books'
<1> DEFINE more == [s \in Shelves |-> Less(b[s], order[o].lines[s])]
           fewer == [s \in Shelves |-> Less(order[o].lines[s], b[s])]
<1>1. /\ order[o] \in OrderRows /\ order[o].lines \in Baskets
      /\ order[o].status \in {"pending", "confirmed"} /\ order[o].shipped = Empty
      /\ ~hasActiveReturn(o)
  BY RowTypes DEF Typed, Books, UnitsOK, RowUnits, EditLines
<1>2. /\ OnlyOrder(o) /\ order'[o] = [order[o] EXCEPT !.lines = b, !.subtotal = n, !.total = n]
      /\ UNCHANGED <<received, returns, card>>
      /\ IF stockCommitted(order[o].status) THEN MoveCommitted(more, fewer)
                                            ELSE MoveReserved(more, fewer)
  BY SetOnly DEF EditLines, Typed
<1>3. /\ order'[o].status = order[o].status /\ order'[o].lines = b
      /\ order'[o].shipped = Empty /\ order'[o].gift = order[o].gift
  BY <1>1, <1>2 DEF OrderRows
<1>4. UnitsOK'
  <2>1. RowUnits(o)
    BY DEF Books, UnitsOK
  <2>2. RowUnits(o)'
    BY <1>1, <1>2, <1>3, <2>1 DEF RowUnits, hasActiveReturn
  <2>3. QED
    BY <1>2, <2>2, UnitsOfOne DEF Books, OnlyOrder
<1>5. Shelved'
  <2>1. SUFFICES ASSUME NEW s \in Shelves, Counted(s)
                 PROVE  /\ stock'[s].reserved + ReservedBy(o, s) = stock[s].reserved + ReservedBy(o, s)'
                        /\ stock'[s].on_hand + OutOfStore(o, s)' + received[s]
                              = stock[s].on_hand + OutOfStore(o, s) + received'[s]
    BY <1>2, Balanced DEF Books, OnlyOrder
  <2>2. /\ order[o].lines[s] \in Nat /\ b[s] \in Nat
        /\ stock[s].reserved \in Nat /\ stock[s].on_hand \in Int /\ received[s] \in Int
    BY <1>1, BasketNat, QtyAssumption DEF Typed, StockOK, HistoryOK
  <2>3. /\ more[s] \in Nat /\ fewer[s] \in Nat /\ fewer[s] <= order[o].lines[s]
        /\ more[s] - fewer[s] = b[s] - order[o].lines[s]
    BY <2>2 DEF Less
  <2>4. CASE order[o].status = "pending"
    <3>1. /\ ReservedBy(o, s) = order[o].lines[s] /\ ReservedBy(o, s)' = b[s]
          /\ OutOfStore(o, s) = 0 /\ OutOfStore(o, s)' = 0
      BY <1>1, <1>3, <2>4 DEF ReservedBy, OutOfStore, stockCommitted, Empty
    <3>2. /\ stock'[s].reserved = Less(stock[s].reserved + more[s], fewer[s])
          /\ stock'[s].on_hand = stock[s].on_hand
      BY <1>2, <2>1, <2>4 DEF MoveReserved, Applied, Counted, stockCommitted, Typed, StockOK
    <3>3. order[o].lines[s] <= stock[s].reserved
      BY <2>1, <3>1, HeldOnShelf DEF Books
    <3> HIDE DEF more, fewer
    <3>4. stock'[s].reserved = stock[s].reserved + more[s] - fewer[s]
      BY <2>2, <2>3, <3>2, <3>3 DEF Less
    <3>5. QED
      BY <1>2, <2>2, <2>3, <3>1, <3>2, <3>4
  <2>5. CASE order[o].status = "confirmed"
    <3>1. BackOnShelf(o, s) = 0
      BY <1>1, NothingBack
    <3>2. BackOnShelf(o, s)' = 0
      BY <1>2, <3>1 DEF BackOnShelf
    <3>3. /\ ReservedBy(o, s) = 0 /\ ReservedBy(o, s)' = 0
          /\ OutOfStore(o, s) = order[o].lines[s] - 0 /\ OutOfStore(o, s)' = b[s] - 0
      BY <1>3, <2>5, <3>1, <3>2 DEF ReservedBy, OutOfStore, stockCommitted
    <3>4. /\ stock'[s].reserved = stock[s].reserved
          /\ stock'[s].on_hand = stock[s].on_hand - more[s] + fewer[s]
      BY <1>2, <2>1, <2>5 DEF MoveCommitted, Applied, Counted, stockCommitted, Typed, StockOK
    <3> HIDE DEF more, fewer
    <3>5. QED
      BY <1>2, <2>2, <2>3, <3>3, <3>4
  <2>6. QED
    BY <1>1, <2>4, <2>5
<1>6. CardMoneyConserved'
  BY <1>2, <1>3, CardsSame DEF Books, OnlyOrder
<1>7. QED
  BY <1>4, <1>5, <1>6 DEF Books

LEMMA ShipBooks ==
    ASSUME Typed, Books, NEW o \in OrderIds, NEW shipped \in Baskets,
           order[o].status \in {"confirmed", "partial", "shipped"}, Parcels(o, shipped),
           UNCHANGED <<inventoryVars, returns, card>>
    PROVE  Books'
<1> DEFINE status == ShippingState(order[o].lines, shipped)
<1>1. order[o] \in OrderRows
  BY RowTypes DEF Typed
<1>2. /\ OnlyOrder(o) /\ UNCHANGED <<stock, received, card>>
      /\ order'[o] = [order[o] EXCEPT !.shipped = shipped, !.status = status]
  BY SetOnly DEF Parcels, Typed, inventoryVars
<1>3. status \in {"confirmed", "partial", "shipped"} /\ (status = "confirmed" => shipped = Empty)
  BY DEF ShippingState
<1> HIDE DEF status
<1>4. /\ order'[o].status = status /\ order'[o].lines = order[o].lines
      /\ order'[o].shipped = shipped /\ order'[o].gift = order[o].gift
  BY <1>1, <1>2 DEF OrderRows
<1>5. QED
  BY <1>2, <1>3, <1>4, RowBooks DEF stockCommitted

LEMMA ParcelBooks ==
    ASSUME Typed, Books, NEW o \in OrderIds, NEW b \in Baskets, Ship(o, b) \/ Unship(o, b)
    PROVE  Books'
<1>1. CASE Ship(o, b)
  <2> DEFINE shipped == [s \in Shelves |-> order[o].shipped[s] + b[s]]
  <2>1. shipped \in Baskets
    BY <1>1, RowTypes, QtyAssumption DEF Ship, checkShipLines, Baskets, Typed
  <2>2. QED
    BY <1>1, <2>1, ShipBooks DEF Ship
<1>2. CASE Unship(o, b)
  <2> DEFINE shipped == [s \in Shelves |-> order[o].shipped[s] - b[s]]
  <2>1. shipped \in Baskets
    BY <1>2, RowTypes, QtyAssumption DEF Unship, Baskets, Typed
  <2>2. QED
    BY <1>2, <2>1, ShipBooks DEF Unship
<1>3. QED
  BY <1>1, <1>2

(* Verbs that write neither lines, parcels nor cards.                      *)
LEMMA QuietBooks ==
    ASSUME Typed, Books, NEW o \in OrderIds,
           Deliver(o) \/ MarkUndelivered(o) \/ Expire(o) \/ MarkUnpaid(o) \/ MarkFailed(o)
    PROVE  Books'
<1>1. order[o] \in OrderRows /\ RowUnits(o)
  BY RowTypes DEF Typed, Books, UnitsOK
<1>2. UNCHANGED <<stock, received, returns, card>>
  BY DEF Deliver, MarkUndelivered, Expire, MarkUnpaid, MarkFailed, inventoryVars
<1>3. /\ OnlyOrder(o)
      /\ order'[o].lines = order[o].lines /\ order'[o].shipped = order[o].shipped
      /\ order'[o].gift = order[o].gift
      /\ \/ order'[o].status = order[o].status
         \/ order[o].status \in {"shipped", "delivered"} /\ order'[o].status \in {"shipped", "delivered"}
  <2>1. CASE Deliver(o)
    BY <1>1, <1>2, <2>1, SetOnly DEF Deliver, Typed, OrderRows
  <2>2. CASE MarkUndelivered(o)
    BY <1>1, <1>2, <2>2, SetOnly DEF MarkUndelivered, Typed, OrderRows
  <2>3. CASE Expire(o)
    BY <1>1, <1>2, <2>3, SetOnly DEF Expire, Typed, OrderRows
  <2>4. CASE MarkUnpaid(o)
    BY <1>1, <1>2, <2>4, SetOnly DEF MarkUnpaid, Typed, OrderRows
  <2>5. CASE MarkFailed(o)
    BY <1>1, <1>2, <2>5, SetOnly DEF MarkFailed, Typed, OrderRows
  <2>6. QED
    BY <2>1, <2>2, <2>3, <2>4, <2>5
<1>4. QED
  BY <1>1, <1>2, <1>3, RowBooks DEF RowUnits, stockCommitted

(* A return that comes in, or is withdrawn, moves its units and no others. *)
LEMMA ReturnBooks ==
    ASSUME Typed, Typed', Books, NEW o \in OrderIds, NEW i \in ReturnIds,
           NEW b \in Baskets, NEW r \in BOOLEAN, Return(o, i, b, r)
    PROVE  Books'
<1>1. /\ order[o].status \in {"partial", "shipped", "delivered"}
      /\ returns[o][i].status = "none"
      /\ UNCHANGED <<received, order, card>>
      /\ IF r THEN Restock(b) ELSE UNCHANGED stock
  BY DEF Return
<1>2. /\ \A p \in OrderIds \ {o} : returns'[p] = returns[p]
      /\ \A j \in ReturnIds \ {i} : returns'[o][j] = returns[o][j]
      /\ returns'[o][i] = [status |-> "received", units |-> b, restock |-> r]
  BY DEF Return, Typed, HistoryOK
<1>3. UnitsOK'
  <2>1. RowUnits(o)'
    BY <1>1 DEF RowUnits
  <2>2. QED
    BY <1>1, <1>2, <2>1, UnitsOfOne DEF Books
<1>4. ASSUME NEW s \in Shelves
      PROVE  BackOnShelf(o, s)' = BackOnShelf(o, s) + (IF r THEN b[s] ELSE 0)
  <2> DEFINE f == [j \in ReturnIds |-> returns[o][j].units[s]]
             g == [j \in ReturnIds |-> returns'[o][j].units[s]]
             S == {j \in ReturnIds : returns[o][j].status = "received" /\ returns[o][j].restock}
             T == {j \in ReturnIds : returns'[o][j].status = "received" /\ returns'[o][j].restock}
  <2>1. i \notin S /\ T = IF r THEN S \union {i} ELSE S
    BY <1>1, <1>2
  <2>2. IsFiniteSet(S)
    BY OrdersAssumption, FS_Subset
  <2>3. \A j \in S \union {i} : g[j] \in Int
    BY <1>2, BasketNat DEF Typed, HistoryOK, ReturnRows
  <2>4. \A j \in S : f[j] = g[j]
    BY <1>2, <2>1
  <2>5. g[i] = b[s]
    BY <1>2
  <2>6. BackOnShelf(o, s) = Total(f, S) /\ BackOnShelf(o, s)' = Total(g, T)
    BY DEF BackOnShelf
  <2>7. Total(f, S) \in Int
    BY UnitsAreTyped, <2>6 DEF UnitTypes
  <2> HIDE DEF f, g, S, T
  <2>8. Total(g, S) = Total(f, S)
    BY <2>2, <2>4, TotalSame
  <2>9. Total(g, S \union {i}) = Total(f, S) + g[i]
    BY <2>1, <2>2, <2>3, <2>4, TotalGains
  <2>10. QED
    BY <2>1, <2>5, <2>6, <2>7, <2>8, <2>9
<1>5. Shelved'
  <2>1. SUFFICES ASSUME NEW s \in Shelves, Counted(s)
                 PROVE  /\ stock'[s].reserved + ReservedBy(o, s) = stock[s].reserved + ReservedBy(o, s)'
                        /\ stock'[s].on_hand + OutOfStore(o, s)' + received[s]
                              = stock[s].on_hand + OutOfStore(o, s) + received'[s]
    BY <1>1, <1>2, Balanced DEF Books
  <2>2. /\ b[s] \in Nat /\ stock[s].reserved \in Nat /\ stock[s].on_hand \in Int
        /\ received[s] \in Int
    BY BasketNat, QtyAssumption DEF Typed, StockOK, HistoryOK
  <2>3. order[o].lines[s] \in Nat /\ BackOnShelf(o, s) \in Nat
    BY UnitsAreTyped DEF UnitTypes
  <2>4. /\ ReservedBy(o, s) = 0 /\ ReservedBy(o, s)' = 0
        /\ OutOfStore(o, s) = order[o].lines[s] - BackOnShelf(o, s)
        /\ OutOfStore(o, s)' = order[o].lines[s] - BackOnShelf(o, s)'
    BY <1>1 DEF ReservedBy, OutOfStore, stockCommitted
  <2>5. /\ stock'[s].reserved = stock[s].reserved
        /\ stock'[s].on_hand = stock[s].on_hand + (IF r THEN b[s] ELSE 0)
    BY <1>1, <2>1, <2>2 DEF Restock, Applied, Counted, Typed, StockOK
  <2>6. QED
    BY <1>1, <1>4, <2>2, <2>3, <2>4, <2>5
<1>6. CardMoneyConserved'
  BY <1>1 DEF Books, CardMoneyConserved
<1>7. QED
  BY <1>3, <1>5, <1>6 DEF Books

LEMMA WithdrawReturnBooks ==
    ASSUME Typed, Typed', Books, NEW o \in OrderIds, NEW i \in ReturnIds, WithdrawReturn(o, i)
    PROVE  Books'
<1> DEFINE b == returns[o][i].units
           r == returns[o][i].restock
<1>1. /\ returns[o][i].status = "received"
      /\ UNCHANGED <<received, order, card>>
      /\ IF r THEN Sell(b) ELSE UNCHANGED stock
      /\ returns[o][i] \in ReturnRows /\ b \in Baskets
  BY DEF WithdrawReturn, Typed, HistoryOK, ReturnRows
<1>2. /\ \A p \in OrderIds \ {o} : returns'[p] = returns[p]
      /\ \A j \in ReturnIds \ {i} : returns'[o][j] = returns[o][j]
      /\ returns'[o][i] = [returns[o][i] EXCEPT !.status = "withdrawn"]
  BY DEF WithdrawReturn, Typed, HistoryOK
<1>3. returns'[o][i].status = "withdrawn"
  BY <1>1, <1>2 DEF ReturnRows
<1>4. order[o].status \in {"confirmed", "partial", "shipped", "delivered"}
  <2>1. hasActiveReturn(o) /\ RowUnits(o) /\ order[o].status \in Statuses
    BY <1>1, RowTypes DEF hasActiveReturn, Books, UnitsOK, Typed, OrderRows
  <2>2. QED
    BY <2>1 DEF RowUnits, Statuses
<1>5. UnitsOK'
  <2>1. RowUnits(o)
    BY DEF Books, UnitsOK
  <2>2. RowUnits(o)'
    BY <1>1, <1>4, <2>1 DEF RowUnits
  <2>3. QED
    BY <1>1, <1>2, <2>2, UnitsOfOne DEF Books
<1>6. ASSUME NEW s \in Shelves
      PROVE  BackOnShelf(o, s)' + (IF r THEN b[s] ELSE 0) = BackOnShelf(o, s)
  <2> DEFINE f == [j \in ReturnIds |-> returns[o][j].units[s]]
             g == [j \in ReturnIds |-> returns'[o][j].units[s]]
             S == {j \in ReturnIds : returns[o][j].status = "received" /\ returns[o][j].restock}
             T == {j \in ReturnIds : returns'[o][j].status = "received" /\ returns'[o][j].restock}
  <2>1. T = S \ {i} /\ (i \in S <=> r)
    <3>1. i \notin T /\ (i \in S <=> r)
      BY <1>1, <1>3
    <3>2. \A j \in ReturnIds \ {i} : j \in T <=> j \in S
      BY <1>2
    <3>3. QED
      BY <3>1, <3>2
  <2>2. IsFiniteSet(S) /\ IsFiniteSet(T)
    BY OrdersAssumption, FS_Subset
  <2>3. \A j \in S : f[j] \in Int
    BY BasketNat DEF Typed, HistoryOK, ReturnRows
  <2>4. \A j \in T : f[j] = g[j]
    BY <1>2, <2>1
  <2>5. f[i] = b[s] /\ b[s] \in Int
    BY <1>1, BasketNat
  <2>6. BackOnShelf(o, s) = Total(f, S) /\ BackOnShelf(o, s)' = Total(g, T)
    BY DEF BackOnShelf
  <2> HIDE DEF f, g, S, T, b, r
  <2>7. Total(f, T) = Total(g, T) /\ Total(f, T) \in Int
    BY <2>1, <2>2, <2>3, <2>4, TotalSame, TotalInt
  <2>8. CASE r
    <3>1. Total(f, S) = f[i] + Total(f, S \ {i})
      BY <2>1, <2>2, <2>3, <2>8, TotalTakes
    <3>2. QED
      BY <2>1, <2>5, <2>6, <2>7, <2>8, <3>1
  <2>9. CASE ~r
    <3>1. T = S
      BY <2>1, <2>9
    <3>2. QED
      BY <2>6, <2>7, <2>9, <3>1
  <2>10. QED
    BY <2>8, <2>9
<1>7. Shelved'
  <2>1. SUFFICES ASSUME NEW s \in Shelves, Counted(s)
                 PROVE  /\ stock'[s].reserved + ReservedBy(o, s) = stock[s].reserved + ReservedBy(o, s)'
                        /\ stock'[s].on_hand + OutOfStore(o, s)' + received[s]
                              = stock[s].on_hand + OutOfStore(o, s) + received'[s]
    BY <1>1, <1>2, Balanced DEF Books
  <2>2. /\ b[s] \in Nat /\ stock[s].reserved \in Nat /\ stock[s].on_hand \in Int
        /\ received[s] \in Int
    BY <1>1, BasketNat, QtyAssumption DEF Typed, StockOK, HistoryOK
  <2>3. order[o].lines[s] \in Nat /\ BackOnShelf(o, s) \in Nat /\ BackOnShelf(o, s)' \in Nat
    <3>1. UnitTypes /\ UnitTypes'
      BY UnitsAreTyped, PTL
    <3>2. QED
      BY <3>1 DEF UnitTypes
  <2>4. /\ ReservedBy(o, s) = 0 /\ ReservedBy(o, s)' = 0
        /\ OutOfStore(o, s) = order[o].lines[s] - BackOnShelf(o, s)
        /\ OutOfStore(o, s)' = order[o].lines[s] - BackOnShelf(o, s)'
    BY <1>1, <1>4 DEF ReservedBy, OutOfStore, stockCommitted
  <2> HIDE DEF b, r
  <2>5. /\ stock'[s].reserved = stock[s].reserved
        /\ stock'[s].on_hand = stock[s].on_hand - (IF r THEN b[s] ELSE 0)
    BY <1>1, <2>1, <2>2 DEF Sell, Applied, Counted, Typed, StockOK
  <2>6. QED
    BY <1>1, <1>6, <2>2, <2>3, <2>4, <2>5
<1>8. CardMoneyConserved'
  BY <1>1 DEF Books, CardMoneyConserved
<1>9. QED
  BY <1>5, <1>7, <1>8 DEF Books

(* A stock take says of the shelf what it says of the history.             *)
LEMMA CountBooks ==
    ASSUME Typed, Books, Count, UNCHANGED orderVars
    PROVE  Books'
<1>1. UNCHANGED <<order, returns, card>>
  BY DEF orderVars
<1>2. PICK t \in Shelves :
          \/ \E delta \in (-MaxQty)..MaxQty : Adjust(t, delta)
          \/ \E count \in 0..MaxReceived : SetOnHand(t, count)
  BY DEF Count
<1>3. UnitsOK' /\ CardMoneyConserved'
  BY <1>1 DEF Books, UnitsOK, RowUnits, hasActiveReturn, CardMoneyConserved
<1>4. ASSUME NEW s \in Shelves
      PROVE  /\ stock'[s].reserved = stock[s].reserved
             /\ stock'[s].on_hand + received[s] = stock[s].on_hand + received'[s]
             /\ stock'[s].on_hand \in Int /\ stock[s].on_hand \in Int
             /\ received'[s] \in Int /\ received[s] \in Int
  <2>1. /\ stock \in [Shelves -> [on_hand : Int, reserved : Nat]]
        /\ received \in [Shelves -> Int]
    BY QtyAssumption DEF Typed, StockOK, HistoryOK
  <2>2. CASE s # t
    BY <1>2, <2>1, <2>2 DEF Adjust, SetOnHand
  <2>3. CASE s = t
    BY <1>2, <2>1, <2>3, QtyAssumption DEF Adjust, SetOnHand
  <2>4. QED
    BY <2>2, <2>3
<1>5. Shelved'
  <2>1. SUFFICES ASSUME NEW s \in Shelves, Counted(s)
                 PROVE  /\ stock'[s].reserved
                              = Total([p \in OrderIds |-> ReservedBy(p, s)'], OrderIds)
                        /\ stock'[s].on_hand + Total([p \in OrderIds |-> OutOfStore(p, s)'], OrderIds)
                              = received'[s]
    BY DEF Shelved, ReservationsAgree, StockConserved, Counted
  <2> DEFINE f == [p \in OrderIds |-> OutOfStore(p, s)]
             g == [p \in OrderIds |-> OutOfStore(p, s)']
             h == [p \in OrderIds |-> ReservedBy(p, s)']
  <2>2. h = [p \in OrderIds |-> ReservedBy(p, s)] /\ g = f
    BY <1>1 DEF ReservedBy, OutOfStore, BackOnShelf
  <2>3. stock[s].reserved = Total(h, OrderIds) /\ stock[s].on_hand + Total(f, OrderIds) = received[s]
    BY <2>1, <2>2 DEF Books, Shelved, ReservationsAgree, StockConserved
  <2>4. \A p \in OrderIds : f[p] \in Int
    BY UnitsAreTyped DEF UnitTypes
  <2> HIDE DEF f, g, h
  <2>5. Total(f, OrderIds) \in Int
    BY <2>4, TotalInt, OrdersAssumption
  <2>6. g = f
    BY <2>2
  <2>7. stock'[s].reserved = Total(h, OrderIds)
    BY <1>4, <2>3
  <2>8. stock'[s].on_hand + Total(g, OrderIds) = received'[s]
    BY <1>4, <2>3, <2>5, <2>6
  <2>9. QED
    BY <2>7, <2>8 DEF g, h
<1>6. QED
  BY <1>3, <1>5 DEF Books

LEMMA BooksUnchanged ==
    ASSUME Books, UNCHANGED <<stock, received, order, returns, card>>
    PROVE  Books'
<1>1. UnitsOK' /\ CardMoneyConserved'
  BY DEF Books, UnitsOK, RowUnits, hasActiveReturn, CardMoneyConserved
<1>2. Shelved'
  BY ShelvedSame DEF Books
<1>3. QED
  BY <1>1, <1>2 DEF Books

(* Every verb keeps the books.                                             *)
LEMMA OrdersNextBooks ==
    ASSUME Typed, Typed', Books, OrdersNext
    PROVE  Books'
<1>1. ASSUME NEW o \in OrderIds, NEW b \in Baskets, NEW n \in 1..MaxSubtotal,
             NEW c \in BOOLEAN, Place(o, b, n, c)
      PROVE  Books'
  BY <1>1, PlaceBooks
<1>2. ASSUME NEW o \in OrderIds, Confirm(o) \/ Cancel(o)
      PROVE  Books'
  BY <1>2, ConfirmBooks, CancelBooks
<1>3. ASSUME NEW o \in OrderIds, Deliver(o) \/ MarkUndelivered(o) \/ Expire(o)
      PROVE  Books'
  BY <1>3, QuietBooks
<1>4. ASSUME NEW o \in OrderIds, NEW b \in Baskets, NEW n \in 1..MaxSubtotal, EditLines(o, b, n)
      PROVE  Books'
  BY <1>4, EditLinesBooks
<1>5. ASSUME NEW o \in OrderIds, NEW b \in Baskets, Ship(o, b) \/ Unship(o, b)
      PROVE  Books'
  BY <1>5, ParcelBooks
<1>6. ASSUME NEW o \in OrderIds, NEW i \in ReturnIds, NEW b \in Baskets, NEW r \in BOOLEAN,
             Return(o, i, b, r)
      PROVE  Books'
  BY <1>6, ReturnBooks
<1>7. ASSUME NEW o \in OrderIds, NEW i \in ReturnIds, WithdrawReturn(o, i)
      PROVE  Books'
  BY <1>7, WithdrawReturnBooks
<1>8. ASSUME Count, UNCHANGED orderVars
      PROVE  Books'
  BY <1>8, CountBooks
<1>9. QED
  BY <1>1, <1>2, <1>3, <1>4, <1>5, <1>6, <1>7, <1>8 DEF OrdersNext

LEMMA RecordRefundBooks ==
    ASSUME Typed, RefundsOK, Books, NEW r \in RefundIds, NEW request, RecordRefund(r, request)
    PROVE  Books'
<1> DEFINE o == refunds[r].order
           back == order[o].refunded + refunds[r].amount
           payment == IF back >= order[o].total THEN "refunded" ELSE order[o].payment
<1>1. o \in OrderIds
  BY RefundTypes DEF RecordRefund, Unsettled
<1>2. order[o] \in OrderRows /\ RowUnits(o)
  BY <1>1, RowTypes DEF Typed, Books, UnitsOK
<1>3. /\ Set(o, [order[o] EXCEPT !.refunded = back, !.payment = payment])
      /\ UNCHANGED <<stock, received, returns, card>>
  BY DEF RecordRefund, inventoryVars
<1> HIDE DEF o, back, payment
<1>4. /\ OnlyOrder(o)
      /\ order'[o] = [order[o] EXCEPT !.refunded = back, !.payment = payment]
  BY <1>1, <1>3, SetOnly DEF Typed
<1>5. /\ order'[o].lines = order[o].lines /\ order'[o].shipped = order[o].shipped
      /\ order'[o].gift = order[o].gift /\ order'[o].status = order[o].status
  BY <1>2, <1>4 DEF OrderRows
<1>6. QED
  BY <1>1, <1>2, <1>3, <1>4, <1>5, RowBooks DEF RowUnits

LEMMA RefundingBooks ==
    ASSUME Typed, RefundsOK, Books, Refunding
    PROVE  Books'
<1> USE BooksUnchanged
<1>1. ASSUME NEW r \in RefundIds, NEW request, RecordRefund(r, request)
      PROVE  Books'
  BY <1>1, RecordRefundBooks
<1>2. ASSUME UNCHANGED <<inventoryVars, orderVars>>
      PROVE  Books'
  BY <1>2 DEF inventoryVars, orderVars
<1>3. ASSUME NEW r \in RefundIds, SettleRefund(r)
      PROVE  Books'
  BY <1>1, <1>2, <1>3 DEF SettleRefund
<1>4. ASSUME NEW r \in RefundIds, SettleByHand(r)
      PROVE  Books'
  BY <1>1, <1>2, <1>4 DEF SettleByHand
<1>5. ASSUME NEW r \in RefundIds,
             \/ \E o \in OrderIds, a \in Amounts : ReserveRefund(r, o, a)
             \/ GatewayAnswers(r) \/ FailRefund(r) \/ LoseRequest(r) \/ RefundRefused(r)
      PROVE  Books'
  BY <1>2, <1>5 DEF ReserveRefund, GatewayAnswers, FailRefund, LoseRequest, RefundRefused
<1>6. QED
  BY <1>3, <1>4, <1>5 DEF Refunding

LEMMA SweepBooks ==
    ASSUME Typed, Typed', Books, Sweep
    PROVE  Books'
<1>1. ASSUME UNCHANGED <<inventoryVars, orderVars>>
      PROVE  Books'
  BY <1>1, BooksUnchanged DEF inventoryVars, orderVars
<1>2. CASE SweepList
  BY <1>1, <1>2 DEF SweepList
<1>3. ASSUME NEW o \in OrderIds, SweepAsk(o)
      PROVE  Books'
  BY <1>1, <1>3, RecordPaymentBooks DEF SweepAsk, WaitForGateway, FoundPaid, NotFoundPaid
<1>4. ASSUME NEW o \in OrderIds, SweepCancel(o)
      PROVE  Books'
  BY <1>1, <1>4, CancelBooks DEF SweepCancel
<1>5. QED
  BY <1>2, <1>3, <1>4 DEF Sweep

LEMMA BooksInit == Init => Books
<1> SUFFICES ASSUME Init PROVE Books
  OBVIOUS
<1>1. /\ \A o \in OrderIds : /\ order[o].status = "absent" /\ order[o].shipped = Empty
                             /\ order[o].lines = Empty /\ order[o].gift = 0
                             /\ ~hasActiveReturn(o)
      /\ \A s \in Shelves : /\ stock[s].reserved = 0
                            /\ stock[s].on_hand = received[s] /\ received[s] \in Int
      /\ card = CardBalance /\ card \in Int
  BY QtyAssumption, OrdersAssumption DEF Init, InventoryInit, OrdersInit, hasActiveReturn
<1>2. UnitsOK
  BY <1>1 DEF UnitsOK, RowUnits
<1>3. ASSUME NEW f, \A o \in OrderIds : f[o] = 0, NEW S \in SUBSET OrderIds
      PROVE  Total(f, S) = 0
  <2>1. IsFiniteSet(S) /\ \A o \in S : f[o] \in Nat /\ f[o] = 0
    BY <1>3, OrdersAssumption, FS_Subset
  <2>2. QED
    BY <2>1, TotalZero
<1>4. ASSUME NEW s \in Shelves
      PROVE  /\ stock[s].reserved = Total([o \in OrderIds |-> ReservedBy(o, s)], OrderIds)
             /\ stock[s].on_hand + Total([o \in OrderIds |-> OutOfStore(o, s)], OrderIds) = received[s]
  <2> DEFINE f == [o \in OrderIds |-> ReservedBy(o, s)]
             g == [o \in OrderIds |-> OutOfStore(o, s)]
  <2>1. \A o \in OrderIds : f[o] = 0 /\ g[o] = 0
    BY <1>1 DEF ReservedBy, OutOfStore, stockCommitted, Empty
  <2> HIDE DEF f, g
  <2>2. Total(f, OrderIds) = 0 /\ Total(g, OrderIds) = 0
    BY <1>3, <2>1
  <2>3. stock[s].reserved = Total(f, OrderIds) /\ stock[s].on_hand + Total(g, OrderIds) = received[s]
    BY <1>1, <2>2
  <2>4. QED
    BY <2>3 DEF f, g
<1>5. CardMoneyConserved
  <2> DEFINE f == [o \in OrderIds |-> order[o].gift]
             S == {o \in OrderIds : order[o].status # "cancelled"}
  <2>1. \A o \in OrderIds : f[o] = 0
    BY <1>1
  <2>2. S \in SUBSET OrderIds
    OBVIOUS
  <2> HIDE DEF f, S
  <2>3. Total(f, S) = 0
    BY <1>3, <2>1, <2>2
  <2>4. card + Total(f, S) = CardBalance
    BY <1>1, <2>3
  <2>5. QED
    BY <2>4 DEF CardMoneyConserved, f, S
<1>6. QED
  BY <1>2, <1>4, <1>5 DEF Books, Shelved, ReservationsAgree, StockConserved

LEMMA BooksNext == Inv /\ Inv' /\ Books /\ [Next]_vars => Books'
<1> SUFFICES ASSUME Inv, Inv', Books, [Next]_vars PROVE Books'
  OBVIOUS
<1>1. Typed /\ Typed' /\ RefundsOK
  BY DEF Inv, Typed
<1>2. ASSUME UNCHANGED <<inventoryVars, orderVars>>
      PROVE  Books'
  BY <1>2, BooksUnchanged DEF inventoryVars, orderVars
<1>3. CASE OrdersNext
  BY <1>1, <1>3, OrdersNextBooks
<1>4. ASSUME NEW o \in OrderIds, MarkPaid(o) \/ CheckPayment(o)
      PROVE  Books'
  BY <1>1, <1>4, RecordPaymentBooks DEF MarkPaid, CheckPayment
<1>5. ASSUME NEW o \in OrderIds, MarkUnpaid(o) \/ MarkFailed(o)
      PROVE  Books'
  BY <1>1, <1>5, QuietBooks
<1>6. ASSUME NEW o \in OrderIds, Capture(o)
      PROVE  Books'
  BY <1>2, <1>6 DEF Capture
<1>7. CASE Refunding
  BY <1>1, <1>7, RefundingBooks
<1>8. CASE Sweep
  BY <1>1, <1>8, SweepBooks
<1>9. CASE UNCHANGED vars
  BY <1>2, <1>9 DEF vars
<1>10. QED
  BY <1>3, <1>4, <1>5, <1>6, <1>7, <1>8, <1>9 DEF Next

LEMMA BooksHold == Spec => []Books
  BY InvHolds, BooksInit, BooksNext, PTL DEF Spec

(* Every reserved unit belongs to a pending order and every pending order  *)
(* holds its units, for any number of orders: no confirmation, cancel,     *)
(* sweep or edit strands a reservation or takes another order's.           *)
THEOREM NoReservationIsStranded == Spec => []ReservationsAgree
<1>1. Books => ReservationsAgree
  BY DEF Books, Shelved
<1>2. QED
  BY <1>1, BooksHold, PTL

(* A unit is on the shelf or with an order, never both and never neither:  *)
(* Cancel, EditLines, Return and WithdrawReturn put back what is out and   *)
(* no more, whatever the other orders do.                                  *)
THEOREM UnitsAreConserved == Spec => []StockConserved
<1>1. Books => StockConserved
  BY DEF Books, Shelved
<1>2. QED
  BY <1>1, BooksHold, PTL

(* The gift card's money is on the card or in one live order, and a        *)
(* cancelled order leaves none of the cards it bought spendable.           *)
THEOREM GiftCardsBalance == Spec => []GiftCardsAgree
<1>1. Books => CardMoneyConserved
  BY DEF Books
<1>2. QED
  BY <1>1, BooksHold, CancelledCardsAreOff, PTL DEF GiftCardsAgree

-----------------------------------------------------------------------------
(* The ledger of refunds.                                                  *)

(* The rows that Refunds(o, states) adds up.                               *)
RowsOf(o, states) ==
    {r \in RefundIds : refunds[r].order = o /\ refunds[r].status \in states}

RefundedSame == \A p \in OrderIds : order'[p].refunded = order[p].refunded

LEMMA SetRefunded ==
    ASSUME OrdersOK, NEW o \in OrderIds, NEW row, Set(o, row), row.refunded = order[o].refunded
    PROVE  RefundedSame
  BY DEF OrdersOK, Set, RefundedSame

(* No verb but a settlement writes refunded_minor.                         *)
LEMMA CancelRefunded ==
    ASSUME OrdersOK, NEW o \in OrderIds, Cancel(o)
    PROVE  RefundedSame
<1> DEFINE row == [Restored(order[o]) EXCEPT !.status = "cancelled", !.deadline = "none"]
<1>1. row.refunded = order[o].refunded
  BY RowTypes DEF Restored, OrderRows
<1>2. Set(o, row)
  BY DEF Cancel
<1> HIDE DEF row
<1>3. QED
  BY <1>1, <1>2, SetRefunded

LEMMA PaymentRefunded ==
    ASSUME OrdersOK, NEW o \in OrderIds, RecordPayment(o)
    PROVE  RefundedSame
<1> DEFINE paid == [order[o] EXCEPT !.payment = "paid"]
<1>1. PICK row \in {Issued(o, Confirmed(paid)), Issued(o, paid)} : Set(o, row)
  BY DEF RecordPayment
<1>2. row.refunded = order[o].refunded
  BY <1>1, RowTypes DEF Issued, Confirmed, OrderRows
<1>3. QED
  BY <1>1, <1>2, SetRefunded

LEMMA PlaceRefunded ==
    ASSUME OrdersOK, NEW o \in OrderIds, NEW b, NEW n, NEW c, Place(o, b, n, c)
    PROVE  RefundedSame
<1> DEFINE due == n + TaxOnTop
           gift == IF c THEN Smaller(card, due) ELSE 0
           row == [order[o] EXCEPT !.status = "pending", !.lines = b,
                                   !.subtotal = n, !.total = due - gift,
                                   !.gift = gift, !.deadline = "ahead"]
<1>1. Set(o, row)
  BY DEF Place
<1> HIDE DEF due, gift
<1>2. row.refunded = order[o].refunded
  BY RowTypes DEF OrderRows
<1> HIDE DEF row
<1>3. QED
  BY <1>1, <1>2, SetRefunded

LEMMA OrdersNextRefunded ==
    ASSUME OrdersOK, OrdersNext
    PROVE  RefundedSame
<1>1. ASSUME NEW o \in OrderIds, NEW b, NEW n, NEW c, Place(o, b, n, c)
      PROVE  RefundedSame
  BY <1>1, PlaceRefunded
<1>2. ASSUME NEW o \in OrderIds, Cancel(o)
      PROVE  RefundedSame
  BY <1>2, CancelRefunded
<1>3. ASSUME NEW o \in OrderIds,
             Confirm(o) \/ Deliver(o) \/ MarkUndelivered(o) \/ Expire(o)
      PROVE  RefundedSame
  BY <1>3, RowTypes, SetRefunded
     DEF Confirm, Deliver, MarkUndelivered, Expire, Confirmed, OrderRows
<1>4. ASSUME NEW o \in OrderIds, NEW b, NEW n, EditLines(o, b, n)
      PROVE  RefundedSame
  BY <1>4, RowTypes, SetRefunded DEF EditLines, OrderRows
<1>5. ASSUME NEW o \in OrderIds, NEW b, Ship(o, b) \/ Unship(o, b)
      PROVE  RefundedSame
  BY <1>5, RowTypes, SetRefunded DEF Ship, Unship, Parcels, OrderRows
<1>6. ASSUME UNCHANGED order
      PROVE  RefundedSame
  BY <1>6 DEF RefundedSame
<1>7. ASSUME NEW o \in OrderIds, NEW i \in ReturnIds,
             WithdrawReturn(o, i) \/ \E b \in Baskets, r \in BOOLEAN : Return(o, i, b, r)
      PROVE  RefundedSame
  BY <1>6, <1>7 DEF Return, WithdrawReturn
<1>8. ASSUME UNCHANGED orderVars
      PROVE  RefundedSame
  BY <1>6, <1>8 DEF orderVars
<1>9. QED
  BY <1>1, <1>2, <1>3, <1>4, <1>5, <1>7, <1>8 DEF OrdersNext

(* A step that is not a refund's leaves the ledger and what it says.       *)
LEMMA OtherSteps ==
    ASSUME Inv, [Next]_vars, ~Refunding
    PROVE  RefundedSame /\ UNCHANGED refunds
<1>1. OrdersOK
  BY DEF Inv
<1>2. ASSUME UNCHANGED orderVars
      PROVE  RefundedSame
  BY <1>2 DEF orderVars, RefundedSame
<1>3. CASE OrdersNext /\ UNCHANGED <<refundVars, captured, sweepVars>>
  BY <1>1, <1>3, OrdersNextRefunded DEF refundVars
<1>4. ASSUME NEW o \in OrderIds, MarkPaid(o) \/ CheckPayment(o)
      PROVE  RefundedSame /\ UNCHANGED refunds
  BY <1>1, <1>4, PaymentRefunded DEF MarkPaid, CheckPayment, refundVars
<1>5. ASSUME NEW o \in OrderIds, MarkUnpaid(o) \/ MarkFailed(o)
      PROVE  RefundedSame /\ UNCHANGED refunds
  <2>1. PICK payment : Set(o, [order[o] EXCEPT !.payment = payment])
    BY <1>5 DEF MarkUnpaid, MarkFailed
  <2>2. [order[o] EXCEPT !.payment = payment].refunded = order[o].refunded
    BY <1>1, RowTypes DEF OrderRows
  <2>3. QED
    BY <1>1, <1>5, <2>1, <2>2, SetRefunded DEF MarkUnpaid, MarkFailed, refundVars
<1>6. ASSUME NEW o \in OrderIds, Capture(o)
      PROVE  RefundedSame /\ UNCHANGED refunds
  BY <1>2, <1>6 DEF Capture, refundVars
<1>7. CASE Sweep
  <2>1. UNCHANGED refunds
    BY <1>7 DEF Sweep, SweepList, SweepAsk, SweepCancel, refundVars
  <2>2. CASE SweepList
    BY <1>2, <2>1, <2>2 DEF SweepList
  <2>3. ASSUME NEW o \in OrderIds, SweepAsk(o)
        PROVE  RefundedSame
    BY <1>1, <1>2, <2>3, PaymentRefunded DEF SweepAsk, WaitForGateway, FoundPaid, NotFoundPaid
  <2>4. ASSUME NEW o \in OrderIds, SweepCancel(o)
        PROVE  RefundedSame
    BY <1>1, <1>2, <2>4, CancelRefunded DEF SweepCancel
  <2>5. QED
    BY <1>7, <2>1, <2>2, <2>3, <2>4 DEF Sweep
<1>8. CASE UNCHANGED vars
  BY <1>2, <1>8 DEF vars, refundVars
<1>9. QED
  BY <1>3, <1>4, <1>5, <1>6, <1>7, <1>8 DEF Next

(* A row keeps its order and its amount once it has them.                  *)
Kept(r) == refunds'[r].order = refunds[r].order /\ refunds'[r].amount = refunds[r].amount

Reserved(r) == \E o \in OrderIds, a \in Amounts : ReserveRefund(r, o, a)

(* What a refund's step can do to the one row it writes.                   *)
LEMMA RefundingCases ==
    ASSUME RefundsOK, Refunding
    PROVE  \E r \in RefundIds :
              /\ \A q \in RefundIds \ {r} : refunds'[q] = refunds[q]
              /\ \/ Kept(r) /\ refunds'[r].status = refunds[r].status /\ UNCHANGED order
                 \/ /\ Kept(r) /\ UNCHANGED order
                    /\ refunds[r].status = "pending" /\ refunds'[r].status = "failed"
                 \/ \E request : RecordRefund(r, request)
                 \/ Reserved(r)
<1>1. PICK r \in RefundIds :
          \/ Reserved(r)
          \/ GatewayAnswers(r) \/ SettleRefund(r) \/ FailRefund(r)
          \/ LoseRequest(r) \/ RefundRefused(r) \/ SettleByHand(r)
  BY DEF Refunding, Reserved
<1>2. refunds[r] \in RefundRows
  BY RefundTypes
<1>3. ASSUME NEW request, refunds' = [refunds EXCEPT ![r].request = request]
      PROVE  /\ Kept(r) /\ refunds'[r].status = refunds[r].status
             /\ \A q \in RefundIds \ {r} : refunds'[q] = refunds[q]
  BY <1>2, <1>3 DEF RefundsOK, RefundRows, Kept
<1> DEFINE Others == \A q \in RefundIds \ {r} : refunds'[q] = refunds[q]
           Cases == \/ Kept(r) /\ refunds'[r].status = refunds[r].status /\ UNCHANGED order
                    \/ /\ Kept(r) /\ UNCHANGED order
                       /\ refunds[r].status = "pending" /\ refunds'[r].status = "failed"
                    \/ \E request : RecordRefund(r, request)
                    \/ Reserved(r)
<1>4. CASE Reserved(r)
  <2>1. Others
    BY <1>4 DEF Reserved, ReserveRefund, RefundsOK
  <2>2. QED
    BY <1>4, <2>1
<1>5. CASE GatewayAnswers(r) \/ LoseRequest(r) \/ RefundRefused(r)
  <2>1. UNCHANGED order
    BY <1>5 DEF GatewayAnswers, LoseRequest, RefundRefused, orderVars
  <2>2. \E request : refunds' = [refunds EXCEPT ![r].request = request]
    BY <1>5 DEF GatewayAnswers, LoseRequest, RefundRefused
  <2>3. QED
    BY <1>3, <2>1, <2>2
<1>6. CASE SettleRefund(r)
  <2>1. CASE RecordRefund(r, "over")
    <3>1. Others
      BY <2>1 DEF RecordRefund, RefundsOK
    <3>2. QED
      BY <2>1, <3>1
  <2>2. CASE refunds' = [refunds EXCEPT ![r].request = "over"] /\ UNCHANGED orderVars
    BY <1>3, <2>2 DEF orderVars
  <2>3. QED
    BY <1>6, <2>1, <2>2 DEF SettleRefund
<1>7. CASE FailRefund(r)
  <2>1. UNCHANGED order /\ Others
    BY <1>7 DEF FailRefund, RefundsOK, orderVars
  <2>2. /\ Kept(r)
        /\ refunds'[r].status = IF Unsettled(r) THEN "failed" ELSE refunds[r].status
    BY <1>2, <1>7 DEF FailRefund, RefundsOK, RefundRows, Kept
  <2>3. QED
    BY <2>1, <2>2 DEF Unsettled
<1>8. CASE SettleByHand(r)
  <2>1. Others
    BY <1>8 DEF SettleByHand, RecordRefund, RefundsOK
  <2>2. CASE r \in moved
    BY <1>8, <2>1, <2>2 DEF SettleByHand
  <2>3. CASE r \notin moved
    <3>1. /\ UNCHANGED order /\ Kept(r)
          /\ refunds[r].status = "pending" /\ refunds'[r].status = "failed"
      BY <1>2, <1>8, <2>3 DEF SettleByHand, Unsettled, RefundsOK, RefundRows, Kept, orderVars
    <3>2. QED
      BY <2>1, <3>1
  <2>4. QED
    BY <2>2, <2>3
<1>9. QED
  BY <1>1, <1>4, <1>5, <1>6, <1>7, <1>8

(* How a sum over the ledger moves when one row does.                      *)
LEMMA RefundsMove ==
    ASSUME RefundsOK, RefundsOK', NEW r \in RefundIds,
           \A q \in RefundIds \ {r} : refunds'[q] = refunds[q],
           NEW o, NEW states
    PROVE  /\ Refunds(o, states) \in Nat
           /\ (r \in RowsOf(o, states) <=> r \in RowsOf(o, states)')
                 /\ (r \in RowsOf(o, states) => Kept(r))
              => Refunds(o, states)' = Refunds(o, states)
           /\ r \notin RowsOf(o, states) /\ r \in RowsOf(o, states)'
              => Refunds(o, states)' = Refunds(o, states) + refunds'[r].amount
           /\ r \in RowsOf(o, states) /\ r \notin RowsOf(o, states)'
              => Refunds(o, states)' <= Refunds(o, states)
<1> DEFINE f == [q \in RefundIds |-> refunds[q].amount]
           g == [q \in RefundIds |-> refunds'[q].amount]
           S == RowsOf(o, states)
           T == RowsOf(o, states)'
<1>1. /\ IsFiniteSet(S) /\ IsFiniteSet(T) /\ IsFiniteSet(S \ {r})
      /\ S \subseteq RefundIds /\ T \subseteq RefundIds
  <2>1. S \subseteq RefundIds /\ T \subseteq RefundIds
    BY DEF RowsOf
  <2>2. QED
    BY <2>1, PaymentsAssumption, FS_Subset
<1>2. \A q \in RefundIds : f[q] \in Nat /\ g[q] \in Nat
  BY AmountsNat DEF RefundsOK, RefundRows
<1>3. \A q \in RefundIds \ {r} : f[q] = g[q] /\ (q \in S <=> q \in T)
  BY DEF RowsOf
<1>4. Refunds(o, states) = Total(f, S) /\ Refunds(o, states)' = Total(g, T)
  BY DEF Refunds, RowsOf
<1>5. g[r] = refunds'[r].amount /\ f[r] = refunds[r].amount
  OBVIOUS
<1>6. Kept(r) => f[r] = g[r]
  BY DEF Kept
<1> HIDE DEF f, g, S, T
<1>7. Total(f, S) \in Nat /\ Total(f, S \ {r}) \in Nat
  BY <1>1, <1>2, TotalNat
<1>8. ASSUME r \in S <=> r \in T, r \in S => Kept(r)
      PROVE  Total(g, T) = Total(f, S)
  <2>1. S = T
    BY <1>1, <1>3, <1>8
  <2>2. \A q \in S : f[q] = g[q]
    BY <1>1, <1>3, <1>6, <1>8
  <2>3. QED
    BY <1>1, <2>1, <2>2, TotalSame
<1>9. ASSUME r \notin S, r \in T
      PROVE  Total(g, T) = Total(f, S) + g[r]
  <2>1. T = S \union {r}
    BY <1>1, <1>3, <1>9
  <2>2. \A q \in S \union {r} : g[q] \in Int
    BY <1>1, <1>2
  <2>3. \A q \in S : f[q] = g[q]
    BY <1>1, <1>3, <1>9
  <2>4. QED
    BY <1>1, <1>9, <2>1, <2>2, <2>3, TotalGains
<1>10. ASSUME r \in S, r \notin T
       PROVE  Total(g, T) <= Total(f, S)
  <2>1. T = S \ {r}
    BY <1>1, <1>3, <1>10
  <2>2. \A q \in S : f[q] \in Int
    BY <1>1, <1>2
  <2>3. Total(f, S) = f[r] + Total(f, S \ {r})
    BY <1>1, <1>10, <2>2, TotalTakes
  <2>4. Total(f, S \ {r}) = Total(g, S \ {r})
    BY <1>1, <1>3, TotalSame
  <2>5. QED
    BY <1>2, <1>7, <2>1, <2>3, <2>4
<1>11. QED
  BY <1>4, <1>5, <1>7, <1>8, <1>9, <1>10 DEF S, T

LEMMA LedgerNext == Inv /\ Inv' /\ RefundedIsTheLedger /\ [Next]_vars => RefundedIsTheLedger'
<1> SUFFICES ASSUME Inv, Inv', RefundedIsTheLedger, [Next]_vars, NEW o \in OrderIds
             PROVE  order'[o].refunded = Refunds(o, {"succeeded"})'
  BY DEF RefundedIsTheLedger
<1>1. RefundsOK /\ RefundsOK' /\ OrdersOK
  BY DEF Inv
<1>2. order[o].refunded = Refunds(o, {"succeeded"})
  BY DEF RefundedIsTheLedger
<1>3. CASE ~Refunding
  BY <1>2, <1>3, OtherSteps DEF RefundedSame, Refunds
<1>4. CASE Refunding
  <2>1. PICK r \in RefundIds :
            /\ \A q \in RefundIds \ {r} : refunds'[q] = refunds[q]
            /\ \/ Kept(r) /\ refunds'[r].status = refunds[r].status /\ UNCHANGED order
               \/ /\ Kept(r) /\ UNCHANGED order
                  /\ refunds[r].status = "pending" /\ refunds'[r].status = "failed"
               \/ \E request : RecordRefund(r, request)
               \/ Reserved(r)
    BY <1>1, <1>4, RefundingCases
  <2>2. /\ (r \in RowsOf(o, {"succeeded"}) <=> r \in RowsOf(o, {"succeeded"})')
              /\ (r \in RowsOf(o, {"succeeded"}) => Kept(r))
           => Refunds(o, {"succeeded"})' = Refunds(o, {"succeeded"})
        /\ r \notin RowsOf(o, {"succeeded"}) /\ r \in RowsOf(o, {"succeeded"})'
           => Refunds(o, {"succeeded"})' = Refunds(o, {"succeeded"}) + refunds'[r].amount
    BY <1>1, <2>1, RefundsMove
  <2>3. CASE Kept(r) /\ refunds'[r].status = refunds[r].status /\ UNCHANGED order
    BY <1>2, <2>2, <2>3 DEF RowsOf, Kept
  <2>4. CASE /\ Kept(r) /\ UNCHANGED order
             /\ refunds[r].status = "pending" /\ refunds'[r].status = "failed"
    BY <1>2, <2>2, <2>4 DEF RowsOf, Kept
  <2>5. ASSUME NEW request, RecordRefund(r, request)
        PROVE  order'[o].refunded = Refunds(o, {"succeeded"})'
    <3> DEFINE p == refunds[r].order
    <3>1. p \in OrderIds /\ order[p] \in OrderRows /\ refunds[r] \in RefundRows
      BY <1>1, <2>5, RefundTypes, RowTypes DEF RecordRefund, Unsettled
    <3>2. /\ refunds[r].status = "pending" /\ refunds'[r].status = "succeeded" /\ Kept(r)
      BY <1>1, <2>5, <3>1 DEF RecordRefund, Unsettled, RefundRows, RefundsOK, Kept
    <3>3. /\ order'[p].refunded = order[p].refunded + refunds[r].amount
          /\ p # o => order'[o].refunded = order[o].refunded
      BY <1>1, <2>5, <3>1 DEF RecordRefund, Set, OrderRows, OrdersOK
    <3>4. QED
      BY <1>2, <2>2, <3>2, <3>3 DEF RowsOf, Kept
  <2>6. CASE Reserved(r)
    <3>1. /\ refunds[r].status = "none" /\ refunds'[r].status = "pending" /\ UNCHANGED order
      BY <1>1, <2>6 DEF Reserved, ReserveRefund, RefundsOK, orderVars
    <3>2. QED
      BY <1>2, <2>2, <3>1 DEF RowsOf
  <2>7. QED
    BY <2>1, <2>3, <2>4, <2>5, <2>6
<1>5. QED
  BY <1>3, <1>4

LEMMA LedgerInit == Init => RefundedIsTheLedger
<1> SUFFICES ASSUME Init, NEW o \in OrderIds
             PROVE  order[o].refunded = Refunds(o, {"succeeded"})
  BY DEF RefundedIsTheLedger
<1>1. order[o].refunded = 0
  BY DEF Init, OrdersInit
<1>2. {r \in RefundIds : refunds[r].order = o /\ refunds[r].status \in {"succeeded"}} = {}
  BY DEF Init
<1>3. QED
  BY <1>1, <1>2, TotalOfNone DEF Refunds

LEMMA LedgerHolds == Spec => []RefundedIsTheLedger
  BY InvHolds, LedgerInit, LedgerNext, PTL DEF Spec

(* refunded_minor is what the succeeded rows of the ledger add up to, no   *)
(* order gives back more than it cost, and the ledger calls no refund      *)
(* succeeded that the gateway kept: whoever settles, and however often.    *)
THEOREM TheLedgerAgrees == Spec => []LedgerAgrees
<1>1. QED
  BY LedgerHolds, RefundsFitTheTotal, LedgerIsTrue, PTL DEF LedgerAgrees

(* Refunds in flight and settled: all that may ever go back.               *)
Outgoing == {"pending", "succeeded"}

LEMMA OutgoingIsBoth ==
    ASSUME RefundsOK, NEW o
    PROVE  /\ Refunds(o, Outgoing) = Refunds(o, {"pending"}) + Refunds(o, {"succeeded"})
           /\ Refunds(o, {"pending"}) \in Nat /\ Refunds(o, {"succeeded"}) \in Nat
<1> DEFINE f == [r \in RefundIds |-> refunds[r].amount]
           P == RowsOf(o, {"pending"})
           S == RowsOf(o, {"succeeded"})
<1>1. IsFiniteSet(P) /\ IsFiniteSet(S)
  BY PaymentsAssumption, FS_Subset DEF RowsOf
<1>2. P \cap S = {} /\ RowsOf(o, Outgoing) = P \union S
  BY DEF RowsOf, Outgoing
<1>3. \A r \in P \union S : f[r] \in Int /\ f[r] \in Nat
  <2>1. \A r \in RefundIds : f[r] \in Nat
    BY AmountsNat DEF RefundsOK, RefundRows
  <2>2. P \union S \subseteq RefundIds
    BY DEF RowsOf
  <2>3. QED
    BY <2>1, <2>2
<1>4. /\ Refunds(o, Outgoing) = Total(f, RowsOf(o, Outgoing))
      /\ Refunds(o, {"pending"}) = Total(f, P) /\ Refunds(o, {"succeeded"}) = Total(f, S)
  BY DEF Refunds, RowsOf
<1> HIDE DEF f, P, S
<1>5. Total(f, P \union S) = Total(f, P) + Total(f, S)
  BY <1>1, <1>2, <1>3, TotalOfBoth
<1>6. Total(f, P) \in Nat /\ Total(f, S) \in Nat
  BY <1>1, <1>3, TotalNat
<1>7. QED
  BY <1>2, <1>4, <1>5, <1>6

OutgoingTypes == \A o \in OrderIds : Refunds(o, Outgoing) \in Nat

LEMMA OutgoingNat == RefundsOK => OutgoingTypes
  BY OutgoingIsBoth DEF OutgoingTypes

(* Only reserveRefund raises what is to go back, by what refundRemaining   *)
(* left of the order's total.                                              *)
LEMMA ReserveOnceNext ==
    ASSUME Inv, Inv', RefundedIsTheLedger, [Next]_vars, NEW o \in OrderIds,
           Refunds(o, Outgoing)' > Refunds(o, Outgoing)
    PROVE  Refunds(o, Outgoing)' <= order'[o].total
<1>1. RefundsOK /\ RefundsOK' /\ OrdersOK
  BY DEF Inv
<1>2. Refunds(o, Outgoing) \in Nat
  BY <1>1, OutgoingIsBoth
<1>3. CASE ~Refunding
  <2>1. Refunds(o, Outgoing)' = Refunds(o, Outgoing)
    BY <1>3, OtherSteps DEF Refunds
  <2>2. QED
    BY <1>2, <2>1
<1>4. CASE Refunding
  <2>1. PICK r \in RefundIds :
            /\ \A q \in RefundIds \ {r} : refunds'[q] = refunds[q]
            /\ \/ Kept(r) /\ refunds'[r].status = refunds[r].status /\ UNCHANGED order
               \/ /\ Kept(r) /\ UNCHANGED order
                  /\ refunds[r].status = "pending" /\ refunds'[r].status = "failed"
               \/ \E request : RecordRefund(r, request)
               \/ Reserved(r)
    BY <1>1, <1>4, RefundingCases
  <2>2. /\ (r \in RowsOf(o, Outgoing) <=> r \in RowsOf(o, Outgoing)')
              /\ (r \in RowsOf(o, Outgoing) => Kept(r))
           => Refunds(o, Outgoing)' = Refunds(o, Outgoing)
        /\ r \notin RowsOf(o, Outgoing) /\ r \in RowsOf(o, Outgoing)'
           => Refunds(o, Outgoing)' = Refunds(o, Outgoing) + refunds'[r].amount
        /\ r \in RowsOf(o, Outgoing) /\ r \notin RowsOf(o, Outgoing)'
           => Refunds(o, Outgoing)' <= Refunds(o, Outgoing)
    BY <1>1, <2>1, RefundsMove
  <2>3. Refunds(o, Outgoing)' # Refunds(o, Outgoing) /\ ~(Refunds(o, Outgoing)' <= Refunds(o, Outgoing))
    <3>1. OutgoingTypes'
      BY <1>1, OutgoingNat, PTL
    <3>2. Refunds(o, Outgoing)' \in Nat
      BY <3>1 DEF OutgoingTypes
    <3>3. QED
      BY <1>2, <3>2
  <2>4. Kept(r) \/ Reserved(r)
    BY <1>1, <2>1, RefundTypes DEF RecordRefund, RefundsOK, RefundRows, Kept
  <2>5. Reserved(r) => r \notin RowsOf(o, Outgoing)
    BY DEF Reserved, ReserveRefund, RowsOf, Outgoing
  <2>6. /\ r \notin RowsOf(o, Outgoing) /\ r \in RowsOf(o, Outgoing)'
        /\ Reserved(r)
    <3>1. r \notin RowsOf(o, Outgoing) /\ r \in RowsOf(o, Outgoing)'
      BY <2>2, <2>3, <2>4, <2>5
    <3>2. refunds[r].status \notin Outgoing \/ ~Kept(r)
      BY <3>1 DEF RowsOf, Kept
    <3>3. ASSUME NEW request, RecordRefund(r, request)
          PROVE  Kept(r) /\ refunds[r].status = "pending"
      BY <1>1, <3>3, RefundTypes DEF RecordRefund, Unsettled, RefundsOK, RefundRows, Kept
    <3>4. Kept(r) /\ refunds'[r].status = refunds[r].status => FALSE
      BY <3>1 DEF RowsOf, Kept
    <3>5. QED
      BY <2>1, <3>1, <3>2, <3>3, <3>4 DEF Outgoing
  <2>7. PICK a \in Amounts :
            /\ a \in 1..refundRemaining(o) /\ UNCHANGED order
            /\ refunds'[r].amount = a
    BY <1>1, <2>6 DEF Reserved, ReserveRefund, RefundsOK, RowsOf, orderVars
  <2>8. order[o].refunded = Refunds(o, {"succeeded"}) /\ order[o].total \in Nat
    BY <1>1, RowTypes, AmountsNat DEF RefundedIsTheLedger
  <2>9. QED
    BY <1>1, <2>2, <2>6, <2>7, <2>8, OutgoingIsBoth DEF refundRemaining
<1>5. QED
  BY <1>3, <1>4

(* No two refunds are started on the same money: whenever a step raises    *)
(* what an order has in flight and gone back, the sum is within its total  *)
(* (reserveRefund, whatever settles or is edited around it).               *)
THEOREM MoneyGoesBackOnce == Spec => RefundsReserveOnce
<1>1. Inv /\ Inv' /\ RefundedIsTheLedger /\ [Next]_vars =>
        [\A o \in OrderIds :
            Refunds(o, {"pending", "succeeded"})' > Refunds(o, {"pending", "succeeded"})
              => Refunds(o, {"pending", "succeeded"})' <= order'[o].total]_vars
  BY ReserveOnceNext DEF Outgoing
<1>2. QED
  BY <1>1, InvHolds, LedgerHolds, PTL DEF Spec, RefundsReserveOnce
=============================================================================
