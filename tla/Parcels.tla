------------------------------- MODULE Parcels -------------------------------
(***************************************************************************)
(* The parcels of one order: src/core/fulfillment.go, with the delivery    *)
(* verbs and the two verbs that compete with shipping of                   *)
(* src/core/orders.go.                                                     *)
(*                                                                         *)
(* Everything that writes runs in Orders.transition, under the order's row *)
(* lock, and is one action.  Create is the exception: it reads the order,  *)
(* asks the carrier outside any transaction, and only then records what    *)
(* the carrier booked, so it is a call of several actions that another     *)
(* call, a correction or a death of the process may come between.          *)
(*                                                                         *)
(* A line is what an order holds of one variant; a box is how many units   *)
(* of each line it holds.  Tracking numbers are waybills; who carries one  *)
(* and its label are left out.                                             *)
(***************************************************************************)
EXTENDS Totals, FiniteSets

CONSTANTS
    Lines,     \* order lines
    MaxQty,    \* bound: units of a line
    ParcelIds, \* bound: rows of fulfillments, in the order they are written
    Callers,   \* requests that ship, each a handler of an engine process
    Waybills,  \* bound: labels the carrier may issue, numbered in that order
    Moves,     \* words a carrier has for a parcel on its way
    MaxAt      \* bound: the times a carrier's report may carry

ASSUME ParcelsAssumption ==
    /\ IsFiniteSet(Lines) /\ IsFiniteSet(ParcelIds)
    /\ MaxQty \in Nat \ {0} /\ MaxAt \in Nat \ {0}
    /\ ParcelIds \subseteq Nat /\ Waybills \subseteq Nat \ {0}

VARIABLES
    order,     \* status, and lines: how many units of each are ordered
    parcel,    \* parcel[p]: the fulfillments row and its fulfillment_lines
    call,      \* call[c]: a Create in progress, with what it read
    labels,    \* the waybills the carrier has issued
    announced, \* history: units order.shipped announced, less order.unshipped
    undone     \* history: parcels whose delivery MarkUndelivered took back

parcelVars == <<order, parcel, call, labels, announced, undone>>

Boxes == [Lines -> 0..MaxQty]
NoUnits == [l \in Lines |-> 0]
NoWaybill == 0

(* The words a carrier's report may use.  in_transit, out_for_delivery,    *)
(* delivery_failed, returning and lost all do the same, and are Moves.     *)
Tracking == Moves \cup {"returned", "delivered", "cancelled"}

ParcelRows ==
    [status : {"none", "shipped", "delivered", "cancelled", "deleted"},
     units : Boxes, waybill : Waybills \cup {NoWaybill},
     tracked : Tracking \cup {""}, at : 0..MaxAt]   \* at 0: no report applied

Calls ==
    [stage : {"idle", "asking", "booked"}, units : Boxes, waybill : Waybills \cup {NoWaybill}]

(* A row before it is written and, with another status, after Delete.      *)
NoParcel == [status |-> "none", units |-> NoUnits, waybill |-> NoWaybill, tracked |-> "", at |-> 0]

Idle == [stage |-> "idle", units |-> NoUnits, waybill |-> NoWaybill]

(* A confirmed order that has shipped nothing.                             *)
ParcelsInit ==
    /\ order \in [status : {"confirmed"}, lines : {b \in Boxes : \A l \in Lines : b[l] > 0}]
    /\ parcel = [p \in ParcelIds |-> NoParcel]
    /\ call = [c \in Callers |-> Idle]
    /\ labels = {}
    /\ announced = NoUnits
    /\ undone = {}

-----------------------------------------------------------------------------
With(a, b) == [l \in Lines |-> a[l] + b[l]]
Without(a, b) == [l \in Lines |-> a[l] - b[l]]

(* shippedByLine: what has gone out of each line.  The units of a          *)
(* cancelled parcel are owed again.                                        *)
shippedByLine(parcels) ==
    [l \in Lines |-> Total([p \in ParcelIds |-> parcels[p].units[l]],
        {p \in ParcelIds : parcels[p].status \in {"shipped", "delivered"}})]

Units(box) == Total(box, Lines)

(* shippingState counts units of the order, not lines.                     *)
shippingState(lines, parcels) ==
    LET shipped == Units(shippedByLine(parcels))
    IN  IF shipped = 0 THEN "confirmed"
        ELSE IF shipped >= Units(lines) THEN "shipped"
        ELSE "partial"

shippableOrder == order.status \in {"confirmed", "partial"}

Owed == Without(order.lines, shippedByLine(parcel))

(* resolveShipLines: an empty request is everything the order still owes.  *)
Resolved(want) == IF want = NoUnits THEN Owed ELSE want

(* Create up to provider.Ship: nothing is locked.                          *)
StartCreate(c, want) ==
    /\ call[c].stage = "idle"
    /\ shippableOrder
    /\ \A l \in Lines : want[l] <= Owed[l]
    /\ Resolved(want) # NoUnits
    /\ call' = [call EXCEPT ![c] = [Idle EXCEPT !.stage = "asking", !.units = Resolved(want)]]
    /\ UNCHANGED <<order, parcel, labels, announced, undone>>

(* The carrier books the box and its answer arrives.                       *)
CarrierBooks(c, w) ==
    /\ call[c].stage = "asking"
    /\ w \in Waybills \ labels /\ \A v \in Waybills : v < w => v \in labels
    /\ labels' = labels \cup {w}
    /\ call' = [call EXCEPT ![c].stage = "booked", ![c].waybill = w]
    /\ UNCHANGED <<order, parcel, announced, undone>>

(* The carrier refuses, its answer is lost, or the process dies: nothing   *)
(* is recorded, and a label may exist that no parcel carries.              *)
Abandon(c) ==
    /\ call[c].stage # "idle"
    /\ call' = [call EXCEPT ![c] = Idle]
    /\ UNCHANGED <<order, parcel, labels, announced, undone>>

(* Mutant: the box is held against what the call read, not against now.    *)
checkedBeforeBooking(c) == \A l \in Lines : call[c].units[l] <= order.lines[l]

(* checkShipLines, under the lock.                                         *)
checkShipLines(c) == \A l \in Lines : call[c].units[l] <= Owed[l]

(* The next id of the sequence.                                            *)
Fresh(p) == /\ parcel[p].status = "none"
            /\ \A q \in ParcelIds : q < p => parcel[q].status # "none"

(* Create's transaction.                                                   *)
Record(c) ==
    /\ call[c].stage = "booked"
    /\ shippableOrder
    /\ checkShipLines(c)
    /\ \E p \in ParcelIds :
          /\ Fresh(p)
          /\ parcel' = [parcel EXCEPT ![p] =
                [parcel[p] EXCEPT !.status = "shipped", !.units = call[c].units, !.waybill = call[c].waybill]]
    /\ order' = [order EXCEPT !.status = shippingState(order.lines, parcel')]
    /\ announced' = With(announced, call[c].units)
    /\ call' = [call EXCEPT ![c] = Idle]
    /\ UNCHANGED <<labels, undone>>

(* Mutant: only an order that was fully shipped is looked at again.        *)
rederiveShippedOnly(parcels) ==
    order' = [order EXCEPT !.status =
                  IF @ = "shipped" THEN shippingState(order.lines, parcels) ELSE @]

(* rederiveAfterUnshipping: only the statuses that parcels decide.         *)
rederiveAfterUnshipping(parcels) ==
    order' = [order EXCEPT !.status =
                  IF @ \in {"shipped", "partial"} THEN shippingState(order.lines, parcels) ELSE @]

(* Mutant: the removal of a cancelled parcel is announced once more.       *)
DeleteAnnounces(p) ==
    /\ parcel[p].status \in {"shipped", "delivered", "cancelled"}
    /\ order.status # "delivered"
    /\ parcel' = [parcel EXCEPT ![p] = [NoParcel EXCEPT !.status = "deleted"]]
    /\ rederiveAfterUnshipping(parcel')
    /\ announced' = Without(announced, parcel[p].units)
    /\ UNCHANGED <<call, labels, undone>>

(* Delete: a parcel recorded in error, whatever became of it.              *)
Delete(p) ==
    /\ parcel[p].status \in {"shipped", "delivered", "cancelled"}
    /\ order.status # "delivered"
    /\ parcel' = [parcel EXCEPT ![p] = [NoParcel EXCEPT !.status = "deleted"]]
    /\ rederiveAfterUnshipping(parcel')
    /\ announced' = IF parcel[p].status = "cancelled" THEN announced
                    ELSE Without(announced, parcel[p].units)
    /\ UNCHANGED <<call, labels, undone>>

(* cancelLocked, for Cancel and for a carrier that reports it.             *)
cancelLocked(p) ==
    /\ parcel[p].status = "shipped"
    /\ order.status # "delivered"
    /\ parcel' = [parcel EXCEPT ![p].status = "cancelled"]
    /\ rederiveAfterUnshipping(parcel')
    /\ announced' = Without(announced, parcel[p].units)
    /\ UNCHANGED <<call, labels, undone>>

Cancel(p) == cancelLocked(p)

(* A report that says something: the parcel is on its way, it does not     *)
(* have the status already, and nothing newer was applied.                 *)
Tracks(p, status, at) ==
    /\ parcel[p].status = "shipped"
    /\ parcel[p].tracked \notin {"returned", status}
    /\ at >= parcel[p].at

(* Track, of a report that is applied.  The order is delivered with the    *)
(* last parcel on its way, once everything has shipped.                    *)
ApplyReport(p, status, at) ==
    /\ Tracks(p, status, at)
    /\ status # "cancelled"
    /\ parcel' = [parcel EXCEPT ![p] =
          [parcel[p] EXCEPT !.status = IF status = "delivered" THEN "delivered" ELSE @,
                            !.tracked = status, !.at = at]]
    /\ order' = [order EXCEPT !.status =
          IF /\ status = "delivered" /\ @ = "shipped"
             /\ \A q \in ParcelIds : parcel'[q].status # "shipped"
          THEN "delivered" ELSE @]
    /\ UNCHANGED <<call, labels, announced, undone>>

(* Any other report is answered and changes nothing.                       *)
Track(p, status, at) ==
    \/ ApplyReport(p, status, at)
    \/ Tracks(p, status, at) /\ status = "cancelled" /\ cancelLocked(p)

-----------------------------------------------------------------------------
(* Mutant: the parcels of a delivered order stay as they were.             *)
MarkDeliveredOrderOnly ==
    /\ order.status = "shipped"
    /\ order' = [order EXCEPT !.status = "delivered"]
    /\ UNCHANGED <<parcel, call, labels, announced, undone>>

(* MarkDelivered: the operator's word, for every parcel still on its way.  *)
MarkDelivered ==
    /\ order.status = "shipped"
    /\ order' = [order EXCEPT !.status = "delivered"]
    /\ parcel' = [p \in ParcelIds |->
          IF parcel[p].status = "shipped" THEN [parcel[p] EXCEPT !.status = "delivered"] ELSE parcel[p]]
    /\ UNCHANGED <<call, labels, announced, undone>>

(* MarkUndelivered takes back every delivered parcel of the order.         *)
MarkUndelivered ==
    /\ order.status = "delivered"
    /\ order' = [order EXCEPT !.status = "shipped"]
    /\ parcel' = [p \in ParcelIds |->
          IF parcel[p].status = "delivered"
          THEN [parcel[p] EXCEPT !.status = "shipped",
                                 !.tracked = IF @ = "delivered" THEN "" ELSE @]
          ELSE parcel[p]]
    /\ undone' = undone \cup {p \in ParcelIds : parcel[p].status = "delivered"}
    /\ UNCHANGED <<call, labels, announced>>

(* Orders.Cancel of an order that has sent nothing.                        *)
CancelOrder ==
    /\ order.status = "confirmed"
    /\ order' = [order EXCEPT !.status = "cancelled"]
    /\ UNCHANGED <<parcel, call, labels, announced, undone>>

(* EditLines: quantities change, and a line at 0 is gone with what         *)
(* cancelled parcels held of it.  A line that an edit adds is another line *)
(* and left out.                                                           *)
EditLines(lines) ==
    /\ order.status = "confirmed"
    /\ lines # NoUnits /\ lines # order.lines
    /\ \A l \in Lines : order.lines[l] = 0 => lines[l] = 0
    /\ order' = [order EXCEPT !.lines = lines]
    /\ parcel' = [p \in ParcelIds |->
          [parcel[p] EXCEPT !.units = [l \in Lines |-> IF lines[l] = 0 THEN 0 ELSE @[l]]]]
    /\ UNCHANGED <<call, labels, announced, undone>>

Operators ==
    \/ MarkDelivered \/ MarkUndelivered \/ CancelOrder
    \/ \E p \in ParcelIds : Delete(p) \/ Cancel(p)
    \/ \E lines \in Boxes : EditLines(lines)

Shipping(c) ==
    \/ \E want \in Boxes : StartCreate(c, want)
    \/ \E w \in Waybills : CarrierBooks(c, w)
    \/ Record(c) \/ Abandon(c)

ParcelsNext ==
    \/ \E c \in Callers : Shipping(c)
    \/ Operators
    \/ \E p \in ParcelIds, status \in Tracking, at \in 1..MaxAt : Track(p, status, at)

ParcelsSpec == ParcelsInit /\ [][ParcelsNext]_parcelVars

-----------------------------------------------------------------------------
ParcelsTypeOK ==
    /\ order \in [status : {"confirmed", "partial", "shipped", "delivered", "cancelled"}, lines : Boxes]
    /\ parcel \in [ParcelIds -> ParcelRows]
    /\ call \in [Callers -> Calls]
    /\ labels \subseteq Waybills
    /\ announced \in Boxes
    /\ undone \subseteq ParcelIds

(* "The only place the shipping axis of orders.status is written, which is *)
(* what stops the status and the parcels disagreeing": whatever order      *)
(* shipments, cancellations, deletions, reports and corrections come in,   *)
(* the order says what its live parcels add up to.                         *)
StatusFollowsParcels ==
    IF order.status \in {"cancelled", "delivered"}
    THEN shippingState(order.lines, parcel) = (IF order.status = "cancelled" THEN "confirmed" ELSE "shipped")
    ELSE order.status = shippingState(order.lines, parcel)

(* Two Creates that read the same owed units, or one that outlives a       *)
(* cancellation or an edit, never send a unit more than was ordered.       *)
NothingShipsTwice ==
    \A l \in Lines : shippedByLine(parcel)[l] <= order.lines[l]

(* An order everything of which has shipped is delivered exactly when no   *)
(* parcel of it is on its way, whoever said so: the operator for the whole *)
(* order, or the carrier parcel by parcel.                                 *)
DeliveredWithItsParcels ==
    order.status \in {"shipped", "delivered"} =>
        (order.status = "delivered" <=> \A p \in ParcelIds : parcel[p].status # "shipped")

(* A subscriber that adds up what order.shipped announces and takes off    *)
(* what order.unshipped does knows what is out.                            *)
AnnouncedIsOut == announced = shippedByLine(parcel)
=============================================================================
