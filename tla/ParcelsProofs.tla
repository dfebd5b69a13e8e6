---------------------------- MODULE ParcelsProofs ----------------------------
(***************************************************************************)
(* What holds of an order's parcels, and of what Shiprocket says of them,  *)
(* for any lines, quantities, parcels, requests that ship, posts and       *)
(* polls: the order says what its parcels add up to, nothing ships twice,  *)
(* and what is out is what was announced.                                  *)
(***************************************************************************)
EXTENDS ShiprocketTracking, TotalsProofs

Live == {"shipped", "delivered"}

(* What a parcel adds to what has gone out of a line.                      *)
Share(parcels, l) ==
    [p \in ParcelIds |-> IF parcels[p].status \in Live THEN parcels[p].units[l] ELSE 0]

Out == shippedByLine(parcel)

(* A box on its way, or about to be booked, holds something: with its last *)
(* parcel an order has always sent units, and without it fewer.            *)
NoneEmpty ==
    /\ \A p \in ParcelIds : parcel[p].status \in Live => parcel[p].units # NoUnits
    /\ \A c \in Callers : call[c].stage # "idle" => call[c].units # NoUnits

(* The inductive invariant of an order's parcels.                          *)
ParcelsInv ==
    /\ ParcelsTypeOK
    /\ NoneEmpty
    /\ NothingShipsTwice
    /\ StatusFollowsParcels
    /\ DeliveredWithItsParcels
    /\ AnnouncedIsOut

-----------------------------------------------------------------------------
TrackerTypes ==
    /\ journey \in [Waybills -> Seq(Tracking)]
    /\ \A w \in Waybills : Len(journey[w]) <= MaxScans
    /\ row \in [Waybills -> Rows]
    /\ work \in [Workers -> Works]
    /\ \A a \in Workers : work[a].stage # "idle" =>
          work[a].waybill \in Waybills /\ work[a].status \in Tracking /\ work[a].at \in 1..MaxAt

Booked(c, w) == call[c].stage = "booked" /\ call[c].waybill = w

Recorded(p, w) == parcel[p].waybill = w /\ parcel[p].status \in {"shipped", "delivered", "cancelled"}

(* A waybill is one box's: of the call that booked it until that call has  *)
(* recorded it, and of one parcel then.                                    *)
WaybillsOnce ==
    /\ \A w \in Waybills, c, d \in Callers : Booked(c, w) /\ Booked(d, w) => c = d
    /\ \A w \in Waybills, p, q \in ParcelIds : Recorded(p, w) /\ Recorded(q, w) => p = q
    /\ \A w \in Waybills, c \in Callers, p \in ParcelIds : ~(Booked(c, w) /\ Recorded(p, w))
    /\ \A w \in Waybills \ labels :
          (\A c \in Callers : ~Booked(c, w)) /\ \A p \in ParcelIds : ~Recorded(p, w)

(* What is not recorded does not travel, and a journey ends once.          *)
JourneysEnd ==
    /\ \A w \in Waybills \ labels : journey[w] = <<>>
    /\ \A w \in Waybills, c \in Callers : Booked(c, w) =>
          \A i \in DOMAIN journey[w] : journey[w][i] = "cancelled"
    /\ \A w \in Waybills : \A i \in DOMAIN journey[w] : journey[w][i] \in terminal => i = Len(journey[w])

(* With times that can be read, a time says which scan it was of.          *)
Stamped(w, status, at) == \E i \in DOMAIN journey[w] : at = 2 * i /\ status = journey[w][i]

WorksStamped ==
    \A a \in Workers : work[a].stage # "idle" => Stamped(work[a].waybill, work[a].status, work[a].at)

RowsStamped == \A w \in Waybills : row[w].status # "" => Stamped(w, row[w].status, row[w].at)

NewRows == \A p \in ParcelIds : parcel[p].status = "none" => parcel[p].at = 0 /\ parcel[p].tracked = ""

ParcelsStamped ==
    \A w \in Waybills, p \in ParcelIds : Recorded(p, w) =>
        \/ parcel[p].at = 0 /\ parcel[p].tracked = ""
        \/ Stamped(w, parcel[p].tracked, parcel[p].at)
        \/ p \in undone

(* The engine was told what a worker is about to write, and what it wrote. *)
Told(w, status) ==
    status \in terminal \ {"cancelled"} =>
        \A p \in ParcelIds : Recorded(p, w) =>
            parcel[p].status # "shipped" \/ parcel[p].tracked = status \/ p \in undone

TellsFirst ==
    /\ \A a \in Workers : work[a].stage = "saving" => Told(work[a].waybill, work[a].status)
    /\ \A w \in Waybills : Told(w, row[w].status)

(* The inductive invariant of what is said of the parcels, where every     *)
(* time can be read.                                                       *)
DatedInv ==
    /\ WaybillsOnce /\ JourneysEnd
    /\ WorksStamped /\ RowsStamped /\ NewRows /\ ParcelsStamped
    /\ TellsFirst

-----------------------------------------------------------------------------
(* Sums of parcels and of units.                                           *)

LEMMA ParcelBounds ==
    /\ IsFiniteSet(Lines) /\ IsFiniteSet(ParcelIds)
    /\ MaxQty \in Nat /\ MaxAt \in Nat /\ MaxAt > 0
    /\ ParcelIds \subseteq Nat /\ \A w \in Waybills : w # NoWaybill
    /\ 0..MaxQty \subseteq Nat /\ NoUnits \in Boxes
  BY ParcelsAssumption DEF NoWaybill, NoUnits, Boxes

LEMMA RowTypes ==
    ASSUME NEW r \in ParcelRows
    PROVE  /\ r.units \in Boxes
           /\ \A l \in Lines : r.units[l] \in Nat
           /\ r.status \in {"none", "shipped", "delivered", "cancelled", "deleted"}
           /\ r.waybill \in Waybills \cup {NoWaybill}
           /\ r.tracked \in Tracking \cup {""}
           /\ r.at \in 0..MaxAt
  BY ParcelBounds DEF ParcelRows, Boxes

(* What has gone out of a line is the sum of the parcels' shares of it.    *)
LEMMA OutIs ==
    ASSUME NEW parcels \in [ParcelIds -> ParcelRows], NEW l \in Lines
    PROVE  /\ shippedByLine(parcels)[l] = Total(Share(parcels, l), ParcelIds)
           /\ shippedByLine(parcels)[l] \in Nat
           /\ \A p \in ParcelIds : Share(parcels, l)[p] \in Nat
<1> DEFINE f == [p \in ParcelIds |-> parcels[p].units[l]]
           T == {p \in ParcelIds : parcels[p].status \in {"shipped", "delivered"}}
<1>1. \A p \in ParcelIds : f[p] \in Nat
  BY RowTypes
<1>2. \A p \in ParcelIds : Share(parcels, l)[p] \in Nat
  BY <1>1 DEF Share
<1>3. /\ \A p \in T : f[p] \in Nat /\ Share(parcels, l)[p] = f[p]
      /\ \A p \in ParcelIds \ T : Share(parcels, l)[p] = 0
  BY <1>1 DEF Share, Live
<1>4. Total(f, T) = Total(Share(parcels, l), ParcelIds)
  <2>1. T \in SUBSET ParcelIds /\ IsFiniteSet(ParcelIds)
    BY ParcelBounds
  <2>2. PICK g : g = Share(parcels, l)
    OBVIOUS
  <2>3. (\A p \in T : f[p] \in Nat /\ g[p] = f[p]) /\ \A p \in ParcelIds \ T : g[p] = 0
    BY <1>3, <2>2
  <2> HIDE DEF f, T
  <2>4. Total(f, T) = Total(g, ParcelIds)
    BY <2>1, <2>3, TotalOfPart
  <2>5. QED
    BY <2>2, <2>4
<1>5. shippedByLine(parcels)[l] = Total(f, T)
  BY DEF shippedByLine
<1>6. Total(Share(parcels, l), ParcelIds) \in Nat
  BY <1>2, ParcelBounds, TotalNat
<1>7. QED
  BY <1>2, <1>4, <1>5, <1>6

LEMMA OutSame ==
    ASSUME NEW parcels \in [ParcelIds -> ParcelRows], NEW next \in [ParcelIds -> ParcelRows],
           \A p \in ParcelIds, l \in Lines : Share(next, l)[p] = Share(parcels, l)[p]
    PROVE  shippedByLine(next) = shippedByLine(parcels)
<1>1. ASSUME NEW l \in Lines
      PROVE  shippedByLine(next)[l] = shippedByLine(parcels)[l]
  <2>1. PICK f, g : f = Share(parcels, l) /\ g = Share(next, l)
    OBVIOUS
  <2>2. Total(f, ParcelIds) = Total(g, ParcelIds)
    <3>1. IsFiniteSet(ParcelIds) /\ \A p \in ParcelIds : f[p] = g[p]
      BY <2>1, ParcelBounds
    <3>2. QED
      BY <3>1, TotalSame
  <2>3. QED
    BY <2>1, <2>2, OutIs
<1>2. QED
  BY <1>1 DEF shippedByLine

LEMMA OutChanges ==
    ASSUME NEW parcels \in [ParcelIds -> ParcelRows], NEW next \in [ParcelIds -> ParcelRows],
           NEW p \in ParcelIds, NEW l \in Lines,
           \A q \in ParcelIds \ {p} : next[q] = parcels[q]
    PROVE  shippedByLine(next)[l] = shippedByLine(parcels)[l] - Share(parcels, l)[p] + Share(next, l)[p]
<1>1. /\ \A q \in ParcelIds : Share(parcels, l)[q] \in Int /\ Share(next, l)[q] \in Int
      /\ \A q \in ParcelIds \ {p} : Share(parcels, l)[q] = Share(next, l)[q]
  <2>1. \A q \in ParcelIds : Share(parcels, l)[q] \in Nat /\ Share(next, l)[q] \in Nat
    BY OutIs
  <2>2. \A q \in ParcelIds \ {p} : Share(parcels, l)[q] = Share(next, l)[q]
    BY DEF Share
  <2>3. QED
    BY <2>1, <2>2
<1>2. Total(Share(next, l), ParcelIds) =
         Total(Share(parcels, l), ParcelIds) - Share(parcels, l)[p] + Share(next, l)[p]
  <2>1. PICK f, g : f = Share(parcels, l) /\ g = Share(next, l)
    OBVIOUS
  <2>2. /\ IsFiniteSet(ParcelIds)
        /\ \A q \in ParcelIds : f[q] \in Int /\ g[q] \in Int
        /\ \A q \in ParcelIds \ {p} : f[q] = g[q]
    BY <1>1, <2>1, ParcelBounds
  <2>3. Total(g, ParcelIds) = Total(f, ParcelIds) - f[p] + g[p]
    BY <2>2, TotalChanges
  <2>4. QED
    BY <2>1, <2>3
<1>3. QED
  BY <1>2, OutIs

(* A box that is within another and holds as many units is the other.      *)
LEMMA UnitsOfBoxes ==
    ASSUME NEW a, NEW b, \A l \in Lines : a[l] \in Nat /\ b[l] \in Nat /\ a[l] <= b[l]
    PROVE  /\ Units(a) \in Nat /\ Units(b) \in Nat
           /\ Units(a) = 0 <=> \A l \in Lines : a[l] = 0
           /\ Units(a) >= Units(b) <=> \A l \in Lines : a[l] = b[l]
<1>1. Units(a) \in Nat /\ Units(b) \in Nat
  BY ParcelBounds, TotalNat DEF Units
<1>2. Units(a) = 0 <=> \A l \in Lines : a[l] = 0
  BY ParcelBounds, TotalZero DEF Units
<1>3. ASSUME \A l \in Lines : a[l] = b[l]
      PROVE  Units(a) = Units(b)
  BY <1>3, ParcelBounds, TotalSame DEF Units
<1>4. ASSUME NEW l \in Lines, a[l] # b[l]
      PROVE  Units(a) < Units(b)
  <2>1. a[l] < b[l]
    BY <1>4
  <2>2. \A k \in Lines : a[k] \in Int /\ b[k] \in Int /\ a[k] <= b[k]
    OBVIOUS
  <2>3. QED
    BY <2>1, <2>2, ParcelBounds, TotalGreater DEF Units
<1>5. Units(a) >= Units(b) <=> \A l \in Lines : a[l] = b[l]
  BY <1>1, <1>3, <1>4
<1>6. QED
  BY <1>1, <1>2, <1>5

(* What the parcels say of the order.                                      *)
LEMMA StateIs ==
    ASSUME NEW lines \in Boxes, NEW parcels \in [ParcelIds -> ParcelRows],
           \A l \in Lines : shippedByLine(parcels)[l] <= lines[l]
    PROVE  /\ shippingState(lines, parcels) \in {"confirmed", "partial", "shipped"}
           /\ shippingState(lines, parcels) = "confirmed" <=> \A l \in Lines : shippedByLine(parcels)[l] = 0
           /\ shippingState(lines, parcels) = "shipped" <=>
                 /\ \E l \in Lines : shippedByLine(parcels)[l] # 0
                 /\ \A l \in Lines : shippedByLine(parcels)[l] = lines[l]
<1>1. PICK s : s = shippedByLine(parcels)
  OBVIOUS
<1>2. \A l \in Lines : s[l] \in Nat /\ lines[l] \in Nat /\ s[l] <= lines[l]
  BY <1>1, OutIs, ParcelBounds DEF Boxes
<1>3. /\ Units(s) \in Nat /\ Units(lines) \in Nat
      /\ Units(s) = 0 <=> \A l \in Lines : s[l] = 0
      /\ Units(s) >= Units(lines) <=> \A l \in Lines : s[l] = lines[l]
  BY <1>2, UnitsOfBoxes
<1>4. shippingState(lines, parcels) =
         IF Units(s) = 0 THEN "confirmed" ELSE IF Units(s) >= Units(lines) THEN "shipped" ELSE "partial"
  BY <1>1 DEF shippingState
<1>5. QED
  BY <1>1, <1>3, <1>4

(* Nothing is out exactly when no parcel is.                               *)
LEMMA NothingOut ==
    ASSUME NEW parcels \in [ParcelIds -> ParcelRows],
           \A p \in ParcelIds : parcels[p].status \in Live => parcels[p].units # NoUnits
    PROVE  (\A l \in Lines : shippedByLine(parcels)[l] = 0) <=> \A p \in ParcelIds : parcels[p].status \notin Live
<1>1. \A l \in Lines : shippedByLine(parcels)[l] = 0 <=> \A p \in ParcelIds : Share(parcels, l)[p] = 0
  <2>1. SUFFICES ASSUME NEW l \in Lines
                 PROVE  shippedByLine(parcels)[l] = 0 <=> \A p \in ParcelIds : Share(parcels, l)[p] = 0
    OBVIOUS
  <2>2. PICK f : f = Share(parcels, l)
    OBVIOUS
  <2>3. /\ \A p \in ParcelIds : f[p] \in Nat
        /\ shippedByLine(parcels)[l] = Total(f, ParcelIds)
    BY <2>2, OutIs
  <2>4. IsFiniteSet(ParcelIds)
    BY ParcelBounds
  <2>5. Total(f, ParcelIds) = 0 <=> \A p \in ParcelIds : f[p] = 0
    BY <2>3, <2>4, TotalZero
  <2>6. QED
    BY <2>2, <2>3, <2>5
<1>2. ASSUME NEW p \in ParcelIds, parcels[p].status \in Live
      PROVE  \E l \in Lines : Share(parcels, l)[p] # 0
  <2>1. parcels[p].units \in Boxes /\ parcels[p].units # NoUnits
    BY <1>2, RowTypes
  <2>2. PICK l \in Lines : parcels[p].units[l] # 0
    BY <2>1 DEF Boxes, NoUnits
  <2>3. QED
    BY <1>2, <2>2 DEF Share
<1>3. \A p \in ParcelIds, l \in Lines : parcels[p].status \notin Live => Share(parcels, l)[p] = 0
  BY DEF Share
<1>4. QED
  BY <1>1, <1>2, <1>3

-----------------------------------------------------------------------------
(* Types, of all but what was announced: it is typed by what is out.       *)

PartTypes ==
    /\ order \in [status : {"confirmed", "partial", "shipped", "delivered", "cancelled"}, lines : Boxes]
    /\ parcel \in [ParcelIds -> ParcelRows]
    /\ call \in [Callers -> Calls]
    /\ labels \subseteq Waybills
    /\ undone \subseteq ParcelIds

LEMMA OrderTypes ==
    ASSUME PartTypes
    PROVE  /\ order.lines \in Boxes /\ \A l \in Lines : order.lines[l] \in Nat /\ order.lines[l] <= MaxQty
           /\ order.status \in {"confirmed", "partial", "shipped", "delivered", "cancelled"}
           /\ \A s, b : /\ [order EXCEPT !.status = s].status = s
                        /\ [order EXCEPT !.status = s].lines = order.lines
                        /\ [order EXCEPT !.lines = b].status = order.status
                        /\ [order EXCEPT !.lines = b].lines = b
<1>1. order \in [status : {"confirmed", "partial", "shipped", "delivered", "cancelled"}, lines : Boxes]
  BY DEF PartTypes
<1>2. order.lines \in [Lines -> 0..MaxQty]
  BY <1>1 DEF Boxes
<1>3. \A l \in Lines : order.lines[l] \in 0..MaxQty
  BY <1>2
<1>4. QED
  BY <1>1, <1>3, ParcelBounds DEF Boxes

LEMMA OwedTypes ==
    ASSUME PartTypes, NothingShipsTwice
    PROVE  Owed \in Boxes /\ \A l \in Lines : Owed[l] = order.lines[l] - Out[l] /\ Out[l] \in Nat
<1>1. \A l \in Lines : order.lines[l] \in Nat /\ order.lines[l] <= MaxQty
  BY OrderTypes
<1>2. \A l \in Lines : Out[l] \in Nat /\ Out[l] <= order.lines[l]
  BY OutIs DEF PartTypes, NothingShipsTwice, Out
<1>3. \A l \in Lines : order.lines[l] - Out[l] \in 0..MaxQty
  BY <1>1, <1>2, ParcelBounds
<1>4. Owed = [l \in Lines |-> order.lines[l] - Out[l]]
  BY DEF Owed, Without, Out
<1>5. QED
  BY <1>2, <1>3, <1>4 DEF Boxes

LEMMA IdleTypes == Idle \in Calls /\ Idle.stage = "idle"
  BY ParcelBounds DEF Idle, Calls

LEMMA NoParcelTypes ==
    NoParcel \in ParcelRows /\ [NoParcel EXCEPT !.status = "deleted"] \in ParcelRows
<1>1. 0 \in 0..MaxAt /\ NoUnits \in Boxes
  BY ParcelBounds
<1>2. QED
  BY <1>1 DEF NoParcel, ParcelRows

LEMMA PartTypesInit == ParcelsInit => PartTypes
<1> SUFFICES ASSUME ParcelsInit PROVE PartTypes
  OBVIOUS
<1>1. parcel \in [ParcelIds -> ParcelRows] /\ call \in [Callers -> Calls]
  BY NoParcelTypes, IdleTypes DEF ParcelsInit
<1>2. order \in [status : {"confirmed", "partial", "shipped", "delivered", "cancelled"}, lines : Boxes]
  BY DEF ParcelsInit
<1>3. QED
  BY <1>1, <1>2 DEF ParcelsInit, PartTypes

(* The verbs that only change what an order's status is.                   *)
LEMMA StatusTypes ==
    ASSUME PartTypes, NEW s \in {"confirmed", "partial", "shipped", "delivered", "cancelled"},
           order' = [order EXCEPT !.status = s]
    PROVE  /\ order' \in [status : {"confirmed", "partial", "shipped", "delivered", "cancelled"}, lines : Boxes]
           /\ order'.status = s /\ order'.lines = order.lines
  BY DEF PartTypes

LEMMA ShippingStates ==
    \A lines, parcels : shippingState(lines, parcels) \in {"confirmed", "partial", "shipped"}
  BY DEF shippingState

LEMMA ShippingTypes ==
    ASSUME PartTypes, NothingShipsTwice, NEW c \in Callers, Shipping(c)
    PROVE  PartTypes'
<1>1. call[c] \in Calls /\ call[c].units \in Boxes /\ call[c].waybill \in Waybills \cup {NoWaybill}
  BY DEF PartTypes, Calls
<1>2. ASSUME NEW want \in Boxes, StartCreate(c, want)
      PROVE  PartTypes'
  <2>1. Resolved(want) \in Boxes
    BY OwedTypes DEF Resolved
  <2>2. [Idle EXCEPT !.stage = "asking", !.units = Resolved(want)] \in Calls
    BY <2>1, IdleTypes DEF Calls
  <2>3. call' \in [Callers -> Calls]
    BY <1>2, <2>2 DEF StartCreate, PartTypes
  <2>4. QED
    BY <1>2, <2>3 DEF StartCreate, PartTypes
<1>3. ASSUME NEW w \in Waybills, CarrierBooks(c, w)
      PROVE  PartTypes'
  <2>1. [call[c] EXCEPT !.stage = "booked", !.waybill = w] \in Calls
    BY <1>1 DEF Calls
  <2>2. call' \in [Callers -> Calls]
    BY <1>3, <2>1 DEF CarrierBooks, PartTypes
  <2>3. QED
    BY <1>3, <2>2 DEF CarrierBooks, PartTypes
<1>4. ASSUME Record(c)
      PROVE  PartTypes'
  <2>1. PICK p \in ParcelIds :
          parcel' = [parcel EXCEPT ![p] =
             [parcel[p] EXCEPT !.status = "shipped", !.units = call[c].units, !.waybill = call[c].waybill]]
    BY <1>4 DEF Record
  <2>2. [parcel[p] EXCEPT !.status = "shipped", !.units = call[c].units, !.waybill = call[c].waybill]
           \in ParcelRows
    BY <1>1 DEF PartTypes, ParcelRows
  <2>3. parcel' \in [ParcelIds -> ParcelRows]
    BY <2>1, <2>2 DEF PartTypes
  <2>4. order' = [order EXCEPT !.status = shippingState(order.lines, parcel')]
    BY <1>4 DEF Record
  <2>5. order' \in [status : {"confirmed", "partial", "shipped", "delivered", "cancelled"}, lines : Boxes]
    BY <2>4, ShippingStates, StatusTypes
  <2>6. call' \in [Callers -> Calls]
    BY <1>4, IdleTypes DEF Record, PartTypes
  <2>7. QED
    BY <1>4, <2>3, <2>5, <2>6 DEF Record, PartTypes
<1>5. ASSUME Abandon(c)
      PROVE  PartTypes'
  <2>1. call' \in [Callers -> Calls]
    BY <1>5, IdleTypes DEF Abandon, PartTypes
  <2>2. QED
    BY <1>5, <2>1 DEF Abandon, PartTypes
<1>6. QED
  BY <1>2, <1>3, <1>4, <1>5 DEF Shipping

LEMMA RederivedTypes ==
    ASSUME PartTypes, NEW parcels, rederiveAfterUnshipping(parcels)
    PROVE  /\ order' \in [status : {"confirmed", "partial", "shipped", "delivered", "cancelled"}, lines : Boxes]
           /\ order'.lines = order.lines
           /\ order.status \in {"shipped", "partial"} => order'.status = shippingState(order.lines, parcels)
           /\ order.status \notin {"shipped", "partial"} => order'.status = order.status
<1>1. PICK s : s = IF order.status \in {"shipped", "partial"} THEN shippingState(order.lines, parcels)
                   ELSE order.status
  OBVIOUS
<1>2. s \in {"confirmed", "partial", "shipped", "delivered", "cancelled"}
  BY <1>1, ShippingStates, OrderTypes
<1>3. order' = [order EXCEPT !.status = s]
  BY <1>1 DEF rederiveAfterUnshipping
<1>4. QED
  BY <1>1, <1>2, <1>3, StatusTypes

LEMMA UnshipTypes ==
    ASSUME PartTypes, NEW p \in ParcelIds, Delete(p) \/ cancelLocked(p)
    PROVE  PartTypes'
<1>1. rederiveAfterUnshipping(parcel')
  BY DEF Delete, cancelLocked
<1>2. [parcel[p] EXCEPT !.status = "cancelled"] \in ParcelRows
  BY DEF PartTypes, ParcelRows
<1>3. parcel' \in [ParcelIds -> ParcelRows]
  BY <1>2, NoParcelTypes DEF Delete, cancelLocked, PartTypes
<1>4. QED
  BY <1>1, <1>3, RederivedTypes DEF Delete, cancelLocked, PartTypes

LEMMA Times == \A at \in 1..MaxAt : at \in 0..MaxAt
  BY ParcelBounds

(* A report that is applied changes one parcel, and not what it holds.     *)
LEMMA Applied ==
    ASSUME PartTypes, NEW p \in ParcelIds, NEW status \in Tracking, NEW at \in 0..MaxAt,
           ApplyReport(p, status, at)
    PROVE  /\ parcel' \in [ParcelIds -> ParcelRows]
           /\ \A q \in ParcelIds \ {p} : parcel'[q] = parcel[q]
           /\ parcel[p].status = "shipped" /\ parcel'[p].units = parcel[p].units
           /\ parcel'[p].status = IF status = "delivered" THEN "delivered" ELSE "shipped"
           /\ parcel'[p].waybill = parcel[p].waybill
           /\ parcel'[p].tracked = status /\ parcel'[p].at = at
<1>1. parcel[p] \in ParcelRows /\ parcel \in [ParcelIds -> ParcelRows] /\ parcel[p].status = "shipped"
  BY DEF PartTypes, ApplyReport, Tracks
<1>2. PICK s : s = IF status = "delivered" THEN "delivered" ELSE "shipped"
  OBVIOUS
<1>3. PICK r : r = [parcel[p] EXCEPT !.status = s, !.tracked = status, !.at = at]
  OBVIOUS
<1>4. /\ r \in ParcelRows /\ r.units = parcel[p].units /\ r.status = s /\ r.waybill = parcel[p].waybill
      /\ r.tracked = status /\ r.at = at
  BY <1>1, <1>2, <1>3 DEF ParcelRows
<1>5. parcel' = [parcel EXCEPT ![p] = r]
  <2>1. CASE status = "delivered"
    BY <1>1, <1>2, <1>3, <2>1 DEF ApplyReport
  <2>2. CASE status # "delivered"
    BY <1>1, <1>2, <1>3, <2>2 DEF ApplyReport
  <2>3. QED
    BY <2>1, <2>2
<1>6. QED
  BY <1>1, <1>2, <1>4, <1>5

LEMMA TrackTypes ==
    ASSUME PartTypes, NEW p \in ParcelIds, NEW status \in Tracking, NEW at \in 0..MaxAt, Track(p, status, at)
    PROVE  PartTypes'
<1>1. ASSUME ApplyReport(p, status, at)
      PROVE  PartTypes'
  <2>1. parcel' \in [ParcelIds -> ParcelRows]
    BY <1>1, Applied
  <2>2. \E s \in {"delivered", order.status} : order' = [order EXCEPT !.status = s]
    BY <1>1 DEF ApplyReport
  <2>3. order' \in [status : {"confirmed", "partial", "shipped", "delivered", "cancelled"}, lines : Boxes]
    BY <2>2, OrderTypes, StatusTypes
  <2>4. QED
    BY <1>1, <2>1, <2>3 DEF ApplyReport, PartTypes
<1>2. QED
  BY <1>1, UnshipTypes DEF Track

LEMMA OperatorTypes ==
    ASSUME PartTypes, Operators
    PROVE  PartTypes'
<1>1. ASSUME MarkDelivered
      PROVE  PartTypes'
  <2>1. \A p \in ParcelIds : [parcel[p] EXCEPT !.status = "delivered"] \in ParcelRows
    BY DEF PartTypes, ParcelRows
  <2>2. parcel' \in [ParcelIds -> ParcelRows]
    BY <1>1, <2>1 DEF MarkDelivered, PartTypes
  <2>3. QED
    BY <1>1, <2>2, StatusTypes DEF MarkDelivered, PartTypes
<1>2. ASSUME MarkUndelivered
      PROVE  PartTypes'
  <2>1. \A p \in ParcelIds :
           [parcel[p] EXCEPT !.status = "shipped", !.tracked = IF @ = "delivered" THEN "" ELSE @] \in ParcelRows
    BY DEF PartTypes, ParcelRows
  <2>2. parcel' \in [ParcelIds -> ParcelRows]
    BY <1>2, <2>1 DEF MarkUndelivered, PartTypes
  <2>3. QED
    BY <1>2, <2>2, StatusTypes DEF MarkUndelivered, PartTypes
<1>3. ASSUME CancelOrder
      PROVE  PartTypes'
  BY <1>3, StatusTypes DEF CancelOrder, PartTypes
<1>4. ASSUME NEW lines \in Boxes, EditLines(lines)
      PROVE  PartTypes'
  <2>1. \A p \in ParcelIds : [l \in Lines |-> IF lines[l] = 0 THEN 0 ELSE parcel[p].units[l]] \in Boxes
    <3>1. \A p \in ParcelIds : parcel[p].units \in Boxes
      BY RowTypes DEF PartTypes
    <3>2. 0 \in 0..MaxQty
      BY ParcelBounds
    <3>3. QED
      BY <3>1, <3>2 DEF Boxes
  <2>2. \A p \in ParcelIds :
           [parcel[p] EXCEPT !.units = [l \in Lines |-> IF lines[l] = 0 THEN 0 ELSE @[l]]] \in ParcelRows
    BY <2>1 DEF PartTypes, ParcelRows
  <2>3. parcel' \in [ParcelIds -> ParcelRows]
    BY <1>4, <2>2 DEF EditLines
  <2>4. order' \in [status : {"confirmed", "partial", "shipped", "delivered", "cancelled"}, lines : Boxes]
    BY <1>4 DEF EditLines, PartTypes
  <2>5. QED
    BY <1>4, <2>3, <2>4 DEF EditLines, PartTypes
<1>5. QED
  BY <1>1, <1>2, <1>3, <1>4, UnshipTypes DEF Operators, Cancel

LEMMA PartTypesNext == PartTypes /\ NothingShipsTwice /\ [ParcelsNext]_parcelVars => PartTypes'
<1> SUFFICES ASSUME PartTypes, NothingShipsTwice, [ParcelsNext]_parcelVars PROVE PartTypes'
  OBVIOUS
<1>1. CASE UNCHANGED parcelVars
  BY <1>1 DEF parcelVars, PartTypes
<1>2. QED
  BY <1>1, ShippingTypes, OperatorTypes, TrackTypes, Times DEF ParcelsNext

LEMMA AllTypes == PartTypes /\ NothingShipsTwice /\ AnnouncedIsOut => ParcelsTypeOK
<1> SUFFICES ASSUME PartTypes, NothingShipsTwice, AnnouncedIsOut PROVE ParcelsTypeOK
  OBVIOUS
<1>1. \A l \in Lines : Out[l] \in 0..MaxQty
  <2>1. \A l \in Lines : Out[l] \in Nat /\ Out[l] <= order.lines[l] /\ order.lines[l] \in Nat
                         /\ order.lines[l] <= MaxQty
    BY OrderTypes, OwedTypes DEF NothingShipsTwice, Out
  <2>2. QED
    BY <2>1, ParcelBounds
<1>2. Out = [l \in Lines |-> Out[l]]
  BY DEF Out, shippedByLine
<1>3. announced \in Boxes
  BY <1>1, <1>2 DEF AnnouncedIsOut, Out, Boxes
<1>4. QED
  BY <1>3 DEF PartTypes, ParcelsTypeOK

-----------------------------------------------------------------------------
(* An order and its parcels.                                               *)

CoreInv ==
    /\ PartTypes
    /\ NoneEmpty
    /\ NothingShipsTwice
    /\ StatusFollowsParcels
    /\ DeliveredWithItsParcels
    /\ AnnouncedIsOut

LEMMA CoreIsAll == CoreInv <=> ParcelsInv
  BY AllTypes DEF CoreInv, ParcelsInv, ParcelsTypeOK, PartTypes

(* What an order's status says of its parcels.                             *)
LEMMA StatusSays ==
    ASSUME CoreInv
    PROVE  /\ order.status \in {"confirmed", "cancelled"} <=> \A p \in ParcelIds : parcel[p].status \notin Live
           /\ order.status \in {"shipped", "delivered"} <=>
                 /\ \E p \in ParcelIds : parcel[p].status \in Live
                 /\ \A l \in Lines : Out[l] = order.lines[l]
           /\ \A l \in Lines : Out[l] \in Nat /\ order.lines[l] \in Nat /\ Out[l] <= order.lines[l]
           /\ order.status \in {"confirmed", "cancelled"} => \A l \in Lines : Out[l] = 0
<1> USE DEF CoreInv
<1>1. \A l \in Lines : Out[l] \in Nat /\ order.lines[l] \in Nat /\ Out[l] <= order.lines[l]
  BY OrderTypes, OwedTypes DEF NothingShipsTwice, Out
<1>2. PICK s : s = shippingState(order.lines, parcel)
  OBVIOUS
<1>3. /\ s \in {"confirmed", "partial", "shipped"}
      /\ s = "confirmed" <=> \A l \in Lines : Out[l] = 0
      /\ s = "shipped" <=> (\E l \in Lines : Out[l] # 0) /\ \A l \in Lines : Out[l] = order.lines[l]
  <2>1. order.lines \in Boxes /\ parcel \in [ParcelIds -> ParcelRows]
    BY OrderTypes DEF PartTypes
  <2>2. \A l \in Lines : shippedByLine(parcel)[l] <= order.lines[l]
    BY DEF NothingShipsTwice
  <2>3. QED
    BY <1>2, <2>1, <2>2, StateIs DEF Out
<1>4. (\A l \in Lines : Out[l] = 0) <=> \A p \in ParcelIds : parcel[p].status \notin Live
  BY NothingOut DEF PartTypes, NoneEmpty, Out
<1>5. /\ order.status \in {"confirmed", "partial", "shipped", "delivered", "cancelled"}
      /\ s = IF order.status = "cancelled" THEN "confirmed"
             ELSE IF order.status = "delivered" THEN "shipped" ELSE order.status
  BY <1>2, OrderTypes DEF StatusFollowsParcels
<1>6. order.status \in {"confirmed", "cancelled"} <=> s = "confirmed"
  BY <1>3, <1>5
<1>7. order.status \in {"shipped", "delivered"} <=> s = "shipped"
  BY <1>3, <1>5
<1>8. QED
  BY <1>1, <1>3, <1>4, <1>6, <1>7

LEMMA CoreInit == ParcelsInit => CoreInv
<1> SUFFICES ASSUME ParcelsInit PROVE CoreInv
  OBVIOUS
<1>1. PartTypes
  BY PartTypesInit
<1>2. \A p \in ParcelIds : parcel[p].status = "none"
  BY DEF ParcelsInit, NoParcel
<1>3. NoneEmpty
  BY <1>2, IdleTypes DEF ParcelsInit, NoneEmpty, Live
<1>4. \A l \in Lines : shippedByLine(parcel)[l] = 0
  BY <1>1, <1>2, <1>3, NothingOut DEF PartTypes, NoneEmpty, Live
<1>5. NothingShipsTwice
  BY <1>1, <1>4, OrderTypes DEF NothingShipsTwice
<1>6. order.lines \in Boxes /\ order.status = "confirmed"
  BY <1>1, OrderTypes DEF ParcelsInit
<1>7. shippingState(order.lines, parcel) = "confirmed"
  BY <1>1, <1>4, <1>5, <1>6, StateIs DEF PartTypes, NothingShipsTwice
<1>8. shippedByLine(parcel) = NoUnits
  BY <1>4 DEF shippedByLine, NoUnits
<1>9. QED
  BY <1>1, <1>3, <1>5, <1>6, <1>7, <1>8
     DEF CoreInv, StatusFollowsParcels, DeliveredWithItsParcels, AnnouncedIsOut, ParcelsInit

(* What changes neither the order nor a parcel.                            *)
LEMMA CallsOnly ==
    ASSUME CoreInv, PartTypes', NoneEmpty', UNCHANGED <<order, parcel, announced>>
    PROVE  CoreInv'
  BY DEF CoreInv, NothingShipsTwice, StatusFollowsParcels, DeliveredWithItsParcels, AnnouncedIsOut,
         shippingState, shippedByLine, Units

(* What moves no unit out or back.                                         *)
MovesNothing ==
    /\ order'.lines = order.lines /\ call' = call /\ announced' = announced
    /\ \A p \in ParcelIds : /\ (parcel'[p].status \in Live) = (parcel[p].status \in Live)
                            /\ parcel'[p].units = parcel[p].units

LEMMA NothingMoves ==
    ASSUME CoreInv, PartTypes', MovesNothing
    PROVE  /\ NoneEmpty' /\ NothingShipsTwice' /\ AnnouncedIsOut'
           /\ shippingState(order'.lines, parcel') = shippingState(order.lines, parcel)
<1> USE DEF MovesNothing
<1>1. NoneEmpty'
  BY DEF CoreInv, NoneEmpty
<1>2. shippedByLine(parcel') = shippedByLine(parcel)
  <2>1. PICK next : next = parcel'
    OBVIOUS
  <2>2. parcel \in [ParcelIds -> ParcelRows] /\ next \in [ParcelIds -> ParcelRows]
    BY <2>1 DEF CoreInv, PartTypes
  <2>3. \A p \in ParcelIds, l \in Lines : Share(next, l)[p] = Share(parcel, l)[p]
    BY <2>1 DEF Share
  <2>4. shippedByLine(next) = shippedByLine(parcel)
    BY <2>2, <2>3, OutSame
  <2>5. QED
    BY <2>1, <2>4
<1>3. NothingShipsTwice' /\ AnnouncedIsOut'
  BY <1>2 DEF CoreInv, NothingShipsTwice, AnnouncedIsOut
<1>4. shippingState(order'.lines, parcel') = shippingState(order.lines, parcel)
  BY <1>2 DEF shippingState
<1>5. QED
  BY <1>1, <1>3, <1>4

(* A box that is recorded is of what the order still owed.                 *)
LEMMA RecordKeeps ==
    ASSUME CoreInv, PartTypes', NEW c \in Callers, Record(c)
    PROVE  CoreInv'
<1>1. PICK p \in ParcelIds :
        /\ Fresh(p)
        /\ parcel' = [parcel EXCEPT ![p] =
             [parcel[p] EXCEPT !.status = "shipped", !.units = call[c].units, !.waybill = call[c].waybill]]
  BY DEF Record
<1>2. PICK next : next = parcel'
  OBVIOUS
<1>3. /\ parcel \in [ParcelIds -> ParcelRows] /\ next \in [ParcelIds -> ParcelRows]
      /\ \A q \in ParcelIds \ {p} : next[q] = parcel[q]
      /\ next[p].status = "shipped" /\ next[p].units = call[c].units
      /\ parcel[p].status = "none"
  <2>1. parcel \in [ParcelIds -> ParcelRows] /\ parcel' \in [ParcelIds -> ParcelRows]
    BY DEF CoreInv, PartTypes
  <2>2. PICK r : r = [parcel[p] EXCEPT !.status = "shipped", !.units = call[c].units, !.waybill = call[c].waybill]
    OBVIOUS
  <2>3. parcel'[p].status = "shipped" /\ parcel'[p].units = call[c].units
    <3>1. parcel' = [parcel EXCEPT ![p] = r]
      BY <1>1, <2>2
    <3>2. parcel'[p] = r
      BY <2>1, <3>1
    <3>3. r.status = "shipped" /\ r.units = call[c].units
      BY <2>1, <2>2 DEF ParcelRows
    <3>4. QED
      BY <3>2, <3>3
  <2>4. \A q \in ParcelIds \ {p} : parcel'[q] = parcel[q]
    BY <1>1, <2>1
  <2>5. QED
    BY <1>1, <1>2, <2>1, <2>3, <2>4 DEF Fresh
<1>4. /\ order' = [order EXCEPT !.status = shippingState(order.lines, next)]
      /\ order'.lines = order.lines /\ order'.status = shippingState(order.lines, next)
      /\ order.lines \in Boxes
  BY <1>2, OrderTypes DEF Record, CoreInv
<1>5. call[c].units # NoUnits /\ \A l \in Lines : call[c].units[l] \in Nat
  <2>1. call[c].units \in Boxes
    BY DEF CoreInv, PartTypes, Calls
  <2>2. QED
    BY <2>1, ParcelBounds DEF Record, CoreInv, NoneEmpty, Boxes
<1>6. \A l \in Lines : shippedByLine(next)[l] = Out[l] + call[c].units[l]
  <2>1. SUFFICES ASSUME NEW l \in Lines PROVE shippedByLine(next)[l] = Out[l] + call[c].units[l]
    OBVIOUS
  <2>2. Share(parcel, l)[p] = 0 /\ Share(next, l)[p] = call[c].units[l]
    BY <1>3 DEF Share, Live
  <2>3. shippedByLine(next)[l] = shippedByLine(parcel)[l] - Share(parcel, l)[p] + Share(next, l)[p]
    BY <1>3, OutChanges
  <2>4. Out[l] \in Nat
    BY StatusSays
  <2>5. QED
    BY <1>5, <2>2, <2>3, <2>4 DEF Out
<1>7. NoneEmpty'
  <2>1. \A q \in ParcelIds : parcel'[q].status \in Live => parcel'[q].units # NoUnits
    BY <1>2, <1>3, <1>5 DEF CoreInv, NoneEmpty
  <2>2. \A d \in Callers : call'[d] = Idle \/ call'[d] = call[d]
    BY DEF Record, CoreInv, PartTypes
  <2>3. QED
    BY <2>1, <2>2, IdleTypes DEF CoreInv, NoneEmpty
<1>8. \A l \in Lines : shippedByLine(next)[l] <= order.lines[l]
  <2>1. \A l \in Lines : call[c].units[l] <= Owed[l] /\ Owed[l] = order.lines[l] - Out[l] /\ Out[l] \in Nat
    BY OwedTypes DEF Record, checkShipLines, CoreInv
  <2>2. \A l \in Lines : order.lines[l] \in Nat
    BY OrderTypes DEF CoreInv
  <2>3. QED
    BY <1>5, <1>6, <2>1, <2>2
<1>9. NothingShipsTwice'
  BY <1>2, <1>4, <1>8 DEF NothingShipsTwice
<1>10. order'.status \in {"confirmed", "partial", "shipped"}
  BY <1>4, ShippingStates
<1>11. StatusFollowsParcels'
  BY <1>2, <1>4, <1>10 DEF StatusFollowsParcels
<1>12. DeliveredWithItsParcels'
  BY <1>2, <1>3, <1>10 DEF DeliveredWithItsParcels
<1>13. AnnouncedIsOut'
  <2>1. announced' = With(announced, call[c].units) /\ announced = Out
    BY DEF Record, CoreInv, AnnouncedIsOut, Out
  <2>2. With(Out, call[c].units) = shippedByLine(next)
    BY <1>6 DEF With, shippedByLine
  <2>3. QED
    BY <1>2, <2>1, <2>2 DEF AnnouncedIsOut
<1>14. QED
  BY <1>7, <1>9, <1>11, <1>12, <1>13 DEF CoreInv

(* A parcel that is taken back, or out of the table, takes its units.      *)
LEMMA UnshipKeeps ==
    ASSUME CoreInv, PartTypes', NEW p \in ParcelIds, Delete(p) \/ cancelLocked(p)
    PROVE  CoreInv'
<1>1. PICK next : next = parcel'
  OBVIOUS
<1>2. /\ parcel \in [ParcelIds -> ParcelRows] /\ next \in [ParcelIds -> ParcelRows]
      /\ \A q \in ParcelIds \ {p} : next[q] = parcel[q]
  BY <1>1 DEF Delete, cancelLocked, CoreInv, PartTypes
<1>3. next[p].status \in {"deleted", "cancelled"}
  <2>1. [NoParcel EXCEPT !.status = "deleted"].status = "deleted"
    BY DEF NoParcel
  <2>2. [parcel[p] EXCEPT !.status = "cancelled"].status = "cancelled"
    BY <1>2 DEF ParcelRows
  <2>3. CASE Delete(p)
    BY <1>1, <2>1, <2>3 DEF Delete, CoreInv, PartTypes
  <2>4. CASE cancelLocked(p)
    BY <1>1, <2>2, <2>4 DEF cancelLocked, CoreInv, PartTypes
  <2>5. QED
    BY <2>3, <2>4
<1>4. /\ parcel[p].status \in Live \cup {"cancelled"} /\ order.status # "delivered"
      /\ UNCHANGED call /\ rederiveAfterUnshipping(next)
      /\ announced' = IF parcel[p].status = "cancelled" THEN announced ELSE Without(announced, parcel[p].units)
  BY <1>1 DEF Delete, cancelLocked, Live
<1>5. /\ order'.lines = order.lines /\ order.lines \in Boxes
      /\ order.status \in {"shipped", "partial"} => order'.status = shippingState(order.lines, next)
      /\ order.status \notin {"shipped", "partial"} => order'.status = order.status
  BY <1>4, RederivedTypes, OrderTypes DEF CoreInv
<1>6. \A l \in Lines : shippedByLine(next)[l] = Out[l] - Share(parcel, l)[p] /\ Share(parcel, l)[p] \in Nat
  <2>1. SUFFICES ASSUME NEW l \in Lines
                 PROVE  shippedByLine(next)[l] = Out[l] - Share(parcel, l)[p] /\ Share(parcel, l)[p] \in Nat
    OBVIOUS
  <2>2. Share(next, l)[p] = 0
    BY <1>3 DEF Share, Live
  <2>3. shippedByLine(next)[l] = shippedByLine(parcel)[l] - Share(parcel, l)[p] + Share(next, l)[p]
    BY <1>2, OutChanges
  <2>4. Out[l] \in Nat /\ Share(parcel, l)[p] \in Nat
    BY <1>2, OutIs DEF Out
  <2>5. QED
    BY <2>2, <2>3, <2>4 DEF Out
<1>7. \A l \in Lines : /\ Out[l] \in Nat /\ order.lines[l] \in Nat /\ Out[l] <= order.lines[l]
                       /\ shippedByLine(next)[l] \in Nat /\ shippedByLine(next)[l] <= Out[l]
  BY <1>2, <1>6, StatusSays, OutIs
<1>8. \A l \in Lines : shippedByLine(next)[l] <= order.lines[l]
  BY <1>7
<1>9. NoneEmpty'
  BY <1>1, <1>2, <1>3, <1>4 DEF CoreInv, NoneEmpty, Live
<1>10. NothingShipsTwice'
  BY <1>1, <1>5, <1>8 DEF NothingShipsTwice
<1>11. AnnouncedIsOut'
  <2>1. announced = Out
    BY DEF CoreInv, AnnouncedIsOut, Out
  <2>2. CASE parcel[p].status = "cancelled"
    <3>1. \A l \in Lines : shippedByLine(next)[l] = Out[l]
      BY <1>6, <1>7, <2>2 DEF Share, Live
    <3>2. shippedByLine(next) = Out
      BY <3>1 DEF shippedByLine, Out
    <3>3. QED
      BY <1>1, <1>4, <2>1, <2>2, <3>2 DEF AnnouncedIsOut
  <2>3. CASE parcel[p].status \in Live
    <3>1. \A l \in Lines : shippedByLine(next)[l] = Out[l] - parcel[p].units[l]
      BY <1>6, <2>3 DEF Share
    <3>2. shippedByLine(next) = Without(Out, parcel[p].units)
      BY <3>1 DEF shippedByLine, Without
    <3>3. announced' = Without(announced, parcel[p].units)
      BY <1>4, <2>3 DEF Live
    <3>4. QED
      BY <1>1, <2>1, <3>2, <3>3 DEF AnnouncedIsOut
  <2>4. QED
    BY <1>4, <2>2, <2>3
<1>12. StatusFollowsParcels'
  <2>1. CASE order.status \in {"shipped", "partial"}
    <3>1. order'.status \in {"confirmed", "partial", "shipped"} /\ order'.status = shippingState(order.lines, next)
      BY <1>5, <2>1, ShippingStates
    <3>2. QED
      BY <1>1, <1>5, <3>1 DEF StatusFollowsParcels
  <2>2. CASE order.status \notin {"shipped", "partial"}
    <3>1. order.status \in {"confirmed", "cancelled"} /\ order'.status = order.status
      BY <1>4, <1>5, <2>2, OrderTypes DEF CoreInv
    <3>2. \A l \in Lines : shippedByLine(next)[l] = 0
      BY <1>7, <3>1, StatusSays
    <3>3. shippingState(order.lines, next) = "confirmed"
      BY <1>2, <1>5, <1>8, <3>2, StateIs
    <3>4. QED
      BY <1>1, <1>5, <3>1, <3>3 DEF StatusFollowsParcels
  <2>3. QED
    BY <2>1, <2>2
<1>13. DeliveredWithItsParcels'
  <2>1. SUFFICES ASSUME order'.status \in {"shipped", "delivered"}
                 PROVE  order'.status = "shipped" /\ \E q \in ParcelIds : next[q].status = "shipped"
    BY <1>1 DEF DeliveredWithItsParcels
  <2>2. order.status \in {"shipped", "partial"} /\ order'.status = shippingState(order.lines, next)
    BY <1>4, <1>5, <2>1
  <2>3. order'.status = "shipped"
    BY <2>1, <2>2, ShippingStates
  <2>4. /\ \E l \in Lines : shippedByLine(next)[l] # 0
        /\ \A l \in Lines : shippedByLine(next)[l] = order.lines[l]
    BY <1>2, <1>5, <1>8, <2>2, <2>3, StateIs
  <2>5. \A l \in Lines : Out[l] = order.lines[l] /\ Share(parcel, l)[p] = 0
    BY <1>6, <1>7, <2>4
  <2>6. parcel[p].status \notin Live
    <3>1. SUFFICES ASSUME parcel[p].status \in Live PROVE FALSE
      OBVIOUS
    <3>2. parcel[p].units # NoUnits /\ parcel[p].units \in Boxes
      BY <1>2, <3>1, RowTypes DEF CoreInv, NoneEmpty
    <3>3. PICK l \in Lines : parcel[p].units[l] # 0
      BY <3>2 DEF Boxes, NoUnits
    <3>4. QED
      BY <2>5, <3>1, <3>3 DEF Share
  <2>7. \E q \in ParcelIds : parcel[q].status \in Live
    <3>1. \E l \in Lines : Out[l] # 0
      BY <2>4, <2>5
    <3>2. order.status \notin {"confirmed", "cancelled"}
      BY <2>2
    <3>3. QED
      BY <3>2, StatusSays
  <2>8. order.status = "shipped"
    BY <2>2, <2>5, <2>7, StatusSays
  <2>9. \E q \in ParcelIds : parcel[q].status = "shipped"
    BY <2>8 DEF CoreInv, DeliveredWithItsParcels
  <2>10. QED
    BY <1>2, <2>3, <2>6, <2>9 DEF Live
<1>14. QED
  BY <1>9, <1>10, <1>11, <1>12, <1>13 DEF CoreInv

(* A report moves nothing; the order is delivered with its last parcel.    *)
LEMMA ReportKeeps ==
    ASSUME CoreInv, PartTypes', NEW p \in ParcelIds, NEW status \in Tracking, NEW at \in 0..MaxAt,
           ApplyReport(p, status, at)
    PROVE  CoreInv'
<1>1. /\ \A q \in ParcelIds \ {p} : parcel'[q] = parcel[q]
      /\ parcel[p].status = "shipped" /\ parcel'[p].units = parcel[p].units
      /\ parcel'[p].status = IF status = "delivered" THEN "delivered" ELSE "shipped"
  BY Applied DEF CoreInv
<1>2. PICK s : s = IF /\ status = "delivered" /\ order.status = "shipped"
                      /\ \A q \in ParcelIds : parcel'[q].status # "shipped"
                   THEN "delivered" ELSE order.status
  OBVIOUS
<1>3. order' = [order EXCEPT !.status = s] /\ UNCHANGED <<call, announced>>
  BY <1>2 DEF ApplyReport
<1>4. order'.status = s /\ order'.lines = order.lines
  BY <1>3, OrderTypes DEF CoreInv
<1>5. MovesNothing
  <2>1. \A q \in ParcelIds : /\ (parcel'[q].status \in Live) = (parcel[q].status \in Live)
                             /\ parcel'[q].units = parcel[q].units
    BY <1>1 DEF Live
  <2>2. QED
    BY <1>3, <1>4, <2>1 DEF MovesNothing
<1>6. /\ NoneEmpty' /\ NothingShipsTwice' /\ AnnouncedIsOut'
      /\ shippingState(order'.lines, parcel') = shippingState(order.lines, parcel)
  BY <1>5, NothingMoves
<1>7. StatusFollowsParcels'
  BY <1>2, <1>4, <1>6 DEF CoreInv, StatusFollowsParcels
<1>8. order.status # "delivered"
  BY <1>1 DEF CoreInv, DeliveredWithItsParcels
<1>9. DeliveredWithItsParcels'
  <2>1. CASE s = "delivered"
    BY <1>2, <1>4, <1>8, <2>1 DEF DeliveredWithItsParcels
  <2>2. CASE s # "delivered"
    <3>1. s = order.status
      BY <1>2, <2>2
    <3>2. order.status = "shipped" => \E q \in ParcelIds : parcel'[q].status = "shipped"
      BY <1>1, <1>2, <2>2
    <3>3. QED
      BY <1>4, <1>8, <3>1, <3>2 DEF DeliveredWithItsParcels
  <2>3. QED
    BY <2>1, <2>2
<1>10. QED
  BY <1>6, <1>7, <1>9 DEF CoreInv

(* The operator's word for every parcel at once.                           *)
LEMMA MarkDeliveredKeeps ==
    ASSUME CoreInv, PartTypes', MarkDelivered
    PROVE  CoreInv'
<1>1. \A p \in ParcelIds : /\ parcel[p].status = "shipped" => parcel'[p].status = "delivered"
                           /\ parcel[p].status # "shipped" => parcel'[p].status = parcel[p].status
                           /\ parcel'[p].units = parcel[p].units
  <2>1. SUFFICES ASSUME NEW p \in ParcelIds
                 PROVE  /\ parcel[p].status = "shipped" => parcel'[p].status = "delivered"
                        /\ parcel[p].status # "shipped" => parcel'[p].status = parcel[p].status
                        /\ parcel'[p].units = parcel[p].units
    OBVIOUS
  <2>2. PICK r : r = [parcel[p] EXCEPT !.status = "delivered"]
    OBVIOUS
  <2>3. r.status = "delivered" /\ r.units = parcel[p].units
    BY <2>2 DEF CoreInv, PartTypes, ParcelRows
  <2>4. parcel'[p] = IF parcel[p].status = "shipped" THEN r ELSE parcel[p]
    BY <2>2 DEF MarkDelivered
  <2>5. QED
    BY <2>3, <2>4
<1>2. order.status = "shipped" /\ order'.status = "delivered" /\ order'.lines = order.lines
  BY OrderTypes DEF MarkDelivered, CoreInv
<1>3. MovesNothing
  <2>1. \A p \in ParcelIds : (parcel'[p].status \in Live) = (parcel[p].status \in Live)
    <3>1. SUFFICES ASSUME NEW p \in ParcelIds
                   PROVE  parcel'[p].status \in Live <=> parcel[p].status \in Live
      OBVIOUS
    <3>2. QED
      BY <1>1 DEF Live
  <2>2. QED
    BY <1>1, <1>2, <2>1 DEF MarkDelivered, MovesNothing
<1>4. /\ NoneEmpty' /\ NothingShipsTwice' /\ AnnouncedIsOut'
      /\ shippingState(order'.lines, parcel') = shippingState(order.lines, parcel)
  BY <1>3, NothingMoves
<1>5. StatusFollowsParcels'
  BY <1>2, <1>4 DEF CoreInv, StatusFollowsParcels
<1>6. DeliveredWithItsParcels'
  <2>1. \A p \in ParcelIds : parcel'[p].status # "shipped"
    BY <1>1
  <2>2. QED
    BY <1>2, <2>1 DEF DeliveredWithItsParcels
<1>7. QED
  BY <1>4, <1>5, <1>6 DEF CoreInv

(* And its withdrawal: a delivered order has a delivered parcel to take    *)
(* back, so a parcel is on its way again.                                  *)
LEMMA MarkUndeliveredKeeps ==
    ASSUME CoreInv, PartTypes', MarkUndelivered
    PROVE  CoreInv'
<1>1. \A p \in ParcelIds : /\ parcel[p].status = "delivered" => parcel'[p].status = "shipped"
                           /\ parcel[p].status # "delivered" => parcel'[p].status = parcel[p].status
                           /\ parcel'[p].units = parcel[p].units
  <2>1. SUFFICES ASSUME NEW p \in ParcelIds
                 PROVE  /\ parcel[p].status = "delivered" => parcel'[p].status = "shipped"
                        /\ parcel[p].status # "delivered" => parcel'[p].status = parcel[p].status
                        /\ parcel'[p].units = parcel[p].units
    OBVIOUS
  <2>2. PICK r : r = [parcel[p] EXCEPT !.status = "shipped", !.tracked = IF @ = "delivered" THEN "" ELSE @]
    OBVIOUS
  <2>3. r.status = "shipped" /\ r.units = parcel[p].units
    BY <2>2 DEF CoreInv, PartTypes, ParcelRows
  <2>4. parcel'[p] = IF parcel[p].status = "delivered" THEN r ELSE parcel[p]
    BY <2>2 DEF MarkUndelivered
  <2>5. QED
    BY <2>3, <2>4
<1>2. order.status = "delivered" /\ order'.status = "shipped" /\ order'.lines = order.lines
  BY OrderTypes DEF MarkUndelivered, CoreInv
<1>3. MovesNothing
  <2>1. \A p \in ParcelIds : (parcel'[p].status \in Live) = (parcel[p].status \in Live)
    <3>1. SUFFICES ASSUME NEW p \in ParcelIds
                   PROVE  parcel'[p].status \in Live <=> parcel[p].status \in Live
      OBVIOUS
    <3>2. QED
      BY <1>1 DEF Live
  <2>2. QED
    BY <1>1, <1>2, <2>1 DEF MarkUndelivered, MovesNothing
<1>4. /\ NoneEmpty' /\ NothingShipsTwice' /\ AnnouncedIsOut'
      /\ shippingState(order'.lines, parcel') = shippingState(order.lines, parcel)
  BY <1>3, NothingMoves
<1>5. StatusFollowsParcels'
  BY <1>2, <1>4 DEF CoreInv, StatusFollowsParcels
<1>6. \E p \in ParcelIds : parcel[p].status \in Live
  BY <1>2, StatusSays
<1>7. DeliveredWithItsParcels'
  <2>1. \E p \in ParcelIds : parcel'[p].status = "shipped"
    BY <1>1, <1>6 DEF Live
  <2>2. QED
    BY <1>2, <2>1 DEF DeliveredWithItsParcels
<1>8. QED
  BY <1>4, <1>5, <1>7 DEF CoreInv

LEMMA CancelOrderKeeps ==
    ASSUME CoreInv, PartTypes', CancelOrder
    PROVE  CoreInv'
<1>1. order.status = "confirmed" /\ order'.status = "cancelled" /\ order'.lines = order.lines
  BY OrderTypes DEF CancelOrder, CoreInv
<1>2. MovesNothing
  BY <1>1 DEF CancelOrder, MovesNothing
<1>3. /\ NoneEmpty' /\ NothingShipsTwice' /\ AnnouncedIsOut'
      /\ shippingState(order'.lines, parcel') = shippingState(order.lines, parcel)
  BY <1>2, NothingMoves
<1>4. StatusFollowsParcels'
  BY <1>1, <1>3 DEF CoreInv, StatusFollowsParcels
<1>5. DeliveredWithItsParcels'
  BY <1>1 DEF DeliveredWithItsParcels
<1>6. QED
  BY <1>3, <1>4, <1>5 DEF CoreInv

(* An edit finds nothing out: what the rows of cancelled parcels lose was  *)
(* not counted.                                                            *)
LEMMA EditKeeps ==
    ASSUME CoreInv, PartTypes', NEW lines \in Boxes, EditLines(lines)
    PROVE  CoreInv'
<1>1. PICK next : next = parcel'
  OBVIOUS
<1>2. parcel \in [ParcelIds -> ParcelRows] /\ next \in [ParcelIds -> ParcelRows]
  BY <1>1 DEF CoreInv, PartTypes
<1>3. order.status = "confirmed" /\ order'.status = "confirmed" /\ order'.lines = lines /\ UNCHANGED <<call, announced>>
  BY OrderTypes DEF EditLines, CoreInv
<1>4. \A p \in ParcelIds : next[p].status \notin Live
  <2>1. \A p \in ParcelIds : parcel[p].status \notin Live
    BY <1>3, StatusSays
  <2>2. ASSUME NEW p \in ParcelIds
        PROVE  next[p].status = parcel[p].status
    <3>1. PICK units : units = [l \in Lines |-> IF lines[l] = 0 THEN 0 ELSE parcel[p].units[l]]
      OBVIOUS
    <3>2. [parcel[p] EXCEPT !.units = units].status = parcel[p].status
      BY <1>2 DEF ParcelRows
    <3>3. QED
      BY <1>1, <3>1, <3>2 DEF EditLines
  <2>3. QED
    BY <2>1, <2>2
<1>5. \A l \in Lines : shippedByLine(next)[l] = 0 /\ Out[l] = 0 /\ lines[l] \in Nat
  <2>1. \A l \in Lines : shippedByLine(next)[l] = 0
    BY <1>2, <1>4, NothingOut
  <2>2. \A l \in Lines : Out[l] = 0
    BY <1>3, StatusSays
  <2>3. QED
    BY <2>1, <2>2, ParcelBounds DEF Boxes
<1>6. shippedByLine(next) = Out
  BY <1>5 DEF shippedByLine, Out
<1>7. NoneEmpty'
  BY <1>1, <1>3, <1>4 DEF CoreInv, NoneEmpty
<1>8. NothingShipsTwice' /\ AnnouncedIsOut'
  BY <1>1, <1>3, <1>5, <1>6 DEF CoreInv, NothingShipsTwice, AnnouncedIsOut, Out
<1>9. StatusFollowsParcels'
  <2>1. \A l \in Lines : shippedByLine(next)[l] <= lines[l]
    BY <1>5
  <2>2. shippingState(lines, next) = "confirmed"
    BY <1>2, <1>5, <2>1, StateIs
  <2>3. QED
    BY <1>1, <1>3, <2>2 DEF StatusFollowsParcels
<1>10. DeliveredWithItsParcels'
  BY <1>3 DEF DeliveredWithItsParcels
<1>11. QED
  BY <1>7, <1>8, <1>9, <1>10 DEF CoreInv

(* A request that has recorded nothing yet has changed nothing.            *)
LEMMA AskingKeeps ==
    ASSUME CoreInv, PartTypes', NEW c \in Callers,
           \/ \E want \in Boxes : StartCreate(c, want)
           \/ \E w \in Waybills : CarrierBooks(c, w)
           \/ Abandon(c)
    PROVE  CoreInv'
<1>1. UNCHANGED <<order, parcel, announced>>
  BY DEF StartCreate, CarrierBooks, Abandon
<1>2. call \in [Callers -> Calls]
  BY DEF CoreInv, PartTypes
<1>3. \A d \in Callers \ {c} : call'[d] = call[d]
  BY <1>2 DEF StartCreate, CarrierBooks, Abandon
<1>4. call'[c].stage # "idle" => call'[c].units # NoUnits
  <2>1. ASSUME NEW want \in Boxes, StartCreate(c, want)
        PROVE  call'[c].units # NoUnits
    <3>1. PICK r : r = [Idle EXCEPT !.stage = "asking", !.units = Resolved(want)]
      OBVIOUS
    <3>2. call' = [call EXCEPT ![c] = r] /\ Resolved(want) # NoUnits
      BY <2>1, <3>1 DEF StartCreate
    <3>3. r.units = Resolved(want)
      BY <3>1 DEF Idle
    <3>4. QED
      BY <1>2, <3>2, <3>3
  <2>2. ASSUME NEW w \in Waybills, CarrierBooks(c, w)
        PROVE  call'[c].units # NoUnits
    <3>1. call'[c].units = call[c].units /\ call[c].stage = "asking"
      BY <1>2, <2>2 DEF CarrierBooks, Calls
    <3>2. QED
      BY <3>1 DEF CoreInv, NoneEmpty
  <2>3. CASE Abandon(c)
    BY <1>2, <2>3, IdleTypes DEF Abandon
  <2>4. QED
    BY <2>1, <2>2, <2>3
<1>5. NoneEmpty'
  BY <1>1, <1>3, <1>4 DEF CoreInv, NoneEmpty
<1>6. QED
  BY <1>1, <1>5, CallsOnly

LEMMA TrackKeeps ==
    ASSUME CoreInv, PartTypes', NEW p \in ParcelIds, NEW status \in Tracking, NEW at \in 0..MaxAt,
           Track(p, status, at)
    PROVE  CoreInv'
  BY ReportKeeps, UnshipKeeps DEF Track

LEMMA CoreNext == CoreInv /\ [ParcelsNext]_parcelVars => CoreInv'
<1> SUFFICES ASSUME CoreInv, [ParcelsNext]_parcelVars PROVE CoreInv'
  OBVIOUS
<1>1. PartTypes'
  BY PartTypesNext DEF CoreInv
<1>2. ASSUME NEW c \in Callers, Shipping(c)
      PROVE  CoreInv'
  BY <1>1, <1>2, AskingKeeps, RecordKeeps DEF Shipping
<1>3. ASSUME Operators
      PROVE  CoreInv'
  BY <1>1, <1>3, MarkDeliveredKeeps, MarkUndeliveredKeeps, CancelOrderKeeps, EditKeeps, UnshipKeeps
     DEF Operators, Cancel
<1>4. ASSUME NEW p \in ParcelIds, NEW status \in Tracking, NEW at \in 1..MaxAt, Track(p, status, at)
      PROVE  CoreInv'
  BY <1>1, <1>4, TrackKeeps, Times
<1>5. CASE UNCHANGED parcelVars
  BY <1>1, <1>5, CallsOnly DEF parcelVars, CoreInv, NoneEmpty
<1>6. QED
  BY <1>2, <1>3, <1>4, <1>5 DEF ParcelsNext

LEMMA ParcelsCorrect == ParcelsSpec => []ParcelsInv
<1>1. ParcelsInit => ParcelsInv
  BY CoreInit, CoreIsAll
<1>2. ParcelsInv /\ [ParcelsNext]_parcelVars => ParcelsInv'
  <2>1. ParcelsInv /\ [ParcelsNext]_parcelVars => CoreInv'
    BY CoreIsAll, CoreNext
  <2>2. CoreInv' => ParcelsInv'
    BY CoreIsAll, PTL
  <2>3. QED
    BY <2>1, <2>2
<1>3. QED
  BY <1>1, <1>2, PTL DEF ParcelsSpec

(* The rows, the requests and the sums keep their types: what is announced *)
(* as out of a line stays between nothing and its most units.              *)
THEOREM ParcelsTypeCorrect == ParcelsSpec => []ParcelsTypeOK
<1>1. ParcelsInv => ParcelsTypeOK
  BY DEF ParcelsInv
<1>2. QED
  BY <1>1, ParcelsCorrect, PTL

(* Whatever order shipments, cancellations, deletions, reports, edits and  *)
(* corrections come in, Fulfillments.Create, Delete, Cancel, Track and the *)
(* delivery verbs leave orders.status saying what the live parcels add up  *)
(* to.                                                                     *)
THEOREM StatusIsOfItsParcels == ParcelsSpec => []StatusFollowsParcels
<1>1. ParcelsInv => StatusFollowsParcels
  BY DEF ParcelsInv
<1>2. QED
  BY <1>1, ParcelsCorrect, PTL

(* However many Creates are at the carrier at once with the same owed      *)
(* units, checkShipLines under the lock lets no line send more than was    *)
(* ordered.                                                                *)
THEOREM NothingIsSentTwice == ParcelsSpec => []NothingShipsTwice
<1>1. ParcelsInv => NothingShipsTwice
  BY DEF ParcelsInv
<1>2. QED
  BY <1>1, ParcelsCorrect, PTL

(* Between the carrier's word parcel by parcel and the operator's for the  *)
(* whole order, an order that has all shipped is delivered exactly when no *)
(* parcel is on its way.                                                   *)
THEOREM DeliveredWhenParcelsAre == ParcelsSpec => []DeliveredWithItsParcels
<1>1. ParcelsInv => DeliveredWithItsParcels
  BY DEF ParcelsInv
<1>2. QED
  BY <1>1, ParcelsCorrect, PTL

(* order.shipped and order.unshipped, added up, are the units of the live  *)
(* parcels, line by line.                                                  *)
THEOREM WhatIsOutWasAnnounced == ParcelsSpec => []AnnouncedIsOut
<1>1. ParcelsInv => AnnouncedIsOut
  BY DEF ParcelsInv
<1>2. QED
  BY <1>1, ParcelsCorrect, PTL

-----------------------------------------------------------------------------
(* What Shiprocket says is a report like any other.                        *)

LEMMA Clock ==
    /\ MaxScans \in Nat /\ MaxAt = 2 * MaxScans + 1
    /\ \A n \in Nat : \A i \in 1..n : n <= MaxScans =>
          2 * i \in 1..MaxAt /\ 2 * n + 1 \in 1..MaxAt /\ 2 * n \in 1..MaxAt
<1>1. MaxScans \in Nat /\ MaxAt = 2 * MaxScans + 1
  BY TrackingAssumption
<1>2. QED
  BY <1>1

(* A post and a poll begin alike, with a scan of the journey.              *)
LEMMA Hears ==
    ASSUME TrackerTypes, NEW a \in Workers, NEW w \in Waybills, Webhook(a, w) \/ Poll(a, w)
    PROVE  /\ UNCHANGED <<parcelVars, journey, row>>
           /\ \E i \in DOMAIN journey[w] : \E at \in Stamps(w, i) : Takes(a, w, i, at)
<1>1. CASE Webhook(a, w)
  BY <1>1 DEF Webhook
<1>2. CASE Poll(a, w)
  <2>1. journey[w] \in Seq(Tracking) /\ journey[w] # <<>>
    BY <1>2 DEF Poll, TrackerTypes
  <2>2. Len(journey[w]) \in DOMAIN journey[w]
    BY <2>1
  <2>3. 2 * Len(journey[w]) \in Stamps(w, Len(journey[w]))
    BY DEF Stamps
  <2>4. QED
    BY <1>2, <2>2, <2>3 DEF Poll
<1>3. QED
  BY <1>1, <1>2

LEMMA Taken ==
    ASSUME TrackerTypes, NEW a \in Workers, NEW w \in Waybills, NEW i \in DOMAIN journey[w],
           NEW at \in Stamps(w, i), Takes(a, w, i, at)
    PROVE  \E r \in Works :
              /\ r.stage = "telling" /\ r.waybill = w /\ r.status = journey[w][i] /\ r.at = at
              /\ r.status \in Tracking /\ at \in 1..MaxAt
              /\ work' = [work EXCEPT ![a] = r]
<1>1. PICK s : s = journey[w]
  OBVIOUS
<1>2. s \in Seq(Tracking) /\ Len(s) \in Nat /\ Len(s) <= MaxScans /\ i \in 1..Len(s) /\ s[i] \in Tracking
  BY <1>1 DEF TrackerTypes
<1>3. at \in {2 * i, 2 * Len(s) + 1}
  BY <1>1 DEF Stamps
<1>4. at \in 1..MaxAt
  BY <1>2, <1>3, Clock
<1>5. PICK r : r = [stage |-> "telling", waybill |-> w, status |-> s[i], at |-> at]
  OBVIOUS
<1>6. r \in Works
  BY <1>2, <1>4, <1>5, Times DEF Works
<1>7. QED
  BY <1>1, <1>2, <1>4, <1>5, <1>6 DEF Takes

LEMMA NoWorkTypes == NoWork \in Works /\ NoWork.stage = "idle"
<1>1. 0 \in 0..MaxAt
  BY ParcelBounds
<1>2. QED
  BY <1>1 DEF NoWork, Works

LEMMA TrackerInit == TrackingInit => TrackerTypes
<1> SUFFICES ASSUME TrackingInit PROVE TrackerTypes
  OBVIOUS
<1>1. 0 \in 0..MaxAt
  BY ParcelBounds
<1>2. row \in [Waybills -> Rows]
  BY <1>1 DEF TrackingInit, Rows
<1>3. work \in [Workers -> Works] /\ \A a \in Workers : work[a].stage = "idle"
  BY NoWorkTypes DEF TrackingInit
<1>4. journey \in [Waybills -> Seq(Tracking)] /\ \A w \in Waybills : Len(journey[w]) = 0
  <2>1. PICK none : none = <<>>
    OBVIOUS
  <2>2. none \in Seq(Tracking) /\ Len(none) = 0
    BY <2>1
  <2>3. journey = [w \in Waybills |-> none]
    BY <2>1 DEF TrackingInit
  <2>4. QED
    BY <2>2, <2>3
<1>5. QED
  BY <1>2, <1>3, <1>4, Clock DEF TrackerTypes

(* A worker that goes on, or back to waiting.                              *)
LEMMA WorksOn ==
    ASSUME TrackerTypes, NEW a \in Workers, NEW r \in Works, work' = [work EXCEPT ![a] = r],
           r.stage # "idle" => r.waybill \in Waybills /\ r.status \in Tracking /\ r.at \in 1..MaxAt,
           UNCHANGED journey, row' \in [Waybills -> Rows]
    PROVE  TrackerTypes'
<1>1. work' \in [Workers -> Works]
  BY DEF TrackerTypes
<1>2. \A b \in Workers : work'[b] = IF b = a THEN r ELSE work[b]
  BY DEF TrackerTypes
<1>3. \A b \in Workers : work'[b].stage # "idle" =>
         work'[b].waybill \in Waybills /\ work'[b].status \in Tracking /\ work'[b].at \in 1..MaxAt
  BY <1>2 DEF TrackerTypes
<1>4. QED
  BY <1>1, <1>3 DEF TrackerTypes

LEMMA TellWork ==
    ASSUME TrackerTypes, NEW a \in Workers, Tell(a)
    PROVE  \E r \in Works :
              /\ r.stage = "saving" /\ r.waybill = work[a].waybill /\ r.status = work[a].status /\ r.at = work[a].at
              /\ work' = [work EXCEPT ![a] = r]
<1>1. PICK r : r = [work[a] EXCEPT !.stage = "saving"]
  OBVIOUS
<1>2. work[a] \in Works
  BY DEF TrackerTypes
<1>3. r \in Works
  BY <1>1, <1>2 DEF Works
<1>4. r.stage = "saving" /\ r.waybill = work[a].waybill /\ r.status = work[a].status /\ r.at = work[a].at
  BY <1>1, <1>2 DEF Works
<1>5. work' = [work EXCEPT ![a] = r]
  BY <1>1 DEF Tell
<1>6. QED
  BY <1>3, <1>4, <1>5

LEMMA SavedRow ==
    ASSUME TrackerTypes, NEW a \in Workers, Save(a)
    PROVE  /\ row' \in [Waybills -> Rows]
           /\ \A w \in Waybills :
                 \/ row'[w] = row[w]
                 \/ w = work[a].waybill /\ row'[w].status = work[a].status /\ row'[w].at = work[a].at
<1>1. PICK w, status, at : w = work[a].waybill /\ status = work[a].status /\ at = work[a].at
  OBVIOUS
<1>2. w \in Waybills /\ status \in Tracking /\ at \in 0..MaxAt /\ row \in [Waybills -> Rows]
  BY <1>1, Times DEF Save, TrackerTypes
<1>3. PICK r : r = [status |-> status, at |-> at, cancelled |-> row[w].cancelled \/ status = "cancelled"]
  OBVIOUS
<1>4. r \in Rows /\ r.status = status /\ r.at = at
  BY <1>2, <1>3 DEF Rows
<1>5. row' = [row EXCEPT ![w] = r] \/ row' = row
  BY <1>1, <1>3 DEF Save
<1>6. QED
  BY <1>1, <1>2, <1>4, <1>5

LEMMA Scanned ==
    ASSUME TrackerTypes, NEW w \in Waybills, NEW status \in Tracking, Scan(w, status)
    PROVE  /\ UNCHANGED <<parcelVars, row, work>>
           /\ journey' = [journey EXCEPT ![w] = Append(journey[w], status)]
           /\ journey' \in [Waybills -> Seq(Tracking)]
           /\ \A v \in Waybills : Len(journey'[v]) <= MaxScans
           /\ \A v \in Waybills : \A i \in DOMAIN journey[v] :
                 i \in DOMAIN journey'[v] /\ journey'[v][i] = journey[v][i]
<1>1. PICK s : s = journey[w]
  OBVIOUS
<1>2. s \in Seq(Tracking) /\ Len(s) < MaxScans /\ Len(s) \in Nat
  BY <1>1 DEF Scan, TrackerTypes
<1>3. PICK t : t = Append(s, status)
  OBVIOUS
<1>4. t \in Seq(Tracking) /\ Len(t) = Len(s) + 1 /\ \A i \in DOMAIN s : i \in DOMAIN t /\ t[i] = s[i]
  BY <1>2, <1>3
<1>5. Len(t) <= MaxScans
  BY <1>2, <1>4, Clock
<1>6. journey' = [journey EXCEPT ![w] = t] /\ UNCHANGED <<parcelVars, row, work>>
  BY <1>1, <1>3 DEF Scan
<1>7. QED
  BY <1>1, <1>3, <1>4, <1>5, <1>6 DEF TrackerTypes

LEMMA TrackerTypesNext == TrackerTypes /\ [TrackingNext]_trackingVars => TrackerTypes'
<1> SUFFICES ASSUME TrackerTypes, [TrackingNext]_trackingVars PROVE TrackerTypes'
  OBVIOUS
<1>1. CASE UNCHANGED <<journey, row, work>>
  BY <1>1 DEF TrackerTypes
<1>2. ASSUME NEW w \in Waybills, NEW status \in Tracking, Scan(w, status)
      PROVE  TrackerTypes'
  BY <1>2, Scanned DEF TrackerTypes
<1>3. ASSUME NEW a \in Workers, NEW w \in Waybills, Webhook(a, w) \/ Poll(a, w)
      PROVE  TrackerTypes'
  <2>1. UNCHANGED <<journey, row>> /\ row \in [Waybills -> Rows]
    BY <1>3, Hears DEF TrackerTypes
  <2>2. PICK i \in DOMAIN journey[w] : \E at \in Stamps(w, i) : Takes(a, w, i, at)
    BY <1>3, Hears
  <2>3. PICK at \in Stamps(w, i) : Takes(a, w, i, at)
    BY <2>2
  <2>4. PICK r \in Works : /\ r.waybill = w /\ r.at = at /\ r.status \in Tracking /\ at \in 1..MaxAt
                           /\ work' = [work EXCEPT ![a] = r]
    BY <2>3, Taken
  <2>5. QED
    BY <2>1, <2>4, WorksOn
<1>4. ASSUME NEW a \in Workers, Tell(a)
      PROVE  TrackerTypes'
  <2>1. UNCHANGED <<journey, row>> /\ row \in [Waybills -> Rows] /\ work[a].stage # "idle"
    BY <1>4 DEF Tell, TrackerTypes
  <2>2. PICK r \in Works : /\ r.waybill = work[a].waybill /\ r.status = work[a].status /\ r.at = work[a].at
                           /\ work' = [work EXCEPT ![a] = r]
    BY <1>4, TellWork
  <2>3. work[a].waybill \in Waybills /\ work[a].status \in Tracking /\ work[a].at \in 1..MaxAt
    BY <2>1 DEF TrackerTypes
  <2>4. QED
    BY <2>1, <2>2, <2>3, WorksOn
<1>5. ASSUME NEW a \in Workers, Save(a) \/ Die(a)
      PROVE  TrackerTypes'
  <2>1. row' \in [Waybills -> Rows]
    BY <1>5, SavedRow DEF Die, TrackerTypes
  <2>2. work' = [work EXCEPT ![a] = NoWork] /\ UNCHANGED journey
    BY <1>5 DEF Save, Die
  <2>3. QED
    BY <2>1, <2>2, NoWorkTypes, WorksOn
<1>6. QED
  BY <1>1, <1>2, <1>3, <1>4, <1>5 DEF TrackingNext, trackingVars, Workers

(* Every step of a worker is a step of the parcels, or none of theirs.     *)
LEMMA StepsOfParcels == TrackerTypes /\ [TrackingNext]_trackingVars => [ParcelsNext]_parcelVars
<1> SUFFICES ASSUME TrackerTypes, [TrackingNext]_trackingVars PROVE [ParcelsNext]_parcelVars
  OBVIOUS
<1>1. ASSUME NEW a \in Workers, Tell(a)
      PROVE  [ParcelsNext]_parcelVars
  <2>1. work[a].status \in Tracking /\ work[a].at \in 1..MaxAt
    BY <1>1 DEF Tell, TrackerTypes
  <2>2. UNCHANGED parcelVars \/ \E p \in ParcelIds : Track(p, work[a].status, work[a].at)
    BY <1>1 DEF Tell, recordedAs
  <2>3. QED
    BY <2>1, <2>2 DEF ParcelsNext
<1>2. ASSUME NEW a \in Workers, Save(a) \/ Die(a)
      PROVE  UNCHANGED parcelVars
  BY <1>2 DEF Save, Die
<1>3. ASSUME NEW w \in Waybills, \/ \E status \in Tracking : Scan(w, status)
                                 \/ \E a \in Handlers : Webhook(a, w)
                                 \/ \E a \in Pollers : Poll(a, w)
      PROVE  UNCHANGED parcelVars
  BY <1>3 DEF Scan, Webhook, Poll
<1>4. CASE UNCHANGED trackingVars
  BY <1>4 DEF trackingVars
<1>5. QED
  BY <1>1, <1>2, <1>3, <1>4 DEF TrackingNext, ParcelsNext

LEMMA TrackerCorrect == TrackingSpec => []TrackerTypes
<1>1. TrackingInit => TrackerTypes
  BY TrackerInit
<1>2. QED
  BY <1>1, TrackerTypesNext, PTL DEF TrackingSpec

(* handleWebhook and Poll reach an order's parcels through Track alone:    *)
(* everything that holds of Fulfillments holds with Shiprocket's posts and *)
(* polls, their workers interleaved and dying.                             *)
THEOREM TrackingIsOfParcels == TrackingSpec => ParcelsSpec
<1>1. TrackingInit => ParcelsInit
  BY DEF TrackingInit
<1>2. QED
  BY <1>1, StepsOfParcels, TrackerCorrect, PTL DEF TrackingSpec, ParcelsSpec

(* The journeys, the module's rows and the updates in progress keep their  *)
(* types, and so do the parcels they are about.                            *)
THEOREM TrackingTypeCorrect == TrackingSpec => []TypeOK
<1>1. ParcelsTypeOK /\ TrackerTypes => TypeOK
  <2>1. ASSUME TrackerTypes, NEW w \in Waybills, NEW i \in DOMAIN journey[w]
        PROVE  journey[w][i] \in Tracking
    BY <2>1 DEF TrackerTypes
  <2>2. QED
    BY <2>1 DEF TrackerTypes, TypeOK
<1>2. QED
  BY <1>1, TrackingIsOfParcels, ParcelsTypeCorrect, TrackerCorrect, PTL

-----------------------------------------------------------------------------
(* What a step does to a parcel, as far as tracking goes.                  *)

(* A parcel goes out of the table, goes on without being on its way more   *)
(* than it was, or is put back on its way by an operator.                  *)
Kept(p) ==
    \/ parcel'[p].status = "deleted"
    \/ /\ parcel'[p].waybill = parcel[p].waybill
       /\ parcel'[p].tracked = parcel[p].tracked /\ parcel'[p].at = parcel[p].at
       /\ \/ parcel'[p].status = parcel[p].status
          \/ parcel[p].status = "shipped" /\ parcel'[p].status \in {"delivered", "cancelled"}
    \/ /\ parcel'[p].waybill = parcel[p].waybill
       /\ parcel[p].status = "delivered" /\ parcel'[p].status = "shipped" /\ p \in undone'

Quiet ==
    /\ labels' = labels /\ call' = call
    /\ \A p \in undone : p \in undone'
    /\ \A p \in ParcelIds : Kept(p)

LEMMA UnshipIsQuiet ==
    ASSUME PartTypes, NEW p \in ParcelIds, Delete(p) \/ cancelLocked(p)
    PROVE  Quiet
<1>1. PICK r : r = IF Delete(p) THEN [NoParcel EXCEPT !.status = "deleted"]
                   ELSE [parcel[p] EXCEPT !.status = "cancelled"]
  OBVIOUS
<1>2. [NoParcel EXCEPT !.status = "deleted"].status = "deleted"
  BY DEF NoParcel
<1>3. parcel[p] \in ParcelRows
  BY DEF PartTypes
<1>4. [parcel[p] EXCEPT !.status = "cancelled"].status = "cancelled"
  BY <1>3 DEF ParcelRows
<1>5. /\ [parcel[p] EXCEPT !.status = "cancelled"].waybill = parcel[p].waybill
      /\ [parcel[p] EXCEPT !.status = "cancelled"].tracked = parcel[p].tracked
      /\ [parcel[p] EXCEPT !.status = "cancelled"].at = parcel[p].at
  BY <1>3 DEF ParcelRows
<1>6. parcel' = [parcel EXCEPT ![p] = r] /\ UNCHANGED <<call, labels, undone>>
  BY <1>1 DEF Delete, cancelLocked
<1>7. parcel'[p] = r /\ \A q \in ParcelIds \ {p} : parcel'[q] = parcel[q]
  BY <1>6 DEF PartTypes
<1>8. Kept(p)
  <2>1. CASE Delete(p)
    BY <1>1, <1>2, <1>7, <2>1 DEF Kept
  <2>2. CASE ~Delete(p)
    <3>1. parcel[p].status = "shipped"
      BY <2>2 DEF cancelLocked
    <3>2. QED
      BY <1>1, <1>4, <1>5, <1>7, <2>2, <3>1 DEF Kept
  <2>3. QED
    BY <2>1, <2>2
<1>9. QED
  BY <1>6, <1>7, <1>8 DEF Quiet, Kept

LEMMA OperatorsAreQuiet ==
    ASSUME PartTypes, Operators
    PROVE  Quiet
<1>1. \A p \in ParcelIds : parcel[p] \in ParcelRows
  BY DEF PartTypes
<1>2. CASE MarkDelivered
  <2>1. ASSUME NEW p \in ParcelIds
        PROVE  Kept(p)
    <3>1. PICK r : r = [parcel[p] EXCEPT !.status = "delivered"]
      OBVIOUS
    <3>2. r.status = "delivered" /\ r.waybill = parcel[p].waybill /\ r.tracked = parcel[p].tracked /\ r.at = parcel[p].at
      BY <1>1, <3>1 DEF ParcelRows
    <3>3. parcel'[p] = IF parcel[p].status = "shipped" THEN r ELSE parcel[p]
      BY <1>2, <3>1 DEF MarkDelivered
    <3>4. QED
      BY <3>2, <3>3 DEF Kept
  <2>2. QED
    BY <1>2, <2>1 DEF MarkDelivered, Quiet
<1>3. CASE MarkUndelivered
  <2>1. ASSUME NEW p \in ParcelIds
        PROVE  Kept(p)
    <3>1. PICK r : r = [parcel[p] EXCEPT !.status = "shipped", !.tracked = IF @ = "delivered" THEN "" ELSE @]
      OBVIOUS
    <3>2. r.status = "shipped" /\ r.waybill = parcel[p].waybill
      BY <1>1, <3>1 DEF ParcelRows
    <3>3. parcel'[p] = IF parcel[p].status = "delivered" THEN r ELSE parcel[p]
      BY <1>3, <3>1 DEF MarkUndelivered
    <3>4. parcel[p].status = "delivered" => p \in undone'
      BY <1>3 DEF MarkUndelivered
    <3>5. QED
      BY <3>2, <3>3, <3>4 DEF Kept
  <2>2. QED
    BY <1>3, <2>1 DEF MarkUndelivered, Quiet
<1>4. CASE CancelOrder
  BY <1>4 DEF CancelOrder, Quiet, Kept
<1>5. ASSUME NEW lines \in Boxes, EditLines(lines)
      PROVE  Quiet
  <2>1. ASSUME NEW p \in ParcelIds
        PROVE  Kept(p)
    <3>1. PICK units : units = [l \in Lines |-> IF lines[l] = 0 THEN 0 ELSE parcel[p].units[l]]
      OBVIOUS
    <3>2. PICK r : r = [parcel[p] EXCEPT !.units = units]
      OBVIOUS
    <3>3. /\ r.status = parcel[p].status /\ r.waybill = parcel[p].waybill
          /\ r.tracked = parcel[p].tracked /\ r.at = parcel[p].at
      BY <1>1, <3>2 DEF ParcelRows
    <3>4. parcel'[p] = r
      BY <1>5, <3>1, <3>2 DEF EditLines
    <3>5. QED
      BY <3>3, <3>4 DEF Kept
  <2>2. QED
    BY <1>5, <2>1 DEF EditLines, Quiet
<1>6. QED
  BY <1>2, <1>3, <1>4, <1>5, UnshipIsQuiet DEF Operators, Cancel

(* The row a Create writes was no parcel's, and no report is about it yet. *)
RecordedBy(c, p) ==
    /\ parcel[p].status = "none" /\ parcel'[p].status = "shipped"
    /\ parcel'[p].waybill = call[c].waybill
    /\ parcel'[p].tracked = parcel[p].tracked /\ parcel'[p].at = parcel[p].at
    /\ \A q \in ParcelIds \ {p} : parcel'[q] = parcel[q]
    /\ call[c].stage = "booked" /\ call' = [call EXCEPT ![c] = Idle]
    /\ labels' = labels /\ undone' = undone

LEMMA RecordIs ==
    ASSUME PartTypes, NEW c \in Callers, Record(c)
    PROVE  \E p \in ParcelIds : RecordedBy(c, p)
<1>1. PICK p \in ParcelIds :
        /\ Fresh(p)
        /\ parcel' = [parcel EXCEPT ![p] =
             [parcel[p] EXCEPT !.status = "shipped", !.units = call[c].units, !.waybill = call[c].waybill]]
  BY DEF Record
<1>2. PICK r : r = [parcel[p] EXCEPT !.status = "shipped", !.units = call[c].units, !.waybill = call[c].waybill]
  OBVIOUS
<1>3. parcel[p] \in ParcelRows
  BY DEF PartTypes
<1>4. r.status = "shipped" /\ r.waybill = call[c].waybill /\ r.tracked = parcel[p].tracked /\ r.at = parcel[p].at
  BY <1>2, <1>3 DEF ParcelRows
<1>5. parcel' = [parcel EXCEPT ![p] = r]
  BY <1>1, <1>2
<1>6. parcel'[p] = r /\ \A q \in ParcelIds \ {p} : parcel'[q] = parcel[q]
  BY <1>5 DEF PartTypes
<1>7. QED
  BY <1>1, <1>4, <1>6 DEF Record, RecordedBy, Fresh

(* The row a report is applied to.                                         *)
ReportedOf(p, status, at) ==
    /\ parcel[p].status = "shipped" /\ parcel'[p].status \in Live
    /\ parcel'[p].waybill = parcel[p].waybill
    /\ parcel'[p].tracked = status /\ parcel'[p].at = at
    /\ parcel[p].tracked # "returned" /\ at >= parcel[p].at
    /\ \A q \in ParcelIds \ {p} : parcel'[q] = parcel[q]
    /\ labels' = labels /\ call' = call /\ undone' = undone

LEMMA ReportIs ==
    ASSUME PartTypes, NEW p \in ParcelIds, NEW status \in Tracking, NEW at \in 0..MaxAt,
           ApplyReport(p, status, at)
    PROVE  ReportedOf(p, status, at)
<1>1. /\ \A q \in ParcelIds \ {p} : parcel'[q] = parcel[q]
      /\ parcel[p].status = "shipped" /\ parcel'[p].status \in Live
      /\ parcel'[p].waybill = parcel[p].waybill
      /\ parcel'[p].tracked = status /\ parcel'[p].at = at
  BY Applied DEF Live
<1>2. QED
  BY <1>1 DEF ApplyReport, Tracks, ReportedOf

(* What Tell comes to.                                                     *)
Refused(a) ==
    \A p \in ParcelIds : Recorded(p, work[a].waybill) => ~Tracks(p, work[a].status, work[a].at)

LEMMA TellIs ==
    ASSUME PartTypes, TrackerTypes, NEW a \in Workers, Tell(a)
    PROVE  \/ UNCHANGED parcelVars /\ Refused(a)
           \/ Quiet /\ work[a].status = "cancelled"
           \/ \E p \in ParcelIds : /\ Recorded(p, work[a].waybill)
                                   /\ ReportedOf(p, work[a].status, work[a].at)
<1>1. PICK w, status, at : w = work[a].waybill /\ status = work[a].status /\ at = work[a].at
  OBVIOUS
<1>2. w \in Waybills /\ status \in Tracking /\ at \in 0..MaxAt
  BY <1>1, Times DEF Tell, TrackerTypes
<1>3. \A p : p \in recordedAs(w) <=> p \in ParcelIds /\ Recorded(p, w)
  BY DEF recordedAs, Recorded
<1>4. CASE \E p \in recordedAs(w) : Tracks(p, status, at)
  <2>1. PICK p \in recordedAs(w) : Track(p, status, at)
    BY <1>1, <1>4 DEF Tell
  <2>2. p \in ParcelIds /\ Recorded(p, w)
    BY <1>3, <2>1
  <2>3. CASE ApplyReport(p, status, at)
    BY <1>1, <1>2, <2>2, <2>3, ReportIs
  <2>4. CASE status = "cancelled" /\ cancelLocked(p)
    BY <1>1, <2>2, <2>4, UnshipIsQuiet
  <2>5. QED
    BY <2>1, <2>3, <2>4 DEF Track
<1>5. CASE ~\E p \in recordedAs(w) : Tracks(p, status, at)
  BY <1>1, <1>3, <1>5 DEF Tell, Refused
<1>6. QED
  BY <1>4, <1>5

-----------------------------------------------------------------------------
(* Each part of the invariant, and the steps it has to withstand.          *)

(* A step that records nothing new of a waybill and books none.            *)
LEMMA OnceKept ==
    ASSUME WaybillsOnce,
           \A w \in Waybills, p \in ParcelIds : Recorded(p, w)' => Recorded(p, w),
           \A w \in Waybills, c \in Callers : Booked(c, w)' => Booked(c, w),
           \A w \in labels : w \in labels'
    PROVE  WaybillsOnce'
<1>1. \A w \in Waybills \ labels' : w \in Waybills \ labels
  OBVIOUS
<1>2. QED
  BY <1>1 DEF WaybillsOnce

LEMMA QuietRecords ==
    ASSUME PartTypes, Quiet, NEW w, NEW p \in ParcelIds, Recorded(p, w)'
    PROVE  /\ Recorded(p, w)
           /\ \/ p \in undone'
              \/ /\ parcel'[p].tracked = parcel[p].tracked /\ parcel'[p].at = parcel[p].at
                 /\ parcel'[p].status = "shipped" => parcel[p].status = "shipped"
<1>1. Kept(p)
  BY DEF Quiet
<1>2. parcel'[p].waybill = w /\ parcel'[p].status \in {"shipped", "delivered", "cancelled"}
  BY DEF Recorded
<1>3. QED
  BY <1>1, <1>2 DEF Kept, Recorded

LEMMA QuietBooks ==
    ASSUME Quiet, NEW w, NEW c
    PROVE  Booked(c, w)' <=> Booked(c, w)
  BY DEF Quiet, Booked

(* Steps that touch neither the parcels nor the calls.                     *)
LEMMA SameParcels ==
    ASSUME UNCHANGED parcelVars
    PROVE  /\ \A w, p : Recorded(p, w)' <=> Recorded(p, w)
           /\ \A w, c : Booked(c, w)' <=> Booked(c, w)
           /\ labels' = labels /\ undone' = undone /\ parcel' = parcel
  BY DEF parcelVars, Recorded, Booked

(* A call that goes on without recording.                                  *)
LEMMA CallsGoOn ==
    ASSUME PartTypes, NEW c \in Callers,
           \/ \E want \in Boxes : StartCreate(c, want)
           \/ Abandon(c)
    PROVE  /\ \A w \in Waybills, d \in Callers : Booked(d, w)' => Booked(d, w)
           /\ UNCHANGED <<parcel, labels, undone>>
<1>1. \A d \in Callers \ {c} : call'[d] = call[d]
  BY DEF StartCreate, Abandon, PartTypes
<1>2. call'[c].stage # "booked"
  <2>1. ASSUME NEW want \in Boxes, StartCreate(c, want)
        PROVE  call'[c].stage # "booked"
    <3>1. PICK r : r = [Idle EXCEPT !.stage = "asking", !.units = Resolved(want)]
      OBVIOUS
    <3>2. r.stage = "asking"
      BY <3>1 DEF Idle
    <3>3. QED
      BY <2>1, <3>1, <3>2 DEF StartCreate, PartTypes
  <2>2. CASE Abandon(c)
    BY <2>2, IdleTypes DEF Abandon, PartTypes
  <2>3. QED
    BY <2>1, <2>2
<1>3. \A w \in Waybills, d \in Callers : Booked(d, w)' => Booked(d, w)
  BY <1>1, <1>2 DEF Booked
<1>4. QED
  BY <1>3 DEF StartCreate, Abandon

LEMMA Books ==
    ASSUME PartTypes, NEW c \in Callers, NEW w \in Waybills, CarrierBooks(c, w)
    PROVE  /\ w \notin labels /\ labels' = labels \cup {w} /\ UNCHANGED <<parcel, undone>>
           /\ \A v \in Waybills, d \in Callers : Booked(d, v)' <=> (Booked(d, v) /\ d # c) \/ (d = c /\ v = w)
<1>1. PICK r : r = [call[c] EXCEPT !.stage = "booked", !.waybill = w]
  OBVIOUS
<1>2. call[c] \in Calls
  BY DEF PartTypes
<1>3. r.stage = "booked" /\ r.waybill = w
  BY <1>1, <1>2 DEF Calls
<1>4. call' = [call EXCEPT ![c] = r] /\ call \in [Callers -> Calls]
  BY <1>1 DEF CarrierBooks, PartTypes
<1>5. \A d \in Callers : call'[d] = IF d = c THEN r ELSE call[d]
  BY <1>4
<1>6. QED
  BY <1>3, <1>5 DEF CarrierBooks, Booked

LEMMA RecordsBooked ==
    ASSUME PartTypes, NEW c \in Callers, NEW p \in ParcelIds, RecordedBy(c, p)
    PROVE  /\ \A w \in Waybills, d \in Callers : Booked(d, w)' <=> (Booked(d, w) /\ d # c)
           /\ \A w : \A q \in ParcelIds : Recorded(q, w)' <=> Recorded(q, w) \/ (q = p /\ Booked(c, w))
<1>1. \A d \in Callers : call'[d] = IF d = c THEN Idle ELSE call[d]
  BY DEF RecordedBy, PartTypes
<1>2. \A w \in Waybills, d \in Callers : Booked(d, w)' <=> (Booked(d, w) /\ d # c)
  BY <1>1, IdleTypes DEF Booked
<1>3. \A w : ~Recorded(p, w)
  BY DEF RecordedBy, Recorded
<1>4. \A w : Recorded(p, w)' <=> Booked(c, w)
  BY DEF RecordedBy, Recorded, Booked
<1>5. \A w : \A q \in ParcelIds : q # p => (Recorded(q, w)' <=> Recorded(q, w))
  BY DEF RecordedBy, Recorded
<1>6. QED
  BY <1>2, <1>3, <1>4, <1>5

LEMMA ReportsRecord ==
    ASSUME NEW p \in ParcelIds, NEW status, NEW at, ReportedOf(p, status, at)
    PROVE  /\ \A w : \A q \in ParcelIds : Recorded(q, w)' <=> Recorded(q, w)
           /\ \A w, c : Booked(c, w)' <=> Booked(c, w)
           /\ labels' = labels
<1>1. \A w : Recorded(p, w)' <=> Recorded(p, w)
  BY DEF ReportedOf, Recorded, Live
<1>2. \A w : \A q \in ParcelIds : q # p => (Recorded(q, w)' <=> Recorded(q, w))
  BY DEF ReportedOf, Recorded
<1>3. QED
  BY <1>1, <1>2 DEF ReportedOf, Booked

LEMMA OnceOfShipping ==
    ASSUME PartTypes, WaybillsOnce, NEW c \in Callers, Shipping(c)
    PROVE  WaybillsOnce'
<1>1. ASSUME NEW w \in Waybills, CarrierBooks(c, w)
      PROVE  WaybillsOnce'
  <2>1. \A v \in Waybills, d \in Callers : Booked(d, v)' => Booked(d, v) \/ (d = c /\ v = w)
    BY <1>1, Books
  <2>2. w \notin labels /\ labels' = labels \cup {w}
    BY <1>1, Books
  <2>3. \A v, p : Recorded(p, v)' <=> Recorded(p, v)
    BY <1>1 DEF CarrierBooks, Recorded
  <2>4. (\A d \in Callers : ~Booked(d, w)) /\ \A p \in ParcelIds : ~Recorded(p, w)
    BY <2>2 DEF WaybillsOnce
  <2>5. \A v \in Waybills, d, e \in Callers : Booked(d, v)' /\ Booked(e, v)' => d = e
    BY <2>1, <2>4 DEF WaybillsOnce
  <2>6. \A v \in Waybills, d \in Callers, p \in ParcelIds : ~(Booked(d, v)' /\ Recorded(p, v)')
    BY <2>1, <2>3, <2>4 DEF WaybillsOnce
  <2>7. \A v \in Waybills \ labels' : (\A d \in Callers : ~Booked(d, v)') /\ \A p \in ParcelIds : ~Recorded(p, v)'
    BY <2>1, <2>2, <2>3 DEF WaybillsOnce
  <2>8. \A v \in Waybills, p, q \in ParcelIds : Recorded(p, v)' /\ Recorded(q, v)' => p = q
    BY <2>3 DEF WaybillsOnce
  <2>9. QED
    BY <2>5, <2>6, <2>7, <2>8 DEF WaybillsOnce
<1>2. ASSUME Record(c)
      PROVE  WaybillsOnce'
  <2>1. PICK p \in ParcelIds : RecordedBy(c, p)
    BY <1>2, RecordIs
  <2>2. \A w \in Waybills, d \in Callers : Booked(d, w)' <=> (Booked(d, w) /\ d # c)
    BY <2>1, RecordsBooked
  <2>3. \A w \in Waybills, q \in ParcelIds : Recorded(q, w)' <=> Recorded(q, w) \/ (q = p /\ Booked(c, w))
    BY <2>1, RecordsBooked
  <2>4. labels' = labels
    BY <2>1 DEF RecordedBy
  <2>5. \A w \in Waybills, d, e \in Callers : Booked(d, w)' /\ Booked(e, w)' => d = e
    BY <2>2 DEF WaybillsOnce
  <2>6. \A w \in Waybills, q, r \in ParcelIds : Recorded(q, w)' /\ Recorded(r, w)' => q = r
    BY <2>3 DEF WaybillsOnce
  <2>7. \A w \in Waybills, d \in Callers, q \in ParcelIds : ~(Booked(d, w)' /\ Recorded(q, w)')
    BY <2>2, <2>3 DEF WaybillsOnce
  <2>8. \A w \in Waybills \ labels' : (\A d \in Callers : ~Booked(d, w)') /\ \A q \in ParcelIds : ~Recorded(q, w)'
    BY <2>2, <2>3, <2>4 DEF WaybillsOnce
  <2>9. QED
    BY <2>5, <2>6, <2>7, <2>8 DEF WaybillsOnce
<1>3. ASSUME (\E want \in Boxes : StartCreate(c, want)) \/ Abandon(c)
      PROVE  WaybillsOnce'
  <2>1. \A w \in Waybills, d \in Callers : Booked(d, w)' => Booked(d, w)
    BY <1>3, CallsGoOn
  <2>2. UNCHANGED <<parcel, labels>>
    BY <1>3, CallsGoOn
  <2>3. \A w \in Waybills, p \in ParcelIds : Recorded(p, w)' => Recorded(p, w)
    BY <2>2 DEF Recorded
  <2>4. QED
    BY <2>1, <2>2, <2>3, OnceKept
<1>4. QED
  BY <1>1, <1>2, <1>3 DEF Shipping

LEMMA OnceNext ==
    PartTypes /\ TrackerTypes /\ WaybillsOnce /\ [TrackingNext]_trackingVars => WaybillsOnce'
<1> SUFFICES ASSUME PartTypes, TrackerTypes, WaybillsOnce, [TrackingNext]_trackingVars PROVE WaybillsOnce'
  OBVIOUS
<1>1. ASSUME UNCHANGED parcelVars
      PROVE  WaybillsOnce'
  BY <1>1, SameParcels, OnceKept
<1>2. ASSUME Quiet
      PROVE  WaybillsOnce'
  BY <1>2, QuietRecords, QuietBooks, OnceKept DEF Quiet
<1>3. ASSUME NEW a \in Workers, Tell(a)
      PROVE  WaybillsOnce'
  <2>1. ASSUME NEW p \in ParcelIds, ReportedOf(p, work[a].status, work[a].at)
        PROVE  WaybillsOnce'
    BY <2>1, ReportsRecord, OnceKept
  <2>2. QED
    BY <1>1, <1>2, <1>3, <2>1, TellIs
<1>4. QED
  BY <1>1, <1>2, <1>3, OnceOfShipping, OperatorsAreQuiet
     DEF TrackingNext, trackingVars, Scan, Webhook, Poll, Save, Die

-----------------------------------------------------------------------------
LEMMA Unscanned == \A s : s = <<>> => \A i \in DOMAIN s : FALSE
  OBVIOUS

LEMMA EndKept ==
    ASSUME JourneysEnd, UNCHANGED journey, \A w \in labels : w \in labels',
           \A w \in Waybills, c \in Callers : Booked(c, w)' => Booked(c, w) \/ w \notin labels
    PROVE  JourneysEnd'
<1>1. \A w \in Waybills \ labels : \A i \in DOMAIN journey[w] : FALSE
  BY Unscanned DEF JourneysEnd
<1>2. \A w \in Waybills, c \in Callers : Booked(c, w)' =>
         \A i \in DOMAIN journey[w] : journey[w][i] = "cancelled"
  BY <1>1 DEF JourneysEnd
<1>3. QED
  BY <1>2 DEF JourneysEnd

(* A box that is not recorded is called off or not scanned, and nothing is *)
(* scanned after the end.                                                  *)
LEMMA EndScan ==
    ASSUME TrackerTypes, WaybillsOnce, JourneysEnd, NEW w \in Waybills, NEW status \in Tracking, Scan(w, status)
    PROVE  JourneysEnd'
<1>1. PICK s, t : s = journey[w] /\ t = Append(s, status)
  OBVIOUS
<1>2. s \in Seq(Tracking) /\ Len(s) \in Nat
  BY <1>1 DEF TrackerTypes
<1>3. DOMAIN t = 1..(Len(s) + 1) /\ Len(t) = Len(s) + 1 /\ t[Len(t)] = status /\ DOMAIN s = 1..Len(s)
      /\ \A i \in DOMAIN s : t[i] = s[i]
  BY <1>1, <1>2
<1>4. /\ \A v \in Waybills : journey'[v] = IF v = w THEN t ELSE journey[v]
      /\ \A v, c : Booked(c, v)' <=> Booked(c, v)
      /\ labels' = labels
  <2>1. UNCHANGED parcelVars /\ journey' = [journey EXCEPT ![w] = t]
    BY <1>1, Scanned
  <2>2. \A v \in Waybills : journey'[v] = IF v = w THEN t ELSE journey[v]
    BY <2>1 DEF TrackerTypes
  <2>3. QED
    BY <2>1, <2>2, SameParcels
<1>5. \A i \in DOMAIN s : s[i] \notin terminal
  <2>1. CASE s = <<>>
    BY <2>1, Unscanned
  <2>2. CASE s # <<>>
    <3>1. s[Len(s)] \notin terminal
      BY <1>1, <2>2 DEF Scan, Latest
    <3>2. \A i \in DOMAIN s : s[i] \in terminal => i = Len(s)
      BY <1>1 DEF JourneysEnd
    <3>3. QED
      BY <3>1, <3>2
  <2>3. QED
    BY <2>1, <2>2
<1>6. \A i \in DOMAIN t : t[i] \in terminal => i = Len(t)
  <2>1. SUFFICES ASSUME NEW i \in DOMAIN t, i # Len(t) PROVE t[i] \notin terminal
    OBVIOUS
  <2>2. i \in DOMAIN s
    BY <1>2, <1>3, <2>1
  <2>3. QED
    BY <1>3, <1>5, <2>2
<1>7. ASSUME NEW c \in Callers, Booked(c, w)
      PROVE  \A i \in DOMAIN t : t[i] = "cancelled"
  <2>1. \A i \in DOMAIN s : s[i] = "cancelled"
    BY <1>1, <1>7 DEF JourneysEnd
  <2>2. \A i \in DOMAIN s : FALSE
    BY <1>5, <2>1 DEF terminal
  <2>3. s = <<>>
    BY <1>2, <1>3, <2>2
  <2>4. recordedAs(w) = {}
    BY <1>7 DEF WaybillsOnce, recordedAs, Recorded
  <2>5. status = "cancelled"
    BY <1>1, <2>3, <2>4 DEF Scan
  <2>6. DOMAIN t = {1} /\ Len(t) = 1
    BY <1>3, <2>3
  <2>7. QED
    BY <1>3, <2>5, <2>6
<1>8. w \in labels
  BY DEF Scan
<1>9. QED
  BY <1>4, <1>6, <1>7, <1>8 DEF JourneysEnd

LEMMA EndNext ==
    PartTypes /\ TrackerTypes /\ WaybillsOnce /\ JourneysEnd /\ [TrackingNext]_trackingVars => JourneysEnd'
<1> SUFFICES ASSUME PartTypes, TrackerTypes, WaybillsOnce, JourneysEnd, [TrackingNext]_trackingVars
             PROVE  JourneysEnd'
  OBVIOUS
<1>1. ASSUME UNCHANGED parcelVars, UNCHANGED journey
      PROVE  JourneysEnd'
  BY <1>1, SameParcels, EndKept
<1>2. ASSUME Quiet, UNCHANGED journey
      PROVE  JourneysEnd'
  <2>1. \A w \in Waybills, c \in Callers : Booked(c, w)' => Booked(c, w)
    BY <1>2, QuietBooks
  <2>2. \A w \in labels : w \in labels'
    BY <1>2 DEF Quiet
  <2>3. QED
    BY <1>2, <2>1, <2>2, EndKept
<1>3. ASSUME NEW a \in Workers, Tell(a)
      PROVE  JourneysEnd'
  <2>1. UNCHANGED journey
    BY <1>3 DEF Tell
  <2>2. ASSUME NEW p \in ParcelIds, ReportedOf(p, work[a].status, work[a].at)
        PROVE  JourneysEnd'
    BY <2>1, <2>2, ReportsRecord, EndKept
  <2>3. QED
    BY <1>1, <1>2, <1>3, <2>1, <2>2, TellIs
<1>4. ASSUME NEW c \in Callers, Shipping(c), UNCHANGED journey
      PROVE  JourneysEnd'
  <2>1. ASSUME NEW w \in Waybills, CarrierBooks(c, w)
        PROVE  JourneysEnd'
    BY <1>4, <2>1, Books, EndKept
  <2>2. ASSUME Record(c)
        PROVE  JourneysEnd'
    <3>1. PICK p \in ParcelIds : RecordedBy(c, p)
      BY <2>2, RecordIs
    <3>2. labels' = labels
      BY <3>1 DEF RecordedBy
    <3>3. QED
      BY <1>4, <3>1, <3>2, RecordsBooked, EndKept
  <2>3. ASSUME (\E want \in Boxes : StartCreate(c, want)) \/ Abandon(c)
        PROVE  JourneysEnd'
    <3>1. labels' = labels /\ \A w \in Waybills, d \in Callers : Booked(d, w)' => Booked(d, w)
      BY <2>3, CallsGoOn
    <3>2. QED
      BY <1>4, <3>1, EndKept
  <2>4. QED
    BY <1>4, <2>1, <2>2, <2>3 DEF Shipping
<1>5. QED
  BY <1>1, <1>2, <1>3, <1>4, OperatorsAreQuiet, EndScan
     DEF TrackingNext, trackingVars, Webhook, Poll, Save, Die

(* A journey only grows, so what was stamped stays so.                     *)
LEMMA StampStays ==
    ASSUME TrackerTypes, [TrackingNext]_trackingVars, NEW w \in Waybills, NEW status, NEW at,
           Stamped(w, status, at)
    PROVE  Stamped(w, status, at)'
<1>1. \A i \in DOMAIN journey[w] : i \in DOMAIN journey'[w] /\ journey'[w][i] = journey[w][i]
  <2>1. CASE UNCHANGED journey
    BY <2>1
  <2>2. ASSUME NEW v \in Waybills, NEW s \in Tracking, Scan(v, s)
        PROVE  \A i \in DOMAIN journey[w] : i \in DOMAIN journey'[w] /\ journey'[w][i] = journey[w][i]
    BY <2>2, Scanned
  <2>3. QED
    BY <2>1, <2>2 DEF TrackingNext, trackingVars, Webhook, Poll, Tell, Save, Die
<1>2. QED
  BY <1>1 DEF Stamped

(* Nothing is scanned after the last word of a journey.                    *)
LEMMA LastWord ==
    ASSUME TrackerTypes, JourneysEnd, NEW w \in Waybills,
           NEW s \in terminal, NEW x, Stamped(w, s, x),
           NEW t, NEW y, Stamped(w, t, y), y >= x
    PROVE  t = s
<1>1. PICK i \in DOMAIN journey[w] : x = 2 * i /\ s = journey[w][i]
  BY DEF Stamped
<1>2. PICK j \in DOMAIN journey[w] : y = 2 * j /\ t = journey[w][j]
  BY DEF Stamped
<1>3. i = Len(journey[w])
  BY <1>1 DEF JourneysEnd
<1>4. i \in 1..Len(journey[w]) /\ j \in 1..Len(journey[w]) /\ Len(journey[w]) \in Nat
  BY DEF TrackerTypes
<1>5. i = j
  BY <1>1, <1>2, <1>3, <1>4
<1>6. QED
  BY <1>1, <1>2, <1>5

-----------------------------------------------------------------------------
(* The history of a worker's update, of a row and of a parcel.             *)

LEMMA WorkGoesOn ==
    ASSUME Undated = FALSE, TrackerTypes, [TrackingNext]_trackingVars, NEW b \in Workers
    PROVE  \/ work'[b].stage = "idle"
           \/ /\ work[b].stage # "idle"
              /\ work'[b].waybill = work[b].waybill /\ work'[b].status = work[b].status /\ work'[b].at = work[b].at
              /\ work'[b].stage = work[b].stage \/ Tell(b)
           \/ /\ work'[b].stage = "telling" /\ work'[b].waybill \in Waybills
              /\ Stamped(work'[b].waybill, work'[b].status, work'[b].at)
<1>1. CASE UNCHANGED work
  BY <1>1
<1>2. ASSUME NEW a \in Workers, NEW w \in Waybills, Webhook(a, w) \/ Poll(a, w), a = b
      PROVE  /\ work'[b].stage = "telling" /\ work'[b].waybill \in Waybills
             /\ Stamped(work'[b].waybill, work'[b].status, work'[b].at)
  <2>1. PICK i \in DOMAIN journey[w] : \E at \in Stamps(w, i) : Takes(a, w, i, at)
    BY <1>2, Hears
  <2>2. PICK at \in Stamps(w, i) : Takes(a, w, i, at)
    BY <2>1
  <2>3. PICK r \in Works : /\ r.stage = "telling" /\ r.waybill = w /\ r.status = journey[w][i] /\ r.at = at
                           /\ work' = [work EXCEPT ![a] = r]
    BY <2>2, Taken
  <2>4. work'[b] = r
    BY <1>2, <2>3 DEF TrackerTypes
  <2>5. at = 2 * i
    BY <2>2 DEF Stamps
  <2>6. Stamped(w, journey[w][i], at)
    BY <2>5 DEF Stamped
  <2>7. QED
    BY <2>3, <2>4, <2>6
<1>3. ASSUME NEW a \in Workers, Tell(a), a = b
      PROVE  /\ work[b].stage # "idle"
             /\ work'[b].waybill = work[b].waybill /\ work'[b].status = work[b].status /\ work'[b].at = work[b].at
             /\ Tell(b)
  <2>1. PICK r \in Works : /\ r.waybill = work[a].waybill /\ r.status = work[a].status /\ r.at = work[a].at
                           /\ work' = [work EXCEPT ![a] = r]
    BY <1>3, TellWork
  <2>2. work'[b] = r
    BY <1>3, <2>1 DEF TrackerTypes
  <2>3. QED
    BY <1>3, <2>1, <2>2 DEF Tell
<1>4. ASSUME NEW a \in Workers, Save(a) \/ Die(a), a = b
      PROVE  work'[b].stage = "idle"
  BY <1>4, NoWorkTypes DEF Save, Die, TrackerTypes
<1>5. ASSUME NEW a \in Workers, a # b,
             (\E w \in Waybills : Webhook(a, w) \/ Poll(a, w)) \/ Tell(a) \/ Save(a) \/ Die(a)
      PROVE  work'[b] = work[b]
  BY <1>5 DEF Webhook, Poll, Takes, Tell, Save, Die, TrackerTypes
<1>6. work'[b] = work[b] => work'[b].stage = "idle" \/ work[b].stage # "idle"
  OBVIOUS
<1>7. QED
  BY <1>1, <1>2, <1>3, <1>4, <1>5, <1>6 DEF TrackingNext, trackingVars, Scan, Workers

LEMMA RowGoesOn ==
    ASSUME TrackerTypes, [TrackingNext]_trackingVars, NEW w \in Waybills
    PROVE  \/ row'[w] = row[w]
           \/ \E a \in Workers : /\ work[a].stage = "saving" /\ work[a].waybill = w
                                 /\ row'[w].status = work[a].status /\ row'[w].at = work[a].at
<1>1. CASE UNCHANGED row
  BY <1>1
<1>2. ASSUME NEW a \in Workers, Save(a), row'[w] # row[w]
      PROVE  /\ work[a].stage = "saving" /\ work[a].waybill = w
             /\ row'[w].status = work[a].status /\ row'[w].at = work[a].at
  BY <1>2, SavedRow DEF Save
<1>3. QED
  BY <1>1, <1>2 DEF TrackingNext, trackingVars, Scan, Webhook, Poll, Tell, Die

(* Where a recorded parcel comes from.                                     *)
Remains(p, w) ==
    /\ Recorded(p, w)
    /\ parcel'[p].tracked = parcel[p].tracked /\ parcel'[p].at = parcel[p].at
    /\ parcel'[p].status = "shipped" => parcel[p].status = "shipped"

Appears(p, w) ==
    /\ parcel[p].status = "none"
    /\ parcel'[p].tracked = parcel[p].tracked /\ parcel'[p].at = parcel[p].at
    /\ \E c \in Callers : Booked(c, w)

IsTold(p, w) ==
    /\ Recorded(p, w)
    /\ \E a \in Workers : /\ Tell(a) /\ work[a].waybill = w
                          /\ ReportedOf(p, work[a].status, work[a].at)

LEMMA ParcelGoesOn ==
    ASSUME PartTypes, TrackerTypes, [TrackingNext]_trackingVars,
           NEW w \in Waybills, NEW p \in ParcelIds, Recorded(p, w)'
    PROVE  p \in undone' \/ Remains(p, w) \/ Appears(p, w) \/ IsTold(p, w)
<1>1. CASE UNCHANGED parcel
  BY <1>1 DEF Remains, Recorded
<1>2. CASE Quiet
  BY <1>2, QuietRecords DEF Remains
<1>3. ASSUME NEW a \in Workers, Tell(a)
      PROVE  p \in undone' \/ Remains(p, w) \/ IsTold(p, w)
  <2>1. ASSUME NEW q \in ParcelIds, Recorded(q, work[a].waybill), ReportedOf(q, work[a].status, work[a].at)
        PROVE  Remains(p, w) \/ IsTold(p, w)
    <3>1. Recorded(p, w)
      BY <2>1, ReportsRecord
    <3>2. CASE p = q
      BY <1>3, <2>1, <3>1, <3>2 DEF Recorded, IsTold
    <3>3. CASE p # q
      BY <2>1, <3>1, <3>3 DEF ReportedOf, Remains
    <3>4. QED
      BY <3>2, <3>3
  <2>2. UNCHANGED parcelVars => UNCHANGED parcel
    BY DEF parcelVars
  <2>3. UNCHANGED parcel => Remains(p, w)
    BY DEF Remains, Recorded
  <2>4. QED
    BY <1>2, <1>3, <2>1, <2>2, <2>3, QuietRecords, TellIs DEF Remains
<1>4. ASSUME NEW c \in Callers, Record(c)
      PROVE  Remains(p, w) \/ Appears(p, w)
  <2>1. PICK q \in ParcelIds : RecordedBy(c, q)
    BY <1>4, RecordIs
  <2>2. CASE p = q
    BY <2>1, <2>2 DEF RecordedBy, Appears, Recorded, Booked
  <2>3. CASE p # q
    BY <2>1, <2>3 DEF RecordedBy, Remains, Recorded
  <2>4. QED
    BY <2>2, <2>3
<1>5. ASSUME NEW c \in Callers, Shipping(c), ~Record(c)
      PROVE  UNCHANGED parcel
  BY <1>5 DEF Shipping, StartCreate, CarrierBooks, Abandon
<1>6. QED
  BY <1>1, <1>2, <1>3, <1>4, <1>5, OperatorsAreQuiet
     DEF TrackingNext, trackingVars, parcelVars, Scan, Webhook, Poll, Save, Die

LEMMA UndoneStays ==
    ASSUME PartTypes, TrackerTypes, [TrackingNext]_trackingVars, NEW p \in undone
    PROVE  p \in undone'
<1>1. CASE undone' = undone
  BY <1>1
<1>2. CASE Quiet
  BY <1>2 DEF Quiet
<1>3. ASSUME NEW a \in Workers, Tell(a)
      PROVE  p \in undone'
  BY <1>1, <1>2, <1>3, TellIs DEF ReportedOf, parcelVars
<1>4. ASSUME NEW c \in Callers, Shipping(c)
      PROVE  undone' = undone
  BY <1>4 DEF Shipping, StartCreate, CarrierBooks, Record, Abandon
<1>5. QED
  BY <1>1, <1>2, <1>3, <1>4, OperatorsAreQuiet
     DEF TrackingNext, trackingVars, parcelVars, Scan, Webhook, Poll, Save, Die

LEMMA NewRowsNext ==
    PartTypes /\ TrackerTypes /\ NewRows /\ [TrackingNext]_trackingVars => NewRows'
<1> SUFFICES ASSUME PartTypes, TrackerTypes, NewRows, [TrackingNext]_trackingVars, NEW p \in ParcelIds,
                    parcel'[p].status = "none"
             PROVE  parcel'[p].at = 0 /\ parcel'[p].tracked = ""
  BY DEF NewRows
<1>1. SUFFICES parcel[p].status = "none" /\ parcel'[p].at = parcel[p].at /\ parcel'[p].tracked = parcel[p].tracked
  BY DEF NewRows
<1>2. CASE UNCHANGED parcel
  BY <1>2
<1>3. CASE Quiet
  BY <1>3 DEF Quiet, Kept
<1>4. ASSUME NEW a \in Workers, Tell(a)
      PROVE  parcel[p].status = "none" /\ parcel'[p].at = parcel[p].at /\ parcel'[p].tracked = parcel[p].tracked
  <2>1. ASSUME NEW q \in ParcelIds, ReportedOf(q, work[a].status, work[a].at)
        PROVE  parcel'[p] = parcel[p]
    BY <2>1 DEF ReportedOf, Live
  <2>2. UNCHANGED parcelVars => UNCHANGED parcel
    BY DEF parcelVars
  <2>3. QED
    BY <1>2, <1>3, <1>4, <2>1, <2>2, TellIs
<1>5. ASSUME NEW c \in Callers, Shipping(c)
      PROVE  parcel'[p] = parcel[p]
  <2>1. ASSUME NEW q \in ParcelIds, RecordedBy(c, q)
        PROVE  parcel'[p] = parcel[p]
    BY <2>1 DEF RecordedBy
  <2>2. ~Record(c) => UNCHANGED parcel
    BY <1>5 DEF Shipping, StartCreate, CarrierBooks, Abandon
  <2>3. QED
    BY <2>1, <2>2, RecordIs
<1>6. QED
  BY <1>2, <1>3, <1>4, <1>5, OperatorsAreQuiet
     DEF TrackingNext, trackingVars, parcelVars, Scan, Webhook, Poll, Save, Die

-----------------------------------------------------------------------------
(* Everything that carries a status carries the time of its scan.          *)

LEMMA WorksStampedNext ==
    ASSUME Undated = FALSE, TrackerTypes, WorksStamped, [TrackingNext]_trackingVars
    PROVE  WorksStamped'
<1> SUFFICES ASSUME NEW b \in Workers, work'[b].stage # "idle",
                    NEW w, NEW s, NEW x,
                    w = work'[b].waybill, s = work'[b].status, x = work'[b].at
             PROVE  Stamped(w, s, x)'
  BY DEF WorksStamped, Stamped
<1>1. w \in Waybills /\ Stamped(w, s, x)
  BY WorkGoesOn DEF WorksStamped, TrackerTypes
<1>2. QED
  BY <1>1, StampStays

LEMMA RowsStampedNext ==
    ASSUME TrackerTypes, WorksStamped, RowsStamped, [TrackingNext]_trackingVars
    PROVE  RowsStamped'
<1> SUFFICES ASSUME NEW w \in Waybills, row'[w].status # ""
             PROVE  \E i \in DOMAIN journey'[w] : row'[w].at = 2 * i /\ row'[w].status = journey'[w][i]
  BY DEF RowsStamped, Stamped
<1>1. PICK s, x : s = row'[w].status /\ x = row'[w].at
  OBVIOUS
<1>2. Stamped(w, s, x)
  BY <1>1, RowGoesOn DEF WorksStamped, RowsStamped
<1>3. Stamped(w, s, x)'
  BY <1>2, StampStays
<1>4. QED
  BY <1>1, <1>3 DEF Stamped

LEMMA ParcelsStampedNext ==
    ASSUME PartTypes, TrackerTypes, WorksStamped, NewRows, ParcelsStamped, [TrackingNext]_trackingVars
    PROVE  ParcelsStamped'
<1> SUFFICES ASSUME NEW w \in Waybills, NEW p \in ParcelIds, Recorded(p, w)', p \notin undone'
             PROVE  \/ parcel'[p].at = 0 /\ parcel'[p].tracked = ""
                    \/ \E i \in DOMAIN journey'[w] :
                          parcel'[p].at = 2 * i /\ parcel'[p].tracked = journey'[w][i]
  BY DEF ParcelsStamped, Stamped
<1>1. PICK s, x : s = parcel'[p].tracked /\ x = parcel'[p].at
  OBVIOUS
<1>2. (x = 0 /\ s = "") \/ Stamped(w, s, x)
  <2>1. CASE Remains(p, w)
    BY <1>1, <2>1, UndoneStays DEF Remains, ParcelsStamped
  <2>2. CASE Appears(p, w)
    BY <1>1, <2>2 DEF Appears, NewRows
  <2>3. CASE IsTold(p, w)
    <3>1. PICK a \in Workers : Tell(a) /\ work[a].waybill = w /\ ReportedOf(p, work[a].status, work[a].at)
      BY <2>3 DEF IsTold
    <3>2. s = work[a].status /\ x = work[a].at /\ work[a].stage # "idle"
      BY <1>1, <3>1 DEF ReportedOf, Tell
    <3>3. QED
      BY <3>1, <3>2 DEF WorksStamped
  <2>4. QED
    BY <2>1, <2>2, <2>3, ParcelGoesOn
<1>3. Stamped(w, s, x) => Stamped(w, s, x)'
  BY StampStays
<1>4. QED
  BY <1>1, <1>2, <1>3 DEF Stamped

-----------------------------------------------------------------------------
(* What a parcel was told is not taken back by what it is told later: the  *)
(* last word of a journey has the latest time.                             *)
LEMMA ToldStays ==
    ASSUME PartTypes, TrackerTypes, DatedInv, [TrackingNext]_trackingVars,
           NEW w \in Waybills, NEW s, NEW x, Stamped(w, s, x), Told(w, s)
    PROVE  Told(w, s)'
<1> SUFFICES ASSUME s \in terminal \ {"cancelled"}, NEW p \in ParcelIds, Recorded(p, w)',
                    parcel'[p].status = "shipped", p \notin undone'
             PROVE  parcel'[p].tracked = s
  BY DEF Told
<1>1. p \notin undone
  BY UndoneStays
<1>2. CASE Remains(p, w)
  BY <1>1, <1>2 DEF Remains, Told
<1>3. CASE Appears(p, w)
  <2>1. \A i \in DOMAIN journey[w] : journey[w][i] = "cancelled"
    BY <1>3 DEF Appears, DatedInv, JourneysEnd
  <2>2. QED
    BY <2>1 DEF Stamped
<1>4. CASE IsTold(p, w)
  <2>1. PICK a \in Workers : Tell(a) /\ work[a].waybill = w /\ ReportedOf(p, work[a].status, work[a].at)
    BY <1>4 DEF IsTold
  <2>2. /\ parcel[p].status = "shipped" /\ Recorded(p, w)
        /\ parcel'[p].tracked = work[a].status /\ work[a].at >= parcel[p].at
    BY <1>4, <2>1 DEF IsTold, ReportedOf
  <2>3. parcel[p].tracked = s
    BY <1>1, <2>2 DEF Told
  <2>4. Stamped(w, s, parcel[p].at)
    BY <1>1, <2>2, <2>3 DEF DatedInv, ParcelsStamped, terminal
  <2>5. Stamped(w, work[a].status, work[a].at)
    BY <2>1 DEF Tell, DatedInv, WorksStamped
  <2>6. work[a].status = s
    BY <2>2, <2>4, <2>5, LastWord DEF DatedInv
  <2>7. QED
    BY <2>2, <2>6
<1>5. QED
  BY <1>2, <1>3, <1>4, ParcelGoesOn

(* The engine refuses the last word only when it has it.                   *)
LEMMA ToldNow ==
    ASSUME PartTypes, TrackerTypes, DatedInv, NEW a \in Workers, Tell(a),
           NEW w, NEW s, w = work[a].waybill, s = work[a].status
    PROVE  Told(w, s)'
<1> SUFFICES ASSUME s \in terminal \ {"cancelled"}, NEW p \in ParcelIds, Recorded(p, w)',
                    parcel'[p].status = "shipped", p \notin undone'
             PROVE  parcel'[p].tracked = s
  BY DEF Told
<1>1. PICK x : x = work[a].at
  OBVIOUS
<1>2. w \in Waybills /\ x \in 1..MaxAt /\ Stamped(w, s, x)
  BY <1>1 DEF Tell, TrackerTypes, DatedInv, WorksStamped
<1>3. CASE UNCHANGED parcelVars /\ Refused(a)
  <2>1. /\ Recorded(p, w) /\ parcel[p].status = "shipped" /\ p \notin undone
        /\ parcel'[p].tracked = parcel[p].tracked
    BY <1>3, SameParcels
  <2>2. ~Tracks(p, s, x)
    BY <1>1, <1>3, <2>1 DEF Refused
  <2>3. \/ parcel[p].tracked = s
        \/ parcel[p].tracked = "returned"
        \/ ~(x >= parcel[p].at)
    BY <2>1, <2>2 DEF Tracks
  <2>4. PICK y : y = parcel[p].at
    OBVIOUS
  <2>5. y \in 0..MaxAt
    BY <2>4 DEF PartTypes, ParcelRows
  <2>6. (y = 0 /\ parcel[p].tracked = "") \/ Stamped(w, parcel[p].tracked, y)
    BY <1>2, <2>1, <2>4 DEF DatedInv, ParcelsStamped
  <2>7. CASE ~(x >= y)
    <3>1. y # 0 /\ y >= x
      BY <1>2, <2>5, <2>7, ParcelBounds
    <3>2. QED
      BY <1>2, <2>1, <2>6, <3>1, LastWord DEF DatedInv
  <2>8. CASE x >= y /\ parcel[p].tracked = "returned"
    <3>1. Stamped(w, "returned", y) /\ "returned" \in terminal
      BY <2>6, <2>8 DEF terminal
    <3>2. s = "returned"
      BY <1>2, <2>8, <3>1, LastWord DEF DatedInv
    <3>3. QED
      BY <2>1, <2>8, <3>2
  <2>9. QED
    BY <2>1, <2>3, <2>4, <2>7, <2>8
<1>4. ASSUME NEW q \in ParcelIds, Recorded(q, w), ReportedOf(q, s, x)
      PROVE  parcel'[p].tracked = s
  <2>1. Recorded(p, w)
    BY <1>4, ReportsRecord
  <2>2. p = q
    BY <1>2, <1>4, <2>1 DEF DatedInv, WaybillsOnce
  <2>3. QED
    BY <1>4, <2>2 DEF ReportedOf
<1>5. QED
  BY <1>1, <1>3, <1>4, TellIs

LEMMA TellsFirstNext ==
    ASSUME Undated = FALSE, PartTypes, TrackerTypes, DatedInv, [TrackingNext]_trackingVars
    PROVE  TellsFirst'
<1>1. ASSUME NEW b \in Workers, work'[b].stage = "saving",
             NEW w, NEW s, w = work'[b].waybill, s = work'[b].status
      PROVE  Told(w, s)'
  <2>1. PICK x : w = work[b].waybill /\ s = work[b].status /\ x = work[b].at
    BY <1>1, WorkGoesOn
  <2>2. work[b].stage # "idle" /\ (work[b].stage = "saving" \/ Tell(b))
    BY <1>1, <2>1, WorkGoesOn
  <2>3. w \in Waybills /\ Stamped(w, s, x)
    BY <2>1, <2>2 DEF TrackerTypes, DatedInv, WorksStamped
  <2>4. CASE Tell(b)
    BY <2>1, <2>2, <2>4, ToldNow
  <2>5. CASE work[b].stage = "saving"
    <3>1. Told(w, s)
      BY <2>1, <2>5 DEF DatedInv, TellsFirst
    <3>2. QED
      BY <2>3, <3>1, ToldStays
  <2>6. QED
    BY <2>2, <2>4, <2>5
<1>2. ASSUME NEW w \in Waybills, NEW s, s = row'[w].status
      PROVE  Told(w, s)'
  <2>1. s = row'[w].status
    BY <1>2
  <2>2. CASE s \notin terminal
    BY <2>2 DEF Told
  <2>3. CASE s \in terminal
    <3>1. \E x : Stamped(w, s, x) /\ Told(w, s)
      <4>1. CASE row'[w] = row[w]
        BY <2>1, <2>3, <4>1 DEF DatedInv, RowsStamped, TellsFirst, terminal
      <4>2. ASSUME NEW a \in Workers, work[a].stage = "saving", work[a].waybill = w, row'[w].status = work[a].status
            PROVE  \E x : Stamped(w, s, x) /\ Told(w, s)
        BY <2>1, <4>2 DEF DatedInv, WorksStamped, TellsFirst
      <4>3. QED
        BY <4>1, <4>2, RowGoesOn
    <3>2. QED
      BY <3>1, ToldStays
  <2>4. QED
    BY <2>2, <2>3
<1>3. QED
  BY <1>1, <1>2 DEF TellsFirst, Told, Recorded

LEMMA DatedInit == TrackingInit => DatedInv
<1> SUFFICES ASSUME TrackingInit PROVE DatedInv
  OBVIOUS
<1>1. /\ \A p \in ParcelIds : parcel[p].status = "none" /\ parcel[p].at = 0 /\ parcel[p].tracked = ""
      /\ \A c \in Callers : call[c].stage = "idle"
      /\ labels = {}
  BY IdleTypes DEF TrackingInit, ParcelsInit, NoParcel
<1>2. WaybillsOnce
  BY <1>1 DEF WaybillsOnce, Booked, Recorded
<1>3. \A w \in Waybills : journey[w] = <<>> /\ \A i \in DOMAIN journey[w] : FALSE
  BY Unscanned DEF TrackingInit
<1>4. JourneysEnd
  BY <1>3 DEF JourneysEnd
<1>5. /\ \A a \in Workers : work[a].stage = "idle"
      /\ \A w \in Waybills : row[w].status = ""
  BY NoWorkTypes DEF TrackingInit
<1>6. WorksStamped /\ RowsStamped /\ NewRows /\ ParcelsStamped
  BY <1>1, <1>5 DEF WorksStamped, RowsStamped, NewRows, ParcelsStamped
<1>7. TellsFirst
  BY <1>5 DEF TellsFirst, Told, terminal
<1>8. QED
  BY <1>2, <1>4, <1>6, <1>7 DEF DatedInv

LEMMA DatedNext ==
    Undated = FALSE /\ PartTypes /\ TrackerTypes /\ DatedInv /\ [TrackingNext]_trackingVars => DatedInv'
<1> SUFFICES ASSUME Undated = FALSE, PartTypes, TrackerTypes, DatedInv, [TrackingNext]_trackingVars
             PROVE  DatedInv'
  OBVIOUS
<1>1. WaybillsOnce' /\ JourneysEnd' /\ NewRows'
  BY OnceNext, EndNext, NewRowsNext DEF DatedInv
<1>2. WorksStamped' /\ RowsStamped' /\ ParcelsStamped'
  BY WorksStampedNext, RowsStampedNext, ParcelsStampedNext DEF DatedInv
<1>3. TellsFirst'
  BY TellsFirstNext
<1>4. QED
  BY <1>1, <1>2, <1>3 DEF DatedInv

(* Where every scan has a time that can be read, apply's order, the engine *)
(* first and the row after it, keeps its promise: a row whose journey is   *)
(* over hides no parcel that the order still has on its way, whatever      *)
(* posts are lost, repeated or late and wherever a process dies.           *)
THEOREM RowsHideNothing ==
    ASSUME Undated = FALSE
    PROVE  TrackingSpec => []RowNeverAheadOfOrder
<1>1. ParcelsTypeOK => PartTypes
  BY DEF ParcelsTypeOK, PartTypes
<1>2. DatedInv => RowNeverAheadOfOrder
  BY DEF DatedInv, TellsFirst, Told, RowNeverAheadOfOrder, recordedAs, Recorded
<1>3. TrackingInit => DatedInv
  BY DatedInit
<1>4. PartTypes /\ TrackerTypes /\ DatedInv /\ [TrackingNext]_trackingVars => DatedInv'
  BY DatedNext
<1>5. TrackingSpec => []PartTypes
  BY <1>1, TrackingIsOfParcels, ParcelsTypeCorrect, PTL
<1>6. QED
  BY <1>2, <1>3, <1>4, <1>5, TrackerCorrect, PTL DEF TrackingSpec
=============================================================================
