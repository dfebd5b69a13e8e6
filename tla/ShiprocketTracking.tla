------------------------- MODULE ShiprocketTracking -------------------------
(***************************************************************************)
(* What Shiprocket says about the parcels of an order:                     *)
(* src/ext/fulfill-shiprocket/tracking.go over the parcels of              *)
(* src/core/fulfillment.go.                                                *)
(*                                                                         *)
(* Shiprocket keeps a journey for every waybill and posts each scan of it; *)
(* a post may be lost, repeated or late.  A poll asks for the newest scan. *)
(* Either way `apply` runs in a worker: it reads the module's row, tells   *)
(* the engine, and then writes the row.  Other workers run between those   *)
(* steps, and a process may die there.                                     *)
(*                                                                         *)
(* The time of a post is its place in the journey, doubled so that the     *)
(* clock that stamps a post without a readable time falls between scans.   *)
(***************************************************************************)
EXTENDS Parcels, Sequences

CONSTANTS
    Handlers,  \* requests that carry a post
    Pollers,   \* the poll of each engine process
    MaxScans,  \* bound: scans of one journey
    Undated    \* whether a post's time may be unreadable

ASSUME TrackingAssumption == MaxScans \in Nat \ {0} /\ MaxAt = 2 * MaxScans + 1

Workers == Handlers \cup Pollers

VARIABLES
    journey,   \* journey[w]: the scans Shiprocket has made, oldest first
    row,       \* row[w]: the shiprocket_shipments row of a booked waybill
    work       \* work[a]: the update a worker is applying

trackingVars == <<parcelVars, journey, row, work>>

Rows == [status : Tracking \cup {""}, at : 0..MaxAt, cancelled : BOOLEAN]

NoWork == [stage |-> "idle", waybill |-> NoWaybill, status |-> "", at |-> 0]

Works ==
    [stage : {"idle", "telling", "saving"}, waybill : Waybills \cup {NoWaybill},
     status : Tracking \cup {""}, at : 0..MaxAt]

TrackingInit ==
    /\ ParcelsInit
    /\ journey = [w \in Waybills |-> <<>>]
    /\ row = [w \in Waybills |-> [status |-> "", at |-> 0, cancelled |-> FALSE]]
    /\ work = [a \in Workers |-> NoWork]

-----------------------------------------------------------------------------
(* Of the codes that mean lost, one is not terminal, Untraceable: a parcel  *)
(* that is lost here has one of the others.                                *)
terminal == {"delivered", "returned", "lost", "cancelled"}

Latest(w) == journey[w][Len(journey[w])]

(* recordedAs: the order's parcels that carry the waybill.                 *)
recordedAs(w) ==
    {p \in ParcelIds : parcel[p].waybill = w /\ parcel[p].status \in {"shipped", "delivered", "cancelled"}}

(* Shiprocket's own: a booking may be called off before the courier has    *)
(* it.  Once collected, which takes the label of a recorded parcel, it     *)
(* travels until it is delivered, back or lost.                            *)
Scan(w, status) ==
    /\ w \in labels
    /\ Len(journey[w]) < MaxScans
    /\ IF journey[w] = <<>>
       THEN status = "cancelled" \/ (status \in Moves /\ recordedAs(w) # {})
       ELSE Latest(w) \notin terminal /\ status \notin {"cancelled", Latest(w)}
    /\ journey' = [journey EXCEPT ![w] = Append(@, status)]
    /\ UNCHANGED <<parcelVars, row, work>>

(* Mutant: a time in another zone, ahead of now.                           *)
StampsAhead(w, i) == {2 * i, 2 * Len(journey[w]) + 2}

(* When a post of scan i says it was: a time nobody can read is now.       *)
Stamps(w, i) == {2 * i} \cup (IF Undated THEN {2 * Len(journey[w]) + 1} ELSE {})

(* apply's first step.  An update older than the row's is dropped.         *)
Takes(a, w, i, at) ==
    /\ work[a].stage = "idle"
    /\ at >= row[w].at
    /\ work' = [work EXCEPT ![a] =
          [stage |-> "telling", waybill |-> w, status |-> journey[w][i], at |-> at]]

(* handleWebhook: any scan, at any time after it was made.                 *)
Webhook(a, w) ==
    /\ \E i \in DOMAIN journey[w] : \E at \in Stamps(w, i) : Takes(a, w, i, at)
    /\ UNCHANGED <<parcelVars, journey, row>>

(* Mutant: a waybill heard of once is left to its posts.                   *)
pendingUntilHeard(w) == w \in labels /\ ~row[w].cancelled /\ row[w].status = ""

(* pending: booked, and not known to be over.                              *)
pending(w) == w \in labels /\ ~row[w].cancelled /\ row[w].status \notin terminal

(* Poll, or an operator's handleTrack: the newest scan, which has a time.  *)
Poll(a, w) ==
    /\ pending(w)
    /\ journey[w] # <<>>
    /\ Takes(a, w, Len(journey[w]), 2 * Len(journey[w]))
    /\ UNCHANGED <<parcelVars, journey, row>>

(* Mutant: the engine's refusal or failure is taken for an answer.         *)
TellAnyway(a) ==
    /\ work[a].stage = "telling"
    /\ work' = [work EXCEPT ![a].stage = "saving"]
    /\ \/ UNCHANGED parcelVars
       \/ \E p \in recordedAs(work[a].waybill) : Track(p, work[a].status, work[a].at)
    /\ UNCHANGED <<journey, row>>

(* tell: the engine applies the update, or has no use for it.              *)
Tell(a) ==
    /\ work[a].stage = "telling"
    /\ IF \E p \in recordedAs(work[a].waybill) : Tracks(p, work[a].status, work[a].at)
       THEN \E p \in recordedAs(work[a].waybill) : Track(p, work[a].status, work[a].at)
       ELSE UNCHANGED parcelVars
    /\ work' = [work EXCEPT ![a].stage = "saving"]
    /\ UNCHANGED <<journey, row>>

(* saveIfNewer.                                                            *)
Save(a) ==
    LET w == work[a].waybill
    IN  /\ work[a].stage = "saving"
        /\ row' = IF work[a].at >= row[w].at
                  THEN [row EXCEPT ![w] =
                           [status |-> work[a].status, at |-> work[a].at,
                            cancelled |-> @.cancelled \/ work[a].status = "cancelled"]]
                  ELSE row
        /\ work' = [work EXCEPT ![a] = NoWork]
        /\ UNCHANGED <<parcelVars, journey>>

(* The process dies, or the database refuses a step.                       *)
Die(a) ==
    /\ work[a].stage # "idle"
    /\ work' = [work EXCEPT ![a] = NoWork]
    /\ UNCHANGED <<parcelVars, journey, row>>

TrackingNext ==
    \/ \E c \in Callers : Shipping(c) /\ UNCHANGED <<journey, row, work>>
    \/ Operators /\ UNCHANGED <<journey, row, work>>
    \/ \E w \in Waybills, status \in Tracking : Scan(w, status)
    \/ \E a \in Handlers, w \in Waybills : Webhook(a, w)
    \/ \E a \in Pollers, w \in Waybills : Poll(a, w)
    \/ \E a \in Workers : Tell(a) \/ Save(a) \/ Die(a)

TrackingSpec == TrackingInit /\ [][TrackingNext]_trackingVars

(* Every pass of a poll goes through all its pending waybills, and not     *)
(* every update of a waybill is cut short.  Posts are promised nothing.    *)
PollingSpec ==
    /\ TrackingSpec
    /\ \A a \in Pollers, w \in Waybills :
          /\ SF_trackingVars(Poll(a, w))
          /\ SF_trackingVars(Tell(a) /\ work[a].waybill = w)
          /\ SF_trackingVars(Save(a) /\ work[a].waybill = w)

-----------------------------------------------------------------------------
TypeOK ==
    /\ ParcelsTypeOK
    /\ \A w \in Waybills :
          /\ Len(journey[w]) <= MaxScans
          /\ \A i \in DOMAIN journey[w] : journey[w][i] \in Tracking
    /\ row \in [Waybills -> Rows]
    /\ work \in [Workers -> Works]

(* tracking.go:121: "The engine is told first and the row written after":  *)
(* a row that says a journey is over, which no poll asks about again,      *)
(* never hides a parcel that the order still has on its way, unless an     *)
(* operator put it back there.                                             *)
RowNeverAheadOfOrder ==
    \A w \in Waybills : \A p \in recordedAs(w) :
        row[w].status \in terminal \ {"cancelled"} =>
            parcel[p].status # "shipped" \/ parcel[p].tracked = row[w].status \/ p \in undone

(* "the poll catches up on what was missed": a delivery that Shiprocket    *)
(* knows of reaches the order, with every post lost and processes dying.   *)
PollCatchesUp ==
    \A p \in ParcelIds, w \in Waybills :
        (/\ parcel[p].waybill = w /\ parcel[p].status = "shipped"
         /\ journey[w] # <<>> /\ Latest(w) = "delivered")
        ~> (parcel[p].status # "shipped" \/ p \in undone)
=============================================================================
