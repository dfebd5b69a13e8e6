------------------------------ MODULE Locations ------------------------------
(***************************************************************************)
(* The places a store keeps one variant in: src/core/locations.go, and the *)
(* statements of src/core/inventory.go that move units there.              *)
(*                                                                         *)
(* The other modules let a transaction be one action.  Here it is not: a   *)
(* session runs its statements one by one under READ COMMITTED, a plain    *)
(* read sees what was committed and locks nothing, and a statement that    *)
(* wants a lock another session holds waits.  Places are opened, closed,   *)
(* deleted and made the default while units arrive and leave.              *)
(*                                                                         *)
(* What a transaction writes takes effect with its last statement, when it *)
(* commits: until then the rows it has written are locked, so nobody reads *)
(* them but itself.  Any transaction may be rolled back, as the victim of  *)
(* a deadlock, refused, or with its process.                               *)
(***************************************************************************)
EXTENDS Integers

CONSTANTS
    Places,    \* location ids, in the order in which they are locked
    Sessions,
    OrderIds,  \* orders of one unit
    MaxUnits,  \* bound: units an operator brings a place up to
    NoPlace, NoOrder

ASSUME LocationsAssumption ==
    /\ Places \subseteq Nat /\ NoPlace \notin Places
    /\ NoOrder \notin OrderIds
    /\ MaxUnits \in Nat

VARIABLES
    place,    \* place[p]: "new", what active says of the location, or "gone"
    default,  \* the location with is_default
    shelf,    \* shelf[p]: the variant_stock row at p, if there is one
    book,     \* book[p]: the sums of the stock_movements at p
    variant,  \* track_inventory and continue_selling
    order,    \* order[o]: its state, and its line's location_id
    tx        \* tx[s]: the transaction that session s is in

locVars == <<place, default, shelf, book, variant, order, tx>>

Flags == [track : BOOLEAN, continue : BOOLEAN]
Shelf == [row : BOOLEAN, on_hand : Int, reserved : Nat]
NoShelf == [row |-> FALSE, on_hand |-> 0, reserved |-> 0]
EmptyShelf == [row |-> TRUE, on_hand |-> 0, reserved |-> 0]
Sums == [on_hand : Int, reserved : Int]

-----------------------------------------------------------------------------
(* PostgreSQL's row locks, of locations and of variant_stock.  A foreign   *)
(* key takes "key share" of the row it points to, an UPDATE of no key      *)
(* column "no key update".                                                 *)
Modes == {"key share", "share", "no key update", "update"}

Locks == [table : {"locations", "variant_stock"}, at : Places, mode : Modes]

PlaceLock(p, m) == [table |-> "locations", at |-> p, mode |-> m]
RowLock(p) == [table |-> "variant_stock", at |-> p, mode |-> "update"]

Exclude(m, n) ==
    \/ "update" \in {m, n}
    \/ "no key update" \in {m, n} /\ "key share" \notin {m, n}

Clash(k, l) == k.table = l.table /\ k.at = l.at /\ Exclude(k.mode, l.mode)

(* The order path, and what operators do to places and to the variant.     *)
OrderPath == {"reserve", "commit", "release", "restock"}
Desk == {"move", "adjust", "import", "close", "delete", "default", "stop selling"}

Transactions ==
    [op : OrderPath \cup Desk \cup {"none"},
     next : {"none", "ask", "take", "first", "second", "out", "count", "stand down", "write"},
     order : OrderIds \cup {NoOrder},
     from : Places \cup {NoPlace}, to : Places \cup {NoPlace},
     units : Int,       \* asked for; applied, once the row is taken
     found : BOOLEAN,   \* what it read before: an open place, a row to move from
     sees : Flags,      \* the variant in the snapshot of its UPDATE
     held : SUBSET Locks]

NoTx == [op |-> "none", next |-> "none", order |-> NoOrder, from |-> NoPlace, to |-> NoPlace,
         units |-> 0, found |-> FALSE, sees |-> [track |-> FALSE, continue |-> FALSE], held |-> {}]

(* A store that has sold nothing: its default place is the first it has,   *)
(* where a new variant's stock goes, and there is no row elsewhere.        *)
LocationsInit ==
    /\ default \in Places /\ \A p \in Places : default <= p
    /\ place = [p \in Places |-> IF p = default THEN "open" ELSE "new"]
    /\ shelf = [p \in Places |->
                  IF p = default THEN [EmptyShelf EXCEPT !.on_hand = MaxUnits] ELSE NoShelf]
    /\ book = [p \in Places |-> [on_hand |-> shelf[p].on_hand, reserved |-> 0]]
    /\ variant \in Flags
    /\ order = [o \in OrderIds |-> [status |-> "none", at |-> NoPlace]]
    /\ tx = [s \in Sessions |-> NoTx]

Exists(p) == place[p] \in {"open", "closed"}

Available(r) == r.on_hand - r.reserved

(* The WHERE of reserveStock, and of pickLocation.                         *)
Covers(flags, r) == r.row /\ (~flags.track \/ flags.continue \/ Available(r) >= 1)

(* What each statement of the order path leaves of a row.                  *)
After(op, r, n) ==
    CASE op = "reserve" -> [r EXCEPT !.reserved = @ + n]
      [] op = "commit"  -> [r EXCEPT !.on_hand = @ - n, !.reserved = @ - n]
      [] op = "release" -> [r EXCEPT !.reserved = IF @ >= n THEN @ - n ELSE 0]
      [] op = "restock" -> [r EXCEPT !.on_hand = @ + n]

(* Mutant: a move locks the row it leaves, and then the one it arrives at. *)
AsGiven(t) == <<t.from, t.to>>

(* ORDER BY location_id.                                                   *)
InOrder(t) == IF t.from < t.to THEN <<t.from, t.to>> ELSE <<t.to, t.from>>

(* A row that an UPDATE or a SELECT ... FOR UPDATE finds and locks.        *)
Found(p) == IF shelf[p].row THEN {RowLock(p)} ELSE {}

(* Mutant: no row is ever inserted.                                        *)
NeverInserted(p) == {}

(* ensureStockRow inserts a row, which its foreign key points at a place.  *)
Inserted(p) == IF shelf[p].row THEN {} ELSE {RowLock(p), PlaceLock(p, "key share")}

(* The row as its transaction knows it, which may have inserted it.        *)
Mine(t, p) == IF ~shelf[p].row /\ RowLock(p) \in t.held THEN EmptyShelf ELSE shelf[p]

(* recordMovement writes a row for what has changed, which points at the   *)
(* place, and the line of a new order does so even if nothing has.         *)
Recorded(t) ==
    IF t.op = "reserve" \/ After(t.op, Mine(t, t.to), t.units) # Mine(t, t.to)
    THEN {PlaceLock(t.to, "key share")} ELSE {}

(* The locks that the next statement of s waits for.                       *)
Wanted(s) ==
    LET t == tx[s]
    IN  CASE t.next = "ask" /\ t.op # "reserve" -> Inserted(t.to)
          [] t.next = "take" -> Found(t.to)
          [] t.next = "first" -> Found(InOrder(t)[1])
          [] t.next = "second" /\ (t.found \/ InOrder(t)[2] # t.from) -> Found(InOrder(t)[2])
          [] t.next = "out" -> Found(t.from)
          [] t.next = "stand down" /\ default # NoPlace -> {PlaceLock(default, "no key update")}
          [] t.next = "write" /\ t.op = "default" -> {PlaceLock(t.to, "no key update")}
          [] t.next = "write" /\ t.op = "delete" -> Found(t.to)
          [] t.next = "write" /\ t.op = "move" ->
                {PlaceLock(t.from, "key share"), PlaceLock(t.to, "key share")}
          [] t.next = "write" /\ t.op = "import" -> {PlaceLock(t.to, "key share")}
          [] t.next = "write" /\ t.op \in OrderPath -> Recorded(t)
          [] OTHER -> {}

Stands(b, locks) == \E k \in locks, h \in tx[b].held : Clash(k, h)

WaitsFor(s, b) == s # b /\ Stands(b, Wanted(s))

Free(s) == \A b \in Sessions : ~WaitsFor(s, b)

(* A transaction whose first statement takes these locks.                  *)
Begin(s, t) ==
    /\ tx[s] = NoTx
    /\ \A b \in Sessions \ {s} : ~Stands(b, t.held)
    /\ tx' = [tx EXCEPT ![s] = t]
    /\ UNCHANGED <<place, default, shelf, book, variant, order>>

(* Its next statement, done.                                               *)
Statement(s, t) ==
    /\ Free(s)
    /\ tx' = [tx EXCEPT ![s] = [t EXCEPT !.held = @ \cup Wanted(s)]]
    /\ UNCHANGED <<place, default, shelf, book, variant, order>>

(* Its last one.                                                           *)
Commit(s) ==
    /\ Free(s)
    /\ tx' = [tx EXCEPT ![s] = NoTx]

RollBack(s) ==
    /\ tx[s] # NoTx
    /\ tx' = [tx EXCEPT ![s] = NoTx]
    /\ UNCHANGED <<place, default, shelf, book, variant, order>>

-----------------------------------------------------------------------------
Lines(o) == \A s \in Sessions : tx[s].order # o

(* pickLocation: an open place with a row that covers the unit, in an      *)
(* order operators may change, or else the default, open or not.           *)
pickLocation(p) ==
    LET able == {q \in Places : place[q] = "open" /\ Covers(variant, shelf[q])}
    IN  IF able # {} THEN p \in able ELSE p = default

(* lineLocation: where the line's units live, or the default if that place *)
(* has been deleted.                                                       *)
lineLocation(o) == IF order[o].at = NoPlace THEN default ELSE order[o].at

Verb(s, o, op, p) ==
    /\ Lines(o)
    /\ p # NoPlace
    /\ Begin(s, [NoTx EXCEPT !.op = op, !.next = "ask", !.order = o, !.to = p])

(* createOrderFromCart; Confirm and what else records a payment; Cancel of *)
(* a pending and of a confirmed order; Return, to the line's place or to   *)
(* one that returnShelf finds open.                                        *)
Place(s, o, p) == order[o].status = "none" /\ pickLocation(p) /\ Verb(s, o, "reserve", p)
Confirm(s, o) == order[o].status = "pending" /\ Verb(s, o, "commit", lineLocation(o))
Cancel(s, o) ==
    \/ order[o].status = "pending" /\ Verb(s, o, "release", lineLocation(o))
    \/ order[o].status = "committed" /\ Verb(s, o, "restock", lineLocation(o))
Return(s, o, p) == order[o].status = "committed" /\ place[p] = "open" /\ Verb(s, o, "restock", p)

(* What the statement of op reads of the variant, and keeps while it waits *)
(* for its row.  releaseStock waits in a SELECT ... FOR UPDATE before it,  *)
(* and setStockFromFile in a SELECT that reads for itself.                 *)
Snapshot(op) ==
    [track    |-> op \in {"reserve", "commit", "restock"} /\ variant.track,
     continue |-> op = "reserve" /\ variant.continue]

(* ensureStockRow, which the checkout leaves out, and the snapshot of the  *)
(* statement that follows.                                                 *)
Ask(s) ==
    LET t == tx[s]
    IN  /\ t.next = "ask"
        /\ t.op # "reserve" /\ ~shelf[t.to].row => Exists(t.to)
        /\ Statement(s, [t EXCEPT !.next = "take", !.sees = Snapshot(t.op)])

Counted(t) == IF t.op = "release" THEN variant.track ELSE t.sees.track

(* Mutant: the row was found to cover the unit when it was picked.         *)
PermitsPicked(t, r, n) == t.op = "commit" => r.reserved >= n

(* Mutant: no CHECK of variant_stock stands behind commitStock.            *)
PermitsUnchecked(t, r, n) == t.op = "reserve" => Covers(t.sees, r)

(* The WHERE of reserveStock, and the CHECK that commitStock runs into.    *)
Permits(t, r, n) ==
    /\ t.op = "reserve" => Covers(t.sees, r)
    /\ t.op = "commit" => r.reserved >= n

(* The UPDATE of reserveStock, commitStock, releaseStock or restockStock,  *)
(* which moves nothing for a variant that is not tracked, or in no row.    *)
Take(s) ==
    LET t == tx[s]
        r == Mine(t, t.to)
        n == IF Counted(t) /\ r.row THEN 1 ELSE 0
    IN  /\ t.next = "take" /\ t.op \in OrderPath
        /\ Permits(t, r, n)
        /\ Statement(s, [t EXCEPT !.next = "write", !.units = n])

(* Mutant: a release is recorded as it was asked for.                      *)
BookAsked(t, p, r) ==
    [on_hand  |-> book[p].on_hand + r.on_hand - Mine(t, p).on_hand,
     reserved |-> book[p].reserved +
                     (IF t.op = "release" THEN -t.units ELSE r.reserved - Mine(t, p).reserved)]

(* A movement is what its statement applied.                               *)
Book(t, p, r) ==
    [on_hand  |-> book[p].on_hand + r.on_hand - Mine(t, p).on_hand,
     reserved |-> book[p].reserved + r.reserved - Mine(t, p).reserved]

(* The movement, the order, and the end of the transaction.                *)
Write(s) ==
    LET t == tx[s]
        r == After(t.op, Mine(t, t.to), t.units)
        status == CASE t.op = "reserve" -> "pending" [] t.op = "commit" -> "committed" [] OTHER -> "over"
    IN  /\ t.next = "write" /\ t.op \in OrderPath
        /\ Recorded(t) # {} => Exists(t.to)
        /\ shelf' = [shelf EXCEPT ![t.to] = r]
        /\ book' = [book EXCEPT ![t.to] = Book(t, t.to, r)]
        /\ order' = [order EXCEPT ![t.order].status = status,
                                  ![t.order].at = IF t.op = "reserve" THEN t.to ELSE @]
        /\ Commit(s)
        /\ UNCHANGED <<place, default, variant>>

-----------------------------------------------------------------------------
(* prepare: the place that units arrive at is held as it is, open unless   *)
(* they leave, and given a row.                                            *)
prepare(p, n) ==
    /\ Exists(p)
    /\ n > 0 => place[p] = "open"

(* Mutant: the place is looked at and not locked.                          *)
PreparedUnlocked(p) == Inserted(p)

Prepared(p) == {PlaceLock(p, "share")} \cup Inserted(p)

(* Move, from one place to another.  Reserved units do not travel.         *)
Move(s, p, q, n) ==
    /\ p # q
    /\ Exists(p)
    /\ prepare(q, n)
    /\ Begin(s, [NoTx EXCEPT !.op = "move", !.next = "first", !.from = p, !.to = q,
                             !.units = n, !.held = Prepared(q)])

(* Its SELECT ... ORDER BY location_id FOR UPDATE, a row at a time, of     *)
(* those that were there when it began.                                    *)
LockFirst(s) ==
    /\ tx[s].next = "first"
    /\ Statement(s, [tx[s] EXCEPT !.next = "second", !.found = shelf[tx[s].from].row])

LockSecond(s) ==
    /\ tx[s].next = "second"
    /\ Statement(s, [tx[s] EXCEPT !.next = "out"])

(* The UPDATE of the place that units leave.                               *)
TakeOut(s) ==
    LET t == tx[s]
    IN  /\ t.next = "out"
        /\ shelf[t.from].row
        /\ shelf[t.from].on_hand - t.units >= shelf[t.from].reserved
        /\ Statement(s, [t EXCEPT !.next = "write"])

WriteMove(s) ==
    LET t == tx[s]
        out == [shelf[t.from] EXCEPT !.on_hand = @ - t.units]
        in == [Mine(t, t.to) EXCEPT !.on_hand = @ + t.units]
    IN  /\ t.op = "move" /\ t.next = "write"
        /\ Exists(t.from)
        /\ in.on_hand <= MaxUnits
        /\ shelf' = [shelf EXCEPT ![t.from] = out, ![t.to] = in]
        /\ book' = [book EXCEPT ![t.from] = Book(t, t.from, out), ![t.to] = Book(t, t.to, in)]
        /\ Commit(s)
        /\ UNCHANGED <<place, default, variant, order>>

(* Adjust by n, and SetOnHand to a count n above or below what is there.   *)
Adjust(s, p, n) ==
    /\ prepare(p, n)
    /\ Begin(s, [NoTx EXCEPT !.op = "adjust", !.next = "take", !.to = p,
                             !.units = n, !.held = Prepared(p)])

WriteAdjust(s) ==
    LET t == tx[s]
        r == [Mine(t, t.to) EXCEPT !.on_hand = @ + t.units]
    IN  /\ t.op = "adjust"
        /\ r.on_hand >= r.reserved
        /\ r.on_hand <= MaxUnits
        /\ shelf' = [shelf EXCEPT ![t.to] = r]
        /\ book' = [book EXCEPT ![t.to] = Book(t, t.to, r)]
        /\ Commit(s)
        /\ UNCHANGED <<place, default, variant, order>>

(* A count from a file: whether the place is open was read with the        *)
(* header, before the transaction of the row.                              *)
Import(s, p, n) ==
    /\ Exists(p)
    /\ Begin(s, [NoTx EXCEPT !.op = "import", !.next = "ask", !.to = p,
                             !.units = n, !.found = place[p] = "open"])

(* setStockFromFile: a count below what is reserved is raised to it, but   *)
(* for a variant that sells past zero.                                     *)
TakeImport(s) ==
    LET t == tx[s]
        r == Mine(t, t.to)
    IN  /\ t.op = "import" /\ t.next = "take"
        /\ r.row
        /\ t.units > r.on_hand => t.found
        /\ Statement(s, [t EXCEPT !.next = "write", !.sees.continue = variant.continue,
               !.units = IF variant.continue \/ @ >= r.reserved THEN @ ELSE r.reserved])

WriteImport(s) ==
    LET t == tx[s]
        r == [Mine(t, t.to) EXCEPT !.on_hand = t.units]
    IN  /\ t.op = "import" /\ t.next = "write"
        /\ Exists(t.to)
        /\ shelf' = [shelf EXCEPT ![t.to] = r]
        /\ book' = [book EXCEPT ![t.to] = Book(t, t.to, r)]
        /\ Commit(s)
        /\ UNCHANGED <<place, default, variant, order>>

-----------------------------------------------------------------------------
(* Create; Update of active; Delete; SetDefault.                           *)
Create(p, active) ==
    /\ place[p] = "new"
    /\ place' = [place EXCEPT ![p] = active]
    /\ UNCHANGED <<default, shelf, book, variant, order, tx>>

(* Update and Delete lock the place before they count what is in it.       *)
Count(s, op, p) ==
    Begin(s, [NoTx EXCEPT !.op = op, !.next = "count", !.to = p,
                          !.held = {PlaceLock(p, "update")}])

Close(s, p) == place[p] = "open" /\ Count(s, "close", p)

Reopen(p) ==
    /\ place[p] = "closed"
    /\ \A b \in Sessions : ~Stands(b, {PlaceLock(p, "update")})
    /\ place' = [place EXCEPT ![p] = "open"]
    /\ UNCHANGED <<default, shelf, book, variant, order, tx>>

(* Mutant: the default can be deleted like another place.                  *)
DeleteAny(s, p) == Exists(p) /\ Count(s, "delete", p)

Delete(s, p) == Exists(p) /\ p # default /\ Count(s, "delete", p)

refuseIfHolding(p) == shelf[p].on_hand = 0 /\ shelf[p].reserved = 0

WriteClose(s) ==
    LET p == tx[s].to
    IN  /\ tx[s].op = "close"
        /\ refuseIfHolding(p)
        /\ place' = [place EXCEPT ![p] = "closed"]
        /\ Commit(s)
        /\ UNCHANGED <<default, shelf, book, variant, order>>

Counting(s) ==
    /\ tx[s].op = "delete" /\ tx[s].next = "count"
    /\ refuseIfHolding(tx[s].to)
    /\ Statement(s, [tx[s] EXCEPT !.next = "write"])

(* ON DELETE SET NULL: the lines and the movements of the place outlive it *)
(* and name it no more.                                                    *)
WriteDelete(s) ==
    LET p == tx[s].to
    IN  /\ tx[s].op = "delete" /\ tx[s].next = "write"
        /\ place' = [place EXCEPT ![p] = "gone"]
        /\ shelf' = [shelf EXCEPT ![p] = NoShelf]
        /\ book' = [book EXCEPT ![p] = [on_hand |-> 0, reserved |-> 0]]
        /\ order' = [o \in OrderIds |->
                        IF order[o].at = p THEN [order[o] EXCEPT !.at = NoPlace] ELSE order[o]]
        /\ default' = IF default = p THEN NoPlace ELSE default
        /\ Commit(s)
        /\ UNCHANGED variant

(* SetDefault reads active without a lock, has the old default stand down, *)
(* and the new one stand up if it is still there.                          *)
SetDefault(s, p) ==
    /\ place[p] = "open"
    /\ Begin(s, [NoTx EXCEPT !.op = "default", !.next = "stand down", !.to = p])

StandDown(s) ==
    /\ tx[s].next = "stand down"
    /\ Statement(s, [tx[s] EXCEPT !.next = "write", !.from = default])

(* locations_one_default: whoever found another default is refused.        *)
WriteDefault(s) ==
    LET t == tx[s]
    IN  /\ t.op = "default" /\ t.next = "write"
        /\ default = t.from
        /\ default' = IF Exists(t.to) THEN t.to ELSE NoPlace
        /\ Commit(s)
        /\ UNCHANGED <<place, shelf, book, variant, order>>

(* UpdateVariant.  Switching continue_selling off reads the shelves first, *)
(* outside its transaction.                                                *)
Track(on) ==
    /\ variant.track # on
    /\ variant' = [variant EXCEPT !.track = on]
    /\ UNCHANGED <<place, default, shelf, book, order, tx>>

SellPastZero ==
    /\ ~variant.continue
    /\ variant' = [variant EXCEPT !.continue = TRUE]
    /\ UNCHANGED <<place, default, shelf, book, order, tx>>

StopSelling(s) ==
    /\ variant.continue
    /\ \A p \in Places : shelf[p].reserved <= shelf[p].on_hand
    /\ Begin(s, [NoTx EXCEPT !.op = "stop selling", !.next = "write"])

WriteStop(s) ==
    /\ tx[s].op = "stop selling"
    /\ variant' = [variant EXCEPT !.continue = FALSE]
    /\ Commit(s)
    /\ UNCHANGED <<place, default, shelf, book, order>>

-----------------------------------------------------------------------------
LocationsNext ==
    \/ \E s \in Sessions :
          \/ \E o \in OrderIds :
                \/ Confirm(s, o) \/ Cancel(s, o)
                \/ \E p \in Places : Place(s, o, p) \/ Return(s, o, p)
          \/ \E p \in Places :
                \/ \E q \in Places, n \in 1..MaxUnits : Move(s, p, q, n)
                \/ \E n \in (-MaxUnits..MaxUnits) \ {0} : Adjust(s, p, n)
                \/ \E n \in 0..MaxUnits : Import(s, p, n)
                \/ Close(s, p) \/ Delete(s, p) \/ SetDefault(s, p)
          \/ Ask(s) \/ Take(s) \/ Write(s)
          \/ LockFirst(s) \/ LockSecond(s) \/ TakeOut(s) \/ WriteMove(s) \/ WriteAdjust(s)
          \/ TakeImport(s) \/ WriteImport(s)
          \/ WriteClose(s) \/ Counting(s) \/ WriteDelete(s)
          \/ StandDown(s) \/ WriteDefault(s)
          \/ StopSelling(s) \/ WriteStop(s) \/ RollBack(s)
    \/ \E p \in Places, a \in {"open", "closed"} : Create(p, a)
    \/ \E p \in Places : Reopen(p)
    \/ \E on \in BOOLEAN : Track(on)
    \/ SellPastZero

LocationsSpec == LocationsInit /\ [][LocationsNext]_locVars

-----------------------------------------------------------------------------
TypeOK ==
    /\ place \in [Places -> {"new", "open", "closed", "gone"}]
    /\ default \in Places \cup {NoPlace}
    /\ shelf \in [Places -> Shelf]
    /\ book \in [Places -> Sums]
    /\ variant \in Flags
    /\ order \in [OrderIds -> [status : {"none", "pending", "committed", "over"},
                               at : Places \cup {NoPlace}]]
    /\ tx \in [Sessions -> Transactions]

(* checkLedger: "for every pair, sum(on_hand_delta) has to equal on_hand   *)
(* and sum(reserved_delta) has to equal reserved", whatever a release was  *)
(* asked for and a switch has left to release.                             *)
LedgerReconciles ==
    \A p \in Places : book[p] = [on_hand |-> shelf[p].on_hand, reserved |-> shelf[p].reserved]

(* D44: no unit is stranded.  Nothing arrives at a closed place but what   *)
(* comes back off a sale, and by a file whose header was read while the    *)
(* place was open, or whose count is raised to what the place has          *)
(* promised; and no place is deleted with units in it or promised from it. *)
NothingIsStranded ==
    [][\A p \in Places :
          /\ place[p] = "closed" /\ shelf'[p].on_hand > shelf[p].on_hand =>
                \E s \in Sessions :
                    /\ tx[s].to = p
                    /\ \/ tx[s].op = "restock"
                       \/ tx[s].op = "import" /\ (tx[s].found \/ shelf'[p].on_hand = shelf[p].reserved)
          /\ shelf[p].row /\ ~shelf'[p].row =>
                shelf[p].on_hand = 0 /\ shelf[p].reserved = 0]_locVars

(* "Exactly one default, enforced rather than remembered": none is left    *)
(* only by a SetDefault whose place was deleted after it was read.         *)
DefaultIsKept ==
    [][default # NoPlace /\ default' = NoPlace =>
          \E s \in Sessions : tx[s].op = "default" /\ place[tx[s].to] = "gone"]_locVars

Oversold(p) == shelf[p].reserved > shelf[p].on_hand

(* A variant that does not sell past zero comes to have a shelf with more  *)
(* reserved than there is only by the switch itself, which decided on what *)
(* it had read, or by a statement that had read the switch before.         *)
OversoldBySwitchingOnly ==
    [][~variant'.continue /\ (\E p \in Places : Oversold(p)') =>
          \/ ~variant.continue /\ \E p \in Places : Oversold(p)
          \/ \E s \in Sessions : tx[s].op = "stop selling" /\ tx'[s] = NoTx
          \/ \E s \in Sessions : tx[s].sees.continue /\ tx'[s] = NoTx]_locVars

(* What a cancellation or a return puts back is on a shelf afterwards,     *)
(* unless its place was deleted between ensureStockRow and the UPDATE.     *)
RestockedUnitsLand ==
    [][\A s \in Sessions :
          /\ tx[s].op = "restock" /\ tx[s].next = "write" /\ tx[s].sees.track
          /\ order'[tx[s].order].status # order[tx[s].order].status
          => shelf'[tx[s].to].on_hand > shelf[tx[s].to].on_hand \/ place[tx[s].to] = "gone"]_locVars

(* "One lock, one order": two sessions wait for each other only if one of  *)
(* them deletes the place that the other has taken a row of, or moves      *)
(* units out of a place whose row was not there to be locked in order.     *)
OnlyDeletionsDeadlock ==
    \A a, b \in Sessions :
        WaitsFor(a, b) /\ WaitsFor(b, a) =>
            \E c \in {a, b} :
                \/ tx[c].next = "out"
                \/ tx[c].op = "delete" /\ \E d \in {a, b} : tx[d].op \in OrderPath \cup {"import"}
=============================================================================
