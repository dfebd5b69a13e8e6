--------------------------- MODULE LocationsProofs ---------------------------
(***************************************************************************)
(* What the row locks of Locations are worth, for any number of places,    *)
(* sessions and orders: no unit is stranded at a closed or deleted place,  *)
(* the ledger accounts for the shelves, and the store keeps its default    *)
(* but for the deletion that SetDefault does not see.                      *)
(*                                                                         *)
(* No two sessions hold locks that exclude each other; so what a           *)
(* transaction has read of a place or a shelf whose lock it holds is still *)
(* so when it writes.  That is the inductive invariant.  On top of it      *)
(* stands a second one: which locks each may hold, and which sums it has   *)
(* decided on.  From the two it follows who can wait for whom, that no     *)
(* shelf is sold past zero but by the switch, and that units come back.    *)
(***************************************************************************)
EXTENDS Locations, TLAPS

(* What nobody else can have changed since the transaction locked it.      *)
HoldsPlace(t) ==
    /\ t.op \in {"close", "delete"} =>
          t.to \in Places /\ PlaceLock(t.to, "update") \in t.held
    /\ t.op = "delete" =>
          /\ t.to # default
          /\ t.next = "write" => shelf[t.to].on_hand = 0 /\ shelf[t.to].reserved = 0
    /\ t.op \in {"move", "adjust"} =>
          /\ t.to \in Places /\ PlaceLock(t.to, "share") \in t.held
          /\ t.units > 0 => place[t.to] = "open"
          /\ shelf[t.to].row \/ RowLock(t.to) \in t.held
    /\ t.op = "default" => t.to \in Places /\ place[t.to] # "new"

HoldsRows(t) ==
    /\ t.op = "move" =>
          /\ t.from \in Places /\ t.from # t.to /\ t.units > 0
          /\ t.next \in {"first", "second", "out", "write"}
          /\ t.next = "second" /\ t.to < t.from => RowLock(t.to) \in t.held
          /\ t.next \in {"out", "write"} => RowLock(t.to) \in t.held
          /\ t.next = "write" => RowLock(t.from) \in t.held /\ shelf[t.from].row
    /\ t.op = "import" =>
          /\ t.to \in Places /\ t.next \in {"ask", "take", "write"}
          /\ t.next = "write" =>
                /\ RowLock(t.to) \in t.held
                /\ t.units > shelf[t.to].on_hand => t.found \/ t.units = shelf[t.to].reserved
    /\ t.op \in OrderPath =>
          /\ t.to \in Places /\ t.order \in OrderIds /\ t.next \in {"ask", "take", "write"}
          /\ t.next = "write" =>
                /\ t.units \in {0, 1}
                /\ t.units = 1 => RowLock(t.to) \in t.held
                /\ t.op = "commit" => shelf[t.to].reserved >= t.units

(* The statements of a transaction by what it is.                          *)
Stages(t) ==
    /\ t.op = "none" => t = NoTx
    /\ t.op = "adjust" => t.next = "take"
    /\ t.op = "close" => t.next = "count"
    /\ t.op = "delete" => t.next \in {"count", "write"}
    /\ t.op = "default" => t.next \in {"stand down", "write"}
    /\ t.op = "stop selling" => t.next = "write"

Sound(t) == HoldsPlace(t) /\ HoldsRows(t) /\ Stages(t)

LocksExclude ==
    \A a, b \in Sessions : a # b =>
        \A k \in tx[a].held, h \in tx[b].held : ~Clash(k, h)

RowsStand == \A p \in Places : ~shelf[p].row => shelf[p] = NoShelf

LocationsInv ==
    /\ TypeOK
    /\ \A s \in Sessions : Sound(tx[s])
    /\ LocksExclude
    /\ RowsStand
    /\ LedgerReconciles

-----------------------------------------------------------------------------
(* The algebra of the locks.                                               *)

LEMMA ClashSymmetric ==
    \A k, l : Clash(k, l) <=> Clash(l, k)
  BY DEF Clash, Exclude

LEMMA RowsClash ==
    \A p : Clash(RowLock(p), RowLock(p))
  BY DEF Clash, Exclude, RowLock

LEMMA UpdateClashes ==
    \A p, m : /\ Clash(PlaceLock(p, "update"), PlaceLock(p, m))
              /\ Clash(PlaceLock(p, m), PlaceLock(p, "update"))
  BY DEF Clash, Exclude, PlaceLock

LEMMA LocksTyped ==
    ASSUME NEW p \in Places, NEW m \in Modes
    PROVE  RowLock(p) \in Locks /\ PlaceLock(p, m) \in Locks
  BY DEF RowLock, PlaceLock, Locks, Modes

(* What a session holds, and what its next statement will.                 *)
Reach(s) == tx[s].held \cup Wanted(s)

(* Whoever is free to go on has its locks to itself.                       *)
LEMMA Alone ==
    ASSUME LocksExclude, NEW s \in Sessions, Free(s),
           NEW b \in Sessions, b # s, NEW k \in Reach(s), NEW l, Clash(k, l)
    PROVE  l \notin tx[b].held
  BY DEF LocksExclude, Free, WaitsFor, Stands, Reach

LEMMA LocksKept ==
    ASSUME LocksExclude, tx \in [Sessions -> Transactions],
           NEW s \in Sessions, NEW n, tx' = [tx EXCEPT ![s] = n],
           \A b \in Sessions \ {s} : \A k \in n.held, h \in tx[b].held : ~Clash(k, h)
    PROVE  LocksExclude'
<1> SUFFICES ASSUME NEW a \in Sessions, NEW b \in Sessions, a # b,
                    NEW k \in tx'[a].held, NEW h \in tx'[b].held
             PROVE  ~Clash(k, h)
  BY DEF LocksExclude, Clash, Exclude
<1>1. CASE a = s
  BY <1>1
<1>2. CASE b = s
  BY <1>2, ClashSymmetric
<1>3. CASE a # s /\ b # s
  BY <1>3 DEF LocksExclude
<1> QED
  BY <1>1, <1>2, <1>3

-----------------------------------------------------------------------------
(* A transaction that others leave alone stays sound.                      *)

SameSums(p) ==
    shelf'[p].on_hand = shelf[p].on_hand /\ shelf'[p].reserved = shelf[p].reserved

LEMMA Undisturbed ==
    ASSUME TypeOK, TypeOK', NEW b \in Sessions, Sound(tx[b]), tx'[b] = tx[b],
           \A p \in Places : place[p] # "new" => place'[p] # "new",
           \A p \in Places :
              \/ SameSums(p)
              \/ RowLock(p) \notin tx[b].held /\ PlaceLock(p, "update") \notin tx[b].held,
           \A p \in Places :
              RowLock(p) \in tx[b].held \/ PlaceLock(p, "share") \in tx[b].held =>
                 (shelf[p].row => shelf'[p].row),
           \A p \in Places : PlaceLock(p, "share") \in tx[b].held =>
              (place[p] = "open" => place'[p] = "open"),
           \A p \in Places : PlaceLock(p, "update") \in tx[b].held =>
              default' = default \/ default' # p
    PROVE  Sound(tx[b])'
<1> DEFINE t == tx[b]
           p == t.to
<1>t. t \in Transactions /\ t' = t
  BY DEF TypeOK
<1>h. HoldsPlace(t) /\ HoldsRows(t) /\ Stages(t)
  BY DEF Sound
<1>1. Stages(t)'
  BY <1>h, <1>t DEF Stages
<1>2. HoldsPlace(t)'
  <2>1. CASE t.op \in {"close", "delete"}
    BY <2>1, <1>h, <1>t DEF HoldsPlace, SameSums
  <2>2. CASE t.op \in {"move", "adjust"}
    BY <2>2, <1>h, <1>t DEF HoldsPlace
  <2>3. CASE t.op = "default"
    BY <2>3, <1>h, <1>t DEF HoldsPlace
  <2> QED
    BY <2>1, <2>2, <2>3, <1>t DEF HoldsPlace
<1>3. HoldsRows(t)'
  <2>1. CASE t.op = "move"
    BY <2>1, <1>h, <1>t DEF HoldsRows, OrderPath
  <2>2. CASE t.op = "import"
    BY <2>2, <1>h, <1>t DEF HoldsRows, SameSums, OrderPath
  <2>3. CASE t.op \in OrderPath
    <3>1. t.to \in Places /\ t.order \in OrderIds /\ t.next \in {"ask", "take", "write"}
      BY <2>3, <1>h DEF HoldsRows
    <3>2. shelf'[p].reserved \in Nat
      BY <3>1 DEF TypeOK, Shelf
    <3>3. ASSUME t.next = "write"
          PROVE  /\ t.units \in {0, 1}
                 /\ t.units = 1 => RowLock(t.to) \in t.held
                 /\ t.op = "commit" => shelf'[t.to].reserved >= t.units
      BY <2>3, <3>1, <3>2, <3>3, <1>h DEF HoldsRows, SameSums
    <3> QED
      BY <2>3, <3>1, <3>3, <1>t DEF HoldsRows, OrderPath
  <2> QED
    BY <2>1, <2>2, <2>3, <1>t DEF HoldsRows
<1> QED
  BY <1>1, <1>2, <1>3 DEF Sound
-----------------------------------------------------------------------------
(* A transaction that starts, or has done a statement, and wrote nothing.  *)

LEMMA NewIsSound ==
    ASSUME NEW s \in Sessions, NEW n \in Transactions, Sound(n),
           tx \in [Sessions -> Transactions], tx' = [tx EXCEPT ![s] = n],
           UNCHANGED <<place, default, shelf>>
    PROVE  Sound(tx[s])'
<1>1. tx'[s] = n
  OBVIOUS
<1>2. HoldsPlace(tx[s])'
  BY <1>1 DEF Sound, HoldsPlace
<1>3. HoldsRows(tx[s])'
  BY <1>1 DEF Sound, HoldsRows
<1>4. Stages(tx[s])'
  BY <1>1 DEF Sound, Stages
<1> QED
  BY <1>2, <1>3, <1>4 DEF Sound

LEMMA NothingWritten ==
    ASSUME LocationsInv, NEW s \in Sessions, NEW n \in Transactions, Sound(n),
           tx' = [tx EXCEPT ![s] = n],
           \A b \in Sessions \ {s} : \A k \in n.held, h \in tx[b].held : ~Clash(k, h),
           UNCHANGED <<place, default, shelf, book, variant, order>>
    PROVE  LocationsInv'
<1>1. TypeOK'
  BY DEF LocationsInv, TypeOK
<1>2. ASSUME NEW b \in Sessions
      PROVE  Sound(tx[b])'
  <2>1. CASE b = s
    BY <2>1, NewIsSound DEF LocationsInv, TypeOK
  <2>2. CASE b # s
    <3>1. tx'[b] = tx[b] /\ Sound(tx[b]) /\ TypeOK
      BY <2>2 DEF LocationsInv, TypeOK
    <3>2. \A p \in Places : SameSums(p)
      BY DEF SameSums
    <3> QED
      BY <3>1, <3>2, <1>1, Undisturbed
  <2> QED
    BY <2>1, <2>2
<1>3. LocksExclude'
  BY LocksKept DEF LocationsInv, TypeOK
<1>4. RowsStand' /\ LedgerReconciles'
  BY DEF LocationsInv, RowsStand, LedgerReconciles
<1> QED
  BY <1>1, <1>2, <1>3, <1>4 DEF LocationsInv

LEMMA NoTxIsSound ==
    NoTx \in Transactions /\ Sound(NoTx) /\ NoTx.held = {} /\ NoTx.op = "none"
  BY DEF NoTx, Transactions, Sound, HoldsPlace, HoldsRows, Stages, OrderPath, Desk, Flags

LEMMA BeginStep ==
    ASSUME LocationsInv, NEW s \in Sessions, NEW n \in Transactions, Sound(n), Begin(s, n)
    PROVE  LocationsInv'
<1>1. \A b \in Sessions \ {s} : \A k \in n.held, h \in tx[b].held : ~Clash(k, h)
  BY DEF Begin, Stands
<1> QED
  BY <1>1, NothingWritten DEF Begin

LEMMA RollBackStep ==
    ASSUME LocationsInv, NEW s \in Sessions, RollBack(s)
    PROVE  LocationsInv'
  BY NoTxIsSound, NothingWritten DEF RollBack

LEMMA StatementStep ==
    ASSUME LocationsInv, NEW s \in Sessions, NEW t \in Transactions, t.held = tx[s].held,
           Wanted(s) \subseteq Locks, Sound([t EXCEPT !.held = @ \cup Wanted(s)]),
           Statement(s, t)
    PROVE  LocationsInv'
<1> DEFINE n == [t EXCEPT !.held = @ \cup Wanted(s)]
<1>1. n \in Transactions /\ n.held = Reach(s)
  BY DEF Transactions, Reach
<1>2. ASSUME NEW b \in Sessions \ {s}, NEW k \in n.held, NEW h \in tx[b].held
      PROVE  ~Clash(k, h)
  BY <1>1, Alone DEF LocationsInv, Statement
<1>3. Sound(n) /\ tx' = [tx EXCEPT ![s] = n]
  BY DEF Statement
<1>4. UNCHANGED <<place, default, shelf, book, variant, order>>
  BY DEF Statement
<1> HIDE DEF n
<1> QED
  BY <1>1, <1>2, <1>3, <1>4, NothingWritten

-----------------------------------------------------------------------------
(* What the statements want, by where the transaction is.                  *)

LEMMA WantedWhere ==
    ASSUME NEW s \in Sessions
    PROVE  /\ tx[s].next = "ask" /\ tx[s].op # "reserve" => Wanted(s) = Inserted(tx[s].to)
           /\ tx[s].next = "ask" /\ tx[s].op = "reserve" => Wanted(s) = {}
           /\ tx[s].next = "take" => Wanted(s) = Found(tx[s].to)
           /\ tx[s].next = "first" => Wanted(s) = Found(InOrder(tx[s])[1])
           /\ tx[s].next = "second" =>
                 Wanted(s) = IF tx[s].found \/ InOrder(tx[s])[2] # tx[s].from
                             THEN Found(InOrder(tx[s])[2]) ELSE {}
           /\ tx[s].next = "out" => Wanted(s) = Found(tx[s].from)
           /\ tx[s].next = "stand down" =>
                 Wanted(s) = IF default # NoPlace
                             THEN {PlaceLock(default, "no key update")} ELSE {}
           /\ tx[s].next = "count" => Wanted(s) = {}
  BY DEF Wanted

LEMMA WantedToWrite ==
    ASSUME NEW s \in Sessions, tx[s].next = "write"
    PROVE  /\ tx[s].op = "default" => Wanted(s) = {PlaceLock(tx[s].to, "no key update")}
           /\ tx[s].op = "delete" => Wanted(s) = Found(tx[s].to)
           /\ tx[s].op = "move" =>
                 Wanted(s) = {PlaceLock(tx[s].from, "key share"), PlaceLock(tx[s].to, "key share")}
           /\ tx[s].op = "import" => Wanted(s) = {PlaceLock(tx[s].to, "key share")}
           /\ tx[s].op \in OrderPath => Wanted(s) = Recorded(tx[s])
           /\ tx[s].op = "stop selling" => Wanted(s) = {}
  BY DEF Wanted, OrderPath

LEMMA LocksOfRows ==
    ASSUME NEW p \in Places
    PROVE  /\ Found(p) \subseteq Locks /\ Inserted(p) \subseteq Locks
           /\ Prepared(p) \subseteq Locks
           /\ shelf[p].row => Found(p) = {RowLock(p)}
           /\ PlaceLock(p, "share") \in Prepared(p)
           /\ shelf[p].row \/ RowLock(p) \in Prepared(p)
<1>1. /\ PlaceLock(p, "share") \in Locks /\ PlaceLock(p, "key share") \in Locks
      /\ RowLock(p) \in Locks
  BY LocksTyped DEF Modes
<1> QED
  BY <1>1 DEF Found, Inserted, Prepared
-----------------------------------------------------------------------------
(* Transactions begin.                                                     *)

LEMMA VerbStep ==
    ASSUME LocationsInv, NEW s \in Sessions, NEW o \in OrderIds, NEW op \in OrderPath,
           NEW p \in Places \cup {NoPlace}, Verb(s, o, op, p)
    PROVE  LocationsInv'
<1> DEFINE n == [NoTx EXCEPT !.op = op, !.next = "ask", !.order = o, !.to = p]
<1>1. p \in Places
  BY DEF Verb
<1>2. n \in Transactions /\ n.op = op /\ n.next = "ask" /\ n.order = o /\ n.to = p
  BY <1>1, NoTxIsSound DEF Transactions, NoTx
<1>3. Begin(s, n)
  BY DEF Verb
<1> HIDE DEF n
<1>4. Sound(n)
  BY <1>1, <1>2 DEF Sound, HoldsPlace, HoldsRows, Stages, OrderPath
<1> QED
  BY <1>2, <1>3, <1>4, BeginStep

LEMMA MoveStep ==
    ASSUME LocationsInv, NEW s \in Sessions, NEW p \in Places, NEW q \in Places,
           NEW u \in 1..MaxUnits, Move(s, p, q, u)
    PROVE  LocationsInv'
<1> DEFINE n == [NoTx EXCEPT !.op = "move", !.next = "first", !.from = p, !.to = q,
                             !.units = u, !.held = Prepared(q)]
<1>1. u \in Int /\ u > 0
  BY LocationsAssumption
<1>2. /\ n \in Transactions /\ n.op = "move" /\ n.next = "first" /\ n.from = p
      /\ n.to = q /\ n.units = u /\ n.held = Prepared(q)
  BY <1>1, NoTxIsSound, LocksOfRows DEF Transactions, NoTx, Desk
<1>3. Begin(s, n) /\ p # q /\ place[q] = "open"
  BY <1>1 DEF Move, prepare
<1> HIDE DEF n
<1>4. Sound(n)
  BY <1>1, <1>2, <1>3, LocksOfRows DEF Sound, HoldsPlace, HoldsRows, Stages, OrderPath
<1> QED
  BY <1>2, <1>3, <1>4, BeginStep

LEMMA AdjustStep ==
    ASSUME LocationsInv, NEW s \in Sessions, NEW p \in Places,
           NEW u \in (-MaxUnits..MaxUnits) \ {0}, Adjust(s, p, u)
    PROVE  LocationsInv'
<1> DEFINE n == [NoTx EXCEPT !.op = "adjust", !.next = "take", !.to = p,
                             !.units = u, !.held = Prepared(p)]
<1>1. u \in Int
  BY LocationsAssumption
<1>2. /\ n \in Transactions /\ n.op = "adjust" /\ n.next = "take"
      /\ n.to = p /\ n.units = u /\ n.held = Prepared(p)
  BY <1>1, NoTxIsSound, LocksOfRows DEF Transactions, NoTx, Desk
<1>3. Begin(s, n) /\ (u > 0 => place[p] = "open")
  BY <1>1 DEF Adjust, prepare
<1> HIDE DEF n
<1>4. Sound(n)
  BY <1>1, <1>2, <1>3, LocksOfRows DEF Sound, HoldsPlace, HoldsRows, Stages, OrderPath
<1> QED
  BY <1>2, <1>3, <1>4, BeginStep

LEMMA ImportStep ==
    ASSUME LocationsInv, NEW s \in Sessions, NEW p \in Places,
           NEW u \in 0..MaxUnits, Import(s, p, u)
    PROVE  LocationsInv'
<1> DEFINE n == [NoTx EXCEPT !.op = "import", !.next = "ask", !.to = p,
                             !.units = u, !.found = place[p] = "open"]
<1>1. u \in Int
  BY LocationsAssumption
<1>2. (place[p] = "open") \in BOOLEAN
  OBVIOUS
<1>3. n \in Transactions /\ n.op = "import" /\ n.next = "ask" /\ n.to = p
  BY <1>1, <1>2, NoTxIsSound DEF Transactions, NoTx, Desk
<1>4. Begin(s, n)
  BY DEF Import
<1> HIDE DEF n
<1>5. Sound(n)
  BY <1>3 DEF Sound, HoldsPlace, HoldsRows, Stages, OrderPath
<1> QED
  BY <1>3, <1>4, <1>5, BeginStep

LEMMA CountStep ==
    ASSUME LocationsInv, NEW s \in Sessions, NEW p \in Places, NEW op \in {"close", "delete"},
           op = "delete" => p # default, Count(s, op, p)
    PROVE  LocationsInv'
<1> DEFINE n == [NoTx EXCEPT !.op = op, !.next = "count", !.to = p,
                             !.held = {PlaceLock(p, "update")}]
<1>1. PlaceLock(p, "update") \in Locks
  BY LocksTyped DEF Modes
<1>2. /\ n \in Transactions /\ n.op = op /\ n.next = "count" /\ n.to = p
      /\ n.held = {PlaceLock(p, "update")}
  BY <1>1, NoTxIsSound DEF Transactions, NoTx, Desk
<1>3. Begin(s, n)
  BY DEF Count
<1> HIDE DEF n
<1>4. Sound(n)
  BY <1>2 DEF Sound, HoldsPlace, HoldsRows, Stages, OrderPath
<1> QED
  BY <1>2, <1>3, <1>4, BeginStep

LEMMA SetDefaultStep ==
    ASSUME LocationsInv, NEW s \in Sessions, NEW p \in Places, SetDefault(s, p)
    PROVE  LocationsInv'
<1> DEFINE n == [NoTx EXCEPT !.op = "default", !.next = "stand down", !.to = p]
<1>1. n \in Transactions /\ n.op = "default" /\ n.next = "stand down" /\ n.to = p
  BY NoTxIsSound DEF Transactions, NoTx, Desk
<1>2. Begin(s, n) /\ place[p] = "open"
  BY DEF SetDefault
<1> HIDE DEF n
<1>3. Sound(n)
  BY <1>1, <1>2 DEF Sound, HoldsPlace, HoldsRows, Stages, OrderPath
<1> QED
  BY <1>1, <1>2, <1>3, BeginStep

LEMMA StopSellingStep ==
    ASSUME LocationsInv, NEW s \in Sessions, StopSelling(s)
    PROVE  LocationsInv'
<1> DEFINE n == [NoTx EXCEPT !.op = "stop selling", !.next = "write"]
<1>1. n \in Transactions /\ n.op = "stop selling" /\ n.next = "write"
  BY NoTxIsSound DEF Transactions, NoTx, Desk
<1>2. Begin(s, n)
  BY DEF StopSelling
<1> HIDE DEF n
<1>3. Sound(n)
  BY <1>1 DEF Sound, HoldsPlace, HoldsRows, Stages, OrderPath
<1> QED
  BY <1>1, <1>2, <1>3, BeginStep

-----------------------------------------------------------------------------
(* Transactions go on.                                                     *)

LEMMA PlacesOrdered ==
    ASSUME NEW p \in Places, NEW q \in Places
    PROVE  ~(p < q /\ q < p) /\ (p # q => p < q \/ q < p)
<1>1. p \in Nat /\ q \in Nat
  BY LocationsAssumption
<1> QED
  BY <1>1

(* Which transaction it is follows from where it stands.                   *)
LEMMA Whose ==
    ASSUME LocationsInv, NEW s \in Sessions
    PROVE  /\ tx[s] \in Transactions /\ Sound(tx[s])
           /\ tx[s].next = "ask" => tx[s].op \in OrderPath \cup {"import"} /\ tx[s].to \in Places
           /\ tx[s].next \in {"first", "second", "out"} =>
                 tx[s].op = "move" /\ tx[s].from \in Places /\ tx[s].to \in Places
           /\ tx[s].next = "stand down" => tx[s].op = "default" /\ tx[s].to \in Places
<1>1. tx[s] \in Transactions /\ Sound(tx[s])
  BY DEF LocationsInv, TypeOK
<1>2. tx[s].op \in OrderPath \cup Desk \cup {"none"}
  BY <1>1 DEF Transactions
<1>3. tx[s].op = "none" => tx[s].next = "none"
  BY <1>1 DEF Sound, Stages, NoTx
<1> QED
  BY <1>1, <1>2, <1>3 DEF Sound, HoldsPlace, HoldsRows, Stages, Desk, OrderPath

LEMMA AskStep ==
    ASSUME LocationsInv, NEW s \in Sessions, Ask(s)
    PROVE  LocationsInv'
<1> DEFINE t == [tx[s] EXCEPT !.next = "take", !.sees = Snapshot(tx[s].op)]
           n == [t EXCEPT !.held = @ \cup Wanted(s)]
<1>1. /\ tx[s].next = "ask" /\ Statement(s, t) /\ tx[s] \in Transactions /\ Sound(tx[s])
      /\ tx[s].op \in OrderPath \cup {"import"} /\ tx[s].to \in Places
  BY Whose DEF Ask
<1>2. variant.track \in BOOLEAN /\ variant.continue \in BOOLEAN
  BY DEF LocationsInv, TypeOK, Flags
<1>3. Snapshot(tx[s].op) \in Flags
  BY <1>2 DEF Snapshot, Flags
<1>4. t \in Transactions /\ t.held = tx[s].held
  BY <1>1, <1>3 DEF Transactions
<1>5. Wanted(s) \subseteq Locks
  BY <1>1, WantedWhere, LocksOfRows
<1>6. n.op = tx[s].op /\ n.next = "take" /\ n.to = tx[s].to /\ n.order = tx[s].order
  BY <1>1 DEF Transactions
<1>7. tx[s].op \in OrderPath => tx[s].order \in OrderIds
  BY <1>1 DEF Sound, HoldsRows
<1> HIDE DEF n
<1>8. Sound(n)
  BY <1>1, <1>6, <1>7 DEF Sound, HoldsPlace, HoldsRows, Stages, OrderPath
<1> USE DEF n
<1> HIDE DEF t
<1> QED
  BY <1>1, <1>4, <1>5, <1>8, StatementStep
(* A row that only its transaction knows is empty, as no row is.           *)
LEMMA MineIs ==
    ASSUME LocationsInv, NEW t, NEW p \in Places
    PROVE  /\ Mine(t, p) \in Shelf
           /\ Mine(t, p).on_hand = shelf[p].on_hand /\ Mine(t, p).reserved = shelf[p].reserved
           /\ Mine(t, p).row <=> shelf[p].row \/ RowLock(p) \in t.held
<1>1. shelf[p] \in Shelf /\ (~shelf[p].row => shelf[p] = NoShelf)
  BY DEF LocationsInv, TypeOK, RowsStand
<1>2. /\ EmptyShelf \in Shelf /\ EmptyShelf.row = TRUE
      /\ EmptyShelf.on_hand = 0 /\ EmptyShelf.reserved = 0
      /\ NoShelf.row = FALSE /\ NoShelf.on_hand = 0 /\ NoShelf.reserved = 0
  BY DEF EmptyShelf, NoShelf, Shelf
<1> QED
  BY <1>1, <1>2 DEF Mine

LEMMA TakeStep ==
    ASSUME LocationsInv, NEW s \in Sessions, Take(s)
    PROVE  LocationsInv'
<1> DEFINE r == Mine(tx[s], tx[s].to)
           u == IF Counted(tx[s]) /\ r.row THEN 1 ELSE 0
           t == [tx[s] EXCEPT !.next = "write", !.units = u]
           n == [t EXCEPT !.held = @ \cup Wanted(s)]
<1>1. /\ tx[s].next = "take" /\ tx[s].op \in OrderPath /\ Permits(tx[s], r, u)
      /\ Statement(s, t)
  BY DEF Take
<1>2. /\ tx[s] \in Transactions /\ Sound(tx[s]) /\ tx[s].to \in Places
      /\ tx[s].order \in OrderIds
  BY <1>1, Whose DEF Sound, HoldsRows
<1>3. /\ r.reserved = shelf[tx[s].to].reserved
      /\ r.row <=> shelf[tx[s].to].row \/ RowLock(tx[s].to) \in tx[s].held
  BY <1>2, MineIs
<1>4. u \in {0, 1} /\ (u = 1 => r.row) /\ (tx[s].op = "commit" => r.reserved >= u)
  BY <1>1 DEF Permits
<1>5. Wanted(s) = Found(tx[s].to) /\ Wanted(s) \subseteq Locks
  BY <1>1, <1>2, WantedWhere, LocksOfRows
<1>6. u = 1 => RowLock(tx[s].to) \in tx[s].held \cup Wanted(s)
  BY <1>2, <1>3, <1>4, <1>5, LocksOfRows
<1> HIDE DEF r, u
<1>u. u \in Int
  BY <1>4
<1>7. t \in Transactions /\ t.held = tx[s].held
  BY <1>2, <1>u DEF Transactions
<1>8. /\ n.op = tx[s].op /\ n.next = "write" /\ n.to = tx[s].to /\ n.order = tx[s].order
      /\ n.units = u /\ n.held = tx[s].held \cup Wanted(s)
  BY <1>2 DEF Transactions
<1> HIDE DEF n
<1>9. Sound(n)
  <2>1. HoldsRows(n)
    BY <1>1, <1>2, <1>3, <1>4, <1>6, <1>8 DEF HoldsRows, OrderPath
  <2>2. HoldsPlace(n) /\ Stages(n)
    BY <1>1, <1>8 DEF HoldsPlace, Stages, OrderPath
  <2> QED
    BY <2>1, <2>2 DEF Sound
<1> USE DEF n
<1> HIDE DEF t
<1> QED
  BY <1>1, <1>5, <1>7, <1>9, StatementStep

LEMMA TakeImportStep ==
    ASSUME LocationsInv, NEW s \in Sessions, TakeImport(s)
    PROVE  LocationsInv'
<1> DEFINE r == Mine(tx[s], tx[s].to)
           u == IF variant.continue \/ tx[s].units >= r.reserved
                THEN tx[s].units ELSE r.reserved
           t == [tx[s] EXCEPT !.next = "write", !.sees.continue = variant.continue, !.units = u]
           n == [t EXCEPT !.held = @ \cup Wanted(s)]
<1>1. /\ tx[s].next = "take" /\ tx[s].op = "import" /\ r.row
      /\ tx[s].units > r.on_hand => tx[s].found
  BY DEF TakeImport
<1>2. tx[s] \in Transactions /\ Sound(tx[s]) /\ tx[s].to \in Places
  BY <1>1, Whose DEF Sound, HoldsRows
<1>3. Statement(s, t)
  BY <1>2 DEF TakeImport, Transactions
<1>4. /\ r \in Shelf
      /\ r.on_hand = shelf[tx[s].to].on_hand /\ r.reserved = shelf[tx[s].to].reserved
      /\ r.row <=> shelf[tx[s].to].row \/ RowLock(tx[s].to) \in tx[s].held
  BY <1>2, MineIs
<1>5. tx[s].units \in Int /\ r.reserved \in Int /\ tx[s].sees \in Flags
  <2>1. r.reserved \in Nat
    BY <1>4 DEF Shelf
  <2>2. tx[s].units \in Int /\ tx[s].sees \in Flags
    BY <1>2 DEF Transactions
  <2> HIDE DEF r
  <2> QED
    BY <2>1, <2>2
<1>6. u \in Int /\ (u = tx[s].units \/ u = r.reserved)
  BY <1>5
<1>7. Wanted(s) = Found(tx[s].to) /\ Wanted(s) \subseteq Locks
  BY <1>1, <1>2, WantedWhere, LocksOfRows
<1>8. RowLock(tx[s].to) \in tx[s].held \cup Wanted(s)
  BY <1>1, <1>2, <1>4, <1>7, LocksOfRows
<1>9. variant.continue \in BOOLEAN
  BY DEF LocationsInv, TypeOK, Flags
<1>10. [tx[s].sees EXCEPT !.continue = variant.continue] \in Flags
  BY <1>5, <1>9 DEF Flags
<1> HIDE DEF r, u
<1>11. t \in Transactions /\ t.held = tx[s].held
  BY <1>2, <1>6, <1>10 DEF Transactions
<1>12. /\ n.op = "import" /\ n.next = "write" /\ n.to = tx[s].to /\ n.found = tx[s].found
       /\ n.units = u /\ n.held = tx[s].held \cup Wanted(s)
  BY <1>1, <1>2 DEF Transactions
<1> HIDE DEF n
<1>13. Sound(n)
  <2>1. u > shelf[tx[s].to].on_hand => tx[s].found \/ u = shelf[tx[s].to].reserved
    BY <1>1, <1>4, <1>6
  <2>2. HoldsRows(n)
    BY <2>1, <1>2, <1>8, <1>12 DEF HoldsRows, OrderPath
  <2>3. HoldsPlace(n) /\ Stages(n)
    BY <1>12 DEF HoldsPlace, Stages, OrderPath
  <2> QED
    BY <2>2, <2>3 DEF Sound
<1> USE DEF n
<1> HIDE DEF t
<1> QED
  BY <1>3, <1>7, <1>11, <1>13, StatementStep

LEMMA LockFirstStep ==
    ASSUME LocationsInv, NEW s \in Sessions, LockFirst(s)
    PROVE  LocationsInv'
<1> DEFINE t == [tx[s] EXCEPT !.next = "second", !.found = shelf[tx[s].from].row]
           n == [t EXCEPT !.held = @ \cup Wanted(s)]
<1>1. tx[s].next = "first" /\ Statement(s, t)
  BY DEF LockFirst
<1>2. /\ tx[s] \in Transactions /\ Sound(tx[s]) /\ tx[s].op = "move"
      /\ tx[s].from \in Places /\ tx[s].to \in Places
  BY <1>1, Whose
<1>3. shelf[tx[s].from].row \in BOOLEAN
  BY <1>2 DEF LocationsInv, TypeOK, Shelf
<1>4. t \in Transactions /\ t.held = tx[s].held
  BY <1>2, <1>3 DEF Transactions
<1>5. InOrder(tx[s])[1] = IF tx[s].from < tx[s].to THEN tx[s].from ELSE tx[s].to
  BY DEF InOrder
<1>6. Wanted(s) \subseteq Locks
  BY <1>1, <1>2, <1>5, WantedWhere, LocksOfRows
<1>7. tx[s].to < tx[s].from => RowLock(tx[s].to) \in tx[s].held \cup Wanted(s)
  <2>1. ~(tx[s].to < tx[s].from /\ tx[s].from < tx[s].to)
    BY <1>2, PlacesOrdered
  <2>2. tx[s].to < tx[s].from => Wanted(s) = Found(tx[s].to)
    BY <2>1, <1>1, <1>5, WantedWhere
  <2>3. shelf[tx[s].to].row \/ RowLock(tx[s].to) \in tx[s].held
    BY <1>2 DEF Sound, HoldsPlace
  <2> QED
    BY <2>2, <2>3, <1>2, LocksOfRows
<1>8. /\ n.op = "move" /\ n.next = "second" /\ n.to = tx[s].to /\ n.from = tx[s].from
      /\ n.units = tx[s].units /\ n.held = tx[s].held \cup Wanted(s)
  BY <1>2 DEF Transactions
<1> HIDE DEF n
<1>9. Sound(n)
  <2>1. HoldsRows(n)
    BY <1>2, <1>7, <1>8 DEF Sound, HoldsRows, OrderPath
  <2>2. HoldsPlace(n) /\ Stages(n)
    BY <1>2, <1>8 DEF Sound, HoldsPlace, Stages, OrderPath
  <2> QED
    BY <2>1, <2>2 DEF Sound
<1> USE DEF n
<1> HIDE DEF t
<1> QED
  BY <1>1, <1>4, <1>6, <1>9, StatementStep

LEMMA LockSecondStep ==
    ASSUME LocationsInv, NEW s \in Sessions, LockSecond(s)
    PROVE  LocationsInv'
<1> DEFINE t == [tx[s] EXCEPT !.next = "out"]
           n == [t EXCEPT !.held = @ \cup Wanted(s)]
<1>1. tx[s].next = "second" /\ Statement(s, t)
  BY DEF LockSecond
<1>2. /\ tx[s] \in Transactions /\ Sound(tx[s]) /\ tx[s].op = "move"
      /\ tx[s].from \in Places /\ tx[s].to \in Places /\ tx[s].from # tx[s].to
  BY <1>1, Whose DEF Sound, HoldsRows
<1>3. t \in Transactions /\ t.held = tx[s].held
  BY <1>2 DEF Transactions
<1>4. InOrder(tx[s])[2] = IF tx[s].from < tx[s].to THEN tx[s].to ELSE tx[s].from
  BY DEF InOrder
<1>5. Wanted(s) \subseteq Locks
  BY <1>1, <1>2, <1>4, WantedWhere, LocksOfRows
<1>6. RowLock(tx[s].to) \in tx[s].held \cup Wanted(s)
  <2>1. tx[s].to < tx[s].from \/ tx[s].from < tx[s].to
    BY <1>2, PlacesOrdered
  <2>2. tx[s].from < tx[s].to => Wanted(s) = Found(tx[s].to)
    BY <1>1, <1>2, <1>4, WantedWhere
  <2>3. tx[s].to < tx[s].from => RowLock(tx[s].to) \in tx[s].held
    BY <1>1, <1>2 DEF Sound, HoldsRows
  <2>4. shelf[tx[s].to].row \/ RowLock(tx[s].to) \in tx[s].held
    BY <1>2 DEF Sound, HoldsPlace
  <2> QED
    BY <2>1, <2>2, <2>3, <2>4, <1>2, LocksOfRows
<1>7. /\ n.op = "move" /\ n.next = "out" /\ n.to = tx[s].to /\ n.from = tx[s].from
      /\ n.units = tx[s].units /\ n.held = tx[s].held \cup Wanted(s)
  BY <1>2 DEF Transactions
<1> HIDE DEF n
<1>8. Sound(n)
  <2>1. HoldsRows(n)
    BY <1>2, <1>6, <1>7 DEF Sound, HoldsRows, OrderPath
  <2>2. HoldsPlace(n) /\ Stages(n)
    BY <1>2, <1>7 DEF Sound, HoldsPlace, Stages, OrderPath
  <2> QED
    BY <2>1, <2>2 DEF Sound
<1> USE DEF n
<1> HIDE DEF t
<1> QED
  BY <1>1, <1>3, <1>5, <1>8, StatementStep

LEMMA TakeOutStep ==
    ASSUME LocationsInv, NEW s \in Sessions, TakeOut(s)
    PROVE  LocationsInv'
<1> DEFINE t == [tx[s] EXCEPT !.next = "write"]
           n == [t EXCEPT !.held = @ \cup Wanted(s)]
<1>1. tx[s].next = "out" /\ Statement(s, t) /\ shelf[tx[s].from].row
  BY DEF TakeOut
<1>2. /\ tx[s] \in Transactions /\ Sound(tx[s]) /\ tx[s].op = "move"
      /\ tx[s].from \in Places /\ tx[s].to \in Places
  BY <1>1, Whose
<1>3. t \in Transactions /\ t.held = tx[s].held
  BY <1>2 DEF Transactions
<1>4. Wanted(s) \subseteq Locks /\ Wanted(s) = {RowLock(tx[s].from)}
  BY <1>1, <1>2, WantedWhere, LocksOfRows
<1>5. /\ n.op = "move" /\ n.next = "write" /\ n.to = tx[s].to /\ n.from = tx[s].from
      /\ n.units = tx[s].units /\ n.held = tx[s].held \cup Wanted(s)
  BY <1>2 DEF Transactions
<1> HIDE DEF n
<1>6. Sound(n)
  <2>1. HoldsRows(n)
    BY <1>1, <1>2, <1>4, <1>5 DEF Sound, HoldsRows, OrderPath
  <2>2. HoldsPlace(n) /\ Stages(n)
    BY <1>2, <1>5 DEF Sound, HoldsPlace, Stages, OrderPath
  <2> QED
    BY <2>1, <2>2 DEF Sound
<1> USE DEF n
<1> HIDE DEF t
<1> QED
  BY <1>1, <1>3, <1>4, <1>6, StatementStep

LEMMA CountingStep ==
    ASSUME LocationsInv, NEW s \in Sessions, Counting(s)
    PROVE  LocationsInv'
<1> DEFINE t == [tx[s] EXCEPT !.next = "write"]
           n == [t EXCEPT !.held = @ \cup Wanted(s)]
<1>1. /\ tx[s].op = "delete" /\ tx[s].next = "count" /\ Statement(s, t)
      /\ shelf[tx[s].to].on_hand = 0 /\ shelf[tx[s].to].reserved = 0
  BY DEF Counting, refuseIfHolding
<1>2. tx[s] \in Transactions /\ Sound(tx[s]) /\ tx[s].to \in Places
  BY <1>1, Whose DEF Sound, HoldsPlace
<1>3. t \in Transactions /\ t.held = tx[s].held
  BY <1>2 DEF Transactions
<1>4. Wanted(s) = {}
  BY <1>1, WantedWhere
<1>5. n.op = "delete" /\ n.next = "write" /\ n.to = tx[s].to /\ n.held = tx[s].held
  BY <1>1, <1>2, <1>4 DEF Transactions
<1> HIDE DEF n
<1>6. Sound(n)
  BY <1>1, <1>2, <1>5 DEF Sound, HoldsPlace, HoldsRows, Stages, OrderPath
<1> USE DEF n
<1> HIDE DEF t
<1> QED
  BY <1>1, <1>3, <1>4, <1>6, StatementStep

LEMMA StandDownStep ==
    ASSUME LocationsInv, NEW s \in Sessions, StandDown(s)
    PROVE  LocationsInv'
<1> DEFINE t == [tx[s] EXCEPT !.next = "write", !.from = default]
           n == [t EXCEPT !.held = @ \cup Wanted(s)]
<1>1. tx[s].next = "stand down" /\ Statement(s, t)
  BY DEF StandDown
<1>2. /\ tx[s] \in Transactions /\ Sound(tx[s]) /\ tx[s].op = "default"
      /\ default \in Places \cup {NoPlace}
  BY <1>1, Whose DEF LocationsInv, TypeOK
<1>3. t \in Transactions /\ t.held = tx[s].held
  BY <1>2 DEF Transactions
<1>4. Wanted(s) \subseteq Locks
  BY <1>1, <1>2, WantedWhere, LocksTyped DEF Modes
<1>5. n.op = "default" /\ n.next = "write" /\ n.to = tx[s].to
  BY <1>2 DEF Transactions
<1> HIDE DEF n
<1>6. Sound(n)
  BY <1>2, <1>5 DEF Sound, HoldsPlace, HoldsRows, Stages, OrderPath
<1> USE DEF n
<1> HIDE DEF t
<1> QED
  BY <1>1, <1>3, <1>4, <1>6, StatementStep
-----------------------------------------------------------------------------
(* Transactions write and commit.                                          *)

LEMMA CommitStep ==
    ASSUME LocationsInv, NEW s \in Sessions, Commit(s), TypeOK', RowsStand', LedgerReconciles',
           \A b \in Sessions \ {s} : Sound(tx[b])'
    PROVE  LocationsInv'
<1>1. tx' = [tx EXCEPT ![s] = NoTx] /\ tx \in [Sessions -> Transactions] /\ LocksExclude
  BY DEF Commit, LocationsInv, TypeOK
<1>2. Sound(tx[s])'
  <2>1. tx'[s] = NoTx /\ tx'[s].op = "none"
    BY <1>1, NoTxIsSound
  <2> QED
    BY <2>1 DEF Sound, HoldsPlace, HoldsRows, Stages, OrderPath
<1>3. LocksExclude'
  BY <1>1, NoTxIsSound, LocksKept
<1> QED
  BY <1>2, <1>3 DEF LocationsInv

(* Whoever changes the sums of a row has its lock and a lock of its place; *)
(* the ledger and the rows are looked after by each of them.               *)
LEMMA ShelfStep ==
    ASSUME LocationsInv, NEW s \in Sessions, Commit(s), TypeOK', UNCHANGED <<place, default>>,
           \A p \in Places :
              \/ SameSums(p)
              \/ RowLock(p) \in Reach(s) /\ \E m \in Modes : PlaceLock(p, m) \in Reach(s),
           \A p \in Places : shelf[p].row => shelf'[p].row,
           RowsStand', LedgerReconciles'
    PROVE  LocationsInv'
<1>1. /\ Free(s) /\ tx' = [tx EXCEPT ![s] = NoTx] /\ tx \in [Sessions -> Transactions]
      /\ LocksExclude
  BY DEF Commit, LocationsInv, TypeOK
<1>2. ASSUME NEW b \in Sessions \ {s}
      PROVE  Sound(tx[b])'
  <2>1. tx'[b] = tx[b] /\ Sound(tx[b]) /\ TypeOK
    BY <1>1 DEF LocationsInv
  <2>2. ASSUME NEW p \in Places, ~SameSums(p)
        PROVE  RowLock(p) \notin tx[b].held /\ PlaceLock(p, "update") \notin tx[b].held
    <3>1. PICK m \in Modes : RowLock(p) \in Reach(s) /\ PlaceLock(p, m) \in Reach(s)
      BY <2>2
    <3>2. RowLock(p) \notin tx[b].held
      BY <3>1, <1>1, RowsClash, Alone
    <3>3. PlaceLock(p, "update") \notin tx[b].held
      BY <3>1, <1>1, UpdateClashes, Alone
    <3> QED
      BY <3>2, <3>3
  <2> QED
    BY <2>1, <2>2, Undisturbed
<1> QED
  BY <1>2, CommitStep

(* A statement books the difference that it makes.                         *)
LEMMA BookIs ==
    ASSUME LocationsInv, NEW t, NEW p \in Places, NEW r \in Shelf
    PROVE  Book(t, p, r) = [on_hand |-> r.on_hand, reserved |-> r.reserved]
<1>1. book[p] = [on_hand |-> shelf[p].on_hand, reserved |-> shelf[p].reserved]
  BY DEF LocationsInv, LedgerReconciles
<1>2. shelf[p].on_hand \in Int /\ shelf[p].reserved \in Int
  BY DEF LocationsInv, TypeOK, Shelf
<1>3. r.on_hand \in Int /\ r.reserved \in Int
  BY DEF Shelf
<1>4. /\ book[p].on_hand + r.on_hand - Mine(t, p).on_hand = r.on_hand
      /\ book[p].reserved + r.reserved - Mine(t, p).reserved = r.reserved
  BY <1>1, <1>2, <1>3, MineIs
<1> QED
  BY <1>4 DEF Book

LEMMA BookedRow ==
    ASSUME LocationsInv, NEW t, NEW p \in Places, NEW r \in Shelf, r.row \/ r = NoShelf,
           shelf' = [shelf EXCEPT ![p] = r],
           book' = [book EXCEPT ![p] = Book(t, p, r)]
    PROVE  /\ RowsStand' /\ LedgerReconciles'
           /\ shelf' \in [Places -> Shelf] /\ book' \in [Places -> Sums]
<1>1. Book(t, p, r) = [on_hand |-> r.on_hand, reserved |-> r.reserved]
  BY BookIs
<1>2. r.on_hand \in Int /\ r.reserved \in Int
  BY DEF Shelf
<1>3. /\ shelf \in [Places -> Shelf] /\ book \in [Places -> Sums]
      /\ RowsStand /\ LedgerReconciles
  BY DEF LocationsInv, TypeOK
<1>4. shelf' \in [Places -> Shelf]
  BY <1>3
<1>5. book' \in [Places -> Sums]
  BY <1>1, <1>2, <1>3 DEF Sums
<1>6. LedgerReconciles'
  BY <1>1, <1>3 DEF LedgerReconciles
<1>7. RowsStand'
  BY <1>3 DEF RowsStand
<1> QED
  BY <1>4, <1>5, <1>6, <1>7

LEMMA AfterIs ==
    ASSUME NEW op \in OrderPath, NEW r \in Shelf, NEW u \in {0, 1},
           op = "commit" => r.reserved >= u
    PROVE  /\ After(op, r, u) \in Shelf
           /\ After(op, r, u).row = r.row
           /\ u = 0 => After(op, r, u) = r
<1>1. r.on_hand \in Int /\ r.reserved \in Nat /\ r.row \in BOOLEAN
  BY DEF Shelf
<1>2. CASE op = "reserve"
  BY <1>1, <1>2 DEF After, Shelf
<1>3. CASE op = "commit"
  <2>1. r.on_hand - u \in Int /\ r.reserved - u \in Nat
    BY <1>1, <1>3
  <2>2. After(op, r, u) = [r EXCEPT !.on_hand = @ - u, !.reserved = @ - u]
    BY <1>3 DEF After
  <2>3. After(op, r, u) \in Shelf /\ After(op, r, u).row = r.row
    BY <2>1, <2>2 DEF Shelf
  <2>4. u = 0 => r.on_hand - u = r.on_hand /\ r.reserved - u = r.reserved
    BY <1>1
  <2>5. u = 0 => After(op, r, u) = r
    BY <2>2, <2>4 DEF Shelf
  <2> QED
    BY <2>3, <2>5
<1>4. CASE op = "release"
  BY <1>1, <1>4 DEF After, Shelf
<1>5. CASE op = "restock"
  BY <1>1, <1>5 DEF After, Shelf
<1> QED
  BY <1>2, <1>3, <1>4, <1>5 DEF OrderPath

LEMMA WriteStep ==
    ASSUME LocationsInv, NEW s \in Sessions, Write(s)
    PROVE  LocationsInv'
<1> DEFINE t == tx[s]
           p == tx[s].to
           m == Mine(tx[s], tx[s].to)
           r == After(tx[s].op, m, tx[s].units)
<1>1. /\ t.next = "write" /\ t.op \in OrderPath /\ Commit(s)
      /\ shelf' = [shelf EXCEPT ![p] = r] /\ book' = [book EXCEPT ![p] = Book(t, p, r)]
      /\ UNCHANGED <<place, default, variant>>
  BY DEF Write
<1>2. /\ t \in Transactions /\ p \in Places /\ t.order \in OrderIds /\ t.units \in {0, 1}
      /\ t.units = 1 => RowLock(p) \in t.held
      /\ t.op = "commit" => shelf[p].reserved >= t.units
  BY <1>1, Whose DEF Sound, HoldsRows
<1>3. /\ m \in Shelf /\ m.on_hand = shelf[p].on_hand /\ m.reserved = shelf[p].reserved
      /\ m.row <=> shelf[p].row \/ RowLock(p) \in t.held
  BY <1>2, MineIs
<1>4. r \in Shelf /\ r.row = m.row /\ (t.units = 0 => r = m)
  <2> HIDE DEF m
  <2> QED
    BY <1>1, <1>2, <1>3, AfterIs
<1>5. r.row \/ r = NoShelf
  <2>1. CASE m.row
    BY <2>1, <1>4
  <2>2. CASE ~m.row
    <3>1. ~shelf[p].row /\ RowLock(p) \notin t.held /\ t.units = 0
      BY <2>2, <1>2, <1>3
    <3>2. shelf[p] = NoShelf /\ m = shelf[p]
      BY <3>1, <1>2 DEF LocationsInv, RowsStand, Mine
    <3> QED
      BY <3>1, <3>2, <1>4
  <2> QED
    BY <2>1, <2>2
<1>6. r = m \/ (RowLock(p) \in Reach(s) /\ PlaceLock(p, "key share") \in Reach(s))
  <2>1. CASE r = m
    BY <2>1
  <2>2. CASE r # m
    <3>1. t.units = 1
      BY <2>2, <1>2, <1>4
    <3>2. Wanted(s) = Recorded(t)
      BY <1>1, WantedToWrite
    <3>3. Recorded(t) = {PlaceLock(p, "key share")}
      BY <2>2 DEF Recorded
    <3> QED
      BY <3>1, <3>2, <3>3, <1>2 DEF Reach
  <2> QED
    BY <2>1, <2>2
<1> DEFINE status == CASE t.op = "reserve" -> "pending" [] t.op = "commit" -> "committed"
                       [] OTHER -> "over"
<1>7. order' = [order EXCEPT ![t.order].status = status,
                             ![t.order].at = IF t.op = "reserve" THEN t.to ELSE @]
  BY DEF Write
<1>8. status \in {"none", "pending", "committed", "over"}
  OBVIOUS
<1> HIDE DEF r, m, status
<1>9. order' \in [OrderIds -> [status : {"none", "pending", "committed", "over"},
                               at : Places \cup {NoPlace}]]
  BY <1>2, <1>7, <1>8 DEF LocationsInv, TypeOK
<1>10. /\ RowsStand' /\ LedgerReconciles'
       /\ shelf' \in [Places -> Shelf] /\ book' \in [Places -> Sums]
  BY <1>1, <1>2, <1>4, <1>5, BookedRow
<1>11. TypeOK'
  BY <1>1, <1>9, <1>10, NoTxIsSound DEF LocationsInv, TypeOK, Commit
<1>12. ASSUME NEW q \in Places
       PROVE  \/ SameSums(q)
              \/ RowLock(q) \in Reach(s) /\ \E a \in Modes : PlaceLock(q, a) \in Reach(s)
  <2>1. CASE q # p
    BY <2>1, <1>1 DEF SameSums, LocationsInv, TypeOK
  <2>2. CASE q = p /\ r = m
    BY <2>2, <1>1, <1>3 DEF SameSums, LocationsInv, TypeOK
  <2>3. CASE q = p /\ r # m
    BY <2>3, <1>6 DEF Modes
  <2> QED
    BY <2>1, <2>2, <2>3
<1>13. \A q \in Places : shelf[q].row => shelf'[q].row
  BY <1>1, <1>2, <1>3, <1>4 DEF LocationsInv, TypeOK
<1> QED
  BY <1>1, <1>10, <1>11, <1>12, <1>13, ShelfStep
LEMMA WriteAdjustStep ==
    ASSUME LocationsInv, NEW s \in Sessions, WriteAdjust(s)
    PROVE  LocationsInv'
<1> DEFINE t == tx[s]
           p == tx[s].to
           m == Mine(tx[s], tx[s].to)
           r == [m EXCEPT !.on_hand = @ + tx[s].units]
<1>1. /\ t.op = "adjust" /\ Commit(s)
      /\ shelf' = [shelf EXCEPT ![p] = r] /\ book' = [book EXCEPT ![p] = Book(t, p, r)]
      /\ UNCHANGED <<place, default, variant, order>>
  BY DEF WriteAdjust
<1>2. /\ t \in Transactions /\ p \in Places /\ t.next = "take"
      /\ PlaceLock(p, "share") \in t.held /\ (shelf[p].row \/ RowLock(p) \in t.held)
  BY <1>1, Whose DEF Sound, HoldsPlace, Stages
<1>3. m \in Shelf /\ m.row
  BY <1>2, MineIs
<1>4. r \in Shelf /\ r.row
  <2>1. t.units \in Int /\ m.on_hand \in Int
    <3>1. t.units \in Int
      BY <1>2 DEF Transactions
    <3> HIDE DEF m
    <3> QED
      BY <3>1, <1>3 DEF Shelf
  <2> HIDE DEF m
  <2> QED
    BY <2>1, <1>3 DEF Shelf
<1>5. RowLock(p) \in Reach(s) /\ PlaceLock(p, "share") \in Reach(s)
  BY <1>2, WantedWhere, LocksOfRows DEF Reach
<1> HIDE DEF r, m
<1>6. /\ RowsStand' /\ LedgerReconciles'
      /\ shelf' \in [Places -> Shelf] /\ book' \in [Places -> Sums]
  BY <1>1, <1>2, <1>4, BookedRow
<1>7. TypeOK'
  BY <1>1, <1>6, NoTxIsSound DEF LocationsInv, TypeOK, Commit
<1>8. \A q \in Places :
         \/ SameSums(q)
         \/ RowLock(q) \in Reach(s) /\ \E a \in Modes : PlaceLock(q, a) \in Reach(s)
  BY <1>1, <1>5 DEF SameSums, LocationsInv, TypeOK, Modes
<1>9. \A q \in Places : shelf[q].row => shelf'[q].row
  BY <1>1, <1>4 DEF LocationsInv, TypeOK
<1> QED
  BY <1>1, <1>6, <1>7, <1>8, <1>9, ShelfStep

LEMMA WriteImportStep ==
    ASSUME LocationsInv, NEW s \in Sessions, WriteImport(s)
    PROVE  LocationsInv'
<1> DEFINE t == tx[s]
           p == tx[s].to
           m == Mine(tx[s], tx[s].to)
           r == [m EXCEPT !.on_hand = tx[s].units]
<1>1. /\ t.op = "import" /\ t.next = "write" /\ Commit(s)
      /\ shelf' = [shelf EXCEPT ![p] = r] /\ book' = [book EXCEPT ![p] = Book(t, p, r)]
      /\ UNCHANGED <<place, default, variant, order>>
  BY DEF WriteImport
<1>2. t \in Transactions /\ p \in Places /\ RowLock(p) \in t.held
  BY <1>1, Whose DEF Sound, HoldsRows
<1>3. m \in Shelf /\ m.row
  BY <1>2, MineIs
<1>4. r \in Shelf /\ r.row
  <2>1. t.units \in Int
    BY <1>2 DEF Transactions
  <2> HIDE DEF m
  <2> QED
    BY <2>1, <1>3 DEF Shelf
<1>5. RowLock(p) \in Reach(s) /\ PlaceLock(p, "key share") \in Reach(s)
  BY <1>1, <1>2, WantedToWrite DEF Reach
<1> HIDE DEF r, m
<1>6. /\ RowsStand' /\ LedgerReconciles'
      /\ shelf' \in [Places -> Shelf] /\ book' \in [Places -> Sums]
  BY <1>1, <1>2, <1>4, BookedRow
<1>7. TypeOK'
  BY <1>1, <1>6, NoTxIsSound DEF LocationsInv, TypeOK, Commit
<1>8. \A q \in Places :
         \/ SameSums(q)
         \/ RowLock(q) \in Reach(s) /\ \E a \in Modes : PlaceLock(q, a) \in Reach(s)
  BY <1>1, <1>5 DEF SameSums, LocationsInv, TypeOK, Modes
<1>9. \A q \in Places : shelf[q].row => shelf'[q].row
  BY <1>1, <1>4 DEF LocationsInv, TypeOK
<1> QED
  BY <1>1, <1>6, <1>7, <1>8, <1>9, ShelfStep

LEMMA WriteMoveStep ==
    ASSUME LocationsInv, NEW s \in Sessions, WriteMove(s)
    PROVE  LocationsInv'
<1> DEFINE t == tx[s]
           f == tx[s].from
           p == tx[s].to
           m == Mine(tx[s], tx[s].to)
           out == [shelf[f] EXCEPT !.on_hand = @ - tx[s].units]
           in == [m EXCEPT !.on_hand = @ + tx[s].units]
<1>1. /\ t.op = "move" /\ t.next = "write" /\ Commit(s)
      /\ shelf' = [shelf EXCEPT ![f] = out, ![p] = in]
      /\ book' = [book EXCEPT ![f] = Book(t, f, out), ![p] = Book(t, p, in)]
      /\ UNCHANGED <<place, default, variant, order>>
  BY DEF WriteMove
<1>2. /\ t \in Transactions /\ f \in Places /\ p \in Places /\ f # p /\ t.units \in Int
      /\ RowLock(f) \in t.held /\ RowLock(p) \in t.held
  BY <1>1, Whose DEF Sound, HoldsPlace, HoldsRows, Transactions
<1>3. m \in Shelf /\ m.row /\ shelf[f] \in Shelf
  BY <1>2, MineIs DEF LocationsInv, TypeOK
<1>4. in \in Shelf /\ in.row
  <2> HIDE DEF m
  <2>1. m.on_hand + t.units \in Int
    BY <1>2, <1>3 DEF Shelf
  <2> QED
    BY <2>1, <1>3 DEF Shelf
<1>5. out \in Shelf /\ out.row = shelf[f].row
  <2>1. shelf[f].on_hand - t.units \in Int
    BY <1>2, <1>3 DEF Shelf
  <2> QED
    BY <2>1, <1>3 DEF Shelf
<1>6. /\ RowLock(f) \in Reach(s) /\ PlaceLock(f, "key share") \in Reach(s)
      /\ RowLock(p) \in Reach(s) /\ PlaceLock(p, "key share") \in Reach(s)
  BY <1>1, <1>2, WantedToWrite DEF Reach
<1>o. Book(t, f, out) = [on_hand |-> out.on_hand, reserved |-> out.reserved]
  BY <1>2, <1>5, BookIs
<1>i. Book(t, p, in) = [on_hand |-> in.on_hand, reserved |-> in.reserved]
  BY <1>2, <1>4, BookIs
<1>g. shelf[f].row
  BY <1>1, Whose DEF Sound, HoldsRows
<1> HIDE DEF out, in, m
<1>7. shelf' \in [Places -> Shelf]
  BY <1>1, <1>4, <1>5 DEF LocationsInv, TypeOK
<1>8. /\ out.on_hand \in Int /\ out.reserved \in Int
      /\ in.on_hand \in Int /\ in.reserved \in Int
  BY <1>4, <1>5 DEF Shelf
<1>9. book' \in [Places -> Sums]
  <2>1. Book(t, f, out) \in Sums /\ Book(t, p, in) \in Sums
    BY <1>8, <1>o, <1>i DEF Sums
  <2>2. book \in [Places -> Sums]
    BY DEF LocationsInv, TypeOK
  <2> QED
    BY <2>1, <2>2, <1>1
<1>10. TypeOK'
  BY <1>1, <1>7, <1>9, NoTxIsSound DEF LocationsInv, TypeOK, Commit
<1>11. LedgerReconciles'
  BY <1>1, <1>2, <1>o, <1>i DEF LocationsInv, TypeOK, LedgerReconciles
<1>12. RowsStand'
  BY <1>1, <1>2, <1>4, <1>5, <1>g DEF LocationsInv, TypeOK, RowsStand
<1>13. \A q \in Places :
          \/ SameSums(q)
          \/ RowLock(q) \in Reach(s) /\ \E a \in Modes : PlaceLock(q, a) \in Reach(s)
  BY <1>1, <1>6 DEF SameSums, LocationsInv, TypeOK, Modes
<1>14. \A q \in Places : shelf[q].row => shelf'[q].row
  BY <1>1, <1>4, <1>5 DEF LocationsInv, TypeOK
<1> QED
  BY <1>1, <1>10, <1>11, <1>12, <1>13, <1>14, ShelfStep
-----------------------------------------------------------------------------
(* Places change, with the transaction that counted them or without.       *)

LEMMA WriteCloseStep ==
    ASSUME LocationsInv, NEW s \in Sessions, WriteClose(s)
    PROVE  LocationsInv'
<1> DEFINE p == tx[s].to
<1>1. /\ tx[s].op = "close" /\ Commit(s) /\ place' = [place EXCEPT ![p] = "closed"]
      /\ UNCHANGED <<default, shelf, book, variant, order>>
  BY DEF WriteClose
<1>2. p \in Places /\ PlaceLock(p, "update") \in Reach(s)
  BY <1>1, Whose DEF Sound, HoldsPlace, Reach
<1>3. TypeOK'
  BY <1>1, NoTxIsSound DEF LocationsInv, TypeOK, Commit
<1>4. RowsStand' /\ LedgerReconciles' /\ \A q \in Places : SameSums(q)
  BY <1>1 DEF LocationsInv, RowsStand, LedgerReconciles, SameSums
<1> HIDE DEF p
<1>5. ASSUME NEW b \in Sessions \ {s}
      PROVE  Sound(tx[b])'
  <2>1. tx'[b] = tx[b] /\ Sound(tx[b]) /\ TypeOK
    BY <1>1 DEF LocationsInv, TypeOK, Commit
  <2>2. PlaceLock(p, "share") \notin tx[b].held
    BY <1>1, <1>2, UpdateClashes, Alone DEF LocationsInv, Commit
  <2>3. \A q \in Places :
           /\ PlaceLock(q, "share") \in tx[b].held => (place[q] = "open" => place'[q] = "open")
           /\ place[q] # "new" => place'[q] # "new"
    BY <1>1, <2>1, <2>2 DEF TypeOK
  <2> QED
    BY <1>1, <1>3, <1>4, <2>1, <2>3, Undisturbed
<1> QED
  BY <1>1, <1>3, <1>4, <1>5, CommitStep

LEMMA WriteDeleteStep ==
    ASSUME LocationsInv, NEW s \in Sessions, WriteDelete(s)
    PROVE  LocationsInv'
<1> DEFINE p == tx[s].to
           none == [on_hand |-> 0, reserved |-> 0]
<1>1. /\ tx[s].op = "delete" /\ tx[s].next = "write" /\ Commit(s)
      /\ place' = [place EXCEPT ![p] = "gone"] /\ shelf' = [shelf EXCEPT ![p] = NoShelf]
      /\ book' = [book EXCEPT ![p] = none]
      /\ default' = (IF default = p THEN NoPlace ELSE default) /\ variant' = variant
      /\ order' = [o \in OrderIds |->
                      IF order[o].at = p THEN [order[o] EXCEPT !.at = NoPlace] ELSE order[o]]
  BY DEF WriteDelete
<1>2. /\ p \in Places /\ PlaceLock(p, "update") \in Reach(s) /\ default # p
      /\ shelf[p].on_hand = 0 /\ shelf[p].reserved = 0
  BY <1>1, Whose DEF Sound, HoldsPlace, Reach
<1>3. /\ NoShelf \in Shelf /\ NoShelf.row = FALSE
      /\ NoShelf.on_hand = 0 /\ NoShelf.reserved = 0
  BY DEF NoShelf, Shelf
<1>4. none \in Sums
  BY DEF Sums
<1>5. order' \in [OrderIds -> [status : {"none", "pending", "committed", "over"},
                               at : Places \cup {NoPlace}]]
  BY <1>1 DEF LocationsInv, TypeOK
<1> HIDE DEF p, none
<1>6. TypeOK'
  BY <1>1, <1>2, <1>3, <1>4, <1>5, NoTxIsSound DEF LocationsInv, TypeOK, Commit
<1>7. RowsStand' /\ \A q \in Places : SameSums(q)
  BY <1>1, <1>2, <1>3 DEF LocationsInv, TypeOK, RowsStand, SameSums
<1>8. LedgerReconciles'
  <2>1. ASSUME NEW q \in Places
        PROVE  book'[q] = [on_hand |-> shelf'[q].on_hand, reserved |-> shelf'[q].reserved]
    <3>1. CASE q = p
      BY <3>1, <1>1, <1>3 DEF LocationsInv, TypeOK, none
    <3>2. CASE q # p
      BY <3>2, <1>1 DEF LocationsInv, TypeOK, LedgerReconciles
    <3> QED
      BY <3>1, <3>2
  <2> QED
    BY <2>1 DEF LedgerReconciles
<1>9. ASSUME NEW b \in Sessions \ {s}
      PROVE  Sound(tx[b])'
  <2>1. tx'[b] = tx[b] /\ Sound(tx[b]) /\ TypeOK
    BY <1>1 DEF LocationsInv, TypeOK, Commit
  <2>2. PlaceLock(p, "share") \notin tx[b].held
    BY <1>1, <1>2, UpdateClashes, Alone DEF LocationsInv, Commit
  <2>3. ASSUME shelf[p].row
        PROVE  RowLock(p) \notin tx[b].held
    <3>1. Wanted(s) = Found(p)
      BY <1>1, WantedToWrite DEF p
    <3>2. RowLock(p) \in Reach(s)
      BY <1>2, <2>3, <3>1, LocksOfRows DEF Reach
    <3> QED
      BY <1>1, <3>2, RowsClash, Alone DEF LocationsInv, Commit
  <2>4. \A q \in Places :
           RowLock(q) \in tx[b].held \/ PlaceLock(q, "share") \in tx[b].held =>
              (shelf[q].row => shelf'[q].row)
    BY <1>1, <2>1, <2>2, <2>3 DEF TypeOK
  <2>5. \A q \in Places :
           /\ PlaceLock(q, "share") \in tx[b].held => (place[q] = "open" => place'[q] = "open")
           /\ place[q] # "new" => place'[q] # "new"
    BY <1>1, <2>1, <2>2 DEF TypeOK
  <2> QED
    BY <1>1, <1>2, <1>6, <1>7, <2>1, <2>4, <2>5, Undisturbed
<1> QED
  BY <1>1, <1>6, <1>7, <1>8, <1>9, CommitStep

LEMMA WriteDefaultStep ==
    ASSUME LocationsInv, NEW s \in Sessions, WriteDefault(s)
    PROVE  LocationsInv'
<1>1. /\ tx[s].op = "default" /\ tx[s].next = "write" /\ Commit(s)
      /\ default' = (IF Exists(tx[s].to) THEN tx[s].to ELSE NoPlace)
      /\ UNCHANGED <<place, shelf, book, variant, order>>
  BY DEF WriteDefault
<1>2. tx[s].to \in Places /\ PlaceLock(tx[s].to, "no key update") \in Reach(s)
  BY <1>1, Whose, WantedToWrite DEF Sound, HoldsPlace, Reach
<1>3. TypeOK'
  BY <1>1, <1>2, NoTxIsSound DEF LocationsInv, TypeOK, Commit
<1>4. RowsStand' /\ LedgerReconciles' /\ \A q \in Places : SameSums(q)
  BY <1>1 DEF LocationsInv, RowsStand, LedgerReconciles, SameSums
<1>5. ASSUME NEW b \in Sessions \ {s}
      PROVE  Sound(tx[b])'
  <2>1. tx'[b] = tx[b] /\ Sound(tx[b]) /\ TypeOK
    BY <1>1 DEF LocationsInv, TypeOK, Commit
  <2>2. PlaceLock(tx[s].to, "update") \notin tx[b].held
    BY <1>1, <1>2, UpdateClashes, Alone DEF LocationsInv, Commit
  <2>3. \A q \in Places : PlaceLock(q, "update") \in tx[b].held => default' # q
    BY <1>1, <2>2, LocationsAssumption
  <2> QED
    BY <1>1, <1>3, <1>4, <2>1, <2>3, Undisturbed
<1> QED
  BY <1>1, <1>3, <1>4, <1>5, CommitStep

LEMMA WriteStopStep ==
    ASSUME LocationsInv, NEW s \in Sessions, WriteStop(s)
    PROVE  LocationsInv'
<1>1. /\ Commit(s) /\ variant' = [variant EXCEPT !.continue = FALSE]
      /\ UNCHANGED <<place, default, shelf, book, order>>
  BY DEF WriteStop
<1>2. variant' \in Flags
  BY <1>1 DEF LocationsInv, TypeOK, Flags
<1>3. TypeOK'
  BY <1>1, <1>2, NoTxIsSound DEF LocationsInv, TypeOK, Commit
<1>4. \A p \in Places : SameSums(p) /\ (shelf[p].row => shelf'[p].row)
  BY <1>1 DEF SameSums
<1>5. RowsStand' /\ LedgerReconciles'
  BY <1>1 DEF LocationsInv, RowsStand, LedgerReconciles
<1> QED
  BY <1>1, <1>3, <1>4, <1>5, ShelfStep

(* Steps of no transaction.                                                *)
LEMMA NoTransaction ==
    ASSUME LocationsInv, TypeOK', UNCHANGED <<default, shelf, book, tx>>,
           \A p \in Places : /\ place[p] # "new" => place'[p] # "new"
                             /\ place[p] = "open" => place'[p] = "open"
    PROVE  LocationsInv'
<1>1. ASSUME NEW b \in Sessions
      PROVE  Sound(tx[b])'
  <2>1. tx'[b] = tx[b] /\ Sound(tx[b]) /\ TypeOK /\ \A p \in Places : SameSums(p)
    BY DEF LocationsInv, SameSums
  <2> QED
    BY <2>1, Undisturbed
<1>2. LocksExclude'
  <2> SUFFICES ASSUME NEW a \in Sessions, NEW b \in Sessions, a # b,
                      NEW k \in tx'[a].held, NEW h \in tx'[b].held
               PROVE  ~Clash(k, h)
    BY DEF LocksExclude, Clash, Exclude
  <2> QED
    BY DEF LocationsInv, LocksExclude
<1>3. RowsStand' /\ LedgerReconciles'
  BY DEF LocationsInv, RowsStand, LedgerReconciles
<1> QED
  BY <1>1, <1>2, <1>3 DEF LocationsInv

LEMMA DeskStep ==
    ASSUME LocationsInv,
           \/ \E p \in Places, a \in {"open", "closed"} : Create(p, a)
           \/ \E p \in Places : Reopen(p)
           \/ \E on \in BOOLEAN : Track(on)
           \/ SellPastZero
    PROVE  LocationsInv'
<1>1. CASE \E p \in Places, a \in {"open", "closed"} : Create(p, a)
  BY <1>1, NoTransaction DEF LocationsInv, TypeOK, Create
<1>2. CASE \E p \in Places : Reopen(p)
  BY <1>2, NoTransaction DEF LocationsInv, TypeOK, Reopen
<1>3. CASE (\E on \in BOOLEAN : Track(on)) \/ SellPastZero
  <2>1. variant' \in Flags /\ UNCHANGED <<place, default, shelf, book, order, tx>>
    BY <1>3 DEF LocationsInv, TypeOK, Flags, Track, SellPastZero
  <2> QED
    BY <2>1, NoTransaction DEF LocationsInv, TypeOK
<1> QED
  BY <1>1, <1>2, <1>3

-----------------------------------------------------------------------------
(* The invariant is inductive.                                             *)

LEMMA InitInv ==
    ASSUME LocationsInit
    PROVE  LocationsInv
<1> DEFINE full == [EmptyShelf EXCEPT !.on_hand = MaxUnits]
<1>1. MaxUnits \in Int
  BY LocationsAssumption
<1>2. /\ full \in Shelf /\ full.row = TRUE /\ full.on_hand = MaxUnits /\ full.reserved = 0
      /\ NoShelf \in Shelf /\ NoShelf.on_hand = 0 /\ NoShelf.reserved = 0
  <2>1. /\ EmptyShelf \in Shelf /\ EmptyShelf.row = TRUE /\ EmptyShelf.reserved = 0
        /\ NoShelf \in Shelf /\ NoShelf.on_hand = 0 /\ NoShelf.reserved = 0
    BY DEF EmptyShelf, NoShelf, Shelf
  <2> QED
    BY <2>1, <1>1 DEF Shelf
<1>3. /\ default \in Places /\ place = [p \in Places |-> IF p = default THEN "open" ELSE "new"]
      /\ shelf = [p \in Places |-> IF p = default THEN full ELSE NoShelf]
      /\ book = [p \in Places |-> [on_hand |-> shelf[p].on_hand, reserved |-> 0]]
      /\ variant \in Flags
      /\ order = [o \in OrderIds |-> [status |-> "none", at |-> NoPlace]]
      /\ tx = [s \in Sessions |-> NoTx]
  BY DEF LocationsInit
<1> HIDE DEF full
<1>4. shelf \in [Places -> Shelf]
  BY <1>2, <1>3
<1>5. book \in [Places -> Sums]
  BY <1>2, <1>3, <1>1 DEF Sums
<1>6. TypeOK
  BY <1>3, <1>4, <1>5, NoTxIsSound DEF TypeOK
<1>7. \A s \in Sessions : Sound(tx[s])
  BY <1>3, NoTxIsSound
<1>8. LocksExclude
  BY <1>3, NoTxIsSound DEF LocksExclude
<1>9. RowsStand /\ LedgerReconciles
  BY <1>2, <1>3 DEF RowsStand, LedgerReconciles
<1> QED
  BY <1>6, <1>7, <1>8, <1>9 DEF LocationsInv

LEMMA OrderVerbs ==
    ASSUME LocationsInv, NEW s \in Sessions, NEW o \in OrderIds,
           \/ Confirm(s, o)
           \/ Cancel(s, o)
           \/ \E p \in Places : Place(s, o, p) \/ Return(s, o, p)
    PROVE  LocationsInv'
<1>1. lineLocation(o) \in Places \cup {NoPlace}
  BY DEF LocationsInv, TypeOK, lineLocation
<1>2. PICK op \in OrderPath, p \in Places \cup {NoPlace} : Verb(s, o, op, p)
  BY <1>1 DEF Confirm, Cancel, Place, Return, OrderPath
<1> QED
  BY <1>2, VerbStep

LEMMA NextInv ==
    ASSUME LocationsInv, LocationsNext
    PROVE  LocationsInv'
<1>1. ASSUME NEW s \in Sessions, NEW o \in OrderIds,
             \/ Confirm(s, o)
             \/ Cancel(s, o)
             \/ \E p \in Places : Place(s, o, p) \/ Return(s, o, p)
      PROVE  LocationsInv'
  BY <1>1, OrderVerbs
<1>2. ASSUME NEW s \in Sessions, NEW p \in Places,
             \/ \E q \in Places, n \in 1..MaxUnits : Move(s, p, q, n)
             \/ \E n \in (-MaxUnits..MaxUnits) \ {0} : Adjust(s, p, n)
             \/ \E n \in 0..MaxUnits : Import(s, p, n)
      PROVE  LocationsInv'
  BY <1>2, MoveStep, AdjustStep, ImportStep
<1>3. ASSUME NEW s \in Sessions, NEW p \in Places,
             Close(s, p) \/ Delete(s, p) \/ SetDefault(s, p)
      PROVE  LocationsInv'
  BY <1>3, CountStep, SetDefaultStep DEF Close, Delete
<1>4. ASSUME NEW s \in Sessions, Ask(s) \/ Take(s) \/ Write(s)
      PROVE  LocationsInv'
  BY <1>4, AskStep, TakeStep, WriteStep
<1>5. ASSUME NEW s \in Sessions,
             \/ LockFirst(s) \/ LockSecond(s) \/ TakeOut(s) \/ WriteMove(s) \/ WriteAdjust(s)
             \/ TakeImport(s) \/ WriteImport(s)
      PROVE  LocationsInv'
  BY <1>5, LockFirstStep, LockSecondStep, TakeOutStep, WriteMoveStep, WriteAdjustStep,
     TakeImportStep, WriteImportStep
<1>6. ASSUME NEW s \in Sessions,
             \/ WriteClose(s) \/ Counting(s) \/ WriteDelete(s)
             \/ StandDown(s) \/ WriteDefault(s)
             \/ StopSelling(s) \/ WriteStop(s) \/ RollBack(s)
      PROVE  LocationsInv'
  BY <1>6, WriteCloseStep, CountingStep, WriteDeleteStep, StandDownStep, WriteDefaultStep,
     StopSellingStep, WriteStopStep, RollBackStep
<1> QED
  BY <1>1, <1>2, <1>3, <1>4, <1>5, <1>6, DeskStep DEF LocationsNext

LEMMA StutterInv ==
    ASSUME LocationsInv, UNCHANGED locVars
    PROVE  LocationsInv'
<1>1. TypeOK'
  BY DEF LocationsInv, TypeOK, locVars
<1> QED
  BY <1>1, NoTransaction DEF locVars

(* What the locks guard, at every reachable state.                         *)
THEOREM LocationsInvariant == LocationsSpec => []LocationsInv
<1>1. LocationsInit => LocationsInv
  BY InitInv
<1>2. LocationsInv /\ [LocationsNext]_locVars => LocationsInv'
  BY NextInv, StutterInv
<1> QED
  BY <1>1, <1>2, PTL DEF LocationsSpec

(* Every variable keeps its type: no shelf comes to have less than nothing *)
(* reserved, whatever a switch of track_inventory has left out.            *)
THEOREM TypeCorrect == LocationsSpec => []TypeOK
<1>1. LocationsInv => TypeOK
  BY DEF LocationsInv
<1> QED
  BY <1>1, LocationsInvariant, PTL

(* The movements of a place sum to its shelf, as checkLedger demands.      *)
THEOREM LedgerIsTrue == LocationsSpec => []LedgerReconciles
<1>1. LocationsInv => LedgerReconciles
  BY DEF LocationsInv
<1> QED
  BY <1>1, LocationsInvariant, PTL

-----------------------------------------------------------------------------
(* What a step may not do.                                                 *)

LEMMA ShelvesChangeIn ==
    ASSUME LocationsNext
    PROVE  \/ UNCHANGED shelf
           \/ \E s \in Sessions : \/ Write(s) \/ WriteMove(s) \/ WriteAdjust(s)
                                  \/ WriteImport(s) \/ WriteDelete(s)
<1> USE DEF Begin, Statement
<1>1. ASSUME NEW s \in Sessions, NEW o \in OrderIds,
             \/ Confirm(s, o)
             \/ Cancel(s, o)
             \/ \E p \in Places : Place(s, o, p) \/ Return(s, o, p)
      PROVE  UNCHANGED shelf
  BY <1>1 DEF Confirm, Cancel, Place, Return, Verb
<1>2. ASSUME NEW s \in Sessions, NEW p \in Places,
             \/ \E q \in Places, n \in 1..MaxUnits : Move(s, p, q, n)
             \/ \E n \in (-MaxUnits..MaxUnits) \ {0} : Adjust(s, p, n)
             \/ \E n \in 0..MaxUnits : Import(s, p, n)
             \/ Close(s, p) \/ Delete(s, p) \/ SetDefault(s, p)
      PROVE  UNCHANGED shelf
  BY <1>2 DEF Move, Adjust, Import, Close, Delete, Count, SetDefault
<1>3. ASSUME NEW s \in Sessions, Ask(s) \/ Take(s) \/ LockFirst(s) \/ LockSecond(s)
      PROVE  UNCHANGED shelf
  BY <1>3 DEF Ask, Take, LockFirst, LockSecond
<1>4. ASSUME NEW s \in Sessions,
             TakeOut(s) \/ TakeImport(s) \/ Counting(s) \/ StandDown(s) \/ StopSelling(s)
      PROVE  UNCHANGED shelf
  BY <1>4 DEF TakeOut, TakeImport, Counting, StandDown, StopSelling
<1>5. ASSUME NEW s \in Sessions,
             WriteClose(s) \/ WriteDefault(s) \/ WriteStop(s) \/ RollBack(s)
      PROVE  UNCHANGED shelf
  BY <1>5 DEF WriteClose, WriteDefault, WriteStop, RollBack
<1>6. ASSUME \/ \E p \in Places, a \in {"open", "closed"} : Create(p, a)
             \/ \E p \in Places : Reopen(p)
             \/ \E on \in BOOLEAN : Track(on)
             \/ SellPastZero
      PROVE  UNCHANGED shelf
  BY <1>6 DEF Create, Reopen, Track, SellPastZero
<1> QED
  BY <1>1, <1>2, <1>3, <1>4, <1>5, <1>6 DEF LocationsNext

Allowed(p) ==
    /\ place[p] = "closed" /\ shelf'[p].on_hand > shelf[p].on_hand =>
          \E s \in Sessions :
              /\ tx[s].to = p
              /\ \/ tx[s].op = "restock"
                 \/ tx[s].op = "import" /\ (tx[s].found \/ shelf'[p].on_hand = shelf[p].reserved)
    /\ shelf[p].row /\ ~shelf'[p].row =>
          shelf[p].on_hand = 0 /\ shelf[p].reserved = 0

LEMMA UnchangedAllowed ==
    ASSUME LocationsInv, NEW p \in Places, shelf'[p] = shelf[p]
    PROVE  Allowed(p)
<1>1. shelf[p].on_hand \in Int
  BY DEF LocationsInv, TypeOK, Shelf
<1> QED
  BY <1>1 DEF Allowed

LEMMA OnlyRestocksAdd ==
    ASSUME NEW op \in OrderPath, NEW r \in Shelf, NEW u \in {0, 1},
           After(op, r, u).on_hand > r.on_hand
    PROVE  op = "restock"
<1>1. r.on_hand \in Int /\ r.reserved \in Nat
  BY DEF Shelf
<1>2. CASE op \in {"reserve", "release"}
  <2>1. After(op, r, u).on_hand = r.on_hand
    BY <1>2 DEF After, Shelf
  <2> QED
    BY <1>1, <2>1
<1>3. CASE op = "commit"
  <2>1. After(op, r, u).on_hand = r.on_hand - u
    BY <1>3 DEF After, Shelf
  <2> QED
    BY <1>1, <2>1
<1> QED
  BY <1>2, <1>3 DEF OrderPath

LEMMA WriteAllowed ==
    ASSUME LocationsInv, NEW s \in Sessions, Write(s), NEW p \in Places
    PROVE  Allowed(p)
<1> DEFINE m == Mine(tx[s], tx[s].to)
           r == After(tx[s].op, m, tx[s].units)
<1>1. /\ tx[s].next = "write" /\ tx[s].op \in OrderPath
      /\ shelf' = [shelf EXCEPT ![tx[s].to] = r]
  BY DEF Write
<1>2. /\ tx[s].to \in Places /\ tx[s].units \in {0, 1}
      /\ tx[s].op = "commit" => shelf[tx[s].to].reserved >= tx[s].units
  BY <1>1, Whose DEF Sound, HoldsRows
<1>3. /\ m \in Shelf /\ m.on_hand = shelf[tx[s].to].on_hand
      /\ m.reserved = shelf[tx[s].to].reserved /\ (shelf[tx[s].to].row => m.row)
  BY <1>2, MineIs
<1> HIDE DEF m
<1>4. r.row = m.row /\ (r.on_hand > m.on_hand => tx[s].op = "restock")
  BY <1>1, <1>2, <1>3, AfterIs, OnlyRestocksAdd
<1> HIDE DEF r
<1>5. CASE p # tx[s].to
  BY <1>5, <1>1, UnchangedAllowed DEF LocationsInv, TypeOK
<1>6. CASE p = tx[s].to
  <2>1. shelf'[p] = r
    BY <1>6, <1>1, <1>2 DEF LocationsInv, TypeOK
  <2> QED
    BY <2>1, <1>3, <1>4, <1>6 DEF Allowed
<1> QED
  BY <1>5, <1>6

LEMMA WriteAdjustAllowed ==
    ASSUME LocationsInv, NEW s \in Sessions, WriteAdjust(s), NEW p \in Places
    PROVE  Allowed(p)
<1> DEFINE m == Mine(tx[s], tx[s].to)
           r == [m EXCEPT !.on_hand = @ + tx[s].units]
<1>1. tx[s].op = "adjust" /\ shelf' = [shelf EXCEPT ![tx[s].to] = r]
  BY DEF WriteAdjust
<1>2. /\ tx[s].to \in Places /\ tx[s].units \in Int
      /\ tx[s].units > 0 => place[tx[s].to] = "open"
  BY <1>1, Whose DEF Sound, HoldsPlace, Transactions
<1>3. /\ m \in Shelf /\ m.on_hand = shelf[tx[s].to].on_hand
      /\ shelf[tx[s].to].row => m.row
  BY <1>2, MineIs
<1> HIDE DEF m
<1>4. /\ r.row = m.row /\ r.on_hand = m.on_hand + tx[s].units
      /\ m.on_hand \in Int
  BY <1>3 DEF Shelf
<1> HIDE DEF r
<1>5. r.on_hand > m.on_hand => tx[s].units > 0
  BY <1>2, <1>4
<1>6. CASE p # tx[s].to
  BY <1>6, <1>1, UnchangedAllowed DEF LocationsInv, TypeOK
<1>7. CASE p = tx[s].to
  <2>1. shelf'[p] = r
    BY <1>7, <1>1, <1>2 DEF LocationsInv, TypeOK
  <2> QED
    BY <2>1, <1>2, <1>3, <1>4, <1>5, <1>7 DEF Allowed
<1> QED
  BY <1>6, <1>7

LEMMA WriteImportAllowed ==
    ASSUME LocationsInv, NEW s \in Sessions, WriteImport(s), NEW p \in Places
    PROVE  Allowed(p)
<1> DEFINE m == Mine(tx[s], tx[s].to)
           r == [m EXCEPT !.on_hand = tx[s].units]
<1>1. /\ tx[s].op = "import" /\ tx[s].next = "write"
      /\ shelf' = [shelf EXCEPT ![tx[s].to] = r]
  BY DEF WriteImport
<1>2. /\ tx[s].to \in Places
      /\ tx[s].units > shelf[tx[s].to].on_hand =>
            tx[s].found \/ tx[s].units = shelf[tx[s].to].reserved
  BY <1>1, Whose DEF Sound, HoldsRows
<1>3. m \in Shelf /\ (shelf[tx[s].to].row => m.row)
  BY <1>2, MineIs
<1> HIDE DEF m
<1>4. r.row = m.row /\ r.on_hand = tx[s].units
  BY <1>3 DEF Shelf
<1> HIDE DEF r
<1>5. CASE p # tx[s].to
  BY <1>5, <1>1, UnchangedAllowed DEF LocationsInv, TypeOK
<1>6. CASE p = tx[s].to
  <2>1. shelf'[p] = r
    BY <1>6, <1>1, <1>2 DEF LocationsInv, TypeOK
  <2> QED
    BY <2>1, <1>1, <1>2, <1>3, <1>4, <1>6 DEF Allowed
<1> QED
  BY <1>5, <1>6

LEMMA WriteMoveAllowed ==
    ASSUME LocationsInv, NEW s \in Sessions, WriteMove(s), NEW p \in Places
    PROVE  Allowed(p)
<1> DEFINE f == tx[s].from
           m == Mine(tx[s], tx[s].to)
           out == [shelf[f] EXCEPT !.on_hand = @ - tx[s].units]
           in == [m EXCEPT !.on_hand = @ + tx[s].units]
<1>1. /\ tx[s].op = "move" /\ tx[s].next = "write"
      /\ shelf' = [shelf EXCEPT ![f] = out, ![tx[s].to] = in]
  BY DEF WriteMove
<1>2. /\ tx[s].to \in Places /\ f \in Places /\ f # tx[s].to
      /\ tx[s].units \in Int /\ tx[s].units > 0 /\ place[tx[s].to] = "open"
  BY <1>1, Whose DEF Sound, HoldsPlace, HoldsRows, Transactions
<1>3. m \in Shelf /\ (shelf[tx[s].to].row => m.row) /\ shelf[f] \in Shelf
  BY <1>2, MineIs DEF LocationsInv, TypeOK
<1> HIDE DEF m
<1>4. in.row = m.row
  BY <1>3 DEF Shelf
<1>5. /\ out.row = shelf[f].row /\ out.on_hand = shelf[f].on_hand - tx[s].units
      /\ shelf[f].on_hand \in Int
  BY <1>3 DEF Shelf
<1> HIDE DEF in, out
<1>6. ~(out.on_hand > shelf[f].on_hand)
  BY <1>2, <1>5
<1>7. CASE p \notin {f, tx[s].to}
  BY <1>7, <1>1, UnchangedAllowed DEF LocationsInv, TypeOK
<1>8. CASE p = tx[s].to
  <2>1. shelf'[p] = in
    BY <1>8, <1>1, <1>2 DEF LocationsInv, TypeOK
  <2> QED
    BY <2>1, <1>2, <1>3, <1>4, <1>8 DEF Allowed
<1>9. CASE p = f
  <2>1. shelf'[p] = out
    BY <1>9, <1>1, <1>2 DEF LocationsInv, TypeOK
  <2> QED
    BY <2>1, <1>5, <1>6, <1>9 DEF Allowed
<1> QED
  BY <1>7, <1>8, <1>9

LEMMA WriteDeleteAllowed ==
    ASSUME LocationsInv, NEW s \in Sessions, WriteDelete(s), NEW p \in Places
    PROVE  Allowed(p)
<1>1. /\ tx[s].op = "delete" /\ tx[s].next = "write"
      /\ shelf' = [shelf EXCEPT ![tx[s].to] = NoShelf]
  BY DEF WriteDelete
<1>2. /\ tx[s].to \in Places
      /\ shelf[tx[s].to].on_hand = 0 /\ shelf[tx[s].to].reserved = 0
  BY <1>1, Whose DEF Sound, HoldsPlace
<1>3. CASE p # tx[s].to
  BY <1>3, <1>1, UnchangedAllowed DEF LocationsInv, TypeOK
<1>4. CASE p = tx[s].to
  <2>1. shelf'[p] = NoShelf /\ NoShelf.on_hand = 0
    BY <1>4, <1>1, <1>2 DEF LocationsInv, TypeOK, NoShelf
  <2> QED
    BY <2>1, <1>2, <1>4 DEF Allowed
<1> QED
  BY <1>3, <1>4

(* D44: whatever units come to a closed place came back off a sale, or by  *)
(* a file as NothingIsStranded says, and a place that goes leaves none     *)
(* behind, however opening, closing, deleting, moving and selling meet.    *)
THEOREM UnitsAreNotStranded == LocationsSpec => NothingIsStranded
<1>1. ASSUME LocationsInv, [LocationsNext]_locVars, NEW p \in Places
      PROVE  Allowed(p)
  <2>1. CASE UNCHANGED shelf
    BY <1>1, <2>1, UnchangedAllowed
  <2>2. CASE \E s \in Sessions : \/ Write(s) \/ WriteMove(s) \/ WriteAdjust(s)
                                 \/ WriteImport(s) \/ WriteDelete(s)
    BY <1>1, <2>2, WriteAllowed, WriteMoveAllowed, WriteAdjustAllowed, WriteImportAllowed,
       WriteDeleteAllowed
  <2> QED
    BY <1>1, <2>1, <2>2, ShelvesChangeIn DEF locVars
<1>2. LocationsInv /\ [LocationsNext]_locVars => [\A p \in Places : Allowed(p)]_locVars
  BY <1>1
<1>3. LocationsSpec => [][\A p \in Places : Allowed(p)]_locVars
  BY <1>2, LocationsInvariant, PTL DEF LocationsSpec
<1> QED
  BY <1>3 DEF NothingIsStranded, Allowed

LEMMA DefaultChangesIn ==
    ASSUME LocationsNext
    PROVE  \/ UNCHANGED default
           \/ \E s \in Sessions : WriteDelete(s) \/ WriteDefault(s)
<1> USE DEF Begin, Statement
<1>1. ASSUME NEW s \in Sessions, NEW o \in OrderIds,
             \/ Confirm(s, o)
             \/ Cancel(s, o)
             \/ \E p \in Places : Place(s, o, p) \/ Return(s, o, p)
      PROVE  UNCHANGED default
  BY <1>1 DEF Confirm, Cancel, Place, Return, Verb
<1>2. ASSUME NEW s \in Sessions, NEW p \in Places,
             \/ \E q \in Places, n \in 1..MaxUnits : Move(s, p, q, n)
             \/ \E n \in (-MaxUnits..MaxUnits) \ {0} : Adjust(s, p, n)
             \/ \E n \in 0..MaxUnits : Import(s, p, n)
             \/ Close(s, p) \/ Delete(s, p) \/ SetDefault(s, p)
      PROVE  UNCHANGED default
  BY <1>2 DEF Move, Adjust, Import, Close, Delete, Count, SetDefault
<1>3. ASSUME NEW s \in Sessions, Ask(s) \/ Take(s) \/ LockFirst(s) \/ LockSecond(s)
      PROVE  UNCHANGED default
  BY <1>3 DEF Ask, Take, LockFirst, LockSecond
<1>4. ASSUME NEW s \in Sessions,
             TakeOut(s) \/ TakeImport(s) \/ Counting(s) \/ StandDown(s) \/ StopSelling(s)
      PROVE  UNCHANGED default
  BY <1>4 DEF TakeOut, TakeImport, Counting, StandDown, StopSelling
<1>5. ASSUME NEW s \in Sessions,
             \/ Write(s) \/ WriteMove(s) \/ WriteAdjust(s) \/ WriteImport(s)
             \/ WriteClose(s) \/ WriteStop(s) \/ RollBack(s)
      PROVE  UNCHANGED default
  BY <1>5 DEF Write, WriteMove, WriteAdjust, WriteImport, WriteClose, WriteStop, RollBack
<1>6. ASSUME \/ \E p \in Places, a \in {"open", "closed"} : Create(p, a)
             \/ \E p \in Places : Reopen(p)
             \/ \E on \in BOOLEAN : Track(on)
             \/ SellPastZero
      PROVE  UNCHANGED default
  BY <1>6 DEF Create, Reopen, Track, SellPastZero
<1> QED
  BY <1>1, <1>2, <1>3, <1>4, <1>5, <1>6 DEF LocationsNext

(* A store is left without a default only when the place that SetDefault   *)
(* read as open was deleted before it stood up.                            *)
THEOREM DefaultStays == LocationsSpec => DefaultIsKept
<1> DEFINE Kept == default # NoPlace /\ default' = NoPlace =>
                      \E s \in Sessions : tx[s].op = "default" /\ place[tx[s].to] = "gone"
<1>1. ASSUME LocationsInv, LocationsNext, default # NoPlace, default' = NoPlace
      PROVE  \E s \in Sessions : tx[s].op = "default" /\ place[tx[s].to] = "gone"
  <2>1. PICK s \in Sessions : WriteDelete(s) \/ WriteDefault(s)
    BY <1>1, DefaultChangesIn
  <2>2. ~WriteDelete(s)
    <3>1. WriteDelete(s) => tx[s].to # default /\ default' = default
      BY <1>1, Whose DEF WriteDelete, Sound, HoldsPlace
    <3> QED
      BY <3>1, <1>1
  <2>3. WriteDefault(s)
    BY <2>1, <2>2
  <2>4. tx[s].op = "default" /\ ~(Exists(tx[s].to) /\ tx[s].to # NoPlace)
    BY <2>3, <1>1 DEF WriteDefault
  <2>5. tx[s].to \in Places /\ place[tx[s].to] # "new"
    BY <2>4, <1>1, Whose DEF Sound, HoldsPlace
  <2>6. place[tx[s].to] \in {"new", "open", "closed", "gone"} /\ tx[s].to # NoPlace
    BY <2>5, <1>1, LocationsAssumption DEF LocationsInv, TypeOK
  <2> QED
    BY <2>4, <2>5, <2>6 DEF Exists
<1>2. LocationsInv /\ [LocationsNext]_locVars => [Kept]_locVars
  BY <1>1
<1>3. LocationsSpec => [][Kept]_locVars
  BY <1>2, LocationsInvariant, PTL DEF LocationsSpec
<1> QED
  BY <1>3 DEF DefaultIsKept

-----------------------------------------------------------------------------
(* What the statements have decided when their transactions write, and     *)
(* which locks each may hold: a second invariant, on top of the first.     *)

(* What prepare locks of a place, and of its row.                          *)
Arriving(t) == {PlaceLock(t.to, "share"), PlaceLock(t.to, "key share"), RowLock(t.to)}

(* The sums that a transaction decided on, under the lock of their row.    *)
Decided(t) ==
    /\ t.op = "reserve" /\ t.next = "write" /\ t.units = 1 =>
          t.sees.continue \/ shelf[t.to].reserved < shelf[t.to].on_hand
    /\ t.op = "import" /\ t.next = "write" =>
          t.sees.continue \/ shelf[t.to].reserved <= t.units
    /\ t.op = "move" /\ t.next = "write" =>
          shelf[t.from].reserved <= shelf[t.from].on_hand - t.units

(* A row that was found or inserted is there until its place is deleted.   *)
Lands(t) ==
    /\ t.op \in OrderPath \ {"reserve"} /\ t.next = "take" =>
          shelf[t.to].row \/ RowLock(t.to) \in t.held \/ place[t.to] = "gone"
    /\ t.op = "restock" /\ t.next = "write" /\ t.sees.track =>
          t.units = 1 \/ place[t.to] = "gone"
    /\ t.op = "close" => place[t.to] # "gone"

(* The locks that a transaction may hold, by what it is and how far.       *)
Holds(t) ==
    /\ t.op = "stop selling" => t.held = {}
    /\ t.op \in OrderPath \cup {"import"} =>
          /\ t.held \subseteq {RowLock(t.to), PlaceLock(t.to, "key share")}
          /\ t.next = "ask" => t.held = {}
    /\ t.op = "adjust" => t.held \subseteq Arriving(t)
    /\ t.op = "move" =>
          /\ t.held \subseteq Arriving(t) \cup {RowLock(t.from)}
          /\ t.next = "first" =>
                /\ RowLock(t.from) \notin t.held
                /\ RowLock(t.to) \in t.held => ~shelf[t.to].row
    /\ t.op \in {"close", "delete"} => t.held = {PlaceLock(t.to, "update")}
    /\ t.op = "default" =>
          IF t.next = "write" /\ t.from # NoPlace
          THEN t.held = {PlaceLock(t.from, "no key update")} /\ default = t.from
          ELSE t.held = {}

OrdersApart ==
    \A a, b \in Sessions : a # b =>
        tx[a].order = NoOrder \/ tx[a].order # tx[b].order

Careful(t) == Decided(t) /\ Lands(t) /\ Holds(t)

CarefulInv == OrdersApart /\ \A s \in Sessions : Careful(tx[s])

LEMMA NoTxIsCareful ==
    Careful(NoTx) /\ NoTx.order = NoOrder
  BY DEF NoTx, Careful, Decided, Lands, Holds, OrderPath

(* What a step of another session leaves a transaction.                    *)
Untouched(b) ==
    /\ tx'[b] = tx[b]
    /\ \A p \in Places :
          /\ RowLock(p) \in tx[b].held => SameSums(p) /\ shelf'[p].row = shelf[p].row
          /\ shelf[p].row => shelf'[p].row \/ place'[p] = "gone"
          /\ place[p] = "gone" => place'[p] = "gone"
          /\ PlaceLock(p, "update") \in tx[b].held /\ place[p] # "gone" => place'[p] # "gone"
          /\ PlaceLock(p, "no key update") \in tx[b].held /\ default = p => default' = default

LEMMA StaysCareful ==
    ASSUME LocationsInv, NEW b \in Sessions, Careful(tx[b]), Untouched(b)
    PROVE  Careful(tx[b])'
<1> DEFINE t == tx[b]
<1>t. /\ t' = t /\ t \in Transactions /\ Sound(t)
      /\ Decided(t) /\ Lands(t) /\ Holds(t)
  BY Whose DEF Untouched, Careful
<1>1. Decided(t)'
  <2>1. CASE t.op = "reserve" /\ t.next = "write" /\ t.units = 1
    <3>1. t.to \in Places /\ RowLock(t.to) \in t.held
      BY <2>1, <1>t DEF Sound, HoldsRows, OrderPath
    <3>2. SameSums(t.to)
      BY <3>1 DEF Untouched
    <3>3. t.sees.continue \/ shelf[t.to].reserved < shelf[t.to].on_hand
      BY <2>1, <1>t DEF Decided
    <3> QED
      BY <2>1, <3>2, <3>3, <1>t DEF Decided, SameSums
  <2>2. CASE t.op = "import" /\ t.next = "write"
    <3>1. t.to \in Places /\ RowLock(t.to) \in t.held
      BY <2>2, <1>t DEF Sound, HoldsRows
    <3>2. SameSums(t.to)
      BY <3>1 DEF Untouched
    <3>3. t.sees.continue \/ shelf[t.to].reserved <= t.units
      BY <2>2, <1>t DEF Decided
    <3> QED
      BY <2>2, <3>2, <3>3, <1>t DEF Decided, SameSums
  <2>3. CASE t.op = "move" /\ t.next = "write"
    <3>1. t.from \in Places /\ RowLock(t.from) \in t.held
      BY <2>3, <1>t DEF Sound, HoldsRows
    <3>2. SameSums(t.from)
      BY <3>1 DEF Untouched
    <3>3. shelf[t.from].reserved <= shelf[t.from].on_hand - t.units
      BY <2>3, <1>t DEF Decided
    <3> QED
      BY <2>3, <3>2, <3>3, <1>t DEF Decided, SameSums
  <2> QED
    BY <2>1, <2>2, <2>3, <1>t DEF Decided
<1>2. Lands(t)'
  <2>1. CASE t.op \in OrderPath
    <3>1. t.to \in Places
      BY <2>1, <1>t DEF Sound, HoldsRows
    <3>2. /\ shelf[t.to].row => shelf'[t.to].row \/ place'[t.to] = "gone"
          /\ place[t.to] = "gone" => place'[t.to] = "gone"
      BY <3>1 DEF Untouched
    <3> QED
      BY <2>1, <3>2, <1>t DEF Lands, OrderPath
  <2>2. CASE t.op = "close"
    <3>1. t.to \in Places /\ PlaceLock(t.to, "update") \in t.held /\ place[t.to] # "gone"
      BY <2>2, <1>t DEF Sound, HoldsPlace, Lands
    <3>2. place'[t.to] # "gone"
      BY <3>1 DEF Untouched
    <3> QED
      BY <2>2, <3>2, <1>t DEF Lands, OrderPath
  <2> QED
    BY <2>1, <2>2, <1>t DEF Lands, OrderPath
<1>3. Holds(t)'
  <2>1. CASE t.op = "move"
    <3>1. t.to \in Places
      BY <2>1, <1>t DEF Sound, HoldsPlace
    <3>2. RowLock(t.to) \in t.held => shelf'[t.to].row = shelf[t.to].row
      BY <3>1 DEF Untouched
    <3> QED
      BY <2>1, <3>2, <1>t DEF Holds, OrderPath, Arriving, RowLock, PlaceLock
  <2>2. CASE t.op = "default" /\ t.next = "write" /\ t.from # NoPlace
    <3>1. /\ t.from \in Places /\ default = t.from
          /\ t.held = {PlaceLock(t.from, "no key update")}
      BY <2>2, <1>t DEF Transactions, Holds
    <3>2. default' = default
      BY <3>1 DEF Untouched
    <3> QED
      BY <2>2, <3>1, <3>2, <1>t DEF Holds, OrderPath, RowLock, PlaceLock
  <2> QED
    BY <2>1, <2>2, <1>t DEF Holds, OrderPath, Arriving, RowLock, PlaceLock
<1> QED
  BY <1>1, <1>2, <1>3 DEF Careful

LEMMA OrdersStayApart ==
    ASSUME OrdersApart, tx \in [Sessions -> Transactions], NEW s \in Sessions, NEW n,
           tx' = [tx EXCEPT ![s] = n],
           n.order = NoOrder \/ n.order = tx[s].order \/ Lines(n.order)
    PROVE  OrdersApart'
<1> SUFFICES ASSUME NEW a \in Sessions, NEW b \in Sessions, a # b
             PROVE  tx'[a].order = NoOrder \/ tx'[a].order # tx'[b].order
  BY DEF OrdersApart
<1>1. CASE a = s
  BY <1>1 DEF OrdersApart, Lines
<1>2. CASE b = s
  BY <1>2 DEF OrdersApart, Lines
<1>3. CASE a # s /\ b # s
  BY <1>3 DEF OrdersApart
<1> QED
  BY <1>1, <1>2, <1>3

(* A transaction goes from n on, or ends, and the others are untouched.    *)
LEMMA CarefulStep ==
    ASSUME LocationsInv, CarefulInv, NEW s \in Sessions, NEW n,
           tx' = [tx EXCEPT ![s] = n], n = NoTx \/ Careful(n)',
           n.order = NoOrder \/ n.order = tx[s].order \/ Lines(n.order),
           \A b \in Sessions \ {s} : Untouched(b)
    PROVE  CarefulInv'
<1>1. tx \in [Sessions -> Transactions] /\ tx'[s] = n
  BY DEF LocationsInv, TypeOK
<1>2. OrdersApart'
  BY <1>1, OrdersStayApart DEF CarefulInv
<1>3. Careful(tx[s])'
  <2>1. CASE Careful(n)'
    <3>1. Decided(tx[s])'
      BY <2>1, <1>1 DEF Careful, Decided
    <3>2. Lands(tx[s])'
      BY <2>1, <1>1 DEF Careful, Lands
    <3>3. Holds(tx[s])'
      BY <2>1, <1>1 DEF Careful, Holds, Arriving
    <3> QED
      BY <3>1, <3>2, <3>3 DEF Careful
  <2>2. CASE n = NoTx
    BY <2>2, <1>1 DEF NoTx, Careful, Decided, Lands, Holds, OrderPath
  <2> QED
    BY <2>1, <2>2
<1>4. ASSUME NEW b \in Sessions, b # s
      PROVE  Careful(tx[b])'
  BY <1>4, StaysCareful DEF CarefulInv
<1> QED
  BY <1>2, <1>3, <1>4 DEF CarefulInv

(* One that writes nothing.                                                *)
LEMMA CarefulOn ==
    ASSUME LocationsInv, CarefulInv, NEW s \in Sessions, NEW n,
           tx' = [tx EXCEPT ![s] = n], Careful(n),
           n.order = NoOrder \/ n.order = tx[s].order \/ Lines(n.order),
           UNCHANGED <<place, default, shelf>>
    PROVE  CarefulInv'
<1>1. Careful(n)'
  BY DEF Careful, Decided, Lands, Holds
<1>2. \A b \in Sessions \ {s} : Untouched(b)
  BY DEF LocationsInv, TypeOK, Untouched, SameSums
<1> QED
  BY <1>1, <1>2, CarefulStep

LEMMA CarefulCommit ==
    ASSUME LocationsInv, CarefulInv, NEW s \in Sessions, Commit(s),
           \A b \in Sessions \ {s} : Untouched(b)
    PROVE  CarefulInv'
  BY NoTxIsCareful, CarefulStep DEF Commit

-----------------------------------------------------------------------------
(* A transaction that has begun is careful.                                *)

LEMMA BegunIsCareful ==
    ASSUME LocationsInv, CarefulInv, NEW s \in Sessions,
           \/ \E o \in OrderIds :
                 \/ Confirm(s, o) \/ Cancel(s, o)
                 \/ \E p \in Places : Place(s, o, p) \/ Return(s, o, p)
           \/ \E p \in Places :
                 \/ \E q \in Places, n \in 1..MaxUnits : Move(s, p, q, n)
                 \/ \E n \in (-MaxUnits..MaxUnits) \ {0} : Adjust(s, p, n)
                 \/ \E n \in 0..MaxUnits : Import(s, p, n)
                 \/ Close(s, p) \/ Delete(s, p) \/ SetDefault(s, p)
           \/ StopSelling(s)
    PROVE  CarefulInv'
<1>1. ASSUME NEW n, Begin(s, n), Careful(n), n.order = NoOrder \/ Lines(n.order)
      PROVE  CarefulInv'
  BY <1>1, CarefulOn DEF Begin
<1> USE DEF Careful, Decided, Lands, Holds, OrderPath
<1>2. ASSUME NEW o \in OrderIds, NEW op \in OrderPath, NEW p, Verb(s, o, op, p)
      PROVE  CarefulInv'
  <2> DEFINE n == [NoTx EXCEPT !.op = op, !.next = "ask", !.order = o, !.to = p]
  <2>1. n.op = op /\ n.next = "ask" /\ n.held = {} /\ n.order = o
    BY DEF NoTx
  <2>2. Begin(s, n) /\ Lines(o)
    BY <1>2 DEF Verb
  <2> HIDE DEF n
  <2>3. Careful(n)
    BY <2>1
  <2> HIDE DEF Careful
  <2> QED
    BY <2>1, <2>2, <2>3, <1>1
<1>3. ASSUME NEW p \in Places, NEW q \in Places, NEW u \in 1..MaxUnits, Move(s, p, q, u)
      PROVE  CarefulInv'
  <2> DEFINE n == [NoTx EXCEPT !.op = "move", !.next = "first", !.from = p, !.to = q,
                               !.units = u, !.held = Prepared(q)]
  <2>1. /\ n.op = "move" /\ n.next = "first" /\ n.held = Prepared(q) /\ n.order = NoOrder
        /\ n.from = p /\ n.to = q
    BY DEF NoTx
  <2>2. Begin(s, n) /\ p # q
    BY <1>3 DEF Move
  <2> HIDE DEF n
  <2>3. Careful(n)
    BY <2>1, <2>2 DEF Arriving, Prepared, Inserted, RowLock, PlaceLock
  <2> HIDE DEF Careful
  <2> QED
    BY <2>1, <2>2, <2>3, <1>1
<1>4. ASSUME NEW p \in Places, NEW u, Adjust(s, p, u)
      PROVE  CarefulInv'
  <2> DEFINE n == [NoTx EXCEPT !.op = "adjust", !.next = "take", !.to = p,
                               !.units = u, !.held = Prepared(p)]
  <2>1. /\ n.op = "adjust" /\ n.next = "take" /\ n.held = Prepared(p) /\ n.order = NoOrder
        /\ n.to = p
    BY DEF NoTx
  <2>2. Begin(s, n)
    BY <1>4 DEF Adjust
  <2> HIDE DEF n
  <2>3. Careful(n)
    BY <2>1, <2>2 DEF Arriving, Prepared, Inserted
  <2> HIDE DEF Careful
  <2> QED
    BY <2>1, <2>2, <2>3, <1>1
<1>5. ASSUME NEW p \in Places, NEW u, Import(s, p, u)
      PROVE  CarefulInv'
  <2> DEFINE n == [NoTx EXCEPT !.op = "import", !.next = "ask", !.to = p,
                               !.units = u, !.found = place[p] = "open"]
  <2>1. n.op = "import" /\ n.next = "ask" /\ n.held = {} /\ n.order = NoOrder
    BY DEF NoTx
  <2>2. Begin(s, n)
    BY <1>5 DEF Import
  <2> HIDE DEF n
  <2>3. Careful(n)
    BY <2>1, <2>2
  <2> HIDE DEF Careful
  <2> QED
    BY <2>1, <2>2, <2>3, <1>1
<1>6. ASSUME NEW p \in Places, NEW op \in {"close", "delete"}, place[p] # "gone", Count(s, op, p)
      PROVE  CarefulInv'
  <2> DEFINE n == [NoTx EXCEPT !.op = op, !.next = "count", !.to = p,
                               !.held = {PlaceLock(p, "update")}]
  <2>1. /\ n.op = op /\ n.next = "count" /\ n.held = {PlaceLock(p, "update")}
        /\ n.order = NoOrder /\ n.to = p
    BY DEF NoTx
  <2>2. Begin(s, n)
    BY <1>6 DEF Count
  <2> HIDE DEF n
  <2>3. Careful(n)
    BY <1>6, <2>1
  <2> HIDE DEF Careful
  <2> QED
    BY <2>1, <2>2, <2>3, <1>1
<1>7. ASSUME NEW p \in Places, SetDefault(s, p)
      PROVE  CarefulInv'
  <2> DEFINE n == [NoTx EXCEPT !.op = "default", !.next = "stand down", !.to = p]
  <2>1. n.op = "default" /\ n.next = "stand down" /\ n.held = {} /\ n.order = NoOrder
    BY DEF NoTx
  <2>2. Begin(s, n)
    BY <1>7 DEF SetDefault
  <2> HIDE DEF n
  <2>3. Careful(n)
    BY <2>1
  <2> HIDE DEF Careful
  <2> QED
    BY <2>1, <2>2, <2>3, <1>1
<1>8. ASSUME StopSelling(s)
      PROVE  CarefulInv'
  <2> DEFINE n == [NoTx EXCEPT !.op = "stop selling", !.next = "write"]
  <2>1. n.op = "stop selling" /\ n.next = "write" /\ n.held = {} /\ n.order = NoOrder
    BY DEF NoTx
  <2>2. Begin(s, n)
    BY <1>8 DEF StopSelling
  <2> HIDE DEF n
  <2>3. Careful(n)
    BY <2>1
  <2> HIDE DEF Careful
  <2> QED
    BY <2>1, <2>2, <2>3, <1>1
<1> HIDE DEF Careful
<1>9. ASSUME NEW o \in OrderIds,
             \/ Confirm(s, o)
             \/ Cancel(s, o)
             \/ \E p \in Places : Place(s, o, p) \/ Return(s, o, p)
      PROVE  CarefulInv'
  BY <1>2, <1>9 DEF Confirm, Cancel, Place, Return
<1>10. ASSUME NEW p \in Places, Close(s, p) \/ Delete(s, p)
       PROVE  CarefulInv'
  BY <1>6, <1>10 DEF Close, Delete, Exists
<1> QED
  BY <1>3, <1>4, <1>5, <1>7, <1>8, <1>9, <1>10

-----------------------------------------------------------------------------
(* A transaction that has done a statement is careful.                     *)

LEMMA CarefulStatement ==
    ASSUME LocationsInv, CarefulInv, NEW s \in Sessions, NEW t,
           Statement(s, t), t.order = tx[s].order,
           [t EXCEPT !.held = @ \cup Wanted(s)].order = t.order,
           Careful([t EXCEPT !.held = @ \cup Wanted(s)])
    PROVE  CarefulInv'
<1> DEFINE n == [t EXCEPT !.held = @ \cup Wanted(s)]
<1>1. tx' = [tx EXCEPT ![s] = n] /\ UNCHANGED <<place, default, shelf>>
  BY DEF Statement
<1>2. n.order = tx[s].order /\ Careful(n)
  OBVIOUS
<1> HIDE DEF n
<1> QED
  BY <1>1, <1>2, CarefulOn

LEMMA AskIsCareful ==
    ASSUME LocationsInv, CarefulInv, NEW s \in Sessions, Ask(s)
    PROVE  CarefulInv'
<1> DEFINE t == [tx[s] EXCEPT !.next = "take", !.sees = Snapshot(tx[s].op)]
           n == [t EXCEPT !.held = @ \cup Wanted(s)]
<1>1. /\ tx[s].next = "ask" /\ Statement(s, t) /\ tx[s] \in Transactions
      /\ tx[s].op \in OrderPath \cup {"import"} /\ Holds(tx[s])
  BY Whose DEF Ask, CarefulInv, Careful
<1>2. t.order = tx[s].order /\ n.order = t.order
  BY <1>1 DEF Transactions
<1>3. /\ n.op = tx[s].op /\ n.next = "take" /\ n.to = tx[s].to
      /\ n.held = tx[s].held \cup Wanted(s)
  BY <1>1 DEF Transactions
<1>4. /\ tx[s].held = {}
      /\ Wanted(s) \subseteq Inserted(tx[s].to)
      /\ tx[s].op # "reserve" => Wanted(s) = Inserted(tx[s].to)
  BY <1>1, WantedWhere DEF Holds
<1> HIDE DEF n
<1>5. Decided(n) /\ Lands(n) /\ Holds(n)
  BY <1>1, <1>3, <1>4 DEF Decided, Lands, Holds, OrderPath, Inserted
<1>6. Careful(n)
  BY <1>5 DEF Careful
<1> USE DEF n
<1> HIDE DEF t
<1> QED
  BY <1>1, <1>2, <1>6, CarefulStatement

LEMMA TakeIsCareful ==
    ASSUME LocationsInv, CarefulInv, NEW s \in Sessions, Take(s)
    PROVE  CarefulInv'
<1> DEFINE r == Mine(tx[s], tx[s].to)
           u == IF Counted(tx[s]) /\ r.row THEN 1 ELSE 0
           t == [tx[s] EXCEPT !.next = "write", !.units = u]
           n == [t EXCEPT !.held = @ \cup Wanted(s)]
<1>1. /\ tx[s].next = "take" /\ tx[s].op \in OrderPath /\ Permits(tx[s], r, u)
      /\ Statement(s, t)
  BY DEF Take
<1>2. /\ tx[s] \in Transactions /\ Sound(tx[s]) /\ tx[s].to \in Places
      /\ Lands(tx[s]) /\ Holds(tx[s])
  BY <1>1, Whose DEF Sound, HoldsRows, CarefulInv, Careful
<1>3. /\ r.on_hand = shelf[tx[s].to].on_hand /\ r.reserved = shelf[tx[s].to].reserved
      /\ r.row <=> shelf[tx[s].to].row \/ RowLock(tx[s].to) \in tx[s].held
  BY <1>2, MineIs
<1>4. shelf[tx[s].to].on_hand \in Int /\ shelf[tx[s].to].reserved \in Int
  BY <1>2 DEF LocationsInv, TypeOK, Shelf
<1>5. Wanted(s) = Found(tx[s].to)
  BY <1>1, <1>2, WantedWhere
<1>6. tx[s].op = "reserve" /\ u = 1 =>
         tx[s].sees.continue \/ shelf[tx[s].to].reserved < shelf[tx[s].to].on_hand
  <2> SUFFICES ASSUME tx[s].op = "reserve", u = 1
               PROVE  tx[s].sees.continue \/ r.on_hand - r.reserved >= 1
    BY <1>3, <1>4
  <2> QED
    BY <1>1 DEF Permits, Covers, Available, Counted
<1>7. tx[s].op = "restock" /\ tx[s].sees.track => u = 1 \/ place[tx[s].to] = "gone"
  BY <1>1, <1>2, <1>3 DEF Lands, Counted
<1> HIDE DEF r, u
<1>8. t.order = tx[s].order /\ n.order = t.order
  BY <1>2 DEF Transactions
<1>9. /\ n.op = tx[s].op /\ n.next = "write" /\ n.to = tx[s].to /\ n.units = u
      /\ n.sees = tx[s].sees /\ n.held = tx[s].held \cup Wanted(s)
  BY <1>2 DEF Transactions
<1> HIDE DEF n
<1>10. Decided(n) /\ Lands(n)
  BY <1>1, <1>6, <1>7, <1>9 DEF Decided, Lands, OrderPath
<1>11. Holds(n)
  <2>1. n.held \subseteq {RowLock(n.to), PlaceLock(n.to, "key share")}
    BY <1>1, <1>2, <1>5, <1>9 DEF Holds, Found
  <2> QED
    BY <1>1, <1>9, <2>1 DEF Holds, OrderPath
<1>12. Careful(n)
  BY <1>10, <1>11 DEF Careful
<1> USE DEF n
<1> HIDE DEF t
<1> QED
  BY <1>1, <1>8, <1>12, CarefulStatement

LEMMA TakeImportIsCareful ==
    ASSUME LocationsInv, CarefulInv, NEW s \in Sessions, TakeImport(s)
    PROVE  CarefulInv'
<1> DEFINE r == Mine(tx[s], tx[s].to)
           u == IF variant.continue \/ tx[s].units >= r.reserved
                THEN tx[s].units ELSE r.reserved
           t == [tx[s] EXCEPT !.next = "write", !.sees.continue = variant.continue, !.units = u]
           n == [t EXCEPT !.held = @ \cup Wanted(s)]
<1>1. tx[s].next = "take" /\ tx[s].op = "import"
  BY DEF TakeImport
<1>2. /\ tx[s] \in Transactions /\ Sound(tx[s]) /\ tx[s].to \in Places
      /\ Holds(tx[s])
  BY <1>1, Whose DEF Sound, HoldsRows, CarefulInv, Careful
<1>3. Statement(s, t)
  BY <1>2 DEF TakeImport, Transactions
<1>4. r.reserved = shelf[tx[s].to].reserved
  BY <1>2, MineIs
<1>5. shelf[tx[s].to].reserved \in Int /\ tx[s].units \in Int
  <2>1. shelf[tx[s].to].reserved \in Nat
    BY <1>2 DEF LocationsInv, TypeOK, Shelf
  <2>2. tx[s].units \in Int
    BY <1>2 DEF Transactions
  <2> HIDE DEF r
  <2> QED
    BY <2>1, <2>2
<1>6. variant.continue \/ shelf[tx[s].to].reserved <= u
  BY <1>4, <1>5
<1>7. Wanted(s) = Found(tx[s].to)
  BY <1>1, <1>2, WantedWhere
<1> HIDE DEF r, u
<1>8. t.order = tx[s].order /\ n.order = t.order
  BY <1>2 DEF Transactions
<1>9. /\ n.op = "import" /\ n.next = "write" /\ n.to = tx[s].to /\ n.units = u
      /\ n.sees.continue = variant.continue /\ n.held = tx[s].held \cup Wanted(s)
  BY <1>1, <1>2 DEF Transactions, Flags
<1> HIDE DEF n
<1>10. Decided(n) /\ Lands(n)
  BY <1>6, <1>9 DEF Decided, Lands, OrderPath
<1>11. Holds(n)
  <2>1. n.held \subseteq {RowLock(n.to), PlaceLock(n.to, "key share")}
    BY <1>1, <1>2, <1>7, <1>9 DEF Holds, Found
  <2> QED
    BY <1>1, <1>9, <2>1 DEF Holds, OrderPath
<1>12. Careful(n)
  BY <1>10, <1>11 DEF Careful
<1> USE DEF n
<1> HIDE DEF t
<1> QED
  BY <1>3, <1>8, <1>12, CarefulStatement

LEMMA LockRowsIsCareful ==
    ASSUME LocationsInv, CarefulInv, NEW s \in Sessions, LockFirst(s) \/ LockSecond(s)
    PROVE  CarefulInv'
<1>1. PICK next \in {"second", "out"}, found \in BOOLEAN :
         Statement(s, [tx[s] EXCEPT !.next = next, !.found = found])
  <2>1. CASE LockFirst(s)
    <3>1. tx[s].from \in Places
      BY <2>1, Whose DEF LockFirst
    <3>2. shelf[tx[s].from].row \in BOOLEAN
      BY <3>1 DEF LocationsInv, TypeOK, Shelf
    <3> QED
      BY <2>1, <3>2 DEF LockFirst
  <2>2. CASE LockSecond(s)
    <3>1. tx[s] \in Transactions
      BY Whose
    <3>2. /\ tx[s].found \in BOOLEAN
          /\ [tx[s] EXCEPT !.next = "out"] = [tx[s] EXCEPT !.next = "out", !.found = tx[s].found]
      BY <3>1 DEF Transactions
    <3> QED
      BY <2>2, <3>2 DEF LockSecond
  <2> QED
    BY <2>1, <2>2
<1> DEFINE t == [tx[s] EXCEPT !.next = next, !.found = found]
           n == [t EXCEPT !.held = @ \cup Wanted(s)]
<1>2. /\ tx[s] \in Transactions /\ tx[s].op = "move" /\ tx[s].next \in {"first", "second"}
      /\ Holds(tx[s])
  BY Whose DEF LockFirst, LockSecond, CarefulInv, Careful
<1>3. Wanted(s) \subseteq {RowLock(tx[s].from), RowLock(tx[s].to)}
  BY <1>2, WantedWhere DEF InOrder, Found
<1>4. t.order = tx[s].order /\ n.order = t.order
  BY <1>2 DEF Transactions
<1>5. /\ n.op = "move" /\ n.next = next /\ n.to = tx[s].to /\ n.from = tx[s].from
      /\ n.held = tx[s].held \cup Wanted(s)
  BY <1>2 DEF Transactions
<1> HIDE DEF n
<1>6. Decided(n) /\ Lands(n)
  BY <1>5 DEF Decided, Lands, OrderPath
<1>7. Holds(n)
  BY <1>2, <1>3, <1>5 DEF Holds, OrderPath, Arriving
<1>8. Careful(n)
  BY <1>6, <1>7 DEF Careful
<1> USE DEF n
<1> HIDE DEF t
<1>9. Statement(s, t)
  BY <1>1 DEF t
<1> QED
  BY <1>4, <1>8, <1>9, CarefulStatement

LEMMA TakeOutIsCareful ==
    ASSUME LocationsInv, CarefulInv, NEW s \in Sessions, TakeOut(s)
    PROVE  CarefulInv'
<1> DEFINE t == [tx[s] EXCEPT !.next = "write"]
           n == [t EXCEPT !.held = @ \cup Wanted(s)]
<1>1. /\ tx[s].next = "out" /\ Statement(s, t)
      /\ shelf[tx[s].from].on_hand - tx[s].units >= shelf[tx[s].from].reserved
  BY DEF TakeOut
<1>2. /\ tx[s] \in Transactions /\ tx[s].op = "move" /\ tx[s].from \in Places
      /\ Holds(tx[s])
  BY <1>1, Whose DEF CarefulInv, Careful
<1>3. Wanted(s) \subseteq {RowLock(tx[s].from)}
  BY <1>1, WantedWhere DEF Found
<1>4. /\ shelf[tx[s].from].on_hand \in Int /\ shelf[tx[s].from].reserved \in Int
      /\ tx[s].units \in Int
  <2>1. shelf[tx[s].from].on_hand \in Int /\ shelf[tx[s].from].reserved \in Nat
    BY <1>2 DEF LocationsInv, TypeOK, Shelf
  <2>2. tx[s].units \in Int
    BY <1>2 DEF Transactions
  <2> QED
    BY <2>1, <2>2
<1>5. t.order = tx[s].order /\ n.order = t.order
  BY <1>2 DEF Transactions
<1>6. /\ n.op = "move" /\ n.next = "write" /\ n.to = tx[s].to /\ n.from = tx[s].from
      /\ n.units = tx[s].units /\ n.held = tx[s].held \cup Wanted(s)
  BY <1>2 DEF Transactions
<1> HIDE DEF n
<1>7. Decided(n) /\ Lands(n)
  BY <1>1, <1>4, <1>6 DEF Decided, Lands, OrderPath
<1>8. Holds(n)
  BY <1>2, <1>3, <1>6 DEF Holds, OrderPath, Arriving
<1>9. Careful(n)
  BY <1>7, <1>8 DEF Careful
<1> USE DEF n
<1> HIDE DEF t
<1> QED
  BY <1>1, <1>5, <1>9, CarefulStatement

LEMMA CountingIsCareful ==
    ASSUME LocationsInv, CarefulInv, NEW s \in Sessions, Counting(s)
    PROVE  CarefulInv'
<1> DEFINE t == [tx[s] EXCEPT !.next = "write"]
           n == [t EXCEPT !.held = @ \cup Wanted(s)]
<1>1. tx[s].op = "delete" /\ tx[s].next = "count" /\ Statement(s, t)
  BY DEF Counting
<1>2. tx[s] \in Transactions /\ Holds(tx[s]) /\ Wanted(s) = {}
  BY <1>1, Whose, WantedWhere DEF CarefulInv, Careful
<1>3. t.order = tx[s].order /\ n.order = t.order
  BY <1>2 DEF Transactions
<1>4. n.op = "delete" /\ n.to = tx[s].to /\ n.held = tx[s].held
  BY <1>1, <1>2 DEF Transactions
<1> HIDE DEF n
<1>5. Decided(n) /\ Lands(n) /\ Holds(n)
  BY <1>1, <1>2, <1>4 DEF Decided, Lands, Holds, OrderPath
<1>6. Careful(n)
  BY <1>5 DEF Careful
<1> USE DEF n
<1> HIDE DEF t
<1> QED
  BY <1>1, <1>3, <1>6, CarefulStatement

LEMMA StandDownIsCareful ==
    ASSUME LocationsInv, CarefulInv, NEW s \in Sessions, StandDown(s)
    PROVE  CarefulInv'
<1> DEFINE t == [tx[s] EXCEPT !.next = "write", !.from = default]
           n == [t EXCEPT !.held = @ \cup Wanted(s)]
<1>1. tx[s].next = "stand down" /\ Statement(s, t)
  BY DEF StandDown
<1>2. tx[s] \in Transactions /\ Holds(tx[s]) /\ tx[s].op = "default"
  BY <1>1, Whose DEF CarefulInv, Careful
<1>3. Wanted(s) = IF default # NoPlace THEN {PlaceLock(default, "no key update")} ELSE {}
  BY <1>1, WantedWhere
<1>4. t.order = tx[s].order /\ n.order = t.order
  BY <1>2 DEF Transactions
<1>5. /\ n.op = "default" /\ n.next = "write" /\ n.from = default
      /\ n.held = tx[s].held \cup Wanted(s)
  BY <1>1, <1>2 DEF Transactions
<1> HIDE DEF n
<1>6. Decided(n) /\ Lands(n)
  BY <1>5 DEF Decided, Lands, OrderPath
<1>7. Holds(n)
  BY <1>1, <1>2, <1>3, <1>5 DEF Holds, OrderPath
<1>8. Careful(n)
  BY <1>6, <1>7 DEF Careful
<1> USE DEF n
<1> HIDE DEF t
<1> QED
  BY <1>1, <1>4, <1>8, CarefulStatement

-----------------------------------------------------------------------------
(* A transaction that writes leaves the others as they were.               *)

LEMMA RowsUntouched ==
    ASSUME LocationsInv, NEW s \in Sessions, Commit(s), UNCHANGED <<place, default>>,
           \A p \in Places : /\ shelf'[p] = shelf[p] \/ RowLock(p) \in Reach(s)
                             /\ shelf[p].row => shelf'[p].row,
           NEW b \in Sessions \ {s}
    PROVE  Untouched(b)
<1>1. Free(s) /\ LocksExclude /\ tx'[b] = tx[b]
  BY DEF Commit, LocationsInv, TypeOK
<1>2. ASSUME NEW p \in Places, RowLock(p) \in tx[b].held
      PROVE  shelf'[p] = shelf[p]
  <2>1. RowLock(p) \notin Reach(s)
    BY <1>1, <1>2, RowsClash, Alone
  <2> QED
    BY <2>1
<1> QED
  BY <1>1, <1>2 DEF Untouched, SameSums

LEMMA WriteUntouched ==
    ASSUME LocationsInv, NEW s \in Sessions, Write(s), NEW b \in Sessions \ {s}
    PROVE  Untouched(b)
<1> DEFINE m == Mine(tx[s], tx[s].to)
           r == After(tx[s].op, m, tx[s].units)
<1>1. /\ tx[s].next = "write" /\ tx[s].op \in OrderPath /\ Commit(s)
      /\ shelf' = [shelf EXCEPT ![tx[s].to] = r] /\ UNCHANGED <<place, default>>
  BY DEF Write
<1>2. /\ tx[s].to \in Places /\ tx[s].units \in {0, 1}
      /\ tx[s].units = 1 => RowLock(tx[s].to) \in tx[s].held
      /\ tx[s].op = "commit" => shelf[tx[s].to].reserved >= tx[s].units
  BY <1>1, Whose DEF Sound, HoldsRows
<1>3. /\ m \in Shelf /\ m.reserved = shelf[tx[s].to].reserved
      /\ m.row <=> shelf[tx[s].to].row \/ RowLock(tx[s].to) \in tx[s].held
      /\ RowLock(tx[s].to) \notin tx[s].held => m = shelf[tx[s].to]
  BY <1>2, MineIs DEF Mine
<1> HIDE DEF m
<1>4. r.row = m.row /\ (tx[s].units = 0 => r = m)
  BY <1>1, <1>2, <1>3, AfterIs
<1> HIDE DEF r
<1>5. ASSUME NEW p \in Places
      PROVE  /\ shelf'[p] = shelf[p] \/ RowLock(p) \in Reach(s)
             /\ shelf[p].row => shelf'[p].row
  BY <1>1, <1>2, <1>3, <1>4 DEF Reach, LocationsInv, TypeOK
<1> QED
  BY <1>1, <1>5, RowsUntouched

LEMMA WriteAdjustUntouched ==
    ASSUME LocationsInv, NEW s \in Sessions, WriteAdjust(s), NEW b \in Sessions \ {s}
    PROVE  Untouched(b)
<1> DEFINE m == Mine(tx[s], tx[s].to)
           r == [m EXCEPT !.on_hand = @ + tx[s].units]
<1>1. /\ tx[s].op = "adjust" /\ Commit(s)
      /\ shelf' = [shelf EXCEPT ![tx[s].to] = r] /\ UNCHANGED <<place, default>>
  BY DEF WriteAdjust
<1>2. /\ tx[s].to \in Places /\ tx[s].next = "take"
      /\ shelf[tx[s].to].row \/ RowLock(tx[s].to) \in tx[s].held
  BY <1>1, Whose DEF Sound, HoldsPlace, Stages
<1>3. m \in Shelf /\ m.row
  BY <1>2, MineIs
<1> HIDE DEF m
<1>4. r.row
  BY <1>3 DEF Shelf
<1>5. RowLock(tx[s].to) \in Reach(s)
  BY <1>2, WantedWhere, LocksOfRows DEF Reach
<1> HIDE DEF r
<1>6. ASSUME NEW p \in Places
      PROVE  /\ shelf'[p] = shelf[p] \/ RowLock(p) \in Reach(s)
             /\ shelf[p].row => shelf'[p].row
  BY <1>1, <1>4, <1>5 DEF LocationsInv, TypeOK
<1> QED
  BY <1>1, <1>6, RowsUntouched

LEMMA WriteImportUntouched ==
    ASSUME LocationsInv, NEW s \in Sessions, WriteImport(s), NEW b \in Sessions \ {s}
    PROVE  Untouched(b)
<1> DEFINE m == Mine(tx[s], tx[s].to)
           r == [m EXCEPT !.on_hand = tx[s].units]
<1>1. /\ tx[s].op = "import" /\ tx[s].next = "write" /\ Commit(s)
      /\ shelf' = [shelf EXCEPT ![tx[s].to] = r] /\ UNCHANGED <<place, default>>
  BY DEF WriteImport
<1>2. tx[s].to \in Places /\ RowLock(tx[s].to) \in tx[s].held
  BY <1>1, Whose DEF Sound, HoldsRows
<1>3. m \in Shelf /\ m.row
  BY <1>2, MineIs
<1> HIDE DEF m
<1>4. r.row
  BY <1>3 DEF Shelf
<1> HIDE DEF r
<1>5. ASSUME NEW p \in Places
      PROVE  /\ shelf'[p] = shelf[p] \/ RowLock(p) \in Reach(s)
             /\ shelf[p].row => shelf'[p].row
  BY <1>1, <1>2, <1>4 DEF Reach, LocationsInv, TypeOK
<1> QED
  BY <1>1, <1>5, RowsUntouched

LEMMA WriteMoveUntouched ==
    ASSUME LocationsInv, NEW s \in Sessions, WriteMove(s), NEW b \in Sessions \ {s}
    PROVE  Untouched(b)
<1> DEFINE m == Mine(tx[s], tx[s].to)
           out == [shelf[tx[s].from] EXCEPT !.on_hand = @ - tx[s].units]
           in == [m EXCEPT !.on_hand = @ + tx[s].units]
<1>1. /\ tx[s].op = "move" /\ tx[s].next = "write" /\ Commit(s)
      /\ shelf' = [shelf EXCEPT ![tx[s].from] = out, ![tx[s].to] = in]
      /\ UNCHANGED <<place, default>>
  BY DEF WriteMove
<1>2. /\ tx[s].from \in Places /\ tx[s].to \in Places
      /\ RowLock(tx[s].from) \in tx[s].held /\ RowLock(tx[s].to) \in tx[s].held
  BY <1>1, Whose DEF Sound, HoldsPlace, HoldsRows
<1>3. m \in Shelf /\ m.row /\ shelf[tx[s].from] \in Shelf
  BY <1>2, MineIs DEF LocationsInv, TypeOK
<1> HIDE DEF m
<1>4. in.row /\ out.row = shelf[tx[s].from].row
  BY <1>3 DEF Shelf
<1> HIDE DEF in, out
<1>5. ASSUME NEW p \in Places
      PROVE  /\ shelf'[p] = shelf[p] \/ RowLock(p) \in Reach(s)
             /\ shelf[p].row => shelf'[p].row
  BY <1>1, <1>2, <1>4 DEF Reach, LocationsInv, TypeOK
<1> QED
  BY <1>1, <1>5, RowsUntouched

LEMMA WriteCloseUntouched ==
    ASSUME LocationsInv, NEW s \in Sessions, Lands(tx[s]), WriteClose(s),
           NEW b \in Sessions \ {s}
    PROVE  Untouched(b)
<1>1. /\ tx[s].op = "close" /\ Commit(s) /\ place' = [place EXCEPT ![tx[s].to] = "closed"]
      /\ UNCHANGED <<default, shelf>>
  BY DEF WriteClose
<1>2. place[tx[s].to] # "gone"
  BY <1>1 DEF Lands
<1> QED
  BY <1>1, <1>2 DEF Untouched, SameSums, Commit, LocationsInv, TypeOK

LEMMA WriteDeleteUntouched ==
    ASSUME LocationsInv, NEW s \in Sessions, WriteDelete(s), NEW b \in Sessions \ {s}
    PROVE  Untouched(b)
<1> DEFINE p == tx[s].to
<1>1. /\ tx[s].op = "delete" /\ tx[s].next = "write" /\ Commit(s)
      /\ place' = [place EXCEPT ![p] = "gone"] /\ shelf' = [shelf EXCEPT ![p] = NoShelf]
      /\ default' = (IF default = p THEN NoPlace ELSE default)
  BY DEF WriteDelete
<1>2. p \in Places /\ PlaceLock(p, "update") \in Reach(s) /\ default # p
  BY <1>1, Whose DEF Sound, HoldsPlace, Reach
<1>3. tx'[b] = tx[b] /\ default' = default /\ Free(s) /\ LocksExclude
  BY <1>1, <1>2 DEF Commit, LocationsInv, TypeOK
<1>4. PlaceLock(p, "update") \notin tx[b].held
  BY <1>2, <1>3, UpdateClashes, Alone
<1>5. RowLock(p) \in tx[b].held => shelf[p] = NoShelf
  <2>1. CASE shelf[p].row
    <3>1. Wanted(s) = Found(p)
      BY <1>1, WantedToWrite
    <3>2. RowLock(p) \in Reach(s)
      BY <1>2, <2>1, <3>1, LocksOfRows DEF Reach
    <3> QED
      BY <1>3, <3>2, RowsClash, Alone
  <2>2. CASE ~shelf[p].row
    BY <1>2, <2>2 DEF LocationsInv, RowsStand
  <2> QED
    BY <2>1, <2>2
<1> HIDE DEF p
<1>6. ASSUME NEW q \in Places
      PROVE  /\ RowLock(q) \in tx[b].held => shelf'[q] = shelf[q]
             /\ shelf[q].row => shelf'[q].row \/ place'[q] = "gone"
             /\ place[q] = "gone" => place'[q] = "gone"
             /\ PlaceLock(q, "update") \in tx[b].held => place'[q] = place[q]
  BY <1>1, <1>2, <1>4, <1>5 DEF LocationsInv, TypeOK
<1> QED
  BY <1>3, <1>6 DEF Untouched, SameSums

LEMMA WriteDefaultUntouched ==
    ASSUME LocationsInv, CarefulInv, NEW s \in Sessions, WriteDefault(s),
           NEW b \in Sessions \ {s}
    PROVE  Untouched(b)
<1>1. /\ tx[s].op = "default" /\ tx[s].next = "write" /\ Commit(s) /\ default = tx[s].from
      /\ UNCHANGED <<place, shelf>>
  BY DEF WriteDefault
<1>2. tx'[b] = tx[b] /\ LocksExclude
  BY <1>1 DEF Commit, LocationsInv, TypeOK
<1>3. ASSUME NEW p \in Places, default = p
      PROVE  PlaceLock(p, "no key update") \notin tx[b].held
  <2>1. PlaceLock(p, "no key update") \in tx[s].held
    BY <1>1, <1>3, LocationsAssumption DEF CarefulInv, Careful, Holds
  <2> QED
    BY <1>2, <2>1 DEF LocksExclude, Clash, Exclude, PlaceLock
<1> QED
  BY <1>1, <1>2, <1>3 DEF Untouched, SameSums

(* What changes with no transaction.                                       *)
LEMMA CarefulDesk ==
    ASSUME LocationsInv, CarefulInv, UNCHANGED <<default, shelf, tx>>,
           \A p \in Places : place[p] = "gone" <=> place'[p] = "gone"
    PROVE  CarefulInv'
<1>1. \A b \in Sessions : Untouched(b)
  BY DEF Untouched, SameSums
<1>2. \A b \in Sessions : Careful(tx[b])'
  BY <1>1, StaysCareful DEF CarefulInv
<1>3. OrdersApart'
  BY DEF CarefulInv, OrdersApart
<1> QED
  BY <1>2, <1>3 DEF CarefulInv

LEMMA CarefulInit ==
    ASSUME LocationsInit
    PROVE  CarefulInv
<1>1. \A s \in Sessions : tx[s] = NoTx
  BY DEF LocationsInit
<1> QED
  BY <1>1, NoTxIsCareful DEF CarefulInv, OrdersApart

LEMMA CarefulNext ==
    ASSUME LocationsInv, CarefulInv, LocationsNext
    PROVE  CarefulInv'
<1>1. ASSUME NEW s \in Sessions,
             \/ Ask(s) \/ Take(s) \/ TakeImport(s)
             \/ LockFirst(s) \/ LockSecond(s) \/ TakeOut(s) \/ Counting(s) \/ StandDown(s)
      PROVE  CarefulInv'
  BY <1>1, AskIsCareful, TakeIsCareful, TakeImportIsCareful, LockRowsIsCareful,
     TakeOutIsCareful, CountingIsCareful, StandDownIsCareful
<1>2. ASSUME NEW s \in Sessions, RollBack(s)
      PROVE  CarefulInv'
  BY <1>2, NoTxIsCareful, CarefulOn DEF RollBack
<1>3. ASSUME NEW s \in Sessions,
             \/ Write(s) \/ WriteMove(s) \/ WriteAdjust(s) \/ WriteImport(s)
             \/ WriteClose(s) \/ WriteDelete(s) \/ WriteDefault(s) \/ WriteStop(s)
      PROVE  CarefulInv'
  <2>1. Commit(s)
    BY <1>3 DEF Write, WriteMove, WriteAdjust, WriteImport, WriteClose, WriteDelete,
       WriteDefault, WriteStop
  <2>2. ASSUME NEW b \in Sessions \ {s}
        PROVE  Untouched(b)
    <3>1. CASE \/ Write(s) \/ WriteMove(s) \/ WriteAdjust(s) \/ WriteImport(s)
      BY <3>1, WriteUntouched, WriteMoveUntouched, WriteAdjustUntouched, WriteImportUntouched
    <3>2. CASE WriteClose(s) \/ WriteDelete(s) \/ WriteDefault(s)
      <4>1. Lands(tx[s])
        BY DEF CarefulInv, Careful
      <4> QED
        BY <3>2, <4>1, WriteCloseUntouched, WriteDeleteUntouched, WriteDefaultUntouched
    <3>3. CASE WriteStop(s)
      BY <2>1, <3>3, RowsUntouched DEF WriteStop
    <3> QED
      BY <1>3, <3>1, <3>2, <3>3
  <2> QED
    BY <2>1, <2>2, CarefulCommit
<1>4. ASSUME \/ \E p \in Places, a \in {"open", "closed"} : Create(p, a)
             \/ \E p \in Places : Reopen(p)
             \/ \E on \in BOOLEAN : Track(on)
             \/ SellPastZero
      PROVE  CarefulInv'
  BY <1>4, CarefulDesk DEF Create, Reopen, Track, SellPastZero, LocationsInv, TypeOK
<1> QED
  BY <1>1, <1>2, <1>3, <1>4, BegunIsCareful DEF LocationsNext

LEMMA CarefulAlways == LocationsSpec => []CarefulInv
<1>1. LocationsInit => CarefulInv
  BY CarefulInit
<1>2. LocationsInv /\ CarefulInv /\ [LocationsNext]_locVars => CarefulInv'
  <2>1. ASSUME LocationsInv, CarefulInv, UNCHANGED locVars
        PROVE  CarefulInv'
    BY <2>1, CarefulDesk DEF locVars
  <2> QED
    BY <2>1, CarefulNext
<1> QED
  BY <1>1, <1>2, LocationsInvariant, PTL DEF LocationsSpec

-----------------------------------------------------------------------------
(* Who can wait for whom.                                                  *)

(* Where a transaction that wants a lock stands.                           *)
LEMMA WhoWants ==
    ASSUME LocationsInv, NEW a \in Sessions, Wanted(a) # {}
    PROVE  \/ tx[a].op = "default"
           \/ tx[a].next \in {"ask", "take", "first", "second", "out"}
           \/ tx[a].op \in OrderPath \cup {"import", "move", "delete"} /\ tx[a].next = "write"
<1>1. tx[a] \in Transactions /\ Sound(tx[a])
  BY Whose
<1>2. tx[a].next \notin {"none", "count"}
  BY DEF Wanted
<1>3. tx[a].next = "stand down" => tx[a].op = "default"
  BY Whose
<1>4. ASSUME tx[a].next = "write"
      PROVE  tx[a].op \in OrderPath \cup {"import", "move", "delete", "default"}
  <2>1. tx[a].op \in OrderPath \cup Desk \cup {"none"}
    BY <1>1 DEF Transactions
  <2>2. tx[a].op \notin {"none", "adjust", "close"}
    BY <1>1, <1>4 DEF Sound, Stages, NoTx
  <2>3. tx[a].op # "stop selling"
    BY <1>4, WantedToWrite
  <2> QED
    BY <2>1, <2>2, <2>3 DEF Desk
<1> QED
  BY <1>1, <1>2, <1>3, <1>4 DEF Transactions

LEMMA LockParts ==
    \A p : /\ RowLock(p).table = "variant_stock" /\ RowLock(p).at = p
           /\ LET l == PlaceLock(p, "key share")
              IN  l.table = "locations" /\ l.at = p /\ l.mode = "key share"
           /\ LET l == PlaceLock(p, "share")
              IN  l.table = "locations" /\ l.at = p /\ l.mode = "share"
           /\ LET l == PlaceLock(p, "no key update")
              IN  l.table = "locations" /\ l.at = p /\ l.mode = "no key update"
           /\ LET l == PlaceLock(p, "update")
              IN  l.table = "locations" /\ l.at = p /\ l.mode = "update"
  BY DEF RowLock, PlaceLock

(* The locks that a transaction holds, whatever it is.                     *)
MayHold(t, h) ==
    \/ h \in {RowLock(t.to), RowLock(t.from), PlaceLock(t.to, "share"), PlaceLock(t.to, "key share")}
    \/ t.op \in {"close", "delete"} /\ h = PlaceLock(t.to, "update") /\ t.held = {h}
    \/ t.op = "default" /\ h = PlaceLock(t.from, "no key update")

LEMMA HeldIs ==
    ASSUME LocationsInv, CarefulInv, NEW b \in Sessions, NEW h \in tx[b].held
    PROVE  MayHold(tx[b], h)
<1> USE DEF MayHold
<1>1. tx[b] \in Transactions /\ Holds(tx[b])
  BY Whose DEF CarefulInv, Careful
<1>2. tx[b].op # "none"
  <2>1. tx[b].op = "none" => tx[b] = NoTx
    BY Whose DEF Sound, Stages
  <2> QED
    BY <2>1, NoTxIsSound
<1>3. tx[b].op # "stop selling"
  BY <1>1 DEF Holds
<1>4. CASE tx[b].op \in OrderPath \cup {"import"}
  BY <1>1, <1>4 DEF Holds
<1>5. CASE tx[b].op \in {"adjust", "move"}
  BY <1>1, <1>5 DEF Holds, Arriving
<1>6. CASE tx[b].op \in {"close", "delete"}
  BY <1>1, <1>6 DEF Holds
<1>7. CASE tx[b].op = "default"
  BY <1>1, <1>7 DEF Holds
<1>8. tx[b].op \in OrderPath \cup Desk \cup {"none"}
  BY <1>1 DEF Transactions
<1> QED
  BY <1>2, <1>3, <1>4, <1>5, <1>6, <1>7, <1>8 DEF Desk

(* What each of them waits for, in the locks of the other.                 *)
LEMMA WaitsForRow ==
    ASSUME NEW a \in Sessions, NEW b \in Sessions, WaitsFor(a, b), LocationsInv, CarefulInv,
           NEW p, Wanted(a) \subseteq {RowLock(p)}
    PROVE  RowLock(p) \in tx[b].held
<1>1. PICK h \in tx[b].held : Clash(RowLock(p), h)
  BY DEF WaitsFor, Stands
<1>2. h.table = "variant_stock" /\ h.at = p
  BY <1>1, LockParts DEF Clash
<1>3. h \in {RowLock(tx[b].to), RowLock(tx[b].from)}
  <2>1. MayHold(tx[b], h)
    BY HeldIs
  <2> QED
    BY <1>2, <2>1, LockParts DEF MayHold
<1> QED
  BY <1>2, <1>3 DEF RowLock, PlaceLock

LEMMA WaitsForPlace ==
    ASSUME NEW a \in Sessions, NEW b \in Sessions, WaitsFor(a, b), LocationsInv, CarefulInv,
           NEW P, Wanted(a) \subseteq {PlaceLock(p, "key share") : p \in P}
    PROVE  /\ tx[b].op \in {"close", "delete"} /\ tx[b].to \in P
           /\ tx[b].held = {PlaceLock(tx[b].to, "update")}
<1>1. PICK p \in P, h \in tx[b].held : Clash(PlaceLock(p, "key share"), h)
  BY DEF WaitsFor, Stands
<1>2. h.table = "locations" /\ h.at = p /\ h.mode = "update"
  BY <1>1, LockParts DEF Clash, Exclude
<1>3. /\ tx[b].op \in {"close", "delete"}
      /\ h = PlaceLock(tx[b].to, "update") /\ tx[b].held = {h}
  <2>1. MayHold(tx[b], h)
    BY HeldIs
  <2> QED
    BY <1>2, <2>1, LockParts DEF MayHold
<1> QED
  BY <1>2, <1>3 DEF RowLock, PlaceLock

(* Nobody waits for what a SetDefault holds but another, and only one can  *)
(* have had the default stand down.                                        *)
LEMMA DefaultsDoNotMeet ==
    ASSUME NEW a \in Sessions, NEW b \in Sessions, WaitsFor(a, b), WaitsFor(b, a),
           LocationsInv, CarefulInv
    PROVE  tx[a].op # "default"
<1> SUFFICES ASSUME tx[a].op = "default"
             PROVE  FALSE
  OBVIOUS
<1>1. PICK k \in Wanted(b), h \in tx[a].held : Clash(k, h)
  BY DEF WaitsFor, Stands
<1>2. /\ tx[a].next = "write" /\ tx[a].from # NoPlace /\ default = tx[a].from
      /\ tx[a].held = {PlaceLock(tx[a].from, "no key update")}
  BY <1>1 DEF CarefulInv, Careful, Holds
<1>3. k.table = "locations" /\ k.mode # "key share"
  <2>1. h = PlaceLock(tx[a].from, "no key update")
    BY <1>1, <1>2
  <2> QED
    BY <1>1, <2>1, LockParts DEF Clash, Exclude
<1>4. tx[b].op = "default"
  <2>1. tx[b].next = "stand down" => tx[b].op = "default"
    BY Whose
  <2>2. ASSUME NEW p
        PROVE  k # RowLock(p) /\ k # PlaceLock(p, "key share")
    <3>1. RowLock(p).table = "variant_stock" /\ PlaceLock(p, "key share").mode = "key share"
      BY LockParts
    <3> QED
      BY <1>3, <3>1
  <2>3. tx[b].next \notin {"ask", "take", "first", "second", "out", "count"}
    BY <2>2, WantedWhere DEF Inserted, Found
  <2>4. tx[b].next = "write" => tx[b].op \notin OrderPath \cup {"import", "move", "delete"}
    BY <2>2, WantedToWrite DEF Found, Recorded
  <2> QED
    BY <2>1, <2>3, <2>4, WhoWants
<1>5. tx[b].held # {} /\ a # b
  BY DEF WaitsFor, Stands
<1>6. tx[b].held = {PlaceLock(tx[b].from, "no key update")} /\ default = tx[b].from
  BY <1>4, <1>5 DEF CarefulInv, Careful, Holds
<1>7. \A k1 \in tx[a].held, k2 \in tx[b].held : ~Clash(k1, k2)
  BY <1>5 DEF LocationsInv, LocksExclude
<1>8. Clash(PlaceLock(default, "no key update"), PlaceLock(default, "no key update"))
  BY DEF PlaceLock, Clash, Exclude
<1> QED
  BY <1>2, <1>6, <1>7, <1>8

(* What is not inserted yet is not held, and what was is not waited for.   *)
LEMMA AskedIsFree ==
    ASSUME NEW a \in Sessions, NEW b \in Sessions, WaitsFor(b, a), LocationsInv, CarefulInv
    PROVE  tx[a].next # "ask"
<1>1. tx[a].held # {}
  BY DEF WaitsFor, Stands
<1>2. tx[a].next = "ask" => tx[a].op \in OrderPath \cup {"import"}
  BY Whose
<1> QED
  BY <1>1, <1>2 DEF CarefulInv, Careful, Holds

(* Rows, and places as what a foreign key points at.                       *)
Formed(k) == k.table = "variant_stock" \/ k.mode = "key share"

LEMMA ShareParts ==
    ASSUME NEW p, NEW h \in {PlaceLock(p, "share"), PlaceLock(p, "key share")}
    PROVE  h.table = "locations" /\ h.mode \in {"share", "key share"}
<1>1. CASE h = PlaceLock(p, "share")
  BY <1>1 DEF PlaceLock
<1>2. CASE h = PlaceLock(p, "key share")
  BY <1>2 DEF PlaceLock
<1> QED
  BY <1>1, <1>2

LEMMA WantedForms ==
    ASSUME LocationsInv, NEW b \in Sessions, tx[b].op # "default", NEW k \in Wanted(b)
    PROVE  Formed(k)
<1>1. ASSUME NEW p
      PROVE  Formed(RowLock(p)) /\ Formed(PlaceLock(p, "key share"))
  <2>1. RowLock(p).table = "variant_stock" /\ PlaceLock(p, "key share").mode = "key share"
    BY LockParts
  <2> QED
    BY <2>1 DEF Formed
<1>2. ASSUME NEW p, NEW l \in Found(p) \cup Inserted(p)
      PROVE  Formed(l)
  BY <1>1, <1>2 DEF Found, Inserted
<1>3. ASSUME NEW t, NEW l \in Recorded(t)
      PROVE  Formed(l)
  BY <1>1, <1>3 DEF Recorded
<1>4. CASE tx[b].next \in {"ask", "take", "first", "second", "out"}
  BY <1>2, <1>4, WantedWhere
<1>5. CASE tx[b].op \in OrderPath \cup {"import", "move", "delete"} /\ tx[b].next = "write"
  <2>1. \E p : k \in {PlaceLock(tx[b].from, "key share"), PlaceLock(tx[b].to, "key share")}
                     \cup Found(p) \cup Recorded(tx[b])
    BY <1>5, WantedToWrite
  <2> QED
    BY <1>1, <1>2, <1>3, <2>1
<1> QED
  BY <1>4, <1>5, WhoWants

(* Whoever waits for a row from its first statement holds its place at     *)
(* most, and nobody waits for that.                                        *)
LEMMA TakersDoNotMeet ==
    ASSUME NEW a \in Sessions, NEW b \in Sessions, WaitsFor(a, b), WaitsFor(b, a),
           LocationsInv, CarefulInv
    PROVE  tx[a].next # "take"
<1> SUFFICES ASSUME tx[a].next = "take"
             PROVE  FALSE
  OBVIOUS
<1>1. tx[a].op \in OrderPath \cup {"import", "adjust"} /\ Holds(tx[a])
  <2>1. tx[a] \in Transactions /\ Sound(tx[a]) /\ Holds(tx[a])
    BY Whose DEF CarefulInv, Careful
  <2>2. tx[a].op \in OrderPath \cup Desk \cup {"none"}
    BY <2>1 DEF Transactions
  <2>3. tx[a].op # "none"
    <3>1. tx[a].op = "none" => tx[a] = NoTx
      BY <2>1 DEF Sound, Stages
    <3>2. NoTx.next = "none"
      BY DEF NoTx
    <3> QED
      BY <3>1, <3>2
  <2>4. tx[a].op \notin {"close", "delete", "default", "stop selling"}
    BY <2>1 DEF Sound, Stages
  <2>5. tx[a].op # "move"
    BY <2>1 DEF Sound, HoldsRows
  <2> QED
    BY <2>1, <2>2, <2>3, <2>4, <2>5 DEF Desk
<1>2. RowLock(tx[a].to) \in tx[b].held
  BY WaitsForRow, WantedWhere DEF Found
<1>3. RowLock(tx[a].to) \notin tx[a].held
  BY <1>2, RowsClash DEF WaitsFor, LocationsInv, LocksExclude
<1>4. tx[a].held \subseteq {PlaceLock(tx[a].to, "share"), PlaceLock(tx[a].to, "key share")}
  BY <1>1, <1>3 DEF Holds, Arriving
<1>5. PICK k \in Wanted(b), h \in tx[a].held : Clash(k, h)
  BY DEF WaitsFor, Stands
<1>6. h.table = "locations" /\ h.mode \in {"share", "key share"}
  BY <1>4, ShareParts
<1>7. k.table = "locations" /\ k.mode # "key share"
  BY <1>5, <1>6 DEF Clash, Exclude
<1>8. tx[b].op # "default"
  BY DefaultsDoNotMeet
<1> QED
  BY <1>7, <1>8, WantedForms DEF Formed

(* Whoever waits to point at a place waits for its deletion; and one that  *)
(* moves units out of it has found some, which the deletion has not.       *)
LEMMA WritersMeetDeletions ==
    ASSUME NEW a \in Sessions, NEW b \in Sessions, WaitsFor(a, b), WaitsFor(b, a),
           LocationsInv, CarefulInv,
           tx[a].next = "write", tx[a].op \in OrderPath \cup {"import", "move"}
    PROVE  tx[a].op # "move" /\ tx[b].op = "delete"
<1>1. Wanted(a) \subseteq {PlaceLock(p, "key share") : p \in {tx[a].from, tx[a].to}}
  BY WantedToWrite DEF Recorded
<1>2. /\ tx[b].op \in {"close", "delete"} /\ tx[b].to \in {tx[a].from, tx[a].to}
      /\ tx[b].held = {PlaceLock(tx[b].to, "update")}
  BY <1>1, WaitsForPlace
<1>3. /\ Sound(tx[a]) /\ Sound(tx[b]) /\ tx[a] \in Transactions /\ Decided(tx[a])
      /\ a # b /\ Wanted(b) # {}
  BY Whose DEF CarefulInv, Careful, WaitsFor, Stands
<1>4. tx[b].op = "delete" /\ tx[b].next = "write"
  <2>1. tx[b].next # "count"
    BY <1>3, WantedWhere
  <2> QED
    BY <1>2, <1>3, <2>1 DEF Sound, Stages
<1>5. ASSUME tx[a].op = "move"
      PROVE  FALSE
  <2>1. tx[b].to # tx[a].to
    <3>1. PlaceLock(tx[a].to, "share") \in tx[a].held
      BY <1>3, <1>5 DEF Sound, HoldsPlace
    <3> QED
      BY <1>2, <1>3, <3>1, UpdateClashes DEF LocationsInv, LocksExclude
  <2>2. tx[b].to = tx[a].from
    BY <1>2, <2>1
  <2>3. shelf[tx[a].from].on_hand = 0 /\ shelf[tx[a].from].reserved = 0
    BY <1>3, <1>4, <2>2 DEF Sound, HoldsPlace
  <2>4. shelf[tx[a].from].reserved <= shelf[tx[a].from].on_hand - tx[a].units
    BY <1>3, <1>5 DEF Decided
  <2>5. tx[a].units \in Int /\ tx[a].units > 0
    BY <1>3, <1>5 DEF Transactions, Sound, HoldsRows
  <2> QED
    BY <2>3, <2>4, <2>5
<1> QED
  BY <1>4, <1>5

(* What a move has inserted before it locks its rows is in nobody's way.   *)
LEMMA FirstsDoNotMeet ==
    ASSUME NEW a \in Sessions, NEW b \in Sessions, WaitsFor(a, b), WaitsFor(b, a),
           LocationsInv, CarefulInv, tx[b].next # "out"
    PROVE  tx[a].next # "first"
<1> SUFFICES ASSUME tx[a].next = "first"
             PROVE  FALSE
  OBVIOUS
<1>1. tx[a].op = "move" /\ Holds(tx[a])
  BY Whose DEF CarefulInv, Careful
<1>2. PICK p : Wanted(a) \subseteq {RowLock(p)} /\ RowLock(p) \in tx[b].held
  <2>1. Wanted(a) \subseteq {RowLock(InOrder(tx[a])[1])}
    BY WantedWhere DEF Found
  <2> QED
    BY <2>1, WaitsForRow
<1>3. /\ tx[a].held \subseteq Arriving(tx[a]) /\ tx[b].op # "default"
      /\ RowLock(tx[a].to) \in tx[a].held => ~shelf[tx[a].to].row
  BY <1>1, DefaultsDoNotMeet DEF Holds
<1>4. PICK k \in Wanted(b), h \in tx[a].held : Clash(k, h)
  BY DEF WaitsFor, Stands
<1>5. h = RowLock(tx[a].to)
  <2>1. CASE h \in {PlaceLock(tx[a].to, "share"), PlaceLock(tx[a].to, "key share")}
    <3>1. h.table = "locations" /\ h.mode \in {"share", "key share"}
      BY <2>1, ShareParts
    <3>2. k.table = "locations" /\ k.mode # "key share"
      BY <1>4, <3>1 DEF Clash, Exclude
    <3> QED
      BY <1>3, <3>2, WantedForms DEF Formed
  <2> QED
    BY <1>3, <2>1 DEF Arriving
<1>6. k.table = "variant_stock" /\ k.at = tx[a].to /\ ~shelf[tx[a].to].row
  BY <1>3, <1>4, <1>5, LockParts DEF Clash
<1>7. tx[b].next \notin {"ask", "take"}
  BY AskedIsFree, TakersDoNotMeet
<1>8. ~(tx[b].next = "write" /\ tx[b].op \in OrderPath \cup {"import", "move"})
  BY <1>1, WritersMeetDeletions
<1>9. ~(tx[b].next = "write" /\ tx[b].op = "delete")
  <2>1. tx[b].op = "delete" => tx[b].held = {PlaceLock(tx[b].to, "update")}
    BY DEF CarefulInv, Careful, Holds
  <2>2. RowLock(p).table # PlaceLock(tx[b].to, "update").table
    BY LockParts
  <2> QED
    BY <1>2, <2>1, <2>2
<1>10. tx[b].next \in {"first", "second"}
  BY <1>3, <1>4, <1>7, <1>8, <1>9, WhoWants
<1>11. PICK q : k \in Found(q)
  BY <1>4, <1>10, WantedWhere
<1>12. k = RowLock(q) /\ shelf[q].row
  BY <1>11 DEF Found
<1> QED
  BY <1>6, <1>12, LockParts

(* One that deletes has the place, and no row.                             *)
LEMMA DeletionsHoldNoRow ==
    ASSUME LocationsInv, CarefulInv, NEW b \in Sessions, tx[b].op = "delete", NEW p
    PROVE  RowLock(p) \notin tx[b].held
<1>1. tx[b].held = {PlaceLock(tx[b].to, "update")}
  BY DEF CarefulInv, Careful, Holds
<1>2. RowLock(p).table # PlaceLock(tx[b].to, "update").table
  BY LockParts
<1> QED
  BY <1>1, <1>2

(* Two moves lock their second row only if it is the larger.               *)
LEMMA SecondLast ==
    ASSUME LocationsInv, CarefulInv, NEW b \in Sessions, tx[b].next = "second",
           NEW p, RowLock(p) \in tx[b].held
    PROVE  /\ InOrder(tx[b])[1] \in Places /\ InOrder(tx[b])[2] \in Places
           /\ InOrder(tx[b])[1] < InOrder(tx[b])[2]
           /\ p \in {InOrder(tx[b])[1], InOrder(tx[b])[2]}
<1>1. /\ tx[b].op = "move" /\ tx[b].from \in Places /\ tx[b].to \in Places
      /\ tx[b].from # tx[b].to /\ Holds(tx[b])
  BY Whose DEF Sound, HoldsRows, CarefulInv, Careful
<1>2. p \in {tx[b].from, tx[b].to}
  <2>1. /\ RowLock(p) \in Arriving(tx[b]) \cup {RowLock(tx[b].from)}
        /\ RowLock(p).table = "variant_stock" /\ RowLock(p).at = p
    BY <1>1, LockParts DEF Holds
  <2>2. RowLock(p) \in {RowLock(tx[b].from), RowLock(tx[b].to)}
    BY <2>1, ShareParts DEF Arriving
  <2>3. /\ RowLock(tx[b].from).at = tx[b].from
        /\ RowLock(tx[b].to).at = tx[b].to
    BY LockParts
  <2> QED
    BY <2>1, <2>2, <2>3
<1>3. tx[b].from < tx[b].to \/ tx[b].to < tx[b].from
  BY <1>1, PlacesOrdered
<1>4. CASE tx[b].from < tx[b].to
  BY <1>1, <1>2, <1>4 DEF InOrder
<1>5. CASE ~(tx[b].from < tx[b].to)
  BY <1>1, <1>2, <1>3, <1>5 DEF InOrder
<1> QED
  BY <1>4, <1>5

LEMMA SecondsDoNotMeet ==
    ASSUME NEW a \in Sessions, NEW b \in Sessions, WaitsFor(a, b), WaitsFor(b, a),
           LocationsInv, CarefulInv
    PROVE  ~(tx[a].next = "second" /\ tx[b].next = "second")
<1> SUFFICES ASSUME tx[a].next = "second", tx[b].next = "second"
             PROVE  FALSE
  OBVIOUS
<1> DEFINE p == InOrder(tx[a])[2]
           q == InOrder(tx[b])[2]
<1>1. RowLock(p) \in tx[b].held /\ RowLock(q) \in tx[a].held
  BY WaitsForRow, WantedWhere DEF Found
<1>2. p # q
  BY <1>1, RowsClash DEF WaitsFor, LocationsInv, LocksExclude
<1>3. p \in Places /\ q \in Places /\ q < p /\ p < q
  BY <1>1, <1>2, SecondLast
<1> QED
  BY <1>3, PlacesOrdered

LEMMA Deadlocks ==
    ASSUME NEW a \in Sessions, NEW b \in Sessions, WaitsFor(a, b), WaitsFor(b, a),
           LocationsInv, CarefulInv, tx[a].next # "out", tx[b].next # "out"
    PROVE  \/ tx[a].op = "delete" /\ tx[b].op \in OrderPath \cup {"import"}
           \/ tx[b].op = "delete" /\ tx[a].op \in OrderPath \cup {"import"}
<1>1. Wanted(a) # {} /\ Wanted(b) # {}
  BY DEF WaitsFor, Stands
<1>2. /\ tx[a].op # "default" /\ tx[a].next \notin {"ask", "take", "first"}
      /\ tx[b].op # "default" /\ tx[b].next \notin {"ask", "take", "first"}
  BY DefaultsDoNotMeet, AskedIsFree, TakersDoNotMeet, FirstsDoNotMeet
<1>3. /\ \/ tx[a].next = "second"
         \/ tx[a].op \in OrderPath \cup {"import", "move", "delete"} /\ tx[a].next = "write"
      /\ \/ tx[b].next = "second"
         \/ tx[b].op \in OrderPath \cup {"import", "move", "delete"} /\ tx[b].next = "write"
  BY <1>1, <1>2, WhoWants
<1>4. CASE tx[a].next = "write" /\ tx[a].op \in OrderPath \cup {"import", "move"}
  BY <1>4, WritersMeetDeletions
<1>5. CASE tx[b].next = "write" /\ tx[b].op \in OrderPath \cup {"import", "move"}
  BY <1>5, WritersMeetDeletions
<1>6. ASSUME NEW c \in Sessions, NEW d \in Sessions, WaitsFor(c, d),
             tx[c].next = "second" \/ (tx[c].op = "delete" /\ tx[c].next = "write")
      PROVE  tx[d].op # "delete"
  <2>1. PICK p : Wanted(c) \subseteq {RowLock(p)}
    BY <1>6, WantedWhere, WantedToWrite DEF Found
  <2> QED
    BY <1>6, <2>1, WaitsForRow, DeletionsHoldNoRow
<1>7. ~(tx[a].next = "second" /\ tx[b].next = "second")
  BY SecondsDoNotMeet
<1> QED
  BY <1>3, <1>4, <1>5, <1>6, <1>7

(* "One lock, one order": two sessions wait for each other only if one of  *)
(* them deletes the place whose row the other has taken and is about to    *)
(* point at, or moves units out of a place whose row was not there to be   *)
(* locked in order; never two orders, two moves that lock in order, two    *)
(* counts, nor a default that stands down.                                 *)
THEOREM DeadlocksAreOfDeletions == LocationsSpec => []OnlyDeletionsDeadlock
<1>1. ASSUME LocationsInv, CarefulInv
      PROVE  OnlyDeletionsDeadlock
  BY <1>1, Deadlocks DEF OnlyDeletionsDeadlock
<1> QED
  BY <1>1, LocationsInvariant, CarefulAlways, PTL

-----------------------------------------------------------------------------
(* No statement that found the switch off brings a shelf below zero.       *)

LEMMA UntouchedShelf ==
    ASSUME NEW p, shelf'[p] = shelf[p], ~Oversold(p)
    PROVE  ~Oversold(p)'
  BY DEF Oversold

LEMMA OrderPathKeepsUp ==
    ASSUME NEW op \in OrderPath, NEW r \in Shelf, NEW u \in {0, 1}, r.reserved <= r.on_hand,
           op = "reserve" /\ u = 1 => r.reserved < r.on_hand
    PROVE  After(op, r, u).reserved <= After(op, r, u).on_hand
<1>1. r.on_hand \in Int /\ r.reserved \in Nat
  BY DEF Shelf
<1>2. CASE op = "reserve"
  <2>1. /\ After(op, r, u).reserved = r.reserved + u
        /\ After(op, r, u).on_hand = r.on_hand
    BY <1>2 DEF After, Shelf
  <2> QED
    BY <1>1, <1>2, <2>1
<1>3. CASE op = "commit"
  <2>1. /\ After(op, r, u).reserved = r.reserved - u
        /\ After(op, r, u).on_hand = r.on_hand - u
    BY <1>3 DEF After, Shelf
  <2> QED
    BY <1>1, <2>1
<1>4. CASE op = "release"
  <2>1. /\ After(op, r, u).reserved = IF r.reserved >= u THEN r.reserved - u ELSE 0
        /\ After(op, r, u).on_hand = r.on_hand
    BY <1>4 DEF After, Shelf
  <2> QED
    BY <1>1, <2>1
<1>5. CASE op = "restock"
  <2>1. /\ After(op, r, u).reserved = r.reserved
        /\ After(op, r, u).on_hand = r.on_hand + u
    BY <1>5 DEF After, Shelf
  <2> QED
    BY <1>1, <2>1
<1> QED
  BY <1>2, <1>3, <1>4, <1>5 DEF OrderPath

LEMMA WriteKeepsUp ==
    ASSUME LocationsInv, CarefulInv, NEW s \in Sessions, Write(s), ~tx[s].sees.continue,
           NEW p \in Places, ~Oversold(p)
    PROVE  ~Oversold(p)'
<1> DEFINE m == Mine(tx[s], tx[s].to)
           r == After(tx[s].op, m, tx[s].units)
<1>1. /\ tx[s].next = "write" /\ tx[s].op \in OrderPath
      /\ shelf' = [shelf EXCEPT ![tx[s].to] = r]
  BY DEF Write
<1>2. tx[s].to \in Places /\ tx[s].units \in {0, 1}
  BY <1>1, Whose DEF Sound, HoldsRows
<1>3. /\ m \in Shelf /\ m.on_hand = shelf[tx[s].to].on_hand
      /\ m.reserved = shelf[tx[s].to].reserved
  BY <1>2, MineIs
<1>4. tx[s].op = "reserve" /\ tx[s].units = 1 => m.reserved < m.on_hand
  BY <1>1, <1>3 DEF CarefulInv, Careful, Decided
<1> HIDE DEF m
<1>5. m.reserved <= m.on_hand => r.reserved <= r.on_hand
  BY <1>1, <1>2, <1>3, <1>4, OrderPathKeepsUp
<1>6. r \in Shelf
  BY <1>1, <1>2, <1>3, AfterIs, Whose DEF Sound, HoldsRows
<1> HIDE DEF r
<1>7. CASE p # tx[s].to
  BY <1>7, <1>1, UntouchedShelf DEF LocationsInv, TypeOK
<1>8. CASE p = tx[s].to
  <2>1. shelf'[p] = r
    BY <1>8, <1>1, <1>2 DEF LocationsInv, TypeOK
  <2> QED
    BY <2>1, <1>3, <1>5, <1>6, <1>8 DEF Oversold, Shelf
<1> QED
  BY <1>7, <1>8

LEMMA WriteAdjustKeepsUp ==
    ASSUME LocationsInv, NEW s \in Sessions, WriteAdjust(s), NEW p \in Places, ~Oversold(p)
    PROVE  ~Oversold(p)'
<1> DEFINE m == Mine(tx[s], tx[s].to)
           r == [m EXCEPT !.on_hand = @ + tx[s].units]
<1>1. /\ tx[s].op = "adjust" /\ shelf' = [shelf EXCEPT ![tx[s].to] = r]
      /\ r.on_hand >= r.reserved
  BY DEF WriteAdjust
<1>2. tx[s].to \in Places /\ tx[s].units \in Int /\ m \in Shelf
  BY <1>1, Whose, MineIs DEF Sound, HoldsPlace, Transactions
<1>3. r.on_hand \in Int /\ r.reserved \in Nat
  BY <1>2 DEF Shelf
<1> HIDE DEF r
<1>4. CASE p # tx[s].to
  BY <1>4, <1>1, UntouchedShelf DEF LocationsInv, TypeOK
<1>5. CASE p = tx[s].to
  <2>1. shelf'[p] = r
    BY <1>5, <1>1, <1>2 DEF LocationsInv, TypeOK
  <2> QED
    BY <2>1, <1>1, <1>3 DEF Oversold
<1> QED
  BY <1>4, <1>5

LEMMA WriteImportKeepsUp ==
    ASSUME LocationsInv, CarefulInv, NEW s \in Sessions, WriteImport(s), ~tx[s].sees.continue,
           NEW p \in Places, ~Oversold(p)
    PROVE  ~Oversold(p)'
<1> DEFINE m == Mine(tx[s], tx[s].to)
           r == [m EXCEPT !.on_hand = tx[s].units]
<1>1. /\ tx[s].op = "import" /\ tx[s].next = "write"
      /\ shelf' = [shelf EXCEPT ![tx[s].to] = r]
  BY DEF WriteImport
<1>2. tx[s].to \in Places /\ tx[s].units \in Int
  BY <1>1, Whose DEF Sound, HoldsRows, Transactions
<1>3. m \in Shelf /\ m.reserved = shelf[tx[s].to].reserved
  BY <1>2, MineIs
<1>4. m.reserved <= tx[s].units
  BY <1>1, <1>3 DEF CarefulInv, Careful, Decided
<1> HIDE DEF m
<1>5. r.on_hand = tx[s].units /\ r.reserved = m.reserved /\ m.reserved \in Nat
  BY <1>3 DEF Shelf
<1> HIDE DEF r
<1>6. CASE p # tx[s].to
  BY <1>6, <1>1, UntouchedShelf DEF LocationsInv, TypeOK
<1>7. CASE p = tx[s].to
  <2>1. shelf'[p] = r
    BY <1>7, <1>1, <1>2 DEF LocationsInv, TypeOK
  <2> QED
    BY <2>1, <1>2, <1>4, <1>5 DEF Oversold
<1> QED
  BY <1>6, <1>7

LEMMA WriteMoveKeepsUp ==
    ASSUME LocationsInv, CarefulInv, NEW s \in Sessions, WriteMove(s),
           NEW p \in Places, ~Oversold(p)
    PROVE  ~Oversold(p)'
<1> DEFINE f == tx[s].from
           m == Mine(tx[s], tx[s].to)
           out == [shelf[f] EXCEPT !.on_hand = @ - tx[s].units]
           in == [m EXCEPT !.on_hand = @ + tx[s].units]
<1>1. /\ tx[s].op = "move" /\ tx[s].next = "write"
      /\ shelf' = [shelf EXCEPT ![f] = out, ![tx[s].to] = in]
  BY DEF WriteMove
<1>2. /\ tx[s].to \in Places /\ f \in Places /\ f # tx[s].to
      /\ tx[s].units \in Int /\ tx[s].units > 0
  BY <1>1, Whose DEF Sound, HoldsPlace, HoldsRows, Transactions
<1>3. /\ m \in Shelf /\ m.on_hand = shelf[tx[s].to].on_hand
      /\ m.reserved = shelf[tx[s].to].reserved /\ shelf[f] \in Shelf
  BY <1>2, MineIs DEF LocationsInv, TypeOK
<1>4. shelf[f].reserved <= shelf[f].on_hand - tx[s].units
  BY <1>1 DEF CarefulInv, Careful, Decided
<1> HIDE DEF m
<1>5. /\ in.on_hand = m.on_hand + tx[s].units /\ in.reserved = m.reserved
      /\ m.on_hand \in Int /\ m.reserved \in Nat
  BY <1>3 DEF Shelf
<1>6. /\ out.on_hand = shelf[f].on_hand - tx[s].units /\ out.reserved = shelf[f].reserved
      /\ shelf[f].on_hand \in Int /\ shelf[f].reserved \in Nat
  BY <1>3 DEF Shelf
<1> HIDE DEF in, out
<1>7. CASE p \notin {f, tx[s].to}
  BY <1>7, <1>1, UntouchedShelf DEF LocationsInv, TypeOK
<1>8. CASE p = tx[s].to
  <2>1. shelf'[p] = in
    BY <1>8, <1>1, <1>2 DEF LocationsInv, TypeOK
  <2> QED
    BY <2>1, <1>2, <1>3, <1>5, <1>8 DEF Oversold
<1>9. CASE p = f
  <2>1. shelf'[p] = out
    BY <1>9, <1>1, <1>2 DEF LocationsInv, TypeOK
  <2> QED
    BY <2>1, <1>2, <1>4, <1>6, <1>9 DEF Oversold
<1> QED
  BY <1>7, <1>8, <1>9

LEMMA WriteDeleteKeepsUp ==
    ASSUME LocationsInv, NEW s \in Sessions, WriteDelete(s), NEW p \in Places, ~Oversold(p)
    PROVE  ~Oversold(p)'
<1>1. /\ shelf' = [shelf EXCEPT ![tx[s].to] = NoShelf]
      /\ NoShelf.on_hand = 0 /\ NoShelf.reserved = 0
  BY DEF WriteDelete, NoShelf
<1>2. shelf'[p] = shelf[p] \/ shelf'[p] = NoShelf
  BY <1>1 DEF LocationsInv, TypeOK
<1> QED
  BY <1>1, <1>2, UntouchedShelf DEF Oversold

LEMMA SwitchedOffIn ==
    ASSUME LocationsInv, LocationsNext, variant.continue, ~variant'.continue
    PROVE  \E s \in Sessions : WriteStop(s)
<1> SUFFICES ASSUME UNCHANGED variant \/ \E on \in BOOLEAN : Track(on)
                                      \/ SellPastZero
             PROVE  FALSE
  <2> USE DEF Begin, Statement
  <2>1. ASSUME NEW s \in Sessions, NEW o \in OrderIds,
               \/ Confirm(s, o)
               \/ Cancel(s, o)
               \/ \E p \in Places : Place(s, o, p) \/ Return(s, o, p)
        PROVE  UNCHANGED variant
    BY <2>1 DEF Confirm, Cancel, Place, Return, Verb
  <2>2. ASSUME NEW s \in Sessions, NEW p \in Places,
               \/ \E q \in Places, n \in 1..MaxUnits : Move(s, p, q, n)
               \/ \E n \in (-MaxUnits..MaxUnits) \ {0} : Adjust(s, p, n)
               \/ \E n \in 0..MaxUnits : Import(s, p, n)
               \/ Close(s, p) \/ Delete(s, p) \/ SetDefault(s, p)
        PROVE  UNCHANGED variant
    BY <2>2 DEF Move, Adjust, Import, Close, Delete, Count, SetDefault
  <2>3. ASSUME NEW s \in Sessions, Ask(s) \/ Take(s) \/ LockFirst(s) \/ LockSecond(s)
        PROVE  UNCHANGED variant
    BY <2>3 DEF Ask, Take, LockFirst, LockSecond
  <2>4. ASSUME NEW s \in Sessions,
               TakeOut(s) \/ TakeImport(s) \/ Counting(s) \/ StandDown(s) \/ StopSelling(s)
        PROVE  UNCHANGED variant
    BY <2>4 DEF TakeOut, TakeImport, Counting, StandDown, StopSelling
  <2>5. ASSUME NEW s \in Sessions,
               \/ Write(s) \/ WriteMove(s) \/ WriteAdjust(s) \/ WriteImport(s)
               \/ WriteClose(s) \/ WriteDelete(s) \/ WriteDefault(s) \/ RollBack(s)
        PROVE  UNCHANGED variant
    BY <2>5 DEF Write, WriteMove, WriteAdjust, WriteImport, WriteClose, WriteDelete,
                WriteDefault, RollBack
  <2>6. ASSUME \/ \E p \in Places, a \in {"open", "closed"} : Create(p, a)
               \/ \E p \in Places : Reopen(p)
        PROVE  UNCHANGED variant
    BY <2>6 DEF Create, Reopen
  <2> QED
    BY <2>1, <2>2, <2>3, <2>4, <2>5, <2>6 DEF LocationsNext
<1>1. variant \in Flags
  BY DEF LocationsInv, TypeOK
<1> QED
  BY <1>1 DEF Track, SellPastZero, Flags

(* A store that does not sell a variant past zero never comes to have      *)
(* promised more of it than there is, whoever counts, moves, imports and   *)
(* sells at once, but by the switch or by a statement that read it before. *)
THEOREM SellsPastZeroOnlyBySwitching == LocationsSpec => OversoldBySwitchingOnly
<1> DEFINE Excused ==
              \/ ~variant.continue /\ \E p \in Places : Oversold(p)
              \/ \E s \in Sessions : tx[s].op = "stop selling" /\ tx'[s] = NoTx
              \/ \E s \in Sessions : tx[s].sees.continue /\ tx'[s] = NoTx
           Switched == ~variant'.continue /\ (\E p \in Places : Oversold(p)') => Excused
<1>1. ASSUME LocationsInv, CarefulInv, [LocationsNext]_locVars,
             ~variant'.continue, NEW p \in Places, Oversold(p)', ~Excused
      PROVE  FALSE
  <2>1. ASSUME NEW s \in Sessions, Commit(s)
        PROVE  tx'[s] = NoTx
    BY <1>1, <2>1 DEF Commit, LocationsInv, TypeOK
  <2>2. CASE variant.continue
    <3>1. LocationsNext
      BY <1>1, <2>2 DEF locVars
    <3>2. PICK s \in Sessions : WriteStop(s)
      BY <1>1, <2>2, <3>1, SwitchedOffIn
    <3> QED
      BY <1>1, <2>1, <3>2 DEF WriteStop
  <2>3. CASE ~variant.continue
    <3>1. ~Oversold(p)
      BY <1>1, <2>3
    <3>2. LocationsNext /\ shelf' # shelf
      BY <1>1, <3>1 DEF locVars, Oversold
    <3>3. PICK s \in Sessions : \/ Write(s) \/ WriteMove(s) \/ WriteAdjust(s)
                                \/ WriteImport(s) \/ WriteDelete(s)
      BY <3>2, ShelvesChangeIn
    <3>4. ~tx[s].sees.continue
      BY <1>1, <2>1, <3>3 DEF Write, WriteMove, WriteAdjust, WriteImport, WriteDelete
    <3> QED
      BY <1>1, <3>1, <3>3, <3>4, WriteKeepsUp, WriteMoveKeepsUp, WriteAdjustKeepsUp,
         WriteImportKeepsUp, WriteDeleteKeepsUp
  <2> QED
    BY <2>2, <2>3
<1>2. LocationsInv /\ CarefulInv /\ [LocationsNext]_locVars => [Switched]_locVars
  BY <1>1
<1>3. LocationsSpec => [][Switched]_locVars
  BY <1>2, LocationsInvariant, CarefulAlways, PTL DEF LocationsSpec
<1> QED
  BY <1>3 DEF OversoldBySwitchingOnly

-----------------------------------------------------------------------------
(* Units that come back land.                                              *)

LEMMA OrdersChangeIn ==
    ASSUME LocationsNext
    PROVE  \/ UNCHANGED order
           \/ \E s \in Sessions : Write(s) \/ WriteDelete(s)
<1> USE DEF Begin, Statement
<1>1. ASSUME NEW s \in Sessions, NEW o \in OrderIds,
             \/ Confirm(s, o)
             \/ Cancel(s, o)
             \/ \E p \in Places : Place(s, o, p) \/ Return(s, o, p)
      PROVE  UNCHANGED order
  BY <1>1 DEF Confirm, Cancel, Place, Return, Verb
<1>2. ASSUME NEW s \in Sessions, NEW p \in Places,
             \/ \E q \in Places, n \in 1..MaxUnits : Move(s, p, q, n)
             \/ \E n \in (-MaxUnits..MaxUnits) \ {0} : Adjust(s, p, n)
             \/ \E n \in 0..MaxUnits : Import(s, p, n)
             \/ Close(s, p) \/ Delete(s, p) \/ SetDefault(s, p)
      PROVE  UNCHANGED order
  BY <1>2 DEF Move, Adjust, Import, Close, Delete, Count, SetDefault
<1>3. ASSUME NEW s \in Sessions, Ask(s) \/ Take(s) \/ LockFirst(s) \/ LockSecond(s)
      PROVE  UNCHANGED order
  BY <1>3 DEF Ask, Take, LockFirst, LockSecond
<1>4. ASSUME NEW s \in Sessions,
             TakeOut(s) \/ TakeImport(s) \/ Counting(s) \/ StandDown(s) \/ StopSelling(s)
      PROVE  UNCHANGED order
  BY <1>4 DEF TakeOut, TakeImport, Counting, StandDown, StopSelling
<1>5. ASSUME NEW s \in Sessions,
             \/ WriteMove(s) \/ WriteAdjust(s) \/ WriteImport(s) \/ WriteClose(s)
             \/ WriteDefault(s) \/ WriteStop(s) \/ RollBack(s)
      PROVE  UNCHANGED order
  BY <1>5 DEF WriteMove, WriteAdjust, WriteImport, WriteClose, WriteDefault, WriteStop, RollBack
<1>6. ASSUME \/ \E p \in Places, a \in {"open", "closed"} : Create(p, a)
             \/ \E p \in Places : Reopen(p)
             \/ \E on \in BOOLEAN : Track(on)
             \/ SellPastZero
      PROVE  UNCHANGED order
  BY <1>6 DEF Create, Reopen, Track, SellPastZero
<1> QED
  BY <1>1, <1>2, <1>3, <1>4, <1>5, <1>6 DEF LocationsNext

(* The status of an order is its own transaction's to change.              *)
LEMMA OwnOrder ==
    ASSUME LocationsInv, CarefulInv, LocationsNext, NEW s \in Sessions, tx[s].order \in OrderIds,
           order'[tx[s].order].status # order[tx[s].order].status
    PROVE  Write(s)
<1> DEFINE o == tx[s].order
<1>1. order \in [OrderIds -> [status : {"none", "pending", "committed", "over"},
                              at : Places \cup {NoPlace}]]
  BY DEF LocationsInv, TypeOK
<1>2. PICK b \in Sessions : Write(b) \/ WriteDelete(b)
  BY OrdersChangeIn
<1>3. ~WriteDelete(b)
  <2>1. WriteDelete(b) => order'[o] = order[o] \/ order'[o] = [order[o] EXCEPT !.at = NoPlace]
    BY DEF WriteDelete
  <2> QED
    BY <1>1, <2>1
<1>4. Write(b) /\ tx[b].order \in OrderIds
  BY <1>2, <1>3, Whose DEF Write, Sound, HoldsRows
<1>5. tx[b].order = o
  BY <1>1, <1>4 DEF Write
<1>6. b = s
  BY <1>5, LocationsAssumption DEF CarefulInv, OrdersApart
<1> QED
  BY <1>4, <1>6

LEMMA RestockLands ==
    ASSUME LocationsInv, CarefulInv, NEW s \in Sessions, Write(s),
           tx[s].op = "restock", tx[s].sees.track, place[tx[s].to] # "gone"
    PROVE  shelf'[tx[s].to].on_hand > shelf[tx[s].to].on_hand
<1> DEFINE m == Mine(tx[s], tx[s].to)
<1>1. tx[s].next = "write" /\ shelf' = [shelf EXCEPT ![tx[s].to] = After("restock", m, tx[s].units)]
  BY DEF Write
<1>2. tx[s].units = 1
  BY <1>1 DEF CarefulInv, Careful, Lands
<1>3. tx[s].to \in Places
  BY <1>1, Whose DEF Sound, HoldsRows, OrderPath
<1>4. m \in Shelf /\ m.on_hand = shelf[tx[s].to].on_hand
  BY <1>3, MineIs
<1> HIDE DEF m
<1>5. After("restock", m, 1).on_hand = m.on_hand + 1 /\ m.on_hand \in Int
  BY <1>4 DEF After, Shelf
<1>6. shelf'[tx[s].to] = After("restock", m, 1)
  BY <1>1, <1>2, <1>3 DEF LocationsInv, TypeOK
<1> QED
  BY <1>4, <1>5, <1>6

(* A cancellation or a return that settles its order puts the unit on the  *)
(* shelf that ensureStockRow found or made, whoever moves, counts, closes  *)
(* and cancels beside it; only the deletion of the place comes between.    *)
THEOREM UnitsComeBack == LocationsSpec => RestockedUnitsLand
<1> DEFINE Settles(s) ==
              /\ tx[s].op = "restock" /\ tx[s].next = "write" /\ tx[s].sees.track
              /\ order'[tx[s].order].status # order[tx[s].order].status
           Landed(s) ==
              shelf'[tx[s].to].on_hand > shelf[tx[s].to].on_hand \/ place[tx[s].to] = "gone"
           AllLand == \A s \in Sessions : Settles(s) => Landed(s)
<1>1. ASSUME LocationsInv, CarefulInv, [LocationsNext]_locVars, NEW s \in Sessions, Settles(s)
      PROVE  Landed(s)
  <2>1. tx[s].order \in OrderIds
    BY <1>1, Whose DEF Sound, HoldsRows, OrderPath
  <2>2. LocationsNext
    BY <1>1 DEF locVars
  <2>3. Write(s)
    BY <1>1, <2>1, <2>2, OwnOrder
  <2> QED
    BY <1>1, <2>3, RestockLands
<1>2. LocationsInv /\ CarefulInv /\ [LocationsNext]_locVars => [AllLand]_locVars
  BY <1>1
<1>3. LocationsSpec => [][AllLand]_locVars
  BY <1>2, LocationsInvariant, CarefulAlways, PTL DEF LocationsSpec
<1> QED
  BY <1>3 DEF RestockedUnitsLand
=============================================================================
