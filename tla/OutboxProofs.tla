---------------------------- MODULE OutboxProofs ----------------------------
(***************************************************************************)
(* What holds of the outbox for any number of events, workers, handlers,   *)
(* attempts, crashes and repairs: that it implements the delivery promised *)
(* in EventDelivery, and that it does not retry without end.               *)
(***************************************************************************)
EXTENDS Outbox, FiniteSetTheorems, TLAPS

(* TypeOK is inductive as it stands.                                       *)
LEMMA InitTypeOK == Init => TypeOK
BY BoundsAssumption DEF Init, TypeOK

LEMMA NextTypeOK ==
    ASSUME TypeOK, [Next]_vars
    PROVE  TypeOK'
<1> USE BoundsAssumption
<1>1. ASSUME NEW r \in Rows, Write(r) PROVE TypeOK'
  BY <1>1 DEF TypeOK, Write, rowVars, workVars, histVars, boundVars
<1>2. ASSUME NEW r \in Rows, Lapse(r) PROVE TypeOK'
  BY <1>2 DEF TypeOK, Lapse, workVars, histVars, boundVars
<1>3. ASSUME NEW r \in Rows, RequeueDead(r) PROVE TypeOK'
  BY <1>3 DEF TypeOK, RequeueDead, Unpark, workVars, histVars
<1>4. ASSUME NEW r \in Rows, Expedite(r) PROVE TypeOK'
  BY <1>4 DEF TypeOK, Expedite, workVars, histVars
<1>5. ASSUME NEW n \in Nat, RequeueDeadEvents(n) PROVE TypeOK'
  BY <1>5 DEF TypeOK, RequeueDeadEvents, Unpark, workVars, histVars
<1>6. ASSUME NEW w \in Workers, Claim(w) PROVE TypeOK'
  <2>1. NextBatch \subseteq Rows
    BY DEF NextBatch
  <2>2. attempts \in [Rows -> Nat] /\ claims \in [Rows -> Nat]
    BY DEF TypeOK
  <2>3. {Claimed(r) : r \in NextBatch} \subseteq Claims
    BY <2>1, <2>2 DEF Claimed, Claims
  <2>4. due' \in [Rows -> BOOLEAN]
    BY <1>6 DEF Claim
  <2>5. attempts' \in [Rows -> Nat] /\ claims' \in [Rows -> Nat]
    BY <1>6, <2>1, <2>2 DEF Claim
  <2>6. batch' \in [Workers -> SUBSET Claims]
    BY <1>6, <2>3 DEF Claim, TypeOK
  <2>7. QED
    BY <1>6, <2>4, <2>5, <2>6 DEF TypeOK, Claim, boundVars
<1>7. ASSUME NEW w \in Workers, Dispatch(w) PROVE TypeOK'
  BY <1>7 DEF TypeOK, Dispatch, NoFailures, Claims, Outcomes, rowVars, boundVars
<1>8. ASSUME NEW w \in Workers, MarkPublished(w) PROVE TypeOK'
  BY <1>8 DEF TypeOK, MarkPublished, Advance, Claims, Outcomes, histVars, boundVars
<1>9. ASSUME NEW w \in Workers, Park(w) PROVE TypeOK'
  BY <1>9 DEF TypeOK, Park, Advance, Claims, Outcomes, histVars, boundVars
<1>10. ASSUME NEW w \in Workers, Backoff(w) PROVE TypeOK'
  BY <1>10 DEF TypeOK, Backoff, Advance, Claims, Outcomes, histVars, boundVars
<1>11. ASSUME NEW w \in Workers, OutcomeLost(w) PROVE TypeOK'
  BY <1>11 DEF TypeOK, OutcomeLost, Advance, rowVars, histVars
<1>12. ASSUME NEW w \in Workers, Crash(w) PROVE TypeOK'
  BY <1>12 DEF TypeOK, Crash, rowVars, histVars
<1>13. CASE UNCHANGED vars
  BY <1>13 DEF TypeOK, vars, rowVars, workVars, histVars, boundVars
<1>14. QED
  BY <1>1, <1>2, <1>3, <1>4, <1>5, <1>6, <1>7, <1>8, <1>9, <1>10, <1>11, <1>12, <1>13
     DEF Next, Settle

(* Type correctness of the outbox.                                         *)
THEOREM TypeCorrect == Spec => []TypeOK
<1>1. Init => TypeOK
  BY InitTypeOK
<1>2. TypeOK /\ [Next]_vars => TypeOK'
  BY NextTypeOK
<1>3. QED
  BY <1>1, <1>2, PTL DEF Spec
-----------------------------------------------------------------------------
(***************************************************************************)
(* The invariant under which every step of the outbox is a step of the     *)
(* delivery it promises.                                                   *)
(***************************************************************************)

(* A worker holds claims of events that exist, each begun by a claim.      *)
ClaimsBegun ==
    \A w \in Workers : \A c \in batch[w] :
        c.row \in written /\ c.attempts <= claims[c.row]

(* attempts is what is left of claims after the repairs.                   *)
AttemptsBegun == \A r \in Rows : attempts[r] <= claims[r]

(* An outcome is of a claim the worker still holds, and a good one means   *)
(* that every handler has accepted the event, whoever delivered it to them.*)
OutcomesEarned ==
    \A w \in Workers : outcome[w] # NoOutcome =>
        /\ outcome[w].claim \in batch[w]
        /\ outcome[w].ok => handled[outcome[w].claim.row] = Handlers

(* A row nobody wrote is not marked.                                       *)
UnwrittenBlank == \A r \in Rows \ written : ~published[r] /\ ~dead[r]

DeliveryInv ==
    TypeOK /\ ClaimsBegun /\ AttemptsBegun /\ OutcomesEarned /\ UnwrittenBlank

LEMMA InitDeliveryInv == Init => DeliveryInv
BY InitTypeOK DEF Init, DeliveryInv, ClaimsBegun, AttemptsBegun, OutcomesEarned,
                  UnwrittenBlank

LEMMA NextDeliveryInv ==
    ASSUME DeliveryInv, [Next]_vars
    PROVE  DeliveryInv'
<1> USE DEF DeliveryInv
<1>t. TypeOK'
  BY NextTypeOK
<1> USE <1>t
<1>1. ASSUME NEW r \in Rows, Write(r) PROVE DeliveryInv'
  BY <1>1 DEF Write, rowVars, workVars, histVars, ClaimsBegun, AttemptsBegun,
              OutcomesEarned, UnwrittenBlank
<1>2. ASSUME NEW r \in Rows, Lapse(r) PROVE DeliveryInv'
  BY <1>2 DEF Lapse, workVars, histVars, ClaimsBegun, AttemptsBegun, OutcomesEarned,
              UnwrittenBlank
<1>3. ASSUME NEW S \in SUBSET Rows, Unpark(S),
             UNCHANGED <<written, published, workVars, histVars>>
      PROVE  DeliveryInv'
  BY <1>3 DEF TypeOK, Unpark, workVars, histVars, ClaimsBegun, AttemptsBegun,
              OutcomesEarned, UnwrittenBlank
<1>4. ASSUME NEW r \in Rows, Expedite(r) PROVE DeliveryInv'
  BY <1>4 DEF Expedite, workVars, histVars, ClaimsBegun, AttemptsBegun, OutcomesEarned,
              UnwrittenBlank
<1>5. ASSUME NEW w \in Workers, Claim(w) PROVE DeliveryInv'
  <2>1. NextBatch \subseteq written \intersect Rows
    BY DEF NextBatch, Claimable
  <2>2. ClaimsBegun'
    BY <1>5, <2>1 DEF Claim, Claimed, ClaimsBegun, AttemptsBegun, TypeOK, Claims
  <2>3. AttemptsBegun'
    BY <1>5, <2>1 DEF Claim, AttemptsBegun, TypeOK
  <2>4. OutcomesEarned'
    BY <1>5 DEF Claim, OutcomesEarned, TypeOK
  <2>5. UnwrittenBlank'
    BY <1>5 DEF Claim, UnwrittenBlank
  <2>6. QED
    BY <2>2, <2>3, <2>4, <2>5
<1>6. ASSUME NEW w \in Workers, Dispatch(w) PROVE DeliveryInv'
  <2>1. PICK c \in batch[w], accepted \in SUBSET Handlers :
            /\ handled' = [handled EXCEPT ![c.row] = @ \union accepted]
            /\ outcome' = [outcome EXCEPT ![w] =
                              [claim |-> c, ok |-> NoFailures(accepted)]]
    BY <1>6 DEF Dispatch
  <2>2. c \in Claims
    BY DEF TypeOK
  <2>3. OutcomesEarned'
    <3> SUFFICES ASSUME NEW v \in Workers, outcome'[v] # NoOutcome
                 PROVE  /\ outcome'[v].claim \in batch[v]
                        /\ outcome'[v].ok => handled'[outcome'[v].claim.row] = Handlers
      BY <1>6 DEF Dispatch, OutcomesEarned
    <3>1. handled \in [Rows -> SUBSET Handlers] /\ outcome \in [Workers -> Outcomes \union {NoOutcome}]
      BY DEF TypeOK
    <3>2. \A r \in Rows : handled[r] = Handlers => handled'[r] = Handlers
      BY <2>1, <2>2, <3>1 DEF Claims
    <3>3. CASE v = w
      <4>1. outcome'[v] = [claim |-> c, ok |-> NoFailures(accepted)]
        BY <2>1, <3>1, <3>3
      <4>2. accepted = Handlers => handled'[c.row] = Handlers
        BY <2>1, <2>2, <3>1 DEF Claims
      <4>3. outcome'[v].claim = c
        BY <4>1
      <4>4. outcome'[v].ok => accepted = Handlers
        <5>1. outcome'[v].ok = (accepted = Handlers)
          BY <4>1 DEF NoFailures
        <5>2. QED
          BY <5>1
      <4>5. QED
        BY <3>3, <4>2, <4>3, <4>4
    <3>4. CASE v # w
      <4>1. outcome'[v] = outcome[v]
        BY <2>1, <3>1, <3>4
      <4>2. outcome[v].claim \in Claims
        BY <4>1 DEF OutcomesEarned, TypeOK
      <4>3. QED
        BY <3>2, <4>1, <4>2 DEF OutcomesEarned, Claims
    <3>5. QED
      BY <3>3, <3>4
  <2>4. QED
    BY <1>6, <2>3 DEF Dispatch, rowVars, ClaimsBegun, AttemptsBegun, UnwrittenBlank
<1>7. ASSUME NEW w \in Workers, Settle(w) PROVE DeliveryInv'
  <2>1. outcome[w] # NoOutcome /\ Advance(w)
    BY <1>7 DEF Settle, MarkPublished, Park, Backoff, OutcomeLost
  <2>2. UNCHANGED <<written, attempts, handled, claims>>
    BY <1>7 DEF Settle, MarkPublished, Park, Backoff, OutcomeLost, rowVars, histVars
  <2>3. ClaimsBegun' /\ AttemptsBegun' /\ OutcomesEarned'
    BY <2>1, <2>2 DEF Advance, ClaimsBegun, AttemptsBegun, OutcomesEarned, TypeOK
  <2>4. outcome[w].claim.row \in written
    BY <2>1 DEF OutcomesEarned, ClaimsBegun
  <2>5. UnwrittenBlank'
    BY <1>7, <2>2, <2>4
       DEF Settle, MarkPublished, Park, Backoff, OutcomeLost, rowVars, UnwrittenBlank, TypeOK
  <2>6. QED
    BY <2>3, <2>5
<1>8. ASSUME NEW w \in Workers, Crash(w) PROVE DeliveryInv'
  BY <1>8 DEF Crash, rowVars, histVars, ClaimsBegun, AttemptsBegun, OutcomesEarned,
              UnwrittenBlank, TypeOK
<1>9. CASE UNCHANGED vars
  BY <1>9 DEF vars, rowVars, workVars, histVars, boundVars, ClaimsBegun, AttemptsBegun,
              OutcomesEarned, UnwrittenBlank
<1>10. ASSUME NEW r \in Rows, RequeueDead(r) PROVE DeliveryInv'
  BY <1>3, <1>10 DEF RequeueDead
<1>11. ASSUME NEW n \in Nat, RequeueDeadEvents(n) PROVE DeliveryInv'
  BY <1>3, <1>11 DEF RequeueDeadEvents
<1>12. QED
  BY <1>1, <1>2, <1>4, <1>5, <1>6, <1>7, <1>8, <1>9, <1>10, <1>11 DEF Next

(* What a worker may publish was accepted by every handler, and what it    *)
(* may park was begun MaxAttempts times: for any number of workers,        *)
(* crashes and repairs.                                                    *)
THEOREM DeliveryInvariant == Spec => []DeliveryInv
<1>1. Init => DeliveryInv
  BY InitDeliveryInv
<1>2. DeliveryInv /\ [Next]_vars => DeliveryInv'
  BY NextDeliveryInv
<1>3. QED
  BY <1>1, <1>2, PTL DEF Spec

-----------------------------------------------------------------------------
(* Every step of the outbox is a step of EventDelivery, or changes nothing *)
(* that a subscriber or an operator can see.                               *)
LEMMA InitDelivers == Init => Delivery!Init
BY DEF Init, Delivery!Init, State

LEMMA NextDelivers ==
    ASSUME DeliveryInv, DeliveryInv', [Next]_vars
    PROVE  [Delivery!Next]_(Delivery!vars)
<1> DEFINE st == [r \in Rows |-> State(r)]
<1> USE DEF DeliveryInv
<1>1. ASSUME NEW r \in Rows, Write(r) PROVE Delivery!Append({r})
  <2>1. st[r] = "unwritten"
    BY <1>1 DEF Write, State
  <2>2. st' = [s \in Rows |-> IF s \in {r} THEN "pending" ELSE st[s]]
    BY <1>1 DEF Write, State, rowVars, UnwrittenBlank
  <2>3. UNCHANGED <<handled, claims>>
    BY <1>1 DEF Write, histVars
  <2>4. QED
    BY <2>1, <2>2, <2>3 DEF Delivery!Append
<1>2. ASSUME NEW S \in SUBSET Rows, \A r \in S : State(r) = "dead",
             Unpark(S), UNCHANGED <<written, published, histVars>>
      PROVE  Delivery!Repair(S)
  <2>1. st' = [r \in Rows |-> IF r \in S THEN "pending" ELSE st[r]]
    BY <1>2 DEF Unpark, State, TypeOK
  <2>2. QED
    BY <1>2, <2>1 DEF Delivery!Repair, histVars
<1>3. ASSUME NEW w \in Workers, Claim(w) PROVE Delivery!Try(NextBatch)
  <2>1. NextBatch \subseteq Rows /\ \A r \in NextBatch : st[r] = "pending"
    BY DEF NextBatch, Claimable, State
  <2>2. st' = st
    BY <1>3 DEF Claim, State
  <2>3. QED
    BY <1>3, <2>1, <2>2 DEF Claim, Delivery!Try
<1>4. ASSUME NEW w \in Workers, Dispatch(w)
      PROVE  \E r \in Rows, H \in SUBSET Handlers : Delivery!Accept(r, H)
  <2>1. PICK c \in batch[w], accepted \in SUBSET Handlers :
            handled' = [handled EXCEPT ![c.row] = @ \union accepted]
    BY <1>4 DEF Dispatch
  <2>2. c.row \in Rows /\ c.row \in written
    BY DEF TypeOK, Claims, ClaimsBegun
  <2>3. st[c.row] # "unwritten"
    BY <2>2 DEF State
  <2>4. st' = st /\ claims' = claims
    BY <1>4 DEF Dispatch, State, rowVars
  <2>5. QED
    BY <2>1, <2>2, <2>3, <2>4 DEF Delivery!Accept
<1>5. ASSUME NEW w \in Workers, Settle(w)
      PROVE  [Delivery!Next]_(Delivery!vars)
  <2> DEFINE r == outcome[w].claim.row
  <2>1. /\ outcome[w] # NoOutcome
        /\ outcome[w].claim \in batch[w]
        /\ r \in written /\ r \in Rows
        /\ outcome[w].claim.attempts <= claims[r]
        /\ outcome[w].ok => handled[r] = Handlers
    BY <1>5 DEF Settle, MarkPublished, Park, Backoff, OutcomeLost, OutcomesEarned,
                ClaimsBegun, TypeOK
  <2>2. CASE MarkPublished(w)
    <3>1. st' = [st EXCEPT ![r] = "published"]
      BY <2>1, <2>2 DEF MarkPublished, State, TypeOK
    <3>2. st[r] = "published" \/ st[r] \in {"pending", "dead"}
      BY <2>1 DEF State
    <3>3. CASE st[r] = "published"
      BY <2>2, <3>1, <3>3 DEF MarkPublished, histVars, Delivery!vars
    <3>4. CASE st[r] \in {"pending", "dead"}
      BY <2>1, <2>2, <3>1, <3>4
         DEF MarkPublished, histVars, Delivery!Publish, Delivery!Next
    <3>5. QED
      BY <3>2, <3>3, <3>4
  <2>3. CASE Park(w)
    <3>1. CASE st[r] = "pending"
      <4>1. st' = [st EXCEPT ![r] = "dead"]
        BY <2>1, <2>3, <3>1 DEF Park, State, TypeOK
      <4>2. claims[r] >= MaxAttempts
        BY <2>1, <2>3, AttemptsAssumption DEF Park, OutOfAttempts, TypeOK, Claims
      <4>3. QED
        BY <2>1, <2>3, <3>1, <4>1, <4>2
           DEF Park, histVars, Delivery!Park, Delivery!Next
    <3>2. CASE st[r] # "pending"
      <4>1. st' = st
        BY <2>1, <2>3, <3>2 DEF Park, State, TypeOK
      <4>2. QED
        BY <2>3, <4>1 DEF Park, histVars, Delivery!vars
    <3>3. QED
      BY <3>1, <3>2
  <2>4. CASE Backoff(w) \/ OutcomeLost(w)
    <3>1. st' = st /\ UNCHANGED <<handled, claims>>
      BY <2>4 DEF Backoff, OutcomeLost, State, rowVars, histVars
    <3>2. QED
      BY <3>1 DEF Delivery!vars
  <2>5. QED
    BY <1>5, <2>2, <2>3, <2>4 DEF Settle
<1>6. ASSUME NEW r \in Rows, Lapse(r) \/ Expedite(r) PROVE UNCHANGED Delivery!vars
  BY <1>6 DEF Lapse, Expedite, State, histVars, Delivery!vars
<1>7. ASSUME NEW w \in Workers, Crash(w) PROVE UNCHANGED Delivery!vars
  BY <1>7 DEF Crash, State, rowVars, histVars, Delivery!vars
<1>8. CASE UNCHANGED vars
  BY <1>8 DEF vars, rowVars, histVars, State, Delivery!vars
<1>9. ASSUME NEW r \in Rows, RequeueDead(r) PROVE Delivery!Repair({r})
  BY <1>2, <1>9 DEF RequeueDead
<1>10. ASSUME NEW n \in Nat, RequeueDeadEvents(n)
       PROVE  \E S \in SUBSET Rows : Delivery!Repair(S)
  BY <1>2, <1>10 DEF RequeueDeadEvents
<1>11. ASSUME NEW r \in Rows, Write(r) \/ Lapse(r) \/ RequeueDead(r) \/ Expedite(r)
       PROVE  [Delivery!Next]_(Delivery!vars)
  BY <1>1, <1>6, <1>9, <1>11 DEF Delivery!Next
<1>12. ASSUME NEW n \in Nat, RequeueDeadEvents(n) PROVE [Delivery!Next]_(Delivery!vars)
  BY <1>10, <1>12 DEF Delivery!Next
<1>13. ASSUME NEW w \in Workers, Claim(w) PROVE [Delivery!Next]_(Delivery!vars)
  <2>1. NextBatch \in SUBSET Rows
    BY DEF NextBatch
  <2>2. QED
    BY <1>3, <1>13, <2>1 DEF Delivery!Next
<1>14. ASSUME NEW w \in Workers, Dispatch(w) PROVE [Delivery!Next]_(Delivery!vars)
  BY <1>4, <1>14 DEF Delivery!Next
<1>15. QED
  BY <1>5, <1>7, <1>8, <1>11, <1>12, <1>13, <1>14 DEF Next

(* The outbox implements at-least-once delivery, for any number of events, *)
(* workers, handlers and attempts: no event is published that a handler    *)
(* has not accepted, none is parked with its budget unspent, and none      *)
(* comes back once it is published.                                        *)
THEOREM OutboxDelivers == Spec => ImplementsDelivery
<1>1. Init => Delivery!Init
  BY InitDelivers
<1>2. DeliveryInv /\ DeliveryInv' /\ [Next]_vars => [Delivery!Next]_(Delivery!vars)
  BY NextDelivers
<1>3. Spec => []DeliveryInv
  BY DeliveryInvariant
<1>4. QED
  BY <1>1, <1>2, <1>3, PTL DEF Spec, ImplementsDelivery, Delivery!Spec

-----------------------------------------------------------------------------
(***************************************************************************)
(* The dead-letter bound.  A row still in circulation is ahead of its      *)
(* budget only by claims that have used it up and are not settled, which   *)
(* are in the hands of different workers, or were lost.                    *)
(***************************************************************************)

(* Workers that hold a last try of r.                                      *)
LastTries(r) ==
    {w \in Workers : \E c \in batch[w] : c.row = r /\ OutOfAttempts(c)}

BudgetHeld ==
    \A r \in Rows : ~dead[r] /\ ~published[r] =>
        attempts[r] + 1 <= MaxAttempts + Cardinality(LastTries(r)) + crashes + dberrors

BudgetInv == TypeOK /\ BudgetHeld /\ RetriesBounded

LEMMA SomeWorkers ==
    ASSUME NEW S \in SUBSET Workers
    PROVE  IsFiniteSet(S) /\ Cardinality(S) \in Nat
BY WorkersAssumption, FS_Subset, FS_CardinalityType

LEMMA LastTriesFinite ==
    \A r : /\ LastTries(r) \in SUBSET Workers
           /\ IsFiniteSet(LastTries(r))
           /\ Cardinality(LastTries(r)) \in Nat
BY SomeWorkers DEF LastTries

(* A worker that is let go of takes at most one last try of r with it.     *)
LEMMA OneFewer ==
    ASSUME NEW S, NEW T, NEW w, IsFiniteSet(S), IsFiniteSet(T), S \ {w} \subseteq T
    PROVE  Cardinality(S) <= Cardinality(T) + 1
<1>1. /\ IsFiniteSet(S \ {w})
      /\ Cardinality(S \ {w}) = IF w \in S THEN Cardinality(S) - 1 ELSE Cardinality(S)
  BY FS_RemoveElement
<1>2. /\ Cardinality(S) \in Nat
      /\ Cardinality(T) \in Nat
      /\ Cardinality(S \ {w}) \in Nat
  BY <1>1, FS_CardinalityType
<1>3. Cardinality(S \ {w}) <= Cardinality(T)
  BY FS_Subset
<1>4. QED
  BY <1>1, <1>2, <1>3

LEMMA InitBudgetInv == Init => BudgetInv
<1> SUFFICES ASSUME Init PROVE BudgetInv
  OBVIOUS
<1>1. \A r \in Rows : attempts[r] = 0
  BY DEF Init
<1>2. Cardinality(Workers) \in Nat
  BY WorkersAssumption, FS_CardinalityType
<1>3. crashes = 0 /\ dberrors = 0
  BY DEF Init
<1>4. BudgetHeld
  BY <1>1, <1>3, LastTriesFinite, AttemptsAssumption DEF BudgetHeld
<1>5. RetriesBounded
  BY <1>1, <1>2, <1>3, AttemptsAssumption DEF RetriesBounded
<1>6. QED
  BY InitTypeOK, <1>4, <1>5 DEF BudgetInv

(* A step that claims nothing keeps the bound when every row it leaves in  *)
(* circulation keeps its attempts, or starts again, and no last try is     *)
(* lost that a bound does not count.                                       *)
LEMMA BudgetKept ==
    ASSUME BudgetInv, TypeOK',
           \A r \in Rows :
               \/ attempts'[r] = attempts[r]
               \/ attempts'[r] = 0,
           \A r \in Rows : ~dead'[r] /\ ~published'[r] =>
               \/ attempts'[r] = 0
               \/ /\ ~dead[r] /\ ~published[r]
                  /\ Cardinality(LastTries(r)) + crashes + dberrors
                        <= Cardinality(LastTries(r)') + crashes' + dberrors',
           crashes' >= crashes, dberrors' >= dberrors
    PROVE  BudgetInv'
<1>1. Cardinality(Workers) \in Nat /\ MaxAttempts \in Nat \ {0}
  BY WorkersAssumption, AttemptsAssumption, FS_CardinalityType
<1>2. \A r : Cardinality(LastTries(r)) \in Nat /\ Cardinality(LastTries(r)') \in Nat
  <2>1. \A r : LastTries(r)' \in SUBSET Workers
    BY DEF LastTries
  <2>2. QED
    BY <2>1, SomeWorkers, LastTriesFinite
<1>3. /\ attempts \in [Rows -> Nat] /\ attempts' \in [Rows -> Nat]
      /\ crashes \in Nat /\ dberrors \in Nat /\ crashes' \in Nat /\ dberrors' \in Nat
  BY BoundsAssumption DEF BudgetInv, TypeOK
<1>4. BudgetHeld'
  BY <1>1, <1>2, <1>3 DEF BudgetInv, BudgetHeld
<1>5. RetriesBounded'
  BY <1>1, <1>3 DEF BudgetInv, RetriesBounded
<1>6. QED
  BY <1>4, <1>5 DEF BudgetInv

(* A last try that is lost is one more in what counts the losses.          *)
LEMMA OneCounted ==
    ASSUME NEW m \in Nat, NEW n \in Nat, m <= n + 1,
           NEW a \in Nat, NEW b \in Nat, NEW c \in Nat, NEW d \in Nat, c + d = a + b + 1
    PROVE  m + a + b <= n + c + d
OBVIOUS

(* Settling or losing a claim leaves the last tries of other workers.      *)
LEMMA LastTriesLeft ==
    ASSUME TypeOK, NEW w \in Workers, NEW r,
           \A v \in Workers \ {w} : batch'[v] = batch[v]
    PROVE  /\ LastTries(r) \ {w} \subseteq LastTries(r)'
           /\ Cardinality(LastTries(r)) <= Cardinality(LastTries(r)') + 1
           /\ Cardinality(LastTries(r)') \in Nat
<1>1. LastTries(r) \ {w} \subseteq LastTries(r)'
  BY DEF LastTries, OutOfAttempts
<1>2. LastTries(r)' \in SUBSET Workers
  BY DEF LastTries
<1>3. QED
  BY <1>1, <1>2, OneFewer, SomeWorkers, LastTriesFinite

LEMMA NextBudgetInv ==
    ASSUME BudgetInv, [Next]_vars
    PROVE  BudgetInv'
<1> USE DEF BudgetInv
<1>t. TypeOK'
  BY NextTypeOK
<1>n. \A r : Cardinality(LastTries(r)) \in Nat
  BY LastTriesFinite
<1>b. crashes \in Nat /\ dberrors \in Nat /\ attempts \in [Rows -> Nat]
  BY BoundsAssumption DEF TypeOK
<1>1. ASSUME UNCHANGED <<attempts, dead, published, batch, crashes, dberrors>>
      PROVE  BudgetInv'
  <2>1. \A r : LastTries(r)' = LastTries(r)
    BY <1>1 DEF LastTries, OutOfAttempts
  <2>2. QED
    BY <1>1, <1>t, <1>n, <1>b, <2>1, BudgetKept
<1>2. ASSUME NEW S \in SUBSET Rows, Unpark(S),
             UNCHANGED <<published, batch, crashes, dberrors>>
      PROVE  BudgetInv'
  <2>1. \A r : LastTries(r)' = LastTries(r)
    BY <1>2 DEF LastTries, OutOfAttempts
  <2>2. \A r \in Rows : IF r \in S THEN attempts'[r] = 0
                        ELSE attempts'[r] = attempts[r] /\ dead'[r] = dead[r]
    BY <1>2 DEF Unpark, TypeOK
  <2>3. QED
    BY <1>2, <1>t, <1>n, <1>b, <2>1, <2>2, BudgetKept
<1>3. ASSUME NEW w \in Workers, Claim(w) PROVE BudgetInv'
  <2>1. /\ NextBatch \subseteq Rows
        /\ \A r \in NextBatch : ~dead[r] /\ ~published[r]
    BY DEF NextBatch, Claimable
  <2>2. UNCHANGED <<dead, published, crashes, dberrors>>
    BY <1>3 DEF Claim, boundVars
  <2>3. /\ batch[w] = {}
        /\ batch'[w] = {Claimed(r) : r \in NextBatch}
        /\ \A v \in Workers \ {w} : batch'[v] = batch[v]
    BY <1>3 DEF Claim, TypeOK
  <2>4. \A r \in Rows : attempts'[r] = IF r \in NextBatch THEN attempts[r] + 1 ELSE attempts[r]
    BY <1>3 DEF Claim
  <2>5. \A r \in Rows \ NextBatch : LastTries(r)' = LastTries(r)
    BY <2>1, <2>3 DEF LastTries, OutOfAttempts, Claimed
  <2>6. ASSUME NEW r \in NextBatch
        PROVE  /\ attempts[r] + 1 <= MaxAttempts + (Cardinality(Workers) - 1) + crashes + dberrors
               /\ attempts[r] + 2 <= MaxAttempts + Cardinality(LastTries(r)') + crashes + dberrors
    <3>1. w \notin LastTries(r)
      BY <2>3 DEF LastTries
    <3>2. LastTries(r) \in SUBSET Workers /\ LastTries(r) \union {w} \in SUBSET Workers
      BY LastTriesFinite
    <3>3. Cardinality(LastTries(r) \union {w}) = Cardinality(LastTries(r)) + 1
      BY <3>1, LastTriesFinite, FS_AddElement
    <3>4. Cardinality(LastTries(r)) + 1 <= Cardinality(Workers)
      BY <3>2, <3>3, WorkersAssumption, FS_Subset
    <3>5. attempts[r] + 1 <= MaxAttempts + Cardinality(LastTries(r)) + crashes + dberrors
      BY <2>1 DEF BudgetHeld
    <3>6. Cardinality(Workers) \in Nat /\ MaxAttempts \in Nat
      BY WorkersAssumption, AttemptsAssumption, FS_CardinalityType
    <3>7. attempts[r] + 1 <= MaxAttempts + (Cardinality(Workers) - 1) + crashes + dberrors
      BY <1>n, <1>b, <2>1, <3>4, <3>5, <3>6
    <3>8. LastTries(r)' \in SUBSET Workers
      BY DEF LastTries
    <3>9. CASE attempts[r] + 1 >= MaxAttempts
      <4>1. LastTries(r)' = LastTries(r) \union {w}
        <5>1. Claimed(r) \in batch'[w] /\ Claimed(r).row = r /\ OutOfAttempts(Claimed(r))
          BY <2>3, <3>9 DEF Claimed, OutOfAttempts
        <5>2. QED
          BY <2>3, <5>1 DEF LastTries, OutOfAttempts
      <4>2. QED
        BY <1>n, <1>b, <2>1, <3>3, <3>5, <3>6, <3>7, <4>1
    <3>10. CASE attempts[r] + 1 < MaxAttempts
      BY <1>b, <2>1, <3>6, <3>7, <3>8, <3>10, SomeWorkers
    <3>11. QED
      BY <1>b, <2>1, <3>6, <3>9, <3>10
  <2>7. BudgetHeld'
    <3>1. \A r \in NextBatch : attempts'[r] + 1 = attempts[r] + 2
      BY <1>b, <2>1, <2>4
    <3>2. QED
      BY <2>2, <2>4, <2>5, <2>6, <3>1 DEF BudgetHeld
  <2>8. RetriesBounded'
    BY <2>1, <2>2, <2>4, <2>6 DEF RetriesBounded
  <2>9. QED
    BY <1>t, <2>7, <2>8
<1>4. ASSUME NEW w \in Workers, MarkPublished(w) \/ Park(w) PROVE BudgetInv'
  <2> DEFINE settled == outcome[w].claim.row
  <2>1. /\ UNCHANGED <<attempts, crashes, dberrors>>
        /\ \A r \in Rows : dead[r] => dead'[r]
        /\ \A r \in Rows : published[r] => published'[r]
    BY <1>4 DEF MarkPublished, Park, boundVars, TypeOK
  <2>2. settled \in Rows /\ (dead'[settled] \/ published'[settled])
    BY <1>4 DEF MarkPublished, Park, TypeOK, Outcomes, Claims
  <2>3. batch' = [batch EXCEPT ![w] = @ \ {outcome[w].claim}]
    BY <1>4 DEF MarkPublished, Park, Advance
  <2>4. \A r \in Rows \ {settled} : LastTries(r)' = LastTries(r)
    BY <2>3 DEF LastTries, OutOfAttempts, TypeOK
  <2>5. QED
    BY <1>t, <1>n, <1>b, <2>1, <2>2, <2>4, BudgetKept
<1>5. ASSUME NEW w \in Workers, Backoff(w) PROVE BudgetInv'
  <2>1. UNCHANGED <<attempts, dead, published, crashes, dberrors>>
    BY <1>5 DEF Backoff, boundVars
  <2>2. \A r : LastTries(r)' = LastTries(r)
    BY <1>5 DEF Backoff, Advance, LastTries, OutOfAttempts, TypeOK
  <2>3. QED
    BY <1>t, <1>n, <1>b, <2>1, <2>2, BudgetKept
<1>6. ASSUME NEW w \in Workers, OutcomeLost(w) \/ Crash(w) PROVE BudgetInv'
  <2>1. /\ UNCHANGED <<attempts, dead, published>>
        /\ crashes' + dberrors' = crashes + dberrors + 1
        /\ crashes' >= crashes /\ dberrors' >= dberrors
    BY <1>6, <1>b DEF OutcomeLost, Crash, rowVars
  <2>2. \A v \in Workers \ {w} : batch'[v] = batch[v]
    BY <1>6 DEF OutcomeLost, Advance, Crash, TypeOK
  <2>3. \A r : /\ Cardinality(LastTries(r)) <= Cardinality(LastTries(r)') + 1
               /\ Cardinality(LastTries(r)') \in Nat
    BY <2>2, LastTriesLeft
  <2>4. crashes' \in Nat /\ dberrors' \in Nat
    BY <1>t, BoundsAssumption DEF TypeOK
  <2>5. \A r : Cardinality(LastTries(r)) + crashes + dberrors
                 <= Cardinality(LastTries(r)') + crashes' + dberrors'
    BY <1>n, <1>b, <2>1, <2>3, <2>4, OneCounted
  <2>6. QED
    BY <1>t, <2>1, <2>5, BudgetKept
<1>7. ASSUME NEW r \in Rows, Write(r) \/ Lapse(r) \/ Expedite(r) PROVE BudgetInv'
  BY <1>1, <1>7 DEF Write, Lapse, Expedite, rowVars, workVars, boundVars
<1>8. ASSUME NEW r \in Rows, RequeueDead(r) PROVE BudgetInv'
  BY <1>2, <1>8 DEF RequeueDead, workVars
<1>9. ASSUME NEW n \in Nat, RequeueDeadEvents(n) PROVE BudgetInv'
  BY <1>2, <1>9 DEF RequeueDeadEvents, workVars
<1>10. ASSUME NEW w \in Workers, Dispatch(w) PROVE BudgetInv'
  BY <1>1, <1>10 DEF Dispatch, rowVars, boundVars
<1>11. CASE UNCHANGED vars
  BY <1>1, <1>11 DEF vars, rowVars, workVars, boundVars
<1>12. QED
  BY <1>3, <1>4, <1>5, <1>6, <1>7, <1>8, <1>9, <1>10, <1>11 DEF Next, Settle

(* No event is tried without end: for any number of workers, lost claims   *)
(* and repairs, attempts passes MaxAttempts by no more than the claims     *)
(* that can overlap and the outcomes that were lost.                       *)
THEOREM RetriesAreBounded == Spec => []RetriesBounded
<1>1. Init => BudgetInv
  BY InitBudgetInv
<1>2. BudgetInv /\ [Next]_vars => BudgetInv'
  BY NextBudgetInv
<1>3. BudgetInv => RetriesBounded
  BY DEF BudgetInv
<1>4. QED
  BY <1>1, <1>2, <1>3, PTL DEF Spec
=============================================================================
