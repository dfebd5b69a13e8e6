---------------------------- MODULE WebhooksProofs ----------------------------
(***************************************************************************)
(* What holds of webhooks for any endpoints, events, workers, batches and  *)
(* budgets: a row keeps what the outbox promises (it implements            *)
(* EventDelivery), and an endpoint accepts an event once, and once more at *)
(* most for each time the store could not know that it had.                *)
(***************************************************************************)
EXTENDS Webhooks, FiniteSetTheorems, TLAPS

(* A row that was not written says nothing.                                *)
RowsOK == \A d \in Deliveries : row[d].exists \/ row[d] = NoRow

(* A claim is of a row that was written, and is no attempt that was not    *)
(* begun; a worker has one claim of a row; what it posted it had claimed,  *)
(* and what was accepted was received.                                     *)
ClaimsOK ==
    /\ \A d \in Deliveries : row[d].attempts <= tries[d]
    /\ \A w \in Workers : \A c \in batch[w] :
          row[c.delivery].exists /\ c.attempts <= tries[c.delivery]
    /\ \A w \in Workers : \A b, c \in batch[w] : b.delivery = c.delivery => b = c
    /\ \A w \in Workers : posted[w] # NoClaim =>
          /\ posted[w].claim \in batch[w]
          /\ posted[w].ok => got[posted[w].claim.delivery] > 0

Holders(d) == {w \in Workers : Holds(w, d)}

(* Those of them that wait for no more than to write what came of it.      *)
Senders(d) == {w \in Workers : posted[w] # NoClaim /\ posted[w].claim.delivery = d}
Accepted(d) == {w \in Senders(d) : posted[w].ok}

(* No worker will claim the row again.                                     *)
Closed(d) == row[d].delivered \/ endpoint[d[1]] = "deleted"

(* While it may be claimed, each time it was accepted but the one a worker *)
(* is about to record is doubted, and so is each worker that holds it but  *)
(* one; and always, those that have yet to post it may do so once each.    *)
AcceptedOrDoubted(d) ==
    /\ ~Closed(d) =>
          got[d] + Cardinality(Holders(d)) <=
             doubts[d] + Cardinality(Accepted(d)) + (IF Holders(d) = {} THEN 0 ELSE 1)
    /\ got[d] + Cardinality(Holders(d) \ Senders(d)) <= 1 + doubts[d]

Explained == \A d \in Deliveries : AcceptedOrDoubted(d)

(* The inductive invariant.                                                *)
HooksInv == TypeOK /\ RowsOK /\ ClaimsOK /\ Explained

(* The counts of them that leave one worker out.                           *)
OthersHold(w, d) == Cardinality(Holders(d) \ {w})
OthersAccepted(w, d) == Cardinality(Accepted(d) \ {w})
OthersToPost(w, d) == Cardinality((Holders(d) \ Senders(d)) \ {w})
One(b) == IF b THEN 1 ELSE 0

(* AcceptedOrDoubted in numbers, with what one worker adds set apart.      *)
Fits(closed, g, x, h, a, u, holds, accepted, toPost) ==
    /\ ~closed => g + h + One(holds) <= x + a + One(accepted) + (IF h = 0 /\ ~holds THEN 0 ELSE 1)
    /\ g + u + One(toPost) <= 1 + x

Numbers ==
    \A w \in Workers, d \in Deliveries :
       /\ OthersHold(w, d) \in Nat /\ OthersAccepted(w, d) \in Nat /\ OthersToPost(w, d) \in Nat
       /\ AcceptedOrDoubted(d) <=>
             Fits(Closed(d), got[d], doubts[d], OthersHold(w, d), OthersAccepted(w, d), OthersToPost(w, d),
                  w \in Holders(d), w \in Accepted(d), w \in Holders(d) \ Senders(d))

-----------------------------------------------------------------------------
(* Types.                                                                  *)

LEMMA HookTypes ==
    ASSUME TypeOK
    PROVE  /\ \A d \in Deliveries : row[d] \in HookRows /\ row[d].attempts \in Nat
           /\ \A w \in Workers : \A c \in batch[w] :
                 c \in HookClaims /\ c.delivery \in Deliveries /\ c.attempts \in Nat \ {0}
           /\ \A w \in Workers : posted[w] # NoClaim =>
                 /\ posted[w] \in Outcomes /\ posted[w].claim \in HookClaims
                 /\ posted[w].claim.delivery \in Deliveries
                 /\ posted[w].claim.attempts \in Nat \ {0}
                 /\ posted[w].ok \in BOOLEAN
<1>1. \A d \in Deliveries : row[d] \in HookRows
  BY DEF TypeOK
<1>2. \A r \in HookRows : r.attempts \in Nat
  BY DEF HookRows
<1>3. \A c \in HookClaims : c.delivery \in Deliveries /\ c.attempts \in Nat \ {0}
  BY DEF HookClaims
<1>4. \A o \in Outcomes : o.claim \in HookClaims /\ o.ok \in BOOLEAN
  BY DEF Outcomes
<1>5. \A w \in Workers : \A c \in batch[w] : c \in HookClaims
  BY DEF TypeOK
<1>6. \A w \in Workers : posted[w] # NoClaim => posted[w] \in Outcomes
  BY DEF TypeOK
<1>7. QED
  BY <1>1, <1>2, <1>3, <1>4, <1>5, <1>6

LEMMA RowsOfTypes == NoRow \in HookRows /\ NewRow \in HookRows
  BY DEF NoRow, NewRow, HookRows

(* What an outcome writes of a row.                                        *)
LEMMA OutcomeRow ==
    ASSUME NEW c, NEW ok \in BOOLEAN, NEW r \in HookRows
    PROVE  /\ Outcome(c, ok, r) \in HookRows
           /\ Outcome(c, ok, r).exists = r.exists
           /\ Outcome(c, ok, r).attempts = r.attempts
           /\ ok => Outcome(c, ok, r).delivered
           /\ ok => Outcome(c, ok, r).dead = r.dead
           /\ ~ok => Outcome(c, ok, r).delivered = r.delivered
           /\ ~ok /\ c.attempts >= MaxAttempts => Outcome(c, ok, r).dead
           /\ ~ok /\ ~(c.attempts >= MaxAttempts) => Outcome(c, ok, r).dead = r.dead
<1>1. CASE ok
  BY <1>1 DEF Outcome, HookRows
<1>2. CASE ~ok /\ c.attempts >= MaxAttempts
  BY <1>2 DEF Outcome, HookRows
<1>3. CASE ~ok /\ ~(c.attempts >= MaxAttempts)
  BY <1>3 DEF Outcome, HookRows
<1>4. QED
  BY <1>1, <1>2, <1>3

LEMMA Bounds ==
    /\ BatchSize \in Nat /\ MaxAttempts \in Nat /\ MaxAttempts > 0
    /\ MaxDispatches \in Nat /\ MaxLost \in Nat /\ MaxRetries \in Nat
<1>1. {BatchSize, MaxAttempts} \subseteq Nat \ {0} /\ {MaxDispatches, MaxLost, MaxRetries} \subseteq Nat
  BY WebhooksAssumption
<1>2. QED
  BY <1>1

LEMMA OneMore ==
    /\ \A n \in Nat : 0 \in 0..n /\ \A m \in 0..n : m < n => m + 1 \in 0..n
    /\ \A n \in Nat : n + 1 \in Nat \ {0} /\ n + 1 \in Nat
  OBVIOUS

LEMMA TypesInit == HooksInit => TypeOK
<1> SUFFICES ASSUME HooksInit PROVE TypeOK
  OBVIOUS
<1>1. row \in [Deliveries -> HookRows] /\ batch \in [Workers -> SUBSET HookClaims]
  BY RowsOfTypes DEF HooksInit
<1>2. endpoint \in [Endpoints -> {"asks", "does not ask", "deleted"}]
  BY DEF HooksInit
<1>3. /\ dispatches \in [Events -> 0..MaxDispatches]
      /\ lost \in 0..MaxLost /\ retries \in 0..MaxRetries
  BY Bounds, OneMore DEF HooksInit
<1>4. QED
  BY <1>1, <1>2, <1>3 DEF HooksInit, TypeOK

LEMMA TypesNext == TypeOK /\ [HooksNext]_hookVars => TypeOK'
<1> SUFFICES ASSUME TypeOK, [HooksNext]_hookVars PROVE TypeOK'
  OBVIOUS
<1>0. /\ \A d \in Deliveries : tries[d] + 1 \in Nat /\ got[d] + 1 \in Nat /\ doubts[d] + 1 \in Nat
      /\ \A d \in Deliveries : row[d].attempts + 1 \in Nat \ {0}
  <2>1. \A d \in Deliveries : tries[d] \in Nat /\ got[d] \in Nat /\ doubts[d] \in Nat
    BY DEF TypeOK
  <2>2. QED
    BY <2>1, HookTypes, OneMore
<1>1. ASSUME NEW e \in Events, onEvent(e)
      PROVE  TypeOK'
  <2>1. row' \in [Deliveries -> HookRows]
    BY <1>1, RowsOfTypes DEF onEvent, TypeOK
  <2>2. dispatches' \in [Events -> 0..MaxDispatches]
    <3>1. dispatches[e] + 1 \in 0..MaxDispatches
      <4>1. dispatches[e] \in 0..MaxDispatches /\ dispatches[e] < MaxDispatches
        BY <1>1 DEF onEvent, TypeOK
      <4>2. QED
        BY <4>1, Bounds, OneMore
    <3>2. QED
      BY <1>1, <3>1 DEF onEvent, TypeOK
  <2>3. QED
    BY <1>1, <2>1, <2>2 DEF onEvent, TypeOK
<1>2. ASSUME NEW w \in Workers, Claim(w)
      PROVE  TypeOK'
  <2>1. PICK S \in SUBSET {d \in Deliveries : Claimable(d)} :
          /\ row' = [d \in Deliveries |->
                        IF d \in S THEN [row[d] EXCEPT !.attempts = @ + 1, !.due = FALSE] ELSE row[d]]
          /\ batch' = [batch EXCEPT ![w] = {[delivery |-> d, attempts |-> row[d].attempts + 1] : d \in S}]
          /\ tries' = [d \in Deliveries |-> IF d \in S THEN tries[d] + 1 ELSE tries[d]]
          /\ doubts' = [d \in Deliveries |->
                           IF d \in S /\ \E v \in Workers : Holds(v, d) THEN doubts[d] + 1 ELSE doubts[d]]
    BY <1>2 DEF Claim
  <2>2. \A d \in Deliveries : /\ row[d] \in HookRows
                              /\ [row[d] EXCEPT !.attempts = @ + 1, !.due = FALSE] \in HookRows
    BY <1>0, HookTypes DEF HookRows
  <2>3. row' \in [Deliveries -> HookRows]
    BY <2>1, <2>2
  <2>4. {[delivery |-> d, attempts |-> row[d].attempts + 1] : d \in S} \in SUBSET HookClaims
    BY <1>0 DEF HookClaims
  <2>5. batch' \in [Workers -> SUBSET HookClaims]
    BY <2>1, <2>4 DEF TypeOK
  <2>6. tries' \in [Deliveries -> Nat] /\ doubts' \in [Deliveries -> Nat]
    BY <1>0, <2>1 DEF TypeOK
  <2>7. QED
    BY <1>2, <2>3, <2>5, <2>6 DEF Claim, TypeOK
<1>3. ASSUME NEW w \in Workers, NEW c \in batch[w], NEW accepted \in BOOLEAN, NEW ok \in BOOLEAN,
             Post(w, c, accepted, ok)
      PROVE  TypeOK'
  <2>1. c \in HookClaims /\ c.delivery \in Deliveries
    BY HookTypes
  <2>2. [claim |-> c, ok |-> ok, accepted |-> accepted] \in Outcomes
    BY <2>1 DEF Outcomes
  <2>3. posted' \in [Workers -> Outcomes \cup {NoClaim}]
    BY <1>3, <2>2 DEF Post, TypeOK
  <2>4. got' \in [Deliveries -> Nat] /\ doubts' \in [Deliveries -> Nat]
    BY <1>0, <1>3, <2>1 DEF Post, TypeOK
  <2>5. QED
    BY <1>3, <2>3, <2>4 DEF Post, TypeOK
<1>4. ASSUME NEW w \in Workers, Settle(w)
      PROVE  TypeOK'
  <2> DEFINE d == posted[w].claim.delivery
  <2>1. posted[w] \in Outcomes /\ d \in Deliveries /\ posted[w].ok \in BOOLEAN
    BY <1>4, HookTypes DEF Settle, Outcomes
  <2>2. Outcome(posted[w].claim, posted[w].ok, row[d]) \in HookRows
    BY <2>1, HookTypes, OutcomeRow
  <2>3. row' \in [Deliveries -> HookRows]
    BY <1>4, <2>1, <2>2 DEF Settle, TypeOK
  <2>4. batch' \in [Workers -> SUBSET HookClaims] /\ posted' \in [Workers -> Outcomes \cup {NoClaim}]
    BY <1>4 DEF Settle, TypeOK
  <2>5. QED
    BY <1>4, <2>3, <2>4 DEF Settle, TypeOK
<1>5. ASSUME NEW w \in Workers, EndPass(w)
      PROVE  TypeOK'
  <2>1. doubts' \in [Deliveries -> Nat]
    BY <1>0, <1>5, HookTypes DEF EndPass, TypeOK
  <2>2. lost' \in 0..MaxLost
    <3>1. lost \in 0..MaxLost /\ lost < MaxLost /\ lost' = lost + 1
      BY <1>5 DEF EndPass, TypeOK
    <3>2. QED
      BY <3>1, Bounds, OneMore
  <2>3. QED
    BY <1>5, <2>1, <2>2 DEF EndPass, TypeOK
<1>6. ASSUME NEW d \in Deliveries, Lapse(d) \/ Retry(d)
      PROVE  TypeOK'
  <2>1. [row[d] EXCEPT !.due = TRUE] \in HookRows
    BY HookTypes DEF HookRows
  <2>2. row' \in [Deliveries -> HookRows]
    BY <1>6, <2>1, RowsOfTypes DEF Lapse, Retry, TypeOK
  <2>3. retries' \in 0..MaxRetries
    <3>1. CASE Lapse(d)
      BY <3>1 DEF Lapse, TypeOK
    <3>2. CASE Retry(d)
      <4>1. retries \in 0..MaxRetries /\ retries < MaxRetries /\ retries' = retries + 1
        BY <3>2 DEF Retry, TypeOK
      <4>2. QED
        BY <4>1, Bounds, OneMore
    <3>3. QED
      BY <1>6, <3>1, <3>2
  <2>4. QED
    BY <1>6, <2>2, <2>3 DEF Lapse, Retry, TypeOK
<1>7. ASSUME NEW p \in Endpoints, NEW to \in {"asks", "does not ask", "deleted"}, Change(p, to)
      PROVE  TypeOK'
  BY <1>7 DEF Change, TypeOK
<1>8. CASE UNCHANGED hookVars
  BY <1>8 DEF hookVars, TypeOK
<1>9. QED
  BY <1>1, <1>2, <1>3, <1>4, <1>5, <1>6, <1>7, <1>8 DEF HooksNext

-----------------------------------------------------------------------------
(* Claims.                                                                 *)

LEMMA RowsNext == TypeOK /\ RowsOK /\ [HooksNext]_hookVars => RowsOK'
<1> SUFFICES ASSUME TypeOK, RowsOK, [HooksNext]_hookVars, NEW d \in Deliveries
             PROVE  row'[d].exists \/ row'[d] = row[d]
  BY DEF RowsOK
<1>1. row[d] \in HookRows
  BY HookTypes
<1>2. ASSUME NEW e \in Events, onEvent(e)
      PROVE  row'[d].exists \/ row'[d] = row[d]
  BY <1>2 DEF onEvent, NewRow
<1>3. ASSUME NEW w \in Workers, Claim(w)
      PROVE  row'[d].exists \/ row'[d] = row[d]
  <2>1. PICK S \in SUBSET {q \in Deliveries : Claimable(q)} :
          row' = [q \in Deliveries |->
                     IF q \in S THEN [row[q] EXCEPT !.attempts = @ + 1, !.due = FALSE] ELSE row[q]]
    BY <1>3 DEF Claim
  <2>2. CASE d \in S
    <3>1. row[d].exists /\ row'[d] = [row[d] EXCEPT !.attempts = @ + 1, !.due = FALSE]
      BY <2>1, <2>2 DEF Claimable, Exists
    <3>2. QED
      BY <1>1, <3>1 DEF HookRows
  <2>3. CASE d \notin S
    BY <2>1, <2>3
  <2>4. QED
    BY <2>2, <2>3
<1>4. ASSUME NEW w \in Workers, Settle(w)
      PROVE  row'[d].exists \/ row'[d] = row[d]
  <2> DEFINE o == Outcome(posted[w].claim, posted[w].ok, row[d])
  <2>1. row'[d] = row[d] \/ (row[d].exists /\ row'[d] = o)
    BY <1>4 DEF Settle, Exists, TypeOK
  <2>2. o.exists = row[d].exists
    BY <1>1, <1>4, HookTypes, OutcomeRow DEF Settle
  <2>3. QED
    BY <2>1, <2>2
<1>5. ASSUME NEW q \in Deliveries, Lapse(q)
      PROVE  row'[d].exists \/ row'[d] = row[d]
  <2>1. row'[d] = row[d] \/ (row[d].exists /\ row'[d] = [row[d] EXCEPT !.due = TRUE])
    BY <1>5 DEF Lapse, Exists, TypeOK
  <2>2. QED
    BY <1>1, <2>1 DEF HookRows
<1>6. ASSUME NEW q \in Deliveries, Retry(q)
      PROVE  row'[d].exists \/ row'[d] = row[d]
  BY <1>6 DEF Retry, NewRow, TypeOK
<1>7. QED
  BY <1>2, <1>3, <1>4, <1>5, <1>6 DEF HooksNext, hookVars, Post, EndPass, Change

LEMMA ClaimsNext == TypeOK /\ TypeOK' /\ ClaimsOK /\ [HooksNext]_hookVars => ClaimsOK'
<1> SUFFICES ASSUME TypeOK, TypeOK', ClaimsOK, [HooksNext]_hookVars PROVE ClaimsOK'
  OBVIOUS
(* What only writes rows: none disappears or has its attempts raised.      *)
<1>1. ASSUME UNCHANGED <<batch, posted, tries, got>>,
             \A d \in Deliveries : /\ row[d].exists => row'[d].exists
                                   /\ row'[d].attempts <= tries[d]
      PROVE  ClaimsOK'
  BY <1>1, HookTypes DEF ClaimsOK
<1>2. \A d \in Deliveries : /\ row[d].attempts \in Nat /\ tries[d] \in Nat /\ got[d] \in Nat
                            /\ row[d].attempts <= tries[d]
  BY HookTypes DEF ClaimsOK, TypeOK
<1>3. ASSUME NEW e \in Events, onEvent(e)
      PROVE  ClaimsOK'
  <2>1. \A d \in Deliveries : row'[d] \in {row[d], NewRow}
    BY <1>3 DEF onEvent
  <2>2. QED
    BY <1>1, <1>2, <1>3, <2>1 DEF onEvent, NewRow
<1>4. ASSUME NEW w \in Workers, Claim(w)
      PROVE  ClaimsOK'
  <2>1. PICK S \in SUBSET {d \in Deliveries : Claimable(d)} :
          /\ row' = [d \in Deliveries |->
                        IF d \in S THEN [row[d] EXCEPT !.attempts = @ + 1, !.due = FALSE] ELSE row[d]]
          /\ batch' = [batch EXCEPT ![w] = {[delivery |-> d, attempts |-> row[d].attempts + 1] : d \in S}]
          /\ tries' = [d \in Deliveries |-> IF d \in S THEN tries[d] + 1 ELSE tries[d]]
    BY <1>4 DEF Claim
  <2>2. /\ batch[w] = {} /\ UNCHANGED <<posted, got>> /\ posted[w] = NoClaim
    BY <1>4 DEF Claim, ClaimsOK
  <2>3. \A d \in Deliveries : /\ row'[d].exists = row[d].exists
                              /\ row'[d].attempts = row[d].attempts + (IF d \in S THEN 1 ELSE 0)
                              /\ tries'[d] = tries[d] + (IF d \in S THEN 1 ELSE 0)
    <3>1. ASSUME NEW d \in Deliveries, d \in S
          PROVE  /\ row'[d].exists = row[d].exists /\ row'[d].attempts = row[d].attempts + 1
                 /\ tries'[d] = tries[d] + 1
      <4>1. /\ row'[d] = [row[d] EXCEPT !.attempts = @ + 1, !.due = FALSE]
            /\ tries'[d] = tries[d] + 1
        BY <2>1, <3>1
      <4>2. QED
        BY <4>1, HookTypes DEF HookRows
    <3>2. ASSUME NEW d \in Deliveries, d \notin S
          PROVE  row'[d] = row[d] /\ tries'[d] = tries[d]
      BY <2>1, <3>2
    <3>3. QED
      <4>1. SUFFICES ASSUME NEW d \in Deliveries
                     PROVE  /\ row'[d].exists = row[d].exists
                            /\ row'[d].attempts = row[d].attempts + (IF d \in S THEN 1 ELSE 0)
                            /\ tries'[d] = tries[d] + (IF d \in S THEN 1 ELSE 0)
        OBVIOUS
      <4>2. CASE d \in S
        BY <3>1, <4>2
      <4>3. CASE d \notin S
        BY <1>2, <3>2, <4>3
      <4>4. QED
        BY <4>2, <4>3
  <2>4. \A v \in Workers \ {w} : batch'[v] = batch[v]
    BY <2>1 DEF TypeOK
  <2>5. \A c \in batch'[w] : \E d \in S : c = [delivery |-> d, attempts |-> row[d].attempts + 1]
    BY <2>1 DEF TypeOK
  <2>6. \A d \in S : d \in Deliveries /\ row[d].exists
    BY DEF Claimable, Exists
  <2>7. \A d \in Deliveries : row'[d].attempts <= tries'[d] /\ tries[d] <= tries'[d]
    BY <1>2, <2>3
  <2>8. ASSUME NEW v \in Workers, NEW c \in batch'[v]
        PROVE  row'[c.delivery].exists /\ c.attempts <= tries'[c.delivery]
    <3>1. CASE v = w
      BY <1>2, <2>3, <2>5, <2>6, <3>1
    <3>2. CASE v # w
      BY <1>2, <2>3, <2>4, <2>7, <3>2, HookTypes DEF ClaimsOK
    <3>3. QED
      BY <3>1, <3>2
  <2>9. \A v \in Workers : \A b, c \in batch'[v] : b.delivery = c.delivery => b = c
    BY <2>4, <2>5 DEF ClaimsOK
  <2>10. \A v \in Workers : posted'[v] # NoClaim =>
            /\ posted'[v].claim \in batch'[v]
            /\ posted'[v].ok => got'[posted'[v].claim.delivery] > 0
    BY <2>2, <2>4 DEF ClaimsOK
  <2>11. QED
    BY <2>7, <2>8, <2>9, <2>10 DEF ClaimsOK
<1>5. ASSUME NEW w \in Workers, NEW c \in batch[w], NEW accepted \in BOOLEAN, NEW ok \in BOOLEAN,
             Post(w, c, accepted, ok)
      PROVE  ClaimsOK'
  <2>1. UNCHANGED <<row, batch, tries>> /\ c.delivery \in Deliveries
    BY <1>5, HookTypes DEF Post
  <2>0. \A d \in Deliveries : got'[d] = IF accepted /\ d = c.delivery THEN got[d] + 1 ELSE got[d]
    <3>1. CASE accepted
      BY <1>5, <2>1, <3>1 DEF Post, TypeOK
    <3>2. CASE ~accepted
      BY <1>5, <2>1, <3>2 DEF Post, TypeOK
    <3>3. QED
      BY <3>1, <3>2
  <2>2. \A d \in Deliveries : got'[d] >= got[d]
    BY <1>2, <2>0, <2>1
  <2>3. ok => got'[c.delivery] > 0
    BY <1>2, <1>5, <2>0, <2>1 DEF Post
  <2>4. posted'[w] = [claim |-> c, ok |-> ok, accepted |-> accepted]
    BY <1>5 DEF Post, TypeOK
  <2>5. ASSUME NEW v \in Workers, posted'[v] # NoClaim
        PROVE  /\ posted'[v].claim \in batch'[v]
               /\ posted'[v].ok => got'[posted'[v].claim.delivery] > 0
    <3>1. CASE v = w
      BY <2>1, <2>3, <2>4, <3>1
    <3>2. CASE v # w
      <4>1. posted'[v] = posted[v]
        BY <1>5, <3>2 DEF Post, TypeOK
      <4>2. posted[v].claim.delivery \in Deliveries
        BY <2>5, <4>1, HookTypes
      <4>3. got[posted[v].claim.delivery] \in Nat /\ got'[posted[v].claim.delivery] \in Nat
        BY <4>2 DEF TypeOK
      <4>4. QED
        BY <2>1, <2>2, <2>5, <4>1, <4>2, <4>3 DEF ClaimsOK
    <3>3. QED
      BY <3>1, <3>2
  <2>6. QED
    BY <2>1, <2>5 DEF ClaimsOK
<1>6. ASSUME NEW w \in Workers, Settle(w)
      PROVE  ClaimsOK'
  <2> DEFINE d == posted[w].claim.delivery
  <2>1. posted[w] \in Outcomes /\ d \in Deliveries /\ posted[w].ok \in BOOLEAN
    BY <1>6, HookTypes DEF Settle, Outcomes
  <2>2. UNCHANGED <<tries, got>>
    BY <1>6 DEF Settle
  <2>3. \A q \in Deliveries : row'[q].exists = row[q].exists /\ row'[q].attempts = row[q].attempts
    <3>1. /\ Outcome(posted[w].claim, posted[w].ok, row[d]).exists = row[d].exists
          /\ Outcome(posted[w].claim, posted[w].ok, row[d]).attempts = row[d].attempts
      BY <2>1, HookTypes, OutcomeRow
    <3>2. \A q \in Deliveries : row'[q] = row[q] \/ (q = d /\ row'[q] = Outcome(posted[w].claim, posted[w].ok, row[d]))
      BY <1>6, <2>1 DEF Settle, TypeOK
    <3>3. QED
      BY <3>1, <3>2
  <2>4. /\ \A v \in Workers : batch'[v] \subseteq batch[v]
        /\ \A v \in Workers \ {w} : batch'[v] = batch[v] /\ posted'[v] = posted[v]
        /\ posted'[w] = NoClaim
    BY <1>6 DEF Settle, TypeOK
  <2>5. \A v \in Workers : posted'[v] # NoClaim => posted'[v] = posted[v] /\ batch'[v] = batch[v]
    BY <2>4
  <2>6. QED
    BY <2>2, <2>3, <2>4, <2>5, HookTypes DEF ClaimsOK
<1>7. ASSUME NEW w \in Workers, EndPass(w)
      PROVE  ClaimsOK'
  <2>1. UNCHANGED <<tries, got, row>>
    BY <1>7 DEF EndPass
  <2>2. /\ \A v \in Workers : batch'[v] \subseteq batch[v]
        /\ \A v \in Workers \ {w} : batch'[v] = batch[v] /\ posted'[v] = posted[v]
        /\ posted'[w] = NoClaim
    BY <1>7 DEF EndPass, TypeOK
  <2>3. \A v \in Workers : posted'[v] # NoClaim => posted'[v] = posted[v] /\ batch'[v] = batch[v]
    BY <2>2
  <2>4. QED
    BY <2>1, <2>2, <2>3 DEF ClaimsOK
<1>8. ASSUME NEW q \in Deliveries, Lapse(q) \/ Retry(q)
      PROVE  ClaimsOK'
  <2>1. \A d \in Deliveries : row'[d] \in {row[d], NewRow, [row[d] EXCEPT !.due = TRUE]}
    BY <1>8 DEF Lapse, Retry, TypeOK
  <2>2. \A d \in Deliveries : /\ row[d].exists => row'[d].exists
                              /\ row'[d].attempts <= tries[d]
    BY <1>2, <2>1, HookTypes DEF NewRow, HookRows
  <2>3. QED
    BY <1>1, <1>8, <2>2 DEF Lapse, Retry
<1>9. ASSUME NEW p \in Endpoints, NEW to, Change(p, to)
      PROVE  ClaimsOK'
  BY <1>1, <1>2, <1>9 DEF Change
<1>10. CASE UNCHANGED hookVars
  BY <1>1, <1>2, <1>10 DEF hookVars
<1>11. QED
  BY <1>3, <1>4, <1>5, <1>6, <1>7, <1>8, <1>9, <1>10 DEF HooksNext

-----------------------------------------------------------------------------
(* What was accepted.                                                      *)

LEMMA Apart ==
    ASSUME NEW S, IsFiniteSet(S), NEW w
    PROVE  /\ Cardinality(S \ {w}) \in Nat
           /\ Cardinality(S) = Cardinality(S \ {w}) + One(w \in S)
           /\ S = {} <=> Cardinality(S \ {w}) = 0 /\ w \notin S
<1>1. IsFiniteSet(S \ {w}) /\ Cardinality(S \ {w}) \in Nat /\ Cardinality(S) \in Nat
  BY FS_Subset, FS_CardinalityType
<1>2. Cardinality(S) = Cardinality(S \ {w}) + One(w \in S)
  <2>1. Cardinality(S \ {w}) = IF w \in S THEN Cardinality(S) - 1 ELSE Cardinality(S)
    BY FS_RemoveElement
  <2>2. QED
    BY <1>1, <2>1 DEF One
<1>3. S \ {w} = {} <=> Cardinality(S \ {w}) = 0
  BY <1>1, FS_EmptySet
<1>4. QED
  BY <1>1, <1>2, <1>3

LEMMA InNumbers == TypeOK => Numbers
<1> SUFFICES ASSUME TypeOK, NEW w \in Workers, NEW d \in Deliveries
             PROVE  /\ OthersHold(w, d) \in Nat /\ OthersAccepted(w, d) \in Nat /\ OthersToPost(w, d) \in Nat
                    /\ AcceptedOrDoubted(d) <=>
                          Fits(Closed(d), got[d], doubts[d],
                               OthersHold(w, d), OthersAccepted(w, d), OthersToPost(w, d),
                               w \in Holders(d), w \in Accepted(d), w \in Holders(d) \ Senders(d))
  BY DEF Numbers
<1>1. IsFiniteSet(Holders(d)) /\ IsFiniteSet(Accepted(d)) /\ IsFiniteSet(Holders(d) \ Senders(d))
  <2>1. Holders(d) \subseteq Workers /\ Accepted(d) \subseteq Workers /\ Holders(d) \ Senders(d) \subseteq Workers
    BY DEF Holders, Accepted, Senders
  <2>2. IsFiniteSet(Workers)
    BY WebhooksAssumption
  <2>3. QED
    BY <2>1, <2>2, FS_Subset
<1>2. got[d] \in Nat /\ doubts[d] \in Nat
  BY DEF TypeOK
<1>3. /\ OthersHold(w, d) \in Nat
      /\ Cardinality(Holders(d)) = OthersHold(w, d) + One(w \in Holders(d))
      /\ Holders(d) = {} <=> OthersHold(w, d) = 0 /\ w \notin Holders(d)
  BY <1>1, Apart DEF OthersHold
<1>4. /\ OthersAccepted(w, d) \in Nat
      /\ Cardinality(Accepted(d)) = OthersAccepted(w, d) + One(w \in Accepted(d))
  BY <1>1, Apart DEF OthersAccepted
<1>5. /\ OthersToPost(w, d) \in Nat
      /\ Cardinality(Holders(d) \ Senders(d)) = OthersToPost(w, d) + One(w \in Holders(d) \ Senders(d))
  BY <1>1, Apart DEF OthersToPost
<1>7. One(w \in Holders(d)) \in Nat /\ One(w \in Accepted(d)) \in Nat /\ One(w \in Holders(d) \ Senders(d)) \in Nat
  BY DEF One
<1>8. QED
  BY <1>2, <1>3, <1>4, <1>5, <1>7 DEF AcceptedOrDoubted, Fits

(* A worker that is about to write what came of a row holds it, and it is  *)
(* the only claim of the row that the worker has.                          *)
LEMMA SendersHold ==
    ASSUME TypeOK, ClaimsOK, NEW d \in Deliveries
    PROVE  Accepted(d) \subseteq Senders(d) /\ Senders(d) \subseteq Holders(d)
  BY DEF ClaimsOK, Accepted, Senders, Holders, Holds

(* No step opens a row that no worker would claim.                         *)
LEMMA ClosedStays ==
    ASSUME TypeOK, RowsOK, [HooksNext]_hookVars, NEW d \in Deliveries, Closed(d)
    PROVE  Closed(d)'
<1> USE DEF Closed
<1>1. \A r \in HookRows : /\ [r EXCEPT !.due = TRUE].delivered = r.delivered
                          /\ [r EXCEPT !.attempts = @ + 1, !.due = FALSE].delivered = r.delivered
  BY DEF HookRows
<1>2. row[d] \in HookRows
  BY HookTypes
<1>3. row[d].delivered => row[d].exists
  BY DEF RowsOK, NoRow
<1>4. ASSUME NEW e \in Events, onEvent(e)
      PROVE  Closed(d)'
  BY <1>3, <1>4 DEF onEvent
<1>5. ASSUME NEW w \in Workers, Claim(w)
      PROVE  Closed(d)'
  <2>1. UNCHANGED endpoint /\ row'[d] \in {row[d], [row[d] EXCEPT !.attempts = @ + 1, !.due = FALSE]}
    BY <1>5 DEF Claim
  <2>2. QED
    BY <1>1, <1>2, <2>1
<1>6. ASSUME NEW w \in Workers, Settle(w)
      PROVE  Closed(d)'
  <2>1. UNCHANGED endpoint /\ row'[d] \in {row[d], Outcome(posted[w].claim, posted[w].ok, row[d])}
    BY <1>6 DEF Settle, TypeOK
  <2>2. posted[w].ok \in BOOLEAN
    BY <1>6, HookTypes DEF Settle
  <2>3. row[d].delivered => Outcome(posted[w].claim, posted[w].ok, row[d]).delivered
    BY <1>2, <2>2, OutcomeRow
  <2>4. QED
    BY <2>1, <2>3
<1>7. ASSUME NEW q \in Deliveries, Lapse(q) \/ Retry(q)
      PROVE  Closed(d)'
  <2>1. CASE Lapse(q)
    <3>1. UNCHANGED endpoint /\ row'[d] \in {row[d], [row[d] EXCEPT !.due = TRUE]}
      BY <2>1 DEF Lapse, TypeOK
    <3>2. QED
      BY <1>1, <1>2, <3>1
  <2>2. CASE Retry(q)
    <3>1. UNCHANGED endpoint /\ (row'[d] = row[d] \/ (~row[d].delivered /\ endpoint[d[1]] # "deleted"))
      <4>1. CASE q = d
        BY <2>2, <4>1 DEF Retry, Exists
      <4>2. CASE q # d
        <5>1. row \in [Deliveries -> HookRows] /\ row' = [row EXCEPT ![q] = NewRow] /\ UNCHANGED endpoint
          BY <2>2 DEF Retry, TypeOK
        <5>2. row'[d] = row[d]
          BY <4>2, <5>1
        <5>3. QED
          BY <5>1, <5>2
      <4>3. QED
        BY <4>1, <4>2
    <3>2. QED
      BY <3>1
  <2>3. QED
    BY <1>7, <2>1, <2>2
<1>8. ASSUME NEW p \in Endpoints, NEW to, Change(p, to)
      PROVE  Closed(d)'
  <2>1. d[1] \in Endpoints
    BY DEF Deliveries
  <2>2. QED
    BY <1>8, <2>1 DEF Change, TypeOK
<1>9. ASSUME UNCHANGED <<endpoint, row>>
      PROVE  Closed(d)'
  BY <1>9
<1>10. QED
  BY <1>4, <1>5, <1>6, <1>7, <1>8, <1>9 DEF HooksNext, hookVars, Post, EndPass

(* What tells nobody anything, and takes no claim, changes no count.       *)
LEMMA NothingTold ==
    ASSUME TypeOK, NEW d \in Deliveries, AcceptedOrDoubted(d), Closed(d) => Closed(d)',
           UNCHANGED <<batch, posted, got, doubts>>
    PROVE  AcceptedOrDoubted(d)'
<1>1. Holders(d)' = Holders(d)
  BY DEF Holders, Holds
<1>2. Senders(d)' = Senders(d)
  BY DEF Senders
<1>3. Accepted(d)' = Accepted(d)
  BY <1>2 DEF Accepted
<1>4. QED
  BY <1>1, <1>2, <1>3 DEF AcceptedOrDoubted

(* A worker's step leaves the others' claims and posts as they were.       *)
LEMMA OthersCount ==
    ASSUME NEW w \in Workers, NEW d \in Deliveries,
           \A v \in Workers \ {w} : batch'[v] = batch[v] /\ posted'[v] = posted[v]
    PROVE  /\ OthersHold(w, d)' = OthersHold(w, d)
           /\ OthersAccepted(w, d)' = OthersAccepted(w, d)
           /\ OthersToPost(w, d)' = OthersToPost(w, d)
<1>1. (Holders(d) \ {w})' = Holders(d) \ {w}
  BY DEF Holders, Holds
<1>2. (Accepted(d) \ {w})' = Accepted(d) \ {w}
  BY DEF Accepted, Senders
<1>3. ((Holders(d) \ Senders(d)) \ {w})' = (Holders(d) \ Senders(d)) \ {w}
  BY DEF Holders, Holds, Senders
<1>4. QED
  BY <1>1, <1>2, <1>3 DEF OthersHold, OthersAccepted, OthersToPost

(* So it is enough to look at the counts the worker itself changes.        *)
LEMMA OneWorker ==
    ASSUME TypeOK, Numbers, Numbers', Explained, NEW w \in Workers, NEW d \in Deliveries,
           \A v \in Workers \ {w} : batch'[v] = batch[v] /\ posted'[v] = posted[v],
           \A h, a, u \in Nat :
              /\ h = OthersHold(w, d) /\ a = OthersAccepted(w, d) /\ u = OthersToPost(w, d)
              /\ Fits(Closed(d), got[d], doubts[d], h, a, u,
                      w \in Holders(d), w \in Accepted(d), w \in Holders(d) \ Senders(d))
              => Fits(Closed(d)', got'[d], doubts'[d], h, a, u,
                      w \in Holders(d)', w \in Accepted(d)', w \in Holders(d)' \ Senders(d)')
    PROVE  AcceptedOrDoubted(d)'
<1>1. /\ OthersHold(w, d) \in Nat /\ OthersAccepted(w, d) \in Nat /\ OthersToPost(w, d) \in Nat
      /\ Fits(Closed(d), got[d], doubts[d], OthersHold(w, d), OthersAccepted(w, d), OthersToPost(w, d),
              w \in Holders(d), w \in Accepted(d), w \in Holders(d) \ Senders(d))
  BY DEF Numbers, Explained
<1>2. Fits(Closed(d)', got'[d], doubts'[d], OthersHold(w, d), OthersAccepted(w, d), OthersToPost(w, d),
           w \in Holders(d)', w \in Accepted(d)', w \in Holders(d)' \ Senders(d)')
  BY <1>1
<1>3. /\ OthersHold(w, d)' = OthersHold(w, d)
      /\ OthersAccepted(w, d)' = OthersAccepted(w, d)
      /\ OthersToPost(w, d)' = OthersToPost(w, d)
  BY OthersCount
<1>4. AcceptedOrDoubted(d)' <=>
         Fits(Closed(d)', got'[d], doubts'[d], OthersHold(w, d)', OthersAccepted(w, d)', OthersToPost(w, d)',
              w \in Holders(d)', w \in Accepted(d)', w \in Holders(d)' \ Senders(d)')
  BY DEF Numbers
<1>5. QED
  BY <1>2, <1>3, <1>4

LEMMA ExplainedInit == HooksInit => RowsOK /\ ClaimsOK /\ Explained
<1> SUFFICES ASSUME HooksInit PROVE RowsOK /\ ClaimsOK /\ Explained
  OBVIOUS
<1>1. RowsOK
  BY DEF HooksInit, RowsOK
<1>2. ClaimsOK
  <2>1. /\ \A d \in Deliveries : row[d].attempts = 0 /\ tries[d] = 0
        /\ \A w \in Workers : batch[w] = {} /\ posted[w] = NoClaim
    BY DEF HooksInit, NoRow
  <2>2. QED
    BY <2>1 DEF ClaimsOK
<1>3. ASSUME NEW d \in Deliveries
      PROVE  AcceptedOrDoubted(d)
  <2>1. Holders(d) = {} /\ Accepted(d) = {} /\ Holders(d) \ Senders(d) = {}
    BY DEF HooksInit, Holders, Holds, Accepted, Senders
  <2>2. got[d] = 0 /\ doubts[d] = 0
    BY DEF HooksInit
  <2>3. Cardinality(Holders(d)) = 0 /\ Cardinality(Accepted(d)) = 0 /\ Cardinality(Holders(d) \ Senders(d)) = 0
    BY <2>1, FS_EmptySet
  <2>4. QED
    BY <2>1, <2>2, <2>3 DEF AcceptedOrDoubted
<1>4. QED
  BY <1>1, <1>2, <1>3 DEF Explained

(* A claim doubts a row that another worker holds.                         *)
LEMMA ClaimExplained ==
    ASSUME TypeOK, TypeOK', ClaimsOK, Numbers, Numbers', Explained, NEW w \in Workers, Claim(w)
    PROVE  Explained'
<1>1. PICK S \in SUBSET {d \in Deliveries : Claimable(d)} :
        /\ row' = [d \in Deliveries |->
                      IF d \in S THEN [row[d] EXCEPT !.attempts = @ + 1, !.due = FALSE] ELSE row[d]]
        /\ batch' = [batch EXCEPT ![w] = {[delivery |-> d, attempts |-> row[d].attempts + 1] : d \in S}]
        /\ doubts' = [d \in Deliveries |->
                         IF d \in S /\ \E v \in Workers : Holds(v, d) THEN doubts[d] + 1 ELSE doubts[d]]
  BY DEF Claim
<1>2. batch[w] = {} /\ posted[w] = NoClaim /\ UNCHANGED <<endpoint, posted, got>>
  BY DEF Claim, ClaimsOK
<1>3. \A v \in Workers \ {w} : batch'[v] = batch[v] /\ posted'[v] = posted[v]
  BY <1>1, <1>2 DEF TypeOK
<1>4. SUFFICES ASSUME NEW d \in Deliveries PROVE AcceptedOrDoubted(d)'
  BY DEF Explained
<1>5. w \notin Holders(d) /\ w \notin Senders(d) /\ w \notin Accepted(d)
  BY <1>2 DEF Holders, Holds, Senders, Accepted
<1>6. w \notin Senders(d)' /\ w \notin Accepted(d)'
  BY <1>2 DEF Senders, Accepted
<1>7. w \in Holders(d)' <=> d \in S
  <2>1. batch'[w] = {[delivery |-> q, attempts |-> row[q].attempts + 1] : q \in S}
    BY <1>1 DEF TypeOK
  <2>2. \A c \in batch'[w] : c.delivery \in S
    BY <2>1
  <2>3. ASSUME NEW q \in S
        PROVE  \E c \in batch'[w] : c.delivery = q
    <3>1. [delivery |-> q, attempts |-> row[q].attempts + 1] \in batch'[w]
      BY <2>1
    <3>2. QED
      BY <3>1
  <2>4. QED
    BY <2>2, <2>3 DEF Holders, Holds
<1>8. got[d] \in Nat /\ doubts[d] \in Nat /\ got'[d] = got[d]
  BY <1>2 DEF TypeOK
<1>9. SUFFICES ASSUME NEW h \in Nat, NEW a \in Nat, NEW u \in Nat,
                      h = OthersHold(w, d), a = OthersAccepted(w, d), u = OthersToPost(w, d),
                      Fits(Closed(d), got[d], doubts[d], h, a, u,
                           w \in Holders(d), w \in Accepted(d), w \in Holders(d) \ Senders(d))
               PROVE  Fits(Closed(d)', got'[d], doubts'[d], h, a, u,
                           w \in Holders(d)', w \in Accepted(d)', w \in Holders(d)' \ Senders(d)')
  BY <1>3, OneWorker
<1>10. /\ ~Closed(d) => got[d] + h <= doubts[d] + a + (IF h = 0 THEN 0 ELSE 1)
       /\ got[d] + u <= 1 + doubts[d]
  BY <1>5, <1>8, <1>9 DEF Fits, One
<1>11. CASE d \notin S
  <2>1. row'[d] = row[d] /\ doubts'[d] = doubts[d] /\ endpoint' = endpoint
    BY <1>1, <1>2, <1>11
  <2>2. Closed(d)' <=> Closed(d)
    BY <2>1 DEF Closed
  <2>3. QED
    BY <1>5, <1>6, <1>7, <1>8, <1>10, <1>11, <2>1, <2>2 DEF Fits, One
<1>12. CASE d \in S
  <2>1. ~Closed(d)
    BY <1>12 DEF Claimable, Exists, Closed
  <2>2. CASE Holders(d) = {}
    <3>1. ~\E v \in Workers : Holds(v, d)
      BY <2>2 DEF Holders
    <3>2. doubts'[d] = doubts[d]
      BY <1>1, <3>1
    <3>3. Holders(d) \ {w} = {} /\ Accepted(d) \ {w} = {}  /\ (Holders(d) \ Senders(d)) \ {w} = {}
      BY <2>2, SendersHold
    <3>4. h = 0 /\ a = 0 /\ u = 0
      BY <1>9, <3>3, FS_EmptySet DEF OthersHold, OthersAccepted, OthersToPost
    <3>5. got[d] <= doubts[d]
      BY <1>8, <1>10, <2>1, <3>4
    <3>6. QED
      BY <1>6, <1>7, <1>8, <1>12, <3>2, <3>4, <3>5 DEF Fits, One
  <2>3. CASE Holders(d) # {}
    <3>1. \E v \in Workers : Holds(v, d)
      BY <2>3 DEF Holders
    <3>2. doubts'[d] = doubts[d] + 1
      BY <1>1, <1>12, <3>1
    <3>3. QED
      BY <1>6, <1>7, <1>8, <1>10, <1>12, <2>1, <3>2 DEF Fits, One
  <2>4. QED
    BY <2>2, <2>3
<1>13. QED
  BY <1>11, <1>12

(* A post is what its worker had yet to do, and the answer that did not    *)
(* come is doubted.                                                        *)
LEMMA PostExplained ==
    ASSUME TypeOK, TypeOK', ClaimsOK, Numbers, Numbers', Explained, NEW w \in Workers,
           NEW c \in batch[w], NEW accepted \in BOOLEAN, NEW ok \in BOOLEAN, Post(w, c, accepted, ok)
    PROVE  Explained'
<1>1. /\ posted[w] = NoClaim /\ (ok => accepted) /\ UNCHANGED <<endpoint, row, batch>>
      /\ posted' = [posted EXCEPT ![w] = [claim |-> c, ok |-> ok, accepted |-> accepted]]
  BY DEF Post
<1>2. \A v \in Workers \ {w} : batch'[v] = batch[v] /\ posted'[v] = posted[v]
  BY <1>1 DEF TypeOK
<1>3. posted'[w] = [claim |-> c, ok |-> ok, accepted |-> accepted]
  BY <1>1 DEF TypeOK
<1>4. posted'[w] # NoClaim
  <2>1. c \in HookClaims
    BY HookTypes
  <2>2. QED
    BY <1>3, <2>1, NoClaimAssumption DEF Outcomes
<1>5. SUFFICES ASSUME NEW d \in Deliveries PROVE AcceptedOrDoubted(d)'
  BY DEF Explained
<1>6. w \notin Senders(d) /\ w \notin Accepted(d)
  BY <1>1 DEF Senders, Accepted
<1>7. /\ w \in Senders(d)' <=> d = c.delivery
      /\ w \in Accepted(d)' <=> d = c.delivery /\ ok
  BY <1>3, <1>4 DEF Senders, Accepted
<1>8. w \in Holders(d)' <=> w \in Holders(d)
  BY <1>1 DEF Holders, Holds
<1>9. d = c.delivery => w \in Holders(d)
  BY DEF Holders, Holds
<1>10. /\ got[d] \in Nat /\ doubts[d] \in Nat
       /\ Closed(d)' <=> Closed(d)
  BY <1>1 DEF TypeOK, Closed
<1>11. SUFFICES ASSUME NEW h \in Nat, NEW a \in Nat, NEW u \in Nat,
                       h = OthersHold(w, d), a = OthersAccepted(w, d), u = OthersToPost(w, d),
                       Fits(Closed(d), got[d], doubts[d], h, a, u,
                            w \in Holders(d), w \in Accepted(d), w \in Holders(d) \ Senders(d))
                PROVE  Fits(Closed(d)', got'[d], doubts'[d], h, a, u,
                            w \in Holders(d)', w \in Accepted(d)', w \in Holders(d)' \ Senders(d)')
  BY <1>2, OneWorker
<1>12. CASE d # c.delivery
  <2>1. got'[d] = got[d] /\ doubts'[d] = doubts[d]
    BY <1>12 DEF Post, TypeOK
  <2>2. QED
    BY <1>6, <1>7, <1>8, <1>10, <1>11, <1>12, <2>1 DEF Fits, One
<1>13. CASE d = c.delivery
  <2>1. /\ ~Closed(d) => got[d] + h + 1 <= doubts[d] + a + 1
        /\ got[d] + u + 1 <= 1 + doubts[d]
    BY <1>6, <1>9, <1>10, <1>11, <1>13 DEF Fits, One
  <2>2. w \in Holders(d)' /\ w \in Senders(d)' /\ (w \in Accepted(d)' <=> ok)
    BY <1>7, <1>8, <1>9, <1>13
  <2>3. CASE accepted /\ ok
    <3>1. got'[d] = got[d] + 1 /\ doubts'[d] = doubts[d]
      BY <1>13, <2>3 DEF Post, TypeOK
    <3>2. QED
      BY <1>10, <2>1, <2>2, <2>3, <3>1 DEF Fits, One
  <2>4. CASE accepted /\ ~ok
    <3>1. got'[d] = got[d] + 1 /\ doubts'[d] = doubts[d] + 1
      BY <1>13, <2>4 DEF Post, TypeOK
    <3>2. QED
      BY <1>10, <2>1, <2>2, <2>4, <3>1 DEF Fits, One
  <2>5. CASE ~accepted
    <3>1. got'[d] = got[d] /\ doubts'[d] = doubts[d] /\ ~ok
      BY <2>5 DEF Post
    <3>2. QED
      BY <1>10, <2>1, <2>2, <3>1 DEF Fits, One
  <2>6. QED
    BY <2>3, <2>4, <2>5
<1>14. QED
  BY <1>12, <1>13

(* What a worker has written it no longer holds, and a row that was        *)
(* accepted is closed.                                                     *)
LEMMA SettleExplained ==
    ASSUME TypeOK, TypeOK', RowsOK, ClaimsOK, Numbers, Numbers', Explained, NEW w \in Workers, Settle(w),
           \A d \in Deliveries : Closed(d) => Closed(d)'
    PROVE  Explained'
<1>0. PICK c, ok : c = posted[w].claim /\ ok = posted[w].ok
  OBVIOUS
<1>1. /\ posted[w] # NoClaim /\ UNCHANGED <<endpoint, got, doubts>>
      /\ posted'[w] = NoClaim /\ batch'[w] = batch[w] \ {c}
  BY <1>0 DEF Settle, TypeOK
<1>2. \A v \in Workers \ {w} : batch'[v] = batch[v] /\ posted'[v] = posted[v]
  BY DEF Settle, TypeOK
<1>3. c \in batch[w] /\ c.delivery \in Deliveries /\ ok \in BOOLEAN
  BY <1>0, <1>1, HookTypes DEF ClaimsOK
<1>4. ok => Closed(c.delivery)'
  <2>2. row[c.delivery].exists /\ row[c.delivery] \in HookRows
    BY <1>3, HookTypes DEF ClaimsOK
  <2>3. CASE endpoint[c.delivery[1]] = "deleted"
    BY <1>1, <2>3 DEF Closed
  <2>4. CASE endpoint[c.delivery[1]] # "deleted"
    <3>1. row'[c.delivery] = Outcome(c, ok, row[c.delivery])
      <4>1. Exists(c.delivery)
        BY <2>2, <2>4 DEF Exists
      <4>2. row' = [row EXCEPT ![c.delivery] = Outcome(c, ok, @)]
        BY <1>0, <4>1 DEF Settle
      <4>3. row \in [Deliveries -> HookRows] /\ c.delivery \in Deliveries
        BY <1>3 DEF TypeOK
      <4>4. QED
        BY <1>3, <4>2, <4>3
    <3>2. ok => row'[c.delivery].delivered
      <4>1. PICK r \in HookRows : r = row[c.delivery]
        BY <2>2
      <4>2. ok => Outcome(c, ok, r).delivered
        BY <1>3, OutcomeRow
      <4>3. QED
        BY <3>1, <4>1, <4>2
    <3>3. QED
      BY <3>2 DEF Closed
  <2>5. QED
    BY <2>3, <2>4
<1>5. SUFFICES ASSUME NEW d \in Deliveries PROVE AcceptedOrDoubted(d)'
  BY DEF Explained
<1>6. w \notin Senders(d)' /\ w \notin Accepted(d)'
  BY <1>1 DEF Senders, Accepted
<1>7. /\ w \in Senders(d) <=> d = c.delivery
      /\ w \in Accepted(d) <=> d = c.delivery /\ ok
  BY <1>0, <1>1 DEF Senders, Accepted
<1>8. d # c.delivery => (w \in Holders(d)' <=> w \in Holders(d))
  BY <1>1 DEF Holders, Holds
<1>9. d = c.delivery => w \in Holders(d) /\ w \notin Holders(d)'
  <2>1. d = c.delivery => w \in Holders(d)
    BY <1>3 DEF Holders, Holds
  <2>2. \A b \in batch[w] : b.delivery = c.delivery => b = c
    BY <1>3 DEF ClaimsOK
  <2>3. d = c.delivery => w \notin Holders(d)'
    BY <1>1, <2>2 DEF Holders, Holds
  <2>4. QED
    BY <2>1, <2>3
<1>10. /\ got[d] \in Nat /\ doubts[d] \in Nat /\ got'[d] = got[d] /\ doubts'[d] = doubts[d]
       /\ Closed(d) => Closed(d)'
  BY <1>1 DEF TypeOK
<1>11. SUFFICES ASSUME NEW h \in Nat, NEW a \in Nat, NEW u \in Nat,
                       h = OthersHold(w, d), a = OthersAccepted(w, d), u = OthersToPost(w, d),
                       Fits(Closed(d), got[d], doubts[d], h, a, u,
                            w \in Holders(d), w \in Accepted(d), w \in Holders(d) \ Senders(d))
                PROVE  Fits(Closed(d)', got'[d], doubts'[d], h, a, u,
                            w \in Holders(d)', w \in Accepted(d)', w \in Holders(d)' \ Senders(d)')
  BY <1>2, OneWorker
<1>12. CASE d # c.delivery
  BY <1>6, <1>7, <1>8, <1>10, <1>11, <1>12 DEF Fits, One
<1>13. CASE d = c.delivery /\ ok
  <2>1. Closed(d)'
    BY <1>4, <1>13
  <2>2. got[d] + u <= 1 + doubts[d]
    BY <1>7, <1>9, <1>10, <1>11, <1>13 DEF Fits, One
  <2>3. QED
    BY <1>6, <1>9, <1>10, <1>13, <2>1, <2>2 DEF Fits, One
<1>14. CASE d = c.delivery /\ ~ok
  BY <1>6, <1>7, <1>9, <1>10, <1>11, <1>14 DEF Fits, One
<1>15. QED
  BY <1>12, <1>13, <1>14

(* A pass that ends doubts what it had accepted and not written.           *)
LEMMA EndPassExplained ==
    ASSUME TypeOK, TypeOK', ClaimsOK, Numbers, Numbers', Explained, NEW w \in Workers, EndPass(w)
    PROVE  Explained'
<1>1. UNCHANGED <<endpoint, row, got>> /\ posted'[w] = NoClaim /\ batch'[w] = {}
  BY DEF EndPass, TypeOK
<1>2. \A v \in Workers \ {w} : batch'[v] = batch[v] /\ posted'[v] = posted[v]
  BY DEF EndPass, TypeOK
<1>3. SUFFICES ASSUME NEW d \in Deliveries PROVE AcceptedOrDoubted(d)'
  BY DEF Explained
<1>4. w \notin Senders(d)' /\ w \notin Accepted(d)' /\ w \notin Holders(d)'
  BY <1>1 DEF Senders, Accepted, Holders, Holds
<1>5. w \in Accepted(d) => w \in Senders(d) /\ w \in Holders(d)
  BY SendersHold
<1>6. /\ got[d] \in Nat /\ doubts[d] \in Nat /\ got'[d] = got[d]
      /\ Closed(d)' <=> Closed(d)
  BY <1>1 DEF TypeOK, Closed
<1>7. doubts'[d] = IF w \in Accepted(d) THEN doubts[d] + 1 ELSE doubts[d]
  <2>1. w \in Accepted(d) <=> posted[w] # NoClaim /\ posted[w].ok /\ posted[w].claim.delivery = d
    BY DEF Accepted, Senders
  <2>2. CASE posted[w] # NoClaim /\ posted[w].ok
    <3>1. doubts' = [doubts EXCEPT ![posted[w].claim.delivery] = @ + 1]
      BY <2>2 DEF EndPass
    <3>2. QED
      BY <2>1, <2>2, <3>1 DEF TypeOK
  <2>3. CASE ~(posted[w] # NoClaim /\ posted[w].ok)
    <3>1. doubts' = doubts
      BY <2>3 DEF EndPass
    <3>2. QED
      BY <2>1, <2>3, <3>1
  <2>4. QED
    BY <2>2, <2>3
<1>8. SUFFICES ASSUME NEW h \in Nat, NEW a \in Nat, NEW u \in Nat,
                      h = OthersHold(w, d), a = OthersAccepted(w, d), u = OthersToPost(w, d),
                      Fits(Closed(d), got[d], doubts[d], h, a, u,
                           w \in Holders(d), w \in Accepted(d), w \in Holders(d) \ Senders(d))
               PROVE  Fits(Closed(d)', got'[d], doubts'[d], h, a, u,
                           w \in Holders(d)', w \in Accepted(d)', w \in Holders(d)' \ Senders(d)')
  BY <1>2, OneWorker
<1>9. CASE w \in Accepted(d)
  BY <1>4, <1>5, <1>6, <1>7, <1>8, <1>9 DEF Fits, One
<1>10. CASE w \notin Accepted(d)
  BY <1>4, <1>6, <1>7, <1>8, <1>10 DEF Fits, One
<1>11. QED
  BY <1>9, <1>10

LEMMA ExplainedNext ==
    TypeOK /\ TypeOK' /\ RowsOK /\ ClaimsOK /\ Numbers /\ Numbers' /\ Explained /\ [HooksNext]_hookVars
    => Explained'
<1> SUFFICES ASSUME TypeOK, TypeOK', RowsOK, ClaimsOK, Numbers, Numbers', Explained, [HooksNext]_hookVars
             PROVE  Explained'
  OBVIOUS
<1>1. \A d \in Deliveries : Closed(d) => Closed(d)'
  BY ClosedStays
<1>2. ASSUME UNCHANGED <<batch, posted, got, doubts>>
      PROVE  Explained'
  BY <1>1, <1>2, NothingTold DEF Explained
<1>3. ASSUME NEW w \in Workers, Claim(w)
      PROVE  Explained'
  BY <1>3, ClaimExplained
<1>4. ASSUME NEW w \in Workers, NEW c \in batch[w], NEW accepted \in BOOLEAN, NEW ok \in BOOLEAN,
             Post(w, c, accepted, ok)
      PROVE  Explained'
  BY <1>4, PostExplained
<1>5. ASSUME NEW w \in Workers, Settle(w)
      PROVE  Explained'
  BY <1>1, <1>5, SettleExplained
<1>6. ASSUME NEW w \in Workers, EndPass(w)
      PROVE  Explained'
  BY <1>6, EndPassExplained
<1>7. QED
  BY <1>2, <1>3, <1>4, <1>5, <1>6 DEF HooksNext, hookVars, onEvent, Lapse, Retry, Change

-----------------------------------------------------------------------------
(* The inductive invariant, and what it is for.                            *)

LEMMA HooksInvHolds == HooksSpec => []HooksInv
<1>1. HooksInit => HooksInv
  BY TypesInit, ExplainedInit DEF HooksInv
<1>2. HooksInv /\ [HooksNext]_hookVars => TypeOK'
  BY TypesNext DEF HooksInv
<1>3. TypeOK => Numbers
  BY InNumbers
<1>4. TypeOK' => Numbers'
  BY InNumbers, PTL
<1>5. HooksInv /\ [HooksNext]_hookVars => HooksInv'
  <2>1. SUFFICES ASSUME HooksInv, [HooksNext]_hookVars PROVE HooksInv'
    OBVIOUS
  <2>2. TypeOK /\ TypeOK' /\ RowsOK /\ ClaimsOK /\ Explained /\ Numbers /\ Numbers'
    BY <1>2, <1>3, <1>4, <2>1 DEF HooksInv
  <2>3. RowsOK' /\ ClaimsOK' /\ Explained'
    BY <2>1, <2>2, RowsNext, ClaimsNext, ExplainedNext
  <2>4. QED
    BY <2>2, <2>3 DEF HooksInv
<1>6. QED
  BY <1>1, <1>5, PTL DEF HooksSpec

(* Each variable stays in its type, whatever endpoints, events and budgets *)
(* there are.                                                              *)
THEOREM TypeCorrect == HooksSpec => []TypeOK
<1>1. HooksInv => TypeOK
  BY DEF HooksInv
<1>2. QED
  BY <1>1, HooksInvHolds, PTL

(* An endpoint accepts an event once, and once more at most for each time  *)
(* the store could not know that it had: for any number of workers that    *)
(* claim, post, fail and are late in any order.                            *)
THEOREM RepeatsExplained == HooksSpec => []RepeatsAreExplained
<1>1. HooksInv => RepeatsAreExplained
  <2>1. SUFFICES ASSUME HooksInv, NEW d \in Deliveries PROVE got[d] <= 1 + doubts[d]
    BY DEF RepeatsAreExplained
  <2>2. got[d] \in Nat /\ doubts[d] \in Nat
    BY <2>1 DEF HooksInv, TypeOK
  <2>3. Cardinality(Holders(d) \ Senders(d)) \in Nat
    <3>1. IsFiniteSet(Workers) /\ Holders(d) \ Senders(d) \subseteq Workers
      BY WebhooksAssumption DEF Holders
    <3>2. QED
      BY <3>1, FS_Subset, FS_CardinalityType
  <2>4. got[d] + Cardinality(Holders(d) \ Senders(d)) <= 1 + doubts[d]
    BY <2>1 DEF HooksInv, Explained, AcceptedOrDoubted
  <2>5. QED
    BY <2>2, <2>3, <2>4
<1>2. QED
  BY <1>1, HooksInvHolds, PTL

-----------------------------------------------------------------------------
(* Every step of the module is a step of EventDelivery, or changes nothing *)
(* that an endpoint or an operator can see.                                *)

LEMMA InitDelivers == HooksInit => Delivery!Init
<1> SUFFICES ASSUME HooksInit PROVE Delivery!Init
  OBVIOUS
<1>1. \A d \in Deliveries : row[d] = NoRow /\ got[d] = 0
  BY DEF HooksInit
<1>2. \A d \in Deliveries : State(d) = "unwritten"
  BY <1>1 DEF State, NoRow
<1>3. tries = [d \in Deliveries |-> 0]
  BY DEF HooksInit
<1>4. QED
  BY <1>1, <1>2, <1>3 DEF Delivery!Init

LEMMA StateOf ==
    ASSUME NEW d \in Deliveries, row'[d].exists = row[d].exists, row'[d].delivered = row[d].delivered,
           row'[d].dead = row[d].dead
    PROVE  State(d)' = State(d)
  BY DEF State

LEMMA NextDelivers ==
    ASSUME HooksInv, [HooksNext]_hookVars
    PROVE  [Delivery!Next]_(Delivery!vars)
<1> DEFINE st == [d \in Deliveries |-> State(d)]
           acc == [d \in Deliveries |-> IF got[d] = 0 THEN {} ELSE {"the endpoint"}]
<1>0. TypeOK /\ RowsOK /\ ClaimsOK
  BY DEF HooksInv
<1>1. \A d \in Deliveries : row[d] \in HookRows /\ row[d].exists \in BOOLEAN
                            /\ row[d].delivered \in BOOLEAN /\ row[d].dead \in BOOLEAN
  BY <1>0, HookTypes DEF HookRows
<1>2. ASSUME UNCHANGED <<got, tries>>,
             \A d \in Deliveries : State(d)' = State(d)
      PROVE  UNCHANGED Delivery!vars
  <2>1. st' = st /\ acc' = acc
    BY <1>2
  <2>2. QED
    BY <1>2, <2>1 DEF Delivery!vars
<1>3. ASSUME NEW e \in Events, onEvent(e)
      PROVE  \E S \in SUBSET Deliveries : Delivery!Append(S)
  <2> DEFINE S == {d \in Deliveries : d[2] = e /\ endpoint[d[1]] = "asks" /\ ~row[d].exists}
  <2>1. \A d \in S : st[d] = "unwritten"
    <3>1. SUFFICES ASSUME NEW d \in Deliveries, ~row[d].exists PROVE State(d) = "unwritten"
      OBVIOUS
    <3>2. QED
      BY <1>0, <3>1 DEF RowsOK, NoRow, State
  <2>2. \A d \in Deliveries : State(d)' = IF d \in S THEN "pending" ELSE st[d]
    BY <1>3 DEF onEvent, State, NewRow
  <2>3. st' = [d \in Deliveries |-> IF d \in S THEN "pending" ELSE st[d]]
    BY <2>2
  <2>4. UNCHANGED <<acc, tries>>
    BY <1>3 DEF onEvent
  <2>5. Delivery!Append(S)
    BY <2>1, <2>3, <2>4 DEF Delivery!Append
  <2>6. QED
    BY <2>5
<1>4. ASSUME NEW w \in Workers, Claim(w)
      PROVE  \E S \in SUBSET Deliveries : Delivery!Try(S)
  <2>1. PICK S \in SUBSET {d \in Deliveries : Claimable(d)} :
          /\ row' = [d \in Deliveries |->
                        IF d \in S THEN [row[d] EXCEPT !.attempts = @ + 1, !.due = FALSE] ELSE row[d]]
          /\ tries' = [d \in Deliveries |-> IF d \in S THEN tries[d] + 1 ELSE tries[d]]
    BY <1>4 DEF Claim
  <2>2. \A d \in S : st[d] = "pending"
    BY DEF Claimable, Exists, State
  <2>3. ASSUME NEW d \in Deliveries
        PROVE  State(d)' = State(d)
    <3>1. CASE d \in S
      <4>1. row'[d] = [row[d] EXCEPT !.attempts = @ + 1, !.due = FALSE]
        BY <2>1, <3>1
      <4>2. QED
        BY <1>1, <4>1, StateOf DEF HookRows
    <3>2. CASE d \notin S
      BY <2>1, <3>2, StateOf
    <3>3. QED
      BY <3>1, <3>2
  <2>4. st' = st /\ acc' = acc
    BY <1>4, <2>3 DEF Claim
  <2>5. Delivery!Try(S)
    BY <2>1, <2>2, <2>4 DEF Delivery!Try
  <2>6. QED
    BY <2>5
<1>5. ASSUME NEW w \in Workers, NEW c \in batch[w], NEW accepted \in BOOLEAN, NEW ok \in BOOLEAN,
             Post(w, c, accepted, ok)
      PROVE  [Delivery!Next]_(Delivery!vars)
  <2> DEFINE d == c.delivery
  <2>1. d \in Deliveries /\ row[d].exists /\ got[d] \in Nat
    BY <1>0, HookTypes DEF ClaimsOK, TypeOK
  <2>2. UNCHANGED <<row, tries>> /\ st' = st
    BY <1>5 DEF Post, State
  <2>3. CASE accepted
    <3>1. got' = [got EXCEPT ![d] = @ + 1] /\ got \in [Deliveries -> Nat]
      BY <1>0, <1>5, <2>3 DEF Post, TypeOK
    <3>2. acc' = [acc EXCEPT ![d] = @ \cup {"the endpoint"}]
      <4>1. got'[d] # 0 /\ \A q \in Deliveries : q # d => got'[q] = got[q]
        BY <2>1, <3>1
      <4>2. QED
        BY <2>1, <4>1
    <3>3. st[d] # "unwritten"
      BY <2>1 DEF State
    <3>4. Delivery!Accept(d, {"the endpoint"})
      BY <2>2, <3>2, <3>3 DEF Delivery!Accept
    <3>5. QED
      BY <2>1, <3>4 DEF Delivery!Next
  <2>4. CASE ~accepted
    <3>1. got' = got
      BY <1>5, <2>4 DEF Post
    <3>2. QED
      BY <2>2, <3>1 DEF Delivery!vars
  <2>5. QED
    BY <2>3, <2>4
<1>6. ASSUME NEW w \in Workers, Settle(w)
      PROVE  [Delivery!Next]_(Delivery!vars)
  <2>0. PICK c, ok : c = posted[w].claim /\ ok = posted[w].ok
    OBVIOUS
  <2> DEFINE d == c.delivery
  <2>1. /\ d \in Deliveries /\ ok \in BOOLEAN /\ c.attempts \in Nat \ {0}
        /\ row[d].exists /\ c.attempts <= tries[d] /\ (ok => got[d] # 0)
    <3>1. /\ d \in Deliveries /\ ok \in BOOLEAN /\ c.attempts \in Nat \ {0}
          /\ row[d].exists /\ c.attempts <= tries[d] /\ (ok => got[d] > 0)
      BY <1>0, <1>6, <2>0, HookTypes DEF Settle, ClaimsOK
    <3>2. got[d] \in Nat
      BY <1>0, <3>1 DEF TypeOK
    <3>3. QED
      BY <3>1, <3>2
  <2>2. UNCHANGED <<got, tries>> /\ acc' = acc
    BY <1>6 DEF Settle
  <2>3. CASE ~Exists(d)
    <3>1. row' = row
      BY <1>6, <2>0, <2>3 DEF Settle
    <3>2. QED
      BY <1>2, <2>2, <3>1, StateOf
  <2>4. CASE Exists(d)
    <3>1. /\ row'[d] = Outcome(c, ok, row[d])
          /\ \A q \in Deliveries : q # d => row'[q] = row[q]
      <4>1. row' = [row EXCEPT ![d] = Outcome(c, ok, @)] /\ row \in [Deliveries -> HookRows]
        BY <1>0, <1>6, <2>0, <2>4 DEF Settle, TypeOK
      <4>2. QED
        BY <2>1, <4>1
    <3>2. \A q \in Deliveries : q # d => State(q)' = State(q)
      BY <3>1, StateOf
    <3>3. /\ row'[d].exists
          /\ ok => row'[d].delivered
          /\ ~ok => row'[d].delivered = row[d].delivered
          /\ ~ok /\ c.attempts >= MaxAttempts => row'[d].dead
          /\ ~ok /\ ~(c.attempts >= MaxAttempts) => row'[d].dead = row[d].dead
      BY <1>1, <2>1, <3>1, OutcomeRow
    <3>4. st[d] \in {"pending", "dead", "published"} /\ st[d] = State(d)
      BY <2>1 DEF State
    <3>5. CASE ok
      <4>1. State(d)' = "published"
        BY <3>3, <3>5 DEF State
      <4>2. CASE st[d] = "published"
        BY <1>2, <2>2, <3>2, <3>4, <4>1, <4>2
      <4>3. CASE st[d] \in {"pending", "dead"}
        <5>1. acc[d] = {"the endpoint"}
          BY <2>1, <3>5
        <5>2. st' = [st EXCEPT ![d] = "published"]
          BY <2>1, <3>2, <4>1
        <5>3. Delivery!Publish(d)
          BY <2>2, <4>3, <5>1, <5>2 DEF Delivery!Publish
        <5>4. QED
          BY <2>1, <5>3 DEF Delivery!Next
      <4>4. QED
        BY <3>4, <4>2, <4>3
    <3>6. CASE ~ok /\ c.attempts >= MaxAttempts /\ State(d) = "pending"
      <4>1. State(d)' = "dead"
        BY <2>1, <3>3, <3>6 DEF State
      <4>2. st' = [st EXCEPT ![d] = "dead"]
        BY <2>1, <3>2, <4>1
      <4>3. tries[d] >= MaxAttempts
        <5>1. tries[d] \in Nat
          BY <1>0, <2>1 DEF TypeOK
        <5>2. QED
          BY <2>1, <3>6, <5>1, Bounds
      <4>4. Delivery!Park(d)
        BY <2>2, <3>4, <3>6, <4>2, <4>3 DEF Delivery!Park
      <4>5. QED
        BY <2>1, <4>4 DEF Delivery!Next
    <3>7. CASE ~ok /\ ~(c.attempts >= MaxAttempts /\ State(d) = "pending")
      <4>1. State(d)' = State(d)
        BY <2>1, <3>3, <3>7 DEF State
      <4>2. QED
        BY <1>2, <2>2, <3>2, <4>1
    <3>8. QED
      BY <3>5, <3>6, <3>7
  <2>5. QED
    BY <2>3, <2>4
<1>7. ASSUME NEW d \in Deliveries, Lapse(d)
      PROVE  UNCHANGED Delivery!vars
  <2>1. UNCHANGED <<got, tries>> /\ row' = [row EXCEPT ![d].due = TRUE] /\ row \in [Deliveries -> HookRows]
    BY <1>0, <1>7 DEF Lapse, TypeOK
  <2>2. \A q \in Deliveries : /\ row'[q].exists = row[q].exists
                              /\ row'[q].delivered = row[q].delivered /\ row'[q].dead = row[q].dead
    BY <1>1, <2>1 DEF HookRows
  <2>3. QED
    BY <1>2, <2>1, <2>2, StateOf
<1>8. ASSUME NEW d \in Deliveries, Retry(d)
      PROVE  [Delivery!Next]_(Delivery!vars)
  <2>1. /\ UNCHANGED <<got, tries>> /\ row' = [row EXCEPT ![d] = NewRow] /\ row \in [Deliveries -> HookRows]
        /\ row[d].exists /\ ~row[d].delivered
    BY <1>0, <1>8 DEF Retry, Exists, TypeOK
  <2>2. State(d)' = "pending" /\ \A q \in Deliveries : q # d => State(q)' = State(q)
    BY <2>1 DEF State, NewRow
  <2>3. State(d) \in {"pending", "dead"}
    BY <2>1 DEF State
  <2>4. CASE State(d) = "pending"
    BY <1>2, <2>1, <2>2, <2>4
  <2>5. CASE State(d) = "dead"
    <3>1. st' = [q \in Deliveries |-> IF q \in {d} THEN "pending" ELSE st[q]]
      BY <2>2
    <3>2. Delivery!Repair({d})
      BY <2>1, <2>5, <3>1 DEF Delivery!Repair
    <3>3. QED
      BY <3>2 DEF Delivery!Next
  <2>6. QED
    BY <2>3, <2>4, <2>5
<1>9. ASSUME UNCHANGED <<row, got, tries>>
      PROVE  UNCHANGED Delivery!vars
  BY <1>2, <1>9, StateOf
<1> HIDE DEF st, acc
<1>10. ASSUME NEW e \in Events, onEvent(e) PROVE [Delivery!Next]_(Delivery!vars)
  BY <1>3, <1>10 DEF Delivery!Next
<1>11. ASSUME NEW w \in Workers, Claim(w) PROVE [Delivery!Next]_(Delivery!vars)
  BY <1>4, <1>11 DEF Delivery!Next
<1>12. QED
  BY <1>5, <1>6, <1>7, <1>8, <1>9, <1>10, <1>11 DEF HooksNext, hookVars, EndPass, Change

(* Webhooks implements what the outbox promises, with one server in place  *)
(* of the handlers: no row is called delivered that the endpoint did not   *)
(* accept, none is given up with attempts left, none delivered comes back. *)
THEOREM WebhooksDeliver == HooksSpec => ImplementsDelivery
<1>1. HooksInit => Delivery!Init
  BY InitDelivers
<1>2. HooksInv /\ [HooksNext]_hookVars => [Delivery!Next]_(Delivery!vars)
  BY NextDelivers
<1>3. QED
  BY <1>1, <1>2, HooksInvHolds, PTL DEF HooksSpec, ImplementsDelivery, Delivery!Spec
=============================================================================
