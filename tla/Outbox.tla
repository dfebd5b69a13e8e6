------------------------------- MODULE Outbox -------------------------------
(***************************************************************************)
(* The transactional outbox of gocommerce (src/core/outbox.go): the table  *)
(* outbox_events, the dispatcher workers that claim batches of it, and the *)
(* operator's repairs.                                                     *)
(*                                                                         *)
(* A worker is one goroutine inside deliverBatch: the dispatcher loop of   *)
(* one application instance, or a request inside DrainOutboxFor.  The      *)
(* claim commits before any handler runs, so everything after it is taken  *)
(* step by step and interleaves with every other worker and operator.      *)
(*                                                                         *)
(* Time is abstracted to "due": available_at <= now().  A row that is not  *)
(* due may become due at any moment (Lapse), whatever the worker that      *)
(* claimed it is doing, because nothing renews the sixty-second window     *)
(* while a batch is being dispatched.                                      *)
(***************************************************************************)
EXTENDS Naturals, FiniteSets

CONSTANTS
    Rows,          \* ids of outbox_events, allocated in increasing order
    Workers,       \* goroutines that may be inside deliverBatch
    Handlers,      \* the subscriptions that match an event
    NoOutcome,     \* a worker that is not between dispatch and settling
    BatchSize,     \* Config.OutboxBatchSize
    MaxAttempts,   \* outboxMaxAttempts
    MaxCrashes,    \* bound: workers lost in the middle of a batch
    MaxDbErrors,   \* bound: outcome writes the database refused
    MaxRequeues    \* bound: operator repairs

ASSUME RowsAssumption == Rows \subseteq Nat /\ IsFiniteSet(Rows)
ASSUME WorkersAssumption == IsFiniteSet(Workers)
ASSUME BatchAssumption == BatchSize \in Nat \ {0}
ASSUME AttemptsAssumption == MaxAttempts \in Nat \ {0}
ASSUME BoundsAssumption ==
    MaxCrashes \in Nat /\ MaxDbErrors \in Nat /\ MaxRequeues \in Nat

VARIABLES
    written,    \* rows some committed transaction has appended
    due,        \* due[r]: available_at <= now()
    attempts,   \* attempts[r]
    dead,       \* dead[r]
    published,  \* published[r]: published_at IS NOT NULL
    batch,      \* batch[w]: the claims worker w still has to work through
    outcome,    \* outcome[w]: what dispatch returned for the head of batch[w]
    handled,    \* history: handled[r] = handlers that have ever accepted r
    claims,     \* history: claims[r] = times r was claimed since it was written
    crashes, dberrors, requeues   \* what the bounds count

rowVars   == <<due, attempts, dead, published>>
workVars  == <<batch, outcome>>
histVars  == <<handled, claims>>
boundVars == <<crashes, dberrors, requeues>>
vars == <<written, rowVars, workVars, histVars, boundVars>>

(* What a worker keeps of a claimed row, and of a dispatched one.          *)
Claims   == [row : Rows, attempts : Nat \ {0}]
Outcomes == [claim : Claims, ok : BOOLEAN]

ASSUME NoOutcomeAssumption == NoOutcome \notin Outcomes

Init ==
    /\ written = {}
    /\ due = [r \in Rows |-> TRUE]
    /\ attempts = [r \in Rows |-> 0]
    /\ dead = [r \in Rows |-> FALSE]
    /\ published = [r \in Rows |-> FALSE]
    /\ batch = [w \in Workers |-> {}]
    /\ outcome = [w \in Workers |-> NoOutcome]
    /\ handled = [r \in Rows |-> {}]
    /\ claims = [r \in Rows |-> 0]
    /\ crashes = 0 /\ dberrors = 0 /\ requeues = 0

-----------------------------------------------------------------------------
(* A transaction that changed something commits together with its event,   *)
(* under the next id of the bigserial.  For a sample order write appends   *)
(* nothing, so that there is no row here to model.                         *)
Write(r) ==
    /\ r \notin written
    /\ \A s \in Rows : s < r => s \in written
    /\ written' = written \union {r}
    /\ UNCHANGED <<rowVars, workVars, histVars, boundVars>>

(* Mutant: the claim also refuses rows whose budget is used up.            *)
ClaimableWithinBudget(r) ==
    r \in written /\ ~published[r] /\ ~dead[r] /\ due[r] /\ attempts[r] < MaxAttempts

(* outboxWherePending and due: what the claim's WHERE selects.             *)
Claimable(r) == r \in written /\ ~published[r] /\ ~dead[r] /\ due[r]

(* The first BatchSize claimable rows in id order.                         *)
NextBatch ==
    {r \in Rows : /\ Claimable(r)
                  /\ Cardinality({s \in Rows : s < r /\ Claimable(s)}) < BatchSize}

(* Mutant: the row is returned as it was before the UPDATE.                *)
ClaimedBefore(r) == [row |-> r, attempts |-> attempts[r]]

(* RETURNING: the row as the claim leaves it.                              *)
Claimed(r) == [row |-> r, attempts |-> attempts[r] + 1]

(* deliverBatch's UPDATE ... RETURNING: one transaction, committed before  *)
(* the first handler runs.  The worker keeps the attempts it read here.    *)
Claim(w) ==
    /\ batch[w] = {}
    /\ NextBatch # {}
    /\ attempts' = [r \in Rows |-> IF r \in NextBatch THEN attempts[r] + 1 ELSE attempts[r]]
    /\ due' = [r \in Rows |-> due[r] /\ r \notin NextBatch]
    /\ claims' = [r \in Rows |-> IF r \in NextBatch THEN claims[r] + 1 ELSE claims[r]]
    /\ batch' = [batch EXCEPT ![w] = {Claimed(r) : r \in NextBatch}]
    /\ UNCHANGED <<written, dead, published, outcome, handled, boundVars>>

(* A visibility window or a backoff runs out.                              *)
Lapse(r) ==
    /\ r \in written
    /\ ~due[r]
    /\ due' = [due EXCEPT ![r] = TRUE]
    /\ UNCHANGED <<written, attempts, dead, published, workVars, histVars, boundVars>>

(* Mutant: a handler that panicked or ran out of time did not fail.        *)
NoneRefused(accepted) == accepted \subseteq Handlers

(* errors.Join of the handlers that failed is nil.                         *)
NoFailures(accepted) == accepted = Handlers

(* eventBus.dispatch of one claim of the batch (RETURNING promises no      *)
(* order): every matching handler runs even if an earlier one failed, and  *)
(* the joined error is nil only when all of them returned nil.  A panic or *)
(* a timeout is a failure.                                                 *)
Dispatch(w) ==
    /\ outcome[w] = NoOutcome
    /\ \E c \in batch[w], accepted \in SUBSET Handlers :
          /\ handled' = [handled EXCEPT ![c.row] = @ \union accepted]
          /\ outcome' = [outcome EXCEPT ![w] = [claim |-> c, ok |-> NoFailures(accepted)]]
    /\ UNCHANGED <<written, rowVars, batch, claims, boundVars>>

(* The worker is done with the claim it dispatched.                        *)
Advance(w) ==
    /\ batch' = [batch EXCEPT ![w] = @ \ {outcome[w].claim}]
    /\ outcome' = [outcome EXCEPT ![w] = NoOutcome]

(* markPublished: by id alone, whatever the row has become meanwhile.      *)
MarkPublished(w) ==
    /\ outcome[w] # NoOutcome
    /\ outcome[w].ok
    /\ published' = [published EXCEPT ![outcome[w].claim.row] = TRUE]
    /\ Advance(w)
    /\ UNCHANGED <<written, due, attempts, dead, histVars, boundVars>>

(* Mutant: one attempt too many.                                           *)
OutOfAttemptsLate(c) == c.attempts > MaxAttempts

(* fail compares the attempts that the worker's own claim returned.        *)
OutOfAttempts(c) == c.attempts >= MaxAttempts

(* fail, out of attempts: parks the row.                                   *)
Park(w) ==
    /\ outcome[w] # NoOutcome
    /\ ~outcome[w].ok
    /\ OutOfAttempts(outcome[w].claim)
    /\ dead' = [dead EXCEPT ![outcome[w].claim.row] = TRUE]
    /\ Advance(w)
    /\ UNCHANGED <<written, due, attempts, published, histVars, boundVars>>

(* fail, with attempts left: schedules a retry after outboxBackoff.        *)
Backoff(w) ==
    /\ outcome[w] # NoOutcome
    /\ ~outcome[w].ok
    /\ ~OutOfAttempts(outcome[w].claim)
    /\ due' = [due EXCEPT ![outcome[w].claim.row] = FALSE]
    /\ Advance(w)
    /\ UNCHANGED <<written, attempts, dead, published, histVars, boundVars>>

(* The statement that records an outcome fails: it is logged and the       *)
(* worker goes on with the rest of its batch.                              *)
OutcomeLost(w) ==
    /\ outcome[w] # NoOutcome
    /\ dberrors < MaxDbErrors
    /\ dberrors' = dberrors + 1
    /\ Advance(w)
    /\ UNCHANGED <<written, rowVars, histVars, crashes, requeues>>

(* The process dies, or its context is cancelled, with a batch claimed.    *)
Crash(w) ==
    /\ batch[w] # {}
    /\ crashes < MaxCrashes
    /\ crashes' = crashes + 1
    /\ batch' = [batch EXCEPT ![w] = {}]
    /\ outcome' = [outcome EXCEPT ![w] = NoOutcome]
    /\ UNCHANGED <<written, rowVars, histVars, dberrors, requeues>>

-----------------------------------------------------------------------------
(* outboxStateCase: published wins over dead.                              *)
State(r) == IF r \notin written THEN "unwritten"
            ELSE IF published[r] THEN "published"
            ELSE IF dead[r] THEN "dead"
            ELSE "pending"

(* The row un-parked, by either repair.                                    *)
Unpark(S) ==
    /\ dead' = [r \in Rows |-> dead[r] /\ r \notin S]
    /\ attempts' = [r \in Rows |-> IF r \in S THEN 0 ELSE attempts[r]]
    /\ due' = [r \in Rows |-> due[r] \/ r \in S]

(* RequeueEvent of a dead row: a fresh budget.                             *)
RequeueDead(r) ==
    /\ State(r) = "dead"
    /\ requeues < MaxRequeues
    /\ requeues' = requeues + 1
    /\ Unpark({r})
    /\ UNCHANGED <<written, published, workVars, histVars, crashes, dberrors>>

(* RequeueEvent of a pending row: brought forward, attempts kept.          *)
Expedite(r) ==
    /\ State(r) = "pending"
    /\ requeues < MaxRequeues
    /\ requeues' = requeues + 1
    /\ due' = [due EXCEPT ![r] = TRUE]
    /\ UNCHANGED <<written, attempts, dead, published, workVars, histVars, crashes, dberrors>>

(* RequeueDeadEvents: the first `limit` dead rows in id order.  Rows that  *)
(* another repair holds are skipped; a repair is one step here, so none    *)
(* is ever held.                                                           *)
RequeueDeadEvents(limit) ==
    LET parked == {r \in Rows : State(r) = "dead"}
        taken  == {r \in parked : Cardinality({s \in parked : s < r}) < limit}
    IN  /\ taken # {}
        /\ requeues < MaxRequeues
        /\ requeues' = requeues + 1
        /\ Unpark(taken)
        /\ UNCHANGED <<written, published, workVars, histVars, crashes, dberrors>>

-----------------------------------------------------------------------------
Settle(w) == MarkPublished(w) \/ Park(w) \/ Backoff(w) \/ OutcomeLost(w)

Next ==
    \/ \E r \in Rows : Write(r) \/ Lapse(r) \/ RequeueDead(r) \/ Expedite(r)
    \/ \E limit \in 1..Cardinality(Rows) : RequeueDeadEvents(limit)
    \/ \E w \in Workers : Claim(w) \/ Dispatch(w) \/ Settle(w) \/ Crash(w)

Spec == Init /\ [][Next]_vars

(* The dispatcher loop polls for as long as the application runs, a        *)
(* handler ends by its timeout, a settling statement returns, and the      *)
(* clock moves.  Nothing is assumed of operators, crashes or producers.    *)
Fairness ==
    /\ \A r \in Rows : WF_vars(Lapse(r))
    /\ WF_vars(\E w \in Workers : Claim(w))
    /\ \A w \in Workers : WF_vars(Dispatch(w)) /\ WF_vars(Settle(w))

FairSpec == Spec /\ Fairness
-----------------------------------------------------------------------------
TypeOK ==
    /\ written \subseteq Rows
    /\ due \in [Rows -> BOOLEAN]
    /\ attempts \in [Rows -> Nat]
    /\ dead \in [Rows -> BOOLEAN]
    /\ published \in [Rows -> BOOLEAN]
    /\ batch \in [Workers -> SUBSET Claims]
    /\ outcome \in [Workers -> Outcomes \union {NoOutcome}]
    /\ handled \in [Rows -> SUBSET Handlers]
    /\ claims \in [Rows -> Nat]
    /\ crashes \in 0..MaxCrashes
    /\ dberrors \in 0..MaxDbErrors
    /\ requeues \in 0..MaxRequeues

(* "attempts is the whole dead-letter bound" (RequeueEvent): an event that *)
(* keeps failing is not retried without end.  Claims of one row can        *)
(* overlap, one per worker, and a claim whose outcome was lost to a crash  *)
(* or to the database never parks the row; beyond those, no row is claimed *)
(* again once its budget is used up.                                       *)
RetriesBounded ==
    \A r \in Rows :
        attempts[r] <= MaxAttempts + (Cardinality(Workers) - 1) + crashes + dberrors

(* The outbox implements the at-least-once delivery that docs/events.md    *)
(* promises: nothing leaves circulation undelivered with tries left, and   *)
(* nothing published comes back, however claims, repairs, late outcomes    *)
(* and lost outcomes interleave.                                           *)
Delivery == INSTANCE EventDelivery WITH
    Events   <- Rows,
    Budget   <- MaxAttempts,
    status   <- [r \in Rows |-> State(r)],
    accepted <- handled,
    tries    <- claims

ImplementsDelivery == Delivery!Spec

(* Every event that was appended is at last published or parked where an   *)
(* operator sees it: no crash, lost outcome or slow worker leaves a row    *)
(* that no worker will ever claim again.                                   *)
EveryEventSettles ==
    \A r \in Rows : (r \in written) ~> (published[r] \/ dead[r])
=============================================================================
