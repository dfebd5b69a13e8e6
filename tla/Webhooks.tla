------------------------------- MODULE Webhooks -------------------------------
(***************************************************************************)
(* Telling somebody else's server: src/ext/webhooks.  The subscriber       *)
(* onEvent writes a row for each endpoint that asked for the event, the    *)
(* workers of several application instances claim the rows, post them and  *)
(* write what came of it, and operators switch, delete and retry.          *)
(*                                                                         *)
(* A claim commits before anything is posted, and each outcome is written  *)
(* by a statement of its own, so workers interleave at every step.  Time   *)
(* is abstracted to "due" (available_at <= now()), as in Outbox: nothing   *)
(* renews a claim's sixty seconds, and a batch of twenty posts of ten      *)
(* seconds each outlives them.                                             *)
(***************************************************************************)
EXTENDS Integers, FiniteSets

CONSTANTS
    Endpoints,
    Events,
    Workers,       \* tickers that may be inside DeliverPass, one per instance
    BatchSize,     \* deliverBatch
    MaxAttempts,   \* maxAttempts
    MaxDispatches, \* bound: times the event bus dispatches one event
    MaxLost,       \* bound: passes that end with their outcome unwritten
    MaxRetries,    \* bound: operators' retries
    NoClaim

ASSUME WebhooksAssumption ==
    /\ IsFiniteSet(Endpoints) /\ IsFiniteSet(Events) /\ IsFiniteSet(Workers)
    /\ {BatchSize, MaxAttempts} \subseteq Nat \ {0}
    /\ {MaxDispatches, MaxLost, MaxRetries} \subseteq Nat

VARIABLES
    endpoint,    \* endpoint[p]: whether it is active and asks for these events
    dispatches,  \* dispatches[e]: times onEvent was called with e
    row,         \* row[d]: the webhook_deliveries row of endpoint and event d
    batch,       \* batch[w]: what worker w has claimed and not finished
    posted,      \* posted[w]: the claim whose outcome w has yet to write
    tries,       \* history: tries[d] = claims of d
    got,         \* history: got[d] = times the endpoint accepted d
    doubts,      \* history: doubts[d] = reasons to have posted d again
    lost, retries   \* what the bounds count

hookVars == <<endpoint, dispatches, row, batch, posted, tries, got, doubts, lost, retries>>

Deliveries == Endpoints \X Events

HookRows ==
    [exists : BOOLEAN, attempts : Nat, due : BOOLEAN, delivered : BOOLEAN, dead : BOOLEAN]

HookClaims == [delivery : Deliveries, attempts : Nat \ {0}]
Outcomes == [claim : HookClaims, ok : BOOLEAN, accepted : BOOLEAN]

ASSUME NoClaimAssumption == NoClaim \notin Outcomes

NoRow == [exists |-> FALSE, attempts |-> 0, due |-> FALSE, delivered |-> FALSE, dead |-> FALSE]
NewRow == [exists |-> TRUE, attempts |-> 0, due |-> TRUE, delivered |-> FALSE, dead |-> FALSE]

HooksInit ==
    /\ endpoint \in [Endpoints -> {"asks", "does not ask"}]
    /\ dispatches = [e \in Events |-> 0]
    /\ row = [d \in Deliveries |-> NoRow]
    /\ batch = [w \in Workers |-> {}]
    /\ posted = [w \in Workers |-> NoClaim]
    /\ tries = [d \in Deliveries |-> 0]
    /\ got = [d \in Deliveries |-> 0]
    /\ doubts = [d \in Deliveries |-> 0]
    /\ lost = 0 /\ retries = 0

-----------------------------------------------------------------------------
(* ON DELETE CASCADE: the row of a deleted endpoint is gone.  What it last *)
(* said is kept here, for the history it is compared with.                 *)
Exists(d) == row[d].exists /\ endpoint[d[1]] # "deleted"

Holds(w, d) == \E c \in batch[w] : c.delivery = d

(* Mutant: a second dispatch writes the row again.                         *)
onEventAnew(e) ==
    /\ dispatches[e] < MaxDispatches
    /\ dispatches' = [dispatches EXCEPT ![e] = @ + 1]
    /\ row' = [d \in Deliveries |-> IF d[2] = e /\ endpoint[d[1]] = "asks" THEN NewRow ELSE row[d]]
    /\ UNCHANGED <<endpoint, batch, posted, tries, got, doubts, lost, retries>>

(* onEvent, which the bus may call again for an event it has delivered.    *)
onEvent(e) ==
    /\ dispatches[e] < MaxDispatches
    /\ dispatches' = [dispatches EXCEPT ![e] = @ + 1]
    /\ row' = [d \in Deliveries |->
                  IF d[2] = e /\ endpoint[d[1]] = "asks" /\ ~row[d].exists THEN NewRow ELSE row[d]]
    /\ UNCHANGED <<endpoint, batch, posted, tries, got, doubts, lost, retries>>

(* Mutant: the attempts are bounded here too, so that a row whose last     *)
(* attempt was lost is never looked at again.                              *)
ClaimableWithinBudget(d) ==
    Exists(d) /\ row[d].due /\ ~row[d].dead /\ ~row[d].delivered /\ row[d].attempts < MaxAttempts

Claimable(d) == Exists(d) /\ row[d].due /\ ~row[d].dead /\ ~row[d].delivered

(* The claiming statement of DeliverPass.  It takes the first due rows by  *)
(* id, less those that another statement holds: whichever, here.           *)
Claim(w) ==
    /\ batch[w] = {}
    /\ \E S \in SUBSET {d \in Deliveries : Claimable(d)} :
          /\ Cardinality(S) \in 1..BatchSize
          /\ row' = [d \in Deliveries |->
                        IF d \in S THEN [row[d] EXCEPT !.attempts = @ + 1, !.due = FALSE] ELSE row[d]]
          /\ batch' = [batch EXCEPT ![w] = {[delivery |-> d, attempts |-> row[d].attempts + 1] : d \in S}]
          /\ tries' = [d \in Deliveries |-> IF d \in S THEN tries[d] + 1 ELSE tries[d]]
          /\ doubts' = [d \in Deliveries |->
                           IF d \in S /\ \E v \in Workers : Holds(v, d) THEN doubts[d] + 1 ELSE doubts[d]]
    /\ UNCHANGED <<endpoint, dispatches, posted, got, lost, retries>>

(* post, of any claim in the batch: refused or not sent, as when the       *)
(* secret cannot be opened; accepted; or accepted in an answer that did    *)
(* not come.  The endpoint may be switched off or deleted by now.          *)
Post(w, c, accepted, ok) ==
    /\ c \in batch[w]
    /\ posted[w] = NoClaim
    /\ ok => accepted
    /\ posted' = [posted EXCEPT ![w] = [claim |-> c, ok |-> ok, accepted |-> accepted]]
    /\ got' = IF accepted THEN [got EXCEPT ![c.delivery] = @ + 1] ELSE got
    /\ doubts' = IF accepted /\ ~ok THEN [doubts EXCEPT ![c.delivery] = @ + 1] ELSE doubts
    /\ UNCHANGED <<endpoint, dispatches, row, batch, tries, lost, retries>>

(* Mutant: a failure gives the attempt back, and the one before it.        *)
OutcomeGivesBack(c, ok, r) ==
    IF ok THEN [r EXCEPT !.delivered = TRUE] ELSE [r EXCEPT !.due = FALSE, !.attempts = @ - 2]

(* Mutant: the attempt that is still to come is counted.                *)
OutcomeTooEarly(c, ok, r) ==
    CASE ok -> [r EXCEPT !.delivered = TRUE]
      [] ~ok /\ c.attempts + 1 >= MaxAttempts -> [r EXCEPT !.dead = TRUE]
      [] OTHER -> [r EXCEPT !.due = FALSE]

(* markDelivered, and markFailed by the attempts of the claim; neither     *)
(* looks at what the row says by now.                                      *)
Outcome(c, ok, r) ==
    CASE ok -> [r EXCEPT !.delivered = TRUE]
      [] ~ok /\ c.attempts >= MaxAttempts -> [r EXCEPT !.dead = TRUE]
      [] OTHER -> [r EXCEPT !.due = FALSE]

Settle(w) ==
    LET c == posted[w].claim
    IN  /\ posted[w] # NoClaim
        /\ row' = IF Exists(c.delivery)
                  THEN [row EXCEPT ![c.delivery] = Outcome(c, posted[w].ok, @)]
                  ELSE row
        /\ batch' = [batch EXCEPT ![w] = @ \ {c}]
        /\ posted' = [posted EXCEPT ![w] = NoClaim]
        /\ UNCHANGED <<endpoint, dispatches, tries, got, doubts, lost, retries>>

(* The process dies, is told to stop, or the outcome's statement fails:    *)
(* the pass ends, and its claims lapse.                                    *)
EndPass(w) ==
    /\ batch[w] # {}
    /\ lost < MaxLost
    /\ lost' = lost + 1
    /\ batch' = [batch EXCEPT ![w] = {}]
    /\ posted' = [posted EXCEPT ![w] = NoClaim]
    /\ doubts' = IF posted[w] # NoClaim /\ posted[w].ok
                 THEN [doubts EXCEPT ![posted[w].claim.delivery] = @ + 1] ELSE doubts
    /\ UNCHANGED <<endpoint, dispatches, row, tries, got, retries>>

(* available_at passes, whatever the worker that claimed the row is doing. *)
Lapse(d) ==
    /\ Exists(d)
    /\ ~row[d].due
    /\ row' = [row EXCEPT ![d].due = TRUE]
    /\ UNCHANGED <<endpoint, dispatches, batch, posted, tries, got, doubts, lost, retries>>

-----------------------------------------------------------------------------
(* handleRetry, of a row that is dead or still on its way.                 *)
Retry(d) ==
    /\ Exists(d)
    /\ ~row[d].delivered
    /\ retries < MaxRetries
    /\ retries' = retries + 1
    /\ row' = [row EXCEPT ![d] = NewRow]
    /\ UNCHANGED <<endpoint, dispatches, batch, posted, tries, got, doubts, lost>>

(* handleUpdate of active or events, and handleDelete.  Rows that were     *)
(* written are posted even if the endpoint asks no more.                   *)
Change(p, to) ==
    /\ endpoint[p] # "deleted"
    /\ endpoint' = [endpoint EXCEPT ![p] = to]
    /\ UNCHANGED <<dispatches, row, batch, posted, tries, got, doubts, lost, retries>>

HooksNext ==
    \/ \E e \in Events : onEvent(e)
    \/ \E w \in Workers :
          \/ Claim(w) \/ Settle(w) \/ EndPass(w)
          \/ \E c \in batch[w], accepted, ok \in BOOLEAN : Post(w, c, accepted, ok)
    \/ \E d \in Deliveries : Lapse(d) \/ Retry(d)
    \/ \E p \in Endpoints, to \in {"asks", "does not ask", "deleted"} : Change(p, to)

HooksSpec == HooksInit /\ [][HooksNext]_hookVars

(* The ticker runs as long as the application, a post ends by its timeout, *)
(* and clocks move.  Endpoints and operators are promised nothing.         *)
FairHooksSpec ==
    /\ HooksSpec
    /\ \A d \in Deliveries : WF_hookVars(Lapse(d))
    /\ WF_hookVars(\E w \in Workers : Claim(w))
    /\ \A w \in Workers :
          /\ WF_hookVars(Settle(w))
          /\ WF_hookVars(\E c \in batch[w], accepted, ok \in BOOLEAN : Post(w, c, accepted, ok))

-----------------------------------------------------------------------------
TypeOK ==
    /\ endpoint \in [Endpoints -> {"asks", "does not ask", "deleted"}]
    /\ dispatches \in [Events -> 0..MaxDispatches]
    /\ row \in [Deliveries -> HookRows]
    /\ batch \in [Workers -> SUBSET HookClaims]
    /\ posted \in [Workers -> Outcomes \cup {NoClaim}]
    /\ tries \in [Deliveries -> Nat]
    /\ got \in [Deliveries -> Nat]
    /\ doubts \in [Deliveries -> Nat]
    /\ lost \in 0..MaxLost
    /\ retries \in 0..MaxRetries

(* "A second dispatch of one event must not become a second POST" (onEvent)*)
(* and "a delivered row is not sent twice": an endpoint accepts an event   *)
(* once, and once more at most for each time the store could not know: the *)
(* answer or its record was lost, or the row was claimed again while       *)
(* another worker still had it, after its window or on an operator's word. *)
RepeatsAreExplained == \A d \in Deliveries : got[d] <= 1 + doubts[d]

(* StateDelivered and the others, as scanDelivery derives them: delivered  *)
(* wins over dead.                                                         *)
State(d) == CASE ~row[d].exists -> "unwritten"
              [] row[d].delivered -> "published"
              [] row[d].dead /\ ~row[d].delivered -> "dead"
              [] OTHER -> "pending"

(* "The worker is the core outbox's dispatcher, one layer out": one server *)
(* in place of the handlers, the rows keep what the outbox promises.  None *)
(* is given up with attempts left, none is called delivered that was not   *)
(* accepted, and none delivered comes back, whoever writes its outcome     *)
(* last.                                                                   *)
Delivery == INSTANCE EventDelivery WITH
    Events   <- Deliveries,
    Handlers <- {"the endpoint"},
    Budget   <- MaxAttempts,
    status   <- [d \in Deliveries |-> State(d)],
    accepted <- [d \in Deliveries |-> IF got[d] = 0 THEN {} ELSE {"the endpoint"}],
    tries    <- tries

ImplementsDelivery == Delivery!Spec

(* Every row is at last delivered or given up where an operator sees it,   *)
(* unless its endpoint is deleted: no lost pass leaves one hidden.         *)
EveryDeliverySettles ==
    \A d \in Deliveries : row[d].exists ~> (row[d].delivered \/ row[d].dead \/ ~Exists(d))
=============================================================================
