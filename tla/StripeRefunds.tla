---------------------------- MODULE StripeRefunds ----------------------------
(***************************************************************************)
(* Refunds of one order through Stripe: src/ext/payments-stripe/stripe.go, *)
(* under Payments.Refund of src/core/payments.go.                          *)
(*                                                                         *)
(* Stripe makes one refund per Idempotency-Key and answers every request   *)
(* under that key with it.  The key says which order, how many refunds of  *)
(* it came before, and the amount; what came before is what Refund read    *)
(* before it reserved anything.                                            *)
(***************************************************************************)
EXTENDS Naturals, FiniteSets, FiniteSetsExt

CONSTANTS
    Requests,     \* calls of Payments.Refund, and the ledger row of each
    AmountsAsked, \* what may be refunded at a time; all that is left is one of them
    Total,        \* what the order cost and Stripe captured
    MaxRunning,   \* requests that may run at once
    MaxLost,      \* bound: answers that never arrive
    MaxDead       \* bound: requests whose process dies

ASSUME StripeAssumption ==
    /\ IsFiniteSet(Requests)
    /\ AmountsAsked \subseteq 1..Total
    /\ Total \in Nat
    /\ MaxRunning \in Nat \ {0}
    /\ MaxLost \in Nat /\ MaxDead \in Nat

VARIABLES
    row,    \* row[q]: order_refunds
    call,   \* call[q]: how far the request is, and the key it computed
    made,   \* made[k]: the refund Stripe made under key k
    alone,  \* history: no two requests have run at once and none has died
    lost, dead   \* what the bounds count

vars == <<row, call, made, alone, lost, dead>>

Keys == [before : 0..Cardinality(Requests), amount : AmountsAsked]

(* refused: error starts with "stripe: refund ", a refund Stripe made and  *)
(* could not carry out.                                                    *)
Rows == [status : {"none", "pending", "succeeded", "failed"}, refused : BOOLEAN]

Stages == {"idle", "read", "asking", "accepted", "refused", "unknown", "over"}

NoKey == [before |-> 0, amount |-> 0]

Init ==
    /\ row = [q \in Requests |-> [status |-> "none", refused |-> FALSE]]
    /\ call = [q \in Requests |-> [stage |-> "idle", key |-> NoKey]]
    /\ made = [k \in Keys |-> "none"]
    /\ alone = TRUE
    /\ lost = 0
    /\ dead = 0

RowsIn(states) == {q \in Requests : row[q].status \in states}
Running == {q \in Requests : call[q].stage \notin {"idle", "over"}}
SumOf(Q) == MapThenSumSet(LAMBDA q : call[q].key.amount, Q)

(* What Stripe has sent back of the charge.                                *)
Sent == MapThenSumSet(LAMBDA k : k.amount, {k \in Keys : made[k] = "succeeded"})

(* Mutant: only refunds in flight or refused came before.                  *)
CountedUnsettled == RowsIn({"pending"}) \union {q \in RowsIn({"failed"}) : row[q].refused}

(* refundKey: the rows that came before.                                   *)
Counted ==
    RowsIn({"pending", "succeeded"}) \union {q \in RowsIn({"failed"}) : row[q].refused}

(* Refund's pre-flight: the order is read, with its refunds, and no lock.  *)
Preflight(q, amount) ==
    /\ call[q].stage = "idle"
    /\ Cardinality(Running) < MaxRunning
    /\ alone' = (alone /\ Running = {})
    /\ SumOf(RowsIn({"succeeded"})) < Total
    /\ call' = [call EXCEPT ![q] =
           [stage |-> "read", key |-> [before |-> Cardinality(Counted), amount |-> amount]]]
    /\ UNCHANGED <<row, made, lost, dead>>

(* reserveRefund, or its refusal.                                          *)
Reserve(q) ==
    /\ call[q].stage = "read"
    /\ IF call[q].key.amount + SumOf(RowsIn({"pending", "succeeded"})) <= Total
       THEN /\ row' = [row EXCEPT ![q].status = "pending"]
            /\ call' = [call EXCEPT ![q].stage = "asking"]
       ELSE /\ call' = [call EXCEPT ![q].stage = "over"]
            /\ UNCHANGED row
    /\ UNCHANGED <<made, alone, lost, dead>>

(* Stripe, on a new key: the refund is made and succeeds or fails; one the *)
(* charge has no money left for is an error.                               *)
Make(k) ==
    /\ made[k] = "none"
    /\ Sent + k.amount <= Total
    /\ \E outcome \in {"succeeded", "failed"} : made' = [made EXCEPT ![k] = outcome]

Answer(k) ==
    \/ Make(k)
    \/ made[k] # "none" /\ UNCHANGED made

(* Mutant: a refund that Stripe answers as failed is taken for one made.   *)
AcceptedUnlessError(outcome) == outcome # "none"

(* refund.Status is looked at.                                             *)
Accepted(outcome) == outcome # "failed"

(* RefundWithReference, answered.                                          *)
Ask(q) ==
    /\ call[q].stage = "asking"
    /\ Answer(call[q].key)
    /\ call' = [call EXCEPT ![q].stage =
           IF Accepted(made'[call[q].key]) THEN "accepted" ELSE "refused"]
    /\ UNCHANGED <<row, alone, lost, dead>>

(* No answer: the request or its answer was lost on the way.               *)
AskUnanswered(q) ==
    /\ call[q].stage = "asking"
    /\ lost < MaxLost
    /\ lost' = lost + 1
    /\ Answer(call[q].key) \/ UNCHANGED made
    /\ call' = [call EXCEPT ![q].stage = "unknown"]
    /\ UNCHANGED <<row, alone, dead>>

(* An error Stripe answers without making a refund.                        *)
AskTooMuch(q) ==
    /\ call[q].stage = "asking"
    /\ made[call[q].key] = "none"
    /\ Sent + call[q].key.amount > Total
    /\ call' = [call EXCEPT ![q].stage = "unknown"]
    /\ UNCHANGED <<row, made, alone, lost, dead>>

(* settleRefund, or failRefund with what was said, of a row still pending. *)
Record(q) ==
    /\ call[q].stage \in {"accepted", "refused", "unknown"}
    /\ IF row[q].status = "pending"
       THEN row' = [row EXCEPT ![q] =
                [status  |-> IF call[q].stage = "accepted" THEN "succeeded" ELSE "failed",
                 refused |-> call[q].stage = "refused"]]
       ELSE UNCHANGED row
    /\ call' = [call EXCEPT ![q].stage = "over"]
    /\ UNCHANGED <<made, alone, lost, dead>>

(* The process dies; Stripe may have had the request.                      *)
Die(q) ==
    /\ call[q].stage \in {"asking", "accepted", "refused", "unknown"}
    /\ dead < MaxDead
    /\ dead' = dead + 1
    /\ alone' = FALSE
    /\ call' = [call EXCEPT ![q].stage = "over"]
    /\ UNCHANGED made \/ (call[q].stage = "asking" /\ Answer(call[q].key))
    /\ UNCHANGED <<row, lost>>

(* SettleRefund by an operator who finds, or does not find, at Stripe a    *)
(* refund that no other row records.                                       *)
SettleByHand(q) ==
    /\ call[q].stage = "over"
    /\ row[q].status = "pending"
    /\ LET found == /\ made[call[q].key] = "succeeded"
                    /\ \A p \in RowsIn({"succeeded"}) : call[p].key # call[q].key
       IN  row' = [row EXCEPT ![q].status = IF found THEN "succeeded" ELSE "failed"]
    /\ UNCHANGED <<call, made, alone, lost, dead>>

Next ==
    \E q \in Requests :
        \/ \E amount \in AmountsAsked : Preflight(q, amount)
        \/ Reserve(q) \/ Ask(q) \/ AskUnanswered(q) \/ AskTooMuch(q)
        \/ Record(q) \/ Die(q) \/ SettleByHand(q)

Spec == Init /\ [][Next]_vars
-----------------------------------------------------------------------------
TypeOK ==
    /\ row \in [Requests -> Rows]
    /\ call \in [Requests -> [stage : Stages, key : Keys \union {NoKey}]]
    /\ \A q \in Requests : call[q].stage # "idle" => call[q].key \in Keys
    /\ made \in [Keys -> {"none", "succeeded", "failed"}]
    /\ alone \in BOOLEAN
    /\ lost \in 0..MaxLost
    /\ dead \in 0..MaxDead

(* What the ledger records as sent back, Stripe sent, whatever was lost,   *)
(* refused, retried, overlapping or settled by hand.                       *)
RecordedWasSent ==
    \A q \in RowsIn({"succeeded"}) : made[call[q].key] = "succeeded"

(* "A refund after one that went out [...] gets a new key" (refundKey): no *)
(* two rows record the same refund of Stripe's, or the ledger would say    *)
(* that more has gone back to the shopper than Stripe sent.                *)
EachRowItsOwnRefund ==
    \A p, q \in RowsIn({"succeeded"}) : p # q => call[p].key # call[q].key

(* So it is while requests come one after another and end, whatever        *)
(* answers are lost and whatever Stripe refuses in between.                *)
EachRowItsOwnRefundAlone == alone => EachRowItsOwnRefund
=============================================================================
