----------------------------- MODULE StripeEvents -----------------------------
(***************************************************************************)
(* How a payment Stripe took becomes a paid order: handleWebhook of        *)
(* src/ext/payments-stripe/stripe.go, over MarkPaid, MarkFailed and        *)
(* MarkUnpaid of src/core/payments.go, with the unpaid sweeper behind it.  *)
(*                                                                         *)
(* Stripe posts an event until it is answered 200 or it gives up, and may  *)
(* post one again anyway.  A delivery claims the event's id in a row of    *)
(* its own, then calls the engine, and gives the claim back if that        *)
(* failed; another delivery of the event, the sweeper, an operator or the  *)
(* end of the process may come between any two of these.  What no delivery *)
(* recorded, the sweeper asks Stripe about before it cancels the order.    *)
(*                                                                         *)
(* Every order has one PaymentIntent, written on it at checkout.           *)
(***************************************************************************)
EXTENDS Integers, FiniteSets

CONSTANTS
    OrderIds,
    EventIds,   \* bound: events Stripe sends
    Handlers,   \* deliveries at once, each a handler of an engine process
    MaxPosts,   \* bound: posts of one event, after which Stripe gives up
    MaxDeaths,  \* bound: processes that end in the middle of a delivery
    NoOrder, NoEvent

ASSUME EventsAssumption ==
    /\ MaxPosts \in Nat \ {0} /\ MaxDeaths \in Nat
    /\ NoOrder \notin OrderIds /\ NoEvent \notin EventIds

VARIABLES
    order,     \* order[o]: the orders row
    charged,   \* orders whose PaymentIntent succeeded
    event,     \* event[e]: what Stripe sent and how often it posted it
    claims,    \* payments_stripe_events
    handler,   \* handler[h]: a delivery being handled
    deaths,    \* what MaxDeaths counts
    doomed,    \* orders the sweeper has asked about and will cancel
    recorded,  \* history: orders that were recorded as paid
    undone     \* history: orders whose payment an operator took back

eventVars == <<order, charged, event, claims, handler, deaths, doomed, recorded, undone>>

OrderRows ==
    [status : {"pending", "confirmed", "cancelled"}, payment : {"pending", "paid", "failed"},
     reference : BOOLEAN,                      \* payment_reference names the intent
     expired : {"no", "yes", "grace over"}]    \* the reservation, and sweepAskGrace after it

Events ==
    [kind : {"none", "succeeded", "payment_failed"}, order : OrderIds \cup {NoOrder},
     posts : 0..MaxPosts,
     handled : BOOLEAN, answered : BOOLEAN]    \* the engine has had it; Stripe was told so

Deliveries == [stage : {"idle", "claimed", "applied", "failed"}, event : EventIds \cup {NoEvent}]

Idle == [stage |-> "idle", event |-> NoEvent]

EventsInit ==
    /\ order = [o \in OrderIds |->
           [status |-> "pending", payment |-> "pending", reference |-> TRUE, expired |-> "no"]]
    /\ charged = {}
    /\ event = [e \in EventIds |->
           [kind |-> "none", order |-> NoOrder, posts |-> 0,
            handled |-> FALSE, answered |-> FALSE]]
    /\ claims = {}
    /\ handler = [h \in Handlers |-> Idle]
    /\ deaths = 0
    /\ doomed = {}
    /\ recorded = {}
    /\ undone = {}

-----------------------------------------------------------------------------
(* The shopper's card is declined, or charged; either way Stripe says so.  *)
(* An intent stays payable when its order is cancelled.                    *)
Attempt(o, e, kind) ==
    /\ o \notin charged
    /\ event[e].kind = "none"
    /\ event' = [event EXCEPT ![e].kind = kind, ![e].order = o]
    /\ charged' = IF kind = "succeeded" THEN charged \cup {o} ELSE charged
    /\ UNCHANGED <<order, claims, handler, deaths, doomed, recorded, undone>>

Posted(e, answered) == [event EXCEPT ![e].posts = @ + 1, ![e].answered = @ \/ answered]

(* Mutant: nothing remembers which events were handled.                    *)
ReceiveUnclaimed(h, e) ==
    /\ handler[h].stage = "idle"
    /\ event[e].kind # "none" /\ event[e].posts < MaxPosts
    /\ event' = Posted(e, FALSE)
    /\ handler' = [handler EXCEPT ![h] = [stage |-> "claimed", event |-> e]]
    /\ UNCHANGED <<order, charged, claims, deaths, doomed, recorded, undone>>

(* handleWebhook to its claim, which another delivery may hold: then this  *)
(* one answers 200 at once.                                                *)
Receive(h, e) ==
    /\ handler[h].stage = "idle"
    /\ event[e].kind # "none" /\ event[e].posts < MaxPosts
    /\ IF e \in claims
       THEN event' = Posted(e, TRUE) /\ UNCHANGED <<claims, handler>>
       ELSE /\ event' = Posted(e, FALSE)
            /\ claims' = claims \cup {e}
            /\ handler' = [handler EXCEPT ![h] = [stage |-> "claimed", event |-> e]]
    /\ UNCHANGED <<order, charged, deaths, doomed, recorded, undone>>

(* Mutant: Stripe's word for it is written.                                *)
SucceededRow(row) == [row EXCEPT !.payment = "succeeded", !.reference = TRUE]

(* markPaid, under the order's lock.                                       *)
Paid(row) == [row EXCEPT !.payment = "paid", !.reference = TRUE,
                         !.status = IF @ = "pending" THEN "confirmed" ELSE @]

Payable(o) == order[o].status # "cancelled" /\ order[o].payment # "paid"

(* Mutant: a failure that comes late overwrites the payment.               *)
MarkFailedLate(o) ==
    /\ order[o].status # "cancelled"
    /\ order' = [order EXCEPT ![o].payment = "failed"]

(* MarkFailed: nothing to do for a cancelled order, and an error for a     *)
(* paid one.                                                               *)
MarkFailed(o) ==
    \/ order[o].status = "cancelled" /\ UNCHANGED order
    \/ Payable(o) /\ order' = [order EXCEPT ![o].payment = "failed"]

(* MarkPaid: done already, or recorded; an error for a cancelled order.    *)
MarkPaid(o) ==
    \/ order[o].payment = "paid" /\ UNCHANGED <<order, recorded>>
    \/ /\ Payable(o)
       /\ order' = [order EXCEPT ![o] = Paid(@)]
       /\ recorded' = recorded \cup {o}

Apply(h) ==
    LET e == handler[h].event
    IN  /\ handler[h].stage = "claimed"
        /\ IF event[e].kind = "succeeded" THEN MarkPaid(event[e].order)
           ELSE MarkFailed(event[e].order) /\ UNCHANGED recorded
        /\ event' = [event EXCEPT ![e].handled = TRUE]
        /\ handler' = [handler EXCEPT ![h].stage = "applied"]
        /\ UNCHANGED <<charged, claims, deaths, doomed, undone>>

(* The engine refuses, the database fails, or Stripe hangs up and takes    *)
(* the request's context with it; also after the engine's commit, when the *)
(* order cannot be read again.                                             *)
Fail(h) ==
    /\ handler[h].stage \in {"claimed", "applied"}
    /\ handler' = [handler EXCEPT ![h].stage = "failed"]
    /\ UNCHANGED <<order, charged, event, claims, deaths, doomed, recorded, undone>>

(* 200.  The answer itself may be lost, and the event posted again.        *)
Acknowledge(h) ==
    /\ handler[h].stage = "applied"
    /\ event' = [event EXCEPT ![handler[h].event].answered = TRUE]
    /\ handler' = [handler EXCEPT ![h] = Idle]
    /\ UNCHANGED <<order, charged, claims, deaths, doomed, recorded, undone>>

(* releaseClaim and 500.  It runs under the request's context too, and an  *)
(* error of it is logged.                                                  *)
releaseClaim(h) ==
    /\ handler[h].stage = "failed"
    /\ claims' \in {claims, claims \ {handler[h].event}}
    /\ handler' = [handler EXCEPT ![h] = Idle]
    /\ UNCHANGED <<order, charged, event, deaths, doomed, recorded, undone>>

EndHandler(h) ==
    /\ handler[h].stage # "idle"
    /\ deaths < MaxDeaths
    /\ deaths' = deaths + 1
    /\ handler' = [handler EXCEPT ![h] = Idle]
    /\ UNCHANGED <<order, charged, event, claims, doomed, recorded, undone>>

-----------------------------------------------------------------------------
(* MarkUnpaid, of a payment or a failure; the reference goes with it.      *)
MarkUnpaid(o) ==
    /\ order[o].payment = "paid" \/ (order[o].payment = "failed" /\ order[o].status # "cancelled")
    /\ order' = [order EXCEPT ![o].payment = "pending", ![o].reference = FALSE]
    /\ undone' = undone \cup {o}
    /\ UNCHANGED <<charged, event, claims, handler, deaths, doomed, recorded>>

CancelOrder(o) ==
    /\ order[o].status # "cancelled"
    /\ order' = [order EXCEPT ![o].status = "cancelled"]
    /\ UNCHANGED <<charged, event, claims, handler, deaths, doomed, recorded, undone>>

(* Time passes: the reservation runs out, and a day later its grace.       *)
Expire(o) ==
    /\ order[o].expired # "grace over"
    /\ order' = [order EXCEPT ![o].expired = IF @ = "no" THEN "yes" ELSE "grace over"]
    /\ UNCHANGED <<charged, event, claims, handler, deaths, doomed, recorded, undone>>

(* Mutant: as before migration 23, a failed payment is not swept.          *)
UnrecordedAsPending(o) ==
    order[o].status = "pending" /\ order[o].payment = "pending" /\ order[o].expired # "no"

(* The WHERE of SweepUnpaidPass.                                           *)
Unrecorded(o) ==
    order[o].status = "pending" /\ order[o].payment # "paid" /\ order[o].expired # "no"

(* holdFromSweep: Stripe is asked by the order's reference.  An order that *)
(* cannot be asked about, for want of a reference or of an answer, is held *)
(* until the grace is over.                                                *)
SweepAsk(o) ==
    /\ o \notin doomed
    /\ Unrecorded(o)
    /\ \/ /\ order[o].reference /\ o \in charged
          /\ order' = [order EXCEPT ![o] = Paid(@)]
          /\ recorded' = recorded \cup {o}
          /\ UNCHANGED doomed
       \/ /\ \/ order[o].reference /\ o \notin charged
             \/ order[o].expired = "grace over"
          /\ doomed' = doomed \cup {o}
          /\ UNCHANGED <<order, recorded>>
    /\ UNCHANGED <<charged, event, claims, handler, deaths, undone>>

SweepCancel(o) ==
    /\ o \in doomed
    /\ doomed' = doomed \ {o}
    /\ order' = [order EXCEPT ![o].status = "cancelled"]
    /\ UNCHANGED <<charged, event, claims, handler, deaths, recorded, undone>>

EventsNext ==
    \/ \E o \in OrderIds :
          \/ \E e \in EventIds, kind \in {"succeeded", "payment_failed"} : Attempt(o, e, kind)
          \/ MarkUnpaid(o) \/ CancelOrder(o)
          \/ Expire(o) \/ SweepAsk(o) \/ SweepCancel(o)
    \/ \E h \in Handlers :
          \/ \E e \in EventIds : Receive(h, e)
          \/ Apply(h) \/ Fail(h) \/ Acknowledge(h) \/ releaseClaim(h) \/ EndHandler(h)

EventsSpec == EventsInit /\ [][EventsNext]_eventVars

(* Clocks move and the sweeper's ticker runs.  Stripe is promised nothing. *)
FairEventsSpec ==
    /\ EventsSpec
    /\ \A o \in OrderIds :
          WF_eventVars(Expire(o)) /\ WF_eventVars(SweepAsk(o)) /\ WF_eventVars(SweepCancel(o))

-----------------------------------------------------------------------------
EventsTypeOK ==
    /\ order \in [OrderIds -> OrderRows]
    /\ charged \subseteq OrderIds
    /\ event \in [EventIds -> Events]
    /\ claims \subseteq EventIds
    /\ handler \in [Handlers -> Deliveries]
    /\ deaths \in 0..MaxDeaths
    /\ doomed \subseteq OrderIds
    /\ recorded \subseteq OrderIds
    /\ undone \subseteq OrderIds

(* Declined attempts that are posted late, again, or while another         *)
(* delivery is under way never unmake a payment; only an operator does,    *)
(* and a cancellation leaves it to be refunded.                            *)
RecordedStaysPaid ==
    \A o \in recorded \ undone : order[o].payment = "paid"

(* No claim is in the engine's hands twice: whatever Stripe posts again    *)
(* while an event is being handled is answered and not handled beside it.  *)
OneDeliveryAtATime ==
    \A g, h \in Handlers :
        g # h /\ handler[g].stage # "idle" /\ handler[h].stage # "idle"
            => handler[g].event # handler[h].event

(* "A missed webhook makes a paid order look exactly like an abandoned     *)
(* one" (SweepUnpaidPass): an order Stripe charged for is recorded as paid *)
(* in the end, or cancelled for an operator to refund, with every post     *)
(* lost, every claim stuck and the failures recorded on it before.         *)
ChargedOrdersSettle ==
    \A o \in OrderIds :
        o \in charged ~> (order[o].payment = "paid" \/ order[o].status = "cancelled" \/ o \in undone)

(* stripe.go:465, of releaseClaim: it "un-claims an event whose handling   *)
(* failed, so Stripe's retry finds work to do instead of being told the    *)
(* event was already handled."                                             *)
AnsweredMeansHandled == \A e \in EventIds : event[e].answered => event[e].handled
=============================================================================
