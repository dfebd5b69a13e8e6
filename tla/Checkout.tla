------------------------------- MODULE Checkout -------------------------------
(***************************************************************************)
(* From a cart to an order with a payment started: src/core/checkout.go,   *)
(* with the lives of carts (src/core/cart.go) and the claim of a discount  *)
(* code (src/core/discounts.go).                                           *)
(*                                                                         *)
(* A request reads its Idempotency-Key outside any transaction.  If that   *)
(* finds an order without an answer, it resumes that order's payment;      *)
(* otherwise phase A makes the order in one transaction, here a lock of    *)
(* the cart, a lock of the code and a commit, since other requests run     *)
(* between them.  Phase B asks the gateway after that commit and writes    *)
(* the order's reference and then the key's answer, each a statement of    *)
(* its own.  A request may end between any two steps: refused, in error,   *)
(* or with its process.                                                    *)
(*                                                                         *)
(* Stock, prices, delivery, tax and gift cards are in Orders; here they    *)
(* are reasons for which phase A may be rolled back.                       *)
(***************************************************************************)
EXTENDS Integers, FiniteSets

CONSTANTS
    Carts,
    Keys,       \* Idempotency-Keys, each in the scope of a payment method
    CashKeys,   \* those of a method that needs nothing further, as cash on delivery
    Emails,
    Requests,   \* checkout requests, each a handler of an engine process
    OrderIds,   \* bound: orders that may be placed
    Intents,    \* bound: payments the gateway may start
    MaxLimit,   \* bound: usage_limit of the one code
    None        \* no key, no cart, no order, no intent, no email

ASSUME CheckoutAssumption ==
    /\ CashKeys \subseteq Keys
    /\ MaxLimit \in Nat \ {0}
    /\ IsFiniteSet(OrderIds)
    /\ None \notin Carts \cup Keys \cup Emails \cup OrderIds \cup Intents

VARIABLES
    cart,      \* cart[c]: status, and whether the code is on it
    order,     \* order[o]: the orders row and its order_discounts
    code,      \* the discounts row of the one code: used_count, usage_limit
    key,       \* key[k]: the idempotency_keys row
    request,   \* request[r]: how far a checkout has come, and what it knows
    intents    \* what the gateway has started, and for which order

checkoutVars == <<cart, order, code, key, request, intents>>

(* What a checkout answers: a payment to make, or IntentNone.              *)
NothingToPay == "none"
Answers == Intents \cup {NothingToPay}

CartRows == [status : {"open", "abandoned", "converted", "gone"}, coded : BOOLEAN]

OrderRows ==
    [status : {"absent", "pending", "confirmed", "cancelled"}, cart : Carts \cup {None},
     email : Emails \cup {None}, coded : BOOLEAN, key : Keys \cup {None},
     reference : Intents \cup {None}]

(* request_hash: the request is its cart and its email.                    *)
KeyRows ==
    [order : OrderIds \cup {None}, cart : Carts \cup {None}, email : Emails \cup {None},
     answer : Answers \cup {None}]

RequestRows ==
    [stage : {"idle", "placing", "locked", "claimed", "starting", "referencing", "answering"},
     cart : Carts \cup {None}, email : Emails \cup {None}, key : Keys \cup {None},
     order : OrderIds \cup {None},
     intent : Answers \cup {None}]

NoRequest == [stage |-> "idle", cart |-> None, email |-> None, key |-> None,
              order |-> None, intent |-> None]

CheckoutInit ==
    /\ cart \in [Carts -> [status : {"open"}, coded : BOOLEAN]]
    /\ order = [o \in OrderIds |-> [status |-> "absent", cart |-> None, email |-> None,
                                    coded |-> FALSE, key |-> None, reference |-> None]]
    /\ code \in [used : {0}, limit : 1..MaxLimit]
    /\ key = [k \in Keys |-> [order |-> None, cart |-> None, email |-> None, answer |-> None]]
    /\ request = [r \in Requests |-> NoRequest]
    /\ intents = [i \in Intents |-> None]

-----------------------------------------------------------------------------
Placed == {o \in OrderIds : order[o].status # "absent"}

(* Row locks, held until the transaction ends.                             *)
LocksCart(r, c) == request[r].stage \in {"locked", "claimed"} /\ request[r].cart = c
LocksCode(r) == request[r].stage = "claimed"

CartFree(c) == \A r \in Requests : ~LocksCart(r, c)
CodeFree == \A r \in Requests : ~LocksCode(r)

(* Checkout of a key that is new, or of none.                              *)
Begin(r, c, e, k) ==
    /\ request[r].stage = "idle"
    /\ k # None => key[k].order = None
    /\ request' = [request EXCEPT ![r] =
          [NoRequest EXCEPT !.stage = "placing", !.cart = c, !.email = e, !.key = k]]
    /\ UNCHANGED <<cart, order, code, key, intents>>

(* replayCheckout of a key whose order has no answer yet.  It is refused   *)
(* for another request, and a stored answer is given again, which change   *)
(* nothing.  Gateways that start a payment anew on the way, those with     *)
(* ResumePayment, are left out.                                            *)
Resume(r, k) ==
    /\ request[r].stage = "idle"
    /\ key[k].order # None
    /\ key[k].answer = None
    /\ request' = [request EXCEPT ![r] =
          [NoRequest EXCEPT !.stage = "starting", !.cart = key[k].cart, !.email = key[k].email,
                            !.key = k, !.order = key[k].order]]
    /\ UNCHANGED <<cart, order, code, key, intents>>

(* Mutant: a cart that became an order may be checked out again.           *)
LockAnyCart(r) ==
    /\ request[r].stage = "placing"
    /\ CartFree(request[r].cart)
    /\ cart[request[r].cart].status # "gone"
    /\ request' = [request EXCEPT ![r].stage = "locked"]
    /\ UNCHANGED <<cart, order, code, key, intents>>

(* lockCartForCheckout: an abandoned cart comes back, which lasts only if  *)
(* the transaction commits.                                                *)
LockCart(r) ==
    /\ request[r].stage = "placing"
    /\ CartFree(request[r].cart)
    /\ cart[request[r].cart].status \in {"open", "abandoned"}
    /\ request' = [request EXCEPT ![r].stage = "locked"]
    /\ UNCHANGED <<cart, order, code, key, intents>>

(* An order that was cancelled gives the address its use back, not the     *)
(* code.                                                                   *)
emailHasUsed(e) ==
    \E o \in Placed : order[o].coded /\ order[o].email = e /\ order[o].status # "cancelled"

(* Mutant: the code is read without FOR UPDATE.                            *)
ClaimUnlocked(r) ==
    /\ request[r].stage = "locked"
    /\ cart[request[r].cart].coded
    /\ code.used < code.limit
    /\ ~emailHasUsed(request[r].email)
    /\ request' = [request EXCEPT ![r].stage = "claimed"]
    /\ UNCHANGED <<cart, order, code, key, intents>>

(* applyTx of a code that is limited and once per email: judged and        *)
(* counted under its row's lock.                                           *)
ClaimCode(r) ==
    /\ request[r].stage = "locked"
    /\ cart[request[r].cart].coded
    /\ CodeFree
    /\ code.used < code.limit
    /\ ~emailHasUsed(request[r].email)
    /\ request' = [request EXCEPT ![r].stage = "claimed"]
    /\ UNCHANGED <<cart, order, code, key, intents>>

(* The rest of createOrderFromCart, to its commit.  The unique key refuses *)
(* an order under a key that another request has used since it was read.   *)
Commit(r, o) ==
    LET q == request[r]
        coded == q.stage = "claimed"
    IN  /\ \/ coded
           \/ q.stage = "locked" /\ ~cart[q.cart].coded
        /\ order[o].status = "absent"
        /\ q.key # None => key[q.key].order = None
        /\ cart' = [cart EXCEPT ![q.cart].status = "converted"]
        /\ order' = [order EXCEPT ![o] =
              [status |-> "pending", cart |-> q.cart, email |-> q.email, coded |-> coded,
               key |-> q.key, reference |-> None]]
        /\ code' = IF coded THEN [code EXCEPT !.used = @ + 1] ELSE code
        /\ key' = IF q.key = None THEN key
                  ELSE [key EXCEPT ![q.key] =
                           [order |-> o, cart |-> q.cart, email |-> q.email, answer |-> None]]
        /\ request' = [request EXCEPT ![r].stage = "starting", ![r].order = o]
        /\ UNCHANGED intents

(* Initiate: the gateway starts a payment and answers.                     *)
Initiate(r, i) ==
    /\ request[r].stage = "starting"
    /\ request[r].key \notin CashKeys
    /\ intents[i] = None
    /\ intents' = [intents EXCEPT ![i] = request[r].order]
    /\ request' = [request EXCEPT ![r].stage = "referencing", ![r].intent = i]
    /\ UNCHANGED <<cart, order, code, key>>

(* The same of a method that needs nothing further: Confirm, or an error   *)
(* for an order that was cancelled.                                        *)
ConfirmUnpaid(r) ==
    LET o == request[r].order
    IN  /\ request[r].stage = "starting"
        /\ request[r].key \in CashKeys \cup {None}
        /\ order[o].status # "cancelled"
        /\ order' = [order EXCEPT ![o].status = "confirmed"]
        /\ request' = [request EXCEPT ![r].stage = "answering", ![r].intent = NothingToPay]
        /\ UNCHANGED <<cart, code, key, intents>>

Reference(r) ==
    /\ request[r].stage = "referencing"
    /\ order' = [order EXCEPT ![request[r].order].reference = request[r].intent]
    /\ request' = [request EXCEPT ![r].stage = "answering"]
    /\ UNCHANGED <<cart, code, key, intents>>

(* finishPayment, and the answer to the shopper.  Storing it may fail,     *)
(* which is logged.                                                        *)
Answer(r, stored) ==
    LET q == request[r]
    IN  /\ q.stage = "answering"
        /\ key' = IF stored /\ q.key # None THEN [key EXCEPT ![q.key].answer = q.intent] ELSE key
        /\ request' = [request EXCEPT ![r] = NoRequest]
        /\ UNCHANGED <<cart, order, code, intents>>

(* A refusal, a rollback, a gateway's error, or the end of the process.    *)
GiveUp(r) ==
    /\ request[r].stage # "idle"
    /\ request' = [request EXCEPT ![r] = NoRequest]
    /\ UNCHANGED <<cart, order, code, key, intents>>

-----------------------------------------------------------------------------
(* Mutant: the sweep takes every cart that has run out.                    *)
AbandonAny(c) ==
    /\ cart[c].status \notin {"abandoned", "gone"}
    /\ CartFree(c)
    /\ cart' = [cart EXCEPT ![c].status = "abandoned"]
    /\ UNCHANGED <<order, code, key, request, intents>>

(* Abandon, of an expired cart; a locked one is skipped.                   *)
Abandon(c) ==
    /\ cart[c].status = "open"
    /\ CartFree(c)
    /\ cart' = [cart EXCEPT ![c].status = "abandoned"]
    /\ UNCHANGED <<order, code, key, request, intents>>

(* revive, by any change the shopper makes to the cart.                    *)
Revive(c) ==
    /\ cart[c].status = "abandoned"
    /\ CartFree(c)
    /\ cart' = [cart EXCEPT ![c].status = "open"]
    /\ UNCHANGED <<order, code, key, request, intents>>

(* SetDiscountCode, of a cart that is not an order yet; it revives too.    *)
SetDiscountCode(c, coded) ==
    /\ cart[c].status \in {"open", "abandoned"}
    /\ CartFree(c)
    /\ cart' = [cart EXCEPT ![c] = [status |-> "open", coded |-> coded]]
    /\ UNCHANGED <<order, code, key, request, intents>>

(* PurgeAbandoned.                                                         *)
Purge(c) ==
    /\ cart[c].status = "abandoned"
    /\ CartFree(c)
    /\ cart' = [cart EXCEPT ![c].status = "gone"]
    /\ UNCHANGED <<order, code, key, request, intents>>

(* Orders.Cancel: an operator, or the sweep of unpaid orders.              *)
CancelOrder(o) ==
    /\ order[o].status \in {"pending", "confirmed"}
    /\ order' = [order EXCEPT ![o].status = "cancelled"]
    /\ UNCHANGED <<cart, code, key, request, intents>>

CheckoutNext ==
    \/ \E r \in Requests :
          \/ \E c \in Carts, e \in Emails, k \in Keys \cup {None} : Begin(r, c, e, k)
          \/ \E k \in Keys : Resume(r, k)
          \/ LockCart(r) \/ ClaimCode(r)
          \/ \E o \in OrderIds : Commit(r, o)
          \/ \E i \in Intents : Initiate(r, i)
          \/ ConfirmUnpaid(r) \/ Reference(r)
          \/ \E stored \in BOOLEAN : Answer(r, stored)
          \/ GiveUp(r)
    \/ \E c \in Carts : Abandon(c) \/ Revive(c) \/ Purge(c)
    \/ \E c \in Carts, coded \in BOOLEAN : SetDiscountCode(c, coded)
    \/ \E o \in OrderIds : CancelOrder(o)

CheckoutSpec == CheckoutInit /\ [][CheckoutNext]_checkoutVars

-----------------------------------------------------------------------------
TypeOK ==
    /\ cart \in [Carts -> CartRows]
    /\ order \in [OrderIds -> OrderRows]
    /\ code \in [used : 0..MaxLimit, limit : 1..MaxLimit]
    /\ key \in [Keys -> KeyRows]
    /\ request \in [Requests -> RequestRows]
    /\ intents \in [Intents -> OrderIds \cup {None}]

(* "A retry with the same key must never create a second order"            *)
(* (Checkout), nor do two requests that know nothing of each other's key   *)
(* turn one basket into two orders.                                        *)
OneOrderPerCheckout ==
    \A o, p \in Placed :
        (order[o].cart = order[p].cart \/ (order[o].key # None /\ order[o].key = order[p].key))
            => o = p

(* "Only 'converted' reaches here": a basket that became an order is never *)
(* offered back, given up or purged by the carts' sweeps, nor changed.     *)
OrderedCartsAreConverted == \A o \in Placed : cart[order[o].cart].status = "converted"

(* "Two checkouts racing for the last use of a code is the one contention  *)
(* that matters here" (applyTx): the code is counted once for each order   *)
(* that got it, within its limit, and one address has it on one live order.*)
CodeClaimedOnce ==
    /\ code.used = Cardinality({o \in Placed : order[o].coded})
    /\ code.used <= code.limit
    /\ \A o, p \in Placed :
          /\ order[o].coded /\ order[p].coded /\ order[o].email = order[p].email
          /\ order[o].status # "cancelled" /\ order[p].status # "cancelled"
          => o = p

(* schema.go:560, of idempotency_keys: "Same key, same operation, same     *)
(* answer."                                                                *)
SameKeySameAnswer ==
    [][\A k \in Keys : key[k].answer # None => key'[k].answer = key[k].answer]_checkoutVars
=============================================================================
