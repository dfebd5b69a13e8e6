---------------------------- MODULE CheckoutProofs ----------------------------
(***************************************************************************)
(* What holds of checkouts for any carts, keys, addresses, requests and    *)
(* orders: a basket and a key become one order, a basket that did is left  *)
(* alone by the carts' sweeps, and a code is counted once for each order   *)
(* that got it, within its limit and once per address.                     *)
(*                                                                         *)
(* One inductive invariant carries them.  Its heart is what the row locks  *)
(* are for: while a request holds a cart, the cart is not an order yet and *)
(* nobody else holds it; while it holds the code, there is a use left for  *)
(* it and its address has none.                                            *)
(***************************************************************************)
EXTENDS Checkout, FiniteSetTheorems, TLAPS

Locks(q) == q.stage \in {"locked", "claimed"}

(* What a request knows by the stage it is at.                             *)
Knows(q) ==
    /\ q.stage # "idle" => q.cart \in Carts /\ q.email \in Emails
    /\ q.stage \in {"starting", "referencing", "answering"} => q.order \in Placed
    /\ q.stage = "referencing" => q.intent \in Intents
    /\ q.stage = "answering" => q.intent \in Answers

RequestsKnow == \A r \in Requests : Knows(request[r])

CartsHeld ==
    /\ \A r \in Requests : Locks(request[r]) => cart[request[r].cart].status \in {"open", "abandoned"}
    /\ \A r, s \in Requests :
          Locks(request[r]) /\ Locks(request[s]) /\ request[r].cart = request[s].cart => r = s

CodeHeld ==
    /\ \A r \in Requests : LocksCode(r) => code.used < code.limit /\ ~emailHasUsed(request[r].email)
    /\ \A r, s \in Requests : LocksCode(r) /\ LocksCode(s) => r = s

(* The rows of keys and orders name each other.                            *)
KeysAgree ==
    /\ \A k \in Keys : key[k].order # None =>
          key[k].order \in Placed /\ key[k].cart \in Carts /\ key[k].email \in Emails
    /\ \A o \in Placed : order[o].cart \in Carts
    /\ \A o \in Placed : order[o].key # None => key[order[o].key].order = o

Coded == {o \in Placed : order[o].coded}

CheckoutInv ==
    /\ TypeOK /\ RequestsKnow /\ CartsHeld /\ CodeHeld /\ KeysAgree
    /\ OneOrderPerCheckout /\ OrderedCartsAreConverted /\ CodeClaimedOnce

-----------------------------------------------------------------------------
(* A step of one request, which lets its locks go, keeps them, or takes    *)
(* those that are free, and leaves carts, orders, codes and keys alone.    *)
LEMMA RequestStep ==
    ASSUME CheckoutInv, NEW r \in Requests, NEW q \in RequestRows,
           request' = [request EXCEPT ![r] = q],
           Knows(q),
           Locks(q) => /\ \/ Locks(request[r]) /\ q.cart = request[r].cart
                          \/ CartFree(q.cart) /\ cart[q.cart].status \in {"open", "abandoned"},
           q.stage = "claimed" => CodeFree /\ code.used < code.limit /\ ~emailHasUsed(q.email),
           intents' \in [Intents -> OrderIds \cup {None}],
           UNCHANGED <<cart, order, code, key>>
    PROVE  CheckoutInv'
<1> USE DEF CheckoutInv
<1>1. TypeOK'
  BY DEF TypeOK
<1>2. Placed' = Placed /\ \A e : emailHasUsed(e)' <=> emailHasUsed(e)
  BY DEF Placed, emailHasUsed
<1>3. RequestsKnow'
  BY <1>2 DEF TypeOK, RequestsKnow, Knows
<1>4. CartsHeld'
  BY DEF TypeOK, CartsHeld, CartFree, LocksCart, Locks
<1>5. CodeHeld'
  BY <1>2 DEF TypeOK, CodeHeld, CodeFree, LocksCode
<1>6. (KeysAgree /\ OneOrderPerCheckout /\ OrderedCartsAreConverted /\ CodeClaimedOnce)'
  BY <1>2 DEF KeysAgree, OneOrderPerCheckout, OrderedCartsAreConverted, CodeClaimedOnce
<1>7. QED
  BY <1>1, <1>3, <1>4, <1>5, <1>6

(* A change of a cart that nobody holds and that is no order.              *)
LEMMA CartStep ==
    ASSUME CheckoutInv, NEW c \in Carts, NEW row \in CartRows,
           cart' = [cart EXCEPT ![c] = row], CartFree(c), cart[c].status # "converted",
           UNCHANGED <<order, code, key, request, intents>>
    PROVE  CheckoutInv'
<1> USE DEF CheckoutInv
<1>1. TypeOK'
  BY DEF TypeOK
<1>2. Placed' = Placed /\ \A e : emailHasUsed(e)' <=> emailHasUsed(e)
  BY DEF Placed, emailHasUsed
<1>3. RequestsKnow' /\ CodeHeld'
  BY <1>2 DEF RequestsKnow, Knows, CodeHeld, LocksCode
<1>4. CartsHeld'
  BY DEF TypeOK, CartsHeld, CartFree, LocksCart, Locks, RequestsKnow, Knows
<1>5. (KeysAgree /\ OneOrderPerCheckout /\ CodeClaimedOnce)'
  BY <1>2 DEF KeysAgree, OneOrderPerCheckout, CodeClaimedOnce
<1>6. OrderedCartsAreConverted'
  BY <1>2 DEF TypeOK, KeysAgree, OrderedCartsAreConverted
<1>7. QED
  BY <1>1, <1>3, <1>4, <1>5, <1>6

(* A change of an order that leaves alone what it was made from, and a     *)
(* cancelled one cancelled, by nobody or by a request that holds no lock.  *)
LEMMA OrderStep ==
    ASSUME CheckoutInv, NEW o \in Placed, NEW row \in OrderRows,
           order' = [order EXCEPT ![o] = row],
           row.cart = order[o].cart, row.email = order[o].email,
           row.coded = order[o].coded, row.key = order[o].key,
           row.status # "absent",
           order[o].status = "cancelled" => row.status = "cancelled",
           \/ request' = request
           \/ \E r \in Requests, q \in RequestRows :
                 request' = [request EXCEPT ![r] = q] /\ ~Locks(q) /\ Knows(q),
           UNCHANGED <<cart, code, key, intents>>
    PROVE  CheckoutInv'
<1> USE DEF CheckoutInv
<1>1. o \in OrderIds
  BY DEF Placed
<1>2. TypeOK'
  BY <1>1 DEF TypeOK
<1>3. Placed' = Placed
  BY <1>1 DEF Placed, TypeOK
<1>4. \A e : emailHasUsed(e)' => emailHasUsed(e)
  BY <1>1, <1>3 DEF emailHasUsed, TypeOK
<1>5. RequestsKnow'
  BY <1>3 DEF TypeOK, RequestsKnow, Knows
<1>6. CartsHeld'
  BY DEF TypeOK, CartsHeld, Locks
<1>7. CodeHeld'
  BY <1>4 DEF TypeOK, CodeHeld, LocksCode, Locks
<1>8. \A p \in Placed : /\ order'[p].cart = order[p].cart /\ order'[p].email = order[p].email
                        /\ order'[p].coded = order[p].coded /\ order'[p].key = order[p].key
                        /\ order[p].status = "cancelled" => order'[p].status = "cancelled"
  BY <1>1 DEF TypeOK, Placed
<1>9. (KeysAgree /\ OneOrderPerCheckout /\ OrderedCartsAreConverted)'
  BY <1>3, <1>8 DEF KeysAgree, OneOrderPerCheckout, OrderedCartsAreConverted
<1>10. CodeClaimedOnce'
  <2>1. Coded' = Coded
    BY <1>3, <1>8 DEF Coded
  <2>2. code'.used = Cardinality(Coded') /\ code'.used <= code'.limit
    BY <2>1 DEF CodeClaimedOnce, Coded
  <2>3. \A p, u \in Placed' :
           /\ order'[p].coded /\ order'[u].coded /\ order'[p].email = order'[u].email
           /\ order'[p].status # "cancelled" /\ order'[u].status # "cancelled"
           => p = u
    <3> SUFFICES ASSUME NEW p \in Placed, NEW u \in Placed,
                        order'[p].coded, order'[u].coded, order'[p].email = order'[u].email,
                        order'[p].status # "cancelled", order'[u].status # "cancelled"
                 PROVE  p = u
      BY <1>3, Zenon
    <3>1. order[p].coded /\ order[u].coded
      BY <1>8, Zenon
    <3>2. /\ order[p].email = order[u].email
          /\ order[p].status # "cancelled" /\ order[u].status # "cancelled"
      BY <1>8
    <3>3. QED
      BY <3>1, <3>2, Zenon DEF CodeClaimedOnce
  <2>4. QED
    BY <2>2, <2>3, Zenon DEF CodeClaimedOnce, Coded
<1>11. QED
  BY <1>2, <1>5, <1>6, <1>7, <1>9, <1>10

(* An answer that is stored under its key.                                 *)
LEMMA AnswerStep ==
    ASSUME CheckoutInv, NEW r \in Requests, NEW stored \in BOOLEAN, Answer(r, stored)
    PROVE  CheckoutInv'
<1> USE DEF CheckoutInv
<1>1. request[r].stage = "answering" /\ request[r] \in RequestRows
  BY DEF Answer, TypeOK
<1>2. request[r].intent \in Answers
  BY <1>1 DEF RequestsKnow, Knows
<1>3. NoRequest \in RequestRows /\ Knows(NoRequest) /\ ~Locks(NoRequest)
  BY DEF NoRequest, RequestRows, Knows, Locks
<1>4. /\ key' \in [Keys -> KeyRows]
      /\ \A k \in Keys : /\ key'[k].order = key[k].order /\ key'[k].cart = key[k].cart
                         /\ key'[k].email = key[k].email
  <2>1. ASSUME NEW k \in Keys
        PROVE  LET row == [key[k] EXCEPT !.answer = request[r].intent]
               IN  /\ row \in KeyRows /\ row.order = key[k].order
                   /\ row.cart = key[k].cart /\ row.email = key[k].email
    BY <1>2 DEF TypeOK, KeyRows
  <2>2. CASE key' = key
    BY <2>2 DEF TypeOK
  <2>3. CASE request[r].key \in Keys
             /\ key' = [key EXCEPT ![request[r].key] = [key[request[r].key] EXCEPT !.answer = request[r].intent]]
    BY <2>1, <2>3 DEF TypeOK
  <2>4. QED
    BY <1>1, <2>2, <2>3 DEF Answer, RequestRows
<1>5. request' = [request EXCEPT ![r] = NoRequest]
  BY DEF Answer
<1>6. UNCHANGED <<cart, order, code, intents>>
  BY DEF Answer
<1>7. TypeOK'
  BY <1>3, <1>4, <1>5, <1>6 DEF TypeOK
<1>8. Placed' = Placed /\ \A e : emailHasUsed(e)' <=> emailHasUsed(e)
  BY <1>6 DEF Placed, emailHasUsed
<1>9. RequestsKnow'
  BY <1>3, <1>5, <1>8 DEF TypeOK, RequestsKnow, Knows
<1>10. CartsHeld' /\ CodeHeld'
  BY <1>3, <1>5, <1>6, <1>8 DEF TypeOK, CartsHeld, CodeHeld, LocksCode, Locks
<1>11. KeysAgree'
  BY <1>4, <1>6, <1>8 DEF KeysAgree, TypeOK, OrderRows, Placed
<1>12. (OneOrderPerCheckout /\ OrderedCartsAreConverted /\ CodeClaimedOnce)'
  BY <1>6, <1>8 DEF OneOrderPerCheckout, OrderedCartsAreConverted, CodeClaimedOnce
<1>13. QED
  BY <1>7, <1>9, <1>10, <1>11, <1>12

(* The commit of phase A: nothing was made before of its cart or under its *)
(* key, and the code has a use left and its address none.                  *)
LEMMA CommitStep ==
    ASSUME CheckoutInv, NEW r \in Requests, NEW o \in OrderIds, Commit(r, o)
    PROVE  CheckoutInv'
<1> DEFINE q == request[r]
           coded == q.stage = "claimed"
           row == [status |-> "pending", cart |-> q.cart, email |-> q.email, coded |-> coded,
                   key |-> q.key, reference |-> None]
<1> USE DEF CheckoutInv
<1>1. /\ Locks(q) /\ q \in RequestRows /\ q.cart \in Carts /\ q.email \in Emails
      /\ q.key \in Keys \cup {None}
      /\ cart[q.cart].status \in {"open", "abandoned"}
  BY DEF Commit, TypeOK, Locks, RequestsKnow, Knows, CartsHeld, RequestRows
<1>2. /\ o \notin Placed
      /\ q.key # None => key[q.key].order = None
      /\ order' = [order EXCEPT ![o] = row]
      /\ cart' = [cart EXCEPT ![q.cart] = [cart[q.cart] EXCEPT !.status = "converted"]]
      /\ intents' = intents
  BY DEF Commit, Placed
<1>3. row \in OrderRows
  BY <1>1 DEF OrderRows
<1>4. PICK nq \in RequestRows : /\ request' = [request EXCEPT ![r] = nq]
                                /\ nq.stage = "starting" /\ nq.order = o
                                /\ nq.cart = q.cart /\ nq.email = q.email
  <2>1. [q EXCEPT !.stage = "starting", !.order = o] \in RequestRows
    BY <1>1 DEF RequestRows
  <2>2. request' = [request EXCEPT ![r] = [q EXCEPT !.stage = "starting", !.order = o]]
    BY DEF Commit
  <2>3. QED
    BY <1>1, <2>1, <2>2 DEF RequestRows
<1>5. PICK krow \in KeyRows :
         /\ krow.order = o /\ krow.cart = q.cart /\ krow.email = q.email
         /\ IF q.key = None THEN key' = key ELSE key' = [key EXCEPT ![q.key] = krow]
  <2> DEFINE k == [order |-> o, cart |-> q.cart, email |-> q.email, answer |-> None]
  <2>1. k \in KeyRows
    BY <1>1 DEF KeyRows
  <2>2. QED
    BY <2>1 DEF Commit
<1>6. /\ coded => code.used < code.limit /\ ~emailHasUsed(q.email)
      /\ coded => \A s \in Requests : LocksCode(s) => s = r
  BY DEF CodeHeld, LocksCode
<1>7. code' = IF coded THEN [code EXCEPT !.used = code.used + 1] ELSE code
  BY DEF Commit
<1>8. /\ code.used \in 0..MaxLimit /\ code.limit \in 1..MaxLimit
      /\ code' \in [used : 0..MaxLimit, limit : 1..MaxLimit]
      /\ code'.limit = code.limit
      /\ code'.used = IF coded THEN code.used + 1 ELSE code.used
  <2>1. code.used \in 0..MaxLimit /\ code.limit \in 1..MaxLimit
    BY DEF TypeOK
  <2>2. CASE ~coded
    BY <1>7, <2>1, <2>2 DEF TypeOK
  <2>3. CASE coded
    <3>1. code.used + 1 \in 0..MaxLimit
      BY <1>6, <2>1, <2>3, CheckoutAssumption
    <3>2. QED
      BY <1>7, <2>1, <2>3, <3>1 DEF TypeOK
  <2>4. QED
    BY <2>1, <2>2, <2>3
<1> HIDE DEF q
<1>9. TypeOK'
  <2>1. cart' \in [Carts -> CartRows]
    BY <1>1, <1>2 DEF TypeOK, CartRows
  <2>2. key' \in [Keys -> KeyRows]
    BY <1>1, <1>5 DEF TypeOK
  <2>3. order' \in [OrderIds -> OrderRows]
    BY <1>2, <1>3 DEF TypeOK
  <2>4. QED
    BY <1>2, <1>4, <1>8, <2>1, <2>2, <2>3 DEF TypeOK
<1> HIDE DEF row, coded
<1>10. /\ Placed' = Placed \cup {o}
       /\ \A p \in Placed : p # o /\ order'[p] = order[p]
       /\ order'[o] = row
       /\ row.cart = q.cart /\ row.email = q.email /\ row.key = q.key /\ row.status = "pending"
  BY <1>2 DEF Placed, TypeOK, row
<1>11. RequestsKnow'
  BY <1>1, <1>4, <1>10 DEF TypeOK, RequestsKnow, Knows
<1>12. \A s \in Requests : Locks(request'[s]) =>
           s # r /\ request'[s] = request[s] /\ request[s].cart # q.cart
  BY <1>1, <1>4 DEF TypeOK, CartsHeld, Locks, q
<1>13. CartsHeld'
  BY <1>2, <1>12 DEF TypeOK, CartsHeld, RequestsKnow, Knows, Locks
<1>14. CodeHeld'
  <2>1. \A s \in Requests : LocksCode(s)' => LocksCode(s) /\ s # r /\ request'[s] = request[s]
    BY <1>12 DEF LocksCode, Locks
  <2>2. ASSUME coded PROVE \A s \in Requests : ~LocksCode(s)'
    BY <1>6, <2>1, <2>2
  <2>3. ASSUME ~coded PROVE \A e : emailHasUsed(e)' => emailHasUsed(e)
    BY <1>10, <2>3 DEF emailHasUsed, row
  <2>4. QED
    BY <1>8, <2>1, <2>2, <2>3 DEF CodeHeld
<1>15. KeysAgree'
  <2>1. \A k \in Keys : key'[k] = IF k = q.key THEN krow ELSE key[k]
    BY <1>1, <1>5, CheckoutAssumption DEF TypeOK
  <2>2. \A p \in Placed : order[p].key \in Keys \cup {None}
    BY DEF TypeOK, OrderRows, Placed
  <2>3. ASSUME NEW k \in Keys, key'[k].order # None
        PROVE  key'[k].order \in Placed' /\ key'[k].cart \in Carts /\ key'[k].email \in Emails
    <3>1. CASE k = q.key
      BY <1>1, <1>5, <1>10, <2>1, <3>1
    <3>2. CASE k # q.key
      BY <1>10, <2>1, <2>3, <3>2 DEF KeysAgree
    <3>3. QED
      BY <3>1, <3>2
  <2>4. ASSUME NEW p \in Placed'
        PROVE  /\ order'[p].cart \in Carts
               /\ order'[p].key # None => key'[order'[p].key].order = p
    <3>1. CASE p = o
      BY <1>1, <1>5, <1>10, <2>1, <3>1
    <3>2. CASE p # o
      <4>1. p \in Placed /\ order'[p] = order[p] /\ order[p].cart \in Carts
        BY <1>10, <2>4, <3>2 DEF KeysAgree
      <4>2. ASSUME order[p].key # None PROVE key[order[p].key].order = p /\ order[p].key \in Keys
        BY <2>2, <4>1, <4>2 DEF KeysAgree
      <4>3. p # None
        BY <4>1, CheckoutAssumption DEF Placed
      <4>4. ASSUME order[p].key # None PROVE order[p].key # q.key
        BY <1>2, <4>2, <4>3, <4>4
      <4>5. QED
        BY <2>1, <4>1, <4>2, <4>4
    <3>3. QED
      BY <3>1, <3>2
  <2>5. QED
    BY <2>3, <2>4, Zenon DEF KeysAgree
<1>16. OneOrderPerCheckout'
  <2>1. \A p \in Placed : order[p].cart # q.cart
    BY <1>1 DEF OrderedCartsAreConverted
  <2>2. \A p \in Placed : q.key # None => order[p].key # q.key
    BY <1>2, CheckoutAssumption DEF KeysAgree, Placed
  <2>3. QED
    BY <1>10, <2>1, <2>2 DEF OneOrderPerCheckout
<1>17. OrderedCartsAreConverted'
  BY <1>1, <1>2, <1>10 DEF OrderedCartsAreConverted, KeysAgree, TypeOK, CartRows
<1>18. CodeClaimedOnce'
  <2>1. /\ Coded \subseteq OrderIds /\ o \notin Coded
        /\ Coded' = IF coded THEN Coded \cup {o} ELSE Coded
    BY <1>2, <1>10 DEF Coded, Placed, row
  <2>2. IsFiniteSet(Coded) /\ Cardinality(Coded) \in Nat
    BY <2>1, CheckoutAssumption, FS_Subset, FS_CardinalityType
  <2>3. Cardinality(Coded') = IF coded THEN Cardinality(Coded) + 1 ELSE Cardinality(Coded)
    BY <2>1, <2>2, FS_AddElement
  <2>4. code'.used = Cardinality(Coded')
    BY <1>8, <2>3 DEF CodeClaimedOnce, Coded
  <2>5. code'.used <= code'.limit
    BY <1>6, <1>8 DEF CodeClaimedOnce
  <2>6. \A p, u \in Placed' :
           /\ order'[p].coded /\ order'[u].coded /\ order'[p].email = order'[u].email
           /\ order'[p].status # "cancelled" /\ order'[u].status # "cancelled"
           => p = u
    <3>1. ASSUME NEW p \in Placed, order[p].coded, order[p].status # "cancelled", row.coded
          PROVE  order[p].email # q.email
      BY <1>6, <3>1 DEF emailHasUsed, row, coded
    <3>2. SUFFICES ASSUME NEW p \in Placed', NEW u \in Placed',
                          order'[p].coded, order'[u].coded, order'[p].email = order'[u].email,
                          order'[p].status # "cancelled", order'[u].status # "cancelled"
                   PROVE  p = u
      BY Zenon
    <3>3. CASE p \in Placed /\ u \in Placed
      BY <1>10, <3>2, <3>3, Zenon DEF CodeClaimedOnce
    <3>4. CASE p = o /\ u \in Placed
      BY <1>10, <3>1, <3>2, <3>4, Zenon
    <3>5. CASE u = o /\ p \in Placed
      BY <1>10, <3>1, <3>2, <3>5, Zenon
    <3>6. CASE p = o /\ u = o
      BY <3>6
    <3>7. QED
      BY <1>10, <3>2, <3>3, <3>4, <3>5, <3>6, Zenon
  <2>7. QED
    BY <2>4, <2>5, <2>6, Zenon DEF CodeClaimedOnce, Coded
<1>19. QED
  BY <1>9, <1>11, <1>13, <1>14, <1>15, <1>16, <1>17, <1>18

-----------------------------------------------------------------------------
LEMMA CheckoutInvInit == CheckoutInit => CheckoutInv
<1> SUFFICES ASSUME CheckoutInit PROVE CheckoutInv
  OBVIOUS
<1>1. Placed = {}
  BY DEF CheckoutInit, Placed
<1>2. TypeOK
  <2>1. cart \in [Carts -> CartRows]
    BY DEF CheckoutInit, CartRows
  <2>2. order \in [OrderIds -> OrderRows]
    BY DEF CheckoutInit, OrderRows
  <2>3. code \in [used : 0..MaxLimit, limit : 1..MaxLimit]
    BY CheckoutAssumption DEF CheckoutInit
  <2>4. key \in [Keys -> KeyRows] /\ request \in [Requests -> RequestRows]
    BY DEF CheckoutInit, KeyRows, RequestRows, NoRequest
  <2>5. intents \in [Intents -> OrderIds \cup {None}]
    BY DEF CheckoutInit
  <2>6. QED
    BY <2>1, <2>2, <2>3, <2>4, <2>5 DEF TypeOK
<1>3. RequestsKnow /\ CartsHeld /\ CodeHeld
  BY DEF CheckoutInit, RequestsKnow, Knows, CartsHeld, CodeHeld, Locks, LocksCode, NoRequest
<1>4. KeysAgree /\ OneOrderPerCheckout /\ OrderedCartsAreConverted
  BY <1>1 DEF CheckoutInit, KeysAgree, OneOrderPerCheckout, OrderedCartsAreConverted
<1>5. CodeClaimedOnce
  <2>1. {o \in Placed : order[o].coded} = {}
    BY <1>1
  <2>2. code.used = 0 /\ 0 <= code.limit
    BY CheckoutAssumption DEF CheckoutInit
  <2>3. QED
    BY <1>1, <2>1, <2>2, FS_EmptySet DEF CodeClaimedOnce
<1>6. QED
  BY <1>2, <1>3, <1>4, <1>5 DEF CheckoutInv

(* The steps of a request but its commit and its answer.                   *)
LEMMA RequestSteps ==
    ASSUME CheckoutInv, NEW r \in Requests,
           \/ \E c \in Carts, e \in Emails, k \in Keys \cup {None} : Begin(r, c, e, k)
           \/ \E k \in Keys : Resume(r, k)
           \/ LockCart(r) \/ ClaimCode(r) \/ GiveUp(r)
           \/ \E i \in Intents : Initiate(r, i)
    PROVE  CheckoutInv'
<1> USE DEF CheckoutInv
<1>1. request[r] \in RequestRows /\ Knows(request[r]) /\ intents \in [Intents -> OrderIds \cup {None}]
  BY DEF TypeOK, RequestsKnow
<1>2. ASSUME NEW c \in Carts, NEW e \in Emails, NEW k \in Keys \cup {None}, Begin(r, c, e, k)
      PROVE  CheckoutInv'
  <2> DEFINE q == [NoRequest EXCEPT !.stage = "placing", !.cart = c, !.email = e, !.key = k]
  <2>1. q \in RequestRows /\ Knows(q) /\ ~Locks(q) /\ q.stage # "claimed"
    BY <1>2 DEF NoRequest, RequestRows, Knows, Locks
  <2>2. request' = [request EXCEPT ![r] = q] /\ UNCHANGED <<cart, order, code, key, intents>>
    BY <1>2 DEF Begin
  <2> HIDE DEF q
  <2>3. QED
    BY <1>1, <2>1, <2>2, RequestStep
<1>3. ASSUME NEW k \in Keys, Resume(r, k)
      PROVE  CheckoutInv'
  <2> DEFINE q == [NoRequest EXCEPT !.stage = "starting", !.cart = key[k].cart, !.email = key[k].email,
                                    !.key = k, !.order = key[k].order]
  <2>1. /\ key[k].order \in Placed /\ key[k].cart \in Carts /\ key[k].email \in Emails
    BY <1>3 DEF Resume, KeysAgree, Placed, TypeOK, OrderRows
  <2>2. key[k].order \in OrderIds
    BY <2>1 DEF Placed
  <2>3. q \in RequestRows /\ Knows(q) /\ ~Locks(q) /\ q.stage # "claimed"
    BY <2>1, <2>2 DEF NoRequest, RequestRows, Knows, Locks
  <2>4. request' = [request EXCEPT ![r] = q] /\ UNCHANGED <<cart, order, code, key, intents>>
    BY <1>3 DEF Resume
  <2> HIDE DEF q
  <2>5. QED
    BY <1>1, <2>3, <2>4, RequestStep
<1>4. CASE LockCart(r)
  <2> DEFINE q == [request[r] EXCEPT !.stage = "locked"]
  <2>1. q \in RequestRows /\ Knows(q) /\ q.cart = request[r].cart /\ q.stage # "claimed"
    BY <1>1, <1>4 DEF LockCart, RequestRows, Knows
  <2>2. CartFree(request[r].cart) /\ cart[request[r].cart].status \in {"open", "abandoned"}
    BY <1>4 DEF LockCart
  <2>3. request' = [request EXCEPT ![r] = q] /\ UNCHANGED <<cart, order, code, key, intents>>
    BY <1>4 DEF LockCart
  <2> HIDE DEF q
  <2>4. QED
    BY <1>1, <2>1, <2>2, <2>3, RequestStep
<1>5. CASE ClaimCode(r)
  <2> DEFINE q == [request[r] EXCEPT !.stage = "claimed"]
  <2>1. /\ q \in RequestRows /\ Knows(q) /\ Locks(request[r])
        /\ q.cart = request[r].cart /\ q.email = request[r].email
    BY <1>1, <1>5 DEF ClaimCode, RequestRows, Knows, Locks
  <2>2. CodeFree /\ code.used < code.limit /\ ~emailHasUsed(request[r].email)
    BY <1>5 DEF ClaimCode
  <2>3. request' = [request EXCEPT ![r] = q] /\ UNCHANGED <<cart, order, code, key, intents>>
    BY <1>5 DEF ClaimCode
  <2> HIDE DEF q
  <2>4. QED
    BY <1>1, <2>1, <2>2, <2>3, RequestStep
<1>6. CASE GiveUp(r)
  <2>1. NoRequest \in RequestRows /\ Knows(NoRequest) /\ ~Locks(NoRequest) /\ NoRequest.stage # "claimed"
    BY DEF NoRequest, RequestRows, Knows, Locks
  <2>2. QED
    BY <1>1, <1>6, <2>1, RequestStep DEF GiveUp
<1>7. ASSUME NEW i \in Intents, Initiate(r, i)
      PROVE  CheckoutInv'
  <2> DEFINE q == [request[r] EXCEPT !.stage = "referencing", !.intent = i]
  <2>1. request[r].order \in Placed /\ request[r].order \in OrderIds
    BY <1>1, <1>7 DEF Initiate, Knows, Placed
  <2>2. q \in RequestRows /\ Knows(q) /\ ~Locks(q) /\ q.stage # "claimed"
    BY <1>1, <1>7, <2>1 DEF Initiate, RequestRows, Knows, Locks, Answers
  <2>3. request' = [request EXCEPT ![r] = q] /\ UNCHANGED <<cart, order, code, key>>
    BY <1>7 DEF Initiate
  <2>4. intents' \in [Intents -> OrderIds \cup {None}]
    BY <1>1, <1>7, <2>1 DEF Initiate
  <2> HIDE DEF q
  <2>5. QED
    BY <2>2, <2>3, <2>4, RequestStep
<1>8. QED
  BY <1>2, <1>3, <1>4, <1>5, <1>6, <1>7

(* The steps that write an order's row after its commit.                   *)
LEMMA OrderSteps ==
    ASSUME CheckoutInv,
           \/ \E r \in Requests : ConfirmUnpaid(r) \/ Reference(r)
           \/ \E o \in OrderIds : CancelOrder(o)
    PROVE  CheckoutInv'
<1> USE DEF CheckoutInv
<1>1. ASSUME NEW o \in Placed, NEW x \in {"confirmed", "cancelled"}
      PROVE  LET row == [order[o] EXCEPT !.status = x]
             IN  /\ row \in OrderRows /\ row.status = x
                 /\ row.cart = order[o].cart /\ row.email = order[o].email
                 /\ row.coded = order[o].coded /\ row.key = order[o].key
  BY DEF Placed, TypeOK, OrderRows
<1>2. ASSUME NEW o \in Placed, NEW i \in Intents
      PROVE  LET row == [order[o] EXCEPT !.reference = i]
             IN  /\ row \in OrderRows /\ row.status = order[o].status
                 /\ row.cart = order[o].cart /\ row.email = order[o].email
                 /\ row.coded = order[o].coded /\ row.key = order[o].key
  BY DEF Placed, TypeOK, OrderRows
<1>3. ASSUME NEW r \in Requests, ConfirmUnpaid(r)
      PROVE  CheckoutInv'
  <2> DEFINE o == request[r].order
             q == [request[r] EXCEPT !.stage = "answering", !.intent = NothingToPay]
  <2>1. o \in Placed /\ order[o].status # "cancelled"
    BY <1>3 DEF ConfirmUnpaid, RequestsKnow, Knows
  <2>2. q \in RequestRows /\ ~Locks(q) /\ Knows(q)
    BY <1>3, <2>1 DEF ConfirmUnpaid, TypeOK, RequestRows, RequestsKnow, Knows, Locks, Answers
  <2>3. /\ order' = [order EXCEPT ![o] = [order[o] EXCEPT !.status = "confirmed"]]
        /\ request' = [request EXCEPT ![r] = q] /\ UNCHANGED <<cart, code, key, intents>>
    BY <1>3 DEF ConfirmUnpaid
  <2> HIDE DEF o, q
  <2>4. QED
    BY <1>1, <2>1, <2>2, <2>3, OrderStep
<1>4. ASSUME NEW r \in Requests, Reference(r)
      PROVE  CheckoutInv'
  <2> DEFINE o == request[r].order
             q == [request[r] EXCEPT !.stage = "answering"]
             row == [order[o] EXCEPT !.reference = request[r].intent]
  <2>1. o \in Placed /\ request[r].intent \in Intents
    BY <1>4 DEF Reference, RequestsKnow, Knows
  <2>2. q \in RequestRows /\ ~Locks(q) /\ Knows(q)
    BY <1>4, <2>1 DEF Reference, TypeOK, RequestRows, RequestsKnow, Knows, Locks, Answers
  <2>3. /\ order' = [order EXCEPT ![o] = row]
        /\ request' = [request EXCEPT ![r] = q] /\ UNCHANGED <<cart, code, key, intents>>
    BY <1>4 DEF Reference
  <2>4. /\ row \in OrderRows /\ row.status = order[o].status /\ row.status # "absent"
        /\ row.cart = order[o].cart /\ row.email = order[o].email
        /\ row.coded = order[o].coded /\ row.key = order[o].key
    BY <1>2, <2>1 DEF Placed
  <2> HIDE DEF o, q, row
  <2>5. QED
    BY <2>1, <2>2, <2>3, <2>4, OrderStep
<1>5. ASSUME NEW o \in OrderIds, CancelOrder(o)
      PROVE  CheckoutInv'
  <2> DEFINE row == [order[o] EXCEPT !.status = "cancelled"]
  <2>1. o \in Placed
    BY <1>5 DEF CancelOrder, Placed
  <2>2. /\ row \in OrderRows /\ row.status = "cancelled"
        /\ row.cart = order[o].cart /\ row.email = order[o].email
        /\ row.coded = order[o].coded /\ row.key = order[o].key
    BY <1>1, <2>1
  <2>3. /\ order' = [order EXCEPT ![o] = row]
        /\ UNCHANGED <<cart, code, key, request, intents>>
    BY <1>5 DEF CancelOrder
  <2> HIDE DEF row
  <2>4. QED
    BY <2>1, <2>2, <2>3, OrderStep
<1>6. QED
  BY <1>3, <1>4, <1>5

LEMMA CartSteps ==
    ASSUME CheckoutInv, NEW c \in Carts,
           \/ Abandon(c) \/ Revive(c) \/ Purge(c)
           \/ \E coded \in BOOLEAN : SetDiscountCode(c, coded)
    PROVE  CheckoutInv'
<1>1. cart[c] \in CartRows
  BY DEF CheckoutInv, TypeOK
<1>2. \A x \in {"open", "abandoned", "gone"} : [cart[c] EXCEPT !.status = x] \in CartRows
  BY <1>1 DEF CartRows
<1>3. \A coded \in BOOLEAN : [status |-> "open", coded |-> coded] \in CartRows
  BY DEF CartRows
<1>4. PICK row \in CartRows : cart' = [cart EXCEPT ![c] = row]
  BY <1>2, <1>3 DEF Abandon, Revive, Purge, SetDiscountCode
<1>5. /\ CartFree(c) /\ cart[c].status # "converted"
      /\ UNCHANGED <<order, code, key, request, intents>>
  BY DEF Abandon, Revive, Purge, SetDiscountCode
<1>6. QED
  BY <1>4, <1>5, CartStep

LEMMA CheckoutInvNext == CheckoutInv /\ [CheckoutNext]_checkoutVars => CheckoutInv'
<1> SUFFICES ASSUME CheckoutInv, [CheckoutNext]_checkoutVars PROVE CheckoutInv'
  OBVIOUS
<1>1. CASE UNCHANGED checkoutVars
  BY <1>1 DEF checkoutVars, CheckoutInv, TypeOK, RequestsKnow, Knows, CartsHeld, CodeHeld, LocksCode,
              Locks, KeysAgree, OneOrderPerCheckout, OrderedCartsAreConverted, CodeClaimedOnce,
              Placed, emailHasUsed
<1>2. ASSUME NEW r \in Requests,
             \/ \E c \in Carts, e \in Emails, k \in Keys \cup {None} : Begin(r, c, e, k)
             \/ \E k \in Keys : Resume(r, k)
             \/ LockCart(r) \/ ClaimCode(r) \/ GiveUp(r)
             \/ \E i \in Intents : Initiate(r, i)
      PROVE  CheckoutInv'
  BY <1>2, RequestSteps
<1>3. ASSUME NEW r \in Requests, ConfirmUnpaid(r) \/ Reference(r)
      PROVE  CheckoutInv'
  BY <1>3, OrderSteps
<1>4. ASSUME NEW o \in OrderIds, CancelOrder(o)
      PROVE  CheckoutInv'
  BY <1>4, OrderSteps
<1>5. ASSUME NEW c \in Carts,
             \/ Abandon(c) \/ Revive(c) \/ Purge(c)
             \/ \E coded \in BOOLEAN : SetDiscountCode(c, coded)
      PROVE  CheckoutInv'
  BY <1>5, CartSteps
<1>6. QED
  BY <1>1, <1>2, <1>3, <1>4, <1>5, CommitStep, AnswerStep DEF CheckoutNext

(* The invariant of the theorems below: what the locks are held for.       *)
THEOREM CheckoutInvariant == CheckoutSpec => []CheckoutInv
<1>1. CheckoutInv /\ [CheckoutNext]_checkoutVars => CheckoutInv'
  BY CheckoutInvNext
<1>2. QED
  BY <1>1, CheckoutInvInit, PTL DEF CheckoutSpec

(* Carts, orders, keys and requests keep their types.                      *)
THEOREM TypeCorrect == CheckoutSpec => []TypeOK
<1>1. CheckoutInv => TypeOK
  BY DEF CheckoutInv
<1>2. QED
  BY <1>1, CheckoutInvariant, PTL

(* However many requests race for it, with one key, several or none, a     *)
(* basket becomes at most one order, and so does a key.                    *)
THEOREM OneOrder == CheckoutSpec => []OneOrderPerCheckout
<1>1. CheckoutInv => OneOrderPerCheckout
  BY DEF CheckoutInv
<1>2. QED
  BY <1>1, CheckoutInvariant, PTL

(* No sweep or change reaches a basket that became an order.               *)
THEOREM OrderedCartsStay == CheckoutSpec => []OrderedCartsAreConverted
<1>1. CheckoutInv => OrderedCartsAreConverted
  BY DEF CheckoutInv
<1>2. QED
  BY <1>1, CheckoutInvariant, PTL

(* A code is counted for each order that has it, within its limit, and an  *)
(* address has it on one live order.                                       *)
THEOREM CodesAreClaimedOnce == CheckoutSpec => []CodeClaimedOnce
<1>1. CheckoutInv => CodeClaimedOnce
  BY DEF CheckoutInv
<1>2. QED
  BY <1>1, CheckoutInvariant, PTL
=============================================================================
