---------------------------- MODULE StripeProofs ----------------------------
(***************************************************************************)
(* What holds of payments through Stripe, in two parts.                    *)
(*                                                                         *)
(* The refunds of one order, for any number of requests, amounts, lost     *)
(* answers and dead processes: what the ledger records Stripe sent, and    *)
(* requests that come one after another are never answered with each       *)
(* other's refund.                                                         *)
(*                                                                         *)
(* Stripe's events, for any orders, events, deliveries at once, posts and  *)
(* deaths: an event is handled by one delivery at a time, and nothing but  *)
(* an operator unmakes a payment that was recorded.  One inductive         *)
(* invariant carries both: a delivery under way holds the claim of its     *)
(* event, which is why no other can begin, and why the claim it gives back *)
(* is nobody else's.                                                       *)
(***************************************************************************)
EXTENDS StripeRefunds, StripeEvents, FiniteSetTheorems, TLAPS

InFlight == {"asking", "accepted", "refused", "unknown"}

(* A request at Stripe, or back from it, still has its reservation, one    *)
(* before has no row yet, and one that is accepted was carried out.        *)
FlightInv ==
    /\ \A q \in Requests : call[q].stage \in InFlight => row[q].status = "pending"
    /\ \A q \in Requests : call[q].stage \in {"idle", "read"} => row[q].status = "none"
    /\ \A q \in Requests : call[q].stage = "accepted" => made[call[q].key] = "succeeded"
    /\ RecordedWasSent

(* The rows refundKey counts whatever becomes of the requests in flight.   *)
Settled == RowsIn({"succeeded"}) \union {q \in RowsIn({"failed"}) : row[q].refused}

(* While requests come one after another, nothing is left pending behind   *)
(* them, the one that runs has counted every row that is settled, and so   *)
(* has a larger number in its key than each of these.                      *)
AloneInv ==
    /\ \A p, q \in Running : p = q
    /\ \A q \in Requests : call[q].stage = "over" => row[q].status # "pending"
    /\ \A q \in Running : call[q].key.before = Cardinality(Settled)
    /\ \A p \in RowsIn({"succeeded"}) : call[p].key.before < Cardinality(Settled)
    /\ EachRowItsOwnRefund

Inv == TypeOK /\ FlightInv /\ (alone => AloneInv)
-----------------------------------------------------------------------------
(* The counted rows are some of the requests, and so are numbered in Keys. *)
LEMMA CountedFinite ==
    /\ IsFiniteSet(Settled) /\ Cardinality(Settled) \in Nat
    /\ Cardinality(Counted) \in 0..Cardinality(Requests)
<1>1. Settled \subseteq Requests /\ Counted \subseteq Requests
  BY DEF Settled, Counted, RowsIn
<1>2. IsFiniteSet(Requests)
  BY StripeAssumption
<1>3. IsFiniteSet(Settled) /\ IsFiniteSet(Counted)
  BY <1>1, <1>2, FS_Subset
<1>4. Cardinality(Counted) <= Cardinality(Requests)
  BY <1>1, <1>2, FS_Subset
<1>5. /\ Cardinality(Settled) \in Nat /\ Cardinality(Counted) \in Nat
      /\ Cardinality(Requests) \in Nat
  BY <1>2, <1>3, FS_CardinalityType
<1>6. QED
  BY <1>3, <1>4, <1>5

(* A request Stripe has answered leaves every refund made before as it is. *)
LEMMA AnswerKeeps ==
    ASSUME TypeOK, NEW k \in Keys, Answer(k)
    PROVE  /\ made' \in [Keys -> {"none", "succeeded", "failed"}]
           /\ made'[k] # "none"
           /\ \A j \in Keys : made[j] # "none" => made'[j] = made[j]
BY DEF TypeOK, Answer, Make

LEMMA InitInv == Init => Inv
<1> SUFFICES ASSUME Init PROVE Inv
  OBVIOUS
<1>1. TypeOK
  BY StripeAssumption DEF Init, TypeOK, Rows, Stages
<1>2. FlightInv
  BY DEF Init, FlightInv, InFlight, RecordedWasSent, RowsIn
<1>3. AloneInv
  BY DEF Init, AloneInv, Running, RowsIn, EachRowItsOwnRefund
<1>4. QED
  BY <1>1, <1>2, <1>3 DEF Inv
-----------------------------------------------------------------------------
LEMMA PreflightKeeps ==
    ASSUME Inv, NEW q \in Requests, NEW amount \in AmountsAsked, Preflight(q, amount)
    PROVE  Inv'
<1> USE DEF Inv
<1> DEFINE key == [before |-> Cardinality(Counted), amount |-> amount]
<1>1. key \in Keys
  BY CountedFinite DEF Keys
<1>2. call' = [call EXCEPT ![q] = [stage |-> "read", key |-> key]]
  BY DEF Preflight
<1>3. TypeOK'
  BY <1>1, <1>2 DEF TypeOK, Preflight, Stages
<1>4. row[q].status = "none"
  BY DEF FlightInv, Preflight
<1>5. FlightInv'
  BY <1>1, <1>2, <1>4 DEF FlightInv, InFlight, RecordedWasSent, RowsIn, TypeOK, Preflight
<1>6. ASSUME alone' PROVE AloneInv'
  <2>1. AloneInv /\ Running = {}
    BY <1>6 DEF Preflight
  <2>2. Running' = {q}
    BY <1>2, <2>1 DEF Running, TypeOK
  <2>3. RowsIn({"pending"}) = {}
    BY <2>1 DEF AloneInv, Running, RowsIn, FlightInv
  <2>4. Counted = Settled
    BY <2>3 DEF Counted, Settled, RowsIn
  <2>5. Settled' = Settled /\ RowsIn({"succeeded"})' = RowsIn({"succeeded"})
    BY DEF Settled, RowsIn, Preflight
  <2>6. q \notin RowsIn({"succeeded"})
    BY <1>4 DEF RowsIn
  <2>7. call'[q].key.before = Cardinality(Settled')
    BY <1>2, <2>4, <2>5 DEF TypeOK
  <2>8. \A p \in RowsIn({"succeeded"}) : call'[p] = call[p]
    BY <1>2, <2>6 DEF TypeOK, RowsIn
  <2>9. \A p \in RowsIn({"succeeded"})' : call'[p].key.before < Cardinality(Settled')
    BY <2>1, <2>5, <2>8 DEF AloneInv
  <2>10. EachRowItsOwnRefund'
    BY <2>1, <2>5, <2>8 DEF AloneInv, EachRowItsOwnRefund
  <2>11. \A p \in Requests : call'[p].stage = "over" => row'[p].status # "pending"
    BY <1>2, <2>1 DEF AloneInv, TypeOK, Preflight
  <2>12. QED
    BY <2>2, <2>7, <2>9, <2>10, <2>11 DEF AloneInv
<1>7. QED
  BY <1>3, <1>5, <1>6

(* What only moves a request along, within its reservation, moves no row.  *)
LEMMA SettledKept ==
    ASSUME UNCHANGED row
    PROVE  Settled' = Settled /\ \A states : RowsIn(states)' = RowsIn(states)
BY DEF Settled, RowsIn

LEMMA AloneKept ==
    ASSUME TypeOK, AloneInv, NEW q \in Running, UNCHANGED row,
           \A p \in Requests \ {q} : call'[p] = call[p],
           call'[q].key = call[q].key, call'[q].stage \notin {"idle", "over"}
    PROVE  AloneInv'
<1>1. Running' = Running
  BY DEF Running
<1>2. \A p \in Requests : call'[p].key = call[p].key
  OBVIOUS
<1>3. \A p \in Requests : call'[p].stage = "over" => call[p].stage = "over"
  OBVIOUS
<1>4. QED
  BY <1>1, <1>2, <1>3, SettledKept DEF AloneInv, EachRowItsOwnRefund, RowsIn, Running

LEMMA ReserveKeeps ==
    ASSUME Inv, NEW q \in Requests, Reserve(q)
    PROVE  Inv'
<1> USE DEF Inv
<1>1. TypeOK'
  BY DEF TypeOK, Reserve, Rows, Stages
<1>2. row[q].status = "none" /\ q \in Running
  BY DEF FlightInv, Reserve, Running
<1>3. CASE row' = [row EXCEPT ![q].status = "pending"]
           /\ call' = [call EXCEPT ![q].stage = "asking"]
  <2>1. Settled' = Settled /\ RowsIn({"succeeded"})' = RowsIn({"succeeded"})
    BY <1>2, <1>3 DEF Settled, RowsIn, TypeOK, Rows
  <2>2. FlightInv'
    BY <1>2, <1>3, <2>1 DEF FlightInv, InFlight, RecordedWasSent, TypeOK, Rows, Reserve
  <2>3. /\ Running' = Running
        /\ \A p \in Requests : call'[p].key = call[p].key
        /\ \A p \in Requests : call'[p].stage = "over" =>
               call[p].stage = "over" /\ row'[p] = row[p]
    BY <1>2, <1>3 DEF Running, TypeOK
  <2>4. AloneInv => AloneInv'
    BY <2>1, <2>3 DEF AloneInv, EachRowItsOwnRefund, RowsIn, Running
  <2>5. QED
    BY <1>1, <2>2, <2>4 DEF Reserve
<1>4. CASE row' = row /\ call' = [call EXCEPT ![q].stage = "over"]
  <2>1. Settled' = Settled /\ RowsIn({"succeeded"})' = RowsIn({"succeeded"})
    BY <1>4, SettledKept
  <2>2. FlightInv'
    BY <1>2, <1>4, <2>1 DEF FlightInv, InFlight, RecordedWasSent, TypeOK, Reserve
  <2>3. /\ Running' = Running \ {q}
        /\ \A p \in Requests : call'[p].key = call[p].key
        /\ \A p \in Requests : call'[p].stage = "over" => p = q \/ call[p].stage = "over"
    BY <1>2, <1>4 DEF Running, TypeOK
  <2>4. AloneInv => AloneInv'
    BY <1>2, <1>4, <2>1, <2>3 DEF AloneInv, EachRowItsOwnRefund, RowsIn
  <2>5. QED
    BY <1>1, <2>2, <2>4 DEF Reserve
<1>5. QED
  BY <1>3, <1>4 DEF Reserve

(* The three ways in which a request at Stripe goes on, and stays running. *)
LEMMA AskedKeeps ==
    ASSUME Inv, NEW q \in Requests, Ask(q) \/ AskUnanswered(q) \/ AskTooMuch(q)
    PROVE  Inv'
<1> USE DEF Inv
<1> DEFINE k == call[q].key
<1>1. k \in Keys /\ call[q].stage = "asking" /\ q \in Running
  BY DEF TypeOK, Ask, AskUnanswered, AskTooMuch, Running
<1>2. /\ made' \in [Keys -> {"none", "succeeded", "failed"}]
      /\ \A j \in Keys : made[j] # "none" => made'[j] = made[j]
  BY <1>1, AnswerKeeps DEF Ask, AskUnanswered, AskTooMuch, TypeOK
<1> DEFINE Goes(stage) == call' = [call EXCEPT ![q].stage = stage]
<1>3. /\ \E stage \in {"accepted", "refused", "unknown"} : Goes(stage)
      /\ UNCHANGED <<row, alone, dead>> /\ lost' \in 0..MaxLost
  BY StripeAssumption DEF Ask, AskUnanswered, AskTooMuch, TypeOK
<1>4. PICK stage \in {"accepted", "refused", "unknown"} : Goes(stage)
  BY <1>3
<1>5. call'[q] = [call[q] EXCEPT !.stage = stage] /\ \A p \in Requests \ {q} : call'[p] = call[p]
  BY <1>4 DEF TypeOK
<1>6. call'[q].stage = "accepted" => made'[k] = "succeeded"
  <2>1. CASE Ask(q)
    <3>1. made'[k] \in {"succeeded", "failed"}
      BY <1>1, <1>2, <2>1, AnswerKeeps DEF Ask
    <3>2. QED
      BY <2>1, <3>1 DEF Ask, Accepted, TypeOK
  <2>2. QED
    BY <2>1 DEF AskUnanswered, AskTooMuch, TypeOK
<1>7. TypeOK'
  BY <1>1, <1>2, <1>3, <1>4 DEF TypeOK, Stages
<1>8. FlightInv'
  BY <1>1, <1>2, <1>3, <1>6, <1>4 DEF FlightInv, InFlight, RecordedWasSent, RowsIn, TypeOK
<1>9. AloneInv => AloneInv'
  BY <1>1, <1>3, <1>4, <1>5, AloneKept DEF TypeOK
<1>10. QED
  BY <1>3, <1>7, <1>8, <1>9

(* A row in flight that is recorded: it is settled as one more, or not at  *)
(* all, and its key has counted exactly the others.                        *)
LEMMA RecordKeeps ==
    ASSUME Inv, NEW q \in Requests, Record(q)
    PROVE  Inv'
<1> USE DEF Inv
<1> DEFINE new == [status  |-> IF call[q].stage = "accepted" THEN "succeeded" ELSE "failed",
                   refused |-> call[q].stage = "refused"]
<1>1. /\ call[q].stage \in {"accepted", "refused", "unknown"}
      /\ row[q].status = "pending" /\ q \in Running
  BY DEF Record, FlightInv, InFlight, Running
<1>2. /\ row' = [row EXCEPT ![q] = new] /\ new \in Rows
      /\ call' = [call EXCEPT ![q].stage = "over"]
  BY <1>1 DEF Record, Rows
<1>3. TypeOK'
  BY <1>2 DEF TypeOK, Record, Stages
<1>4. row'[q] = new /\ \A p \in Requests \ {q} : row'[p] = row[p] /\ call'[p] = call[p]
  BY <1>2 DEF TypeOK
<1>5. /\ row'[q].status = IF call[q].stage = "accepted" THEN "succeeded" ELSE "failed"
      /\ row'[q].refused <=> call[q].stage = "refused"
  <2>1. row'[q].status = new.status /\ row'[q].refused = new.refused
    BY <1>4
  <2>2. new.refused = (call[q].stage = "refused")
    BY Zenon
  <2>3. QED
    BY <2>1, <2>2
<1>6. call'[q].stage = "over" /\ \A p \in Requests : call'[p].key = call[p].key
  BY <1>2 DEF TypeOK
<1>7. FlightInv'
  BY <1>1, <1>4, <1>6 DEF FlightInv, InFlight, RecordedWasSent, RowsIn, Record
<1>8. ASSUME AloneInv PROVE AloneInv'
  <2>1. q \notin Settled /\ q \notin RowsIn({"succeeded"})
    BY <1>1 DEF Settled, RowsIn
  <2>2. Running' = {}
    BY <1>1, <1>4, <1>6, <1>8 DEF Running, AloneInv
  <2>3. \A p \in Requests : call'[p].stage = "over" => row'[p].status # "pending"
    BY <1>4, <1>6, <1>8 DEF AloneInv
  <2>4. call[q].key.before = Cardinality(Settled)
    BY <1>1, <1>8 DEF AloneInv
  <2>5. \A p \in Requests \ {q} : p \in Settled' <=> p \in Settled
    BY <1>4 DEF Settled, RowsIn
  <2>6. CASE call[q].stage \in {"accepted", "refused"}
    <3>1. Settled' = Settled \union {q}
      <4>1. row'[q].status = "succeeded" \/ (row'[q].status = "failed" /\ row'[q].refused)
        BY <1>5, <2>6
      <4>2. q \in Settled'
        BY <4>1 DEF Settled, RowsIn
      <4>3. QED
        BY <4>2, <2>5 DEF Settled, RowsIn
    <3>2. Cardinality(Settled') = Cardinality(Settled) + 1
      BY <2>1, <3>1, CountedFinite, FS_AddElement
    <3>3. RowsIn({"succeeded"})' \subseteq RowsIn({"succeeded"}) \union {q}
      BY <1>4 DEF RowsIn
    <3>4. \A p \in RowsIn({"succeeded"}) : call[p].key.before \in Nat
      BY DEF TypeOK, Keys, NoKey, RowsIn
    <3>5. \A p \in RowsIn({"succeeded"}) :
              call[p].key.before < Cardinality(Settled) /\ call[p].key # call[q].key
      BY <1>8, <2>4, <3>4, CountedFinite DEF AloneInv
    <3>6. \A p \in RowsIn({"succeeded"})' : call'[p].key.before < Cardinality(Settled')
      BY <1>6, <2>4, <3>2, <3>3, <3>4, <3>5, CountedFinite DEF RowsIn
    <3>7. EachRowItsOwnRefund'
      BY <1>6, <1>8, <3>3, <3>5 DEF AloneInv, EachRowItsOwnRefund, RowsIn
    <3>8. QED
      BY <2>2, <2>3, <3>6, <3>7 DEF AloneInv
  <2>7. CASE call[q].stage = "unknown"
    <3>1. Settled' = Settled /\ RowsIn({"succeeded"})' = RowsIn({"succeeded"})
      <4>1. row'[q].status = "failed" /\ ~row'[q].refused
        BY <1>5, <2>7
      <4>2. q \notin Settled' /\ q \notin RowsIn({"succeeded"})'
        BY <4>1 DEF Settled, RowsIn
      <4>3. \A p \in Requests \ {q} :
                p \in RowsIn({"succeeded"})' <=> p \in RowsIn({"succeeded"})
        BY <1>4 DEF RowsIn
      <4>4. QED
        BY <2>1, <2>5, <4>2, <4>3 DEF Settled, RowsIn
    <3>2. QED
      BY <1>6, <1>8, <2>2, <2>3, <3>1 DEF AloneInv, EachRowItsOwnRefund, RowsIn
  <2>8. QED
    BY <1>1, <2>6, <2>7
<1>9. QED
  BY <1>3, <1>7, <1>8 DEF Record

(* A process that dies ends the time of one after another.                 *)
LEMMA DieKeeps ==
    ASSUME Inv, NEW q \in Requests, Die(q)
    PROVE  Inv'
<1> USE DEF Inv
<1>1. call' = [call EXCEPT ![q].stage = "over"] /\ call[q].key \in Keys
  BY DEF Die, TypeOK
<1>2. /\ made' \in [Keys -> {"none", "succeeded", "failed"}]
      /\ \A j \in Keys : made[j] # "none" => made'[j] = made[j]
  BY <1>1, AnswerKeeps DEF Die, TypeOK
<1>3. TypeOK'
  <2>1. /\ dead \in 0..MaxDead /\ dead < MaxDead /\ dead' = dead + 1
        /\ UNCHANGED <<row, lost>> /\ alone' = FALSE
    BY DEF Die, TypeOK
  <2>2. dead' \in 0..MaxDead
    BY <2>1, StripeAssumption
  <2>3. call' \in [Requests -> [stage : Stages, key : Keys \union {NoKey}]]
    <3>1. call[q] \in [stage : Stages, key : Keys \union {NoKey}] /\ "over" \in Stages
      BY DEF TypeOK, Stages
    <3>2. [call[q] EXCEPT !.stage = "over"] \in [stage : Stages, key : Keys \union {NoKey}]
      BY <3>1
    <3>3. call' = [call EXCEPT ![q] = [call[q] EXCEPT !.stage = "over"]]
      BY <1>1
    <3>4. QED
      BY <3>2, <3>3 DEF TypeOK
  <2>4. \A p \in Requests : call'[p].stage # "idle" => call'[p].key \in Keys
    BY <1>1 DEF TypeOK
  <2>5. QED
    BY <1>2, <2>1, <2>2, <2>3, <2>4 DEF TypeOK
<1>4. FlightInv'
  BY <1>1, <1>2 DEF Die, FlightInv, InFlight, RecordedWasSent, RowsIn, TypeOK
<1>5. QED
  BY <1>3, <1>4 DEF Die

(* Nothing is left to settle by hand while requests come one by one.       *)
LEMMA SettleByHandKeeps ==
    ASSUME Inv, NEW q \in Requests, SettleByHand(q)
    PROVE  Inv'
<1> USE DEF Inv
<1>1. PICK status \in {"succeeded", "failed"} :
          /\ row' = [row EXCEPT ![q].status = status]
          /\ status = "succeeded" => made[call[q].key] = "succeeded"
  BY DEF SettleByHand
<1>2. TypeOK'
  BY <1>1 DEF SettleByHand, TypeOK, Rows
<1>3. FlightInv'
  BY <1>1 DEF SettleByHand, FlightInv, InFlight, RecordedWasSent, RowsIn, TypeOK, Rows
<1>4. ~alone
  BY DEF SettleByHand, AloneInv
<1>5. QED
  BY <1>2, <1>3, <1>4 DEF SettleByHand, TypeOK

LEMMA InvNext == Inv /\ [Next]_vars => Inv'
<1> SUFFICES ASSUME Inv, [Next]_vars PROVE Inv'
  OBVIOUS
<1>1. ASSUME NEW q \in Requests, NEW amount \in AmountsAsked, Preflight(q, amount)
      PROVE  Inv'
  BY <1>1, PreflightKeeps
<1>2. ASSUME NEW q \in Requests, Reserve(q) PROVE Inv'
  BY <1>2, ReserveKeeps
<1>3. ASSUME NEW q \in Requests, Ask(q) \/ AskUnanswered(q) \/ AskTooMuch(q) PROVE Inv'
  BY <1>3, AskedKeeps
<1>4. ASSUME NEW q \in Requests, Record(q) PROVE Inv'
  BY <1>4, RecordKeeps
<1>5. ASSUME NEW q \in Requests, Die(q) PROVE Inv'
  BY <1>5, DieKeeps
<1>6. ASSUME NEW q \in Requests, SettleByHand(q) PROVE Inv'
  BY <1>6, SettleByHandKeeps
<1>7. CASE UNCHANGED vars
  <2>1. TypeOK' /\ FlightInv'
    BY <1>7 DEF vars, Inv, TypeOK, FlightInv, RecordedWasSent, RowsIn
  <2>2. AloneInv => AloneInv'
    BY <1>7 DEF vars, AloneInv, Running, RowsIn, Settled, EachRowItsOwnRefund
  <2>3. QED
    BY <1>7, <2>1, <2>2 DEF vars, Inv
<1>8. QED
  BY <1>1, <1>2, <1>3, <1>4, <1>5, <1>6, <1>7 DEF Next

LEMMA InvHolds == Spec => []Inv
<1>1. Inv /\ [Next]_vars => Inv'
  BY InvNext
<1>2. QED
  BY <1>1, InitInv, PTL DEF Spec
-----------------------------------------------------------------------------
(* The requests, their rows and Stripe's refunds keep their types.         *)
THEOREM TypeCorrect == Spec => []TypeOK
<1>1. Inv => TypeOK
  BY DEF Inv
<1>2. QED
  BY <1>1, InvHolds, PTL

(* Payments.Refund and SettleRefund record as sent only what Stripe sent,  *)
(* for any number of requests that overlap, are lost, die or are refused.  *)
THEOREM LedgerWasSent == Spec => []RecordedWasSent
<1>1. Inv => RecordedWasSent
  BY DEF Inv, FlightInv
<1>2. QED
  BY <1>1, InvHolds, PTL

(* refundKey gives each refund a key of its own as long as they come one   *)
(* after another, for any number of them, whatever is lost or refused.     *)
THEOREM KeysAreOwnAlone == Spec => []EachRowItsOwnRefundAlone
<1>1. Inv => EachRowItsOwnRefundAlone
  BY DEF Inv, AloneInv, EachRowItsOwnRefundAlone
<1>2. QED
  BY <1>1, InvHolds, PTL

-----------------------------------------------------------------------------
(* Events.                                                                 *)

(* What was sent says which order it is about.                             *)
SentHasOrder == \A e \in EventIds : event[e].kind # "none" => event[e].order \in OrderIds

Busy(h) == handler[h].stage # "idle"

(* A delivery under way is of an event that was sent, and holds its claim. *)
BusyHoldsClaim ==
    \A h \in Handlers : Busy(h) =>
        /\ handler[h].event \in claims
        /\ event[handler[h].event].kind # "none"

EventsInv == EventsTypeOK /\ SentHasOrder /\ BusyHoldsClaim /\ OneDeliveryAtATime /\ RecordedStaysPaid

-----------------------------------------------------------------------------
(* A post of an event that may still be posted is one more post of it.     *)
LEMMA PostedEvent ==
    ASSUME NEW e \in EventIds, NEW answered \in BOOLEAN, event \in [EventIds -> Events],
           event[e].posts < MaxPosts
    PROVE  /\ Posted(e, answered) \in [EventIds -> Events]
           /\ \A d \in EventIds : /\ Posted(e, answered)[d].kind = event[d].kind
                                  /\ Posted(e, answered)[d].order = event[d].order
<1> USE EventsAssumption
<1>1. event[e].posts + 1 \in 0..MaxPosts
  BY DEF Events
<1>2. (event[e].answered \/ answered) \in BOOLEAN
  BY Zenon
<1>3. QED
  BY <1>1, <1>2 DEF Posted, Events

(* The engine's having had an event changes nothing it says.               *)
LEMMA HandledEvent ==
    ASSUME NEW post \in Events
    PROVE  /\ [post EXCEPT !.handled = TRUE] \in Events
           /\ [post EXCEPT !.handled = TRUE].kind = post.kind
           /\ [post EXCEPT !.handled = TRUE].order = post.order
BY DEF Events

(* An order recorded as paid is one.                                       *)
LEMMA PaidRow ==
    ASSUME NEW r \in OrderRows
    PROVE  Paid(r) \in OrderRows /\ Paid(r).payment = "paid"
BY DEF Paid, OrderRows

(* A step that leaves deliveries and claims alone, and changes the row of  *)
(* one order so that a recorded payment stays, keeps the invariant.        *)
LEMMA OrderStep ==
    ASSUME EventsInv, NEW o \in OrderIds, NEW r \in OrderRows,
           order' = [order EXCEPT ![o] = r],
           o \in recorded' \ undone' => r.payment = "paid",
           recorded' \in {recorded, recorded \cup {o}},
           undone' \in {undone, undone \cup {o}},
           doomed' \subseteq OrderIds,
           UNCHANGED <<charged, event, claims, handler, deaths>>
    PROVE  EventsInv'
<1> USE DEF EventsInv
<1>1. EventsTypeOK'
  BY DEF EventsTypeOK
<1>2. RecordedStaysPaid'
  BY DEF EventsTypeOK, RecordedStaysPaid
<1>3. SentHasOrder' /\ BusyHoldsClaim' /\ OneDeliveryAtATime'
  BY DEF SentHasOrder, BusyHoldsClaim, Busy, OneDeliveryAtATime
<1>4. QED
  BY <1>1, <1>2, <1>3

(* A step that leaves the orders alone, and of one delivery keeps at most  *)
(* the claim it has, keeps the invariant.                                  *)
LEMMA HandlerStep ==
    ASSUME EventsInv, NEW h \in Handlers, NEW d \in Deliveries,
           handler' = [handler EXCEPT ![h] = d],
           d.stage # "idle" => Busy(h) /\ d.event = handler[h].event,
           \/ claims' = claims
           \/ Busy(h) /\ d.stage = "idle" /\ claims' = claims \ {handler[h].event},
           UNCHANGED <<event, order, charged, doomed, recorded, undone>>,
           deaths' \in 0..MaxDeaths
    PROVE  EventsInv'
<1> USE DEF EventsInv
<1>1. EventsTypeOK'
  BY DEF EventsTypeOK
<1>2. BusyHoldsClaim'
  BY DEF EventsTypeOK, BusyHoldsClaim, Busy, OneDeliveryAtATime
<1>3. OneDeliveryAtATime'
  BY DEF EventsTypeOK, Busy, OneDeliveryAtATime
<1>4. SentHasOrder' /\ RecordedStaysPaid'
  BY DEF SentHasOrder, RecordedStaysPaid
<1>5. QED
  BY <1>1, <1>2, <1>3, <1>4

(* A step of Stripe's own, or of a delivery's beginning: an event is sent  *)
(* or posted, what it says stays, and the delivery that begins takes a     *)
(* claim that nobody has.                                                  *)
LEMMA EventStep ==
    ASSUME EventsInv, event' \in [EventIds -> Events],
           \A e \in EventIds : event[e].kind # "none" =>
               event'[e].kind = event[e].kind /\ event'[e].order = event[e].order,
           \A e \in EventIds : event'[e].kind # "none" => event'[e].order \in OrderIds,
           charged' \subseteq OrderIds,
           \/ UNCHANGED <<claims, handler>>
           \/ \E e \in EventIds \ claims, h \in Handlers :
                 /\ event[e].kind # "none"
                 /\ claims' = claims \cup {e}
                 /\ handler' = [handler EXCEPT ![h] = [stage |-> "claimed", event |-> e]],
           UNCHANGED <<order, deaths, doomed, recorded, undone>>
    PROVE  EventsInv'
<1> USE DEF EventsInv
<1>1. CASE UNCHANGED <<claims, handler>>
  BY <1>1 DEF EventsTypeOK, SentHasOrder, BusyHoldsClaim, Busy, OneDeliveryAtATime, RecordedStaysPaid
<1>2. ASSUME NEW e \in EventIds \ claims, NEW h \in Handlers,
             event[e].kind # "none", claims' = claims \cup {e},
             handler' = [handler EXCEPT ![h] = [stage |-> "claimed", event |-> e]]
      PROVE  EventsInv'
  <2>1. EventsTypeOK'
    BY <1>2 DEF EventsTypeOK, Deliveries
  <2>2. BusyHoldsClaim'
    BY <1>2 DEF EventsTypeOK, BusyHoldsClaim, Busy
  <2>3. OneDeliveryAtATime'
    BY <1>2 DEF EventsTypeOK, BusyHoldsClaim, Busy, OneDeliveryAtATime
  <2>4. SentHasOrder' /\ RecordedStaysPaid'
    BY DEF SentHasOrder, RecordedStaysPaid
  <2>5. QED
    BY <2>1, <2>2, <2>3, <2>4
<1>3. QED
  BY <1>1, <1>2

-----------------------------------------------------------------------------
LEMMA EventsInvInit == EventsInit => EventsInv
<1> SUFFICES ASSUME EventsInit PROVE EventsInv
  OBVIOUS
<1>1. EventsTypeOK
  BY EventsAssumption DEF EventsInit, EventsTypeOK, OrderRows, Events, Deliveries, Idle
<1>2. SentHasOrder /\ BusyHoldsClaim /\ OneDeliveryAtATime /\ RecordedStaysPaid
  BY DEF EventsInit, SentHasOrder, BusyHoldsClaim, Busy, OneDeliveryAtATime, RecordedStaysPaid, Idle
<1>3. QED
  BY <1>1, <1>2 DEF EventsInv

(* Nothing but an operator unmakes a payment: a row that a step makes from *)
(* an order's is one, and is paid where the order's was.                   *)
LEMMA EventsInvNext == EventsInv /\ [EventsNext]_eventVars => EventsInv'
<1> SUFFICES ASSUME EventsInv, [EventsNext]_eventVars PROVE EventsInv'
  OBVIOUS
<1> USE EventsAssumption DEF EventsInv
<1>1. ASSUME NEW o \in OrderIds, NEW e \in EventIds, NEW kind \in {"succeeded", "payment_failed"},
             Attempt(o, e, kind)
      PROVE  EventsInv'
  <2>1. event' \in [EventIds -> Events]
    <3>1. event \in [EventIds -> Events] /\ event[e] \in Events
      BY DEF EventsTypeOK
    <3> DEFINE sent == [event[e] EXCEPT !.kind = kind, !.order = o]
    <3>2. sent \in Events
      BY <3>1 DEF Events
    <3>3. event' = [event EXCEPT ![e] = sent]
      BY <1>1 DEF Attempt
    <3> HIDE DEF sent
    <3>4. QED
      BY <3>1, <3>2, <3>3
  <2>2. \A d \in EventIds : event[d].kind # "none" =>
            event'[d].kind = event[d].kind /\ event'[d].order = event[d].order
    BY <1>1 DEF Attempt, EventsTypeOK
  <2>3. \A d \in EventIds : event'[d].kind # "none" => event'[d].order \in OrderIds
    BY <1>1 DEF Attempt, EventsTypeOK, Events, SentHasOrder
  <2>4. charged' \subseteq OrderIds
    BY <1>1 DEF Attempt, EventsTypeOK
  <2>5. QED
    BY <1>1, <2>1, <2>2, <2>3, <2>4, EventStep DEF Attempt
<1>2. ASSUME NEW h \in Handlers, NEW e \in EventIds, Receive(h, e)
      PROVE  EventsInv'
  <2>1. PICK answered \in BOOLEAN : event' = Posted(e, answered)
    BY <1>2 DEF Receive
  <2>2. /\ event' \in [EventIds -> Events]
        /\ \A d \in EventIds : event'[d].kind = event[d].kind /\ event'[d].order = event[d].order
    BY <1>2, <2>1, PostedEvent DEF Receive, EventsTypeOK
  <2>3. \A d \in EventIds : event'[d].kind # "none" => event'[d].order \in OrderIds
    BY <2>2 DEF SentHasOrder
  <2>4. charged' \subseteq OrderIds
    BY <1>2 DEF Receive, EventsTypeOK
  <2>5. QED
    BY <1>2, <2>2, <2>3, <2>4, EventStep DEF Receive
<1>3. ASSUME NEW h \in Handlers, Apply(h)
      PROVE  EventsInv'
  <2> DEFINE e == handler[h].event
             o == event[e].order
  <2>1. e \in EventIds /\ event[e].kind # "none" /\ o \in OrderIds
    BY <1>3 DEF Apply, EventsTypeOK, BusyHoldsClaim, Busy, SentHasOrder
  <2>2. PICK r \in OrderRows : /\ order' = [order EXCEPT ![o] = r]
                               /\ recorded' \in {recorded, recorded \cup {o}}
                               /\ o \in recorded' \ undone => r.payment = "paid"
    <3>1. order[o] \in OrderRows /\ order = [order EXCEPT ![o] = order[o]]
      BY <2>1 DEF EventsTypeOK
    <3>2. o \in recorded \ undone => order[o].payment = "paid"
      BY <2>1 DEF RecordedStaysPaid
    <3>3. CASE UNCHANGED <<order, recorded>>
      BY <3>1, <3>2, <3>3
    <3>4. CASE MarkPaid(o) /\ ~UNCHANGED <<order, recorded>>
      BY <3>1, <3>4, PaidRow DEF MarkPaid
    <3>5. CASE MarkFailed(o) /\ recorded' = recorded /\ ~UNCHANGED <<order, recorded>>
      <4>1. [order[o] EXCEPT !.payment = "failed"] \in OrderRows
        BY <3>1 DEF OrderRows
      <4>2. order' = [order EXCEPT ![o] = [order[o] EXCEPT !.payment = "failed"]]
        BY <3>5 DEF MarkFailed
      <4>3. o \notin recorded \ undone
        BY <3>2, <3>5 DEF MarkFailed, Payable
      <4>4. QED
        BY <3>5, <4>1, <4>2, <4>3
    <3>6. QED
      BY <1>3, <3>3, <3>4, <3>5 DEF Apply
  <2>3. /\ event' \in [EventIds -> Events]
        /\ \A d \in EventIds : event'[d].kind = event[d].kind /\ event'[d].order = event[d].order
    <3> DEFINE marked == [event[e] EXCEPT !.handled = TRUE]
    <3>1. marked \in Events /\ marked.kind = event[e].kind /\ marked.order = event[e].order
      BY <2>1, HandledEvent DEF EventsTypeOK
    <3>2. event' = [event EXCEPT ![e] = marked]
      BY <1>3 DEF Apply
    <3> HIDE DEF marked, e, o
    <3>3. QED
      BY <2>1, <3>1, <3>2 DEF EventsTypeOK
  <2>4. handler' = [handler EXCEPT ![h] = [handler[h] EXCEPT !.stage = "applied"]]
    BY <1>3 DEF Apply
  <2> HIDE DEF e, o
  <2>5. EventsTypeOK'
    BY <1>3, <2>1, <2>2, <2>3, <2>4 DEF Apply, EventsTypeOK, Deliveries
  <2>6. SentHasOrder'
    BY <2>3 DEF SentHasOrder
  <2>7. BusyHoldsClaim' /\ OneDeliveryAtATime'
    BY <1>3, <2>3, <2>4 DEF Apply, EventsTypeOK, Deliveries, BusyHoldsClaim, Busy, OneDeliveryAtATime
  <2>8. RecordedStaysPaid'
    BY <1>3, <2>1, <2>2 DEF Apply, EventsTypeOK, RecordedStaysPaid
  <2>9. QED
    BY <2>5, <2>6, <2>7, <2>8
<1>4. ASSUME NEW h \in Handlers, Fail(h) \/ releaseClaim(h) \/ EndHandler(h)
      PROVE  EventsInv'
  <2>1. PICK d \in Deliveries : /\ handler' = [handler EXCEPT ![h] = d]
                                /\ d.stage # "idle" => Busy(h) /\ d.event = handler[h].event
                                /\ releaseClaim(h) => d.stage = "idle" /\ Busy(h)
    <3>1. handler[h] \in Deliveries
      BY DEF EventsTypeOK
    <3>2. Idle \in Deliveries /\ Idle.stage = "idle"
      BY DEF Idle, Deliveries
    <3>3. CASE Fail(h)
      <4>1. [handler[h] EXCEPT !.stage = "failed"] \in Deliveries
        BY <3>1 DEF Deliveries
      <4>2. ~releaseClaim(h)
        BY <3>3 DEF Fail, releaseClaim
      <4>3. /\ handler' = [handler EXCEPT ![h] = [handler[h] EXCEPT !.stage = "failed"]]
            /\ Busy(h)
            /\ [handler[h] EXCEPT !.stage = "failed"].event = handler[h].event
        BY <3>1, <3>3 DEF Fail, Busy, Deliveries
      <4>4. QED
        BY <4>1, <4>2, <4>3
    <3>4. CASE releaseClaim(h) \/ EndHandler(h)
      BY <3>2, <3>4 DEF releaseClaim, EndHandler, Busy
    <3>5. QED
      BY <1>4, <3>3, <3>4
  <2>2. \/ claims' = claims
        \/ Busy(h) /\ d.stage = "idle" /\ claims' = claims \ {handler[h].event}
    BY <1>4, <2>1 DEF Fail, releaseClaim, EndHandler
  <2>3. deaths' \in 0..MaxDeaths
    BY <1>4 DEF Fail, releaseClaim, EndHandler, EventsTypeOK
  <2>4. UNCHANGED <<event, order, charged, doomed, recorded, undone>>
    BY <1>4 DEF Fail, releaseClaim, EndHandler
  <2>5. QED
    BY <2>1, <2>2, <2>3, <2>4, HandlerStep
<1>5. ASSUME NEW h \in Handlers, Acknowledge(h)
      PROVE  EventsInv'
  <2>1. handler[h].event \in EventIds
    BY <1>5 DEF Acknowledge, EventsTypeOK, BusyHoldsClaim, Busy
  <2>2. /\ event' \in [EventIds -> Events]
        /\ \A d \in EventIds : event'[d].kind = event[d].kind /\ event'[d].order = event[d].order
    BY <1>5, <2>1 DEF Acknowledge, EventsTypeOK, Events
  <2>3. EventsTypeOK'
    BY <1>5, <2>2 DEF Acknowledge, EventsTypeOK, Deliveries, Idle
  <2>4. SentHasOrder' /\ RecordedStaysPaid'
    BY <1>5, <2>2 DEF Acknowledge, SentHasOrder, RecordedStaysPaid
  <2>5. BusyHoldsClaim' /\ OneDeliveryAtATime'
    BY <1>5, <2>2 DEF Acknowledge, EventsTypeOK, BusyHoldsClaim, Busy, OneDeliveryAtATime, Idle
  <2>6. QED
    BY <2>3, <2>4, <2>5
<1>6. ASSUME NEW o \in OrderIds, MarkUnpaid(o)
      PROVE  EventsInv'
  <2>1. [order[o] EXCEPT !.payment = "pending", !.reference = FALSE] \in OrderRows
    BY DEF EventsTypeOK, OrderRows
  <2>2. QED
    BY <1>6, <2>1, OrderStep DEF MarkUnpaid, EventsTypeOK
<1>7. ASSUME NEW o \in OrderIds, CancelOrder(o) \/ Expire(o) \/ SweepCancel(o)
      PROVE  EventsInv'
  <2>1. PICK r \in OrderRows : order' = [order EXCEPT ![o] = r] /\ r.payment = order[o].payment
    <3>1. order[o] \in OrderRows
      BY DEF EventsTypeOK
    <3>2. /\ [order[o] EXCEPT !.status = "cancelled"] \in OrderRows
          /\ [order[o] EXCEPT !.status = "cancelled"].payment = order[o].payment
      BY <3>1 DEF OrderRows
    <3>3. \A x \in {"no", "yes", "grace over"} :
             /\ [order[o] EXCEPT !.expired = x] \in OrderRows
             /\ [order[o] EXCEPT !.expired = x].payment = order[o].payment
      BY <3>1 DEF OrderRows
    <3>4. CASE CancelOrder(o) \/ SweepCancel(o)
      BY <3>2, <3>4 DEF CancelOrder, SweepCancel
    <3>5. CASE Expire(o)
      BY <3>3, <3>5 DEF Expire
    <3>6. QED
      BY <1>7, <3>4, <3>5
  <2>2. o \in recorded' \ undone' => r.payment = "paid"
    BY <1>7, <2>1 DEF CancelOrder, Expire, SweepCancel, RecordedStaysPaid
  <2>3. QED
    BY <1>7, <2>1, <2>2, OrderStep DEF CancelOrder, Expire, SweepCancel, EventsTypeOK
<1>8. ASSUME NEW o \in OrderIds, SweepAsk(o)
      PROVE  EventsInv'
  <2>1. order[o] \in OrderRows /\ order = [order EXCEPT ![o] = order[o]]
    BY DEF EventsTypeOK
  <2>2. PICK r \in OrderRows : /\ order' = [order EXCEPT ![o] = r]
                               /\ recorded' \in {recorded, recorded \cup {o}}
                               /\ o \in recorded' \ undone => r.payment = "paid"
    <3>1. CASE order' = [order EXCEPT ![o] = Paid(order[o])] /\ recorded' = recorded \cup {o}
      BY <2>1, <3>1, PaidRow
    <3>2. CASE UNCHANGED <<order, recorded>>
      BY <2>1, <3>2 DEF RecordedStaysPaid
    <3>3. QED
      BY <1>8, <3>1, <3>2 DEF SweepAsk
  <2>3. doomed' \subseteq OrderIds /\ undone' = undone
    BY <1>8 DEF SweepAsk, EventsTypeOK
  <2>4. QED
    BY <1>8, <2>2, <2>3, OrderStep DEF SweepAsk
<1>9. CASE UNCHANGED eventVars
  BY <1>9 DEF eventVars, EventsTypeOK, SentHasOrder, BusyHoldsClaim, Busy, OneDeliveryAtATime, RecordedStaysPaid
<1>10. QED
  BY <1>1, <1>2, <1>3, <1>4, <1>5, <1>6, <1>7, <1>8, <1>9 DEF EventsNext

(* The invariant that carries the theorems below: a delivery under way     *)
(* holds its claim, and what was sent says which order it is about.        *)
THEOREM EventsInvariant == EventsSpec => []EventsInv
<1>1. EventsInv /\ [EventsNext]_eventVars => EventsInv'
  BY EventsInvNext
<1>2. QED
  BY <1>1, EventsInvInit, PTL DEF EventsSpec

(* The orders, events, claims and deliveries keep their types.             *)
THEOREM EventsTypeCorrect == EventsSpec => []EventsTypeOK
<1>1. EventsInv => EventsTypeOK
  BY DEF EventsInv
<1>2. QED
  BY <1>1, EventsInvariant, PTL

(* An event is handled by one delivery at a time, however many processes   *)
(* receive it.                                                             *)
THEOREM HandledOneAtATime == EventsSpec => []OneDeliveryAtATime
<1>1. EventsInv => OneDeliveryAtATime
  BY DEF EventsInv
<1>2. QED
  BY <1>1, EventsInvariant, PTL

(* A payment that was recorded is unmade by operators alone.               *)
THEOREM PaymentsLast == EventsSpec => []RecordedStaysPaid
<1>1. EventsInv => RecordedStaysPaid
  BY DEF EventsInv
<1>2. QED
  BY <1>1, EventsInvariant, PTL
=============================================================================
