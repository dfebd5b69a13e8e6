--------------------------- MODULE EventDelivery ---------------------------
(***************************************************************************)
(* What the outbox promises its subscribers and its operators, with no     *)
(* workers, claims or clocks: src/docs/events.md, "Delivery is             *)
(* at-least-once".  An event that was appended is pending until every      *)
(* handler has accepted it or its budget of tries is spent; a dead event   *)
(* is evidence an operator can put back; a published one is final.         *)
(* Webhooks promises the same of the posts to somebody else's server.      *)
(***************************************************************************)
EXTENDS Naturals

CONSTANTS Events, Handlers, Budget

VARIABLES
    status,     \* what the operator's screen says of each event
    accepted,   \* the handlers that have accepted it at least once
    tries       \* how many deliveries of it were begun

vars == <<status, accepted, tries>>

Statuses == {"unwritten", "pending", "dead", "published"}

Init ==
    /\ status = [e \in Events |-> "unwritten"]
    /\ accepted = [e \in Events |-> {}]
    /\ tries = [e \in Events |-> 0]

Append(S) ==
    /\ \A e \in S : status[e] = "unwritten"
    /\ status' = [e \in Events |-> IF e \in S THEN "pending" ELSE status[e]]
    /\ UNCHANGED <<accepted, tries>>

(* A delivery is begun of some pending events.                             *)
Try(S) ==
    /\ \A e \in S : status[e] = "pending"
    /\ tries' = [e \in Events |-> IF e \in S THEN tries[e] + 1 ELSE tries[e]]
    /\ UNCHANGED <<status, accepted>>

(* Handlers see an event any number of times once it was appended, even    *)
(* after it was parked or published: that is what they are idempotent for. *)
Accept(e, H) ==
    /\ status[e] # "unwritten"
    /\ accepted' = [accepted EXCEPT ![e] = @ \union H]
    /\ UNCHANGED <<status, tries>>

Publish(e) ==
    /\ status[e] \in {"pending", "dead"}
    /\ accepted[e] = Handlers
    /\ status' = [status EXCEPT ![e] = "published"]
    /\ UNCHANGED <<accepted, tries>>

Park(e) ==
    /\ status[e] = "pending"
    /\ tries[e] >= Budget
    /\ status' = [status EXCEPT ![e] = "dead"]
    /\ UNCHANGED <<accepted, tries>>

Repair(S) ==
    /\ \A e \in S : status[e] = "dead"
    /\ status' = [e \in Events |-> IF e \in S THEN "pending" ELSE status[e]]
    /\ UNCHANGED <<accepted, tries>>

Next ==
    \/ \E e \in Events : Publish(e) \/ Park(e)
    \/ \E e \in Events, H \in SUBSET Handlers : Accept(e, H)
    \/ \E S \in SUBSET Events : Append(S) \/ Try(S) \/ Repair(S)

Spec == Init /\ [][Next]_vars
=============================================================================
