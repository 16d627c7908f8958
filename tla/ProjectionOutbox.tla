-------------------------- MODULE ProjectionOutbox --------------------------
(***************************************************************************)
(* What the Linear projection promises (ADR 0010, ADR 0012): an accepted    *)
(* event is settled once, as delivered with a receipt for a comment that    *)
(* Linear has made, or as a dead letter; and, when ExactlyOnce holds, a     *)
(* comment is shown for an event only while no other is, so a second one    *)
(* takes a user who took down the first.  LinearDelivery implements it.     *)
(***************************************************************************)
CONSTANTS Events, Comments, NoComment,
          ExactlyOnce   \* whether a second visible comment is excluded

VARIABLES outbox,       \* the state a reader of the outbox sees
          receipt,      \* the comment the receipt names
          shown,        \* shown[e]: the comments Linear shows for event e
          gone          \* gone[e]: those a user has taken down since

outboxVars == <<outbox, receipt, shown, gone>>

Init ==
    /\ outbox = [e \in Events |-> "absent"]
    /\ receipt = [e \in Events |-> NoComment]
    /\ shown = [e \in Events |-> {}]
    /\ gone = [e \in Events |-> {}]

Accept(e) ==
    /\ outbox[e] = "absent"
    /\ outbox' = [outbox EXCEPT ![e] = "pending"]
    /\ UNCHANGED <<receipt, shown, gone>>

(* Linear shows a new comment for an accepted event.  It may do so after    *)
(* the event was given up as a dead letter.                                 *)
Show(e, c) ==
    /\ outbox[e] # "absent"
    /\ \A f \in Events : c \notin shown[f] \cup gone[f]
    /\ ExactlyOnce => shown[e] = {}
    /\ shown' = [shown EXCEPT ![e] = @ \cup {c}]
    /\ UNCHANGED <<outbox, receipt, gone>>

TakeDown(e, c) ==
    /\ c \in shown[e]
    /\ shown' = [shown EXCEPT ![e] = @ \ {c}]
    /\ gone' = [gone EXCEPT ![e] = @ \cup {c}]
    /\ UNCHANGED <<outbox, receipt>>

(* A receipt may come after the comment it names was taken down.            *)
Deliver(e, c) ==
    /\ outbox[e] = "pending"
    /\ c \in shown[e] \cup gone[e]
    /\ outbox' = [outbox EXCEPT ![e] = "delivered"]
    /\ receipt' = [receipt EXCEPT ![e] = c]
    /\ UNCHANGED <<shown, gone>>

GiveUp(e) ==
    /\ outbox[e] = "pending"
    /\ outbox' = [outbox EXCEPT ![e] = "dead_letter"]
    /\ UNCHANGED <<receipt, shown, gone>>

Next == \E e \in Events :
            \/ Accept(e)
            \/ GiveUp(e)
            \/ \E c \in Comments : Show(e, c) \/ TakeDown(e, c) \/ Deliver(e, c)

Spec == Init /\ [][Next]_outboxVars
=============================================================================
