---------------------------- MODULE AcceptedLoop ----------------------------
(***************************************************************************)
(* From a merged result to its conversation: PostMerge queues an accepted   *)
(* result, its delivery (LinearDelivery) opens a thread of the Session that *)
(* submitted it, and LinearIngress turns comments there into notifications  *)
(* (SessionInbox), whose replies are delivered to the same thread.          *)
(***************************************************************************)
EXTENDS PostMerge, LinearIngress

CONSTANTS
    ResultThread,   \* the thread that the result's comment opens
    Submitter       \* the Session of the accepted Submission

(* What a receipt says of a thread, and what a comment may be bound to.     *)
Markers == [session: OfTask \cup {Submitter}, source: Ids \cup {"result"}]
ASSUME NoReceiptAssumption ==
    NoReceipt \notin [event: Comments, marker: Markers \cup {NoMarker}]

loopVars == <<postMergeVars, allIngressVars>>

LoopTypeOK == BridgeTypeOK /\ IngressTypeOK

LoopInit == BridgeInit /\ IngressInit

(* run_once of the worker delivers the queued event, once, with a receipt.  *)
DeliverAccepted ==
    /\ outbox # NoEvent
    /\ \A i \in DOMAIN delivered[ResultThread] : delivered[ResultThread][i].source # "result"
    /\ delivered' = [delivered EXCEPT ![ResultThread] =
                        Append(@, Marker(Submitter, "result"))]
    /\ UNCHANGED <<postMergeVars, ingressVars, answered>>

LoopNext ==
    \/ HubStep /\ UNCHANGED allIngressVars
    \/ \E x \in Bridges : BridgeStep(x) /\ UNCHANGED allIngressVars
    \/ \E x \in Ingresses : IngressStep(x) /\ UNCHANGED postMergeVars
    \/ \E note \in notes : DeliverReply(note) /\ UNCHANGED postMergeVars
    \/ DeliverAccepted

LoopSpec == LoopInit /\ [][LoopNext]_loopVars
=============================================================================
