---------------------------- MODULE LinearOutbox ----------------------------
(***************************************************************************)
(* The Linear delivery tables of the runtime store (runtime/store.py):     *)
(* the two outbox tables, linear_delivery_status, linear_delivery_claims   *)
(* and linear_delivery_receipts.  Every operation of the store is one      *)
(* BEGIN IMMEDIATE transaction, so it is one action here.                   *)
(*                                                                         *)
(* The two outbox tables (accepted results, Session replies) have the same *)
(* columns and are merged by the claim query, so an event is an element of *)
(* Events whichever table holds it; the topic matters to the worker only   *)
(* (module LinearDelivery).                                                 *)
(***************************************************************************)
EXTENDS Integers, FiniteSets

CONSTANTS
    Events,      \* outbox events (topic and outbox_id)
    CreatedAt,   \* created_at of each event; equal values are ordered by id,
                 \* and the model lets either of the two be the older one
    ClaimIds,    \* the claim_id values that callers of run_once supply
    Comments,    \* comment identities Linear can hand out
    NoClaim,     \* no row in linear_delivery_claims
    NoComment    \* no row in linear_delivery_receipts

ASSUME CreatedAtAssumption == CreatedAt \in [Events -> Nat]
ASSUME NoClaimAssumption == NoClaim \notin ClaimIds
ASSUME NoCommentAssumption == NoComment \notin Comments

VARIABLES
    outbox,      \* state column of the outbox row, "absent" before the insert
    attempts,    \* linear_delivery_status.attempt_count
    receipt,     \* comment_id of the immutable receipt
    holder,      \* claim_id of the claim row on the event
    expired      \* events whose claim row has expires_at in the past

storeVars == <<outbox, attempts, receipt, holder, expired>>

OutboxStates == {"absent", "pending", "delivered", "dead_letter"}

StoreTypeOK ==
    /\ outbox \in [Events -> OutboxStates]
    /\ attempts \in [Events -> Nat]
    /\ receipt \in [Events -> Comments \cup {NoComment}]
    /\ holder \in [Events -> ClaimIds \cup {NoClaim}]
    /\ expired \subseteq Events

StoreInit ==
    /\ outbox = [e \in Events |-> "absent"]
    /\ attempts = [e \in Events |-> 0]
    /\ receipt = [e \in Events |-> NoComment]
    /\ holder = [e \in Events |-> NoClaim]
    /\ expired = {}

Held(id) == {e \in Events : holder[e] = id}

-----------------------------------------------------------------------------

(* enqueue_linear_projection, and the outbox insert of reply_notification.  *)
(* Repeating the call with the same content changes nothing, whatever has   *)
(* become of the event since.                                               *)
EnqueueEvent(e) ==
    /\ outbox' = [outbox EXCEPT ![e] = IF @ = "absent" THEN "pending" ELSE @]
    /\ UNCHANGED <<attempts, receipt, holder, expired>>

(* expires_at passes.  Nothing is written: the row stays until a claim      *)
(* deletes it.                                                              *)
LeaseRunsOut(e) ==
    /\ holder[e] # NoClaim
    /\ e \notin expired
    /\ expired' = expired \cup {e}
    /\ UNCHANGED <<outbox, attempts, receipt, holder>>

(* claim_linear_delivery with a claim_id that has a row: the same claim     *)
(* comes back, expired or not, and its lease is not renewed.                *)
ResumeClaim(id, e) ==
    /\ holder[e] = id
    /\ UNCHANGED storeVars

(* Mutant: every claim row is deleted, not only the expired ones.           *)
UnreapedNone == [e \in Events |-> NoClaim]

(* The claim rows left once the expired ones are deleted.                   *)
Unreaped == [e \in Events |-> IF e \in expired THEN NoClaim ELSE holder[e]]

(* Mutant: only events that were never attempted are claimed.               *)
ClaimableOnce == {e \in Events : /\ outbox[e] = "pending"
                                 /\ Unreaped[e] = NoClaim
                                 /\ attempts[e] = 0}

Claimable == {e \in Events : outbox[e] = "pending" /\ Unreaped[e] = NoClaim}

(* claim_linear_delivery with a new claim_id: delete the expired claims,    *)
(* then claim the oldest pending event that has none.                       *)
ClaimOldest(id, e) ==
    /\ Held(id) = {}
    /\ e \in Claimable
    /\ \A f \in Claimable : CreatedAt[e] <= CreatedAt[f]
    /\ holder' = [Unreaped EXCEPT ![e] = id]
    /\ expired' = {}
    /\ UNCHANGED <<outbox, attempts, receipt>>

(* ... and when there is no such event the deletion is still committed.     *)
ClaimNothing(id) ==
    /\ Held(id) = {}
    /\ Claimable = {}
    /\ holder' = Unreaped
    /\ expired' = {}
    /\ UNCHANGED <<outbox, attempts, receipt>>

(* finish_linear_delivery: it needs the claim row, and does not look at its *)
(* expires_at.  A receipt that differs from the stored one rolls back.      *)
Finishable(id, verdict, c) ==
    \E e \in Held(id) : verdict = "delivered" => receipt[e] \in {NoComment, c}

(* Mutant: the claim row is not deleted.                                    *)
FinishKeepsClaim(id, verdict, c) ==
    /\ Finishable(id, verdict, c)
    /\ \E e \in Held(id) :
          /\ outbox' = [outbox EXCEPT
                ![e] = IF verdict = "retryable" THEN "pending" ELSE verdict]
          /\ attempts' = [attempts EXCEPT ![e] = @ + 1]
          /\ receipt' = IF verdict = "delivered"
                        THEN [receipt EXCEPT ![e] = c] ELSE receipt
          /\ UNCHANGED <<holder, expired>>

FinishDelivery(id, verdict, c) ==
    /\ Finishable(id, verdict, c)
    /\ \E e \in Held(id) :
          /\ outbox' = [outbox EXCEPT
                ![e] = IF verdict = "retryable" THEN "pending" ELSE verdict]
          /\ attempts' = [attempts EXCEPT ![e] = @ + 1]
          /\ receipt' = IF verdict = "delivered"
                        THEN [receipt EXCEPT ![e] = c] ELSE receipt
          /\ holder' = [holder EXCEPT ![e] = NoClaim]
          /\ expired' = expired \ {e}

(* linear_delivery_claim_not_found or linear_delivery_receipt_conflict.     *)
FinishRefused(id, verdict, c) ==
    /\ ~ Finishable(id, verdict, c)
    /\ UNCHANGED storeVars
=============================================================================
