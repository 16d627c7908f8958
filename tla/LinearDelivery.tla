--------------------------- MODULE LinearDelivery ---------------------------
(***************************************************************************)
(* Delivery of outbox events to Linear: LinearTransportWorker.run_once     *)
(* (services/linear_worker.py) and LinearAcceptedResultDeliveryService     *)
(* .deliver (services/linear_delivery.py) over the store's claims, and the *)
(* Linear service behind LinearDeliveryPort.                                *)
(*                                                                         *)
(* A run_once call is identified by its claim_id: run[w] is the call in     *)
(* progress with claim_id w.  Calls with different claim_ids run            *)
(* concurrently; two calls with one claim_id do not overlap (a claim_id     *)
(* "resumes one in-flight attempt", docs/MUTATION_CONTRACTS.md).  Every      *)
(* remote call is a step of its own, so a call can stall or die between any *)
(* two of them.                                                             *)
(***************************************************************************)
EXTENDS LinearOutbox

CONSTANTS
    Accepted,      \* the events of topic linear.accepted-result.v1; the others
                   \* are of topic linear.session-reply.v1
    Malformed,     \* events whose stored payload fails the local validation
    Misaddressed,  \* events whose target Linear does not know or relates
                   \* differently
    NoEvent,
    LeasesOutlastAttempts,
                   \* no claim is made while an attempt runs past its lease
    WritesSettle,  \* Linear has applied or lost a write before a later attempt
                   \* looks for it
    MaxFaults,     \* unavailable answers, lost or garbled responses
    MaxCrashes,    \* worker processes that die
    MaxDrift       \* targets archived and comments edited or removed by Linear's
                   \* users

ASSUME TopicAssumption == Accepted \subseteq Events
ASSUME DefectAssumption ==
    Malformed \subseteq Events /\ Misaddressed \subseteq Events
ASSUME NoEventAssumption == NoEvent \notin Events
ASSUME TimingAssumption ==
    LeasesOutlastAttempts \in BOOLEAN /\ WritesSettle \in BOOLEAN
ASSUME BoundAssumption ==
    MaxFaults \in Nat /\ MaxCrashes \in Nat /\ MaxDrift \in Nat

VARIABLES
    run,           \* the run_once call of each claim_id
    note,          \* what has become of each comment id
    archived,      \* events whose target has been archived in Linear
    faults, crashes, drift

remoteVars == <<note, archived>>
budgetVars == <<faults, crashes, drift>>
deliveryVars == <<storeVars, run, remoteVars, budgetVars>>

Phases == {"idle", "preflight", "observe", "create", "await", "finish"}
Verdicts == {"none", "retryable", "delivered", "dead_letter"}
At(pc, e, c, v) == [pc |-> pc, event |-> e, comment |-> c, verdict |-> v]
IdleCall == At("idle", NoEvent, NoComment, "none")
Unused == [state |-> "unused", event |-> NoEvent]

(* "edited": shown, but no longer with the exact payload; "removed": made,  *)
(* but no longer found by its marker.                                       *)
Shown(c) == note[c].state \in {"visible", "edited"}
Made(c) == Shown(c) \/ note[c].state = "removed"
Live(c) == Shown(c) \/ note[c].state = "requested"

DeliveryTypeOK ==
    /\ StoreTypeOK
    /\ run \in [ClaimIds -> [pc: Phases, event: Events \cup {NoEvent},
                             comment: Comments \cup {NoComment},
                             verdict: Verdicts]]
    /\ note \in [Comments -> [state: {"unused", "requested", "visible",
                                      "edited", "removed", "dropped"},
                              event: Events \cup {NoEvent}]]
    /\ archived \subseteq Events
    /\ faults \in Nat /\ crashes \in Nat /\ drift \in Nat

DeliveryInit ==
    /\ StoreInit
    /\ run = [w \in ClaimIds |-> IdleCall]
    /\ note = [c \in Comments |-> Unused]
    /\ archived = {}
    /\ faults = 0 /\ crashes = 0 /\ drift = 0

-----------------------------------------------------------------------------
(* Steps of a run_once call.                                                *)

Goto(w, phase, c) ==
    run' = [run EXCEPT ![w] = At(phase, run[w].event, c, "none")]
Conclude(w, verdict, c) ==
    run' = [run EXCEPT ![w] = At("finish", run[w].event, c, verdict)]
Stop(w) == run' = [run EXCEPT ![w] = IdleCall]
Remark(c, state, e) ==
    note' = [note EXCEPT ![c] = [state |-> state, event |-> e]]
Fault == faults < MaxFaults /\ faults' = faults + 1
NoFault == faults' = faults

Enqueue(e) ==
    /\ EnqueueEvent(e)
    /\ UNCHANGED <<run, remoteVars, budgetVars>>

LeaseRespected ==
    LeasesOutlastAttempts =>
        \A e \in expired : \A w \in ClaimIds :
            holder[e] = w => run[w].pc = "idle"

Claim(w) ==
    /\ run[w].pc = "idle"
    /\ \/ \E e \in Events :
             /\ ResumeClaim(w, e) \/ (LeaseRespected /\ ClaimOldest(w, e))
             /\ run' = [run EXCEPT ![w] = At("preflight", e, NoComment, "none")]
       \/ LeaseRespected /\ ClaimNothing(w) /\ UNCHANGED run
    /\ UNCHANGED <<remoteVars, budgetVars>>

(* The payload is validated before any remote call.                         *)
RejectLocally(w) ==
    /\ run[w].pc = "preflight"
    /\ run[w].event \in Malformed
    /\ Conclude(w, "dead_letter", NoComment)
    /\ UNCHANGED <<storeVars, remoteVars, budgetVars>>

(* Mutant: only the archived flags of the target are looked at.             *)
TargetNotArchived(e) == e \notin archived

TargetAccepted(e) == e \notin Misaddressed /\ e \notin archived

(* Mutant: the marker is not looked for before the create.                  *)
PreflightThenCreate(w) ==
    /\ run[w].pc = "preflight"
    /\ run[w].event \notin Malformed
    /\ \/ TargetAccepted(run[w].event) /\ Goto(w, "create", NoComment) /\ NoFault
       \/ /\ ~ TargetAccepted(run[w].event)
          /\ Conclude(w, "dead_letter", NoComment)
          /\ NoFault
       \/ Conclude(w, "retryable", NoComment) /\ Fault
    /\ UNCHANGED <<storeVars, remoteVars, crashes, drift>>

Preflight(w) ==
    /\ run[w].pc = "preflight"
    /\ run[w].event \notin Malformed
    /\ \/ TargetAccepted(run[w].event) /\ Goto(w, "observe", NoComment) /\ NoFault
       \/ /\ ~ TargetAccepted(run[w].event)
          /\ Conclude(w, "dead_letter", NoComment)
          /\ NoFault
       \/ Conclude(w, "retryable", NoComment) /\ Fault
    /\ UNCHANGED <<storeVars, remoteVars, crashes, drift>>

AllSettled(e) ==
    \A c \in Comments : note[c].event = e => note[c].state # "requested"

(* observe_comment looks for the event's marker in a comment of the app; a  *)
(* comment found is validated against the payload.                          *)
Observe(w) ==
    /\ run[w].pc = "observe"
    /\ WritesSettle => AllSettled(run[w].event)
    /\ LET found == {c \in Comments : Shown(c) /\ note[c].event = run[w].event}
       IN  \/ found = {} /\ Goto(w, "create", NoComment) /\ NoFault
           \/ \E c \in found :
                 /\ IF note[c].state = "visible"
                    THEN Conclude(w, "delivered", c)
                    ELSE Conclude(w, "dead_letter", NoComment)
                 /\ NoFault
           \/ Conclude(w, "retryable", NoComment) /\ Fault
    /\ UNCHANGED <<storeVars, remoteVars, crashes, drift>>

SendCreate(w) ==
    /\ run[w].pc = "create"
    /\ \E c \in Comments :
          /\ note[c].state = "unused"
          /\ Remark(c, "requested", run[w].event)
          /\ Goto(w, "await", c)
    /\ UNCHANGED <<storeVars, archived, budgetVars>>

ReceiveCreated(w) ==
    /\ run[w].pc = "await"
    /\ Made(run[w].comment)
    /\ Conclude(w, "delivered", run[w].comment)
    /\ UNCHANGED <<storeVars, remoteVars, budgetVars>>

(* The response is not the created comment: an accepted-result delivery     *)
(* raises linear_delivery_port_contract_invalid and leaves its claim, a     *)
(* reply becomes a dead letter.                                             *)
ReceiveGarbled(w) ==
    /\ run[w].pc = "await"
    /\ Made(run[w].comment)
    /\ IF run[w].event \in Accepted
       THEN Stop(w)
       ELSE Conclude(w, "dead_letter", NoComment)
    /\ Fault
    /\ UNCHANGED <<storeVars, remoteVars, crashes, drift>>

(* Mutant: a create without an answer is taken for a success.               *)
CreateAssumed(w) ==
    /\ run[w].pc = "await"
    /\ Conclude(w, "delivered", run[w].comment)
    /\ UNCHANGED <<storeVars, remoteVars, budgetVars>>

(* create_comment raises LinearDeliveryUnavailable: the write was lost, or  *)
(* it has reached or will still reach Linear.                               *)
CreateUnavailable(w) ==
    /\ run[w].pc = "await"
    /\ IF note[run[w].comment].state = "dropped" THEN NoFault ELSE Fault
    /\ Conclude(w, "retryable", NoComment)
    /\ UNCHANGED <<storeVars, remoteVars, crashes, drift>>

Finish(w) ==
    /\ run[w].pc = "finish"
    /\ \/ FinishDelivery(w, run[w].verdict, run[w].comment)
       \/ FinishRefused(w, run[w].verdict, run[w].comment)
    /\ Stop(w)
    /\ UNCHANGED <<remoteVars, budgetVars>>

(* The process dies.  Its claim row and any write it sent stay.             *)
Crash(w) ==
    /\ run[w].pc # "idle"
    /\ crashes < MaxCrashes
    /\ crashes' = crashes + 1
    /\ Stop(w)
    /\ UNCHANGED <<storeVars, remoteVars, faults, drift>>

-----------------------------------------------------------------------------
(* Steps of time and of Linear.                                             *)

Expire(e) ==
    /\ LeaseRunsOut(e)
    /\ UNCHANGED <<run, remoteVars, budgetVars>>

ApplyCreate(c) ==
    /\ note[c].state = "requested"
    /\ Remark(c, "visible", note[c].event)
    /\ UNCHANGED <<storeVars, run, archived, budgetVars>>

DropCreate(c) ==
    /\ note[c].state = "requested"
    /\ Remark(c, "dropped", note[c].event)
    /\ Fault
    /\ UNCHANGED <<storeVars, run, archived, crashes, drift>>

Drift == drift < MaxDrift /\ drift' = drift + 1

EditComment(c) ==
    /\ note[c].state = "visible"
    /\ Remark(c, "edited", note[c].event)
    /\ Drift
    /\ UNCHANGED <<storeVars, run, archived, faults, crashes>>

(* A user deletes a comment or takes the marker out of it.                  *)
RemoveComment(c) ==
    /\ Shown(c)
    /\ Remark(c, "removed", note[c].event)
    /\ Drift
    /\ UNCHANGED <<storeVars, run, archived, faults, crashes>>

ArchiveTarget(e) ==
    /\ e \notin archived
    /\ archived' = archived \cup {e}
    /\ Drift
    /\ UNCHANGED <<storeVars, run, note, faults, crashes>>

WorkerStep(w) ==
    \/ Claim(w) \/ RejectLocally(w) \/ Preflight(w) \/ Observe(w)
    \/ SendCreate(w) \/ ReceiveCreated(w) \/ ReceiveGarbled(w)
    \/ CreateUnavailable(w) \/ Finish(w)

DeliveryNext ==
    \/ \E e \in Events : Enqueue(e) \/ Expire(e) \/ ArchiveTarget(e)
    \/ \E w \in ClaimIds : WorkerStep(w) \/ Crash(w)
    \/ \E c \in Comments :
          \/ ApplyCreate(c) \/ DropCreate(c)
          \/ EditComment(c) \/ RemoveComment(c)

DeliverySpec == DeliveryInit /\ [][DeliveryNext]_deliveryVars

(* The worker is run again and again, leases run out and Linear answers.    *)
DeliveryFairness ==
    /\ \A w \in ClaimIds : WF_deliveryVars(WorkerStep(w))
    /\ \A e \in Events : WF_deliveryVars(Expire(e))
    /\ \A c \in Comments : WF_deliveryVars(ApplyCreate(c))

FairDeliverySpec == DeliverySpec /\ DeliveryFairness
-----------------------------------------------------------------------------
(* A claim row belongs to one pending event, a claim_id holds at most one   *)
(* row, and a call settles the event it worked on: finish_linear_delivery   *)
(* finds its event through the claim row only, so a claim that changed      *)
(* hands under a stalled call must never be mistaken for the call's own.    *)
ClaimsAreExclusive ==
    /\ \A e \in Events : holder[e] # NoClaim => outbox[e] = "pending"
    /\ \A e, f \in Events : holder[e] = holder[f] /\ holder[e] # NoClaim => e = f
    /\ \A e \in Events, w \in ClaimIds :
          holder[e] = w /\ run[w].pc # "idle" => run[w].event = e

(* An event is delivered exactly when it has a receipt, and the receipt     *)
(* names a comment that Linear has made for that event, through every       *)
(* crash, lost response and expired claim.                                  *)
ReceiptMatchesComment ==
    \A e \in Events :
        /\ outbox[e] = "delivered" <=> receipt[e] # NoComment
        /\ receipt[e] # NoComment =>
              Made(receipt[e]) /\ note[receipt[e]].event = e

(* A wrong target or payload performs no Linear mutation.                   *)
NoMutationForRejected ==
    \A c \in Comments :
        note[c].event \notin Malformed \cup Misaddressed

(* Linear never shows two comments with the marker of one event.            *)
NoDuplicateComment ==
    \A c, d \in Comments :
        Shown(c) /\ Shown(d) /\ note[c].event = note[d].event => c = d

(* Once delivered or dead-lettered an event keeps its state, receipt and    *)
(* attempt count, whatever stalled or resumed calls still do.               *)
SettledIsFinal ==
    [][\A e \in Events :
          outbox[e] \in {"delivered", "dead_letter"} =>
              /\ outbox'[e] = outbox[e]
              /\ receipt'[e] = receipt[e]
              /\ attempts'[e] = attempts[e]
              /\ holder'[e] = NoClaim]_deliveryVars

(* A pending event is eventually delivered or visibly given up, although    *)
(* workers die holding its claim and Linear loses requests.                 *)
EventuallySettled ==
    \A e \in Events :
        outbox[e] = "pending" ~> outbox[e] \in {"delivered", "dead_letter"}

Projection ==
    INSTANCE ProjectionOutbox WITH
        ExactlyOnce <- LeasesOutlastAttempts /\ WritesSettle,
        shown <- [e \in Events |-> {c \in Comments : Shown(c) /\ note[c].event = e}],
        gone <- [e \in Events |-> {c \in Comments :
                     note[c].state = "removed" /\ note[c].event = e}]

(* Delivery implements the promise of ProjectionOutbox.                     *)
ImplementsProjection == Projection!Spec
=============================================================================
