------------------------------ MODULE PostMerge ------------------------------
(***************************************************************************)
(* The post-merge bridge: a merged pull request is observed in a series of  *)
(* GitHub reads, its attestation is compared with the merge in the local    *)
(* clone, and its accepted result is queued for Linear.                     *)
(*                                                                         *)
(* Pull requests are pushed, validated, merged and validated again while    *)
(* they are observed.  A run has attempts; an attempt is one check run.     *)
(***************************************************************************)
EXTENDS Integers, Sequences, FiniteSets

CONSTANTS
    Pulls,       \* pull requests, all for one revision of one Report
    Accepting,   \* those whose head carries a Decision and its Report
    Bridges,     \* processes of the bridge
    NoPull,
    NoEvent,
    MaxRuns,     \* workflow runs of a pull request
    MaxAttempts, \* attempts of a run
    MaxReads     \* observations in a run of the model

ASSUME PostMergeAssumption == Accepting \subseteq Pulls /\ NoPull \notin Pulls
ASSUME BridgeBoundsAssumption ==
    MaxRuns \in Nat /\ MaxAttempts \in Nat \ {0} /\ MaxReads \in Nat

VARIABLES
    hub,      \* the pull requests on GitHub, their workflow runs and artifacts
    clone,    \* the merges that the local protected branch has
    outbox,   \* the linear_projection_outbox row of the revision
    bridge,   \* where each process stands, and what it has read
    told,     \* the events that a call has reported as queued
    reads

hubVars == <<hub, clone>>
bridgeVars == <<outbox, bridge, told, reads>>
postMergeVars == <<hubVars, bridgeVars>>

Heads == 1 .. 2
Merges == {"open", "merge commit", "fast-forward", "squash", "merged before"}
Attempts == 1 .. MaxAttempts
Runs == [head: Heads, attempt: Attempts, state: {"running", "passed", "failed"},
         passed: SUBSET Attempts, uploads: SUBSET Attempts]
Run(head) == [head |-> head, attempt |-> 1, state |-> "running",
              passed |-> {}, uploads |-> {}]

(* linear_event_payload, as far as it depends on what was observed.         *)
Event(p, run, attempt, artifact) ==
    [pull |-> p, run |-> run, check |-> attempt, artifact |-> artifact]
Events == [pull: Pulls \cup {NoPull}, run: 0 .. MaxRuns,
           check: 0 .. MaxAttempts, artifact: 0 .. MaxAttempts]
ASSUME NoEventAssumption == NoEvent \notin Events
Reading(pc, event) == [pc |-> pc, event |-> event]
Idle == Reading("idle", Event(NoPull, 0, 0, 0))

BridgeInit ==
    /\ hub = [p \in Pulls |-> [head |-> 1, merge |-> "open", runs |-> <<>>]]
    /\ clone = {}
    /\ outbox = NoEvent
    /\ bridge = [x \in Bridges |-> Idle]
    /\ told = {}
    /\ reads = 0

BridgeTypeOK ==
    /\ hub \in [Pulls -> [head: Heads, merge: Merges, runs: Seq(Runs)]]
    /\ clone \subseteq Pulls
    /\ outbox \in Events \cup {NoEvent}
    /\ bridge \in [Bridges -> [pc: {"idle", "runs", "jobs", "artifacts", "download",
                                   "accept", "look", "new", "old"},
                              event: Events]]
    /\ told \subseteq Events
    /\ reads \in 0 .. MaxReads

-----------------------------------------------------------------------------
(* GitHub and the clone.                                                    *)

Merged(p) == hub[p].merge # "open"

Push(p) ==
    /\ ~ Merged(p)
    /\ hub[p].head + 1 \in Heads
    /\ hub' = [hub EXCEPT ![p].head = @ + 1]
    /\ UNCHANGED clone

StartRun(p) ==
    /\ Len(hub[p].runs) < MaxRuns
    /\ hub' = [hub EXCEPT ![p].runs = Append(@, Run(hub[p].head))]
    /\ UNCHANGED clone

(* A job that passes has uploaded its artifact; the artifacts of earlier     *)
(* attempts may still be listed.                                            *)
Upload(p, i) ==
    LET run == hub[p].runs[i]
    IN  /\ run.state = "running"
        /\ run.attempt \notin run.uploads
        /\ hub' \in {[hub EXCEPT ![p].runs[i].uploads = run.uploads \cup {run.attempt}],
                     [hub EXCEPT ![p].runs[i].uploads = {run.attempt}]}
        /\ UNCHANGED clone

EndAttempt(p, i) ==
    LET run == hub[p].runs[i]
    IN  /\ run.state = "running"
        /\ hub' = [hub EXCEPT ![p].runs[i] =
              IF run.attempt \in run.uploads
              THEN [run EXCEPT !.state = "passed", !.passed = @ \cup {run.attempt}]
              ELSE [run EXCEPT !.state = "failed"]]
        /\ UNCHANGED clone

Rerun(p, i) ==
    /\ hub[p].runs[i].state # "running"
    /\ hub[p].runs[i].attempt < MaxAttempts
    /\ hub' = [hub EXCEPT ![p].runs[i].attempt = @ + 1,
                          ![p].runs[i].state = "running"]
    /\ UNCHANGED clone

(* GitHub merges a pull request whose check has passed at its head.          *)
Merge(p) ==
    /\ ~ Merged(p)
    /\ \E i \in DOMAIN hub[p].runs :
          hub[p].runs[i].head = hub[p].head /\ hub[p].runs[i].state = "passed"
    /\ \E how \in Merges \ {"open"} : hub' = [hub EXCEPT ![p].merge = how]
    /\ UNCHANGED clone

Fetch ==
    /\ clone' = {p \in Pulls : Merged(p)}
    /\ clone' # clone
    /\ UNCHANGED hub

HubStep ==
    /\ \/ \E p \in Pulls : Push(p) \/ StartRun(p) \/ Merge(p)
       \/ \E p \in Pulls : \E i \in DOMAIN hub[p].runs :
             Upload(p, i) \/ EndAttempt(p, i) \/ Rerun(p, i)
       \/ Fetch
    /\ UNCHANGED bridgeVars

-----------------------------------------------------------------------------
(* The observation.                                                         *)

Go(x, pc, event) == bridge' = [bridge EXCEPT ![x] = Reading(pc, event)]
Reject(x) == bridge' = [bridge EXCEPT ![x] = Idle]
KeepBooks == UNCHANGED <<hubVars, outbox, told, reads>>
Seen(x) == bridge[x].event

(* GhApiPostMergeClient.observe: the pull request.                          *)
ReadPull(x, p) ==
    /\ bridge[x].pc = "idle"
    /\ reads < MaxReads
    /\ reads' = reads + 1
    /\ Merged(p)
    /\ Go(x, "runs", Event(p, 0, 0, 0))
    /\ UNCHANGED <<hubVars, outbox, told>>

(* Mutant: a run of an earlier head is taken.                               *)
BindsAny(p, run) == run.state # "running"

(* The run binds the pull request as it was merged.                         *)
Binds(p, run) == run.state # "running" /\ run.head = hub[p].head

(* The first completed run that does, newest first, must have passed.       *)
ReadRuns(x) ==
    LET p == Seen(x).pull
        bound == {i \in DOMAIN hub[p].runs : Binds(p, hub[p].runs[i])}
    IN  /\ bridge[x].pc = "runs"
        /\ \/ /\ bound = {}
              /\ Reject(x)
           \/ \E i \in bound :
                 /\ \A j \in bound : j <= i
                 /\ IF hub[p].runs[i].state = "passed"
                    THEN Go(x, "jobs", Event(p, i, 0, 0)) ELSE Reject(x)
        /\ KeepBooks

(* Its latest job, and the check run of that job, have passed.              *)
ReadJobs(x) ==
    LET e == Seen(x)
        run == hub[e.pull].runs[e.run]
    IN  /\ bridge[x].pc = "jobs"
        /\ IF run.state = "passed"
           THEN Go(x, "artifacts", Event(e.pull, e.run, run.attempt, 0))
           ELSE Reject(x)
        /\ KeepBooks

(* Exactly one artifact has the name of the pull request and its head.      *)
ReadArtifacts(x) ==
    LET e == Seen(x)
        listed == hub[e.pull].runs[e.run].uploads
    IN  /\ bridge[x].pc = "artifacts"
        /\ IF Cardinality(listed) = 1
           THEN \E a \in listed : Go(x, "download", [e EXCEPT !.artifact = a])
           ELSE Reject(x)
        /\ KeepBooks

(* The attestation is of an accepted Submission, passing, at this head.     *)
BoundArtifact(p) == p \in Accepting

(* The bytes, which must bind what was observed; an artifact may be gone.   *)
Download(x) ==
    LET e == Seen(x)
    IN  /\ bridge[x].pc = "download"
        /\ \/ /\ e.artifact \in hub[e.pull].runs[e.run].uploads
              /\ BoundArtifact(e.pull)
              /\ Go(x, "accept", e)
           \/ Reject(x)
        /\ KeepBooks

(* _subject_newly_incorporated.                                             *)
Incorporated(p) == hub[p].merge \in {"merge commit", "fast-forward"}

(* read_accepted_merge and _require_accepted_merge: the merge is on the      *)
(* protected branch of the clone and incorporates the attested subject.     *)
Accept(x) ==
    /\ bridge[x].pc = "accept"
    /\ IF Seen(x).pull \in clone /\ Incorporated(Seen(x).pull)
       THEN Go(x, "look", Seen(x)) ELSE Reject(x)
    /\ KeepBooks

(* enqueue_accepted: a trusted caller supplies merge and attestation, and   *)
(* the event names no run, check or artifact.                               *)
EnqueueAccepted(x, p) ==
    /\ bridge[x].pc = "idle"
    /\ reads < MaxReads
    /\ reads' = reads + 1
    /\ Merged(p) /\ BoundArtifact(p)
    /\ Go(x, "accept", Event(p, 0, 0, 0))
    /\ UNCHANGED <<hubVars, outbox, told>>

Look(x) ==
    /\ bridge[x].pc = "look"
    /\ Go(x, IF outbox = NoEvent THEN "new" ELSE "old", Seen(x))
    /\ KeepBooks

(* Mutant: a row that is there is taken for this event.                     *)
StoredAny(e) == outbox' = IF outbox = NoEvent THEN e ELSE outbox

(* enqueue_linear_projection: the event id is that of the Report revision,   *)
(* and different content of it is a conflict.                               *)
Stored(e) == outbox \in {NoEvent, e} /\ outbox' = e

(* "queued" or "already_queued" is reported, or the conflict.               *)
Enqueue(x) ==
    /\ bridge[x].pc \in {"new", "old"}
    /\ \/ Stored(Seen(x)) /\ told' = told \cup {Seen(x)}
       \/ outbox \notin {NoEvent, Seen(x)} /\ UNCHANGED <<outbox, told>>
    /\ Reject(x)
    /\ UNCHANGED <<hubVars, reads>>

BridgeStep(x) ==
    \/ \E p \in Pulls : ReadPull(x, p) \/ EnqueueAccepted(x, p)
    \/ ReadRuns(x) \/ ReadJobs(x) \/ ReadArtifacts(x) \/ Download(x)
    \/ Accept(x) \/ Look(x) \/ Enqueue(x)

-----------------------------------------------------------------------------
(* What is queued was accepted: its pull request carries a Decision and was *)
(* merged so that the protected branch newly has the attested head, and run,*)
(* check and artifact, where the event names them, are of that head and     *)
(* have passed, whatever ran again between the reads.                       *)
QueuedIsAttested ==
    outbox # NoEvent =>
        LET pull == hub[outbox.pull]
            run == pull.runs[outbox.run]
        IN  /\ outbox.pull \in Accepting \cap clone
            /\ pull.merge \in {"merge commit", "fast-forward"}
            /\ outbox.run # 0 =>
                  /\ run.head = pull.head
                  /\ outbox.check \in run.passed
                  /\ outbox.artifact >= 1

(* Whoever was told that its event is queued finds that very event there,   *)
(* though others were observed with other runs, or supplied without any.    *)
ReportedIsQueued == \A e \in told : outbox = e
=============================================================================
