------------------------------- MODULE LocalRun -------------------------------
(***************************************************************************)
(* Local execution of one frozen Run: run.start, run.retry and run.collect *)
(* of ApplicationService over LocalRunCoordinator, LocalRunExecutor and     *)
(* GitRunRecordRepository.  An attempt is claimed by creating its marker    *)
(* file, launched at most once, and ends with a terminal marker; one        *)
(* attempt's result becomes the Run's result.yaml.                          *)
(*                                                                         *)
(* The RunSpec is fixed, so freezing it (an idempotent write, commit and    *)
(* tag) has no state here.  The Session, Task, host and input checks are    *)
(* one flag, read once against the local records and once more against the  *)
(* protected branch and the host.  Journal events that nothing reads back   *)
(* (request validated, attempt states) are only the guard that the          *)
(* operation still runs.                                                    *)
(***************************************************************************)
EXTENDS OperationJournal

CONSTANTS
    Attempts,
    NoAttempt,
    Permitted,   \* requests whose actor has the role and the Session
    Drifts       \* whether the Session, the Task or the host change

ASSUME RunRequestAssumption ==
    \A r \in Requests :
        /\ r.command \in {"run.start", "run.retry", "run.collect"}
        /\ r.attempt \in Attempts
        /\ r.command = "run.retry" => r.origin \in Attempts \ {r.attempt}
ASSUME NoAttemptAssumption == NoAttempt \notin Attempts
ASSUME DriftsAssumption == Drifts \in BOOLEAN
ASSUME ObservedAssumption == Snapshots = {"unread", "ok", "bad"} /\ Unread = "unread"
ASSUME RunVocabulary ==
    /\ {"validate", "prepare", "origin", "observe", "claim", "write", "launch",
        "intent", "popen", "mark", "running", "wait", "collecting", "ending",
        "settle", "store", "commit"} \subseteq Phases
    /\ {"collected", "already_collected", "attempt_failed"} \subseteq Results

VARIABLES
    runnable,    \* the Session is active or idle, the Task and host admit it
    marker,      \* the attempt marker files on the run host
    process,     \* the attempt's process
    result,      \* the attempt whose result is in result.yaml
    committed    \* the Run branch has the result commit

runVars == <<runnable, marker, process, result, committed>>
vars == <<journalVars, runVars>>

Marker(phase, by, outcome) == [phase |-> phase, by |-> by, outcome |-> outcome]
NoMarker == Marker("none", NoRequest, "unread")

TypeOK ==
    /\ JournalTypeOK
    /\ runnable \in BOOLEAN
    /\ marker \in [Attempts ->
          [phase: {"none", "created", "claimed", "launch_intent", "running",
                   "terminal"},
           by: Requests \cup {NoRequest}, outcome: Snapshots]]
    /\ process \in [Attempts -> {"none", "alive", "ok", "bad"}]
    /\ result \in Attempts \cup {NoAttempt}
    /\ committed \in BOOLEAN

Init ==
    /\ JournalInit
    /\ runnable = TRUE
    /\ marker = [a \in Attempts |-> NoMarker]
    /\ process = [a \in Attempts |-> "none"]
    /\ result = NoAttempt
    /\ committed = FALSE

Attempt(x) == exec[x].req.attempt
Is(x, command) == exec[x].req.command = command
SetMarker(x, phase, outcome) ==
    marker' = [marker EXCEPT ![Attempt(x)] = Marker(phase, exec[x].req, outcome)]
SetProcess(a, state) == process' = [process EXCEPT ![a] = state]
Ended(a, state) == IF process[a] = "alive" THEN SetProcess(a, state)
                   ELSE UNCHANGED process

Refuse(x) ==
    /\ Goto(x, "fail", "none")
    /\ UNCHANGED <<journal, abandoned, runVars>>
Leave(x) ==
    /\ Return(x)
    /\ UNCHANGED <<journal, abandoned, runVars>>
Pass(x, pc) ==
    /\ Goto(x, pc, "none")
    /\ UNCHANGED <<journal, abandoned, runVars>>

-----------------------------------------------------------------------------
(* The Session may stop, the Task be cancelled, an input change.            *)
Drift ==
    /\ Drifts
    /\ runnable' = ~ runnable
    /\ UNCHANGED <<journalVars, marker, process, result, committed>>

(* The process ends by itself, whether or not its executor still waits.     *)
Exit(a, state) ==
    /\ process[a] = "alive"
    /\ SetProcess(a, state)
    /\ UNCHANGED <<journalVars, runnable, marker, result, committed>>

-----------------------------------------------------------------------------
Claim(x, r) ==
    /\ Begin(x, r, "authorize")
    /\ UNCHANGED runVars

AuthorizeActor(x) ==
    /\ Authorize(x, exec[x].req \in Permitted, "validate")
    /\ UNCHANGED runVars

DenyActor(x) ==
    /\ Deny(x, exec[x].req \in Permitted)
    /\ UNCHANGED runVars

(* _run_context, and the event that the request is valid.                   *)
Validate(x) ==
    /\ exec[x].pc = "validate"
    /\ IF ~ runnable /\ ~ Is(x, "run.collect") THEN Refuse(x)
       ELSE IF ~ Running(Op(x)) THEN Leave(x)
       ELSE Pass(x, IF Is(x, "run.collect") THEN "observe" ELSE "prepare")

(* The record repository is locked while a result is written and committed. *)
Unlocked == \A y \in Executors : exec[y].pc # "commit"

(* LocalRunCoordinator.execute: the checks against the protected branch,    *)
(* freeze, preflight, and the result that may already exist.                *)
Prepare(x) ==
    /\ exec[x].pc = "prepare"
    /\ Unlocked
    /\ IF \/ ~ runnable
          \/ result \notin {NoAttempt, Attempt(x)}
          \/ Is(x, "run.retry") /\ result # NoAttempt
       THEN Refuse(x)
       ELSE Pass(x, IF Is(x, "run.retry") THEN "origin" ELSE "claim")

(* Mutant: whatever the marker of the failed attempt says.                  *)
RetryableOnceClaimed(m) == m.outcome # "ok"

Retryable(m) == m.phase = "terminal" /\ m.outcome = "bad"

(* _retry_origin.  A marker that is not terminal leaves the operation open. *)
Origin(x) ==
    LET m == marker[exec[x].req.origin]
    IN  /\ exec[x].pc = "origin"
        /\ \/ Retryable(m) /\ Pass(x, "claim")
           \/ ~ Retryable(m) /\ m.phase \in {"none", "created", "terminal"} /\ Refuse(x)
           \/ ~ Retryable(m) /\ m.phase \in {"claimed", "launch_intent", "running"}
                /\ Leave(x)

(* LocalRunCoordinator.collect up to its last read.                         *)
Observe(x) ==
    LET m == marker[Attempt(x)]
    IN  /\ exec[x].pc = "observe"
        /\ Unlocked
        /\ \/ m.phase \in {"claimed", "launch_intent", "running"} /\ Leave(x)
           \/ m.phase \in {"none", "created"} /\ Refuse(x)
           \/ /\ m.phase = "terminal"
              /\ IF result \in {NoAttempt, Attempt(x)} THEN Pass(x, "store")
                 ELSE Refuse(x)

-----------------------------------------------------------------------------
(* LocalRunExecutor.execute.                                                *)

(* Mutant: a claim that was not launched is taken over.                     *)
ClaimableUntilLaunched(m) == m.phase \in {"none", "claimed", "launch_intent"}

Claimable(m) == m.phase = "none"

(* _claim_or_observe creates the marker exclusively, or reads what is       *)
(* there, which is empty until its creator has written it.                  *)
ClaimMarker(x) ==
    LET m == marker[Attempt(x)]
        own == m.phase # "created" /\ m.by.op = Op(x)
    IN  /\ exec[x].pc = "claim"
        /\ \/ /\ Claimable(m)
              /\ SetMarker(x, "created", "unread")
              /\ Goto(x, "write", "none")
              /\ UNCHANGED <<journal, abandoned, runnable, process, result, committed>>
           \/ ~ Claimable(m) /\ ~ own /\ Refuse(x)
           \/ ~ Claimable(m) /\ own /\ m.phase # "terminal" /\ Leave(x)
           \/ /\ ~ Claimable(m) /\ own /\ m.phase = "terminal"
              /\ Goto(x, IF m.outcome = "ok" THEN "store" ELSE "finish",
                         IF m.outcome = "ok" THEN "none" ELSE "attempt_failed")
              /\ UNCHANGED <<journal, abandoned, runVars>>

WriteClaim(x) ==
    /\ exec[x].pc = "write"
    /\ SetMarker(x, "claimed", "unread")
    /\ Goto(x, "launch", "none")
    /\ UNCHANGED <<journal, abandoned, runnable, process, result, committed>>

(* The events preparing ... launching.                                      *)
Launch(x) ==
    /\ exec[x].pc = "launch"
    /\ IF Running(Op(x)) THEN Pass(x, "intent") ELSE Leave(x)

Intend(x) ==
    /\ exec[x].pc = "intent"
    /\ SetMarker(x, "launch_intent", "unread")
    /\ Goto(x, "popen", "none")
    /\ UNCHANGED <<journal, abandoned, runnable, process, result, committed>>

(* An OSError or ValueError fails the attempt without a process.            *)
Popen(x) ==
    /\ exec[x].pc = "popen"
    /\ \/ SetProcess(Attempt(x), "alive") /\ Goto(x, "mark", "none")
       \/ UNCHANGED process /\ Read(x, "ending", "bad")
    /\ UNCHANGED <<journal, abandoned, runnable, marker, result, committed>>

(* If the marker cannot be replaced the process is killed.                  *)
MarkRunning(x) ==
    /\ exec[x].pc = "mark"
    /\ \/ /\ SetMarker(x, "running", "unread")
          /\ Goto(x, "running", "none")
          /\ UNCHANGED process
       \/ /\ Ended(Attempt(x), "bad")
          /\ Read(x, "ending", "bad")
          /\ UNCHANGED marker
    /\ UNCHANGED <<journal, abandoned, runnable, result, committed>>

(* The event running; when it is refused the process is killed.             *)
EmitRunning(x) ==
    /\ exec[x].pc = "running"
    /\ IF Running(Op(x)) THEN Goto(x, "wait", "none") /\ UNCHANGED process
       ELSE Return(x) /\ Ended(Attempt(x), "bad")
    /\ UNCHANGED <<journal, abandoned, runnable, marker, result, committed>>

(* Mutant: a process that has run out of time is left running.              *)
TimedOutButAlive(a) == UNCHANGED process

TimedOut(a) == SetProcess(a, "bad")

(* Mutant: the return code is read before the process has one.              *)
Poll(x) ==
    /\ exec[x].pc = "wait"
    /\ Read(x, "collecting", process[Attempt(x)])
    /\ UNCHANGED <<journal, abandoned, runVars>>

(* The process has ended, or it has run out of time and is killed.          *)
Wait(x) ==
    /\ exec[x].pc = "wait"
    /\ \/ /\ process[Attempt(x)] # "alive"
          /\ Read(x, "collecting", process[Attempt(x)])
          /\ UNCHANGED process
       \/ /\ process[Attempt(x)] = "alive"
          /\ TimedOut(Attempt(x))
          /\ Read(x, "collecting", "bad")
    /\ UNCHANGED <<journal, abandoned, runnable, marker, result, committed>>

(* The event collecting and the artifacts, which may be missing.            *)
CollectArtifacts(x) ==
    /\ exec[x].pc = "collecting"
    /\ IF Running(Op(x))
       THEN \E outcome \in {exec[x].seen, "bad"} : Read(x, "ending", outcome)
       ELSE Return(x)
    /\ UNCHANGED <<journal, abandoned, runVars>>

(* The event succeeded or failed.                                           *)
EmitTerminal(x) ==
    /\ exec[x].pc = "ending"
    /\ IF Running(Op(x)) THEN Read(x, "settle", exec[x].seen) ELSE Return(x)
    /\ UNCHANGED <<journal, abandoned, runVars>>

WriteTerminal(x) ==
    /\ exec[x].pc = "settle"
    /\ SetMarker(x, "terminal", exec[x].seen)
    /\ IF exec[x].seen = "ok" THEN Goto(x, "store", "none")
       ELSE Goto(x, "finish", "attempt_failed")
    /\ UNCHANGED <<journal, abandoned, runnable, process, result, committed>>

-----------------------------------------------------------------------------
(* GitRunRecordRepository.collect, under its lock.                          *)

Writable(a) == result \in {NoAttempt, a}

(* _write_once.                                                             *)
StoreResult(x) ==
    /\ exec[x].pc = "store"
    /\ Unlocked
    /\ IF Writable(Attempt(x))
       THEN /\ result' = Attempt(x)
            /\ Goto(x, "commit", "none")
            /\ UNCHANGED <<journal, abandoned, runnable, marker, process, committed>>
       ELSE Refuse(x)

(* Mutant: an existing result file counts as committed.                     *)
CommitSkipped == UNCHANGED committed

CommitNow == committed' = TRUE

CommitResult(x) ==
    /\ exec[x].pc = "commit"
    /\ CommitNow
    /\ Goto(x, "finish", IF Is(x, "run.collect") /\ committed
                         THEN "already_collected" ELSE "collected")
    /\ UNCHANGED <<journal, abandoned, runnable, marker, process, result>>

(* The executor dies and leaves its process, or gives up and kills it.      *)
Stop(x) ==
    /\ Abandon(x)
    /\ \/ UNCHANGED process
       \/ exec[x].pc \in {"mark", "running", "wait"} /\ Ended(Attempt(x), "bad")
    /\ UNCHANGED <<runnable, marker, result, committed>>

Step(x) ==
    \/ AuthorizeActor(x) \/ DenyActor(x) \/ Validate(x)
    \/ Prepare(x) \/ Origin(x) \/ Observe(x)
    \/ ClaimMarker(x) \/ WriteClaim(x) \/ Launch(x) \/ Intend(x) \/ Popen(x)
    \/ MarkRunning(x) \/ EmitRunning(x) \/ Wait(x) \/ CollectArtifacts(x)
    \/ EmitTerminal(x) \/ WriteTerminal(x) \/ StoreResult(x) \/ CommitResult(x)
    \/ (RecordFailure(x) \/ Finish(x)) /\ UNCHANGED runVars

Next ==
    \/ Drift
    \/ \E a \in Attempts : \E state \in {"ok", "bad"} : Exit(a, state)
    \/ \E x \in Executors : \E r \in Requests : Claim(x, r)
    \/ \E x \in Executors : Step(x) \/ Stop(x)

Spec == Init /\ [][Next]_vars

-----------------------------------------------------------------------------
(* The process of an attempt is started once, however often and by however  *)
(* many executors the request is run.                                       *)
StartsOnce ==
    [][\A a \in Attempts :
          process'[a] = "alive" => process[a] \in {"none", "alive"}]_process

(* A retry runs only when the attempt it retries has failed and its process *)
(* is gone, also when that attempt's executor died or gave up.              *)
RetryFollowsOrigin ==
    \A a \in Attempts :
        process[a] # "none" /\ marker[a].by.command = "run.retry" =>
            LET b == marker[a].by.origin
            IN  /\ marker[b].phase = "terminal" /\ marker[b].outcome = "bad"
                /\ process[b] # "alive"

(* A terminal marker is the truth about the process.                        *)
TerminalIsTrue ==
    \A a \in Attempts :
        marker[a].phase = "terminal" =>
            /\ process[a] # "alive"
            /\ marker[a].outcome = "ok" => process[a] = "ok"

(* What an operation reports of its attempt is stored.                      *)
ReportIsStored ==
    \A o \in Operations :
        LET a == journal[o].request.attempt
        IN  /\ journal[o].result \in {"collected", "already_collected"} =>
                  result = a /\ committed
            /\ journal[o].result = "attempt_failed" =>
                  marker[a].phase = "terminal" /\ marker[a].outcome = "bad"

=============================================================================
