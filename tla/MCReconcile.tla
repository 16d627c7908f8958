----------------------------- MODULE MCReconcile -----------------------------
(* Instances of Reconcile for TLC.                                          *)
EXTENDS Reconcile, TLC

CONSTANTS o1, o2, o3, x1, a1, a2

Request(op, command, attempt, origin) ==
    [op |-> op, key |-> op, command |-> command, attempt |-> attempt,
     origin |-> origin]
MCRequests == {Request(o1, "run.start", a1, NoAttempt),
               Request(o2, "run.retry", a2, a1),
               Request(o3, "run.collect", a1, NoAttempt)}
MCPhases ==
    {"idle", "authorize", "validate", "prepare", "origin", "observe", "claim",
     "write", "launch", "intent", "popen", "mark", "running", "wait",
     "collecting", "ending", "settle", "store", "commit", "effect", "finish",
     "fail"}
MCKinds == {"operation_started", "actor_authorized", "authorization_denied",
            "effect_persisted", "operation_failed", "operation_finished"}
MCResults == {"none", "denied", "failed", "collected", "already_collected",
              "attempt_failed"}
MCSnapshots == {"unread", "ok", "bad"}
MCOperations == {o1, o2, o3}
\* the reads of a Session's state come before all else where there is none
RunsLater ==
    scope = "run" /\ seen.pc \in {"idle", "worktrees", "tmux"} =>
        \A o \in MCOperations : journal[o].state = "absent"
\* a plan that says nothing of the Run is the end
SaysSomething ==
    scope = "run" /\ Planned => plan.run \in {"frozen", "collected", "collect_candidate"}
\* where an executor is cut off there are two operations
TwoIfCutOff ==
    abandoned = 1 =>
        Cardinality({o \in MCOperations : journal[o].state # "absent"}) <= 2
MCScopes == {"run", "session"}
=============================================================================
