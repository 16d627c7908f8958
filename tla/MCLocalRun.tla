------------------------------ MODULE MCLocalRun ------------------------------
(* Instances of LocalRun for TLC.                                           *)
EXTENDS LocalRun, TLC

CONSTANTS o1, o2, o3, x1, x2, a1, a2

Request(op, command, attempt, origin) ==
    [op |-> op, key |-> op, command |-> command, attempt |-> attempt,
     origin |-> origin]
Start == Request(o1, "run.start", a1, NoAttempt)
Retry == Request(o2, "run.retry", a2, a1)
CollectFirst == Request(o3, "run.collect", a1, NoAttempt)

MCPhases ==
    {"idle", "authorize", "validate", "prepare", "origin", "observe", "claim",
     "write", "launch", "intent", "popen", "mark", "running", "wait",
     "collecting", "ending", "settle", "store", "commit", "effect", "finish",
     "fail"}
MCKinds == {"operation_started", "actor_authorized", "authorization_denied",
            "effect_persisted", "operation_failed", "operation_finished"}
MCResults == {"none", "denied", "failed", "collected", "already_collected",
              "attempt_failed"}
MCSnapshots == {"unread", "ok", "bad"}
MCOperations == {o1, o2, o3}
MCExecutors == {x1, x2}
MCAttempts == {a1, a2}
MCSymmetry == Permutations(MCExecutors)

\* a start, its retry, and the collection of the first attempt
MCRequests == {Start, Retry, CollectFirst}
\* and a collection that is denied, with nothing else
Denied == Request(o3, "run.collect", a2, NoAttempt)
MCWithDenied == MCRequests \cup {Denied}
DeniedAlone ==
    journal[o3].request = Denied => \A o \in {o1, o2} : journal[o].state = "absent"
\* one mishap in a run of the model, which has two operations then
OneMishap ==
    /\ runnable \/ abandoned = 0
    /\ ~ runnable \/ abandoned = 1 =>
          Cardinality({o \in MCOperations : journal[o].state # "absent"}) <= 2
=============================================================================
