--------------------------- MODULE MCSessionHarness ---------------------------
(* Instances of SessionHarness for TLC.                                     *)
EXTENDS SessionHarness, TLC

CONSTANTS o1, o2, o3, o4, x1, x2

Request(op, command) == [op |-> op, key |-> op, command |-> command]
Start == Request(o1, "session.start")
Stop == Request(o2, "pause.stop")
Again == Request(o3, "session.start")
Idle == Request(o4, "pause.idle")

MCPhases ==
    {"idle", "authorize", "load", "look", "lose", "create", "rotate",
     "prepare", "launch", "await", "stop", "interrupt", "poll", "probe",
     "settle", "report", "effect", "finish", "fail"}
MCKinds == {"operation_started", "actor_authorized", "authorization_denied",
            "effect_persisted", "operation_failed", "operation_finished"}
MCResults == {"none", "denied", "failed", "active", "idle", "stopped", "lost"}
MCSnapshots == Rows
MCUnread == [state |-> "absent", native |-> FALSE]
MCOperations == {o1, o2, o3, o4}
MCExecutors == {x1, x2}
MCExecutor == {x1}
MCSymmetry == Permutations(MCExecutors)

\* a start and the two kinds of pause
MCPauses == {Start, Stop, Idle}
\* and a start that is denied, with nothing else
MCRequests == MCPauses \cup {Again}
DeniedAlone ==
    journal[o3].state # "absent" =>
        \A o \in {o1, o2, o4} : journal[o].state = "absent"
=============================================================================
