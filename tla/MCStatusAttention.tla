-------------------------- MODULE MCStatusAttention --------------------------
(* Instances of StatusAttention for TLC.                                    *)
EXTENDS StatusAttention, TLC

CONSTANTS o1, o2, o3, o4, x1, x2

Update(id, rank, evidence) ==
    [id |-> id, key |-> 1, rank |-> rank, evidence |-> evidence]
First == Update(1, 1, "a")
Repeat == Update(2, 2, "a")
News == Update(3, 3, "b")
Clash == Update(1, 4, "b")
Foreign == Update(5, 5, "a")

Report(op, update) == [op |-> op, key |-> op, command |-> "status.publish",
                         update |-> update, generation |-> 1]
Manage(op, command, update, generation) ==
    [op |-> op, key |-> op, command |-> command, update |-> update,
     generation |-> generation]

MCPhases == {"idle", "authorize", "lookup", "apply", "effect", "finish", "fail"}
MCKinds == {"operation_started", "actor_authorized", "authorization_denied",
            "effect_persisted", "operation_failed", "operation_finished"}
MCResults == {"none", "denied", "failed", "persisted", "acknowledged",
              "snoozed", "resolved"}
MCUnread == "none"
MCSnapshots == {MCUnread}
MCUpdates == {First, Repeat, News, Clash, Foreign}
MCBindable == MCUpdates \ {Foreign}
MCOperations == {o1, o2, o3, o4}
MCExecutors == {x1, x2}
MCSymmetry == Permutations(MCExecutors)

\* three updates in any order, one that takes another's id, one that is not the
\* Session's, and three ways to close the item, one of them not permitted
Denied == Manage(o3, "inbox.resolve", Repeat, 1)
MCRequests ==
    {Report(o1, First), Report(o2, Repeat), Report(o2, Clash),
     Report(o2, Foreign), Report(o3, News), Denied,
     Manage(o3, "inbox.snooze", First, 1),
     Manage(o4, "inbox.ack", First, 1), Manage(o4, "inbox.ack", Repeat, 1),
     Manage(o4, "inbox.resolve", First, 1)}
MCPermitted == MCRequests \ {Denied}
=============================================================================
