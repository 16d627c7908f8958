---------------------------- MODULE MCSessionInbox ----------------------------
(* Instances of SessionInbox for TLC.                                       *)
EXTENDS SessionInbox, FiniteSets, TLC

CONSTANTS o1, o2, o3, x1, x2, s1, n1, q1, q2

Base == [op |-> o1, key |-> 1, command |-> "send", actor |-> "app",
         role |-> "trusted_automation", bound |-> NoSession, note |-> n1,
         session |-> s1, comment |-> 1, reply |-> q1, body |-> 1, expected |-> 1]
Send(op, note, comment) ==
    [Base EXCEPT !.op = op, !.key = op, !.note = note, !.comment = comment]
Agent(op, command, bound, reply, expected) ==
    [Base EXCEPT !.op = op, !.key = op, !.command = command, !.actor = "agent",
                 !.role = "agent", !.bound = bound, !.reply = reply,
                 !.expected = expected]
Manager(op, command, reply, expected) ==
    [Base EXCEPT !.op = op, !.key = op, !.command = command,
                 !.actor = "manager", !.role = "manager", !.reply = reply,
                 !.expected = expected]

MCOperations == {o1, o2, o3}
MCExecutors == {x1, x2}
MCNotifications == {n1}
MCReplyIds == {q1, q2}
MCSessions == {s1}
MCSnapshots == [route: Routes, state: NoteStates]
MCUnread == [route |-> "session", state |-> "absent"]
MCPhases == {"idle", "load", "authorize", "apply", "effect", "finish", "fail"}
MCKinds == {"operation_started", "actor_authorized", "authorization_denied",
            "effect_persisted", "operation_failed", "operation_finished"}
MCResults == {"none", "denied", "failed", "routed_to_session",
              "routed_to_manager_exception", "acknowledged",
              "already_acknowledged", "reply_queued"}
MCSymmetry == Permutations(MCExecutors)

\* one notification: its send, an Agent's acknowledgement or reply, a manager's
\* reply under the same reply id or another, and an acknowledgement by an actor
\* that may not make it
MCUnpermitted == [Base EXCEPT !.op = o3, !.key = o3, !.command = "ack"]
MCRequests ==
    {Send(o1, n1, 1), Agent(o2, "ack", s1, q1, 1),
     Agent(o2, "reply", s1, q1, 1), Manager(o3, "reply", q1, 1),
     Manager(o3, "reply", q2, 2), MCUnpermitted}
MCVerified == {Send(o1, n1, 1)}
\* where an executor dies there are two operations; otherwise it may stall for ever
TwoIfCutOff ==
    abandoned = 1 =>
        Cardinality({o \in MCOperations : journal[o].state # "absent"}) <= 2
=============================================================================
