----------------------------- MODULE SessionInbox -----------------------------
(***************************************************************************)
(* The Session inbox: notification.send, notification.ack and              *)
(* notification.reply of ApplicationService over create_notification,      *)
(* ack_notification, reply_notification and save_session of the runtime    *)
(* store, run by concurrent executors while Sessions stop, resume and are  *)
(* lost under them.                                                         *)
(***************************************************************************)
EXTENDS OperationJournal

CONSTANTS
    Sessions,
    Notifications,   \* notification_id values
    ReplyIds,
    Verified,        \* send requests that have a matching ingress receipt and
                     \* a commit reachable from the Session's branch
    NoSession

(* A request and the actor that makes it; fields a command does not have    *)
(* are not read.                                                            *)
ASSUME InboxRequestAssumption ==
    \A r \in Requests :
        /\ r.command \in {"send", "ack", "reply"}
        /\ r.role \in {"manager", "agent", "trusted_automation"}
        /\ r.bound \in Sessions \cup {NoSession}
        /\ r.note \in Notifications
        /\ r.command = "send" => r.session \in Sessions
        /\ r.command = "reply" => r.reply \in ReplyIds
        /\ r.command # "send" => r.expected \in Nat \ {0}
ASSUME NoSessionAssumption == NoSession \notin Sessions
ASSUME SnapshotAssumption ==
    Snapshots = [route: {"session", "manager_exception"},
                 state: {"absent", "pending", "acknowledged", "replied"}]
ASSUME InboxVocabulary ==
    /\ {"load", "apply"} \subseteq Phases
    /\ {"routed_to_session", "routed_to_manager_exception", "acknowledged",
        "already_acknowledged", "reply_queued"} \subseteq Results

VARIABLES
    session,         \* runtime_sessions.state
    notes,           \* session_notifications
    replies,         \* notification_replies: the request that wrote each row
    queued           \* notification_reply_outbox: the replies with a row

inboxVars == <<session, notes, replies, queued>>
vars == <<journalVars, inboxVars>>

(* "live" stands for preparing, active, idle and stopping.                  *)
SessionStates == {"live", "stopped", "lost"}
Over == {"stopped", "lost"}
Routes == {"session", "manager_exception"}
NoteStates == {"absent", "pending", "acknowledged", "replied"}

Notice(origin, route, state, revision, acked, replied) ==
    [origin |-> origin, route |-> route, state |-> state, revision |-> revision,
     acked |-> acked, replied |-> replied]
NoNotice == Notice(NoRequest, "session", "absent", 0, NoRequest, NoRequest)

TypeOK ==
    /\ JournalTypeOK
    /\ session \in [Sessions -> SessionStates \cup {"absent"}]
    /\ notes \in [Notifications ->
          [origin: Requests \cup {NoRequest}, route: Routes, state: NoteStates,
           revision: Nat, acked: Requests \cup {NoRequest},
           replied: Requests \cup {NoRequest}]]
    /\ replies \in [ReplyIds -> Requests \cup {NoRequest}]
    /\ queued \subseteq ReplyIds

Init ==
    /\ JournalInit
    /\ session = [s \in Sessions |-> "absent"]
    /\ notes = [n \in Notifications |-> NoNotice]
    /\ replies = [q \in ReplyIds |-> NoRequest]
    /\ queued = {}

Exists(n) == notes[n].state # "absent"
Open(n) == notes[n].state \in {"pending", "acknowledged"}

-----------------------------------------------------------------------------
(* Sessions.  An observation that is not newer than the row is refused and  *)
(* changes nothing, so only accepted ones are steps.                        *)

OpenSession(s, state) ==
    /\ session[s] = "absent"
    /\ session' = [session EXCEPT ![s] = state]
    /\ UNCHANGED <<journalVars, notes, replies, queued>>

(* Mutant: only pending notifications fall back.                            *)
ReroutePending(s) ==
    [n \in Notifications |->
        IF /\ notes[n].state = "pending"
           /\ notes[n].route = "session" /\ notes[n].origin.session = s
        THEN Notice(notes[n].origin, "manager_exception", notes[n].state,
                    notes[n].revision + 1, notes[n].acked, notes[n].replied)
        ELSE notes[n]]

(* The open notifications of a Session that ends fall back to the manager.  *)
Reroute(s) ==
    [n \in Notifications |->
        IF Open(n) /\ notes[n].route = "session" /\ notes[n].origin.session = s
        THEN Notice(notes[n].origin, "manager_exception", notes[n].state,
                    notes[n].revision + 1, notes[n].acked, notes[n].replied)
        ELSE notes[n]]

SaveSession(s, state) ==
    /\ session[s] \notin {"absent", "lost"}
    /\ session' = [session EXCEPT ![s] = state]
    /\ notes' = IF state \in Over THEN Reroute(s) ELSE notes
    /\ UNCHANGED <<journalVars, replies, queued>>

-----------------------------------------------------------------------------
(* The service methods.                                                     *)

(* A caller quotes a revision that it has read.                             *)
Quotable(r) ==
    r.command = "send" \/ (Exists(r.note) /\ r.expected <= notes[r.note].revision)

Claim(x, r) ==
    /\ Quotable(r)
    /\ Begin(x, r, IF r.command = "send" THEN "authorize" ELSE "load")
    /\ UNCHANGED inboxVars

(* _notification_for_action reads the notification ...                      *)
Load(x) ==
    /\ exec[x].pc = "load"
    /\ LET note == notes[exec[x].req.note]
       IN  Read(x, "authorize", [route |-> note.route, state |-> note.state])
    /\ UNCHANGED <<journal, abandoned, inboxVars>>

Permitted(r) ==
    IF r.command = "send"
    THEN r.role \in {"manager", "trusted_automation"}
    ELSE \/ r.role = "manager"
         \/ r.role = "agent" /\ r.bound = notes[r.note].origin.session

(* ... and a fallback item is left to a manager.  A send request is checked *)
(* against its ingress receipt instead.                                     *)
Admitted(x) ==
    IF exec[x].req.command = "send" THEN exec[x].req \in Verified
    ELSE exec[x].seen.route = "session" \/ exec[x].req.role = "manager"

AuthorizeActor(x) ==
    /\ Authorize(x, Permitted(exec[x].req),
                 IF Admitted(x) THEN "apply" ELSE "fail")
    /\ UNCHANGED inboxVars

DenyActor(x) ==
    /\ Deny(x, Permitted(exec[x].req))
    /\ UNCHANGED inboxVars

Refuse(x) ==
    /\ Goto(x, "fail", "none")
    /\ UNCHANGED <<journal, abandoned, inboxVars>>

RoutedTo(route) == IF route = "session" THEN "routed_to_session"
                   ELSE "routed_to_manager_exception"

SameContent(r, q) == /\ r.session = q.session
                     /\ r.comment = q.comment
                     /\ r.body = q.body

(* The comment is bound to another notification, or the notification has    *)
(* other content.                                                           *)
SendConflict(r) ==
    \/ \E n \in Notifications \ {r.note} :
          /\ Exists(n)
          /\ notes[n].origin.comment = r.comment
          /\ notes[n].origin.session = r.session
    \/ Exists(r.note) /\ ~ SameContent(r, notes[r.note].origin)

(* create_notification.                                                     *)
ApplySend(x) ==
    LET r == exec[x].req
        route == IF session[r.session] \in Over
                 THEN "manager_exception" ELSE "session"
    IN  /\ exec[x].pc = "apply"
        /\ r.command = "send"
        /\ IF session[r.session] = "absent" \/ SendConflict(r)
           THEN Refuse(x)
           ELSE /\ notes' = IF Exists(r.note) THEN notes
                            ELSE [notes EXCEPT ![r.note] =
                                    Notice(r, route, "pending", 1,
                                           NoRequest, NoRequest)]
                /\ Goto(x, "effect", RoutedTo(notes'[r.note].route))
                /\ UNCHANGED <<journal, abandoned, session, replies, queued>>

(* ack_notification.  acknowledged_by and acknowledged_operation_id are the *)
(* request's, as the journal binds the actor to the operation.              *)
ApplyAck(x) ==
    LET r == exec[x].req
        note == notes[r.note]
        replay == note.state = "acknowledged" /\ note.acked = r
        stale == note.revision # r.expected
    IN  /\ exec[x].pc = "apply"
        /\ r.command = "ack"
        /\ IF ~ replay /\ (stale \/ note.state = "replied")
           THEN Refuse(x)
           ELSE /\ notes' = IF note.state # "pending" THEN notes
                            ELSE [notes EXCEPT ![r.note] =
                                    Notice(note.origin, note.route,
                                           "acknowledged", note.revision + 1,
                                           r, note.replied)]
                /\ Goto(x, "effect", IF exec[x].seen.state = "acknowledged"
                                     THEN "already_acknowledged"
                                     ELSE "acknowledged")
                /\ UNCHANGED <<journal, abandoned, session, replies, queued>>

SameReply(r, q) == r.note = q.note /\ r.actor = q.actor /\ r.body = q.body

(* Mutant: a replied notification accepts another reply.                    *)
ReplyRefusedIfStale(r) == notes[r.note].revision # r.expected

ReplyRefused(r) ==
    \/ notes[r.note].revision # r.expected
    \/ notes[r.note].state = "replied"

Known(r) == replies[r.reply] # NoRequest

(* reply_notification: the reply, the closed notification and the outbox    *)
(* row are one transaction.  A known reply_id is decided before the         *)
(* revision is looked at.                                                   *)
ApplyReply(x) ==
    LET r == exec[x].req
        note == notes[r.note]
    IN  /\ exec[x].pc = "apply"
        /\ r.command = "reply"
        /\ \/ /\ Known(r)
              /\ SameReply(r, replies[r.reply])
              /\ Goto(x, "effect", "reply_queued")
              /\ UNCHANGED <<journal, abandoned, inboxVars>>
           \/ /\ IF Known(r) THEN ~ SameReply(r, replies[r.reply])
                 ELSE ReplyRefused(r)
              /\ Refuse(x)
           \/ /\ ~ Known(r)
              /\ ~ ReplyRefused(r)
              /\ replies' = [replies EXCEPT ![r.reply] = r]
              /\ notes' = [notes EXCEPT ![r.note] =
                    Notice(note.origin, note.route, "replied",
                           note.revision + 1, note.acked, r)]
              /\ queued' = queued \cup {r.reply}
              /\ Goto(x, "effect", "reply_queued")
              /\ UNCHANGED <<journal, abandoned, session>>

Step(x) ==
    \/ Load(x) \/ AuthorizeActor(x) \/ DenyActor(x)
    \/ ApplySend(x) \/ ApplyAck(x) \/ ApplyReply(x)
    \/ (RecordEffect(x) \/ RecordFailure(x) \/ Finish(x)) /\ UNCHANGED inboxVars

Next ==
    \/ \E s \in Sessions : \E state \in SessionStates :
          OpenSession(s, state) \/ SaveSession(s, state)
    \/ \E x \in Executors : \E r \in Requests : Claim(x, r)
    \/ \E x \in Executors : Step(x)
    \/ \E x \in Executors : Abandon(x) /\ UNCHANGED inboxVars

Spec == Init /\ [][Next]_vars

-----------------------------------------------------------------------------
(* No open notification waits on the route of a Session that has stopped or *)
(* been lost, however creation, acknowledgement and the end of the Session  *)
(* interleave.                                                              *)
NothingLeftBehind ==
    \A n \in Notifications :
        Open(n) /\ session[notes[n].origin.session] \in Over
            => notes[n].route = "manager_exception"

(* A notification is replied exactly when the one reply it names is stored, *)
(* and a stored reply has its outbox row: no reply is lost, doubled or left *)
(* unqueued by a crash, a retry or a second executor.                       *)
OneQueuedReply ==
    /\ \A n \in Notifications :
          /\ notes[n].state = "replied" <=> notes[n].replied # NoRequest
          /\ notes[n].replied # NoRequest =>
                replies[notes[n].replied.reply] = notes[n].replied
    /\ \A q \in ReplyIds :
          /\ q \in queued <=> replies[q] # NoRequest
          /\ q \in queued => notes[replies[q].note].replied = replies[q]

(* A result that reports success stands for an effect that is stored.       *)
SuccessIsStored ==
    \A o \in Operations :
        LET r == journal[o].request
        IN  /\ journal[o].result \in {"routed_to_session",
                                      "routed_to_manager_exception"}
                  => Exists(r.note) /\ SameContent(r, notes[r.note].origin)
            /\ journal[o].result \in {"acknowledged", "already_acknowledged"}
                  => notes[r.note].state \in {"acknowledged", "replied"}
            /\ journal[o].result = "reply_queued"
                  => /\ r.reply \in queued
                     /\ SameReply(r, replies[r.reply])

(* The request that an acknowledgement or reply of n stored by this step    *)
(* comes from.                                                              *)
ActsOn(n, r) ==
    \/ notes'[n].acked # notes[n].acked /\ r = notes'[n].acked
    \/ notes'[n].replied # notes[n].replied /\ r = notes'[n].replied

(* An Agent acts only on its own Session's notifications and never on one   *)
(* that has fallen back, although the route is read before the transaction. *)
AgentsKeepToTheirRoute ==
    [][\A n \in Notifications : \A r \in Requests :
          ActsOn(n, r) /\ r.role = "agent" =>
              /\ notes[n].route = "session"
              /\ r.bound = notes[n].origin.session
              /\ session[r.bound] \notin Over]_vars

(* Every change of a notification takes a new revision, a replied one is    *)
(* never touched again and a fallback is never undone.                      *)
NoticesMoveForward ==
    [][\A n \in Notifications :
          notes'[n] # notes[n] =>
              /\ notes'[n].revision = notes[n].revision + 1
              /\ notes[n].state # "replied"
              /\ notes[n].route = "manager_exception" =>
                    notes'[n].route = "manager_exception"]_vars
=============================================================================
