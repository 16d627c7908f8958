-------------------------- MODULE SessionInboxProofs --------------------------
(***************************************************************************)
(* Proofs about SessionInbox.  A step of the specification does one of five *)
(* things to the inbox tables or leaves them alone (lemma InboxStep), and   *)
(* one of a few things to the journal and to the calls (JournalStep,        *)
(* CallStep); the invariants are proved from these summaries.               *)
(***************************************************************************)
EXTENDS SessionInbox, TLAPS

Calls == [pc: Phases, req: Requests \cup {NoRequest}, knows: SUBSET Kinds,
          seen: Snapshots, verdict: Results]
Rows == [state: {"absent", "running", "terminal"},
         request: Requests \cup {NoRequest}, events: Seq(Kinds), result: Results]
Notices == [origin: Requests \cup {NoRequest}, route: Routes, state: NoteStates,
            revision: Nat, acked: Requests \cup {NoRequest},
            replied: Requests \cup {NoRequest}]

(* The typing of one row, call or notification, and of a function of them   *)
(* that is changed at one place.                                            *)
LEMMA CallTyped ==
    ASSUME NEW pc \in Phases, NEW r \in Requests \cup {NoRequest},
           NEW knows \in SUBSET Kinds, NEW seen \in Snapshots,
           NEW verdict \in Results
    PROVE  Call(pc, r, knows, seen, verdict) \in Calls
BY DEF Call, Calls

LEMMA RowTyped ==
    ASSUME NEW state \in {"absent", "running", "terminal"},
           NEW r \in Requests \cup {NoRequest},
           NEW events \in Seq(Kinds), NEW result \in Results
    PROVE  Row(state, r, events, result) \in Rows
BY DEF Row, Rows

LEMMA NoticeTyped ==
    ASSUME NEW origin \in Requests \cup {NoRequest}, NEW route \in Routes,
           NEW state \in NoteStates, NEW revision \in Nat,
           NEW acked \in Requests \cup {NoRequest},
           NEW replied \in Requests \cup {NoRequest}
    PROVE  Notice(origin, route, state, revision, acked, replied) \in Notices
BY DEF Notice, Notices

LEMMA TypeParts ==
    TypeOK <=>
        /\ journal \in [Operations -> Rows]
        /\ exec \in [Executors -> Calls]
        /\ abandoned \in Nat
        /\ session \in [Sessions -> SessionStates \cup {"absent"}]
        /\ notes \in [Notifications -> Notices]
        /\ replies \in [ReplyIds -> Requests \cup {NoRequest}]
        /\ queued \subseteq ReplyIds
BY DEF TypeOK, JournalTypeOK, Rows, Calls, Notices

LEMMA CallFields ==
    ASSUME TypeOK, NEW x \in Executors
    PROVE  /\ exec[x] \in Calls
           /\ exec[x].pc \in Phases
           /\ exec[x].req \in Requests \cup {NoRequest}
           /\ exec[x].knows \in SUBSET Kinds
           /\ exec[x].seen \in Snapshots
           /\ exec[x].verdict \in Results
BY TypeParts DEF Calls

LEMMA NoticeFields ==
    ASSUME TypeOK, NEW n \in Notifications
    PROVE  /\ notes[n] \in Notices
           /\ notes[n].origin \in Requests \cup {NoRequest}
           /\ notes[n].route \in Routes
           /\ notes[n].state \in NoteStates
           /\ notes[n].revision \in Nat
           /\ notes[n].acked \in Requests \cup {NoRequest}
           /\ notes[n].replied \in Requests \cup {NoRequest}
BY TypeParts DEF Notices

LEMMA RowFields ==
    ASSUME TypeOK, NEW o \in Operations
    PROVE  /\ journal[o] \in Rows
           /\ journal[o].state \in {"absent", "running", "terminal"}
           /\ journal[o].request \in Requests \cup {NoRequest}
           /\ journal[o].events \in Seq(Kinds)
           /\ journal[o].result \in Results
BY TypeParts DEF Rows

(* A call in progress has a request.                                        *)
CallsHaveRequests ==
    \A x \in Executors : exec[x].pc # "idle" => exec[x].req \in Requests

WellTyped == TypeOK /\ CallsHaveRequests
-----------------------------------------------------------------------------
(* What one step does to a row of the journal.                              *)
Extended(o, kind) ==
    /\ Running(o)
    /\ journal' = [journal EXCEPT
          ![o] = Row("running", journal[o].request,
                     Append(journal[o].events, kind), journal[o].result)]

Begun(r) ==
    /\ Bound(r) = {}
    /\ journal[r.op].state = "absent"
    /\ journal' = [journal EXCEPT
          ![r.op] = Row("running", r, <<"operation_started">>, "none")]

LEMMA JournalStep ==
    ASSUME WellTyped, Next
    PROVE  \/ UNCHANGED journal
           \/ \E r \in Requests : Begun(r)
           \/ \E x \in Executors : \E kind \in Kinds :
                 /\ exec[x].pc # "idle"
                 /\ kind \in {"actor_authorized", "authorization_denied",
                              "effect_persisted", "operation_failed"}
                 /\ Extended(Op(x), kind)
           \/ \E x \in Executors :
                 /\ exec[x].pc = "finish"
                 /\ FinishOperation(Op(x), exec[x].verdict)
<1>1. CASE \E s \in Sessions : \E state \in SessionStates :
              OpenSession(s, state) \/ SaveSession(s, state)
  BY <1>1 DEF OpenSession, SaveSession, journalVars
<1>2. ASSUME NEW x \in Executors, NEW r \in Requests, Claim(x, r)
      PROVE  UNCHANGED journal \/ Begun(r)
  BY <1>2 DEF Claim, Begin, BeginNew, BeginAgain, Begun
<1>3. ASSUME NEW x \in Executors, Step(x)
      PROVE  \/ UNCHANGED journal
             \/ \E kind \in Kinds :
                   /\ exec[x].pc # "idle"
                   /\ kind \in {"actor_authorized", "authorization_denied",
                                "effect_persisted", "operation_failed"}
                   /\ Extended(Op(x), kind)
             \/ /\ exec[x].pc = "finish"
                /\ FinishOperation(Op(x), exec[x].verdict)
  <2>1. CASE Load(x) \/ ApplySend(x) \/ ApplyAck(x) \/ ApplyReply(x)
    BY <2>1 DEF Load, ApplySend, ApplyAck, ApplyReply, Refuse
  <2>2. CASE AuthorizeActor(x)
    BY VocabularyAssumption, <2>2 DEF AuthorizeActor, Authorize, Record, AppendEvent, Extended
  <2>3. CASE DenyActor(x)
    BY VocabularyAssumption, <2>3 DEF DenyActor, Deny, RecordAlways, AppendEvent, Extended
  <2>4. CASE RecordEffect(x)
    BY VocabularyAssumption, <2>4 DEF RecordEffect, Record, AppendEvent, Extended
  <2>5. CASE RecordFailure(x)
    BY VocabularyAssumption, <2>5 DEF RecordFailure, RecordAlways, AppendEvent, Extended
  <2>6. CASE Finish(x)
    BY <2>6 DEF Finish
  <2> QED BY <1>3, <2>1, <2>2, <2>3, <2>4, <2>5, <2>6 DEF Step
<1>4. CASE \E x \in Executors : Abandon(x) /\ UNCHANGED inboxVars
  BY <1>4 DEF Abandon
<1> QED BY <1>1, <1>2, <1>3, <1>4 DEF Next

(* What one step does to the inbox tables.                                  *)
Ended(s, state) ==
    /\ session[s] \notin {"absent", "lost"}
    /\ session' = [session EXCEPT ![s] = state]
    /\ notes' = IF state \in Over THEN Reroute(s) ELSE notes
    /\ UNCHANGED <<replies, queued>>

Opened(s, state) ==
    /\ session[s] = "absent"
    /\ session' = [session EXCEPT ![s] = state]
    /\ UNCHANGED <<notes, replies, queued>>

Created(r) ==
    /\ r.command = "send"
    /\ ~ Exists(r.note)
    /\ session[r.session] # "absent"
    /\ notes' = [notes EXCEPT ![r.note] =
          Notice(r, IF session[r.session] \in Over
                    THEN "manager_exception" ELSE "session",
                 "pending", 1, NoRequest, NoRequest)]
    /\ UNCHANGED <<session, replies, queued>>

Acked(r) ==
    /\ r.command = "ack"
    /\ notes[r.note].state = "pending"
    /\ notes[r.note].revision = r.expected
    /\ notes' = [notes EXCEPT ![r.note] =
          Notice(notes[r.note].origin, notes[r.note].route, "acknowledged",
                 notes[r.note].revision + 1, r, notes[r.note].replied)]
    /\ UNCHANGED <<session, replies, queued>>

Answered(r) ==
    /\ r.command = "reply"
    /\ ~ Known(r)
    /\ notes[r.note].state # "replied"
    /\ notes[r.note].revision = r.expected
    /\ replies' = [replies EXCEPT ![r.reply] = r]
    /\ notes' = [notes EXCEPT ![r.note] =
          Notice(notes[r.note].origin, notes[r.note].route, "replied",
                 notes[r.note].revision + 1, notes[r.note].acked, r)]
    /\ queued' = queued \cup {r.reply}
    /\ UNCHANGED session

LEMMA InboxStep ==
    ASSUME WellTyped, Next
    PROVE  \/ UNCHANGED inboxVars
           \/ \E s \in Sessions : \E state \in SessionStates :
                 Ended(s, state) \/ Opened(s, state)
           \/ \E x \in Executors :
                 /\ exec[x].pc = "apply"
                 /\ exec[x].req \in Requests
                 /\ \/ Created(exec[x].req)
                    \/ Acked(exec[x].req)
                    \/ Answered(exec[x].req)
<1>1. ASSUME NEW s \in Sessions, NEW state \in SessionStates,
             OpenSession(s, state) \/ SaveSession(s, state)
      PROVE  Ended(s, state) \/ Opened(s, state)
  BY <1>1 DEF OpenSession, SaveSession, Ended, Opened
<1>2. ASSUME NEW x \in Executors, NEW r \in Requests, Claim(x, r)
      PROVE  UNCHANGED inboxVars
  BY <1>2 DEF Claim
<1>3. ASSUME NEW x \in Executors, Step(x)
      PROVE  \/ UNCHANGED inboxVars
             \/ /\ exec[x].pc = "apply"
                /\ exec[x].req \in Requests
                /\ \/ Created(exec[x].req)
                   \/ Acked(exec[x].req)
                   \/ Answered(exec[x].req)
  <2>0. exec[x].pc = "apply" => exec[x].req \in Requests
    BY DEF WellTyped, CallsHaveRequests
  <2>1. CASE Load(x) \/ AuthorizeActor(x) \/ DenyActor(x)
    BY <2>1 DEF Load, AuthorizeActor, DenyActor
  <2>2. CASE ApplySend(x)
    BY <2>2, <2>0 DEF ApplySend, Refuse, Created, inboxVars
  <2>3. CASE ApplyAck(x)
    BY <2>3, <2>0 DEF ApplyAck, Refuse, Acked, inboxVars
  <2>4. CASE ApplyReply(x)
    BY <2>4, <2>0 DEF ApplyReply, Refuse, Answered, ReplyRefused, inboxVars
  <2> QED BY <1>3, <2>1, <2>2, <2>3, <2>4 DEF Step
<1>4. CASE \E x \in Executors : Abandon(x) /\ UNCHANGED inboxVars
  BY <1>4
<1> QED BY <1>1, <1>2, <1>3, <1>4 DEF Next
-----------------------------------------------------------------------------
(* What one step does to the calls.                                         *)
Returned(x) == exec' = [exec EXCEPT ![x] = NoCall]

Claimed(x, c) ==
    /\ exec[x].pc = "idle"
    /\ c.req \in Requests
    /\ Quotable(c.req)
    /\ c.pc = (IF c.req.command = "send" THEN "authorize" ELSE "load")
    /\ c.seen = Unread
    /\ UNCHANGED inboxVars

Looked(x, c) ==
    /\ exec[x].pc = "load"
    /\ c.req = exec[x].req
    /\ c.pc = "authorize"
    /\ c.seen = [route |-> notes[c.req.note].route,
                 state |-> notes[c.req.note].state]
    /\ UNCHANGED inboxVars

Passed(x, c) ==
    /\ exec[x].pc = "authorize"
    /\ c.req = exec[x].req
    /\ c.seen = exec[x].seen
    /\ \/ c.pc = "apply" /\ Permitted(c.req) /\ Admitted(x)
       \/ c.pc = "fail"
    /\ UNCHANGED inboxVars

Concluded(x, c) ==
    /\ exec[x].pc # "idle"
    /\ c.req = exec[x].req
    /\ c.pc \in {"effect", "finish", "fail"}

LEMMA CallStep ==
    ASSUME WellTyped, Next
    PROVE  \/ UNCHANGED exec
           \/ \E x \in Executors :
                 \/ Returned(x)
                 \/ \E c \in Calls :
                       /\ exec' = [exec EXCEPT ![x] = c]
                       /\ Claimed(x, c) \/ Looked(x, c) \/ Passed(x, c)
                             \/ Concluded(x, c)
<1> USE VocabularyAssumption, InboxVocabulary
<1>1. ASSUME NEW s \in Sessions, NEW state \in SessionStates,
             OpenSession(s, state) \/ SaveSession(s, state)
      PROVE  UNCHANGED exec
  BY <1>1 DEF OpenSession, SaveSession, journalVars
<1>2. ASSUME NEW x \in Executors, NEW r \in Requests, Claim(x, r)
      PROVE  \E c \in Calls : exec' = [exec EXCEPT ![x] = c] /\ Claimed(x, c)
  <2>1. PICK knows : exec' = [exec EXCEPT
           ![x] = Call(IF r.command = "send" THEN "authorize" ELSE "load", r,
                       knows, Unread, "none")]
        /\ knows = {journal'[r.op].events[i] : i \in DOMAIN journal'[r.op].events}
    BY <1>2 DEF Claim, Begin
  <2>2. journal'[r.op].events \in Seq(Kinds)
    <3>1. CASE BeginNew(r)
      <4>1. r.op \in Operations
        BY RequestAssumption
      <4>2. journal'[r.op].events = <<"operation_started">>
        BY <3>1, <4>1, TypeParts DEF BeginNew, Row, WellTyped
      <4> QED BY <4>2
    <3>2. CASE BeginAgain(r)
      BY <3>2, RowFields, RequestAssumption DEF BeginAgain, WellTyped
    <3> QED BY <1>2, <3>1, <3>2 DEF Claim, Begin
  <2>3. knows \in SUBSET Kinds
    BY <2>1, <2>2
  <2> DEFINE c == Call(IF r.command = "send" THEN "authorize" ELSE "load", r,
                       knows, Unread, "none")
  <2>4. c \in Calls
    BY <2>3, CallTyped, UnreadAssumption
  <2>5. Claimed(x, c)
    BY <1>2 DEF Claim, Begin, Claimed, Call
  <2> QED BY <2>1, <2>4, <2>5
<1>3. ASSUME NEW x \in Executors, Step(x)
      PROVE  \/ Returned(x)
             \/ \E c \in Calls :
                   /\ exec' = [exec EXCEPT ![x] = c]
                   /\ Looked(x, c) \/ Passed(x, c) \/ Concluded(x, c)
  <2>0. /\ exec[x].req \in Requests \cup {NoRequest}
        /\ exec[x].pc # "idle" => exec[x].req \in Requests
        /\ exec[x].knows \in SUBSET Kinds
        /\ exec[x].seen \in Snapshots
        /\ exec[x].verdict \in Results
    BY CallFields DEF WellTyped, CallsHaveRequests
  <2>1. ASSUME NEW pc \in {"effect", "finish", "fail"}, NEW v \in Results,
               exec[x].pc # "idle", Goto(x, pc, v)
        PROVE  \E c \in Calls : /\ exec' = [exec EXCEPT ![x] = c]
                                /\ Concluded(x, c)
    <3> DEFINE c == Call(pc, exec[x].req, exec[x].knows, Unread, v)
    <3>1. c \in Calls
      BY <2>0, CallTyped, UnreadAssumption
    <3>2. exec' = [exec EXCEPT ![x] = c] /\ Concluded(x, c)
      BY <2>1 DEF Goto, Concluded, Call
    <3> QED BY <3>1, <3>2
  <2>2. ASSUME NEW pc \in {"authorize", "apply", "fail"}, NEW seen \in Snapshots,
               exec[x].pc # "idle", Read(x, pc, seen)
        PROVE  \E c \in Calls : /\ exec' = [exec EXCEPT ![x] = c]
                                /\ c.pc = pc /\ c.req = exec[x].req
                                /\ c.seen = seen
    <3> DEFINE c == Call(pc, exec[x].req, exec[x].knows, seen, "none")
    <3>1. c \in Calls
      BY <2>0, CallTyped
    <3>2. /\ exec' = [exec EXCEPT ![x] = c]
          /\ c.pc = pc /\ c.req = exec[x].req /\ c.seen = seen
      BY <2>2 DEF Read, Call
    <3> QED BY <3>1, <3>2
  <2>3. CASE Load(x)
    <3>1. exec[x].req.note \in Notifications
      BY <2>3, <2>0, InboxRequestAssumption DEF Load
    <3> DEFINE seen == [route |-> notes[exec[x].req.note].route,
                        state |-> notes[exec[x].req.note].state]
    <3>2. seen \in Snapshots
      BY <3>1, NoticeFields, SnapshotAssumption
         DEF WellTyped, Routes, NoteStates
    <3>3. Read(x, "authorize", seen)
      BY <2>3 DEF Load
    <3>4. PICK c \in Calls : /\ exec' = [exec EXCEPT ![x] = c]
                             /\ c.pc = "authorize" /\ c.req = exec[x].req
                             /\ c.seen = seen
      BY <2>2, <2>3, <3>2, <3>3 DEF Load
    <3>5. Looked(x, c)
      BY <2>3, <3>4 DEF Load, Looked
    <3> QED BY <3>4, <3>5
  <2>4. CASE AuthorizeActor(x)
    <3>1. CASE Returned(x)
      BY <3>1
    <3>2. CASE Read(x, IF Admitted(x) THEN "apply" ELSE "fail", exec[x].seen)
      <4>1. PICK c \in Calls :
              /\ exec' = [exec EXCEPT ![x] = c]
              /\ c.pc = (IF Admitted(x) THEN "apply" ELSE "fail")
              /\ c.req = exec[x].req /\ c.seen = exec[x].seen
        BY <2>0, <2>2, <2>4, <3>2 DEF AuthorizeActor, Authorize
      <4>2. Passed(x, c)
        BY <2>4, <4>1 DEF AuthorizeActor, Authorize, Passed
      <4> QED BY <4>1, <4>2
    <3> QED BY <2>4, <3>1, <3>2
            DEF AuthorizeActor, Authorize, Record, Return, Returned
  <2>5. CASE DenyActor(x)
    BY <2>1, <2>5 DEF DenyActor, Deny, RecordAlways, Return, Returned
  <2>6. CASE ApplySend(x)
    BY <2>1, <2>6 DEF ApplySend, Refuse, RoutedTo
  <2>7. CASE ApplyAck(x)
    BY <2>1, <2>7 DEF ApplyAck, Refuse
  <2>8. CASE ApplyReply(x)
    BY <2>1, <2>8 DEF ApplyReply, Refuse
  <2>9. CASE RecordEffect(x)
    BY <2>0, <2>1, <2>9 DEF RecordEffect, Record, Return, Returned
  <2>10. CASE RecordFailure(x)
    BY <2>1, <2>10 DEF RecordFailure, RecordAlways, Return, Returned
  <2>11. CASE Finish(x)
    BY <2>11 DEF Finish, Return, Returned
  <2> QED BY <1>3, <2>3, <2>4, <2>5, <2>6, <2>7, <2>8, <2>9, <2>10, <2>11
          DEF Step
<1>4. ASSUME NEW x \in Executors, Abandon(x)
      PROVE  Returned(x)
  BY <1>4 DEF Abandon, Return, Returned
<1> QED BY <1>1, <1>2, <1>3, <1>4 DEF Next
-----------------------------------------------------------------------------
(* Types.                                                                   *)

LEMMA WellTypedInit == Init => WellTyped
<1> SUFFICES ASSUME Init PROVE WellTyped
  OBVIOUS
<1>1. TypeOK
  <2>1. NoRow \in Rows
    BY VocabularyAssumption DEF NoRow, Rows
  <2>2. NoCall \in Calls
    BY UnreadAssumption, VocabularyAssumption, InboxVocabulary DEF NoCall, Call, Calls
  <2>3. NoNotice \in Notices
    BY DEF NoNotice, Notice, Notices, Routes, NoteStates
  <2> QED BY <2>1, <2>2, <2>3, TypeParts, AbandonedAssumption
          DEF Init, JournalInit
<1>2. CallsHaveRequests
  BY DEF Init, JournalInit, CallsHaveRequests, NoCall, Call
<1> QED BY <1>1, <1>2 DEF WellTyped

LEMMA WellTypedStep == WellTyped /\ [Next]_vars => WellTyped'
<1> SUFFICES ASSUME WellTyped, [Next]_vars PROVE WellTyped'
  OBVIOUS
<1> USE DEF WellTyped
<1>1. CASE UNCHANGED vars
  BY <1>1 DEF vars, journalVars, inboxVars, TypeOK, JournalTypeOK,
              CallsHaveRequests
<1>2. CASE Next
  <2>1. journal' \in [Operations -> Rows]
    <3>1. journal \in [Operations -> Rows]
      BY TypeParts
    <3>2. ASSUME NEW r \in Requests, Begun(r) PROVE journal' \in [Operations -> Rows]
      <4>1. <<"operation_started">> \in Seq(Kinds)
        BY VocabularyAssumption
      <4>2. Row("running", r, <<"operation_started">>, "none") \in Rows
        BY <4>1, RowTyped, VocabularyAssumption
      <4> QED BY <3>1, <3>2, <4>2 DEF Begun
    <3>3. ASSUME NEW x \in Executors, exec[x].pc # "idle"
          PROVE  Op(x) \in Operations
      BY <3>3, RequestAssumption DEF Op, CallsHaveRequests
    <3>4. ASSUME NEW o \in Operations, NEW kind \in Kinds, Extended(o, kind)
          PROVE  journal' \in [Operations -> Rows]
      <4>1. Row("running", journal[o].request, Append(journal[o].events, kind),
                journal[o].result) \in Rows
        <5>1. /\ journal[o].request \in Requests \cup {NoRequest}
              /\ Append(journal[o].events, kind) \in Seq(Kinds)
              /\ journal[o].result \in Results
          BY RowFields
        <5> QED BY <5>1 DEF Row, Rows
      <4> QED BY <3>1, <3>4, <4>1 DEF Extended
    <3>5. ASSUME NEW o \in Operations, NEW result \in Results,
                 FinishOperation(o, result)
          PROVE  journal' \in [Operations -> Rows]
      <4>1. "operation_finished" \in Kinds
        BY VocabularyAssumption
      <4>2. Row("terminal", journal[o].request,
                Append(journal[o].events, "operation_finished"), result) \in Rows
        <5>1. /\ journal[o].request \in Requests \cup {NoRequest}
              /\ Append(journal[o].events, "operation_finished") \in Seq(Kinds)
          BY <4>1, RowFields
        <5> QED BY <5>1 DEF Row, Rows
      <4> QED BY <3>1, <3>5, <4>2, RowFields DEF FinishOperation
    <3> QED BY <1>2, <3>1, <3>2, <3>3, <3>4, <3>5, JournalStep, CallFields
  <2>2. exec' \in [Executors -> Calls] /\ CallsHaveRequests'
    <3>1. exec \in [Executors -> Calls]
      BY TypeParts
    <3>2. ASSUME NEW x \in Executors, Returned(x)
          PROVE  exec' \in [Executors -> Calls] /\ CallsHaveRequests'
      <4>1. NoCall \in Calls /\ NoCall.pc = "idle"
        BY UnreadAssumption, VocabularyAssumption, InboxVocabulary DEF NoCall, Call, Calls
      <4> QED BY <3>1, <3>2, <4>1 DEF Returned, CallsHaveRequests
    <3>3. ASSUME NEW x \in Executors, NEW c \in Calls,
                 exec' = [exec EXCEPT ![x] = c], c.req \in Requests
          PROVE  exec' \in [Executors -> Calls] /\ CallsHaveRequests'
      BY <3>1, <3>3 DEF CallsHaveRequests
    <3>4. ASSUME NEW x \in Executors, NEW c \in Calls,
                 Claimed(x, c) \/ Looked(x, c) \/ Passed(x, c) \/ Concluded(x, c)
          PROVE  c.req \in Requests
      BY <3>4 DEF Claimed, Looked, Passed, Concluded, CallsHaveRequests
    <3> QED BY <1>2, <3>1, <3>2, <3>3, <3>4, CallStep DEF CallsHaveRequests
  <2>3. abandoned' \in Nat
    <3>1. abandoned \in Nat
      BY TypeParts
    <3>2. ASSUME NEW x \in Executors, Step(x)
          PROVE  UNCHANGED abandoned
      <4>1. CASE Load(x) \/ AuthorizeActor(x) \/ DenyActor(x)
        BY <4>1 DEF Load, AuthorizeActor, Authorize, DenyActor, Deny, RecordAlways
      <4>2. CASE ApplySend(x) \/ ApplyAck(x) \/ ApplyReply(x)
        BY <4>2 DEF ApplySend, ApplyAck, ApplyReply, Refuse
      <4>3. CASE RecordEffect(x) \/ RecordFailure(x) \/ Finish(x)
        BY <4>3 DEF RecordEffect, RecordFailure, RecordAlways, Finish
      <4> QED BY <3>2, <4>1, <4>2, <4>3 DEF Step
    <3>3. ASSUME NEW s \in Sessions, NEW state \in SessionStates,
                 OpenSession(s, state) \/ SaveSession(s, state)
          PROVE  UNCHANGED abandoned
      BY <3>3 DEF OpenSession, SaveSession, journalVars
    <3>4. ASSUME NEW x \in Executors, NEW r \in Requests, Claim(x, r)
          PROVE  UNCHANGED abandoned
      BY <3>4 DEF Claim, Begin
    <3>5. ASSUME NEW x \in Executors, Abandon(x)
          PROVE  abandoned' = abandoned + 1
      BY <3>5 DEF Abandon
    <3> QED BY <1>2, <3>1, <3>2, <3>3, <3>4, <3>5 DEF Next
  <2>4. /\ session' \in [Sessions -> SessionStates \cup {"absent"}]
        /\ notes' \in [Notifications -> Notices]
        /\ replies' \in [ReplyIds -> Requests \cup {NoRequest}]
        /\ queued' \subseteq ReplyIds
    <3>0. /\ session \in [Sessions -> SessionStates \cup {"absent"}]
          /\ notes \in [Notifications -> Notices]
          /\ replies \in [ReplyIds -> Requests \cup {NoRequest}]
          /\ queued \subseteq ReplyIds
      BY TypeParts
    <3>1. CASE UNCHANGED inboxVars
      BY <3>0, <3>1 DEF inboxVars
    <3>2. ASSUME NEW s \in Sessions, NEW state \in SessionStates,
                 Ended(s, state) \/ Opened(s, state)
          PROVE  <2>4!:
      <4>1. ASSUME NEW n \in Notifications
            PROVE  Notice(notes[n].origin, "manager_exception", notes[n].state,
                          notes[n].revision + 1, notes[n].acked,
                          notes[n].replied) \in Notices
        BY NoticeFields DEF Notice, Notices, Routes
      <4>2. Reroute(s) \in [Notifications -> Notices]
        BY <3>0, <4>1 DEF Reroute
      <4> QED BY <3>0, <3>2, <4>2 DEF Ended, Opened
    <3>3. ASSUME NEW r \in Requests, Created(r)
          PROVE  <2>4!:
      <4>1. Notice(r, IF session[r.session] \in Over
                      THEN "manager_exception" ELSE "session",
                   "pending", 1, NoRequest, NoRequest) \in Notices
        BY NoticeTyped DEF Routes, NoteStates
      <4> QED BY <3>0, <3>3, <4>1 DEF Created
    <3>4. ASSUME NEW r \in Requests, Acked(r)
          PROVE  <2>4!:
      <4>1. r.note \in Notifications
        BY InboxRequestAssumption
      <4>2. Notice(notes[r.note].origin, notes[r.note].route, "acknowledged",
                   notes[r.note].revision + 1, r, notes[r.note].replied)
              \in Notices
        BY <4>1, NoticeFields DEF Notice, Notices, NoteStates
      <4> QED BY <3>0, <3>4, <4>2 DEF Acked
    <3>5. ASSUME NEW r \in Requests, Answered(r)
          PROVE  <2>4!:
      <4>1. r.note \in Notifications /\ r.reply \in ReplyIds
        BY <3>5, InboxRequestAssumption DEF Answered
      <4>2. Notice(notes[r.note].origin, notes[r.note].route, "replied",
                   notes[r.note].revision + 1, notes[r.note].acked, r)
              \in Notices
        BY <4>1, NoticeFields DEF Notice, Notices, NoteStates
      <4> QED BY <3>0, <3>5, <4>1, <4>2 DEF Answered
    <3> QED BY <1>2, <3>1, <3>2, <3>3, <3>4, <3>5, InboxStep
  <2>5. TypeOK'
    BY <2>1, <2>2, <2>3, <2>4 DEF TypeOK, JournalTypeOK, Rows, Calls, Notices
  <2> QED BY <2>2, <2>5
<1> QED BY <1>1, <1>2

(* Every variable of the model stays within its type, so no step reads a    *)
(* row, a call or a notification that does not exist.                       *)
THEOREM TypeCorrect == Spec => []TypeOK
<1>1. WellTyped => TypeOK
  BY DEF WellTyped
<1> QED BY <1>1, WellTypedInit, WellTypedStep, PTL DEF Spec
-----------------------------------------------------------------------------
(* The tables.                                                              *)

(* What the rows of the tables are made of.                                 *)
TablesAgree ==
    /\ \A n \in Notifications :
          /\ notes[n].state = "absent" => notes[n] = NoNotice
          /\ Exists(n) => notes[n].origin \in Requests
                          /\ notes[n].origin.command = "send"
                         /\ session[notes[n].origin.session] # "absent"
          /\ notes[n].replied # NoRequest => notes[n].replied.command = "reply"
    /\ \A q \in ReplyIds :
          replies[q] # NoRequest => /\ replies[q].command = "reply"
                                    /\ replies[q].reply = q

SafeTables == WellTyped /\ TablesAgree /\ NothingLeftBehind /\ OneQueuedReply

LEMMA TablesInit == Init => TablesAgree /\ NothingLeftBehind /\ OneQueuedReply
BY DEF Init, TablesAgree, NothingLeftBehind, OneQueuedReply, NoNotice, Notice,
       Exists, Open

(* A notification whose origin is known has a Session.                      *)
LEMMA OriginSession ==
    ASSUME TablesAgree, NEW n \in Notifications, Exists(n)
    PROVE  notes[n].origin \in Requests /\ notes[n].origin.session \in Sessions
BY InboxRequestAssumption DEF TablesAgree

(* A queued reply is to a notification.                                     *)
LEMMA QueuedNote ==
    ASSUME TypeOK, OneQueuedReply, NEW q \in ReplyIds, q \in queued
    PROVE  replies[q] \in Requests /\ replies[q].note \in Notifications
BY InboxRequestAssumption, TypeParts DEF OneQueuedReply

LEMMA EndedKeeps ==
    ASSUME SafeTables, NEW s \in Sessions, NEW state \in SessionStates,
           Ended(s, state)
    PROVE  TablesAgree' /\ NothingLeftBehind' /\ OneQueuedReply'
<1> USE DEF SafeTables, WellTyped
<1>0. /\ session \in [Sessions -> SessionStates \cup {"absent"}]
      /\ notes \in [Notifications -> Notices]
      /\ session' = [session EXCEPT ![s] = state]
      /\ notes' = IF state \in Over THEN Reroute(s) ELSE notes
      /\ UNCHANGED <<replies, queued>>
  BY TypeParts DEF Ended
<1>1. ASSUME NEW n \in Notifications
      PROVE  \/ notes'[n] = notes[n] /\ (state \in Over =>
                   ~ (Open(n) /\ notes[n].route = "session"
                         /\ notes[n].origin.session = s))
             \/ /\ Open(n)
                /\ notes'[n] = Notice(notes[n].origin, "manager_exception",
                      notes[n].state, notes[n].revision + 1, notes[n].acked,
                      notes[n].replied)
  BY <1>0 DEF Reroute
<1>2. ASSUME NEW n \in Notifications
      PROVE  /\ notes'[n].state = notes[n].state
             /\ notes'[n].origin = notes[n].origin
             /\ notes'[n].replied = notes[n].replied
             /\ notes[n].state = "absent" => notes'[n] = notes[n]
             /\ notes'[n].route = notes[n].route
                   \/ notes'[n].route = "manager_exception"
  <2>1. CASE notes'[n] = notes[n]
    BY <2>1
  <2>2. CASE /\ Open(n)
             /\ notes'[n] = Notice(notes[n].origin, "manager_exception",
                   notes[n].state, notes[n].revision + 1, notes[n].acked,
                   notes[n].replied)
    BY <2>2 DEF Notice, Open
  <2> QED BY <1>1, <2>1, <2>2
<1>3. TablesAgree'
  <2>1. \A n \in Notifications : Exists(n) =>
            session'[notes[n].origin.session] # "absent"
    BY <1>0, OriginSession DEF TablesAgree, SessionStates
  <2> QED BY <1>0, <1>2, <2>1 DEF TablesAgree, Exists, NoNotice, Notice
<1>4. OneQueuedReply'
  BY <1>0, <1>2, QueuedNote DEF OneQueuedReply
<1>5. NothingLeftBehind'
  <2> SUFFICES ASSUME NEW n \in Notifications, Open(n)',
                      session'[notes'[n].origin.session] \in Over
               PROVE  notes'[n].route = "manager_exception"
    BY DEF NothingLeftBehind
  <2>1. Open(n) /\ notes'[n].origin = notes[n].origin
    BY <1>2 DEF Open
  <2>2. notes[n].origin.session \in Sessions
    BY <2>1, OriginSession DEF Exists, Open
  <2>3. CASE notes[n].origin.session # s
    <3>1. session[notes[n].origin.session] \in Over
      BY <1>0, <2>1, <2>2, <2>3
    <3>2. notes[n].route = "manager_exception"
      BY <2>1, <3>1 DEF NothingLeftBehind
    <3> QED BY <1>2, <3>2
  <2>4. CASE notes[n].origin.session = s
    <3>1. state \in Over
      BY <1>0, <2>1, <2>2, <2>4
    <3>2. notes[n].route \in {"session", "manager_exception"}
      BY NoticeFields DEF Routes
    <3>3. \/ ~ (notes[n].route = "session")
          \/ notes'[n] = Notice(notes[n].origin, "manager_exception",
                   notes[n].state, notes[n].revision + 1, notes[n].acked,
                   notes[n].replied)
      BY <1>1, <2>1, <2>4, <3>1
    <3>4. CASE notes[n].route # "session"
      BY <1>2, <3>2, <3>4
    <3>5. CASE notes'[n] = Notice(notes[n].origin, "manager_exception",
                   notes[n].state, notes[n].revision + 1, notes[n].acked,
                   notes[n].replied)
      BY <3>5 DEF Notice
    <3> QED BY <3>3, <3>4, <3>5
  <2> QED BY <2>3, <2>4
<1> QED BY <1>3, <1>4, <1>5

LEMMA OpenedKeeps ==
    ASSUME SafeTables, NEW s \in Sessions, NEW state \in SessionStates,
           Opened(s, state)
    PROVE  TablesAgree' /\ NothingLeftBehind' /\ OneQueuedReply'
<1> USE DEF SafeTables, WellTyped
<1>0. /\ session \in [Sessions -> SessionStates \cup {"absent"}]
      /\ session[s] = "absent"
      /\ session' = [session EXCEPT ![s] = state]
      /\ UNCHANGED <<notes, replies, queued>>
  BY TypeParts DEF Opened
<1>1. ASSUME NEW n \in Notifications, Exists(n)
      PROVE  session'[notes[n].origin.session] = session[notes[n].origin.session]
  BY <1>0, <1>1, OriginSession DEF TablesAgree
<1> QED BY <1>0, <1>1
        DEF TablesAgree, NothingLeftBehind, OneQueuedReply, Exists, Open

LEMMA CreatedKeeps ==
    ASSUME SafeTables, NEW r \in Requests, Created(r)
    PROVE  TablesAgree' /\ NothingLeftBehind' /\ OneQueuedReply'
<1> USE DEF SafeTables, WellTyped
<1>0. /\ notes \in [Notifications -> Notices]
      /\ r.note \in Notifications
      /\ r.command = "send" /\ r.session \in Sessions
      /\ notes[r.note].state = "absent"
      /\ session[r.session] # "absent"
      /\ UNCHANGED <<session, replies, queued>>
  BY TypeParts, InboxRequestAssumption DEF Created, Exists
<1>1. /\ notes'[r.note] = Notice(r, IF session[r.session] \in Over
                                    THEN "manager_exception" ELSE "session",
                                 "pending", 1, NoRequest, NoRequest)
      /\ \A n \in Notifications \ {r.note} : notes'[n] = notes[n]
  BY <1>0 DEF Created
<1>2. /\ notes'[r.note].origin = r
      /\ notes'[r.note].state = "pending"
      /\ notes'[r.note].replied = NoRequest
      /\ session[r.session] \in Over => notes'[r.note].route = "manager_exception"
  BY <1>1 DEF Notice
<1>3. TablesAgree'
  BY <1>0, <1>1, <1>2 DEF TablesAgree, Exists, NoNotice, Notice
<1>4. NothingLeftBehind'
  BY <1>0, <1>1, <1>2 DEF NothingLeftBehind, Open
<1>5. OneQueuedReply'
  <2>1. notes[r.note].replied = NoRequest
    BY <1>0 DEF TablesAgree, NoNotice, Notice
  <2>2. \A q \in ReplyIds : q \in queued => replies[q].note # r.note
    BY <2>1, QueuedNote, NoRequestAssumption DEF OneQueuedReply
  <2> QED BY <1>0, <1>1, <1>2, <2>2, QueuedNote DEF OneQueuedReply
<1> QED BY <1>3, <1>4, <1>5

LEMMA AckedKeeps ==
    ASSUME SafeTables, NEW r \in Requests, Acked(r)
    PROVE  TablesAgree' /\ NothingLeftBehind' /\ OneQueuedReply'
<1> USE DEF SafeTables, WellTyped
<1>0. /\ notes \in [Notifications -> Notices]
      /\ r.note \in Notifications
      /\ notes[r.note].state = "pending"
      /\ UNCHANGED <<session, replies, queued>>
  BY TypeParts, InboxRequestAssumption DEF Acked
<1>1. /\ notes'[r.note] = Notice(notes[r.note].origin, notes[r.note].route,
             "acknowledged", notes[r.note].revision + 1, r,
             notes[r.note].replied)
      /\ \A n \in Notifications \ {r.note} : notes'[n] = notes[n]
  BY <1>0 DEF Acked
<1>2. /\ notes'[r.note].origin = notes[r.note].origin
      /\ notes'[r.note].state = "acknowledged"
      /\ notes'[r.note].route = notes[r.note].route
      /\ notes'[r.note].replied = notes[r.note].replied
  BY <1>1 DEF Notice
<1>3. TablesAgree'
  BY <1>0, <1>1, <1>2 DEF TablesAgree, Exists
<1>4. NothingLeftBehind'
  BY <1>0, <1>1, <1>2 DEF NothingLeftBehind, Open
<1>5. OneQueuedReply'
  <2>1. notes[r.note].replied = NoRequest
    BY <1>0 DEF OneQueuedReply
  <2> QED BY <1>0, <1>1, <1>2, <2>1, QueuedNote DEF OneQueuedReply
<1> QED BY <1>3, <1>4, <1>5

LEMMA AnsweredKeeps ==
    ASSUME SafeTables, NEW r \in Requests, Exists(r.note), Answered(r)
    PROVE  TablesAgree' /\ NothingLeftBehind' /\ OneQueuedReply'
<1> USE DEF SafeTables, WellTyped
<1>0. /\ notes \in [Notifications -> Notices]
      /\ replies \in [ReplyIds -> Requests \cup {NoRequest}]
      /\ r.note \in Notifications /\ r.reply \in ReplyIds
      /\ r.command = "reply" /\ r # NoRequest
      /\ replies[r.reply] = NoRequest
      /\ notes[r.note].state # "replied"
      /\ replies' = [replies EXCEPT ![r.reply] = r]
      /\ queued' = queued \cup {r.reply}
      /\ UNCHANGED session
  BY TypeParts, InboxRequestAssumption, NoRequestAssumption DEF Answered, Known
<1>1. /\ notes'[r.note] = Notice(notes[r.note].origin, notes[r.note].route,
             "replied", notes[r.note].revision + 1, notes[r.note].acked, r)
      /\ \A n \in Notifications \ {r.note} : notes'[n] = notes[n]
  BY <1>0 DEF Answered
<1>2. /\ notes'[r.note].origin = notes[r.note].origin
      /\ notes'[r.note].state = "replied"
      /\ notes'[r.note].replied = r
  BY <1>1 DEF Notice
<1>3. /\ replies'[r.reply] = r
      /\ \A q \in ReplyIds \ {r.reply} : replies'[q] = replies[q]
  BY <1>0
<1>4. TablesAgree'
  BY <1>0, <1>1, <1>2, <1>3 DEF TablesAgree, Exists
<1>5. NothingLeftBehind'
  BY <1>0, <1>1, <1>2 DEF NothingLeftBehind, Open
<1>6. OneQueuedReply'
  <2>1. ASSUME NEW n \in Notifications
        PROVE  /\ notes'[n].state = "replied" <=> notes'[n].replied # NoRequest
               /\ notes'[n].replied # NoRequest =>
                     replies'[notes'[n].replied.reply] = notes'[n].replied
    <3>1. CASE n = r.note
      BY <1>0, <1>2, <1>3, <3>1
    <3>2. CASE n # r.note
      <4>1. notes[n].replied # NoRequest =>
                /\ notes[n].replied.reply \in ReplyIds
                /\ notes[n].replied.reply # r.reply
        BY <1>0, NoticeFields, InboxRequestAssumption
           DEF OneQueuedReply, TablesAgree
      <4> QED BY <1>1, <1>3, <3>2, <4>1 DEF OneQueuedReply
    <3> QED BY <3>1, <3>2
  <2>2. ASSUME NEW q \in ReplyIds
        PROVE  /\ q \in queued' <=> replies'[q] # NoRequest
               /\ q \in queued' => notes'[replies'[q].note].replied = replies'[q]
    <3>1. CASE q = r.reply
      BY <1>0, <1>2, <1>3, <3>1
    <3>2. CASE q # r.reply
      <4>1. q \in queued => /\ replies[q].note \in Notifications
                            /\ replies[q].note # r.note
        BY <1>0, QueuedNote, NoRequestAssumption DEF OneQueuedReply
      <4> QED BY <1>0, <1>1, <1>3, <3>2, <4>1 DEF OneQueuedReply
    <3> QED BY <3>1, <3>2
  <2> QED BY <2>1, <2>2 DEF OneQueuedReply
<1> QED BY <1>4, <1>5, <1>6
-----------------------------------------------------------------------------
(* The calls.                                                               *)

(* A call that acts on a notification quotes a revision that the            *)
(* notification has reached; if it has read the Session route, then either  *)
(* the route still stands or that revision has been passed.                 *)
CallIsCurrent(x) ==
    LET r == exec[x].req
        acts == exec[x].pc # "idle" /\ r.command # "send"
    IN  /\ exec[x].pc = "load" => r.command # "send"
        /\ acts => Exists(r.note) /\ r.expected <= notes[r.note].revision
        /\ acts /\ exec[x].pc \in {"authorize", "apply"}
                /\ exec[x].seen.route = "session"
              => \/ notes[r.note].route = "session"
                 \/ r.expected < notes[r.note].revision
        /\ acts /\ exec[x].pc = "apply"
              => /\ Permitted(r)
                 /\ exec[x].seen.route = "session" \/ r.role = "manager"

CallsAreCurrent == \A x \in Executors : CallIsCurrent(x)

SafeInbox == SafeTables /\ CallsAreCurrent

(* How a notification can change.                                           *)
Moved(n) ==
    /\ notes'[n].revision = notes[n].revision + 1
    /\ notes[n].state # "replied"
    /\ notes'[n].state # "absent"
    /\ Exists(n) => notes'[n].origin = notes[n].origin
    /\ notes[n].route = "manager_exception" =>
          notes'[n].route = "manager_exception"

LEMMA NoteMoves ==
    ASSUME SafeInbox, Next, NEW n \in Notifications
    PROVE  notes'[n] = notes[n] \/ Moved(n)
<1> USE DEF SafeInbox, SafeTables
<1>0. /\ notes \in [Notifications -> Notices]
      /\ notes[n].route \in Routes
  BY TypeParts, NoticeFields DEF WellTyped
<1>1. CASE UNCHANGED inboxVars
  BY <1>1 DEF inboxVars
<1>2. ASSUME NEW s \in Sessions, NEW state \in SessionStates,
             Ended(s, state) \/ Opened(s, state)
      PROVE  notes'[n] = notes[n] \/ Moved(n)
  <2>1. \/ notes'[n] = notes[n]
        \/ /\ Open(n)
           /\ notes'[n] = Notice(notes[n].origin, "manager_exception",
                 notes[n].state, notes[n].revision + 1, notes[n].acked,
                 notes[n].replied)
    BY <1>0, <1>2 DEF Ended, Opened, Reroute
  <2> QED BY <2>1 DEF Moved, Notice, Open
<1>3. ASSUME NEW r \in Requests, Created(r)
      PROVE  notes'[n] = notes[n] \/ Moved(n)
  <2>1. CASE n # r.note
    BY <1>0, <1>3, <2>1 DEF Created
  <2>2. CASE n = r.note
    <3>1. /\ notes[n].state = "absent" /\ notes[n].revision = 0
          /\ notes[n].route = "session"
      BY <1>3, <2>2 DEF Created, Exists, TablesAgree, NoNotice, Notice
    <3>2. notes'[n].revision = 1 /\ notes'[n].state = "pending"
      BY <1>0, <1>3, <2>2 DEF Created, Notice
    <3> QED BY <3>1, <3>2 DEF Moved, Exists
  <2> QED BY <2>1, <2>2
<1>4. ASSUME NEW r \in Requests, Acked(r) \/ Answered(r)
      PROVE  notes'[n] = notes[n] \/ Moved(n)
  <2>1. CASE n # r.note
    BY <1>0, <1>4, <2>1 DEF Acked, Answered
  <2>2. CASE n = r.note
    BY <1>0, <1>4, <2>2 DEF Acked, Answered, Moved, Notice
  <2> QED BY <2>1, <2>2
<1> QED BY <1>1, <1>2, <1>3, <1>4, InboxStep

LEMMA CallsStep ==
    ASSUME SafeInbox, Next
    PROVE  CallsAreCurrent'
<1> USE DEF SafeInbox, SafeTables
<1> SUFFICES ASSUME NEW x \in Executors PROVE CallIsCurrent(x)'
  BY DEF CallsAreCurrent
<1>0. exec \in [Executors -> Calls]
  BY TypeParts DEF WellTyped
<1>1. ASSUME NEW r \in Requests, r.command # "send", Exists(r.note),
             r.expected <= notes[r.note].revision
      PROVE  /\ Exists(r.note)' /\ r.expected <= notes'[r.note].revision
             /\ notes'[r.note].origin = notes[r.note].origin
             /\ \/ notes'[r.note] = notes[r.note]
                \/ r.expected < notes'[r.note].revision
  <2>1. /\ r.note \in Notifications /\ r.expected \in Nat
        /\ notes[r.note].revision \in Nat
    BY <1>1, NoticeFields, InboxRequestAssumption DEF WellTyped
  <2> QED BY <1>1, <2>1, NoteMoves DEF Moved, Exists
<1>2. CASE exec'[x] = exec[x]
  <2>1. exec[x].pc # "idle" => exec[x].req \in Requests
    BY DEF WellTyped, CallsHaveRequests
  <2>2. CallIsCurrent(x)
    BY DEF CallsAreCurrent
  <2>3. CASE exec[x].pc = "idle" \/ exec[x].req.command = "send"
    BY <1>2, <2>2, <2>3 DEF CallIsCurrent
  <2>4. CASE exec[x].pc # "idle" /\ exec[x].req.command # "send"
    BY <1>1, <1>2, <2>1, <2>2, <2>4, NoticeFields, InboxRequestAssumption
       DEF CallIsCurrent, Permitted, WellTyped
  <2> QED BY <2>3, <2>4
<1>3. CASE Returned(x)
  BY <1>0, <1>3 DEF Returned, NoCall, Call, CallIsCurrent
<1>4. ASSUME NEW c \in Calls, exec' = [exec EXCEPT ![x] = c],
             Claimed(x, c)
      PROVE  CallIsCurrent(x)'
  BY <1>0, <1>4 DEF Claimed, Quotable, CallIsCurrent, inboxVars, Exists
<1>5. ASSUME NEW c \in Calls, exec' = [exec EXCEPT ![x] = c],
             Looked(x, c)
      PROVE  CallIsCurrent(x)'
  <2>1. CallIsCurrent(x) /\ exec'[x] = c
    BY <1>0, <1>5 DEF CallsAreCurrent
  <2> QED BY <1>5, <2>1 DEF Looked, CallIsCurrent, inboxVars, Exists
<1>6. ASSUME NEW c \in Calls, exec' = [exec EXCEPT ![x] = c],
             Passed(x, c)
      PROVE  CallIsCurrent(x)'
  <2>1. CallIsCurrent(x) /\ exec'[x] = c
    BY <1>0, <1>6 DEF CallsAreCurrent
  <2> QED BY <1>6, <2>1
          DEF Passed, CallIsCurrent, Admitted, Permitted, inboxVars, Exists
<1>7. ASSUME NEW c \in Calls, exec' = [exec EXCEPT ![x] = c],
             Concluded(x, c)
      PROVE  CallIsCurrent(x)'
  <2>1. CallIsCurrent(x) /\ exec'[x] = c
    BY <1>0, <1>7 DEF CallsAreCurrent
  <2>2. exec[x].req \in Requests
    BY <1>7 DEF Concluded, WellTyped, CallsHaveRequests
  <2> QED BY <1>1, <1>7, <2>1, <2>2 DEF Concluded, CallIsCurrent
<1>8. ASSUME NEW y \in Executors, y # x, NEW c, exec' = [exec EXCEPT ![y] = c]
      PROVE  exec'[x] = exec[x]
  BY <1>0, <1>8
<1> QED BY <1>2, <1>3, <1>4, <1>5, <1>6, <1>7, <1>8, CallStep DEF Returned
-----------------------------------------------------------------------------
LEMMA SafeInit == Init => SafeInbox
<1> SUFFICES ASSUME Init PROVE SafeInbox
  OBVIOUS
<1>1. CallsAreCurrent
  BY DEF Init, JournalInit, NoCall, Call, CallsAreCurrent, CallIsCurrent
<1> QED BY <1>1, WellTypedInit, TablesInit DEF SafeInbox, SafeTables

LEMMA SafeStep == SafeInbox /\ [Next]_vars => SafeInbox'
<1> SUFFICES ASSUME SafeInbox, [Next]_vars PROVE SafeInbox'
  OBVIOUS
<1>0. SafeTables /\ WellTyped'
  BY WellTypedStep DEF SafeInbox, SafeTables
<1>1. CASE UNCHANGED vars
  <2>1. TablesAgree' /\ NothingLeftBehind' /\ OneQueuedReply'
    BY <1>0, <1>1 DEF vars, inboxVars, SafeTables, TablesAgree,
                      NothingLeftBehind, OneQueuedReply, Exists, Open
  <2>2. CallsAreCurrent'
    BY <1>1 DEF SafeInbox, vars, journalVars, inboxVars, CallsAreCurrent,
                CallIsCurrent, Permitted, Exists
  <2> QED BY <1>0, <2>1, <2>2 DEF SafeInbox, SafeTables
<1>2. CASE Next
  <2>1. TablesAgree' /\ NothingLeftBehind' /\ OneQueuedReply'
    <3>1. CASE UNCHANGED inboxVars
      BY <1>0, <3>1 DEF inboxVars, SafeTables, TablesAgree,
                        NothingLeftBehind, OneQueuedReply, Exists, Open
    <3>2. ASSUME NEW s \in Sessions, NEW state \in SessionStates,
                 Ended(s, state) \/ Opened(s, state)
          PROVE  TablesAgree' /\ NothingLeftBehind' /\ OneQueuedReply'
      BY <1>0, <3>2, EndedKeeps, OpenedKeeps
    <3>3. ASSUME NEW x \in Executors, exec[x].pc = "apply",
                 exec[x].req \in Requests,
                 \/ Created(exec[x].req)
                 \/ Acked(exec[x].req)
                 \/ Answered(exec[x].req)
          PROVE  TablesAgree' /\ NothingLeftBehind' /\ OneQueuedReply'
      <4>1. CASE Created(exec[x].req)
        BY <1>0, <3>3, <4>1, CreatedKeeps
      <4>2. CASE Acked(exec[x].req)
        BY <1>0, <3>3, <4>2, AckedKeeps
      <4>3. CASE Answered(exec[x].req)
        <5>1. Exists(exec[x].req.note)
          BY <3>3, <4>3 DEF SafeInbox, CallsAreCurrent, CallIsCurrent, Answered
        <5> QED BY <1>0, <3>3, <4>3, <5>1, AnsweredKeeps
      <4> QED BY <3>3, <4>1, <4>2, <4>3
    <3> QED BY <1>0, <1>2, <3>1, <3>2, <3>3, InboxStep DEF SafeTables
  <2> QED BY <1>0, <1>2, <2>1, CallsStep DEF SafeInbox, SafeTables
<1> QED BY <1>1, <1>2

(* No open notification waits on the route of a Session that is over,       *)
(* whatever calls and Session updates interleave.                           *)
THEOREM LeftBehindCorrect == Spec => []NothingLeftBehind
<1>1. SafeInbox => NothingLeftBehind
  BY DEF SafeInbox, SafeTables
<1> QED BY <1>1, SafeInit, SafeStep, PTL DEF Spec

(* A replied notification, its reply and its outbox row are there together, *)
(* one of each.                                                             *)
THEOREM OneReplyCorrect == Spec => []OneQueuedReply
<1>1. SafeInbox => OneQueuedReply
  BY DEF SafeInbox, SafeTables
<1> QED BY <1>1, SafeInit, SafeStep, PTL DEF Spec

(* A notification only moves forward.                                       *)
THEOREM ForwardCorrect == Spec => NoticesMoveForward
<1>1. SafeInbox /\ [Next]_vars =>
        [\A n \in Notifications :
          notes'[n] # notes[n] =>
              /\ notes'[n].revision = notes[n].revision + 1
              /\ notes[n].state # "replied"
              /\ notes[n].route = "manager_exception" =>
                    notes'[n].route = "manager_exception"]_vars
  BY NoteMoves DEF Moved
<1> QED BY <1>1, SafeInit, SafeStep, PTL DEF Spec, NoticesMoveForward

(* What an Agent's acknowledgement or reply meets when it is stored.        *)
LEMMA AgentActs ==
    ASSUME SafeInbox, NEW x \in Executors, exec[x].pc = "apply",
           exec[x].req \in Requests, exec[x].req.role = "agent",
           Acked(exec[x].req) \/ Answered(exec[x].req)
    PROVE  LET r == exec[x].req
           IN  /\ notes[r.note].route = "session"
               /\ r.bound = notes[r.note].origin.session
               /\ session[r.bound] \notin Over
<1> DEFINE r == exec[x].req
<1>1. /\ r.command # "send" /\ r.note \in Notifications
      /\ notes[r.note].revision = r.expected /\ r.expected \in Nat
      /\ notes[r.note].state # "replied"
  BY InboxRequestAssumption DEF Acked, Answered
<1>2. /\ Exists(r.note) /\ Permitted(r) /\ exec[x].seen.route = "session"
      /\ \/ notes[r.note].route = "session"
         \/ r.expected < notes[r.note].revision
  BY <1>1 DEF SafeInbox, CallsAreCurrent, CallIsCurrent
<1>3. notes[r.note].route = "session"
  BY <1>1, <1>2
<1>4. r.bound = notes[r.note].origin.session
  BY <1>1, <1>2 DEF Permitted
<1>5. Open(r.note)
  BY <1>1, <1>2, NoticeFields
     DEF Open, Exists, NoteStates, SafeInbox, SafeTables, WellTyped
<1>6. session[notes[r.note].origin.session] \notin Over
  BY <1>1, <1>3, <1>5 DEF NothingLeftBehind, SafeInbox, SafeTables
<1> QED BY <1>3, <1>4, <1>6

LEMMA AgentStep ==
    ASSUME SafeInbox, Next, NEW n \in Notifications, NEW r \in Requests,
           ActsOn(n, r), r.role = "agent"
    PROVE  /\ notes[n].route = "session"
           /\ r.bound = notes[n].origin.session
           /\ session[r.bound] \notin Over
<1> USE DEF SafeInbox, SafeTables
<1>0. notes \in [Notifications -> Notices] /\ r # NoRequest
  BY TypeParts, NoRequestAssumption DEF WellTyped
<1>1. CASE UNCHANGED inboxVars
  BY <1>1 DEF inboxVars, ActsOn
<1>2. ASSUME NEW s \in Sessions, NEW state \in SessionStates,
             Ended(s, state) \/ Opened(s, state)
      PROVE  FALSE
  <2>1. \/ notes'[n] = notes[n]
        \/ notes'[n] = Notice(notes[n].origin, "manager_exception",
                 notes[n].state, notes[n].revision + 1, notes[n].acked,
                 notes[n].replied)
    BY <1>0, <1>2 DEF Ended, Opened, Reroute
  <2>2. notes'[n].acked = notes[n].acked /\ notes'[n].replied = notes[n].replied
    BY <2>1 DEF Notice
  <2> QED BY <2>2 DEF ActsOn
<1>3. ASSUME NEW x \in Executors, exec[x].req \in Requests,
             Created(exec[x].req)
      PROVE  FALSE
  <2>1. CASE n # exec[x].req.note
    <3>1. notes'[n] = notes[n]
      BY <1>0, <1>3, <2>1 DEF Created
    <3> QED BY <3>1 DEF ActsOn
  <2>2. CASE n = exec[x].req.note
    <3>1. notes'[n].acked = NoRequest /\ notes'[n].replied = NoRequest
      BY <1>0, <1>3, <2>2 DEF Created, Notice
    <3> QED BY <1>0, <3>1 DEF ActsOn
  <2> QED BY <2>1, <2>2
<1>4. ASSUME NEW x \in Executors, exec[x].pc = "apply",
             exec[x].req \in Requests,
             Acked(exec[x].req) \/ Answered(exec[x].req)
      PROVE  r = exec[x].req /\ n = r.note
  <2>1. n = exec[x].req.note
    <3>1. CASE n # exec[x].req.note
      <4>1. notes'[n] = notes[n]
        BY <1>0, <1>4, <3>1 DEF Acked, Answered
      <4> QED BY <4>1 DEF ActsOn
    <3> QED BY <3>1
  <2>2. CASE Acked(exec[x].req)
    <3>1. /\ notes'[n].acked = exec[x].req
          /\ notes'[n].replied = notes[n].replied
      BY <1>0, <2>1, <2>2 DEF Acked, Notice
    <3> QED BY <2>1, <3>1 DEF ActsOn
  <2>3. CASE Answered(exec[x].req)
    <3>1. /\ notes'[n].replied = exec[x].req
          /\ notes'[n].acked = notes[n].acked
      BY <1>0, <2>1, <2>3 DEF Answered, Notice
    <3> QED BY <2>1, <3>1 DEF ActsOn
  <2> QED BY <1>4, <2>2, <2>3
<1> QED BY <1>1, <1>2, <1>3, <1>4, AgentActs, InboxStep

(* An Agent acts only on its own live Session's notifications, although the *)
(* route is read in an earlier transaction than the one that stores its act.*)
THEOREM AgentsCorrect == Spec => AgentsKeepToTheirRoute
<1>1. SafeInbox /\ [Next]_vars =>
        [\A n \in Notifications : \A r \in Requests :
          ActsOn(n, r) /\ r.role = "agent" =>
              /\ notes[n].route = "session"
              /\ r.bound = notes[n].origin.session
              /\ session[r.bound] \notin Over]_vars
  BY AgentStep
<1> QED BY <1>1, SafeInit, SafeStep, PTL DEF Spec, AgentsKeepToTheirRoute

(* The row of a terminal operation never changes again, whichever executors *)
(* are still in its method.                                                 *)
THEOREM AbsorbingCorrect == Spec => TerminalIsAbsorbing
<1>1. ASSUME SafeInbox, Next, NEW o \in Operations,
             journal[o].state = "terminal"
      PROVE  journal'[o] = journal[o]
  <2>0. journal \in [Operations -> Rows] /\ WellTyped
    BY <1>1, TypeParts DEF SafeInbox, SafeTables, WellTyped
  <2>1. ASSUME NEW r \in Requests, Begun(r)
        PROVE  journal'[o] = journal[o]
    BY <1>1, <2>0, <2>1 DEF Begun
  <2>2. ASSUME NEW p, NEW kind \in Kinds, Extended(p, kind)
        PROVE  journal'[o] = journal[o]
    BY <1>1, <2>0, <2>2 DEF Extended, Running
  <2>3. ASSUME NEW p, NEW v, FinishOperation(p, v)
        PROVE  journal'[o] = journal[o]
    BY <1>1, <2>0, <2>3 DEF FinishOperation
  <2> QED BY <1>1, <2>0, <2>1, <2>2, <2>3, JournalStep
<1>2. SafeInbox /\ [Next]_vars =>
        [\A o \in Operations :
          journal[o].state = "terminal" => journal'[o] = journal[o]]_journal
  BY <1>1 DEF vars, journalVars
<1> QED BY <1>2, SafeInit, SafeStep, PTL DEF Spec, TerminalIsAbsorbing
=============================================================================
