--------------------------- MODULE OperationJournal ---------------------------
(***************************************************************************)
(* The operation journal of the runtime store (begin_operation,            *)
(* append_operation_event, finish_operation) and the protocol with which   *)
(* every journaled method of ApplicationService uses it: _claim,           *)
(* _authorize, the effect, one event for the effect, _finish, and          *)
(* _record_operation_error when the method raises.                          *)
(*                                                                         *)
(* An executor is a process running one service method.  Nothing keeps two  *)
(* executors from running the same operation at once: a client that retries *)
(* does not know whether its first call is still alive.  Every store call   *)
(* is one BEGIN IMMEDIATE transaction and one step here.                    *)
(***************************************************************************)
EXTENDS Integers, Sequences, FiniteSets

CONSTANTS
    Requests,      \* records with at least the fields op, key and command
    Operations,    \* operation_id values
    Executors,
    NoRequest,
    Snapshots,     \* what a method reads before it writes
    Unread,
    Phases,        \* where a method can stand,
    Kinds,         \* the kinds of its journal events
    Results,       \* and the terminal results
    MaxAbandoned   \* executors that die or give up on a busy store

ASSUME RequestAssumption == \A r \in Requests : r.op \in Operations
ASSUME NoRequestAssumption == NoRequest \notin Requests
ASSUME UnreadAssumption == Unread \in Snapshots
ASSUME VocabularyAssumption ==
    /\ {"idle", "authorize", "effect", "finish", "fail"} \subseteq Phases
    /\ {"operation_started", "actor_authorized", "authorization_denied",
        "effect_persisted", "operation_failed", "operation_finished"}
          \subseteq Kinds
    /\ {"none", "denied", "failed"} \subseteq Results
ASSUME AbandonedAssumption == MaxAbandoned \in Nat

VARIABLES
    journal,       \* the operations and operation_events rows
    exec,          \* the method call each executor is in
    abandoned

journalVars == <<journal, exec, abandoned>>

NoRow == [state |-> "absent", request |-> NoRequest, events |-> <<>>,
          result |-> "none"]
Row(state, r, events, result) ==
    [state |-> state, request |-> r, events |-> events, result |-> result]
Call(pc, r, knows, seen, verdict) ==
    [pc |-> pc, req |-> r, knows |-> knows, seen |-> seen, verdict |-> verdict]
NoCall == Call("idle", NoRequest, {}, Unread, "none")

JournalTypeOK ==
    /\ journal \in [Operations ->
          [state: {"absent", "running", "terminal"},
           request: Requests \cup {NoRequest},
           events: Seq(Kinds), result: Results]]
    /\ exec \in [Executors ->
          [pc: Phases, req: Requests \cup {NoRequest}, knows: SUBSET Kinds,
           seen: Snapshots, verdict: Results]]
    /\ abandoned \in Nat

JournalInit ==
    /\ journal = [o \in Operations |-> NoRow]
    /\ exec = [x \in Executors |-> NoCall]
    /\ abandoned = 0

Running(o) == journal[o].state = "running"
Op(x) == exec[x].req.op

-----------------------------------------------------------------------------
(* The store's three operations.                                            *)

(* The row bound to (project, command, idempotency_key).                    *)
Bound(r) == {o \in Operations : /\ journal[o].state # "absent"
                                /\ journal[o].request.command = r.command
                                /\ journal[o].request.key = r.key}

BeginNew(r) ==
    /\ Bound(r) = {}
    /\ journal[r.op].state = "absent"
    /\ journal' = [journal EXCEPT
          ![r.op] = Row("running", r, <<"operation_started">>, "none")]

(* The digest covers the whole request and its actor, so only the request   *)
(* itself continues an operation; another one with the key is an            *)
(* idempotency_conflict, another one with the id an operation_id_conflict.  *)
BeginAgain(r) ==
    /\ journal[r.op].request = r
    /\ Running(r.op)
    /\ UNCHANGED journal

AppendEvent(o, kind) ==
    /\ Running(o)
    /\ journal' = [journal EXCEPT
          ![o] = Row("running", journal[o].request,
                     Append(journal[o].events, kind), journal[o].result)]

(* A terminal operation keeps its result: the same result is returned, a    *)
(* different one raises operation_terminal.                                 *)
FinishOperation(o, result) ==
    journal' = [journal EXCEPT
        ![o] = IF @.state = "terminal" THEN @
               ELSE Row("terminal", @.request,
                        Append(@.events, "operation_finished"), result)]

-----------------------------------------------------------------------------
(* The method protocol.                                                     *)

Goto(x, pc, verdict) ==
    exec' = [exec EXCEPT
        ![x] = Call(pc, exec[x].req, exec[x].knows, Unread, verdict)]
Read(x, pc, snapshot) ==
    exec' = [exec EXCEPT
        ![x] = Call(pc, exec[x].req, exec[x].knows, snapshot, "none")]
Return(x) == exec' = [exec EXCEPT ![x] = NoCall]

(* _claim: a terminal operation is replayed from its row and a conflict is  *)
(* raised without being recorded; neither changes anything.  The events the *)
(* executor knows of are those it read here.                                *)
Begin(x, r, first) ==
    /\ exec[x].pc = "idle"
    /\ BeginNew(r) \/ BeginAgain(r)
    /\ LET events == journal'[r.op].events
       IN  exec' = [exec EXCEPT
              ![x] = Call(first, r, {events[i] : i \in DOMAIN events},
                          Unread, "none")]
    /\ UNCHANGED abandoned

(* Append an event unless the executor knows it is there.  If the operation *)
(* has become terminal under it, operation_terminal ends the call.          *)
Record(x, kind, Continue) ==
    \/ kind \in exec[x].knows /\ UNCHANGED journal /\ Continue
    \/ kind \notin exec[x].knows /\ AppendEvent(Op(x), kind) /\ Continue
    \/ /\ kind \notin exec[x].knows
       /\ ~ Running(Op(x))
       /\ UNCHANGED journal
       /\ Return(x)

(* _authorize of a permitted actor.                                         *)
Authorize(x, permitted, next) ==
    /\ exec[x].pc = "authorize"
    /\ permitted
    /\ Record(x, "actor_authorized", Read(x, next, exec[x].seen))
    /\ UNCHANGED abandoned

RecordEffect(x) ==
    /\ exec[x].pc = "effect"
    /\ Record(x, "effect_persisted", Goto(x, "finish", exec[x].verdict))
    /\ UNCHANGED abandoned

(* Append an event whether or not there is one, and go on to the result,     *)
(* which is a transaction of its own.                                       *)
RecordAlways(x, kind, result) ==
    /\ IF Running(Op(x))
       THEN AppendEvent(Op(x), kind) /\ Goto(x, "finish", result)
       ELSE UNCHANGED journal /\ Return(x)
    /\ UNCHANGED abandoned

(* _authorize of an actor that is not permitted.                            *)
Deny(x, permitted) ==
    /\ exec[x].pc = "authorize"
    /\ ~ permitted
    /\ RecordAlways(x, "authorization_denied", "denied")

(* _record_operation_error, for an error that the method has raised.        *)
RecordFailure(x) ==
    /\ exec[x].pc = "fail"
    /\ RecordAlways(x, "operation_failed", "failed")

Finish(x) ==
    /\ exec[x].pc = "finish"
    /\ FinishOperation(Op(x), exec[x].verdict)
    /\ Return(x)
    /\ UNCHANGED abandoned

(* The process dies, or the store is busy, which is not recorded.           *)
Abandon(x) ==
    /\ exec[x].pc # "idle"
    /\ abandoned < MaxAbandoned
    /\ abandoned' = abandoned + 1
    /\ Return(x)
    /\ UNCHANGED journal

-----------------------------------------------------------------------------

(* Terminal operation results are absorbing: no retry, no second executor   *)
(* and no failure that is recorded late changes the row or its events.      *)
TerminalIsAbsorbing ==
    [][\A o \in Operations :
          journal[o].state = "terminal" => journal'[o] = journal[o]]_journal

=============================================================================
