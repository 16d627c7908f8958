---------------------------- MODULE LinearIngress ----------------------------
(***************************************************************************)
(* The trusted Linear ingress: an authenticated comment becomes one         *)
(* notification of a Session, named by the comment or bound to its thread   *)
(* by what was delivered there.  Events are delivered again and out of      *)
(* order, comments are edited, and threads get further receipts meanwhile.  *)
(***************************************************************************)
EXTENDS Integers, Sequences, FiniteSets

CONSTANTS
    Comments,    \* events: a comment with its directive, as it was observed
    Threads,
    OfTask,      \* the Sessions that are bound to the Task of the issue
    Ingresses,   \* processes of the ingress
    NoComment,
    NoMarker,    \* the source marker of an explicit directive
    NoReceipt,
    MaxEvents    \* deliveries of events in a run of the model

ASSUME CommentAssumption ==
    \A c \in Comments : /\ c.kind \in {"notify", "reply"}
                        /\ c.thread \in Threads
ASSUME EventsAssumption == MaxEvents \in Nat

VARIABLES
    delivered,  \* the source markers of the receipts of each thread, in order
    receipts,   \* verified_linear_ingress_receipts, by comment
    notes,      \* the notifications that notification.send has created
    answered,   \* the notifications whose reply is delivered
    ingest,     \* where each process stands, and what it has read
    events

ingressVars == <<receipts, notes, ingest, events>>
linearVars == <<delivered, answered>>
allIngressVars == <<ingressVars, linearVars>>

Ids == {c.id : c \in Comments}
Marker(session, source) == [session |-> session, source |-> source]

(* record_verified_linear_ingress, its binding: the marker and the request  *)
(* that is derived from the event with it.                                  *)
Binding(c, marker) == [event |-> c, marker |-> marker]
SessionOf(binding) ==
    IF binding.event.kind = "reply" THEN binding.marker.session ELSE binding.event.session
Nobody == [pc |-> "idle", binding |-> Binding(NoComment, NoMarker), known |-> FALSE]

IngressInit ==
    /\ delivered = [t \in Threads |-> <<>>]
    /\ receipts = [c \in Ids |-> NoReceipt]
    /\ notes = {}
    /\ answered = {}
    /\ ingest = [x \in Ingresses |-> Nobody]
    /\ events = 0

(* The markers that the threads have, and what may be derived from them.    *)
InThreads == UNION {{delivered[t][i] : i \in DOMAIN delivered[t]} : t \in Threads}
Bindings == [event: Comments, marker: InThreads \cup {NoMarker}]

IngressTypeOK ==
    /\ receipts \in [Ids -> Bindings \cup {NoReceipt}]
    /\ notes \subseteq Bindings
    /\ answered \subseteq notes
    /\ \A x \in Ingresses :
          /\ ingest[x].pc \in {"idle", "receipt?", "record", "send"}
          /\ ingest[x].pc # "idle" => ingest[x].binding \in Bindings
    /\ events \in 0 .. MaxEvents

-----------------------------------------------------------------------------
Proceed(x, pc, binding) ==
    ingest' = [ingest EXCEPT ![x] = [pc |-> pc, binding |-> binding, known |-> @.known]]
Drop(x) == ingest' = [ingest EXCEPT ![x] = Nobody]

Sessions(t) == {delivered[t][i].session : i \in DOMAIN delivered[t]}

(* resolve_verified_source_marker: the newest marker of the thread, unless  *)
(* there is none or its markers name several Sessions.                      *)
Resolved(c) ==
    IF c.kind = "notify" THEN {NoMarker}
    ELSE IF Cardinality(Sessions(c.thread)) = 1
         THEN {delivered[c.thread][Len(delivered[c.thread])]} ELSE {}

(* ingest, of a configured author and app: the directive is resolved, or    *)
(* the event is rejected.                                                   *)
Resolve(x, c) ==
    /\ ingest[x].pc = "idle"
    /\ events < MaxEvents
    /\ events' = events + 1
    /\ \E marker \in Resolved(c) :
          ingest' = [ingest EXCEPT ![x] =
              [pc |-> "receipt?", binding |-> Binding(c, marker),
               known |-> receipts[c.id] # NoReceipt]]
    /\ UNCHANGED <<receipts, notes, linearVars>>

(* Mutant: the thread is taken as it is now.                                *)
ExistingIgnored(c, marker) == Binding(c, marker)

(* A comment that is received already keeps the marker of its receipt.      *)
Existing(c, marker) ==
    Binding(c, IF receipts[c.id] = NoReceipt THEN marker ELSE receipts[c.id].marker)

(* _existing_receipt; a receipt of the other kind of directive is refused.   *)
ReadReceipt(x) ==
    LET c == ingest[x].binding.event
        row == receipts[c.id]
    IN  /\ ingest[x].pc = "receipt?"
        /\ IF row # NoReceipt /\ (row.marker = NoMarker) # (c.kind = "notify")
           THEN Drop(x)
           ELSE Proceed(x, "record", Existing(c, ingest[x].binding.marker))
        /\ UNCHANGED <<receipts, notes, events, linearVars>>

(* Mutant: the receipt of an edited comment is replaced.                    *)
RecordedAny(binding) == receipts' = [receipts EXCEPT ![binding.event.id] = binding]

(* The receipt is immutable: the same binding is returned, another one is a *)
(* linear_ingress_receipt_conflict.                                         *)
Recorded(binding) ==
    /\ receipts[binding.event.id] \in {NoReceipt, binding}
    /\ receipts' = [receipts EXCEPT ![binding.event.id] = binding]

RecordReceipt(x) ==
    LET binding == ingest[x].binding
    IN  /\ ingest[x].pc = "record"
        /\ \/ Recorded(binding) /\ Proceed(x, "send", binding)
           \/ /\ receipts[binding.event.id] \notin {NoReceipt, binding}
              /\ Drop(x)
              /\ UNCHANGED receipts
        /\ UNCHANGED <<notes, events, linearVars>>

(* notification.send, whose own steps are those of SessionInbox: the receipt *)
(* and the Session's Task are checked, and the notification is created once. *)
Send(x) ==
    LET binding == ingest[x].binding
    IN  /\ ingest[x].pc = "send"
        /\ IF receipts[binding.event.id] = binding /\ SessionOf(binding) \in OfTask
           THEN notes' = notes \cup {binding} ELSE UNCHANGED notes
        /\ Drop(x)
        /\ UNCHANGED <<receipts, events, linearVars>>

(* The process dies; Linear delivers the event again.                       *)
Die(x) ==
    /\ ingest[x].pc # "idle"
    /\ Drop(x)
    /\ UNCHANGED <<receipts, notes, events, linearVars>>

IngressStep(x) ==
    \/ \E c \in Comments : Resolve(x, c)
    \/ ReadReceipt(x) \/ RecordReceipt(x) \/ Send(x) \/ Die(x)

(* The Session's reply is delivered to the thread of its notification, with *)
(* a receipt that binds the thread to the Session.                          *)
DeliverReply(note) ==
    /\ note \notin answered
    /\ answered' = answered \cup {note}
    /\ delivered' = [delivered EXCEPT ![note.event.thread] =
                        Append(@, Marker(SessionOf(note), note.event.id))]
    /\ UNCHANGED ingressVars

-----------------------------------------------------------------------------
(* A comment notifies one Session once, however often and in whatever form  *)
(* it is delivered, and however its thread has changed in between.          *)
OneNoticePerComment ==
    \A m, n \in notes : m.event.id = n.event.id => m = n

(* An event whose comment is received before it arrives is never in         *)
(* conflict with the receipt, unless the comment was edited.                *)
RepeatIsRecognised ==
    \A x \in Ingresses :
        LET binding == ingest[x].binding
            row == receipts[binding.event.id]
        IN  /\ ingest[x].known /\ ingest[x].pc \in {"record", "send"}
            /\ row.event = binding.event
            => row = binding
=============================================================================
