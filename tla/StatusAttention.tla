---------------------------- MODULE StatusAttention ----------------------------
(***************************************************************************)
(* The attention inbox: status.publish of an Agent or a runner, and         *)
(* inbox.ack, inbox.snooze and inbox.resolve of a manager, over             *)
(* publish_status_update and _apply_attention_action of the runtime store.  *)
(* Updates with one deduplication key share one attention item; they may be *)
(* published late, twice and out of order, and an action reads the item in  *)
(* a transaction before the one that writes it.                             *)
(***************************************************************************)
EXTENDS OperationJournal

CONSTANTS
    Updates,      \* StatusUpdates: id, deduplication key, evidence, and the
                  \* rank of (observed_at, update_id)
    NoUpdate,
    Permitted,    \* requests whose actor may make them
    Bindable      \* updates that match the Session they name

Actions == {"inbox.ack", "inbox.snooze", "inbox.resolve"}

ASSUME AttentionRequestAssumption ==
    \A r \in Requests :
        /\ r.command \in Actions \cup {"status.publish"}
        /\ r.update \in Updates
        /\ r.command \in Actions => r.generation \in Nat \ {0}
ASSUME UpdateAssumption ==
    /\ NoUpdate \notin Updates
    /\ \A u \in Updates : u.rank \in Nat
    /\ \A u, v \in Updates : u.rank = v.rank => u.id = v.id
ASSUME AttentionVocabulary ==
    /\ {"lookup", "apply"} \subseteq Phases
    /\ {"persisted", "acknowledged", "snoozed", "resolved"} \subseteq Results

VARIABLES
    items,       \* attention_items, by deduplication key
    published,   \* status_updates, each with its outbox row
    actions      \* attention_actions

attentionVars == <<items, published, actions>>
vars == <<journalVars, attentionVars>>

Keys == {u.key : u \in Updates}
ItemStates == {"open", "acknowledged", "snoozed", "resolved"}
Item(state, generation, update, acked, snoozed, resolved) ==
    [state |-> state, generation |-> generation, update |-> update,
     acked |-> acked, snoozed |-> snoozed, resolved |-> resolved]
NoItem == Item("absent", 0, NoUpdate, NoUpdate, NoUpdate, NoUpdate)

TypeOK ==
    /\ JournalTypeOK
    /\ LET Update == Updates \cup {NoUpdate}
       IN  items \in [Keys -> [state: ItemStates \cup {"absent"},
                               generation: Nat, update: Update, acked: Update,
                               snoozed: Update, resolved: Update]]
    /\ published \subseteq Updates
    /\ actions \subseteq [op: Operations, action: Actions, update: Updates,
                          generation: Nat]

Init ==
    /\ JournalInit
    /\ items = [k \in Keys |-> NoItem]
    /\ published = {}
    /\ actions = {}

-----------------------------------------------------------------------------
(* The store.                                                               *)

(* Mutant: the last update that is published is the current one.            *)
NewerAlways(u, item) == u # item.update

Newer(u, item) == u.rank > item.update.rank

(* Mutant: it reopens whatever is closed.                                   *)
ReopensClosed(item) == item.state \in {"acknowledged", "resolved"}

Reopens(item) == item.state = "acknowledged"

(* _upsert_attention.                                                       *)
Upsert(u) ==
    LET item == items[u.key]
    IN  [items EXCEPT ![u.key] =
            IF item.state = "absent"
            THEN Item("open", 1, u, NoUpdate, NoUpdate, NoUpdate)
            ELSE IF ~ Newer(u, item) THEN item
            ELSE IF u.evidence # item.update.evidence
            THEN Item("open", item.generation + 1, u, NoUpdate, NoUpdate, NoUpdate)
            ELSE IF Reopens(item)
            THEN Item("open", item.generation, u, NoUpdate, item.snoozed, item.resolved)
            ELSE [item EXCEPT !.update = u]]

Effect(item, action) ==
    CASE action = "inbox.ack" ->
            Item("acknowledged", item.generation, item.update,
                 item.update, NoUpdate, item.resolved)
      [] action = "inbox.snooze" ->
            Item("snoozed", item.generation, item.update,
                 item.acked, item.update, item.resolved)
      [] action = "inbox.resolve" ->
            Item("resolved", item.generation, item.update,
                 item.acked, NoUpdate, item.update)

Success(command) ==
    CASE command = "status.publish" -> "persisted"
      [] command = "inbox.ack" -> "acknowledged"
      [] command = "inbox.snooze" -> "snoozed"
      [] command = "inbox.resolve" -> "resolved"

-----------------------------------------------------------------------------
(* The service methods.                                                     *)

Refuse(x) ==
    /\ Goto(x, "fail", "none")
    /\ UNCHANGED <<journal, abandoned, attentionVars>>

(* An operation on the item begins while the item is as the manager listed  *)
(* it: a call that is late waits after it has begun.                        *)
Listed(r) ==
    \/ r.command = "status.publish"
    \/ Running(r.op)
    \/ /\ items[r.update.key].update = r.update
       /\ items[r.update.key].generation = r.generation

Claim(x, r) ==
    /\ Listed(r)
    /\ Begin(x, r, "authorize")
    /\ UNCHANGED attentionVars

AuthorizeActor(x) ==
    /\ Authorize(x, exec[x].req \in Permitted,
                 IF exec[x].req.command = "status.publish" THEN "apply" ELSE "lookup")
    /\ UNCHANGED attentionVars

DenyActor(x) ==
    /\ Deny(x, exec[x].req \in Permitted)
    /\ UNCHANGED attentionVars

IdTaken(u) == \E v \in published : v.id = u.id

Conflict(u) == \E v \in published : v.id = u.id /\ v # u

(* publish_status_update: the update, its outbox row and the item in one    *)
(* transaction.                                                             *)
Publish(x) ==
    LET u == exec[x].req.update
    IN  /\ exec[x].pc = "apply"
        /\ exec[x].req.command = "status.publish"
        /\ IF u \notin Bindable \/ Conflict(u)
           THEN Refuse(x)
           ELSE /\ published' = IF IdTaken(u) THEN published ELSE published \cup {u}
                /\ items' = Upsert(u)
                /\ Goto(x, "effect", "persisted")
                /\ UNCHANGED <<journal, abandoned, actions>>

(* _attention_for_action.                                                   *)
Lookup(x) ==
    LET r == exec[x].req
        item == items[r.update.key]
    IN  /\ exec[x].pc = "lookup"
        /\ IF /\ r.update \in published
              /\ item.update = r.update
              /\ item.generation = r.generation
           THEN /\ Read(x, "apply", exec[x].seen)
                /\ UNCHANGED <<journal, abandoned, attentionVars>>
           ELSE Refuse(x)

Material(x) ==
    LET r == exec[x].req
        item == items[r.update.key]
    IN  [op |-> r.op, action |-> r.command, update |-> item.update,
         generation |-> item.generation]

(* Mutant: only the lookup compares the generation.                         *)
StaleNever(x) == FALSE

Stale(x) == items[exec[x].req.update.key].generation # exec[x].req.generation

(* _apply_attention_action, which compares the generation but not the       *)
(* update.  The deadline of a snooze may have passed.                       *)
Act(x) ==
    LET r == exec[x].req
        item == items[r.update.key]
        known == Material(x) \in actions
    IN  /\ exec[x].pc = "apply"
        /\ r.command \in Actions
        /\ \/ /\ \/ r.command = "inbox.snooze"
                 \/ Stale(x)
                 \/ ~ known /\ item.state = "resolved"
              /\ Refuse(x)
           \/ /\ ~ Stale(x)
              /\ known \/ item.state # "resolved"
              /\ items' = IF known THEN items
                          ELSE [items EXCEPT ![r.update.key] = Effect(item, r.command)]
              /\ actions' = actions \cup {Material(x)}
              /\ Goto(x, "effect", Success(r.command))
              /\ UNCHANGED <<journal, abandoned, published>>

(* The event of the effect is appended by every call.                       *)
RecordApplied(x) ==
    /\ exec[x].pc = "effect"
    /\ RecordAlways(x, "effect_persisted", exec[x].verdict)

Step(x) ==
    \/ AuthorizeActor(x) \/ DenyActor(x) \/ Publish(x) \/ Lookup(x) \/ Act(x)
    \/ (RecordApplied(x) \/ RecordFailure(x) \/ Finish(x)) /\ UNCHANGED attentionVars

(* Nothing makes an executor take its next step: one that dies in a call is *)
(* one that stays there, and another executor repeats its request.          *)
Next ==
    \/ \E x \in Executors : \E r \in Requests : Claim(x, r)
    \/ \E x \in Executors : Step(x)

Spec == Init /\ [][Next]_vars
-----------------------------------------------------------------------------
(* The item shows the newest of the updates that were published, in         *)
(* whatever order and however often they arrived.                           *)
NewestIsCurrent ==
    \A u \in published :
        /\ items[u.key].update \in published
        /\ u.rank <= items[u.key].update.rank

(* What is resolved stays closed, and what is snoozed stays hidden until it *)
(* is acted on, unless new evidence arrives.                                *)
ReopenedByEvidence ==
    [][\A k \in Keys :
          /\ items[k].state \in {"resolved", "snoozed"}
          /\ items'[k].state = "open"
          => items'[k].update.evidence # items[k].update.evidence]_vars

(* An operation acts only on the evidence that its manager listed, although *)
(* it looks in an earlier transaction.                                      *)
ActsOnListedEvidence ==
    \A a \in actions :
        LET r == journal[a.op].request
        IN  a.generation = r.generation /\ a.update.evidence = r.update.evidence

(* Success is reported only for a stored effect.                            *)
SuccessIsStored ==
    \A o \in Operations :
        LET r == journal[o].request
        IN  /\ journal[o].result = "persisted" => r.update \in published
            /\ journal[o].result \in {"acknowledged", "snoozed", "resolved"} =>
                  \E a \in actions : a.op = o /\ Success(a.action) = journal[o].result

=============================================================================
