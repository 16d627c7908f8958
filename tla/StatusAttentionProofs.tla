------------------------ MODULE StatusAttentionProofs ------------------------
(***************************************************************************)
(* Proofs about StatusAttention.  The argument is that an item is at every   *)
(* moment the newest of the updates published for it, and that within one    *)
(* generation its evidence does not change: so an action that finds, in its  *)
(* own transaction, the generation which its manager listed finds the        *)
(* evidence that was listed, though the update may be another.               *)
(***************************************************************************)
EXTENDS StatusAttention, TLAPS

Calls == [pc: Phases, req: Requests \cup {NoRequest}, knows: SUBSET Kinds,
          seen: Snapshots, verdict: Results]
Rows == [state: {"absent", "running", "terminal"},
         request: Requests \cup {NoRequest}, events: Seq(Kinds), result: Results]
AnUpdate == Updates \cup {NoUpdate}
Items == [state: ItemStates \cup {"absent"}, generation: Nat, update: AnUpdate,
          acked: AnUpdate, snoozed: AnUpdate, resolved: AnUpdate]
Acts == [op: Operations, action: Actions, update: Updates, generation: Nat]

-----------------------------------------------------------------------------
(* The typing of one row, call or item.                                      *)
LEMMA CallTyped ==
    ASSUME NEW pc \in Phases, NEW r \in Requests \cup {NoRequest},
           NEW knows \in SUBSET Kinds, NEW s \in Snapshots,
           NEW verdict \in Results
    PROVE  Call(pc, r, knows, s, verdict) \in Calls
BY DEF Call, Calls

LEMMA RowTyped ==
    ASSUME NEW state \in {"absent", "running", "terminal"},
           NEW r \in Requests \cup {NoRequest},
           NEW events \in Seq(Kinds), NEW verdict \in Results
    PROVE  Row(state, r, events, verdict) \in Rows
BY DEF Row, Rows

LEMMA ItemTyped ==
    ASSUME NEW state \in ItemStates, NEW generation \in Nat, NEW u \in AnUpdate,
           NEW acked \in AnUpdate, NEW snoozed \in AnUpdate, NEW resolved \in AnUpdate
    PROVE  Item(state, generation, u, acked, snoozed, resolved) \in Items
BY DEF Item, Items

LEMMA TypeParts ==
    TypeOK <=>
        /\ journal \in [Operations -> Rows]
        /\ exec \in [Executors -> Calls]
        /\ abandoned \in Nat
        /\ items \in [Keys -> Items]
        /\ published \subseteq Updates
        /\ actions \subseteq Acts
BY DEF TypeOK, JournalTypeOK, Rows, Calls, Items, Acts, AnUpdate

LEMMA CallFields ==
    ASSUME TypeOK, NEW x \in Executors
    PROVE  /\ exec[x] \in Calls
           /\ exec[x].pc \in Phases
           /\ exec[x].req \in Requests \cup {NoRequest}
           /\ exec[x].knows \in SUBSET Kinds
           /\ exec[x].seen \in Snapshots
           /\ exec[x].verdict \in Results
BY TypeParts DEF Calls

LEMMA RowFields ==
    ASSUME TypeOK, NEW o \in Operations
    PROVE  /\ journal[o] \in Rows
           /\ journal[o].state \in {"absent", "running", "terminal"}
           /\ journal[o].request \in Requests \cup {NoRequest}
           /\ journal[o].events \in Seq(Kinds)
           /\ journal[o].result \in Results
BY TypeParts DEF Rows

LEMMA ItemFields ==
    ASSUME TypeOK, NEW k \in Keys
    PROVE  /\ items[k] \in Items
           /\ items[k].state \in ItemStates \cup {"absent"}
           /\ items[k].generation \in Nat
           /\ items[k].update \in AnUpdate /\ items[k].acked \in AnUpdate
           /\ items[k].snoozed \in AnUpdate /\ items[k].resolved \in AnUpdate
BY TypeParts DEF Items

(* A call in progress has a request.                                        *)
CallsHaveRequests ==
    \A x \in Executors : exec[x].pc # "idle" => exec[x].req \in Requests

WellTyped == TypeOK /\ CallsHaveRequests

LEMMA RequestFacts ==
    ASSUME NEW r \in Requests
    PROVE  /\ r.op \in Operations
           /\ r.update \in Updates
           /\ r.update.key \in Keys
           /\ r.command \in Actions => r.generation \in Nat \ {0}
           /\ r.command \notin Actions => r.command = "status.publish"
BY RequestAssumption, AttentionRequestAssumption DEF Keys

LEMMA UpdateFacts ==
    ASSUME NEW u \in Updates
    PROVE  u.key \in Keys /\ u.rank \in Nat /\ u # NoUpdate
BY UpdateAssumption DEF Keys

LEMMA CallFacts ==
    ASSUME WellTyped, NEW x \in Executors, exec[x].pc # "idle"
    PROVE  exec[x].req \in Requests /\ Op(x) \in Operations
BY RequestFacts DEF WellTyped, CallsHaveRequests, Op

-----------------------------------------------------------------------------
(* What one step does to the journal.                                       *)
Extended(o, kind) ==
    /\ Running(o)
    /\ journal' = [journal EXCEPT
          ![o] = Row("running", journal[o].request,
                     Append(journal[o].events, kind), journal[o].result)]

Begun(r) ==
    /\ journal[r.op].state = "absent"
    /\ journal' = [journal EXCEPT
          ![r.op] = Row("running", r, <<"operation_started">>, "none")]

Ending(x) ==
    /\ exec[x].pc = "finish"
    /\ FinishOperation(Op(x), exec[x].verdict)

LEMMA JournalStep ==
    ASSUME WellTyped, Next
    PROVE  \/ UNCHANGED journal
           \/ \E r \in Requests : Begun(r)
           \/ \E x \in Executors : \E kind \in Kinds :
                 exec[x].pc # "idle" /\ Extended(Op(x), kind)
           \/ \E x \in Executors : Ending(x)
<1>1. ASSUME NEW x \in Executors, NEW r \in Requests, Claim(x, r)
      PROVE  UNCHANGED journal \/ Begun(r)
  BY <1>1 DEF Claim, Begin, BeginNew, BeginAgain, Begun
<1>2. ASSUME NEW x \in Executors, Step(x)
      PROVE  \/ UNCHANGED journal
             \/ \E kind \in Kinds : exec[x].pc # "idle" /\ Extended(Op(x), kind)
             \/ Ending(x)
  <2>1. CASE AuthorizeActor(x)
    BY VocabularyAssumption, <2>1 DEF AuthorizeActor, Authorize, Record, AppendEvent, Extended
  <2>2. CASE DenyActor(x)
    BY VocabularyAssumption, <2>2 DEF DenyActor, Deny, RecordAlways, AppendEvent, Extended
  <2>3. CASE RecordFailure(x)
    BY VocabularyAssumption, <2>3 DEF RecordFailure, RecordAlways, AppendEvent, Extended
  <2>4. CASE RecordApplied(x)
    BY VocabularyAssumption, <2>4 DEF RecordApplied, RecordAlways, AppendEvent, Extended
  <2>5. CASE Finish(x)
    BY <2>5 DEF Finish, Ending
  <2>6. CASE Publish(x) \/ Lookup(x) \/ Act(x)
    BY <2>6 DEF Publish, Lookup, Act, Refuse
  <2> QED BY <1>2, <2>1, <2>2, <2>3, <2>4, <2>5, <2>6 DEF Step
<1> QED BY <1>1, <1>2 DEF Next

(* A row that is there keeps its request.                                   *)
LEMMA RequestStays ==
    ASSUME WellTyped, Next, NEW o \in Operations, journal[o].state # "absent"
    PROVE  journal'[o].request = journal[o].request
<1>1. journal \in [Operations -> Rows]
  BY TypeParts DEF WellTyped
<1>2. ASSUME NEW r \in Requests, Begun(r)
      PROVE  journal'[o].request = journal[o].request
  BY <1>1, <1>2 DEF Begun
<1>3. ASSUME NEW b \in Operations, NEW kind, Extended(b, kind)
      PROVE  journal'[o].request = journal[o].request
  BY <1>1, <1>3 DEF Extended, Row
<1>4. ASSUME NEW x \in Executors, Ending(x)
      PROVE  journal'[o].request = journal[o].request
  BY <1>1, <1>4 DEF Ending, FinishOperation, Row
<1> QED BY <1>2, <1>3, <1>4, JournalStep, CallFacts

-----------------------------------------------------------------------------
(* The calls of the one executor that a step is of.                         *)
Others(x) == \A y \in Executors \ {x} : exec'[y] = exec[y]

LEMMA GotoFacts ==
    ASSUME TypeOK, NEW x \in Executors, NEW pc, NEW v, Goto(x, pc, v)
    PROVE  /\ exec'[x].pc = pc
           /\ exec'[x].req = exec[x].req
           /\ exec'[x].verdict = v
           /\ Others(x)
BY TypeParts DEF Goto, Others, Call

LEMMA ReadFacts ==
    ASSUME TypeOK, NEW x \in Executors, NEW pc, NEW s, Read(x, pc, s)
    PROVE  /\ exec'[x].pc = pc
           /\ exec'[x].req = exec[x].req
           /\ exec'[x].seen = s
           /\ exec'[x].verdict = "none"
           /\ Others(x)
BY TypeParts DEF Read, Others, Call

LEMMA ReturnFacts ==
    ASSUME TypeOK, NEW x \in Executors, Return(x)
    PROVE  exec'[x].pc = "idle" /\ Others(x)
BY TypeParts DEF Return, Others, Call, NoCall

LEMMA BeginFacts ==
    ASSUME TypeOK, NEW x \in Executors, NEW r \in Requests, NEW first,
           Begin(x, r, first)
    PROVE  /\ exec[x].pc = "idle"
           /\ exec'[x].pc = first
           /\ exec'[x].req = r
           /\ journal'[r.op].request = r
           /\ Others(x)
BY TypeParts, RequestAssumption DEF Begin, BeginNew, BeginAgain, Others, Call, Row

LEMMA GotoTyped ==
    ASSUME TypeOK, NEW x \in Executors, NEW pc \in Phases, NEW v \in Results,
           Goto(x, pc, v)
    PROVE  exec' \in [Executors -> Calls]
BY CallFields, CallTyped, TypeParts, UnreadAssumption DEF Goto

LEMMA ReadTyped ==
    ASSUME TypeOK, NEW x \in Executors, NEW pc \in Phases, NEW s \in Snapshots,
           Read(x, pc, s)
    PROVE  exec' \in [Executors -> Calls]
BY CallFields, CallTyped, TypeParts, VocabularyAssumption DEF Read

LEMMA ReturnTyped ==
    ASSUME TypeOK, NEW x \in Executors, Return(x)
    PROVE  exec' \in [Executors -> Calls]
<1>1. NoCall \in Calls
  BY CallTyped, VocabularyAssumption, UnreadAssumption DEF NoCall
<1> QED BY <1>1, TypeParts DEF Return

LEMMA BeginTyped ==
    ASSUME TypeOK, NEW x \in Executors, NEW r \in Requests, Begin(x, r, "authorize")
    PROVE  exec' \in [Executors -> Calls]
<1>1. r.op \in Operations
  BY RequestAssumption
<1>2. journal'[r.op].events \in Seq(Kinds)
  <2>1. CASE BeginNew(r)
    <3>1. journal'[r.op].events = <<"operation_started">>
      BY <1>1, <2>1, TypeParts DEF BeginNew, Row
    <3> QED BY <3>1, VocabularyAssumption
  <2>2. CASE BeginAgain(r)
    BY <1>1, <2>2, RowFields DEF BeginAgain
  <2> QED BY <2>1, <2>2 DEF Begin
<1>3. PICK knows : /\ knows = {journal'[r.op].events[i] : i \in DOMAIN journal'[r.op].events}
                   /\ exec' = [exec EXCEPT ![x] = Call("authorize", r, knows, Unread, "none")]
  BY DEF Begin
<1>4. knows \in SUBSET Kinds
  BY <1>2, <1>3
<1>5. Call("authorize", r, knows, Unread, "none") \in Calls
  BY <1>4, CallTyped, VocabularyAssumption, UnreadAssumption
<1> QED BY <1>3, <1>5, TypeParts

LEMMA JournalTyped ==
    ASSUME WellTyped, Next
    PROVE  journal' \in [Operations -> Rows]
<1>1. journal \in [Operations -> Rows]
  BY TypeParts DEF WellTyped
<1>2. ASSUME NEW r \in Requests, Begun(r)
      PROVE  journal' \in [Operations -> Rows]
  <2>1. <<"operation_started">> \in Seq(Kinds)
    BY VocabularyAssumption
  <2>2. Row("running", r, <<"operation_started">>, "none") \in Rows
    BY <2>1, RowTyped, VocabularyAssumption
  <2> QED BY <1>1, <1>2, <2>2 DEF Begun
<1>3. ASSUME NEW o \in Operations, NEW kind \in Kinds, Extended(o, kind)
      PROVE  journal' \in [Operations -> Rows]
  <2>0. Append(journal[o].events, kind) \in Seq(Kinds)
    BY RowFields DEF WellTyped
  <2>1. Row("running", journal[o].request, Append(journal[o].events, kind),
            journal[o].result) \in Rows
    BY <2>0, RowFields, RowTyped DEF WellTyped
  <2> QED BY <1>1, <1>3, <2>1 DEF Extended
<1>4. ASSUME NEW x \in Executors, Ending(x)
      PROVE  journal' \in [Operations -> Rows]
  <2>1. exec[x].pc # "idle" /\ FinishOperation(Op(x), exec[x].verdict)
    BY <1>4 DEF Ending
  <2>2. Op(x) \in Operations /\ exec[x].verdict \in Results
    BY <2>1, CallFacts, CallFields DEF WellTyped
  <2>3. Append(journal[Op(x)].events, "operation_finished") \in Seq(Kinds)
    BY <2>2, RowFields, VocabularyAssumption DEF WellTyped
  <2>4. Row("terminal", journal[Op(x)].request,
            Append(journal[Op(x)].events, "operation_finished"), exec[x].verdict) \in Rows
    BY <2>2, <2>3, RowFields, RowTyped DEF WellTyped
  <2> QED BY <1>1, <2>1, <2>2, <2>4 DEF FinishOperation
<1> QED BY <1>1, <1>2, <1>3, <1>4, JournalStep, CallFacts

-----------------------------------------------------------------------------
(* What one step does to the items, the updates and the actions.             *)
Publishes(x) ==
    LET u == exec[x].req.update
    IN  /\ exec[x].pc = "apply"
        /\ exec[x].req.command = "status.publish"
        /\ published' = published \cup {u}
        /\ items' = Upsert(u)
        /\ UNCHANGED actions
        /\ Goto(x, "effect", "persisted")

ActsNow(x) ==
    LET r == exec[x].req
        k == r.update.key
    IN  /\ exec[x].pc = "apply"
        /\ r.command \in Actions
        /\ ~ Stale(x)
        /\ items' \in {items, [items EXCEPT ![k] = Effect(items[k], r.command)]}
        /\ actions' = actions \cup {Material(x)}
        /\ UNCHANGED published
        /\ Goto(x, "effect", Success(r.command))

Effects ==
    \/ UNCHANGED attentionVars
    \/ \E x \in Executors : Publishes(x) \/ ActsNow(x)

LEMMA PublishEffects ==
    ASSUME NEW x, Publish(x)
    PROVE  Refuse(x) \/ Publishes(x)
<1> DEFINE u == exec[x].req.update
<1>1. CASE u \notin Bindable \/ Conflict(u)
  BY <1>1 DEF Publish
<1>2. CASE ~ (u \notin Bindable \/ Conflict(u))
  <2>1. published' = IF IdTaken(u) THEN published ELSE published \cup {u}
    BY <1>2 DEF Publish
  <2>2. IdTaken(u) => u \in published
    BY <1>2 DEF IdTaken, Conflict
  <2>3. published' = published \cup {u}
    BY <2>1, <2>2
  <2> QED BY <1>2, <2>3 DEF Publish, Publishes
<1> QED BY <1>1, <1>2

LEMMA EffectsStep ==
    ASSUME Next
    PROVE  Effects
<1>1. ASSUME NEW x \in Executors, NEW r \in Requests, Claim(x, r)
      PROVE  Effects
  BY <1>1 DEF Claim, Effects
<1>2. ASSUME NEW x \in Executors, Step(x)
      PROVE  Effects
  <2>1. CASE \/ AuthorizeActor(x) \/ DenyActor(x)
             \/ (RecordApplied(x) \/ RecordFailure(x) \/ Finish(x)) /\ UNCHANGED attentionVars
    BY <2>1 DEF AuthorizeActor, DenyActor, Effects
  <2>2. CASE Publish(x)
    BY <2>2, PublishEffects DEF Refuse, Effects
  <2>3. CASE Lookup(x)
    BY <2>3 DEF Lookup, Refuse, Effects
  <2>4. CASE Act(x)
    <3>1. CASE Refuse(x)
      BY <3>1 DEF Refuse, Effects
    <3>2. CASE ~ Refuse(x)
      <4>1. ActsNow(x)
        BY <2>4, <3>2 DEF Act, ActsNow
      <4> QED BY <4>1 DEF Effects
    <3> QED BY <3>1, <3>2
  <2> QED BY <1>2, <2>1, <2>2, <2>3, <2>4 DEF Step
<1> QED BY <1>1, <1>2 DEF Next

(* The item of an update that is published, before and after.                *)
Upserted(item, new, u) ==
    \/ /\ item.state = "absent"
       /\ new.state = "open" /\ new.generation = 1 /\ new.update = u
    \/ /\ item.state # "absent" /\ ~ Newer(u, item) /\ new = item
    \/ /\ item.state # "absent" /\ Newer(u, item)
       /\ u.evidence # item.update.evidence
       /\ new.state = "open" /\ new.generation = item.generation + 1 /\ new.update = u
    \/ /\ item.state # "absent" /\ Newer(u, item)
       /\ u.evidence = item.update.evidence
       /\ \/ new.state = item.state
          \/ item.state = "acknowledged" /\ new.state = "open"
       /\ new.generation = item.generation /\ new.update = u

LEMMA UpsertFacts ==
    ASSUME TypeOK, NEW u \in Updates, items' = Upsert(u)
    PROVE  /\ items' \in [Keys -> Items]
           /\ \A k \in Keys \ {u.key} : items'[k] = items[k]
           /\ Upserted(items[u.key], items'[u.key], u)
<1>1. /\ u.key \in Keys /\ u \in AnUpdate /\ NoUpdate \in AnUpdate
      /\ items \in [Keys -> Items]
  BY UpdateFacts, TypeParts DEF AnUpdate
<1>2. PICK item : item = items[u.key]
  OBVIOUS
<1>3. /\ item \in Items
      /\ item.state \in ItemStates \cup {"absent"} /\ item.generation \in Nat
      /\ item.snoozed \in AnUpdate /\ item.resolved \in AnUpdate
  BY <1>1, <1>2, ItemFields
<1>4. PICK new : /\ new = (IF item.state = "absent"
                          THEN Item("open", 1, u, NoUpdate, NoUpdate, NoUpdate)
                          ELSE IF ~ Newer(u, item) THEN item
                          ELSE IF u.evidence # item.update.evidence
                          THEN Item("open", item.generation + 1, u, NoUpdate, NoUpdate, NoUpdate)
                          ELSE IF Reopens(item)
                          THEN Item("open", item.generation, u, NoUpdate, item.snoozed,
                                    item.resolved)
                          ELSE [item EXCEPT !.update = u])
                 /\ items' = [items EXCEPT ![u.key] = new]
  BY <1>2 DEF Upsert
<1>5. "open" \in ItemStates /\ 1 \in Nat /\ item.generation + 1 \in Nat
  BY <1>3 DEF ItemStates
<1>6. [item EXCEPT !.update = u] \in Items
  BY <1>1, <1>3 DEF Items
<1>7. new \in Items
  BY <1>1, <1>3, <1>4, <1>5, <1>6, ItemTyped
<1>8. Upserted(item, new, u)
  BY <1>3, <1>4 DEF Upserted, Item, Reopens, Items
<1>9. items'[u.key] = new /\ \A k \in Keys \ {u.key} : items'[k] = items[k]
  BY <1>1, <1>4
<1> QED BY <1>1, <1>2, <1>4, <1>7, <1>8, <1>9

LEMMA EffectFacts ==
    ASSUME TypeOK, NEW k \in Keys, NEW action \in Actions,
           items' = [items EXCEPT ![k] = Effect(items[k], action)]
    PROVE  /\ items' \in [Keys -> Items]
           /\ \A l \in Keys \ {k} : items'[l] = items[l]
           /\ items'[k].state \in {"acknowledged", "snoozed", "resolved"}
           /\ items'[k].generation = items[k].generation
           /\ items'[k].update = items[k].update
<1>1. items \in [Keys -> Items]
  BY TypeParts
<1>2. PICK new : new = Effect(items[k], action) /\ items' = [items EXCEPT ![k] = new]
  OBVIOUS
<1>3. action \in {"inbox.ack", "inbox.snooze", "inbox.resolve"}
  BY DEF Actions
<1>4. /\ new.state \in {"acknowledged", "snoozed", "resolved"}
      /\ new.generation = items[k].generation /\ new.update = items[k].update
  BY <1>2, <1>3 DEF Effect, Item
<1>5. NoUpdate \in AnUpdate /\ {"acknowledged", "snoozed", "resolved"} \subseteq ItemStates
  BY DEF AnUpdate, ItemStates
<1>6. new \in Items
  BY <1>2, <1>3, <1>5, ItemFields, ItemTyped DEF Effect
<1> QED BY <1>1, <1>2, <1>4, <1>6

-----------------------------------------------------------------------------
(* What one step does to a call.                                             *)
CallMoves(x) ==
    LET r == exec[x].req
    IN  \/ exec'[x] = exec[x]
        \/ exec'[x].pc = "idle"
        \/ /\ exec[x].pc = "idle"
           /\ exec'[x].pc = "authorize"
           /\ exec'[x].req \in Requests
           /\ journal'[Op(x)'].request = exec'[x].req
        \/ /\ exec[x].pc # "idle"
           /\ exec'[x].req = r
           /\ \/ exec'[x].pc = "fail"
              \/ exec'[x].pc = "lookup" /\ r.command # "status.publish"
              \/ exec'[x].pc = "apply" /\ r.command = "status.publish"
              \/ /\ exec'[x].pc = "apply"
                 /\ items[r.update.key].update = r.update
                 /\ items[r.update.key].generation = r.generation
                 /\ UNCHANGED attentionVars
              \/ exec'[x].pc = "effect" /\ exec'[x].verdict = "persisted" /\ Publishes(x)
              \/ exec'[x].pc = "effect" /\ exec'[x].verdict = Success(r.command) /\ ActsNow(x)
              \/ exec'[x].pc = "finish" /\ exec'[x].verdict \in {"denied", "failed"}
              \/ /\ exec[x].pc = "effect" /\ exec'[x].pc = "finish"
                 /\ exec'[x].verdict = exec[x].verdict

LEMMA StepMoves ==
    ASSUME WellTyped, NEW x \in Executors, Step(x)
    PROVE  CallMoves(x) /\ Others(x) /\ exec' \in [Executors -> Calls]
<1> USE VocabularyAssumption, AttentionVocabulary, UnreadAssumption
<1>0. TypeOK /\ exec \in [Executors -> Calls]
      /\ exec[x].seen \in Snapshots /\ exec[x].verdict \in Results
  BY CallFields, TypeParts DEF WellTyped
<1>1. ASSUME Return(x) PROVE CallMoves(x) /\ Others(x) /\ exec' \in [Executors -> Calls]
  BY <1>0, <1>1, ReturnFacts, ReturnTyped DEF CallMoves
<1>2. ASSUME exec[x].pc # "idle", Goto(x, "fail", "none")
      PROVE  CallMoves(x) /\ Others(x) /\ exec' \in [Executors -> Calls]
  BY <1>0, <1>2, GotoFacts, GotoTyped DEF CallMoves
<1>3. ASSUME exec[x].pc # "idle", NEW v \in {"denied", "failed"}, Goto(x, "finish", v)
      PROVE  CallMoves(x) /\ Others(x) /\ exec' \in [Executors -> Calls]
  BY <1>0, <1>3, GotoFacts, GotoTyped DEF CallMoves
<1>4. CASE AuthorizeActor(x)
  <2>1. /\ exec[x].pc = "authorize"
        /\ \/ Return(x)
           \/ exec[x].req.command = "status.publish" /\ Read(x, "apply", exec[x].seen)
           \/ exec[x].req.command # "status.publish" /\ Read(x, "lookup", exec[x].seen)
    BY <1>4 DEF AuthorizeActor, Authorize, Record
  <2> QED BY <1>0, <1>1, <2>1, ReadFacts, ReadTyped DEF CallMoves
<1>5. CASE DenyActor(x) \/ RecordFailure(x)
  <2>1. /\ exec[x].pc \in {"authorize", "fail"}
        /\ Return(x) \/ \E v \in {"denied", "failed"} : Goto(x, "finish", v)
    BY <1>5 DEF DenyActor, Deny, RecordFailure, RecordAlways
  <2> QED BY <1>1, <1>3, <2>1
<1>6. CASE Publish(x)
  <2>1. exec[x].pc = "apply" /\ (Goto(x, "fail", "none") \/ Publishes(x))
    BY <1>6, PublishEffects DEF Publish, Refuse
  <2>2. Publishes(x) => Goto(x, "effect", "persisted")
    BY DEF Publishes
  <2> QED BY <1>0, <1>2, <2>1, <2>2, GotoFacts, GotoTyped DEF CallMoves
<1>7. CASE Lookup(x)
  <2>1. /\ exec[x].pc = "lookup"
        /\ \/ Goto(x, "fail", "none")
           \/ /\ Read(x, "apply", exec[x].seen)
              /\ items[exec[x].req.update.key].update = exec[x].req.update
              /\ items[exec[x].req.update.key].generation = exec[x].req.generation
              /\ UNCHANGED attentionVars
    BY <1>7 DEF Lookup, Refuse
  <2> QED BY <1>0, <1>2, <2>1, ReadFacts, ReadTyped DEF CallMoves
<1>8. CASE Act(x)
  <2>1. exec[x].pc = "apply" /\ (Goto(x, "fail", "none") \/ ActsNow(x))
    <3>1. CASE Refuse(x)
      BY <1>8, <3>1 DEF Act, Refuse
    <3>2. CASE ~ Refuse(x)
      BY <1>8, <3>2 DEF Act, ActsNow
    <3> QED BY <3>1, <3>2
  <2>2. ActsNow(x) => /\ Goto(x, "effect", Success(exec[x].req.command))
                      /\ Success(exec[x].req.command) \in Results
    BY DEF ActsNow, Success, Actions
  <2> QED BY <1>0, <1>2, <2>1, <2>2, GotoFacts, GotoTyped DEF CallMoves
<1>9. CASE RecordApplied(x)
  <2>1. exec[x].pc = "effect" /\ (Return(x) \/ Goto(x, "finish", exec[x].verdict))
    BY <1>9 DEF RecordApplied, RecordAlways
  <2> QED BY <1>0, <1>1, <2>1, GotoFacts, GotoTyped DEF CallMoves
<1>10. CASE Finish(x)
  BY <1>1, <1>10 DEF Finish
<1> QED BY <1>4, <1>5, <1>6, <1>7, <1>8, <1>9, <1>10 DEF Step

LEMMA NextMoves ==
    ASSUME WellTyped, Next
    PROVE  exec' \in [Executors -> Calls] /\ \A x \in Executors : CallMoves(x)
<1>0. TypeOK
  BY DEF WellTyped
<1>1. ASSUME NEW x \in Executors, NEW r \in Requests, Claim(x, r)
      PROVE  exec' \in [Executors -> Calls] /\ \A y \in Executors : CallMoves(y)
  <2>1. Begin(x, r, "authorize")
    BY <1>1 DEF Claim
  <2>2. CallMoves(x)
    BY <1>0, <2>1, BeginFacts DEF CallMoves, Op
  <2>3. ASSUME NEW y \in Executors \ {x} PROVE CallMoves(y)
    BY <1>0, <2>1, BeginFacts DEF CallMoves, Others
  <2> QED BY <1>0, <2>1, <2>2, <2>3, BeginTyped
<1>2. ASSUME NEW x \in Executors, Step(x)
      PROVE  exec' \in [Executors -> Calls] /\ \A y \in Executors : CallMoves(y)
  BY <1>2, StepMoves DEF Others, CallMoves
<1> QED BY <1>1, <1>2 DEF Next

-----------------------------------------------------------------------------
(* The inductive invariant.                                                  *)

(* What a verdict says of the request.                                       *)
Told(verdict, r) ==
    /\ verdict = "persisted" => r.update \in published
    /\ verdict \in {"acknowledged", "snoozed", "resolved"} =>
          \E a \in actions : a.op = r.op /\ Success(a.action) = verdict

(* The generation that a manager listed has still the evidence that it had.  *)
SinceListed(r) ==
    LET item == items[r.update.key]
    IN  /\ item.generation >= r.generation
        /\ item.generation = r.generation => item.update.evidence = r.update.evidence

RowFits(o) ==
    /\ journal[o].state = "absent" =>
          journal[o].request = NoRequest /\ journal[o].result = "none"
    /\ journal[o].state # "absent" =>
          /\ journal[o].request \in Requests
          /\ journal[o].request.op = o
          /\ Told(journal[o].result, journal[o].request)

CallFits(x) ==
    exec[x].pc # "idle" =>
        /\ exec[x].req \in Requests
        /\ journal[Op(x)].request = exec[x].req
        /\ exec[x].pc = "lookup" => exec[x].req.command \in Actions
        /\ exec[x].pc = "apply" /\ exec[x].req.command \in Actions => SinceListed(exec[x].req)
        /\ exec[x].pc \in {"effect", "finish"} => Told(exec[x].verdict, exec[x].req)

(* An item is the newest of the updates that have its key.                   *)
ItemFits(k) ==
    /\ items[k].state = "absent" =>
          items[k] = NoItem /\ \A u \in published : u.key # k
    /\ items[k].state # "absent" =>
          /\ items[k].generation >= 1
          /\ items[k].update \in published
          /\ \A u \in published : u.key = k => u.rank <= items[k].update.rank

ActionFits(a) ==
    LET r == journal[a.op].request
    IN  /\ r \in Requests
        /\ a.generation = r.generation /\ a.update.evidence = r.update.evidence

RowsFit == \A o \in Operations : RowFits(o)
CallsFit == \A x \in Executors : CallFits(x)
ItemsFit == \A k \in Keys : ItemFits(k)
ActionsFit == \A a \in actions : ActionFits(a)

AttentionInv == TypeOK /\ RowsFit /\ CallsFit /\ ItemsFit /\ ActionsFit

LEMMA InvTyped == AttentionInv => WellTyped
BY DEF AttentionInv, WellTyped, CallsFit, CallFits, CallsHaveRequests

-----------------------------------------------------------------------------
(* An action that is taken now is on the evidence that was listed.           *)
LEMMA ActsFacts ==
    ASSUME AttentionInv, NEW x \in Executors, ActsNow(x)
    PROVE  LET r == exec[x].req
               item == items[r.update.key]
           IN  /\ r \in Requests /\ r.update.key \in Keys
               /\ journal[r.op].request = r
               /\ item.state # "absent" /\ item.update \in published
               /\ item.generation = r.generation
               /\ item.update.evidence = r.update.evidence
               /\ Material(x) \in Acts
<1> DEFINE r == exec[x].req
           item == items[r.update.key]
<1>1. exec[x].pc = "apply" /\ r.command \in Actions /\ item.generation = r.generation
  BY DEF ActsNow, Stale
<1>2. r \in Requests /\ journal[r.op].request = r /\ SinceListed(r)
  BY <1>1 DEF AttentionInv, CallsFit, CallFits, Op
<1>3. r.update.key \in Keys /\ r.op \in Operations /\ r.generation \in Nat \ {0}
  BY <1>1, <1>2, RequestFacts
<1>4. item.state # "absent"
  BY <1>1, <1>3 DEF AttentionInv, ItemsFit, ItemFits, NoItem, Item
<1>5. item.update \in published /\ item.update \in Updates
  BY <1>3, <1>4, TypeParts DEF AttentionInv, ItemsFit, ItemFits
<1>6. Material(x) \in Acts
  BY <1>1, <1>3, <1>5 DEF Material, Acts
<1> QED BY <1>1, <1>2, <1>3, <1>4, <1>5, <1>6 DEF SinceListed

(* What one step does to an item.                                            *)
ItemMoves(k) ==
    \/ items'[k] = items[k] /\ (\A u \in published' \ published : u.key # k)
    \/ \E u \in Updates : /\ u.key = k /\ published' = published \cup {u}
                          /\ Upserted(items[k], items'[k], u)
    \/ /\ items[k].state # "absent"
       /\ items'[k].state \in {"acknowledged", "snoozed", "resolved"}
       /\ items'[k].generation = items[k].generation
       /\ items'[k].update = items[k].update
       /\ UNCHANGED published

LEMMA NextItems ==
    ASSUME AttentionInv, Next
    PROVE  /\ items' \in [Keys -> Items]
           /\ published' \subseteq Updates /\ published \subseteq published'
           /\ actions' \subseteq Acts /\ actions \subseteq actions'
           /\ \A k \in Keys : ItemMoves(k)
<1>0. /\ TypeOK /\ WellTyped /\ items \in [Keys -> Items]
      /\ published \subseteq Updates /\ actions \subseteq Acts
  BY InvTyped, TypeParts DEF AttentionInv
<1>1. CASE UNCHANGED attentionVars
  BY <1>0, <1>1 DEF attentionVars, ItemMoves
<1>2. ASSUME NEW x \in Executors, Publishes(x)
      PROVE  /\ items' \in [Keys -> Items]
             /\ published' \subseteq Updates /\ published \subseteq published'
             /\ UNCHANGED actions
             /\ \A k \in Keys : ItemMoves(k)
  <2>1. PICK u : /\ u = exec[x].req.update
                 /\ items' = Upsert(u) /\ published' = published \cup {u}
                 /\ exec[x].pc = "apply" /\ UNCHANGED actions
    BY <1>2 DEF Publishes
  <2>2. u \in Updates /\ u.key \in Keys
    BY <1>0, <2>1, CallFacts, RequestFacts
  <2>3. /\ items' \in [Keys -> Items]
        /\ \A k \in Keys \ {u.key} : items'[k] = items[k]
        /\ Upserted(items[u.key], items'[u.key], u)
    BY <1>0, <2>1, <2>2, UpsertFacts
  <2>4. \A k \in Keys : ItemMoves(k)
    BY <2>1, <2>2, <2>3 DEF ItemMoves
  <2> QED BY <1>0, <2>1, <2>2, <2>3, <2>4
<1>3. ASSUME NEW x \in Executors, ActsNow(x)
      PROVE  /\ items' \in [Keys -> Items] /\ UNCHANGED published
             /\ actions' \subseteq Acts /\ actions \subseteq actions'
             /\ \A k \in Keys : ItemMoves(k)
  <2>1. PICK k : k = exec[x].req.update.key
    OBVIOUS
  <2>2. /\ k \in Keys /\ items[k].state # "absent" /\ Material(x) \in Acts
        /\ exec[x].req.command \in Actions
    BY <1>3, <2>1, ActsFacts DEF ActsNow
  <2>3. CASE items' = items
    BY <1>0, <1>3, <2>2, <2>3 DEF ActsNow, ItemMoves
  <2>4. CASE items' = [items EXCEPT ![k] = Effect(items[k], exec[x].req.command)]
    <3>1. /\ items' \in [Keys -> Items]
          /\ \A l \in Keys \ {k} : items'[l] = items[l]
          /\ items'[k].state \in {"acknowledged", "snoozed", "resolved"}
          /\ items'[k].generation = items[k].generation
          /\ items'[k].update = items[k].update
      BY <1>0, <2>2, <2>4, EffectFacts
    <3> QED BY <1>0, <1>3, <2>2, <3>1 DEF ActsNow, ItemMoves
  <2> QED BY <1>3, <2>1, <2>3, <2>4 DEF ActsNow
<1> QED BY <1>0, <1>1, <1>2, <1>3, EffectsStep DEF Effects, attentionVars

-----------------------------------------------------------------------------
(* The invariant is kept.                                                    *)
LEMMA TypeStep ==
    ASSUME AttentionInv, Next
    PROVE  TypeOK'
<1>1. WellTyped /\ abandoned \in Nat
  BY InvTyped, TypeParts DEF AttentionInv
<1>2. UNCHANGED abandoned
  BY DEF Next, Claim, Begin, Step, AuthorizeActor, Authorize, DenyActor, Deny, Publish, Lookup,
         Act, Refuse, RecordApplied, RecordFailure, RecordAlways, Finish
<1>3. /\ journal' \in [Operations -> Rows] /\ exec' \in [Executors -> Calls]
      /\ items' \in [Keys -> Items] /\ published' \subseteq Updates /\ actions' \subseteq Acts
  BY <1>1, JournalTyped, NextMoves, NextItems
<1> QED BY <1>1, <1>2, <1>3, TypeParts
           DEF TypeOK, JournalTypeOK, Rows, Calls, Items, Acts, AnUpdate

LEMMA ItemsStep ==
    ASSUME AttentionInv, Next
    PROVE  ItemsFit'
<1> SUFFICES ASSUME NEW k \in Keys PROVE ItemFits(k)'
  BY DEF ItemsFit
<1>1. /\ ItemFits(k) /\ ItemMoves(k) /\ published \subseteq published'
      /\ published \subseteq Updates /\ items[k] \in Items
  BY NextItems, TypeParts DEF AttentionInv, ItemsFit
<1>2. CASE items'[k] = items[k] /\ (\A u \in published' \ published : u.key # k)
  BY <1>1, <1>2 DEF ItemFits
<1>3. ASSUME NEW u \in Updates, u.key = k, published' = published \cup {u},
             Upserted(items[k], items'[k], u)
      PROVE  ItemFits(k)'
  <2>1. \A v \in published \cup {u} : v.rank \in Nat
    BY <1>1, UpdateFacts
  <2>2. CASE items[k].state = "absent"
    BY <1>1, <1>3, <2>1, <2>2 DEF Upserted, ItemFits
  <2>3. CASE items[k].state # "absent"
    <3>1. /\ items[k].update \in published /\ items[k].update.rank \in Nat
          /\ items[k].generation >= 1 /\ items[k].generation \in Nat
      BY <1>1, <2>1, <2>3 DEF ItemFits, Items
    <3> QED BY <1>1, <1>3, <2>1, <2>3, <3>1 DEF Upserted, ItemFits, Newer
  <2> QED BY <2>2, <2>3
<1>4. CASE /\ items[k].state # "absent"
           /\ items'[k].state \in {"acknowledged", "snoozed", "resolved"}
           /\ items'[k].generation = items[k].generation
           /\ items'[k].update = items[k].update
           /\ UNCHANGED published
  BY <1>1, <1>4 DEF ItemFits
<1> QED BY <1>1, <1>2, <1>3, <1>4 DEF ItemMoves

(* Told and SinceListed of the same verdict and request after a step.        *)
StillTold(verdict, r) ==
    /\ verdict = "persisted" => r.update \in published'
    /\ verdict \in {"acknowledged", "snoozed", "resolved"} =>
          \E a \in actions' : a.op = r.op /\ Success(a.action) = verdict
StillListed(r) ==
    LET item == items'[r.update.key]
    IN  /\ item.generation >= r.generation
        /\ item.generation = r.generation => item.update.evidence = r.update.evidence

(* Within a generation the evidence of an item stays, and generations grow.  *)
LEMMA ListedStays ==
    ASSUME AttentionInv, Next, NEW r \in Requests, r.command \in Actions, SinceListed(r)
    PROVE  StillListed(r)
<1>1. PICK k \in Keys : k = r.update.key
  BY RequestFacts
<1>2. r.generation \in Nat \ {0}
  BY RequestFacts
<1>3. ItemFits(k) /\ ItemMoves(k) /\ items[k].generation \in Nat
  BY NextItems, ItemFields DEF AttentionInv, ItemsFit
<1>4. /\ items[k].generation >= r.generation
      /\ items[k].generation = r.generation => items[k].update.evidence = r.update.evidence
  BY <1>1 DEF SinceListed
<1>5. items[k].state # "absent"
  BY <1>2, <1>3, <1>4 DEF ItemFits, NoItem, Item
<1>6. /\ items'[k].generation >= r.generation
      /\ items'[k].generation = r.generation => items'[k].update.evidence = r.update.evidence
  <2>1. ASSUME NEW u \in Updates, Upserted(items[k], items'[k], u)
        PROVE  /\ items'[k].generation >= r.generation
               /\ items'[k].generation = r.generation =>
                     items'[k].update.evidence = r.update.evidence
    BY <1>2, <1>3, <1>4, <1>5, <2>1 DEF Upserted
  <2> QED BY <1>3, <1>4, <2>1 DEF ItemMoves
<1> QED BY <1>1, <1>6 DEF StillListed

LEMMA ToldStays ==
    ASSUME AttentionInv, Next, NEW verdict, NEW r, Told(verdict, r)
    PROVE  StillTold(verdict, r)
<1>1. published \subseteq published' /\ actions \subseteq actions'
  BY NextItems
<1> QED BY <1>1 DEF Told, StillTold

LEMMA CallsStep ==
    ASSUME AttentionInv, Next
    PROVE  CallsFit'
<1> SUFFICES ASSUME NEW x \in Executors, exec'[x].pc # "idle" PROVE CallFits(x)'
  BY DEF CallsFit, CallFits
<1> DEFINE r == exec[x].req
<1>1. WellTyped /\ CallMoves(x) /\ CallFits(x)
  BY InvTyped, NextMoves DEF AttentionInv, CallsFit
<1>2. CASE exec[x].pc = "idle" /\ exec'[x] # exec[x]
  BY <1>1, <1>2 DEF CallMoves, CallFits
<1>3. CASE exec[x].pc # "idle"
  <2>1. r \in Requests /\ journal[Op(x)].request = r /\ Op(x) \in Operations
    BY <1>1, <1>3, CallFacts DEF CallFits
  <2>2. journal[Op(x)].state # "absent"
    BY <2>1, NoRequestAssumption DEF AttentionInv, RowsFit, RowFits
  <2>3. journal'[Op(x)].request = r
    BY <1>1, <2>1, <2>2, RequestStays
  <2>4. CASE exec'[x] = exec[x]
    <3>1. exec[x].pc = "apply" /\ r.command \in Actions => StillListed(r)
      BY <1>1, <1>3, <2>1, ListedStays DEF CallFits
    <3>2. exec[x].pc \in {"effect", "finish"} => StillTold(exec[x].verdict, r)
      BY <1>1, <1>3, ToldStays DEF CallFits
    <3>3. exec[x].pc = "lookup" => r.command \in Actions
      BY <1>1, <1>3 DEF CallFits
    <3> QED BY <2>1, <2>3, <2>4, <3>1, <3>2, <3>3 DEF CallFits, Op, SinceListed, Told, StillTold, StillListed
  <2>5. CASE exec'[x] # exec[x]
    <3>1. exec'[x].req = r
      BY <1>1, <1>3, <2>5 DEF CallMoves
    <3>2. exec'[x].pc = "lookup" => r.command \in Actions
      BY <1>1, <1>3, <2>1, <2>5, RequestFacts DEF CallMoves
    <3>3. exec'[x].pc = "apply" /\ r.command \in Actions => StillListed(r)
      <4>1. "status.publish" \notin Actions
        BY DEF Actions
      <4>2. ASSUME r.command \in Actions, exec'[x].pc = "apply"
            PROVE  SinceListed(r)
        <5>1. /\ items[r.update.key].update = r.update
              /\ items[r.update.key].generation = r.generation
          BY <1>1, <1>3, <2>5, <4>1, <4>2 DEF CallMoves
        <5>2. r.generation \in Nat
          BY <2>1, <4>2, RequestFacts
        <5> QED BY <5>1, <5>2 DEF SinceListed
      <4> QED BY <2>1, <4>2, ListedStays
    <3>4. exec'[x].pc \in {"effect", "finish"} => StillTold(exec'[x].verdict, r)
      <4>1. CASE exec'[x].verdict = "persisted" /\ Publishes(x)
        BY <4>1 DEF Publishes, StillTold
      <4>2. CASE exec'[x].verdict = Success(r.command) /\ ActsNow(x)
        <5>1. /\ Material(x) \in actions'
              /\ Material(x).op = r.op /\ Material(x).action = r.command
          BY <4>2 DEF ActsNow, Material
        <5>2. Success(r.command) # "persisted"
          BY <4>2 DEF ActsNow, Success, Actions
        <5> QED BY <4>2, <5>1, <5>2 DEF StillTold
      <4>3. CASE exec'[x].verdict \in {"denied", "failed"}
        BY <4>3 DEF StillTold
      <4>4. CASE exec[x].pc = "effect" /\ exec'[x].verdict = exec[x].verdict
        BY <1>1, <4>4, ToldStays DEF CallFits
      <4> QED BY <1>1, <1>3, <2>5, <4>1, <4>2, <4>3, <4>4 DEF CallMoves
    <3> QED BY <2>1, <2>3, <3>1, <3>2, <3>3, <3>4 DEF CallFits, Op, SinceListed, Told, StillTold, StillListed
  <2> QED BY <2>4, <2>5
<1> QED BY <1>2, <1>3

LEMMA RowsStep ==
    ASSUME AttentionInv, Next
    PROVE  RowsFit'
<1> SUFFICES ASSUME NEW o \in Operations PROVE RowFits(o)'
  BY DEF RowsFit
<1>1. RowFits(o) /\ WellTyped /\ journal \in [Operations -> Rows]
  BY InvTyped, TypeParts DEF AttentionInv, RowsFit
<1>2. CASE journal'[o] = journal[o]
  <2>1. journal[o].state # "absent" => StillTold(journal[o].result, journal[o].request)
    BY <1>1, ToldStays DEF RowFits
  <2> QED BY <1>1, <1>2, <2>1 DEF RowFits, Told, StillTold
<1>3. ASSUME NEW r \in Requests, Begun(r) PROVE RowFits(o)'
  <2>1. \/ journal'[o] = journal[o]
        \/ o = r.op /\ journal'[o] = Row("running", r, <<"operation_started">>, "none")
    BY <1>1, <1>3 DEF Begun
  <2> QED BY <1>2, <2>1 DEF RowFits, Row, Told
<1>4. ASSUME NEW x \in Executors, NEW kind \in Kinds, Extended(Op(x), kind)
      PROVE  RowFits(o)'
  <2>1. \/ journal'[o] = journal[o]
        \/ /\ journal[o].state = "running" /\ journal'[o].state = "running"
           /\ journal'[o].request = journal[o].request
           /\ journal'[o].result = journal[o].result
    BY <1>1, <1>4 DEF Extended, Row, Running
  <2>2. journal[o].state = "running" => StillTold(journal[o].result, journal[o].request)
    BY <1>1, ToldStays DEF RowFits
  <2> QED BY <1>1, <1>2, <2>1, <2>2 DEF RowFits, Told, StillTold
<1>5. ASSUME NEW x \in Executors, Ending(x) PROVE RowFits(o)'
  <2>1. /\ exec[x].req \in Requests /\ Op(x) \in Operations
        /\ journal[Op(x)].request = exec[x].req
        /\ Told(exec[x].verdict, exec[x].req)
    BY <1>1, <1>5, CallFacts DEF Ending, AttentionInv, CallsFit, CallFits
  <2>2. StillTold(exec[x].verdict, exec[x].req)
    BY <2>1, ToldStays
  <2>3. \/ journal'[o] = journal[o]
        \/ /\ o = Op(x) /\ journal'[o].state = "terminal"
           /\ journal'[o].request = exec[x].req
           /\ journal'[o].result = exec[x].verdict
    BY <1>1, <1>5, <2>1 DEF Ending, FinishOperation, Row
  <2> QED BY <1>2, <2>1, <2>2, <2>3 DEF RowFits, Op, Told, StillTold
<1> QED BY <1>1, <1>2, <1>3, <1>4, <1>5, JournalStep

LEMMA ActionsStep ==
    ASSUME AttentionInv, Next
    PROVE  ActionsFit'
<1> SUFFICES ASSUME NEW a \in actions' PROVE ActionFits(a)'
  BY DEF ActionsFit
<1>1. WellTyped /\ actions' \subseteq Acts
  BY InvTyped, NextItems
<1>2. a.op \in Operations
  BY <1>1 DEF Acts
<1>3. ASSUME ActionFits(a) PROVE ActionFits(a)'
  <2>1. journal[a.op].state # "absent"
    BY <1>2, <1>3, NoRequestAssumption DEF ActionFits, AttentionInv, RowsFit, RowFits
  <2>2. journal'[a.op].request = journal[a.op].request
    BY <1>1, <1>2, <2>1, RequestStays
  <2> QED BY <1>3, <2>2 DEF ActionFits
<1>4. CASE a \in actions
  BY <1>3, <1>4 DEF AttentionInv, ActionsFit
<1>5. CASE a \notin actions
  <2>1. PICK x \in Executors : ActsNow(x) /\ a = Material(x)
    BY <1>5, EffectsStep DEF Effects, Publishes, ActsNow, attentionVars
  <2>2. ActionFits(a)
    BY <2>1, ActsFacts DEF ActionFits, Material
  <2> QED BY <1>3, <2>2
<1> QED BY <1>4, <1>5

LEMMA AttentionInvInit == Init => AttentionInv
<1> SUFFICES ASSUME Init PROVE AttentionInv
  OBVIOUS
<1> USE VocabularyAssumption, UnreadAssumption DEF Init, JournalInit
<1>1. NoRow \in Rows
  <2>1. <<>> \in Seq(Kinds)
    OBVIOUS
  <2> QED BY <2>1 DEF NoRow, Rows
<1>2. NoCall \in Calls
  BY CallTyped DEF NoCall
<1>3. NoItem \in Items
  BY DEF NoItem, Item, Items, AnUpdate
<1>4. TypeOK
  BY <1>1, <1>2, <1>3, TypeParts
<1>5. RowsFit /\ CallsFit
  BY DEF RowsFit, RowFits, CallsFit, CallFits, NoRow, NoCall, Call, Told
<1>6. ItemsFit /\ ActionsFit
  BY DEF ItemsFit, ItemFits, ActionsFit, NoItem, Item
<1> QED BY <1>4, <1>5, <1>6 DEF AttentionInv

LEMMA AttentionInvStep == AttentionInv /\ [Next]_vars => AttentionInv'
<1>1. ASSUME AttentionInv, Next PROVE AttentionInv'
  BY <1>1, TypeStep, ItemsStep, CallsStep, RowsStep, ActionsStep DEF AttentionInv
<1>2. ASSUME AttentionInv, UNCHANGED vars PROVE AttentionInv'
  BY <1>2 DEF vars, journalVars, attentionVars, AttentionInv, TypeOK, JournalTypeOK, RowsFit,
              RowFits, CallsFit, CallFits, ItemsFit, ItemFits, ActionsFit, ActionFits, Told,
              SinceListed, Op
<1> QED BY <1>1, <1>2

LEMMA AttentionInvHolds == Spec => []AttentionInv
BY AttentionInvInit, AttentionInvStep, PTL DEF Spec

-----------------------------------------------------------------------------
(* Every state of the inbox is of the declared types.                       *)
THEOREM AttentionIsTyped == Spec => []TypeOK
<1>1. AttentionInv => TypeOK
  BY DEF AttentionInv
<1> QED BY <1>1, AttentionInvHolds, PTL

(* The item of a key shows the newest update that was published for it,      *)
(* whatever the order of arrival.                                           *)
THEOREM NewestUpdateIsCurrent == Spec => []NewestIsCurrent
<1>1. AttentionInv => NewestIsCurrent
  <2> SUFFICES ASSUME AttentionInv, NEW u \in published
               PROVE  /\ items[u.key].update \in published
                      /\ u.rank <= items[u.key].update.rank
    BY DEF NewestIsCurrent
  <2>1. u.key \in Keys
    BY TypeParts, UpdateFacts DEF AttentionInv
  <2> QED BY <2>1 DEF AttentionInv, ItemsFit, ItemFits
<1> QED BY <1>1, AttentionInvHolds, PTL

(* An operation acts only on the evidence that its manager listed.           *)
THEOREM ActionsAreOnListedEvidence == Spec => []ActsOnListedEvidence
<1>1. AttentionInv => ActsOnListedEvidence
  BY DEF AttentionInv, ActionsFit, ActionFits, ActsOnListedEvidence
<1> QED BY <1>1, AttentionInvHolds, PTL

(* Success is in the journal only for an effect that is stored.              *)
THEOREM AttentionSuccessIsStored == Spec => []SuccessIsStored
<1>1. AttentionInv => SuccessIsStored
  BY DEF AttentionInv, RowsFit, RowFits, Told, SuccessIsStored
<1> QED BY <1>1, AttentionInvHolds, PTL

(* A closed or a hidden item is opened only by new evidence.                 *)
THEOREM ClosedItemsReopenForEvidence == Spec => ReopenedByEvidence
<1>1. AttentionInv /\ [Next]_vars =>
        [\A k \in Keys :
            /\ items[k].state \in {"resolved", "snoozed"}
            /\ items'[k].state = "open"
            => items'[k].update.evidence # items[k].update.evidence]_vars
  <2> SUFFICES ASSUME AttentionInv, Next, NEW k \in Keys,
                      items[k].state \in {"resolved", "snoozed"}, items'[k].state = "open"
               PROVE  items'[k].update.evidence # items[k].update.evidence
    OBVIOUS
  <2>1. ItemMoves(k)
    BY NextItems
  <2> QED BY <2>1 DEF ItemMoves, Upserted
<1> QED BY <1>1, AttentionInvHolds, PTL DEF Spec, ReopenedByEvidence

=============================================================================
