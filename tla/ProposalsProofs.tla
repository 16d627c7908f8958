---------------------------- MODULE ProposalsProofs ----------------------------
(* Proposals, for any number of requests, executors, branches and calls: what   *)
(* GitHub has of a submission is what an operation generated, success is on      *)
(* record, and every branch is a lineage.                                       *)
EXTENDS Proposals, TLAPS

\* The journal and the calls in progress: a row keeps its request, and an executor
\* works on the request of its row.
Known(o) == journal[o].state # "absent"
Request(o) == journal[o].request
JournalFits ==
    /\ journal = [o \in Operations |-> journal[o]]
    /\ \A o \in Operations : Known(o) => Request(o) \in Requests /\ Request(o).op = o

CallKeys == {"pc", "req", "knows", "seen", "verdict"}
SeenKeys == {"head", "at", "changed"}
CallFits(x) ==
    /\ exec[x] = [k \in CallKeys |-> exec[x][k]]
    /\ exec[x].seen = [k \in SeenKeys |-> exec[x].seen[k]]
    /\ At(x) \in 0 .. calls
    /\ exec[x].pc # "idle" =>
          Req(x) \in Requests /\ Known(Op(x)) /\ Request(Op(x)) = Req(x) /\ calls > 0
ExecFits ==
    /\ exec = [x \in Executors |-> exec[x]]
    /\ calls \in Nat /\ calls <= MaxCalls
    /\ \A x \in Executors : CallFits(x)
Protocol == JournalFits /\ ExecFits

Grows == \A o \in Operations : Known(o) => Known(o)' /\ Request(o)' = Request(o)

LEMMA UnreadShape == Unread = [k \in SeenKeys |-> Unread[k]] /\ Unread.at = 0
BY CommitAssumption DEF SeenKeys

LEMMA CallFields ==
    ASSUME NEW pc, NEW r, NEW knows, NEW seen, NEW verdict
    PROVE  LET c == Call(pc, r, knows, seen, verdict)
           IN  /\ c.pc = pc /\ c.req = r /\ c.knows = knows /\ c.seen = seen
               /\ c.verdict = verdict
               /\ c = [k \in CallKeys |-> c[k]]
BY DEF Call, CallKeys

LEMMA CallOf ==
    ASSUME NEW e, e = [k \in CallKeys |-> e[k]]
    PROVE  e = Call(e.pc, e.req, e.knows, e.seen, e.verdict)
BY DEF Call, CallKeys

LEMMA CallLooks ==
    ASSUME NEW c, c = [k \in CallKeys |-> c[k]], NEW pc, NEW knows
    PROVE  [c EXCEPT !.knows = knows, !.pc = pc] = Call(pc, c.req, knows, c.seen, c.verdict)
<1> DEFINE e == [c EXCEPT !.knows = knows, !.pc = pc]
<1>1. /\ e = [k \in CallKeys |-> e[k]]
      /\ e.pc = pc /\ e.req = c.req /\ e.knows = knows /\ e.seen = c.seen
      /\ e.verdict = c.verdict
  BY DEF CallKeys
<1> HIDE DEF e
<1>2. e = Call(pc, c.req, knows, c.seen, c.verdict)
  BY <1>1, CallOf
<1> QED BY <1>2 DEF e

LEMMA CallObserves ==
    ASSUME NEW c, c = [k \in CallKeys |-> c[k]], NEW pc, NEW verdict
    PROVE  [c EXCEPT !.pc = pc, !.verdict = verdict] = Call(pc, c.req, c.knows, c.seen, verdict)
<1> DEFINE e == [c EXCEPT !.pc = pc, !.verdict = verdict]
<1>1. /\ e = [k \in CallKeys |-> e[k]]
      /\ e.pc = pc /\ e.req = c.req /\ e.knows = c.knows /\ e.seen = c.seen
      /\ e.verdict = verdict
  BY DEF CallKeys
<1> HIDE DEF e
<1>2. e = Call(pc, c.req, c.knows, c.seen, verdict)
  BY <1>1, CallOf
<1> QED BY <1>2 DEF e

LEMMA NoCallFields == NoCall.pc = "idle" /\ NoCall.seen = Unread
BY CallFields DEF NoCall

LEMMA DatedShape ==
    ASSUME NEW x \in Executors
    PROVE  /\ Dated(x) = [k \in SeenKeys |-> Dated(x)[k]] /\ Dated(x).at = At(x)
BY UnreadShape DEF Dated, SeenKeys

LEMMA ChangedShape ==
    ASSUME NEW x \in Executors, NEW changed
    PROVE  LET seen == [Dated(x) EXCEPT !.changed = changed]
           IN  seen = [k \in SeenKeys |-> seen[k]] /\ seen.at = At(x) /\ seen.changed = changed
BY DatedShape DEF SeenKeys

\* A row changes by an event or by its result.
Journals(o) ==
    \/ journal' = journal
    \/ \E kind : AppendEvent(o, kind)
    \/ \E result : FinishOperation(o, result)

LEMMA JournalGrows ==
    ASSUME JournalFits, NEW o \in Operations, Known(o), Journals(o)
    PROVE  JournalFits' /\ Grows
<1>1. CASE journal' = journal
  BY <1>1 DEF JournalFits, Grows, Known, Request
<1>2. CASE \E kind : AppendEvent(o, kind)
  <2>1. PICK events :
          journal' = [journal EXCEPT ![o] = Row("running", Request(o), events, journal[o].result)]
    BY <1>2 DEF AppendEvent, Request
  <2>2. /\ journal'[o].state # "absent" /\ journal'[o].request = Request(o)
        /\ \A q \in Operations : q # o => journal'[q] = journal[q]
    BY <2>1 DEF JournalFits, Row
  <2>3. journal' = [q \in Operations |-> journal'[q]]
    BY <2>1 DEF JournalFits
  <2> QED BY <2>2, <2>3 DEF JournalFits, Grows, Known, Request
<1>3. CASE \E result : FinishOperation(o, result)
  <2>1. PICK events, result :
          journal' = [journal EXCEPT ![o] = IF journal[o].state = "terminal" THEN journal[o]
                                            ELSE Row("terminal", Request(o), events, result)]
    BY <1>3 DEF FinishOperation, Request
  <2>2. /\ journal'[o].state # "absent" /\ journal'[o].request = Request(o)
        /\ \A q \in Operations : q # o => journal'[q] = journal[q]
    BY <2>1 DEF JournalFits, Row, Known, Request
  <2>3. journal' = [q \in Operations |-> journal'[q]]
    BY <2>1 DEF JournalFits
  <2> QED BY <2>2, <2>3 DEF JournalFits, Grows, Known, Request
<1> QED BY <1>1, <1>2, <1>3 DEF Journals

\* Where a call goes on from where it stands.
Goes(x, c) == exec' = [exec EXCEPT ![x] = c]
Continues(x, c) ==
    \/ c = NoCall
    \/ /\ c = Call(c.pc, Req(x), c.knows, c.seen, c.verdict)
       /\ c.seen = [k \in SeenKeys |-> c.seen[k]]
       /\ c.seen.at \in {0, At(x), calls}
Acts(x) == (\E c : Goes(x, c) /\ Continues(x, c)) /\ Journals(Op(x))

LEMMA Going ==
    ASSUME NEW x \in Executors, NEW pc, NEW knows, NEW seen, NEW verdict,
           seen = [k \in SeenKeys |-> seen[k]], seen.at \in {0, At(x), calls},
           exec' = [exec EXCEPT ![x] = Call(pc, Req(x), knows, seen, verdict)]
    PROVE  \E c : Goes(x, c) /\ Continues(x, c)
<1> DEFINE c == Call(pc, Req(x), knows, seen, verdict)
<1>1. /\ c.pc = pc /\ c.knows = knows /\ c.seen = seen /\ c.verdict = verdict
  BY DEF Call
<1>2. Goes(x, c) /\ Continues(x, c)
  BY <1>1 DEF Goes, Continues
<1> QED BY <1>2

LEMMA Returning ==
    ASSUME NEW x \in Executors, Return(x)
    PROVE  \E c : Goes(x, c) /\ Continues(x, c)
BY DEF Return, Goes, Continues

LEMMA Seeing ==
    ASSUME NEW x \in Executors, NEW pc, NEW seen, See(x, pc, seen),
           seen = [k \in SeenKeys |-> seen[k]], seen.at \in {0, At(x), calls}
    PROVE  Acts(x)
<1>1. journal' = journal /\ exec' = [exec EXCEPT ![x] = Call(pc, Req(x), {}, seen, "none")]
  BY DEF See
<1> QED BY <1>1, Going DEF Acts, Journals

LEMMA Failing ==
    ASSUME NEW x \in Executors, Fail(x)
    PROVE  Acts(x)
BY UnreadShape, Seeing DEF Fail

LEMMA Moving ==
    ASSUME NEW x \in Executors, NEW pc, Move(x, pc)
    PROVE  Acts(x)
BY DatedShape, Seeing DEF Move

LEMMA Recording ==
    ASSUME NEW x \in Executors, NEW kind, NEW result, RecordAlways(x, kind, result)
    PROVE  Acts(x)
<1>1. CASE AppendEvent(Op(x), kind) /\ Goto(x, "finish", result)
  <2>1. exec' = [exec EXCEPT ![x] = Call("finish", Req(x), exec[x].knows, Unread, result)]
    BY <1>1 DEF Goto, Req
  <2> QED BY <1>1, <2>1, UnreadShape, Going DEF Acts, Journals
<1>2. CASE UNCHANGED journal /\ Return(x)
  BY <1>2, Returning DEF Acts, Journals
<1> QED BY <1>1, <1>2 DEF RecordAlways

LEMMA Authorizing ==
    ASSUME NEW x \in Executors, ExecFits, AuthorizeActor(x)
    PROVE  Acts(x)
<1> DEFINE next == IF Req(x).command = Accepts THEN "review" ELSE "check"
<1>1. Record(x, "actor_authorized", Read(x, next, exec[x].seen))
  BY DEF AuthorizeActor, Authorize
<1>2. CASE Read(x, next, exec[x].seen) /\ Journals(Op(x))
  <2>1. exec' = [exec EXCEPT ![x] = Call(next, Req(x), exec[x].knows, exec[x].seen, "none")]
    BY <1>2 DEF Read, Req
  <2>2. exec[x].seen = [k \in SeenKeys |-> exec[x].seen[k]] /\ exec[x].seen.at = At(x)
    BY DEF ExecFits, CallFits, At
  <2> HIDE DEF next
  <2> QED BY <1>2, <2>1, <2>2, Going DEF Acts
<1>3. CASE UNCHANGED journal /\ Return(x)
  BY <1>3, Returning DEF Acts, Journals
<1> HIDE DEF next
<1> QED BY <1>1, <1>2, <1>3 DEF Record, Journals

LEMMA Looking ==
    ASSUME NEW x \in Executors, ExecFits, NEW pc, NEW next, Look(x, pc, next)
    PROVE  Acts(x)
<1>1. journal' = journal
  BY DEF Look
<1>2. CASE Return(x)
  BY <1>1, <1>2, Returning DEF Acts, Journals
<1>3. CASE \E knows : exec' = [exec EXCEPT ![x].knows = knows, ![x].pc = next]
  <2>1. PICK knows : exec' = [exec EXCEPT ![x].knows = knows, ![x].pc = next]
    BY <1>3
  <2>2. exec[x] = [k \in CallKeys |-> exec[x][k]]
    BY DEF ExecFits, CallFits
  <2>3. [exec[x] EXCEPT !.knows = knows, !.pc = next] =
            Call(next, Req(x), knows, exec[x].seen, exec[x].verdict)
    BY <2>2, CallLooks, Zenon DEF Req
  <2>4. exec' = [exec EXCEPT ![x] = Call(next, Req(x), knows, exec[x].seen, exec[x].verdict)]
    BY <2>1, <2>3 DEF ExecFits
  <2>5. exec[x].seen = [k \in SeenKeys |-> exec[x].seen[k]] /\ exec[x].seen.at = At(x)
    BY DEF ExecFits, CallFits, At
  <2> QED BY <1>1, <2>4, <2>5, Going DEF Acts, Journals
<1> QED BY <1>2, <1>3 DEF Look

LEMMA Staging ==
    ASSUME NEW x \in Executors, NEW pc, NEW kind, NEW group, NEW next, NEW verdict,
           Stage(x, pc, kind, group, next, verdict)
    PROVE  Acts(x)
<1>1. CASE Forget(x, next, verdict) /\ Journals(Op(x))
  <2>1. exec' = [exec EXCEPT ![x] = Call(next, Req(x), {}, Unread, verdict)]
    BY <1>1 DEF Forget
  <2> QED BY <1>1, <2>1, UnreadShape, Going DEF Acts
<1>2. CASE Return(x) /\ UNCHANGED journal
  BY <1>2, Returning DEF Acts, Journals
<1> QED BY <1>1, <1>2 DEF Stage, Journals

LEMMA Asking ==
    ASSUME NEW x \in Executors, NEW pc, NEW kind, CallGitHub(x, pc, kind)
    PROVE  Acts(x)
<1>1. exec' = [exec EXCEPT ![x] = Call(pc, Req(x), {}, Unread, "none")] /\ journal' = journal
  BY DEF CallGitHub
<1> QED BY <1>1, UnreadShape, Going DEF Acts, Journals

LEMMA Observing ==
    ASSUME NEW x \in Executors, ExecFits, NEW found, NEW none, Observe(x, found, none),
           none => Acts(x)
    PROVE  Acts(x)
<1>1. CASE Fail(x)
  BY <1>1, Failing
<1>2. CASE /\ exec' = [exec EXCEPT ![x].pc = "opened?", ![x].verdict = found]
           /\ UNCHANGED <<journal, abandoned>>
  <2>1. exec[x] = [k \in CallKeys |-> exec[x][k]]
    BY DEF ExecFits, CallFits
  <2>2. [exec[x] EXCEPT !.pc = "opened?", !.verdict = found] =
            Call("opened?", Req(x), exec[x].knows, exec[x].seen, found)
    BY <2>1, CallObserves, Zenon DEF Req
  <2>3. exec' = [exec EXCEPT ![x] = Call("opened?", Req(x), exec[x].knows, exec[x].seen, found)]
    BY <1>2, <2>2 DEF ExecFits
  <2>4. exec[x].seen = [k \in SeenKeys |-> exec[x].seen[k]] /\ exec[x].seen.at = At(x)
    BY DEF ExecFits, CallFits, At
  <2> QED BY <1>2, <2>3, <2>4, Going DEF Acts, Journals
<1> QED BY <1>1, <1>2 DEF Observe

LEMMA StepActs ==
    ASSUME ExecFits, NEW x \in Executors, Step(x) \/ Crash(x)
    PROVE  Acts(x) /\ exec[x].pc # "idle"
<1> USE DEF Journals
<1>1. CASE AuthorizeActor(x)
  BY <1>1, Authorizing DEF AuthorizeActor, Authorize
<1>2. CASE DenyActor(x)
  BY <1>2, Recording DEF DenyActor, Deny
<1>3. CASE Review(x)
  <2>1. [Unread EXCEPT !.at = calls] = [k \in SeenKeys |-> [Unread EXCEPT !.at = calls][k]]
        /\ [Unread EXCEPT !.at = calls].at = calls
    BY UnreadShape DEF SeenKeys
  <2>2. Fail(x) \/ See(x, "resolve", [Unread EXCEPT !.at = calls])
    BY <1>3 DEF Review
  <2>3. See(x, "resolve", [Unread EXCEPT !.at = calls]) => Acts(x)
    BY <2>1, Seeing
  <2> QED BY <1>3, <2>2, <2>3, Failing DEF Review
<1>4. CASE PrepareSubmission(x) \/ PrepareImpact(x) \/ AnalyzeBatch(x) \/ PrepareDecision(x)
  <2>1. \E pc : Fail(x) \/ Move(x, pc)
    BY <1>4 DEF PrepareSubmission, PrepareImpact, AnalyzeBatch, PrepareDecision, Prepare
  <2> QED BY <1>4, <2>1, Failing, Moving
       DEF PrepareSubmission, PrepareImpact, AnalyzeBatch, PrepareDecision, Prepare
<1>5. CASE Resolve(x)
  <2> DEFINE seen(head) == [exec[x].seen EXCEPT !.head = head]
  <2>1. \A head : seen(head) = [k \in SeenKeys |-> seen(head)[k]] /\ seen(head).at = At(x)
    <3>1. exec[x].seen = [k \in SeenKeys |-> exec[x].seen[k]]
      BY DEF ExecFits, CallFits
    <3>2. ASSUME NEW s, s = [k \in SeenKeys |-> s[k]], NEW head
          PROVE  LET t == [s EXCEPT !.head = head]
                 IN  t = [k \in SeenKeys |-> t[k]] /\ t.at = s.at
      BY <3>2 DEF SeenKeys
    <3> QED BY <3>1, <3>2 DEF At
  <2>2. Fail(x) \/ \E head : See(x, "worktree", seen(head))
    BY <1>5 DEF Resolve
  <2> HIDE DEF seen
  <2>3. ASSUME NEW head, See(x, "worktree", seen(head))
        PROVE  Acts(x)
    BY <2>1, <2>3, Seeing
  <2> QED BY <1>5, <2>2, <2>3, Failing DEF Resolve
<1>6. CASE Worktree(x)
  BY <1>6, Failing, Moving DEF Worktree
<1>7. CASE Checkout(x)
  BY <1>7, Moving DEF Checkout
<1>8. CASE Lock(x)
  BY <1>8, Moving DEF Lock
<1>9. CASE WriteFile(x)
  <2>1. Fail(x) \/ Move(x, "write")
        \/ \E changed : See(x, "truncate", [Dated(x) EXCEPT !.changed = changed])
    BY <1>9 DEF WriteFile
  <2>2. ASSUME NEW changed, See(x, "truncate", [Dated(x) EXCEPT !.changed = changed])
        PROVE  Acts(x)
    BY <2>2, ChangedShape, Seeing
  <2> QED BY <1>9, <2>1, <2>2, Failing, Moving DEF WriteFile
<1>10. CASE Truncate(x)
  <2>1. exec[x].seen = [k \in SeenKeys |-> exec[x].seen[k]] /\ exec[x].seen.at = At(x)
    BY DEF ExecFits, CallFits, At
  <2>2. See(x, "fill", exec[x].seen) /\ exec[x].pc # "idle"
    BY <1>10 DEF Truncate
  <2> QED BY <2>1, <2>2, Seeing
<1>11. CASE Fill(x)
  BY <1>11, Moving DEF Fill
<1>12. CASE Status(x)
  <2>1. Fail(x) \/ \E changed : See(x, "commit", [Dated(x) EXCEPT !.changed = changed])
    BY <1>12 DEF Status, FailLocked
  <2>2. ASSUME NEW changed, See(x, "commit", [Dated(x) EXCEPT !.changed = changed])
        PROVE  Acts(x)
    BY <2>2, ChangedShape, Seeing
  <2> QED BY <1>12, <2>1, <2>2, Failing DEF Status
<1>13. CASE CommitFiles(x)
  <2>1. exec[x].pc # "idle" /\ (Fail(x) \/ \E pc : See(x, pc, Unread))
    BY <1>13 DEF CommitFiles
  <2> QED BY <2>1, UnreadShape, Failing, Seeing
<1>14. CASE StageNothing(x)
  BY <1>14, Looking, Staging DEF StageNothing, Look, Stage
<1>15. CASE StagePrepared(x)
  BY <1>15, Looking, Staging DEF StagePrepared, Look, Stage
<1>16. CASE StagePushed(x)
  BY <1>16, Looking, Staging DEF StagePushed, Look, Stage
<1>17. CASE StageOpened(x)
  BY <1>17, Looking, Staging DEF StageOpened, Look, Stage
<1>18. CASE RecordAcceptance(x)
  BY <1>18, Recording DEF RecordAcceptance
<1>19. CASE ReadHead(x)
  BY <1>19, Failing, Moving DEF ReadHead
<1>20. CASE Push(x) \/ CreatePull(x)
  BY <1>20, Asking DEF Push, CreatePull
<1>21. CASE ReadPushed(x)
  BY <1>21, Failing, Moving, Returning DEF ReadPushed, MissingHead, RaiseUnrecorded, Acts
<1>22. CASE ReadPull(x)
  <2>1. Move(x, "create") => Acts(x)
    BY Moving
  <2>2. Observe(x, "pr_observed", Move(x, "create")) /\ exec[x].pc # "idle"
    BY <1>22 DEF ReadPull
  <2> QED BY <2>1, <2>2, Observing
<1>23. CASE ReadCreated(x)
  <2>1. MissingPull(x) => Acts(x)
    BY Returning DEF MissingPull, RaiseUnrecorded, Acts
  <2>2. Observe(x, "pr_created", MissingPull(x)) /\ exec[x].pc # "idle"
    BY <1>23 DEF ReadCreated
  <2> QED BY <2>1, <2>2, Observing
<1>24. CASE RecordFailure(x)
  BY <1>24, Recording DEF RecordFailure
<1>25. CASE Finish(x)
  BY <1>25, Returning DEF Finish, Acts
<1>26. CASE Crash(x)
  BY <1>26, Returning DEF Crash, Abandon, Acts
<1> QED
  BY <1>1, <1>2, <1>3, <1>4, <1>5, <1>6, <1>7, <1>8, <1>9, <1>10, <1>11, <1>12, <1>13, <1>14,
     <1>15, <1>16, <1>17, <1>18, <1>19, <1>20, <1>21, <1>22, <1>23, <1>24, <1>25, <1>26 DEF Step

\* Only one executor moves, and a call keeps its request to its end.
Alone(x) == \A y \in Executors : y # x => exec'[y] = exec[y]
Keeps(x) == exec'[x] = NoCall \/ Req(x)' = Req(x)

LEMMA ActsFit ==
    ASSUME Protocol, NEW x \in Executors, Acts(x), exec[x].pc # "idle", calls' = calls
    PROVE  Protocol' /\ Grows /\ Alone(x) /\ Keeps(x)
<1>1. /\ Req(x) \in Requests /\ Known(Op(x)) /\ Request(Op(x)) = Req(x) /\ calls > 0
      /\ Op(x) \in Operations /\ At(x) \in 0 .. calls /\ calls \in Nat /\ calls <= MaxCalls
  BY RequestAssumption DEF Protocol, ExecFits, CallFits, Op, Req
<1>2. JournalFits' /\ Grows
  BY <1>1, JournalGrows DEF Acts, Protocol
<1>3. PICK c : Goes(x, c) /\ Continues(x, c)
  BY DEF Acts
<1>4. exec'[x] = c /\ Alone(x) /\ exec' = [y \in Executors |-> exec'[y]]
  BY <1>3 DEF Goes, Protocol, ExecFits, Alone
<1>5. \A y \in Executors : y # x => CallFits(y)'
  <2> SUFFICES ASSUME NEW y \in Executors, y # x
               PROVE  CallFits(y)'
    OBVIOUS
  <2>1. exec'[y] = exec[y] /\ CallFits(y)
    BY <1>4 DEF Alone, Protocol, ExecFits
  <2>2. exec[y].pc # "idle" => Known(Op(y))' /\ Request(Op(y))' = Request(Op(y))
    <3>1. exec[y].pc # "idle" => Op(y) \in Operations /\ Known(Op(y))
      BY <2>1, RequestAssumption DEF CallFits, Op, Req
    <3>2. Op(y)' = Op(y)
      BY <2>1 DEF Op
    <3> QED BY <1>2, <3>1, <3>2 DEF Grows, Known, Request
  <2> QED BY <2>1, <2>2 DEF CallFits, At, Req, Op
<1>6. CallFits(x)' /\ Keeps(x)
  <2>1. CASE c = NoCall
    <3>1. exec'[x] = [k \in CallKeys |-> exec'[x][k]] /\ exec'[x].pc = "idle" /\ exec'[x].seen = Unread
      BY <1>4, <2>1, NoCallFields, CallFields DEF NoCall
    <3> QED BY <1>1, <1>4, <2>1, <3>1, UnreadShape DEF CallFits, At, Keeps
  <2>2. CASE /\ c = Call(c.pc, Req(x), c.knows, c.seen, c.verdict)
             /\ c.seen = [k \in SeenKeys |-> c.seen[k]]
             /\ c.seen.at \in {0, At(x), calls}
    <3>1. c.req = Req(x) /\ c = [k \in CallKeys |-> c[k]]
      BY <2>2, CallFields
    <3>2. Req(x)' = Req(x) /\ Op(x)' = Op(x) /\ At(x)' = c.seen.at
      BY <1>4, <3>1 DEF Req, Op, At
    <3>3. Known(Op(x))' /\ Request(Op(x))' = Req(x)
      BY <1>1, <1>2, <3>2 DEF Grows, Known, Request
    <3>4. c.seen.at \in 0 .. calls
      BY <1>1, <2>2
    <3> QED BY <1>1, <1>4, <2>2, <3>1, <3>2, <3>3, <3>4 DEF CallFits, Keeps
  <2> QED BY <1>3, <2>1, <2>2 DEF Continues
<1> QED BY <1>1, <1>2, <1>4, <1>5, <1>6 DEF Protocol, ExecFits

LEMMA ClaimFits ==
    ASSUME Protocol, NEW x \in Executors, NEW r \in Requests, Claim(x, r)
    PROVE  /\ Protocol' /\ Grows /\ Alone(x)
           /\ exec'[x].pc = "authorize" /\ Req(x)' = r
<1>1. PICK knows : exec' = [exec EXCEPT ![x] = Call("authorize", r, knows, Unread, "none")]
  BY DEF Claim, Begin
<1>2. /\ exec' = [y \in Executors |-> exec'[y]] /\ Alone(x)
      /\ exec'[x] = Call("authorize", r, knows, Unread, "none")
  BY <1>1 DEF Protocol, ExecFits, Alone
<1>3. /\ exec'[x].pc = "authorize" /\ exec'[x].req = r /\ exec'[x].seen = Unread
      /\ exec'[x] = [k \in CallKeys |-> exec'[x][k]]
  BY <1>2, CallFields
<1>4. calls' = calls + 1 /\ calls < MaxCalls /\ calls \in Nat /\ MaxCalls \in Nat
  BY CommitAssumption DEF Claim, Protocol, ExecFits
<1>5. r.op \in Operations
  BY RequestAssumption
<1>6. JournalFits' /\ Grows /\ Known(r.op)' /\ Request(r.op)' = r
  <2>1. CASE BeginNew(r)
    <3>1. /\ journal[r.op].state = "absent"
          /\ journal' = [journal EXCEPT ![r.op] = Row("running", r, <<"operation_started">>, "none")]
      BY <2>1 DEF BeginNew
    <3>2. /\ journal' = [o \in Operations |-> journal'[o]]
          /\ \A o \in Operations : o # r.op => journal'[o] = journal[o]
          /\ journal'[r.op].state = "running" /\ journal'[r.op].request = r
      BY <1>5, <3>1 DEF Protocol, JournalFits, Row
    <3> QED BY <1>5, <3>1, <3>2 DEF Protocol, JournalFits, Grows, Known, Request
  <2>2. CASE BeginAgain(r)
    BY <1>5, <2>2 DEF BeginAgain, Running, Protocol, JournalFits, Grows, Known, Request
  <2> QED BY <2>1, <2>2 DEF Claim, Begin
<1>7. ASSUME NEW y \in Executors, y # x
      PROVE  CallFits(y)'
  <2>1. exec'[y] = exec[y] /\ CallFits(y)
    BY <1>2, <1>7 DEF Alone, Protocol, ExecFits
  <2>2. exec[y].pc # "idle" => Known(Op(y))' /\ Request(Op(y))' = Request(Op(y))
    <3>1. exec[y].pc # "idle" => Op(y) \in Operations /\ Known(Op(y))
      BY <2>1, RequestAssumption DEF CallFits, Op, Req
    <3>2. Op(y)' = Op(y)
      BY <2>1 DEF Op
    <3> QED BY <1>6, <3>1, <3>2 DEF Grows, Known, Request
  <2>3. At(y)' = At(y) /\ At(y) \in 0 .. calls' /\ Req(y)' = Req(y) /\ Op(y)' = Op(y)
    BY <1>4, <2>1 DEF CallFits, At, Req, Op
  <2>4. calls > 0 => calls' > 0
    BY <1>4
  <2> QED BY <2>1, <2>2, <2>3, <2>4 DEF CallFits
<1>8. CallFits(x)'
  <2>1. Req(x)' = r /\ Op(x)' = r.op /\ At(x)' = 0 /\ calls' > 0
    BY <1>3, <1>4, UnreadShape DEF Req, Op, At
  <2>2. Known(Op(x))' /\ Request(Op(x))' = r
    BY <1>6, <2>1 DEF Known, Request
  <2> QED BY <1>3, <1>4, <2>1, <2>2, UnreadShape DEF CallFits
<1>9. ExecFits'
  BY <1>2, <1>4, <1>7, <1>8 DEF ExecFits
<1> QED BY <1>2, <1>3, <1>6, <1>9 DEF Protocol, Req

\* Every step is of one executor, or of GitHub and its users.
Outside ==
    \/ \E m \in flying : Land(m)
    \/ \E b \in Branches : PublishAcceptance(b)
    \/ \E b \in Branches : \E i \in DOMAIN pulls[b] : Touch(b, i)
    \/ Advance

LEMMA OutsideFits ==
    ASSUME Protocol, journalVars' = journalVars, calls' = calls
    PROVE  Protocol' /\ Grows
BY DEF journalVars, Protocol, JournalFits, ExecFits, CallFits, Grows, Known, Request, Req, Op, At

-----------------------------------------------------------------------------
\* The branches and their worktrees.
BranchKeys == {"base", "checked", "log", "tree"}
Commits == [op: Operations, parent: Nat \cup Operations]
RepoShape ==
    /\ branch = [b \in Branches |-> branch[b]]
    /\ files = [b \in Branches |-> files[b]]
    /\ lock = [b \in Branches |-> lock[b]]
    /\ \A b \in Branches :
          /\ branch[b] = [k \in BranchKeys |-> branch[b][k]]
          /\ branch[b].base \in Nat
          /\ branch[b].log \in Seq(Commits)
          /\ files[b] = [f \in FileNames |-> files[b][f]]

\* What a step of x does with them: it takes a lock that is free or gives up its
\* own, writes one file, starts a branch or adds a commit to it.
Locks(x) ==
    /\ lock' = [b \in Branches |-> lock'[b]]
    /\ \A b \in Branches : \A y \in Executors : y # x /\ lock[b] = y => lock'[b] = y

Allowed(x, f, content) ==
    \/ f = Leftover
    \/ /\ f \in FileSet(Req(x))
       /\ MayWrite(x, f)
       /\ content = Generated(Req(x), f, At(x))
Writes(x) ==
    \/ files' = files
    \/ \E f \in FileNames : \E content :
          /\ files' = [files EXCEPT ![Req(x).branch][f] = content]
          /\ exec[x].pc \in {"write", "truncate", "fill"}
          /\ exec[x].pc = "write" => Locked(Req(x)) /\ Allowed(x, f, content)

Starts(x) ==
    /\ exec[x].pc = "worktree"
    /\ branch[Req(x).branch].base = 0
    /\ branch' = [branch EXCEPT ![Req(x).branch].base = exec[x].seen.head.parent]
Checks(x) ==
    /\ exec[x].pc = "checkout"
    /\ branch' = [branch EXCEPT ![Req(x).branch].checked = TRUE]
Adds(x) ==
    /\ exec[x].pc = "commit"
    /\ exec[x].seen.changed # {}
    /\ files' = files
    /\ branch' = [branch EXCEPT
          ![Req(x).branch].log = Append(branch[Req(x).branch].log, Child(Req(x).branch, Op(x))),
          ![Req(x).branch].tree = files[Req(x).branch]]
Branching(x) == branch' = branch \/ Starts(x) \/ Checks(x) \/ Adds(x)

LEMMA FileSets ==
    ASSUME NEW r \in Requests
    PROVE  /\ DOMAIN FilesOf(r) \subseteq 1 .. 2
           /\ FileSet(r) \subseteq {"submission", "impact", "report"}
           /\ FileSet(r) \subseteq FileNames
           /\ r.command = "submission.create" => FileSet(r) = {"submission"}
           /\ r.command = Accepts => FileSet(r) = {"report", "submission"}
           /\ r.command \notin Exclusive => FileSet(r) = {"impact"}
<1>1. CASE r.command = "submission.create"
  BY <1>1 DEF FilesOf, FileSet, FileNames, Exclusive, Accepts
<1>2. CASE r.command = Accepts
  BY <1>2 DEF FilesOf, FileSet, FileNames, Exclusive, Accepts
<1>3. CASE r.command \notin Exclusive
  BY <1>3 DEF FilesOf, FileSet, FileNames, Exclusive, Accepts
<1> QED BY <1>1, <1>2, <1>3 DEF Exclusive

\* The next file is one that is missing.
LEMMA NextIsMissing ==
    ASSUME NEW x \in Executors, Req(x) \in Requests, Missing(x) # {}
    PROVE  NextFile(x) \in FileSet(Req(x))
<1>1. Missing(x) \subseteq DOMAIN FilesOf(Req(x))
  BY DEF Missing
<1>2. \E i \in Missing(x) : \A j \in Missing(x) : i <= j
  <2>1. Missing(x) \subseteq 1 .. 2
    BY <1>1, FileSets
  <2>2. CASE 1 \in Missing(x)
    BY <2>1, <2>2
  <2>3. CASE 1 \notin Missing(x)
    <3>1. Missing(x) = {2}
      BY <2>1, <2>3
    <3> QED BY <3>1
  <2> QED BY <2>2, <2>3
<1>3. (CHOOSE i \in Missing(x) : \A j \in Missing(x) : i <= j) \in Missing(x)
  BY <1>2
<1> QED BY <1>1, <1>3 DEF NextFile, FileSet

LEMMA Unlocking ==
    ASSUME RepoShape, NEW x \in Executors, Unlock(x)
    PROVE  Locks(x)
BY DEF Unlock, Locks

LEMMA RepoMoves ==
    ASSUME Protocol, RepoShape, NEW x \in Executors, Step(x) \/ Crash(x)
    PROVE  Locks(x) /\ Writes(x) /\ Branching(x)
<1>0. Req(x) \in Requests /\ Req(x).branch \in Branches
  <2>1. exec[x].pc # "idle"
    BY StepActs DEF Protocol
  <2> QED BY <2>1, ProposalRequestAssumption DEF Protocol, ExecFits, CallFits
<1>1. CASE Worktree(x)
  BY <1>1 DEF Worktree, RepoShape, Locks, Writes, Branching, Starts
<1>2. CASE Checkout(x)
  BY <1>2 DEF Checkout, RepoShape, Locks, Writes, Branching, Checks
<1>3. CASE Lock(x)
  <2>1. branch' = branch /\ files' = files /\ TakeLock(x, Req(x).branch)
    BY <1>3 DEF Lock
  <2>2. Locks(x)
    BY <1>0, <2>1, CommitAssumption DEF TakeLock, Locks, RepoShape
  <2> QED BY <2>1, <2>2 DEF Writes, Branching
<1>4. CASE WriteFile(x)
  <2>1. branch' = branch /\ Locks(x)
    BY <1>4, Unlocking DEF WriteFile, RepoShape, Locks
  <2>2. CASE /\ Missing(x) # {} /\ MayWrite(x, NextFile(x)) /\ Locked(Req(x))
             /\ Put(Req(x).branch, NextFile(x), Generated(Req(x), NextFile(x), At(x)))
    <3>1. NextFile(x) \in FileSet(Req(x)) /\ NextFile(x) \in FileNames
      BY <1>0, <2>2, NextIsMissing, FileSets
    <3>2. exec[x].pc = "write"
      BY <1>4 DEF WriteFile
    <3> QED BY <2>1, <2>2, <3>1, <3>2 DEF Put, Writes, Allowed, Branching
  <2>3. CASE files' = files
    BY <2>1, <2>3 DEF Writes, Branching
  <2> QED BY <1>4, <2>2, <2>3 DEF WriteFile
<1>5. CASE Truncate(x)
  <2>1. branch' = branch /\ Locks(x) /\ exec[x].pc = "truncate"
    BY <1>5 DEF Truncate, RepoShape, Locks
  <2>2. PICK f \in exec[x].seen.changed : Put(Req(x).branch, f, Partial)
    BY <1>5 DEF Truncate
  <2>3. CASE f \in FileNames
    BY <2>1, <2>2, <2>3 DEF Put, Writes, Branching
  <2>4. CASE f \notin FileNames
    <3>1. files' = files
      BY <1>0, <2>2, <2>4 DEF Put, RepoShape
    <3> QED BY <2>1, <3>1 DEF Writes, Branching
  <2> QED BY <2>3, <2>4
<1>6. CASE Fill(x)
  <2>1. branch' = branch /\ Locks(x) /\ exec[x].pc = "fill"
    BY <1>6 DEF Fill, RepoShape, Locks
  <2>2. PICK f \in exec[x].seen.changed : Put(Req(x).branch, f, Generated(Req(x), f, At(x)))
    BY <1>6 DEF Fill
  <2>3. CASE f \in FileNames
    BY <2>1, <2>2, <2>3 DEF Put, Writes, Branching
  <2>4. CASE f \notin FileNames
    <3>1. files' = files
      BY <1>0, <2>2, <2>4 DEF Put, RepoShape
    <3> QED BY <2>1, <3>1 DEF Writes, Branching
  <2> QED BY <2>3, <2>4
<1>7. CASE Status(x)
  BY <1>7, Unlocking DEF Status, FailLocked, repoVars, RepoShape, Locks, Writes, Branching
<1>8. CASE CommitFiles(x)
  <2>1. files' = files /\ exec[x].pc = "commit" /\ Locks(x)
    BY <1>8, Unlocking DEF CommitFiles
  <2>2. CASE exec[x].seen.changed = {}
    <3>1. branch' = branch \/ branch' = [branch EXCEPT ![Req(x).branch].log = branch[Req(x).branch].log,
                                                     ![Req(x).branch].tree = branch[Req(x).branch].tree]
      BY <1>8, <2>2 DEF CommitFiles
    <3>2. [branch EXCEPT ![Req(x).branch].log = branch[Req(x).branch].log,
                         ![Req(x).branch].tree = branch[Req(x).branch].tree] = branch
      BY <1>0 DEF RepoShape
    <3> QED BY <2>1, <3>1, <3>2 DEF Writes, Branching
  <2>3. CASE exec[x].seen.changed # {}
    BY <1>8, <2>1, <2>3 DEF CommitFiles, Writes, Branching, Adds, Op, Req
  <2> QED BY <2>2, <2>3
<1>9. CASE Crash(x)
  <2>1. branch' = branch /\ Locks(x)
    BY <1>9, Unlocking DEF Crash
  <2>2. \/ files' = files
        \/ /\ exec[x].pc = "write" /\ Locked(Req(x))
           /\ files' = [files EXCEPT ![Req(x).branch][Leftover] = Partial]
    BY <1>9 DEF Crash
  <2>3. Leftover \in FileNames
    BY DEF FileNames
  <2> QED BY <2>1, <2>2, <2>3 DEF Writes, Allowed, Branching
<1>10. CASE UNCHANGED repoVars
  BY <1>10 DEF repoVars, RepoShape, Locks, Writes, Branching
<1> QED
  BY <1>1, <1>2, <1>3, <1>4, <1>5, <1>6, <1>7, <1>8, <1>9, <1>10
  DEF Step, AuthorizeActor, DenyActor, Review, PrepareSubmission, PrepareImpact, AnalyzeBatch,
      PrepareDecision, Prepare, Resolve, StageNothing, StagePrepared, StagePushed, StageOpened,
      Look, Stage, RecordAcceptance, ReadHead, Push, CallGitHub, ReadPushed, ReadPull, CreatePull,
      ReadCreated

-----------------------------------------------------------------------------
\* The commits of a branch: the first is made where the branch starts, another one on
\* the commit before it, and each by an operation of the branch.
First(b) == branch[b].log[1]
Second(b) == branch[b].log[2]
Proposes(b, o) == branch[b].log # <<>> /\ First(b) = Proposal(o)
LogFits(b) ==
    LET log == branch[b].log
    IN  /\ log # <<>> => branch[b].base # 0 /\ log[1].parent = branch[b].base
        /\ \A i \in DOMAIN log :
              /\ Known(log[i].op) /\ Request(log[i].op).branch = b
              /\ i > 1 => log[i].parent = log[i - 1].op

\* What stands from then on.
Extends(b) ==
    /\ branch[b].base # 0 => branch'[b].base = branch[b].base
    /\ \A i \in DOMAIN branch[b].log :
          i \in DOMAIN branch'[b].log /\ branch'[b].log[i] = branch[b].log[i]
KeepsOpened(b) ==
    \A i \in DOMAIN pulls[b] :
       i \in DOMAIN pulls'[b] /\ pulls'[b][i].opened = pulls[b][i].opened
Onward ==
    /\ Grows /\ calls' \in {calls, calls + 1}
    /\ \A b \in Branches : Extends(b) /\ KeepsOpened(b)

\* Where a call stands, and what its request then knows of the branch.
Working == {"checkout", "lock", "write", "truncate", "fill", "commit"}
Accepting == {"resolve", "worktree"} \cup Working
Publishing == {"prepared?", "prepared", "head", "push", "pushed head", "pushed?", "pushed",
               "pull", "create", "created pull", "opened?", "opened"}
Ending(x, verdict) == exec[x].pc = "finish" /\ exec[x].verdict = verdict
Place(x, r) ==
    LET pc == exec[x].pc
        b == r.branch
    IN  /\ pc \in Accepting /\ r.command = Accepts => Proposes(b, r.expects) /\ At(x) > 0
        /\ pc = "worktree" => branch[b].base # 0 \/ exec[x].seen.head.parent \in Nat \ {0}
        /\ pc \in Working => branch[b].base # 0
        /\ pc \in {"truncate", "fill"} => r.command \notin Exclusive
        /\ pc \in Publishing \/ Ending(x, "proposal_open") => Proposes(b, r.op)
        /\ pc \in {"opened?", "opened"} \/ Ending(x, "proposal_open") =>
              \E i \in DOMAIN pulls[b] : pulls[b][i].opened = r.op
        /\ pc = "note" \/ Ending(x, "acceptance_prepared") =>
              Len(branch[b].log) > 1 /\ Second(b) = Commit(r.op, r.expects)
PlaceFits(x) == \A r \in Requests : exec[x].pc # "idle" /\ Req(x) = r => Place(x, r)

\* An update of a branch's record.
LEMMA BranchStarted ==
    ASSUME NEW s, s = [k \in BranchKeys |-> s[k]], NEW v, NEW t, t = [s EXCEPT !.base = v]
    PROVE  t = [k \in BranchKeys |-> t[k]] /\ t.base = v /\ t.log = s.log /\ t.tree = s.tree
BY DEF BranchKeys

LEMMA BranchChecked ==
    ASSUME NEW s, s = [k \in BranchKeys |-> s[k]], NEW v, NEW t, t = [s EXCEPT !.checked = v]
    PROVE  t = [k \in BranchKeys |-> t[k]] /\ t.base = s.base /\ t.log = s.log /\ t.tree = s.tree
BY DEF BranchKeys

\* What Branching means for the branch of x, b.
Starting(x, b) ==
    /\ exec[x].pc = "worktree" /\ branch[b].base = 0
    /\ branch'[b].base = exec[x].seen.head.parent
    /\ branch'[b].log = branch[b].log /\ branch'[b].tree = branch[b].tree
Adding(x, b) ==
    /\ exec[x].pc = "commit" /\ exec[x].seen.changed # {} /\ files' = files
    /\ branch'[b].base = branch[b].base
    /\ branch'[b].log = Append(branch[b].log, Child(b, Op(x)))
    /\ branch'[b].tree = files[b]
Staying(b) ==
    /\ branch'[b].base = branch[b].base
    /\ branch'[b].log = branch[b].log /\ branch'[b].tree = branch[b].tree

LEMMA BranchMoves ==
    ASSUME RepoShape, NEW x \in Executors, Branching(x), NEW b \in Branches, b = Req(x).branch
    PROVE  /\ branch' = [c \in Branches |-> branch'[c]]
           /\ \A c \in Branches : c # b => branch'[c] = branch[c]
           /\ branch'[b] = [k \in BranchKeys |-> branch'[b][k]]
           /\ Staying(b) \/ Starting(x, b) \/ Adding(x, b)
<1>0. branch[b] = [k \in BranchKeys |-> branch[b][k]] /\ branch = [c \in Branches |-> branch[c]]
  BY DEF RepoShape
<1>1. CASE branch' = branch
  BY <1>0, <1>1 DEF Staying, RepoShape
<1>2. CASE Starts(x)
  <2>1. branch' = [branch EXCEPT ![b].base = exec[x].seen.head.parent]
        /\ exec[x].pc = "worktree" /\ branch[b].base = 0
    BY <1>2 DEF Starts
  <2>2. branch'[b] = [branch[b] EXCEPT !.base = exec[x].seen.head.parent]
        /\ branch' = [c \in Branches |-> branch'[c]]
        /\ \A c \in Branches : c # b => branch'[c] = branch[c]
    BY <1>0, <2>1
  <2>3. /\ branch'[b] = [k \in BranchKeys |-> branch'[b][k]]
        /\ branch'[b].base = exec[x].seen.head.parent
        /\ branch'[b].log = branch[b].log /\ branch'[b].tree = branch[b].tree
    <3>1. PICK s, t : s = branch[b] /\ t = branch'[b]
      OBVIOUS
    <3>2. s = [k \in BranchKeys |-> s[k]] /\ t = [s EXCEPT !.base = exec[x].seen.head.parent]
      BY <1>0, <2>2, <3>1
    <3> QED BY <3>1, <3>2, BranchStarted
  <2> QED BY <2>1, <2>2, <2>3 DEF Starting
<1>3. CASE Checks(x)
  <2>1. branch' = [branch EXCEPT ![b].checked = TRUE]
    BY <1>3 DEF Checks
  <2>2. branch'[b] = [branch[b] EXCEPT !.checked = TRUE]
        /\ branch' = [c \in Branches |-> branch'[c]]
        /\ \A c \in Branches : c # b => branch'[c] = branch[c]
    BY <1>0, <2>1
  <2>3. branch'[b] = [k \in BranchKeys |-> branch'[b][k]] /\ branch'[b].base = branch[b].base
        /\ branch'[b].log = branch[b].log /\ branch'[b].tree = branch[b].tree
    <3>1. PICK s, t : s = branch[b] /\ t = branch'[b]
      OBVIOUS
    <3>2. s = [k \in BranchKeys |-> s[k]] /\ t = [s EXCEPT !.checked = TRUE]
      BY <1>0, <2>2, <3>1
    <3> QED BY <3>1, <3>2, BranchChecked
  <2> QED BY <2>2, <2>3 DEF Staying
<1>4. CASE Adds(x)
  <2> DEFINE log == Append(branch[b].log, Child(b, Op(x)))
  <2>1. branch' = [branch EXCEPT ![b].log = log, ![b].tree = files[b]]
        /\ exec[x].pc = "commit" /\ exec[x].seen.changed # {} /\ files' = files
    BY <1>4 DEF Adds
  <2> HIDE DEF log
  <2>2. branch'[b] = [branch[b] EXCEPT !.log = log, !.tree = files[b]]
        /\ branch' = [c \in Branches |-> branch'[c]]
        /\ \A c \in Branches : c # b => branch'[c] = branch[c]
    BY <1>0, <2>1
  <2>3. branch'[b] = [k \in BranchKeys |-> branch'[b][k]] /\ branch'[b].base = branch[b].base
        /\ branch'[b].log = log /\ branch'[b].tree = files[b]
    <3>1. PICK s, t, v, w : s = branch[b] /\ t = branch'[b] /\ v = log /\ w = files[b]
      OBVIOUS
    <3>2. s = [k \in BranchKeys |-> s[k]] /\ t = [s EXCEPT !.log = v, !.tree = w]
      BY <1>0, <2>2, <3>1
    <3>3. t = [k \in BranchKeys |-> t[k]] /\ t.base = s.base /\ t.log = v /\ t.tree = w
      BY <3>2 DEF BranchKeys
    <3> QED BY <3>1, <3>3
  <2> QED BY <2>1, <2>2, <2>3 DEF Adding, log
<1> QED BY <1>1, <1>2, <1>3, <1>4 DEF Branching

LEMMA CommitFields ==
    ASSUME NEW o, NEW p
    PROVE  Commit(o, p).op = o /\ Commit(o, p).parent = p
BY DEF Commit

LEMMA ProposesFirst ==
    ASSUME NEW b, NEW o, Proposes(b, o)
    PROVE  branch[b].log # <<>> /\ First(b).op = o
BY CommitFields DEF Proposes, Proposal

\* The commit that is added to a log.
LEMMA ChildFits ==
    ASSUME RepoShape, NEW b \in Branches, LogFits(b), NEW o \in Operations
    PROVE  /\ Child(b, o) \in Commits /\ Child(b, o).op = o
           /\ branch[b].log = <<>> => Child(b, o).parent = branch[b].base
           /\ branch[b].log # <<>> => Child(b, o).parent = branch[b].log[Len(branch[b].log)].op
<1>1. branch[b].log \in Seq(Commits) /\ branch[b].base \in Nat
  BY DEF RepoShape
<1>2. CASE branch[b].log = <<>>
  BY <1>1, <1>2, CommitFields DEF Child, Commits, Commit
<1>3. CASE branch[b].log # <<>>
  <2>1. branch[b].log[Len(branch[b].log)] \in Commits
    BY <1>1, <1>3
  <2> QED BY <1>3, <2>1, CommitFields DEF Child, Commits, Tip, Commit
<1> QED BY <1>2, <1>3

LEMMA LogEntries ==
    ASSUME NEW log \in Seq(Commits)
    PROVE  /\ \A i \in DOMAIN log : i \in 1 .. Len(log) /\ log[i] \in Commits /\ log[i].op \in Operations
           /\ Len(log) \in Nat /\ DOMAIN log = 1 .. Len(log)
           /\ log # <<>> => Len(log) > 0
<1>1. \A i \in DOMAIN log : i \in 1 .. Len(log) /\ log[i] \in Commits
  OBVIOUS
<1> QED BY <1>1 DEF Commits

LEMMA LogAppended ==
    ASSUME NEW log \in Seq(Commits), NEW c \in Commits, NEW l, l = Append(log, c)
    PROVE  /\ l \in Seq(Commits) /\ l # <<>>
           /\ Len(l) = Len(log) + 1 /\ DOMAIN l = 1 .. Len(log) + 1
           /\ \A i \in DOMAIN log : i \in DOMAIN l /\ l[i] = log[i]
           /\ l[Len(log) + 1] = c
OBVIOUS

LEMMA FilesMove ==
    ASSUME RepoShape, NEW x \in Executors, Writes(x)
    PROVE  /\ files' = [b \in Branches |-> files'[b]]
           /\ \A b \in Branches : files'[b] = [f \in FileNames |-> files'[b][f]]
           /\ \A b \in Branches : b # Req(x).branch => files'[b] = files[b]
<1>1. CASE files' = files
  BY <1>1 DEF RepoShape
<1>2. CASE \E f \in FileNames : \E content : files' = [files EXCEPT ![Req(x).branch][f] = content]
  <2>0. PICK f \in FileNames : \E content : files' = [files EXCEPT ![Req(x).branch][f] = content]
    BY <1>2
  <2>1. PICK content : files' = [files EXCEPT ![Req(x).branch][f] = content]
    BY <2>0
  <2>2. files' = [b \in Branches |-> files'[b]]
        /\ \A b \in Branches : b # Req(x).branch => files'[b] = files[b]
    BY <2>1 DEF RepoShape
  <2>3. ASSUME NEW b \in Branches
        PROVE  files'[b] = [g \in FileNames |-> files'[b][g]]
    <3>1. PICK t : t = files[b]
      OBVIOUS
    <3>2. t = [g \in FileNames |-> t[g]]
      BY <3>1 DEF RepoShape
    <3>3. files'[b] = t \/ files'[b] = [t EXCEPT ![f] = content]
      BY <2>1, <3>1 DEF RepoShape
    <3> QED BY <3>2, <3>3
  <2> QED BY <2>2, <2>3
<1> QED BY <1>1, <1>2 DEF Writes

LEMMA LogsGrow ==
    ASSUME Protocol, RepoShape, \A b \in Branches : LogFits(b), NEW x \in Executors, PlaceFits(x),
           exec[x].pc # "idle", Branching(x), Writes(x), Locks(x), Grows
    PROVE  RepoShape' /\ \A b \in Branches : LogFits(b)' /\ Extends(b)
<1>0. PICK r \in Requests : r = Req(x) /\ r.branch \in Branches /\ r.op \in Operations /\ r.op = Op(x)
                            /\ Known(r.op) /\ Request(r.op) = r /\ Place(x, r)
  BY RequestAssumption, ProposalRequestAssumption DEF Protocol, ExecFits, CallFits, Op, Req, PlaceFits
<1> DEFINE b == r.branch
<1>1. /\ branch' = [c \in Branches |-> branch'[c]]
      /\ \A c \in Branches : c # b => branch'[c] = branch[c]
      /\ branch'[b] = [k \in BranchKeys |-> branch'[b][k]]
      /\ Staying(b) \/ Starting(x, b) \/ Adding(x, b)
  BY <1>0, BranchMoves
<1>2. b \in Branches /\ branch[b].log \in Seq(Commits) /\ branch[b].base \in Nat /\ LogFits(b)
  BY <1>0 DEF RepoShape
<1> HIDE DEF b
<1>3. ASSUME NEW c \in Branches, c # b
      PROVE  LogFits(c)' /\ Extends(c)
  <2>1. branch'[c] = branch[c] /\ LogFits(c) /\ branch[c].log \in Seq(Commits)
    BY <1>1, <1>3 DEF RepoShape
  <2>2. \A i \in DOMAIN branch[c].log : branch[c].log[i].op \in Operations
    BY <2>1, LogEntries
  <2> QED BY <2>1, <2>2 DEF LogFits, Extends, Grows, Known, Request
<1>4. ASSUME branch'[b].log = branch[b].log, branch[b].base # 0 => branch'[b].base = branch[b].base
      PROVE  LogFits(b)' /\ Extends(b)
  <2>1. \A i \in DOMAIN branch[b].log : branch[b].log[i].op \in Operations
    BY <1>2, LogEntries
  <2> QED BY <1>2, <1>4, <2>1 DEF LogFits, Extends, Grows, Known, Request
<1>5. ASSUME Adding(x, b)
      PROVE  LogFits(b)' /\ Extends(b)
  <2> DEFINE log == branch[b].log
             c == Child(b, r.op)
  <2>1. /\ branch'[b].log = Append(log, c) /\ branch'[b].base = branch[b].base
        /\ c \in Commits /\ c.op = r.op /\ log \in Seq(Commits)
        /\ log = <<>> => c.parent = branch[b].base
        /\ log # <<>> => c.parent = log[Len(log)].op
    BY <1>0, <1>2, <1>5, ChildFits DEF Adding
  <2>2. branch[b].base # 0
    BY <1>0, <1>5 DEF Place, Adding, Working, b
  <2> HIDE DEF log, c
  <2>3. /\ \A i \in DOMAIN log : i \in DOMAIN branch'[b].log /\ branch'[b].log[i] = log[i]
        /\ branch'[b].log[Len(log) + 1] = c
        /\ DOMAIN branch'[b].log = 1 .. Len(log) + 1
        /\ \A i \in DOMAIN log : i \in 1 .. Len(log) /\ log[i].op \in Operations
        /\ Len(log) \in Nat /\ DOMAIN log = 1 .. Len(log)
    BY <2>1, LogEntries, LogAppended
  <2>4. Extends(b)
    BY <2>1, <2>3 DEF Extends, log
  <2>5. \A i \in DOMAIN log : /\ journal'[log[i].op].state # "absent"
                              /\ journal'[log[i].op].request.branch = b
                              /\ i > 1 => log[i].parent = log[i - 1].op
    BY <1>2, <2>3 DEF LogFits, Grows, Known, Request, log
  <2>6. Known(r.op)' /\ Request(r.op)' = r
    BY <1>0 DEF Grows, Known, Request
  <2>7. ASSUME NEW i \in DOMAIN branch'[b].log
        PROVE  LET l == branch'[b].log
               IN  /\ journal'[l[i].op].state # "absent" /\ journal'[l[i].op].request.branch = b
                   /\ i > 1 => l[i].parent = l[i - 1].op
    <3>1. CASE i \in DOMAIN log
      <4>1. i > 1 => i - 1 \in DOMAIN log
        BY <2>3, <3>1
      <4> QED BY <2>3, <2>5, <3>1, <4>1
    <3>2. CASE i = Len(log) + 1
      <4>1. i > 1 => log # <<>> /\ i - 1 \in DOMAIN log /\ i - 1 = Len(log)
        BY <2>1, <3>2
      <4> QED BY <2>1, <2>3, <2>6, <3>2, <4>1 DEF Known, Request, b
    <3> QED BY <2>1, <2>3, <3>1, <3>2
  <2>8. branch'[b].log[1].parent = branch'[b].base
    <3>1. CASE log = <<>>
      BY <2>1, <2>3, <3>1
    <3>2. CASE log # <<>>
      <4>1. 1 \in DOMAIN log /\ log[1].parent = branch[b].base
        BY <1>2, <2>1, <3>2 DEF LogFits, log
      <4> QED BY <2>1, <2>3, <4>1
    <3> QED BY <3>1, <3>2
  <2> QED BY <2>1, <2>2, <2>4, <2>7, <2>8 DEF LogFits, Known, Request
<1>6. Starting(x, b) => branch[b].base = 0
  BY DEF Starting
<1>7. LogFits(b)' /\ Extends(b)
  BY <1>1, <1>4, <1>5, <1>6 DEF Staying, Starting
<1>8. branch'[b].log \in Seq(Commits) /\ branch'[b].base \in Nat
  <2>1. CASE Staying(b)
    BY <1>2, <2>1 DEF Staying
  <2>2. CASE Starting(x, b)
    BY <1>0, <1>2, <2>2 DEF Starting, Place, b
  <2>3. CASE Adding(x, b)
    BY <1>0, <1>2, <2>3, ChildFits DEF Adding
  <2> QED BY <1>1, <2>1, <2>2, <2>3
<1>9. RepoShape'
  <2>1. \A c \in Branches : /\ branch'[c] = [k \in BranchKeys |-> branch'[c][k]]
                            /\ branch'[c].base \in Nat /\ branch'[c].log \in Seq(Commits)
    BY <1>1, <1>8 DEF RepoShape
  <2> QED BY <1>1, <2>1, FilesMove DEF RepoShape, Locks
<1> QED BY <1>3, <1>7, <1>9

\* What a branch has, and what was said of it, stays so.
LEMMA Lasting ==
    ASSUME RepoShape, RepoShape', NEW b \in Branches, LogFits(b), Extends(b), Grows
    PROVE  /\ branch[b].log # <<>> =>
                 /\ branch'[b].log # <<>> /\ First(b)' = First(b) /\ First(b).op \in Operations
                 /\ journal'[First(b).op].request = journal[First(b).op].request
           /\ Len(branch[b].log) > 1 =>
                 /\ Len(branch'[b].log) > 1 /\ Second(b)' = Second(b) /\ Second(b).op \in Operations
                 /\ journal'[Second(b).op].request = journal[Second(b).op].request
           /\ \A o : Proposes(b, o) => Proposes(b, o)'
<1>1. branch[b].log \in Seq(Commits) /\ branch'[b].log \in Seq(Commits)
  BY DEF RepoShape
<1>2. branch[b].log # <<>> => 1 \in DOMAIN branch[b].log
  BY <1>1, LogEntries
<1>3. Len(branch[b].log) > 1 => 2 \in DOMAIN branch[b].log
  BY <1>1, LogEntries
<1>4. branch[b].log # <<>> =>
         /\ branch'[b].log # <<>> /\ First(b)' = First(b) /\ First(b).op \in Operations
         /\ journal'[First(b).op].request = journal[First(b).op].request
  <2>1. SUFFICES ASSUME branch[b].log # <<>>
                 PROVE  /\ branch'[b].log # <<>> /\ First(b)' = First(b) /\ First(b).op \in Operations
                        /\ journal'[First(b).op].request = journal[First(b).op].request
    OBVIOUS
  <2>2. 1 \in DOMAIN branch'[b].log /\ branch'[b].log[1] = branch[b].log[1]
        /\ branch[b].log[1].op \in Operations /\ Known(branch[b].log[1].op)
    BY <1>1, <1>2, <2>1, LogEntries DEF Extends, LogFits
  <2> QED BY <1>1, <2>2, LogEntries DEF First, Grows, Known, Request
<1>5. Len(branch[b].log) > 1 =>
         /\ Len(branch'[b].log) > 1 /\ Second(b)' = Second(b) /\ Second(b).op \in Operations
         /\ journal'[Second(b).op].request = journal[Second(b).op].request
  <2>1. SUFFICES ASSUME Len(branch[b].log) > 1
                 PROVE  /\ Len(branch'[b].log) > 1 /\ Second(b)' = Second(b) /\ Second(b).op \in Operations
                        /\ journal'[Second(b).op].request = journal[Second(b).op].request
    OBVIOUS
  <2>2. 2 \in DOMAIN branch'[b].log /\ branch'[b].log[2] = branch[b].log[2]
        /\ branch[b].log[2].op \in Operations /\ Known(branch[b].log[2].op)
    BY <1>1, <1>3, <2>1, LogEntries DEF Extends, LogFits
  <2>3. Len(branch'[b].log) > 1
    BY <1>1, <2>2, LogEntries
  <2> QED BY <2>2, <2>3 DEF Second, Grows, Known, Request
<1>6. \A o : Proposes(b, o) => Proposes(b, o)'
  <2>1. SUFFICES ASSUME NEW o, Proposes(b, o)
                 PROVE  Proposes(b, o)'
    OBVIOUS
  <2>2. First(b).op = o
    BY <2>1, CommitFields DEF Proposes, Proposal
  <2> QED BY <1>4, <2>1, <2>2 DEF Proposes, Proposal
<1> QED BY <1>4, <1>5, <1>6

LEMMA PlaceStays ==
    ASSUME Protocol, RepoShape, RepoShape', \A b \in Branches : LogFits(b), Onward,
           NEW y \in Executors, exec'[y] = exec[y], PlaceFits(y)
    PROVE  PlaceFits(y)'
<1> SUFFICES ASSUME NEW r \in Requests, exec[y].pc # "idle", Req(y) = r
             PROVE  Place(y, r)'
  BY DEF PlaceFits, Req
<1> DEFINE b == r.branch
<1>1. Place(y, r) /\ b \in Branches
  BY ProposalRequestAssumption DEF PlaceFits
<1>2. /\ \A o : Proposes(b, o) => Proposes(b, o)'
      /\ Len(branch[b].log) > 1 => Len(branch'[b].log) > 1 /\ Second(b)' = Second(b)
      /\ branch[b].base # 0 => branch'[b].base = branch[b].base
      /\ \A i \in DOMAIN pulls[b] : i \in DOMAIN pulls'[b] /\ pulls'[b][i].opened = pulls[b][i].opened
  BY <1>1, Lasting DEF Onward, Extends, KeepsOpened
<1>3. At(y)' = At(y) /\ exec'[y].seen = exec[y].seen /\ exec'[y].verdict = exec[y].verdict
      /\ exec'[y].pc = exec[y].pc
  BY DEF At
<1> HIDE DEF b
<1>4. (\E i \in DOMAIN pulls[b] : pulls[b][i].opened = r.op)
         => (\E i \in DOMAIN pulls'[b] : pulls'[b][i].opened = r.op)
  BY <1>2
<1>5. /\ Proposes(b, r.op) => Proposes(b, r.op)'
      /\ Proposes(b, r.expects) => Proposes(b, r.expects)'
  BY <1>2
<1> QED BY <1>1, <1>2, <1>3, <1>4, <1>5 DEF Place, Ending, b

-----------------------------------------------------------------------------
\* GitHub: a branch there is one of the proposal or its acceptance, and so is
\* everything that a pull request of it has shown.
PullRecords == [head: Operations, opened: Operations, state: {"open", "closed", "merged"}]
HubShape ==
    /\ remote \in [Branches -> Operations \cup {NoCommit}]
    /\ pulls \in [Branches -> Seq(PullRecords)]
    /\ flying \subseteq {"push", "create"} \X Branches \X Operations

Follows(b) == Len(branch[b].log) > 1 /\ Request(Second(b).op).command = Accepts
Shows(b, o) == o = First(b).op \/ (Follows(b) /\ o = Second(b).op)
PullFits(b, pull) ==
    /\ Shows(b, pull.head) /\ Shows(b, pull.opened)
    /\ pull.head = First(b).op => pull.opened = First(b).op
    /\ remote[b] = First(b).op => pull.head = First(b).op
HubFits(b) ==
    /\ remote[b] = NoCommit => pulls[b] = <<>>
    /\ remote[b] # NoCommit =>
          /\ Proposes(b, First(b).op)
          /\ Shows(b, remote[b])
          /\ \A i \in DOMAIN pulls[b] : PullFits(b, pulls[b][i])
FlyingFits == \A m \in flying : m[1] = "push" => Proposes(m[2], m[3])

Pushes ==
    \E b \in Branches, o \in Operations :
       Proposes(b, o) /\ remote' = PushLands(b, o) /\ pulls' = pulls
Opens == \E b \in Branches : pulls' = CreateLands(b) /\ remote' = remote
Publishes == \E b \in Branches : PublishAcceptance(b)
Touches == \E b \in Branches : \E i \in DOMAIN pulls[b] : Touch(b, i)
HubStep ==
    \/ remote' = remote /\ pulls' = pulls
    \/ branch' = branch /\ journal' = journal /\ (Pushes \/ Opens \/ Publishes \/ Touches)

\* Of pulls, what a step can do with the list of a branch, b.
PullsMove(b) ==
    \/ pulls'[b] = pulls[b]
    \/ remote[b] # NoCommit /\ pulls'[b] = Append(pulls[b], Pull(remote[b], remote[b]))
    \/ /\ DOMAIN pulls'[b] = DOMAIN pulls[b]
       /\ \A i \in DOMAIN pulls[b] :
             /\ pulls'[b][i].head = pulls[b][i].head \/ pulls'[b][i].head = remote'[b]
             /\ pulls'[b][i].opened = pulls[b][i].opened

LEMMA PullFields ==
    ASSUME NEW o \in Operations
    PROVE  Pull(o, o) \in PullRecords /\ Pull(o, o).head = o /\ Pull(o, o).opened = o
BY DEF Pull, PullRecords

LEMMA PullsAppended ==
    ASSUME NEW list \in Seq(PullRecords), NEW p \in PullRecords, NEW l, l = Append(list, p)
    PROVE  /\ l \in Seq(PullRecords) /\ Len(l) = Len(list) + 1 /\ DOMAIN l = 1 .. Len(list) + 1
           /\ \A i \in DOMAIN list : i \in DOMAIN l /\ l[i] = list[i]
           /\ l[Len(list) + 1] = p
           /\ \A i \in DOMAIN l : i \in DOMAIN list \/ i = Len(list) + 1
OBVIOUS

\* A pull request is opened for the head of the branch.
LEMMA Opening ==
    ASSUME HubShape, NEW b \in Branches, pulls' = CreateLands(b)
    PROVE  /\ pulls' \in [Branches -> Seq(PullRecords)]
           /\ \A c \in Branches : c # b => pulls'[c] = pulls[c]
           /\ \/ pulls'[b] = pulls[b]
              \/ remote[b] # NoCommit /\ pulls'[b] = Append(pulls[b], Pull(remote[b], remote[b]))
<1>1. CASE pulls' = pulls
  BY <1>1 DEF HubShape
<1>2. CASE /\ remote[b] # NoCommit
           /\ pulls' = [pulls EXCEPT ![b] = Append(pulls[b], Pull(remote[b], remote[b]))]
  <2>1. Pull(remote[b], remote[b]) \in PullRecords
    BY <1>2, PullFields DEF HubShape
  <2>2. pulls[b] \in Seq(PullRecords)
    BY DEF HubShape
  <2>3. Append(pulls[b], Pull(remote[b], remote[b])) \in Seq(PullRecords)
    BY <2>1, <2>2
  <2> QED BY <1>2, <2>3 DEF HubShape
<1> QED BY <1>1, <1>2 DEF CreateLands

LEMMA OneListed ==
    ASSUME NEW list \in Seq(PullRecords), Len(list) = 1
    PROVE  1 \in DOMAIN list /\ list # <<>>
<1>1. 1 \in DOMAIN list
  OBVIOUS
<1>2. Len(<<>>) # 1
  OBVIOUS
<1> QED BY <1>1, <1>2, Zenon

\* An acceptance is published, which the open ones show.
LEMMA PublishingShape ==
    ASSUME HubShape, RepoShape, NEW b \in Branches, PublishAcceptance(b)
    PROVE  /\ Len(branch[b].log) = 2 /\ Second(b).op \in Operations
           /\ remote' = [remote EXCEPT ![b] = Second(b).op]
           /\ remote[b] # NoCommit /\ Second(b).parent = remote[b]
           /\ Request(Second(b).op).command = Accepts
           /\ pulls' \in [Branches -> Seq(PullRecords)]
           /\ \A c \in Branches : c # b => pulls'[c] = pulls[c]
           /\ DOMAIN pulls'[b] = DOMAIN pulls[b]
           /\ \A i \in DOMAIN pulls[b] :
                 /\ pulls'[b][i].head = IF pulls[b][i].state = "open" THEN Second(b).op
                                        ELSE pulls[b][i].head
                 /\ pulls'[b][i].opened = pulls[b][i].opened
<1>1. /\ Len(branch[b].log) = 2 /\ branch[b].log # <<>> /\ branch[b].log \in Seq(Commits)
      /\ 2 \in DOMAIN branch[b].log
  BY LogEntries DEF PublishAcceptance, RepoShape
<1>2. Tip(b) = Second(b) /\ Second(b).op \in Operations
  BY <1>1, LogEntries DEF Tip, Second
<1>3. PICK o : o = Second(b).op
  OBVIOUS
<1> DEFINE shown(p) == IF p.state = "open" THEN [p EXCEPT !.head = o] ELSE p
<1>4. pulls' = [pulls EXCEPT ![b] = [i \in DOMAIN pulls[b] |-> shown(pulls[b][i])]]
  BY <1>2, <1>3 DEF PublishAcceptance
<1>5. \A p \in PullRecords :
          /\ shown(p) \in PullRecords /\ shown(p).opened = p.opened
          /\ shown(p).head = IF p.state = "open" THEN o ELSE p.head
  BY <1>2, <1>3 DEF PullRecords
<1> HIDE DEF shown
<1>6. pulls[b] \in Seq(PullRecords)
  BY DEF HubShape
<1>7. \A i \in DOMAIN pulls[b] : pulls[b][i] \in PullRecords
  BY <1>6
<1>8. [i \in DOMAIN pulls[b] |-> shown(pulls[b][i])] \in Seq(PullRecords)
  BY <1>5, <1>6, <1>7
<1>9. /\ pulls' \in [Branches -> Seq(PullRecords)]
      /\ \A c \in Branches : c # b => pulls'[c] = pulls[c]
      /\ pulls'[b] = [i \in DOMAIN pulls[b] |-> shown(pulls[b][i])]
  BY <1>4, <1>8 DEF HubShape
<1>10. \A i \in DOMAIN pulls[b] :
          /\ pulls'[b][i].head = IF pulls[b][i].state = "open" THEN o ELSE pulls[b][i].head
          /\ pulls'[b][i].opened = pulls[b][i].opened
  BY <1>5, <1>7, <1>9
<1>11. /\ remote' = [remote EXCEPT ![b] = Second(b).op]
       /\ remote[b] # NoCommit /\ Second(b).parent = remote[b]
       /\ Request(Second(b).op).command = Accepts
  BY <1>2 DEF PublishAcceptance, Second, Request
<1>12. DOMAIN pulls'[b] = DOMAIN pulls[b]
  BY <1>9
<1> QED BY <1>1, <1>2, <1>3, <1>9, <1>10, <1>11, <1>12

LEMMA Touching ==
    ASSUME HubShape, NEW b \in Branches, NEW i \in DOMAIN pulls[b], Touch(b, i)
    PROVE  /\ remote' = remote
           /\ pulls' \in [Branches -> Seq(PullRecords)]
           /\ \A c \in Branches : c # b => pulls'[c] = pulls[c]
           /\ DOMAIN pulls'[b] = DOMAIN pulls[b]
           /\ \A j \in DOMAIN pulls[b] : pulls'[b][j].head = pulls[b][j].head
                                         /\ pulls'[b][j].opened = pulls[b][j].opened
<1>1. PICK state \in {"closed", "merged"} : pulls' = [pulls EXCEPT ![b][i].state = state]
  BY DEF Touch
<1>2. pulls[b] \in Seq(PullRecords) /\ remote' = remote
  BY DEF HubShape, Touch
<1>3. \A j \in DOMAIN pulls[b] : pulls[b][j] \in PullRecords
  BY <1>2
<1> DEFINE p == [pulls[b][i] EXCEPT !.state = state]
<1>4. p \in PullRecords /\ p.head = pulls[b][i].head /\ p.opened = pulls[b][i].opened
  BY <1>3 DEF PullRecords
<1>5. pulls' = [pulls EXCEPT ![b] = [pulls[b] EXCEPT ![i] = p]]
  BY <1>1
<1> HIDE DEF p
<1>6. [pulls[b] EXCEPT ![i] = p] \in Seq(PullRecords)
  BY <1>2, <1>4
<1>7. /\ pulls' \in [Branches -> Seq(PullRecords)]
      /\ \A c \in Branches : c # b => pulls'[c] = pulls[c]
      /\ pulls'[b] = [pulls[b] EXCEPT ![i] = p]
  BY <1>5, <1>6 DEF HubShape
<1> QED BY <1>2, <1>4, <1>7

LEMMA ShowsLasts ==
    ASSUME RepoShape, RepoShape', NEW b \in Branches, LogFits(b), Extends(b), Grows,
           branch[b].log # <<>>
    PROVE  First(b)' = First(b) /\ \A o : Shows(b, o) => Shows(b, o)'
<1>1. /\ First(b)' = First(b)
      /\ Len(branch[b].log) > 1 =>
            /\ Len(branch'[b].log) > 1 /\ Second(b)' = Second(b)
            /\ journal'[Second(b).op].request = journal[Second(b).op].request
  BY Lasting
<1>2. Follows(b) => Follows(b)' /\ Second(b)' = Second(b)
  BY <1>1 DEF Follows, Request
<1>3. \A o : Shows(b, o) => Shows(b, o)'
  BY <1>1, <1>2 DEF Shows
<1> QED BY <1>1, <1>3

LEMMA HubStays ==
    ASSUME RepoShape, RepoShape', HubShape, HubShape', NEW b \in Branches, LogFits(b), Extends(b),
           Grows, HubFits(b), remote'[b] = remote[b], DOMAIN pulls'[b] = DOMAIN pulls[b],
           \A i \in DOMAIN pulls[b] : pulls'[b][i].head = pulls[b][i].head
                                      /\ pulls'[b][i].opened = pulls[b][i].opened
    PROVE  HubFits(b)'
<1>1. CASE remote[b] = NoCommit
  <2>1. pulls[b] = <<>> /\ pulls'[b] \in Seq(PullRecords)
    BY <1>1 DEF HubFits, HubShape
  <2>2. PICK l \in Seq(PullRecords) : l = pulls'[b]
    BY <2>1
  <2>3. DOMAIN l = DOMAIN <<>>
    BY <2>1, <2>2
  <2>4. l = <<>>
    BY <2>3
  <2> QED BY <1>1, <2>2, <2>4 DEF HubFits
<1>2. CASE remote[b] # NoCommit
  <2>1. /\ Proposes(b, First(b).op) /\ Shows(b, remote[b])
        /\ \A i \in DOMAIN pulls[b] : PullFits(b, pulls[b][i])
    BY <1>2 DEF HubFits
  <2>2. PICK o : o = First(b).op
    OBVIOUS
  <2>3. branch[b].log # <<>> /\ Proposes(b, o)'
    BY <2>1, <2>2, Lasting DEF Proposes
  <2>4. First(b)' = First(b) /\ \A q : Shows(b, q) => Shows(b, q)'
    BY <2>3, ShowsLasts
  <2>5. PICK h : h = remote[b]
    OBVIOUS
  <2>6. Shows(b, h)' /\ remote'[b] = h
    BY <2>1, <2>4, <2>5
  <2>7. ASSUME NEW i \in DOMAIN pulls'[b]
        PROVE  PullFits(b, pulls[b][i])'
    <3>1. PICK hd, op : hd = pulls[b][i].head /\ op = pulls[b][i].opened
      OBVIOUS
    <3>2. PullFits(b, pulls[b][i]) /\ pulls'[b][i].head = hd /\ pulls'[b][i].opened = op
      BY <2>1, <3>1
    <3>3. Shows(b, hd)' /\ Shows(b, op)'
      BY <2>4, <3>1, <3>2 DEF PullFits
    <3> QED BY <2>4, <3>1, <3>2, <3>3 DEF PullFits, Shows
  <2>8. Proposes(b, First(b).op)' /\ Shows(b, remote[b])'
    BY <2>2, <2>3, <2>4, <2>6 DEF Proposes, Proposal, Shows
  <2> QED BY <1>2, <2>7, <2>8 DEF HubFits
<1> QED BY <1>1, <1>2

\* When GitHub changes, the branches and the journal do not.
LEMMA HubMoves ==
    ASSUME JournalFits, RepoShape, RepoShape', HubShape, Grows, HubStep,
           \A b \in Branches : LogFits(b) /\ Extends(b) /\ HubFits(b)
    PROVE  /\ remote' \in [Branches -> Operations \cup {NoCommit}]
           /\ pulls' \in [Branches -> Seq(PullRecords)]
           /\ \A b \in Branches : KeepsOpened(b)
           /\ HubShape' => \A b \in Branches : HubFits(b)'
<1>1. CASE remote' = remote /\ pulls' = pulls
  BY <1>1, HubStays DEF HubShape, KeepsOpened
<1>2. ASSUME branch' = branch, journal' = journal, NEW b \in Branches, NEW o \in Operations,
             Proposes(b, o), remote' = PushLands(b, o), pulls' = pulls
      PROVE  /\ remote' \in [Branches -> Operations \cup {NoCommit}]
             /\ pulls' \in [Branches -> Seq(PullRecords)]
             /\ \A c \in Branches : KeepsOpened(c)
             /\ HubShape' => \A c \in Branches : HubFits(c)'
  <2>1. /\ remote' \in [Branches -> Operations \cup {NoCommit}]
        /\ \A c \in Branches : KeepsOpened(c)
        /\ pulls' \in [Branches -> Seq(PullRecords)]
        /\ \A c \in Branches : c # b => remote'[c] = remote[c]
        /\ remote[b] # NoCommit => remote' = remote
        /\ remote[b] = NoCommit => remote'[b] = o
    BY <1>2 DEF PushLands, HubShape, KeepsOpened
  <2>2. SUFFICES ASSUME HubShape', NEW c \in Branches
                 PROVE  HubFits(c)'
    BY <2>1
  <2>3. CASE remote'[c] = remote[c]
    BY <1>2, <2>2, <2>3, HubStays
  <2>4. CASE c = b /\ remote[b] = NoCommit
    <3>1. pulls'[b] = <<>> /\ remote'[b] = o
      BY <1>2, <2>1, <2>4 DEF HubFits
    <3>2. o # NoCommit
      BY CommitAssumption
    <3>3. First(b).op = o
      BY <1>2, CommitFields DEF Proposes, Proposal
    <3>4. Proposes(b, o)' /\ First(b)' = First(b)
      BY <1>2 DEF Proposes, First, Proposal
    <3>5. Proposes(b, First(b).op)' /\ Shows(b, o)'
      BY <3>3, <3>4 DEF Proposes, Proposal, Shows
    <3>6. \A i \in DOMAIN pulls'[b] : FALSE
      BY <3>1
    <3> QED BY <2>4, <3>1, <3>2, <3>5, <3>6 DEF HubFits, Shows
  <2>5. remote'[c] = remote[c] \/ (c = b /\ remote[b] = NoCommit)
    BY <2>1
  <2> QED BY <2>3, <2>4, <2>5
<1>3. ASSUME branch' = branch, journal' = journal, NEW b \in Branches,
             pulls' = CreateLands(b), remote' = remote
      PROVE  /\ remote' \in [Branches -> Operations \cup {NoCommit}]
             /\ pulls' \in [Branches -> Seq(PullRecords)]
             /\ \A c \in Branches : KeepsOpened(c)
             /\ HubShape' => \A c \in Branches : HubFits(c)'
  <2>1. /\ pulls' \in [Branches -> Seq(PullRecords)]
        /\ \A c \in Branches : c # b => pulls'[c] = pulls[c]
        /\ \/ pulls'[b] = pulls[b]
           \/ remote[b] # NoCommit /\ pulls'[b] = Append(pulls[b], Pull(remote[b], remote[b]))
    BY <1>3, Opening
  <2>2. \A c \in Branches : c # b \/ pulls'[c] = pulls[c] => KeepsOpened(c)
    BY <2>1 DEF KeepsOpened
  <2>3. SUFFICES ASSUME remote[b] # NoCommit,
                        pulls'[b] = Append(pulls[b], Pull(remote[b], remote[b]))
                 PROVE  /\ \A c \in Branches : KeepsOpened(c)
                        /\ HubShape' => \A c \in Branches : HubFits(c)'
    <3>1. CASE pulls'[b] = pulls[b]
      <4>1. \A c \in Branches : pulls'[c] = pulls[c]
        BY <2>1, <3>1
      <4>2. ASSUME HubShape', NEW c \in Branches
            PROVE  HubFits(c)'
        BY <1>3, <4>1, <4>2, HubStays
      <4> QED BY <1>3, <2>1, <2>2, <4>1, <4>2 DEF HubShape
    <3> QED BY <1>3, <2>1, <2>3, <3>1 DEF HubShape
  <2>4. PICK h \in Operations : h = remote[b]
    BY <2>3 DEF HubShape
  <2>5. /\ Pull(h, h) \in PullRecords /\ Pull(h, h).head = h /\ Pull(h, h).opened = h
        /\ pulls[b] \in Seq(PullRecords)
    BY PullFields DEF HubShape
  <2>6. PICK p : p = Pull(h, h)
    OBVIOUS
  <2>7. /\ \A i \in DOMAIN pulls[b] : i \in DOMAIN pulls'[b] /\ pulls'[b][i] = pulls[b][i]
        /\ \A i \in DOMAIN pulls'[b] : i \in DOMAIN pulls[b] \/ pulls'[b][i] = p
    BY <2>3, <2>4, <2>5, <2>6, PullsAppended
  <2>8. KeepsOpened(b)
    BY <2>7 DEF KeepsOpened
  <2>9. ASSUME HubShape', NEW c \in Branches
        PROVE  HubFits(c)'
    <3>1. CASE c # b
      <4>1. pulls'[c] = pulls[c] /\ remote'[c] = remote[c]
        BY <1>3, <2>1, <3>1
      <4> QED BY <2>9, <4>1, HubStays
    <3>2. CASE c = b
      <4>1. First(b)' = First(b) /\ Proposes(b, First(b).op) /\ Shows(b, h) /\ remote'[b] = h
            /\ \A i \in DOMAIN pulls[b] : PullFits(b, pulls[b][i])
        BY <1>3, <2>3, <2>4 DEF HubFits, First
      <4>2. \A q : (Shows(b, q) <=> Shows(b, q)') /\ (Proposes(b, q) <=> Proposes(b, q)')
        BY <1>3 DEF Shows, Follows, First, Second, Request, Proposes, Proposal
      <4>3. ASSUME NEW i \in DOMAIN pulls'[b]
            PROVE  PullFits(b, pulls[b][i])'
        <5>1. PICK q : q = pulls'[b][i]
          OBVIOUS
        <5>2. PullFits(b, q)
          BY <2>4, <2>5, <2>6, <2>7, <4>1, <5>1 DEF PullFits
        <5>3. Shows(b, q.head)' /\ Shows(b, q.opened)'
          BY <4>2, <5>2 DEF PullFits
        <5>4. /\ q.head = First(b).op => q.opened = First(b).op
              /\ remote[b] = First(b).op => q.head = First(b).op
          BY <5>2 DEF PullFits
        <5> QED BY <1>3, <4>1, <5>1, <5>3, <5>4 DEF PullFits, Shows
      <4>4. PICK o : o = First(b).op
        OBVIOUS
      <4>5. Proposes(b, o)' /\ Shows(b, h)'
        BY <4>1, <4>2, <4>4
      <4> QED BY <2>3, <2>4, <3>2, <4>1, <4>3, <4>4, <4>5 DEF HubFits, Proposes, Shows
    <3> QED BY <3>1, <3>2
  <2> QED BY <2>1, <2>2, <2>8, <2>9
<1>4. ASSUME branch' = branch, journal' = journal, NEW b \in Branches, NEW i \in DOMAIN pulls[b],
             Touch(b, i)
      PROVE  /\ remote' \in [Branches -> Operations \cup {NoCommit}]
             /\ pulls' \in [Branches -> Seq(PullRecords)]
             /\ \A c \in Branches : KeepsOpened(c)
             /\ HubShape' => \A c \in Branches : HubFits(c)'
  <2>1. /\ remote' = remote
        /\ pulls' \in [Branches -> Seq(PullRecords)]
        /\ \A c \in Branches : c # b => pulls'[c] = pulls[c]
        /\ DOMAIN pulls'[b] = DOMAIN pulls[b]
        /\ \A j \in DOMAIN pulls[b] : pulls'[b][j].head = pulls[b][j].head
                                      /\ pulls'[b][j].opened = pulls[b][j].opened
    BY <1>4, Touching
  <2>2. \A c \in Branches : KeepsOpened(c)
    BY <2>1 DEF KeepsOpened
  <2>3. ASSUME HubShape', NEW c \in Branches
        PROVE  HubFits(c)'
    <3>1. DOMAIN pulls'[c] = DOMAIN pulls[c] /\ remote'[c] = remote[c]
          /\ \A j \in DOMAIN pulls[c] : pulls'[c][j].head = pulls[c][j].head
                                        /\ pulls'[c][j].opened = pulls[c][j].opened
      BY <2>1
    <3> QED BY <2>3, <3>1, HubStays
  <2> QED BY <2>1, <2>2, <2>3 DEF HubShape
<1>5. ASSUME branch' = branch, journal' = journal, NEW b \in Branches, PublishAcceptance(b)
      PROVE  /\ remote' \in [Branches -> Operations \cup {NoCommit}]
             /\ pulls' \in [Branches -> Seq(PullRecords)]
             /\ \A c \in Branches : KeepsOpened(c)
             /\ HubShape' => \A c \in Branches : HubFits(c)'
  <2>0. PICK s \in Operations : s = Second(b).op
    BY <1>5, PublishingShape
  <2>1. PICK h : s = Second(b).op /\ h = remote[b]
    BY <2>0
  <2>2. /\ Len(branch[b].log) = 2
        /\ remote' = [remote EXCEPT ![b] = s]
        /\ h # NoCommit /\ Second(b).parent = h
        /\ Request(s).command = Accepts
        /\ pulls' \in [Branches -> Seq(PullRecords)]
        /\ \A c \in Branches : c # b => pulls'[c] = pulls[c]
        /\ DOMAIN pulls'[b] = DOMAIN pulls[b]
        /\ \A i \in DOMAIN pulls[b] :
              /\ pulls'[b][i].head = IF pulls[b][i].state = "open" THEN s ELSE pulls[b][i].head
              /\ pulls'[b][i].opened = pulls[b][i].opened
    BY <1>5, <2>1, PublishingShape
  <2>3. First(b).op = h
    <3>1. 2 \in DOMAIN branch[b].log
      BY <2>2, LogEntries DEF RepoShape
    <3> QED BY <2>2, <3>1 DEF LogFits, Second, First
  <2>4. /\ Proposes(b, h)
        /\ \A i \in DOMAIN pulls[b] : pulls[b][i].head = h /\ pulls[b][i].opened = h
    BY <2>1, <2>2, <2>3 DEF HubFits, PullFits
  <2>5. /\ remote'[b] = s /\ s # NoCommit
        /\ \A c \in Branches : c # b => remote'[c] = remote[c]
        /\ remote' \in [Branches -> Operations \cup {NoCommit}]
    BY <2>2, CommitAssumption DEF HubShape
  <2>6. \A c \in Branches : KeepsOpened(c)
    BY <2>2 DEF KeepsOpened
  <2>7. ASSUME HubShape', NEW c \in Branches
        PROVE  HubFits(c)'
    <3>1. CASE c # b
      <4>1. pulls'[c] = pulls[c] /\ remote'[c] = remote[c]
        BY <2>2, <2>5, <3>1
      <4> QED BY <2>7, <4>1, HubStays
    <3>2. CASE c = b
      <4>1. First(b)' = First(b) /\ Second(b)' = Second(b) /\ Follows(b)' /\ Proposes(b, h)'
        BY <1>5, <2>1, <2>2, <2>4 DEF First, Second, Follows, Proposes, Proposal, Request
      <4>2. Shows(b, s)' /\ Shows(b, h)'
        BY <2>1, <2>3, <4>1 DEF Shows
      <4>3. ASSUME NEW i \in DOMAIN pulls'[b]
            PROVE  PullFits(b, pulls[b][i])'
        <5>1. pulls'[b][i].head \in {h, s} /\ pulls'[b][i].opened = h
          BY <2>2, <2>4
        <5>2. PICK q : q = pulls'[b][i]
          OBVIOUS
        <5>3. s = h => q.head = h
          BY <5>1, <5>2
        <5> QED BY <2>3, <2>5, <4>1, <4>2, <5>1, <5>2, <5>3 DEF PullFits, Shows
      <4> QED BY <2>3, <2>5, <3>2, <4>1, <4>2, <4>3 DEF HubFits, Shows
    <3> QED BY <3>1, <3>2
  <2> QED BY <2>2, <2>5, <2>6, <2>7
<1>6. ASSUME branch' = branch, journal' = journal, Pushes \/ Opens \/ Publishes \/ Touches
      PROVE  /\ remote' \in [Branches -> Operations \cup {NoCommit}]
             /\ pulls' \in [Branches -> Seq(PullRecords)]
             /\ \A c \in Branches : KeepsOpened(c)
             /\ HubShape' => \A c \in Branches : HubFits(c)'
  BY <1>2, <1>3, <1>4, <1>5, <1>6 DEF Pushes, Opens, Publishes, Touches
<1> QED BY <1>1, <1>6 DEF HubStep

\* A push in flight is one that the branch proposes.
FlyingNext ==
    /\ flying' \subseteq {"push", "create"} \X Branches \X Operations
    /\ \A m \in flying' : m \in flying \/ (m[1] = "push" => Proposes(m[2], m[3]))

LEMMA HubSteps ==
    ASSUME Protocol, HubShape, NEW x \in Executors, PlaceFits(x), Step(x) \/ Crash(x)
    PROVE  HubStep /\ FlyingNext
<1>1. CASE UNCHANGED hubVars
  BY <1>1 DEF hubVars, HubStep, FlyingNext, HubShape
<1>2. ASSUME NEW pc, NEW kind \in {"push", "create"}, CallGitHub(x, pc, kind),
             kind = "push" => exec[x].pc = "push", exec[x].pc # "idle"
      PROVE  HubStep /\ FlyingNext
  <2>1. PICK r \in Requests : r = Req(x) /\ r.branch \in Branches /\ r.op \in Operations
                              /\ r.op = Op(x) /\ Place(x, r)
    BY <1>2, RequestAssumption, ProposalRequestAssumption
    DEF Protocol, ExecFits, CallFits, Op, Req, PlaceFits
  <2>2. kind = "push" => Proposes(r.branch, r.op)
    BY <1>2, <2>1 DEF Place, Publishing
  <2>3. branch' = branch /\ journal' = journal
    BY <1>2 DEF CallGitHub, repoVars
  <2>4. CASE /\ IF kind = "push"
                THEN remote' = PushLands(r.branch, r.op) /\ UNCHANGED pulls
                ELSE pulls' = CreateLands(r.branch) /\ UNCHANGED remote
             /\ UNCHANGED <<flying, abandoned>>
    <3>1. Pushes \/ Opens
      BY <2>1, <2>2, <2>4 DEF Pushes, Opens
    <3> QED BY <2>3, <2>4, <3>1 DEF HubStep, FlyingNext, HubShape
  <2>5. CASE /\ flying' \in {flying, flying \cup {<<kind, r.branch, r.op>>}}
             /\ UNCHANGED <<remote, pulls>>
    <3>1. HubStep
      BY <2>5 DEF HubStep
    <3>2. FlyingNext
      <4>1. \A m \in flying' : m \in flying \/ m = <<kind, r.branch, r.op>>
        BY <2>5
      <4>2. flying' \subseteq {"push", "create"} \X Branches \X Operations
        BY <1>2, <2>1, <2>5 DEF HubShape
      <4>3. \A m : m = <<kind, r.branch, r.op>> =>
                m[1] = kind /\ m[2] = r.branch /\ m[3] = r.op
        OBVIOUS
      <4> QED BY <2>2, <4>1, <4>2, <4>3 DEF FlyingNext
    <3> QED BY <3>1, <3>2
  <2>6. CallGitHub(x, pc, kind) => \/ /\ IF kind = "push"
                                         THEN remote' = PushLands(r.branch, r.op) /\ UNCHANGED pulls
                                         ELSE pulls' = CreateLands(r.branch) /\ UNCHANGED remote
                                      /\ UNCHANGED <<flying, abandoned>>
                                   \/ /\ flying' \in {flying, flying \cup {<<kind, r.branch, r.op>>}}
                                      /\ UNCHANGED <<remote, pulls>>
    BY <2>1 DEF CallGitHub
  <2> QED BY <1>2, <2>4, <2>5, <2>6
<1>3. CASE Push(x)
  BY <1>2, <1>3 DEF Push
<1>4. CASE CreatePull(x)
  BY <1>2, <1>4 DEF CreatePull
<1>5. UNCHANGED hubVars \/ Push(x) \/ CreatePull(x)
  BY DEF Step, AuthorizeActor, DenyActor, Review, PrepareSubmission, PrepareImpact, AnalyzeBatch,
      PrepareDecision, Prepare, Resolve, Worktree, Checkout, Lock, WriteFile, Truncate, Fill, Status,
      CommitFiles, StageNothing, StagePrepared, StagePushed, StageOpened, Look, Stage,
      RecordAcceptance, ReadHead, ReadPushed, ReadPull, ReadCreated, Crash
<1> QED BY <1>1, <1>3, <1>4, <1>5

LEMMA OutsideSteps ==
    ASSUME HubShape, FlyingFits, Outside
    PROVE  /\ HubStep /\ FlyingNext
           /\ journalVars' = journalVars
           /\ branch' = branch /\ files' = files /\ lock' = lock
<1>1. CASE \E m \in flying : Land(m)
  <2>1. PICK m \in flying : Land(m)
    BY <1>1
  <2>2. m[2] \in Branches /\ m[3] \in Operations /\ (m[1] = "push" => Proposes(m[2], m[3]))
    BY <2>1 DEF HubShape, FlyingFits
  <2>3. Pushes \/ Opens
    BY <2>1, <2>2 DEF Land, Pushes, Opens
  <2> QED BY <2>1, <2>3 DEF Land, HubStep, FlyingNext, HubShape, journalVars, repoVars
<1>2. CASE \E b \in Branches : PublishAcceptance(b)
  <2>1. PICK b \in Branches : PublishAcceptance(b)
    BY <1>2
  <2>2. UNCHANGED <<journalVars, repoVars, flying>>
    BY <2>1 DEF PublishAcceptance
  <2> QED BY <1>2, <2>2 DEF HubStep, Publishes, FlyingNext, HubShape, journalVars, repoVars
<1>3. CASE \E b \in Branches : \E i \in DOMAIN pulls[b] : Touch(b, i)
  <2>1. UNCHANGED <<journalVars, branch, files, lock, remote, flying>>
    BY <1>3 DEF Touch
  <2> QED BY <1>3, <2>1 DEF HubStep, Touches, FlyingNext, HubShape, journalVars
<1>4. CASE Advance
  BY <1>4 DEF Advance, HubStep, FlyingNext, HubShape, journalVars, hubVars
<1> QED BY <1>1, <1>2, <1>3, <1>4 DEF Outside

-----------------------------------------------------------------------------
\* The branch of a Submission: it has the proposal and at most its acceptance, its
\* files are generated, and its worktree is written by whoever holds the lock.
Reserved(b) == \E r \in Requests : r.branch = b /\ r.command \in Exclusive
AcceptedText == Bytes("accepted", NoCommit, 0)
TreeFits(b) ==
    Reserved(b) /\ branch[b].log # <<>> =>
        /\ Len(branch[b].log) \in {1, 2}
        /\ \E o \in Operations, q \in Requests, t \in 1 .. MaxCalls :
              /\ Tip(b).op = o /\ Request(o) = q /\ q.command \in Exclusive
              /\ Len(branch[b].log) = 2 => q.command = Accepts
              /\ \A f \in FileSet(q) : branch[b].tree[f] = Generated(q, f, t)
        /\ files[b]["submission"] \in {branch[b].tree["submission"], AcceptedText}

Hold(x, r) ==
    /\ exec[x].pc \in {"write", "commit"} => lock[r.branch] = x
    /\ exec[x].pc = "commit" =>
          /\ \E t \in Nat : /\ At(x) = t
                            /\ \A f \in FileSet(r) : files[r.branch][f] = Generated(r, f, t)
          /\ exec[x].seen.changed # {} =>
                files[r.branch]["submission"] # branch[r.branch].tree["submission"]
HoldFits(x) ==
    \A r \in Requests :
       exec[x].pc # "idle" /\ Req(x) = r /\ r.command \in Exclusive => Hold(x, r)

LEMMA ReservedFor ==
    ASSUME NEW r \in Requests
    PROVE  Reserved(r.branch) <=> r.command \in Exclusive
BY BranchAssumption DEF Reserved, Exclusive

\* What is generated of a Submission is a text, and open until it is accepted.
LEMMA SubmissionText ==
    ASSUME NEW r \in Requests, r.command \in Exclusive, NEW t
    PROVE  /\ "submission" \in FileSet(r)
           /\ Generated(r, "submission", t) # Absent
           /\ Generated(r, "submission", t) = AcceptedText <=> r.command = Accepts
<1>1. /\ Bytes("accepted", NoCommit, 0) # Absent
      /\ Bytes(r.content, NoCommit, 0) # Absent
  <2>1. 0 \in 0 .. MaxCalls
    BY CommitAssumption
  <2>2. \A text \in {"accepted"} \cup {q.content : q \in Requests} :
           Bytes(text, NoCommit, 0) \in [text: {"accepted"} \cup {q.content : q \in Requests},
                                         op: Operations \cup {NoCommit}, at: 0 .. MaxCalls]
    BY <2>1 DEF Bytes
  <2> QED BY <2>2, CommitAssumption
<1>2. CASE r.command = "submission.create"
  <2>1. r.content # "accepted" /\ Generated(r, "submission", t) = Bytes(r.content, NoCommit, 0)
    BY <1>2, CommitAssumption DEF Generated, Open, Accepts
  <2>2. Bytes(r.content, NoCommit, 0).text = r.content /\ AcceptedText.text = "accepted"
    BY DEF Bytes, AcceptedText
  <2> QED BY <1>1, <1>2, <2>1, <2>2, FileSets DEF Accepts
<1>3. CASE r.command = Accepts
  BY <1>1, <1>3, FileSets DEF Generated, AcceptedText, Accepts
<1> QED BY <1>2, <1>3 DEF Exclusive

LEMMA TreeStays ==
    ASSUME RepoShape, RepoShape', NEW b \in Branches, LogFits(b), Extends(b), Grows, TreeFits(b),
           branch'[b].log = branch[b].log, branch'[b].tree = branch[b].tree,
           Reserved(b) /\ branch[b].log # <<>> =>
              files'[b]["submission"] \in {files[b]["submission"], AcceptedText}
    PROVE  TreeFits(b)'
<1> SUFFICES ASSUME Reserved(b), branch[b].log # <<>>
             PROVE  TreeFits(b)'
  BY DEF TreeFits, Reserved
<1>1. PICK o \in Operations, q \in Requests, t \in 1 .. MaxCalls :
          /\ Tip(b).op = o /\ Request(o) = q /\ q.command \in Exclusive
          /\ Len(branch[b].log) = 2 => q.command = Accepts
          /\ \A f \in FileSet(q) : branch[b].tree[f] = Generated(q, f, t)
  BY DEF TreeFits
<1>2. Tip(b)' = Tip(b) /\ Tip(b) = branch[b].log[Len(branch[b].log)]
  BY DEF Tip
<1>3. Len(branch[b].log) \in DOMAIN branch[b].log
  BY LogEntries DEF RepoShape
<1>4. Known(o)
  BY <1>1, <1>2, <1>3 DEF LogFits
<1>5. Request(o)' = q
  BY <1>1, <1>4 DEF Grows
<1> QED BY <1>1, <1>2, <1>5 DEF TreeFits

\* Who writes the file of a Submission that is committed writes its acceptance.
LEMMA Written ==
    ASSUME RepoShape, NEW x \in Executors, NEW r \in Requests, r = Req(x), NEW b \in Branches,
           b = r.branch, r.command \in Exclusive, Place(x, r), Writes(x), TreeFits(b),
           branch[b].log # <<>>
    PROVE  files'[b]["submission"] \in {files[b]["submission"], AcceptedText}
<1>1. CASE files' = files
  BY <1>1
<1>2. CASE files' # files
  <2>0. PICK f \in FileNames : \E content :
            /\ files' = [files EXCEPT ![b][f] = content]
            /\ exec[x].pc = "write" => Allowed(x, f, content)
            /\ exec[x].pc \in {"write", "truncate", "fill"}
    BY <1>2 DEF Writes
  <2>1. PICK content :
            /\ files' = [files EXCEPT ![b][f] = content]
            /\ exec[x].pc = "write" => Allowed(x, f, content)
            /\ exec[x].pc \in {"write", "truncate", "fill"}
    BY <2>0
  <2>2. Allowed(x, f, content)
    BY <2>1 DEF Place
  <2>3. "submission" \in FileNames /\ Leftover # "submission"
    BY CommitAssumption DEF FileNames
  <2>4. f # "submission" => files'[b]["submission"] = files[b]["submission"]
    BY <2>1, <2>3 DEF RepoShape
  <2>5. ASSUME f = "submission"
        PROVE  files'[b]["submission"] = AcceptedText
    <3>1. MayWrite(x, f) /\ content = Generated(r, f, At(x)) /\ files'[b][f] = content
      BY <2>1, <2>2, <2>3, <2>5 DEF Allowed, RepoShape
    <3>2. CASE r.command = Accepts
      <4>1. PICK t : t = At(x)
        OBVIOUS
      <4> QED BY <2>5, <3>1, <3>2, <4>1, SubmissionText
    <3>3. CASE r.command # Accepts
      <4>1. files[b]["submission"] = Absent
        BY <2>5, <3>1, <3>3 DEF MayWrite
      <4>2. Reserved(b)
        BY ReservedFor
      <4>3. PICK q \in Requests, t \in 1 .. MaxCalls :
              /\ q.command \in Exclusive
              /\ \A g \in FileSet(q) : branch[b].tree[g] = Generated(q, g, t)
        BY <4>2 DEF TreeFits
      <4>4. branch[b].tree["submission"] # Absent
        BY <4>3, SubmissionText
      <4>5. AcceptedText # Absent
        <5>1. AcceptedText \in [text: {"accepted"} \cup {p.content : p \in Requests},
                                op: Operations \cup {NoCommit}, at: 0 .. MaxCalls]
          BY CommitAssumption DEF AcceptedText, Bytes
        <5> QED BY <5>1, CommitAssumption
      <4> QED BY <4>1, <4>2, <4>4, <4>5 DEF TreeFits
    <3> QED BY <3>2, <3>3
  <2> QED BY <2>4, <2>5
<1> QED BY <1>1, <1>2

LEMMA TreeCommitted ==
    ASSUME Protocol, RepoShape, NEW x \in Executors, NEW r \in Requests, r = Req(x),
           NEW b \in Branches, b = r.branch, r.command \in Exclusive,
           Known(r.op), Request(r.op) = r, r.op = Op(x), calls > 0,
           Place(x, r), Hold(x, r), LogFits(b), TreeFits(b), Adding(x, b), Grows
    PROVE  TreeFits(b)'
<1> DEFINE log == branch[b].log
           c == Child(b, r.op)
<1>1. /\ exec[x].pc = "commit" /\ exec[x].seen.changed # {} /\ files' = files
      /\ branch'[b].log = Append(log, c) /\ branch'[b].tree = files[b]
  BY DEF Adding
<1>2. PICK t \in Nat : At(x) = t /\ \A f \in FileSet(r) : files[b][f] = Generated(r, f, t)
  BY <1>1 DEF Hold
<1>3. files[b]["submission"] # branch[b].tree["submission"]
  BY <1>1 DEF Hold
<1>4. r.op \in Operations /\ log \in Seq(Commits)
  BY RequestAssumption DEF RepoShape
<1>5. c \in Commits /\ c.op = r.op
  BY <1>4, ChildFits
<1>6. /\ Len(branch'[b].log) = Len(log) + 1 /\ branch'[b].log # <<>>
      /\ branch'[b].log[Len(branch'[b].log)] = c
  <2> HIDE DEF log, c
  <2> QED BY <1>1, <1>4, <1>5, LogAppended
<1>7. Tip(b)' = c
  BY <1>6 DEF Tip
<1>8. Request(r.op)' = r
  BY <1>4 DEF Grows
<1>9. calls \in Nat /\ calls <= MaxCalls /\ MaxCalls \in Nat /\ t <= calls
  <2>1. calls \in Nat /\ calls <= MaxCalls /\ MaxCalls \in Nat /\ At(x) \in 0 .. calls
    BY CommitAssumption DEF Protocol, ExecFits, CallFits
  <2> QED BY <1>2, <2>1
<1>10. r.command = Accepts => log # <<>> /\ t > 0
  BY <1>1, <1>2 DEF Place, Accepting, Working, Proposes
<1>11. files[b]["submission"] = Generated(r, "submission", t)
  BY <1>2, SubmissionText
<1>12. Len(log) \in Nat /\ (log = <<>> => Len(log) = 0)
  BY <1>4
<1> HIDE DEF c
<1>13. CASE log = <<>>
  <2>1. r.command = "submission.create"
    BY <1>10, <1>13 DEF Exclusive
  <2>2. \A f \in FileSet(r) : files[b][f] = Generated(r, f, 1)
    BY <1>2, <2>1 DEF Generated, Accepts
  <2>3. 1 \in 1 .. MaxCalls
    BY <1>9
  <2> QED BY <1>1, <1>4, <1>5, <1>6, <1>7, <1>8, <1>12, <1>13, <2>2, <2>3 DEF TreeFits
<1>14. CASE log # <<>>
  <2>1. Reserved(b)
    BY ReservedFor
  <2>2. /\ Len(log) \in {1, 2}
        /\ \E q \in Requests, u \in 1 .. MaxCalls :
              /\ q.command \in Exclusive /\ (Len(log) = 2 => q.command = Accepts)
              /\ \A f \in FileSet(q) : branch[b].tree[f] = Generated(q, f, u)
        /\ files[b]["submission"] = AcceptedText
    BY <1>3, <1>14, <2>1 DEF TreeFits
  <2>3. r.command = Accepts
    BY <1>11, <2>2, SubmissionText
  <2>4. Len(log) # 2
    BY <1>3, <2>2, SubmissionText
  <2>5. t \in 1 .. MaxCalls
    BY <1>9, <1>10, <2>3
  <2>6. Len(branch'[b].log) = 2
    <3>1. Len(log) = 1
      BY <2>2, <2>4
    <3> HIDE DEF log
    <3> QED BY <1>6, <3>1
  <2> QED BY <1>1, <1>2, <1>4, <1>5, <1>7, <1>8, <2>3, <2>5, <2>6 DEF TreeFits
<1> QED BY <1>13, <1>14

LEMMA TreesFit ==
    ASSUME Protocol, RepoShape, RepoShape', NEW x \in Executors, PlaceFits(x), HoldFits(x),
           exec[x].pc # "idle", Branching(x), Writes(x), Grows,
           \A b \in Branches : LogFits(b) /\ Extends(b) /\ TreeFits(b)
    PROVE  \A b \in Branches : TreeFits(b)'
<1>1. PICK r \in Requests, b \in Branches :
         /\ r = Req(x) /\ r.branch = b /\ r.op \in Operations /\ r.op = Op(x)
         /\ Known(r.op) /\ Request(r.op) = r /\ Place(x, r) /\ calls > 0
         /\ r.command \in Exclusive => Hold(x, r)
  BY RequestAssumption, ProposalRequestAssumption
  DEF Protocol, ExecFits, CallFits, Op, Req, PlaceFits, HoldFits
<1>2. /\ \A c \in Branches : c # b => branch'[c] = branch[c] /\ files'[c] = files[c]
      /\ Staying(b) \/ Starting(x, b) \/ Adding(x, b)
  BY <1>1, BranchMoves, FilesMove
<1>3. ASSUME NEW c \in Branches, c # b
      PROVE  TreeFits(c)'
  BY <1>2, <1>3, TreeStays
<1>4. CASE r.command \notin Exclusive
  <2>1. ~ Reserved(b)
    BY <1>1, <1>4, ReservedFor
  <2>2. TreeFits(b)'
    BY <2>1 DEF TreeFits, Reserved
  <2> QED BY <1>3, <2>2
<1>5. CASE r.command \in Exclusive /\ Adding(x, b)
  <2>1. TreeFits(b)'
    BY <1>1, <1>5, TreeCommitted
  <2> QED BY <1>3, <2>1
<1>6. CASE r.command \in Exclusive /\ ~ Adding(x, b)
  <2>1. branch'[b].log = branch[b].log /\ branch'[b].tree = branch[b].tree
    BY <1>2, <1>6 DEF Staying, Starting
  <2>2. branch[b].log # <<>> =>
            files'[b]["submission"] \in {files[b]["submission"], AcceptedText}
    BY <1>1, <1>6, Written
  <2>3. TreeFits(b)'
    BY <2>1, <2>2, TreeStays
  <2> QED BY <1>3, <2>3
<1> QED BY <1>4, <1>5, <1>6

\* Nobody else writes where a lock is held.
LEMMA HoldStays ==
    ASSUME Protocol, RepoShape, NEW x \in Executors, PlaceFits(x), HoldFits(x),
           exec[x].pc # "idle", Branching(x), Writes(x), Locks(x),
           NEW y \in Executors, y # x, exec'[y] = exec[y], HoldFits(y)
    PROVE  HoldFits(y)'
<1> SUFFICES ASSUME NEW q \in Requests, exec[y].pc # "idle", Req(y) = q, q.command \in Exclusive,
                    exec[y].pc \in {"write", "commit"}
             PROVE  Hold(y, q)'
  BY DEF HoldFits, Hold, Req
<1>1. PICK c \in Branches : c = q.branch /\ Hold(y, q) /\ lock[c] = y
  BY ProposalRequestAssumption DEF HoldFits, Hold
<1>2. PICK r \in Requests, b \in Branches :
         /\ r = Req(x) /\ r.branch = b /\ Place(x, r) /\ (r.command \in Exclusive => Hold(x, r))
  BY ProposalRequestAssumption DEF Protocol, ExecFits, CallFits, PlaceFits, HoldFits
<1>3. lock'[c] = y
  BY <1>1 DEF Locks
<1>4. files'[c] = files[c] /\ branch'[c].tree = branch[c].tree
  <2>1. CASE c # b
    BY <1>2, <2>1, BranchMoves, FilesMove
  <2>2. CASE c = b
    <3>1. r.command \in Exclusive
      BY <1>1, <1>2, <2>2, BranchAssumption DEF Exclusive
    <3>2. exec[x].pc \notin {"write", "truncate", "fill", "commit"}
      BY <1>1, <1>2, <2>2, <3>1 DEF Hold, Place
    <3>3. files' = files
      BY <3>2 DEF Writes
    <3>4. Staying(b) \/ Starting(x, b)
      BY <1>2, <3>2, BranchMoves DEF Adding
    <3> QED BY <2>2, <3>3, <3>4 DEF Staying, Starting
  <2> QED BY <2>1, <2>2
<1>5. exec'[y].pc = exec[y].pc /\ exec'[y].seen = exec[y].seen /\ At(y)' = At(y)
  BY DEF At
<1> QED BY <1>1, <1>3, <1>4, <1>5 DEF Hold

-----------------------------------------------------------------------------
\* Where a step takes its executor.
LEMMA Seen ==
    ASSUME ExecFits, NEW x \in Executors, NEW pc, NEW seen, See(x, pc, seen)
    PROVE  exec'[x].pc = pc /\ exec'[x].seen = seen /\ exec'[x].verdict = "none"
<1>1. exec'[x] = Call(pc, Req(x), {}, seen, "none")
  BY DEF See, ExecFits
<1> QED BY <1>1, CallFields

LEMMA SeenChanged ==
    ASSUME ExecFits, NEW x \in Executors, NEW pc, NEW changed,
           See(x, pc, [Dated(x) EXCEPT !.changed = changed])
    PROVE  exec'[x].pc = pc /\ exec'[x].seen.at = At(x) /\ exec'[x].seen.changed = changed
<1>1. PICK seen : seen = [Dated(x) EXCEPT !.changed = changed]
  OBVIOUS
<1>2. See(x, pc, seen)
  BY <1>1
<1>3. seen.at = At(x) /\ seen.changed = changed
  BY <1>1, ChangedShape
<1> QED BY <1>2, <1>3, Seen

LEMMA Moved ==
    ASSUME ExecFits, NEW x \in Executors, NEW pc, Move(x, pc)
    PROVE  exec'[x].pc = pc /\ exec'[x].verdict = "none" /\ At(x)' = At(x)
BY Seen, DatedShape DEF Move, At

LEMMA Failed ==
    ASSUME ExecFits, NEW x \in Executors, Fail(x)
    PROVE  exec'[x].pc = "fail"
BY Seen DEF Fail

LEMMA Returned ==
    ASSUME ExecFits, NEW x \in Executors, Return(x)
    PROVE  exec'[x].pc = "idle"
BY NoCallFields DEF Return, ExecFits

LEMMA Looked ==
    ASSUME ExecFits, NEW x \in Executors, NEW pc, NEW next, Look(x, pc, next),
           exec'[x].pc # "idle"
    PROVE  exec[x].pc = pc /\ exec'[x].pc = next /\ exec'[x].verdict = exec[x].verdict
<1>1. ~ Return(x)
  BY Returned
<1>2. PICK knows : exec' = [exec EXCEPT ![x].knows = knows, ![x].pc = next]
  BY <1>1 DEF Look
<1>3. PICK c : c = exec[x]
  OBVIOUS
<1>4. c = [k \in CallKeys |-> c[k]]
  BY <1>3 DEF ExecFits, CallFits
<1>5. exec'[x] = [c EXCEPT !.knows = knows, !.pc = next]
  BY <1>2, <1>3 DEF ExecFits
<1>6. exec'[x].pc = next /\ exec'[x].verdict = c.verdict
  BY <1>4, <1>5 DEF CallKeys
<1> QED BY <1>3, <1>6 DEF Look

LEMMA Staged ==
    ASSUME ExecFits, NEW x \in Executors, NEW pc, NEW kind, NEW group, NEW next, NEW verdict,
           Stage(x, pc, kind, group, next, verdict), exec'[x].pc # "idle"
    PROVE  exec[x].pc = pc /\ exec'[x].pc = next /\ exec'[x].verdict = verdict
<1>1. ~ Return(x)
  BY Returned
<1>2. Forget(x, next, verdict)
  BY <1>1 DEF Stage
<1>3. exec'[x] = Call(next, Req(x), {}, Unread, verdict)
  BY <1>2 DEF Forget, ExecFits
<1> QED BY <1>3, CallFields DEF Stage

LEMMA Recorded ==
    ASSUME ExecFits, NEW x \in Executors, NEW kind, NEW result, RecordAlways(x, kind, result),
           exec'[x].pc # "idle"
    PROVE  exec'[x].pc = "finish" /\ exec'[x].verdict = result
<1>1. ~ Return(x)
  BY Returned
<1>2. Goto(x, "finish", result)
  BY <1>1 DEF RecordAlways
<1>3. exec'[x] = Call("finish", exec[x].req, exec[x].knows, Unread, result)
  BY <1>2 DEF Goto, ExecFits
<1> QED BY <1>3, CallFields

LEMMA Asked ==
    ASSUME ExecFits, NEW x \in Executors, NEW pc, NEW kind, CallGitHub(x, pc, kind)
    PROVE  exec'[x].pc = pc
<1>1. exec'[x] = Call(pc, Req(x), {}, Unread, "none")
  BY DEF CallGitHub, ExecFits
<1> QED BY <1>1, CallFields

\* Nothing is known where nothing is to be published yet, or any more.
LEMMA Aside ==
    ASSUME NEW x \in Executors, NEW r \in Requests,
           \/ exec'[x].pc \in {"authorize", "fail", "check", "review", "nothing?", "nothing"}
           \/ /\ exec'[x].pc = "finish"
              /\ exec'[x].verdict \notin {"proposal_open", "acceptance_prepared"}
    PROVE  Place(x, r)' /\ Hold(x, r)'
BY DEF Place, Hold, Accepting, Working, Publishing, Ending

\* The proposal that is accepted was verified to be the only commit of its branch.
LEMMA ReviewedFits ==
    ASSUME Protocol, RepoShape, NEW r \in Requests, r.command = Accepts,
           NEW b \in Branches, b = r.branch, LogFits(b),
           Tip(b) = Proposal(r.expects), Reproducible(b, r.expects)
    PROVE  Proposes(b, r.expects)
<1> DEFINE log == branch[b].log
           o == r.expects
<1>1. o \in Operations /\ log \in Seq(Commits)
  BY ProposalRequestAssumption DEF RepoShape
<1>2. Tip(b).op = o /\ Tip(b).parent = Request(o).base
  BY CommitFields DEF Proposal, Request
<1>3. log # <<>>
  <2>1. Root(branch[b].base).op = NoCommit
    BY CommitFields DEF Root
  <2> QED BY <1>1, <1>2, <2>1, CommitAssumption DEF Tip
<1>4. Tip(b) = log[Len(log)] /\ Len(log) \in DOMAIN log /\ Len(log) \in Nat
  BY <1>1, <1>3, LogEntries DEF Tip
<1>5. Known(o)
  BY <1>2, <1>4 DEF LogFits
<1>6. Request(o).base \in Nat
  <2>1. Request(o) \in Requests
    BY <1>1, <1>5 DEF Protocol, JournalFits
  <2>2. Request(o).command = "submission.create"
    BY DEF Reproducible, Request
  <2> QED BY <2>1, <2>2, ProposalRequestAssumption DEF Creates
<1>7. Len(log) = 1
  <2>1. SUFFICES ASSUME Len(log) # 1
                 PROVE  FALSE
    OBVIOUS
  <2>2. Len(log) > 1 /\ Len(log) - 1 \in DOMAIN log
    <3>1. DOMAIN log = 1 .. Len(log)
      BY <1>1, LogEntries
    <3> HIDE DEF log
    <3> QED BY <1>4, <2>1, <3>1
  <2>3. log[Len(log)].parent = log[Len(log) - 1].op
    BY <1>4, <2>2 DEF LogFits
  <2>4. log[Len(log) - 1].op \in Operations
    BY <1>1, <2>2, LogEntries
  <2> QED BY <1>2, <1>4, <1>6, <2>3, <2>4, CommitAssumption
<1> QED BY <1>3, <1>4, <1>7 DEF Proposes, First

\* A commit that was verified is the proposal, or the one acceptance of it.
LEMMA VerifiedFits ==
    ASSUME RepoShape', NEW r \in Requests, r.op \in Operations, NEW b \in Branches, b = r.branch,
           LogFits(b)', TreeFits(b)', Request(r.op)' = r, NEW tree, NEW worktree,
           Verified(r, branch'[b].log, tree, worktree)
    PROVE  IF r.command = Accepts
           THEN Len(branch'[b].log) > 1 /\ Second(b)' = Commit(r.op, r.expects)
           ELSE Proposes(b, r.op)'
<1>1. PICK log \in Seq(Commits) : log = branch'[b].log
  BY DEF RepoShape
<1>2. log # <<>> /\ log[Len(log)].op = r.op /\ log[Len(log)].parent = Expected(r)
      /\ log[Len(log)] = Commit(r.op, Expected(r))
  BY <1>1, CommitFields DEF Verified
<1>3. /\ Len(log) \in DOMAIN log /\ Len(log) \in Nat /\ DOMAIN log = 1 .. Len(log) /\ Len(log) > 0
      /\ \A i \in DOMAIN log : log[i].op \in Operations
  BY <1>2, LogEntries
<1>4. /\ log[1].parent = branch'[b].base /\ branch'[b].base \in Nat
      /\ \A i \in DOMAIN log : i > 1 => log[i].parent = log[i - 1].op
  BY <1>1, <1>2 DEF LogFits, RepoShape
<1>5. CASE r.command = Accepts
  <2>1. Expected(r) = r.expects /\ r.expects \in Operations
    BY <1>5, ProposalRequestAssumption DEF Expected
  <2>2. Len(log) # 1
    BY <1>2, <1>4, <2>1, CommitAssumption
  <2>3. Reserved(b)
    BY <1>5, ReservedFor DEF Exclusive
  <2>4. Len(log) \in {1, 2}
    BY <1>1, <1>2, <2>3 DEF TreeFits, Reserved
  <2>5. Len(log) = 2
    BY <2>2, <2>4
  <2> QED BY <1>1, <1>2, <1>5, <2>1, <2>5 DEF Second
<1>6. CASE r.command # Accepts
  <2>1. Expected(r) = r.base /\ r.base \in Nat
    BY <1>6, ProposalRequestAssumption DEF Expected, Creates
  <2>2. Len(log) = 1
    <3>1. SUFFICES ASSUME Len(log) > 1
                   PROVE  FALSE
      BY <1>3
    <3>2. Len(log) - 1 \in DOMAIN log
      BY <1>3, <3>1
    <3>3. log[Len(log)].parent \in Operations
      BY <1>3, <1>4, <3>1, <3>2
    <3> QED BY <1>2, <2>1, <3>3, CommitAssumption
  <2>3. Proposes(b, r.op)'
    BY <1>1, <1>2, <2>1, <2>2 DEF Proposes, First, Proposal, Request
  <2> QED BY <1>6, <2>3
<1> QED BY <1>5, <1>6

\* The call of x goes on with its request, r.
Placed(x, r) == Place(x, r)' /\ (r.command \in Exclusive => Hold(x, r)')

LEMMA CommittedFits ==
    ASSUME Protocol, RepoShape, RepoShape', NEW x \in Executors, NEW r \in Requests, r = Req(x),
           r.op \in Operations, NEW b \in Branches, b = r.branch, LogFits(b)', TreeFits(b)',
           Request(r.op)' = r, CommitFiles(x)
    PROVE  Placed(x, r)
<1> DEFINE log == IF exec[x].seen.changed = {} THEN branch[b].log
                  ELSE Append(branch[b].log, Child(b, r.op))
           tree == IF exec[x].seen.changed = {} THEN branch[b].tree ELSE files[b]
           refused == exec[x].seen.changed # {} /\ Changed(b) = {}
           next == IF r.command = Accepts THEN "note" ELSE "prepared?"
<1>1. /\ IF refused THEN UNCHANGED branch
         ELSE branch' = [branch EXCEPT ![b].log = log, ![b].tree = tree]
      /\ IF refused \/ ~ Verified(r, log, tree, files[b]) THEN Fail(x) ELSE See(x, next, Unread)
  BY DEF CommitFiles
<1> HIDE DEF log, tree, refused, next
<1>2. CASE Fail(x)
  <2>1. exec'[x].pc = "fail"
    BY <1>2, Failed DEF Protocol
  <2>2. Place(x, r)' /\ Hold(x, r)'
    BY <2>1, Aside
  <2> QED BY <2>2 DEF Placed
<1>3. CASE ~ refused /\ Verified(r, log, tree, files[b]) /\ See(x, next, Unread)
  <2>1. branch'[b].log = log
    <3>1. PICK s, l, w : s = branch[b] /\ l = log /\ w = tree
      OBVIOUS
    <3>2. branch'[b] = [s EXCEPT !.log = l, !.tree = w] /\ s = [k \in BranchKeys |-> s[k]]
      BY <1>1, <1>3, <3>1 DEF RepoShape
    <3>3. branch'[b].log = l
      BY <3>2 DEF BranchKeys
    <3> QED BY <3>1, <3>3
  <2>2. IF r.command = Accepts
        THEN Len(branch'[b].log) > 1 /\ Second(b)' = Commit(r.op, r.expects)
        ELSE Proposes(b, r.op)'
    <3>1. Verified(r, branch'[b].log, tree, files[b])
      BY <1>3, <2>1
    <3> QED BY <3>1, VerifiedFits
  <2>3. exec'[x].pc = next
    BY <1>3, Seen DEF Protocol
  <2> QED BY <2>2, <2>3 DEF Placed, Place, Hold, Accepting, Working, Publishing, Ending, next
<1> QED BY <1>1, <1>2, <1>3

\* What stands, for the call of x.
LEMMA Carries ==
    ASSUME RepoShape, RepoShape', Onward, NEW b \in Branches, LogFits(b), NEW r \in Requests, r.branch = b
    PROVE  /\ branch[b].base # 0 => branch'[b].base # 0
           /\ Proposes(b, r.op) => Proposes(b, r.op)'
           /\ Proposes(b, r.expects) => Proposes(b, r.expects)'
           /\ Len(branch[b].log) > 1 /\ Second(b) = Commit(r.op, r.expects) =>
                 Len(branch'[b].log) > 1 /\ Second(b)' = Commit(r.op, r.expects)
           /\ (\E i \in DOMAIN pulls[b] : pulls[b][i].opened = r.op)
                 => (\E i \in DOMAIN pulls'[b] : pulls'[b][i].opened = r.op)
<1>1. Extends(b) /\ KeepsOpened(b) /\ Grows
  BY DEF Onward
<1>2. /\ \A o : Proposes(b, o) => Proposes(b, o)'
      /\ Len(branch[b].log) > 1 => Len(branch'[b].log) > 1 /\ Second(b)' = Second(b)
  BY <1>1, Lasting
<1>3. /\ Proposes(b, r.op) => Proposes(b, r.op)'
      /\ Proposes(b, r.expects) => Proposes(b, r.expects)'
  BY <1>2
<1>4. (\E i \in DOMAIN pulls[b] : pulls[b][i].opened = r.op)
         => (\E i \in DOMAIN pulls'[b] : pulls'[b][i].opened = r.op)
  BY <1>1 DEF KeepsOpened
<1>5. branch[b].base # 0 => branch'[b].base # 0
  BY <1>1 DEF Extends
<1> QED BY <1>2, <1>3, <1>4, <1>5

\* A step aside, or on with what is known.
LEMMA PlacedAside ==
    ASSUME NEW x \in Executors, NEW r \in Requests,
           \/ exec'[x].pc \in {"authorize", "fail", "check", "review", "nothing?", "nothing"}
           \/ /\ exec'[x].pc = "finish"
              /\ exec'[x].verdict \notin {"proposal_open", "acceptance_prepared"}
    PROVE  Placed(x, r)
<1>1. Place(x, r)' /\ Hold(x, r)'
  BY Aside
<1> QED BY <1>1 DEF Placed

LEMMA FailedFits ==
    ASSUME Protocol, NEW x \in Executors, NEW r \in Requests, Fail(x)
    PROVE  Placed(x, r)
<1>1. exec'[x].pc = "fail"
  BY Failed DEF Protocol
<1>2. exec'[x].pc \in {"authorize", "fail", "check", "review", "nothing?", "nothing"}
  BY <1>1
<1> QED BY <1>2, PlacedAside

LEMMA ObservedFits ==
    ASSUME Protocol, RepoShape, RepoShape', HubShape, Onward, NEW x \in Executors,
           NEW r \in Requests, r = Req(x), r.op = Op(x), r.op \in Operations,
           NEW b \in Branches, b = r.branch, LogFits(b), HubFits(b), Place(x, r),
           exec[x].pc \in {"pull", "created pull"}, NEW found, Observe(x, found, FALSE)
    PROVE  Placed(x, r)
<1>1. CASE Fail(x)
  BY <1>1, FailedFits
<1>2. CASE /\ Len(pulls[b]) = 1 /\ Exact(x, pulls[b][1])
           /\ exec' = [exec EXCEPT ![x].pc = "opened?", ![x].verdict = found]
  <2>0. Proposes(b, r.op)
    BY DEF Place, Publishing
  <2>1. First(b).op = r.op
    BY <2>0, ProposesFirst
  <2>2. 1 \in DOMAIN pulls[b] /\ pulls[b] # <<>> /\ pulls[b][1].head = r.op
    <3>1. PICK list \in Seq(PullRecords) : list = pulls[b]
      BY DEF HubShape
    <3>2. Len(list) = 1 => 1 \in DOMAIN list /\ list # <<>>
      BY OneListed
    <3> QED BY <1>2, <3>1, <3>2 DEF Exact
  <2>3. PullFits(b, pulls[b][1])
    BY <2>2 DEF HubFits
  <2>4. \E i \in DOMAIN pulls[b] : pulls[b][i].opened = r.op
    BY <2>1, <2>2, <2>3 DEF PullFits
  <2>5. exec'[x].pc = "opened?"
    <3>1. PICK c : c = exec[x]
      OBVIOUS
    <3>2. exec'[x] = [c EXCEPT !.pc = "opened?", !.verdict = found] /\ c = [k \in CallKeys |-> c[k]]
      BY <1>2, <3>1 DEF Protocol, ExecFits, CallFits
    <3> QED BY <3>2 DEF CallKeys
  <2>6. /\ Proposes(b, r.op)'
        /\ \E i \in DOMAIN pulls'[b] : pulls'[b][i].opened = r.op
    BY <2>0, <2>4, Carries
  <2> QED BY <2>5, <2>6 DEF Placed, Place, Hold, Accepting, Working, Publishing, Ending
<1> QED BY <1>1, <1>2 DEF Observe

LEMMA OnwardFits ==
    ASSUME RepoShape, RepoShape', HubShape, Protocol, Onward, NEW x \in Executors, NEW r \in Requests, r = Req(x),
           NEW b \in Branches, r.branch = b, LogFits(b), Place(x, r),
           exec[x].pc \in Publishing, exec'[x].pc \in Publishing,
           exec'[x].pc \in {"opened?", "opened"} => exec[x].pc \in {"opened?", "opened"}
    PROVE  Placed(x, r)
<1>1. Proposes(b, r.op)'
  BY Carries DEF Place
<1>2. exec[x].pc \in {"opened?", "opened"} => \E i \in DOMAIN pulls'[b] : pulls'[b][i].opened = r.op
  BY Carries DEF Place
<1>3. exec'[x].pc \notin Accepting \cup {"worktree", "finish", "note", "write", "commit"}
  BY DEF Publishing, Accepting, Working
<1>4. exec'[x].pc \notin Working \cup {"truncate", "fill"}
  BY DEF Publishing, Working
<1> QED BY <1>1, <1>2, <1>3, <1>4 DEF Placed, Place, Hold, Ending

LEMMA OwnFits ==
    ASSUME Protocol, Protocol', RepoShape, RepoShape', HubShape, Onward, NEW x \in Executors,
           NEW r \in Requests, Req(x) = r, Req(x)' = r, exec'[x].pc # "idle",
           NEW b \in Branches, r.branch = b, LogFits(b), LogFits(b)', HubFits(b), TreeFits(b)',
           PlaceFits(x), HoldFits(x), Step(x) \/ Crash(x)
    PROVE  Placed(x, r)
<1>0. /\ exec[x].pc # "idle" /\ Place(x, r) /\ (r.command \in Exclusive => Hold(x, r))
      /\ r.op \in Operations /\ r.op = Op(x) /\ Known(r.op) /\ Request(r.op) = r /\ calls > 0
      /\ Request(r.op)' = r
  <2>1. exec[x].pc # "idle"
    BY StepActs DEF Protocol
  <2>2. Known(r.op) /\ Request(r.op) = r /\ calls > 0 /\ r.op \in Operations /\ r.op = Op(x)
    BY <2>1, RequestAssumption DEF Protocol, ExecFits, CallFits, Op, Req
  <2>3. Request(r.op)' = r
    BY <2>2 DEF Onward, Grows
  <2> QED BY <2>1, <2>2, <2>3 DEF PlaceFits, HoldFits
<1>a. ExecFits /\ ~ Return(x)
  BY Returned DEF Protocol
<1>b. /\ branch[b].base # 0 => branch'[b].base # 0
      /\ Proposes(b, r.op) => Proposes(b, r.op)'
      /\ Proposes(b, r.expects) => Proposes(b, r.expects)'
      /\ Len(branch[b].log) > 1 /\ Second(b) = Commit(r.op, r.expects) =>
            Len(branch'[b].log) > 1 /\ Second(b)' = Commit(r.op, r.expects)
      /\ (\E i \in DOMAIN pulls[b] : pulls[b][i].opened = r.op)
            => (\E i \in DOMAIN pulls'[b] : pulls'[b][i].opened = r.op)
  BY Carries
<1>c. Fail(x) => Placed(x, r)
  BY FailedFits
<1>1. CASE AuthorizeActor(x)
  <2> DEFINE next == IF Req(x).command = Accepts THEN "review" ELSE "check"
  <2>1. Read(x, next, exec[x].seen)
    BY <1>1, <1>a DEF AuthorizeActor, Authorize, Record
  <2>2. exec'[x].pc = next
    BY <1>a, <2>1, CallFields DEF Read, ExecFits
  <2>3. exec'[x].pc \in {"authorize", "fail", "check", "review", "nothing?", "nothing"}
    BY <2>2
  <2> QED BY <2>3, PlacedAside
<1>2. CASE DenyActor(x)
  <2>1. exec'[x].pc = "finish" /\ exec'[x].verdict = "denied"
    BY <1>2, <1>a, Recorded DEF DenyActor, Deny
  <2>2. exec'[x].verdict \notin {"proposal_open", "acceptance_prepared"}
    BY <2>1
  <2> QED BY <2>1, <2>2, PlacedAside
<1>3. CASE Review(x)
  <2>1. CASE See(x, "resolve", [Unread EXCEPT !.at = calls]) /\ ~ Fail(x)
    <3>1. exec'[x].pc = "resolve" /\ At(x)' = calls
      <4>1. [Unread EXCEPT !.at = calls].at = calls
        BY UnreadShape DEF SeenKeys
      <4> QED BY <1>a, <2>1, <4>1, Seen DEF At
    <3>2. Tip(b) = Proposal(r.expects) /\ Reproducible(b, r.expects)
      BY <1>3, <2>1 DEF Review
    <3>3. r.command = Accepts => Proposes(b, r.expects)'
      BY <1>b, <3>2, ReviewedFits
    <3> QED BY <1>0, <3>1, <3>3 DEF Placed, Place, Hold, Working, Publishing, Ending
  <2> QED BY <1>3, <1>c, <2>1 DEF Review
<1>4. CASE PrepareSubmission(x) \/ PrepareImpact(x) \/ AnalyzeBatch(x) \/ PrepareDecision(x)
  <2>1. PICK next \in {"resolve", "nothing?"} : Fail(x) \/ Move(x, next)
    BY <1>4 DEF PrepareSubmission, PrepareImpact, AnalyzeBatch, PrepareDecision, Prepare
  <2>2. r.command # Accepts
    BY <1>4 DEF PrepareSubmission, PrepareImpact, AnalyzeBatch, PrepareDecision, Prepare, Accepts
  <2>3. CASE Move(x, next)
    <3>1. exec'[x].pc = next
      BY <1>a, <2>3, Moved
    <3> QED BY <2>1, <2>2, <3>1 DEF Placed, Place, Hold, Working, Publishing, Ending
  <2> QED BY <1>c, <2>1, <2>3
<1>5. CASE Resolve(x)
  <2> DEFINE head == IF branch[b].base # 0 THEN Tip(b) ELSE Root(r.base)
             seen == [exec[x].seen EXCEPT !.head = head]
  <2>1. CASE See(x, "worktree", seen)
    <3>1. seen.head = head /\ seen.at = At(x)
      <4>1. PICK s, h : s = exec[x].seen /\ h = head
        OBVIOUS
      <4>2. s = [k \in SeenKeys |-> s[k]]
        BY <1>a, <4>1 DEF ExecFits, CallFits
      <4>3. [s EXCEPT !.head = h].head = h /\ [s EXCEPT !.head = h].at = s.at
        BY <4>2 DEF SeenKeys
      <4> QED BY <4>1, <4>3 DEF At
    <3> HIDE DEF seen
    <3>2. exec'[x].pc = "worktree" /\ exec'[x].seen = seen /\ At(x)' = At(x)
      BY <1>a, <2>1, <3>1, Seen DEF At
    <3>3. exec[x].pc = "resolve"
      BY <1>5 DEF Resolve
    <3>4. r.command = Accepts => Proposes(b, r.expects)' /\ Proposes(b, r.expects) /\ At(x)' > 0
      BY <1>0, <1>b, <3>2, <3>3 DEF Place, Accepting
    <3>5. branch[b].base # 0 \/ head.parent \in Nat \ {0}
      <4>1. CASE r.command = Accepts
        BY <3>4, <4>1 DEF Proposes, LogFits
      <4>2. CASE r.command # Accepts
        <5>1. r.base \in Nat \ {0}
          BY <4>2, ProposalRequestAssumption
        <5>2. Root(r.base).parent = r.base
          BY CommitFields DEF Root
        <5> QED BY <5>1, <5>2
      <4> QED BY <4>1, <4>2
    <3> HIDE DEF head
    <3> QED BY <1>b, <3>1, <3>2, <3>4, <3>5 DEF Placed, Place, Hold, Working, Publishing, Ending
  <2>2. Fail(x) \/ See(x, "worktree", seen)
    BY <1>5 DEF Resolve
  <2> QED BY <1>c, <2>1, <2>2
<1>6. CASE Worktree(x)
  <2>1. exec[x].pc = "worktree"
    BY <1>6 DEF Worktree
  <2>2. r.command = Accepts => Proposes(b, r.expects)' /\ At(x) > 0
    BY <1>0, <1>b, <2>1 DEF Place, Accepting
  <2>3. CASE /\ branch[b].base = 0 /\ Move(x, "checkout")
             /\ branch' = [branch EXCEPT ![b].base = exec[x].seen.head.parent]
    <3>1. exec[x].seen.head.parent \in Nat \ {0}
      BY <1>0, <2>1, <2>3 DEF Place
    <3>2. branch'[b].base = exec[x].seen.head.parent
      BY <2>3 DEF RepoShape, BranchKeys
    <3>3. exec'[x].pc = "checkout" /\ At(x)' = At(x)
      BY <1>a, <2>3, Moved
    <3> QED BY <2>2, <3>1, <3>2, <3>3 DEF Placed, Place, Hold, Working, Publishing, Ending
  <2>4. CASE Tip(b) = exec[x].seen.head /\ Move(x, "lock")
    <3>1. branch[b].base # 0
      <4>1. SUFFICES ASSUME branch[b].base = 0
                     PROVE  FALSE
        OBVIOUS
      <4>2. branch[b].log = <<>>
        BY <4>1 DEF LogFits
      <4>3. Tip(b).parent = 0
        BY <4>1, <4>2, CommitFields DEF Tip, Root
      <4> QED BY <1>0, <2>1, <2>4, <4>1, <4>3 DEF Place
    <3>2. exec'[x].pc = "lock" /\ At(x)' = At(x)
      BY <1>a, <2>4, Moved
    <3> QED BY <1>b, <2>2, <3>1, <3>2 DEF Placed, Place, Hold, Working, Publishing, Ending
  <2> QED BY <1>6, <1>c, <2>3, <2>4 DEF Worktree
<1>7. CASE Checkout(x)
  <2>1. exec[x].pc = "checkout" /\ exec'[x].pc = "lock" /\ At(x)' = At(x)
    BY <1>7, <1>a, Moved DEF Checkout
  <2> QED BY <1>0, <1>b, <2>1 DEF Placed, Place, Hold, Accepting, Working, Publishing, Ending
<1>8. CASE Lock(x)
  <2>1. exec[x].pc = "lock" /\ exec'[x].pc = "write" /\ At(x)' = At(x) /\ TakeLock(x, b)
    BY <1>8, <1>a, Moved DEF Lock
  <2>2. r.command \in Exclusive => lock'[b] = x
    BY <2>1 DEF TakeLock, Locked, RepoShape
  <2> QED BY <1>0, <1>b, <2>1, <2>2 DEF Placed, Place, Hold, Accepting, Working, Publishing, Ending
<1>9. CASE WriteFile(x)
  <2>1. exec[x].pc = "write"
    BY <1>9 DEF WriteFile
  <2>2. CASE Move(x, "write") /\ UNCHANGED lock
    <3>1. exec'[x].pc = "write" /\ At(x)' = At(x) /\ lock' = lock
      BY <1>a, <2>2, Moved
    <3> QED BY <1>0, <1>b, <2>1, <3>1 DEF Placed, Place, Hold, Accepting, Working, Publishing, Ending
  <2>3. ASSUME NEW f, ~ Locked(r), See(x, "truncate", [Dated(x) EXCEPT !.changed = {f}])
        PROVE  Placed(x, r)
    <3>1. exec'[x].pc = "truncate" /\ exec'[x].seen.at = At(x)
      BY <1>a, <2>3, SeenChanged
    <3>2. r.command \notin Exclusive /\ At(x)' = At(x)
      BY <2>3, <3>1 DEF Locked, At
    <3> QED BY <1>0, <1>b, <2>1, <3>1, <3>2 DEF Placed, Place, Hold, Accepting, Working, Publishing, Ending
  <2>4. CASE Fail(x)
    BY <1>c, <2>4
  <2> QED BY <1>9, <2>2, <2>3, <2>4 DEF WriteFile
<1>10. CASE Truncate(x)
  <2>1. exec[x].pc = "truncate" /\ exec'[x].pc = "fill" /\ At(x)' = At(x)
    BY <1>10, <1>a, Seen DEF Truncate, At
  <2> QED BY <1>0, <1>b, <2>1 DEF Placed, Place, Hold, Accepting, Working, Publishing, Ending
<1>11. CASE Fill(x)
  <2>1. exec[x].pc = "fill" /\ exec'[x].pc = "write" /\ At(x)' = At(x)
    BY <1>11, <1>a, Moved DEF Fill
  <2> QED BY <1>0, <1>b, <2>1 DEF Placed, Place, Hold, Accepting, Working, Publishing, Ending
<1>12. CASE Status(x)
  <2>1. exec[x].pc = "write" /\ Missing(x) = {}
    BY <1>12 DEF Status
  <2>2. CASE Changed(b) \in {{}, FileSet(r)} /\ UNCHANGED repoVars
             /\ See(x, "commit", [Dated(x) EXCEPT !.changed = Changed(b)])
    <3>1. exec'[x].pc = "commit" /\ exec'[x].seen.at = At(x) /\ exec'[x].seen.changed = Changed(b)
      <4>1. PICK changed : changed = Changed(b)
        OBVIOUS
      <4>2. See(x, "commit", [Dated(x) EXCEPT !.changed = changed])
        BY <2>2, <4>1
      <4> QED BY <1>a, <4>1, <4>2, SeenChanged
    <3>2. At(x)' = At(x)
      BY <3>1 DEF At
    <3>3. PICK t \in Nat : At(x) = t
      <4>1. At(x) \in 0 .. calls /\ calls \in Nat
        BY <1>a DEF ExecFits, CallFits
      <4>2. At(x) \in Nat
        BY <4>1
      <4> QED BY <4>2
    <3>4. \A f \in FileSet(r) : files[b][f] = Generated(r, f, t)
      BY <2>1, <3>3 DEF Missing, FileSet
    <3>5. Changed(b) # {} /\ r.command \in Exclusive =>
              files[b]["submission"] # branch[b].tree["submission"]
      BY <2>2, SubmissionText DEF Changed
    <3>6. files' = files /\ branch' = branch /\ lock' = lock
      BY <2>2 DEF repoVars
    <3>7. r.command \in Exclusive => Hold(x, r)'
      BY <1>0, <2>1, <3>1, <3>2, <3>3, <3>4, <3>5, <3>6 DEF Hold
    <3>8. Place(x, r)'
      BY <1>0, <1>b, <2>1, <3>1, <3>2 DEF Place, Accepting, Working, Publishing, Ending
    <3> QED BY <3>7, <3>8 DEF Placed
  <2> QED BY <1>12, <1>c, <2>2 DEF Status, FailLocked
<1>13. CASE CommitFiles(x)
  BY <1>0, <1>13, CommittedFits
<1>14. CASE StageNothing(x)
  <2>1. CASE Look(x, "nothing?", "nothing")
    <3>1. exec'[x].pc = "nothing"
      BY <1>a, <2>1, Looked
    <3>2. exec'[x].pc \in {"authorize", "fail", "check", "review", "nothing?", "nothing"}
      BY <3>1
    <3> QED BY <3>2, PlacedAside
  <2>2. CASE Stage(x, "nothing", "batch_unaffected", {"batch_unaffected"}, "finish", "no_change")
    <3>1. exec'[x].pc = "finish" /\ exec'[x].verdict = "no_change"
      BY <1>a, <2>2, Staged
    <3>2. exec'[x].verdict \notin {"proposal_open", "acceptance_prepared"}
      BY <3>1
    <3> QED BY <3>1, <3>2, PlacedAside
  <2> QED BY <1>14, <2>1, <2>2 DEF StageNothing
<1>15. CASE StagePrepared(x)
  <2>1. exec[x].pc \in {"prepared?", "prepared"} /\ exec'[x].pc \in {"prepared", "head"}
    BY <1>15, <1>a, Looked, Staged DEF StagePrepared
  <2> QED BY <1>0, <2>1, OnwardFits DEF Publishing
<1>16. CASE StagePushed(x)
  <2>1. exec[x].pc \in {"pushed?", "pushed"} /\ exec'[x].pc \in {"pushed", "pull"}
    BY <1>16, <1>a, Looked, Staged DEF StagePushed
  <2> QED BY <1>0, <2>1, OnwardFits DEF Publishing
<1>17. CASE StageOpened(x)
  <2>1. CASE Look(x, "opened?", "opened")
    <3>1. exec[x].pc = "opened?" /\ exec'[x].pc = "opened"
      BY <1>a, <2>1, Looked
    <3> QED BY <1>0, <3>1, OnwardFits DEF Publishing
  <2>2. CASE Stage(x, "opened", exec[x].verdict, {"pr_created", "pr_observed"},
                   "finish", "proposal_open")
    <3>1. exec[x].pc = "opened" /\ exec'[x].pc = "finish" /\ exec'[x].verdict = "proposal_open"
      <4>1. PICK v : v = exec[x].verdict
        OBVIOUS
      <4>2. Stage(x, "opened", v, {"pr_created", "pr_observed"}, "finish", "proposal_open")
        BY <2>2, <4>1
      <4> QED BY <1>a, <4>2, Staged
    <3>2. Proposes(b, r.op)' /\ \E i \in DOMAIN pulls'[b] : pulls'[b][i].opened = r.op
      BY <1>0, <1>b, <3>1 DEF Place, Publishing
    <3> QED BY <3>1, <3>2 DEF Placed, Place, Hold, Accepting, Working, Publishing, Ending
  <2> QED BY <1>17, <2>1, <2>2 DEF StageOpened
<1>18. CASE RecordAcceptance(x)
  <2>1. exec[x].pc = "note" /\ exec'[x].pc = "finish" /\ exec'[x].verdict = "acceptance_prepared"
    BY <1>18, <1>a, Recorded DEF RecordAcceptance
  <2>2. Len(branch'[b].log) > 1 /\ Second(b)' = Commit(r.op, r.expects)
    BY <1>0, <1>b, <2>1 DEF Place
  <2> QED BY <2>1, <2>2 DEF Placed, Place, Hold, Accepting, Working, Publishing, Ending
<1>19. CASE ReadHead(x)
  <2>1. exec[x].pc = "head" /\ (Fail(x) \/ Move(x, "push") \/ Move(x, "pushed?"))
    BY <1>19 DEF ReadHead
  <2>2. CASE Move(x, "push") \/ Move(x, "pushed?")
    <3>1. exec'[x].pc \in {"push", "pushed?"}
      BY <1>a, <2>2, Moved
    <3> QED BY <1>0, <2>1, <3>1, OnwardFits DEF Publishing
  <2> QED BY <1>c, <2>1, <2>2
<1>20. CASE Push(x)
  <2>1. exec[x].pc = "push" /\ exec'[x].pc = "pushed head"
    BY <1>20, <1>a, Asked DEF Push
  <2> QED BY <1>0, <2>1, OnwardFits DEF Publishing
<1>21. CASE ReadPushed(x)
  <2>1. exec[x].pc = "pushed head" /\ (Fail(x) \/ Move(x, "pushed?"))
    BY <1>21, <1>a DEF ReadPushed, MissingHead, RaiseUnrecorded
  <2>2. CASE Move(x, "pushed?")
    <3>1. exec'[x].pc = "pushed?"
      BY <1>a, <2>2, Moved
    <3> QED BY <1>0, <2>1, <3>1, OnwardFits DEF Publishing
  <2> QED BY <1>c, <2>1, <2>2
<1>22. CASE ReadPull(x)
  <2>1. exec[x].pc = "pull" /\ Observe(x, "pr_observed", Move(x, "create"))
    BY <1>22 DEF ReadPull
  <2>2. CASE Move(x, "create")
    <3>1. exec'[x].pc = "create"
      BY <1>a, <2>2, Moved
    <3> QED BY <1>0, <2>1, <3>1, OnwardFits DEF Publishing
  <2>3. CASE ~ Move(x, "create")
    <3>1. Observe(x, "pr_observed", FALSE)
      BY <2>1, <2>3 DEF Observe
    <3> QED BY <1>0, <2>1, <3>1, ObservedFits
  <2> QED BY <2>2, <2>3
<1>23. CASE CreatePull(x)
  <2>1. exec[x].pc = "create" /\ exec'[x].pc = "created pull"
    BY <1>23, <1>a, Asked DEF CreatePull
  <2> QED BY <1>0, <2>1, OnwardFits DEF Publishing
<1>24. CASE ReadCreated(x)
  <2>1. exec[x].pc = "created pull" /\ Observe(x, "pr_created", MissingPull(x))
    BY <1>24 DEF ReadCreated
  <2>2. ~ MissingPull(x)
    BY <1>a DEF MissingPull, RaiseUnrecorded
  <2>3. Observe(x, "pr_created", FALSE)
    BY <2>1, <2>2 DEF Observe
  <2> QED BY <1>0, <2>1, <2>3, ObservedFits
<1>25. CASE RecordFailure(x)
  <2>1. exec'[x].pc = "finish" /\ exec'[x].verdict = "failed"
    BY <1>25, <1>a, Recorded DEF RecordFailure
  <2>2. exec'[x].verdict \notin {"proposal_open", "acceptance_prepared"}
    BY <2>1
  <2> QED BY <2>1, <2>2, PlacedAside
<1>26. CASE Finish(x) \/ Crash(x)
  BY <1>26, <1>a DEF Finish, Crash, Abandon
<1> QED
  BY <1>1, <1>2, <1>3, <1>4, <1>5, <1>6, <1>7, <1>8, <1>9, <1>10, <1>11, <1>12, <1>13, <1>14,
     <1>15, <1>16, <1>17, <1>18, <1>19, <1>20, <1>21, <1>22, <1>23, <1>24, <1>25, <1>26 DEF Step

-----------------------------------------------------------------------------
\* The result of an operation, and what the branch then has.
RecordFits(o) ==
    LET result == journal[o].result
        b == Request(o).branch
    IN  /\ ~ Known(o) => result = "none"
        /\ result = "proposal_open" =>
              Proposes(b, o) /\ \E i \in DOMAIN pulls[b] : pulls[b][i].opened = o
        /\ result = "acceptance_prepared" =>
              Len(branch[b].log) > 1 /\ Second(b) = Commit(o, Request(o).expects)

\* Only Finish writes a result.
LEMMA ResultsWritten ==
    ASSUME NEW x \in Executors, Step(x) \/ Crash(x)
    PROVE  journal' = journal \/ (\E kind : AppendEvent(Op(x), kind)) \/ Finish(x)
<1>1. ASSUME Fail(x) \/ (\E pc : Move(x, pc)) \/ (\E pc, seen : See(x, pc, seen)) \/ Crash(x)
      PROVE  journal' = journal
  BY <1>1 DEF Fail, Move, See, Crash, Abandon
<1>2. ASSUME NEW kind, NEW result, RecordAlways(x, kind, result)
      PROVE  journal' = journal \/ AppendEvent(Op(x), kind)
  BY <1>2 DEF RecordAlways
<1>3. ASSUME NEW pc, NEW next, Look(x, pc, next)
      PROVE  journal' = journal
  BY <1>3 DEF Look
<1>4. ASSUME NEW pc, NEW kind, NEW group, NEW next, NEW verdict, Stage(x, pc, kind, group, next, verdict)
      PROVE  journal' = journal \/ AppendEvent(Op(x), kind)
  BY <1>4 DEF Stage
<1>5. CASE AuthorizeActor(x) \/ DenyActor(x) \/ RecordAcceptance(x) \/ RecordFailure(x)
  BY <1>2, <1>5 DEF AuthorizeActor, Authorize, Record, DenyActor, Deny, RecordAcceptance, RecordFailure
<1>6. CASE Review(x) \/ PrepareSubmission(x) \/ PrepareImpact(x) \/ AnalyzeBatch(x)
           \/ PrepareDecision(x) \/ Resolve(x) \/ Worktree(x) \/ Checkout(x) \/ Lock(x)
  BY <1>6 DEF Review, PrepareSubmission, PrepareImpact, AnalyzeBatch, PrepareDecision, Prepare,
              Resolve, Worktree, Checkout, Lock, Fail, Move, See
<1>7. CASE WriteFile(x) \/ Truncate(x) \/ Fill(x) \/ Status(x) \/ CommitFiles(x)
  BY <1>7 DEF WriteFile, Truncate, Fill, Status, CommitFiles, FailLocked, Fail, Move, See
<1>8. CASE StageNothing(x) \/ StagePrepared(x) \/ StagePushed(x)
  BY <1>3, <1>4, <1>8 DEF StageNothing, StagePrepared, StagePushed
<1>9. CASE StageOpened(x)
  <2>1. PICK v : v = exec[x].verdict
    OBVIOUS
  <2>2. Look(x, "opened?", "opened")
        \/ Stage(x, "opened", v, {"pr_created", "pr_observed"}, "finish", "proposal_open")
    BY <1>9, <2>1 DEF StageOpened
  <2> QED BY <1>3, <1>4, <2>2
<1>10. CASE ReadHead(x) \/ ReadPushed(x)
  BY <1>10 DEF ReadHead, ReadPushed, MissingHead, RaiseUnrecorded, Fail, Move, See
<1>11. CASE Push(x) \/ CreatePull(x)
  BY <1>11 DEF Push, CreatePull, CallGitHub
<1>12. CASE ReadPull(x) \/ ReadCreated(x)
  BY <1>12 DEF ReadPull, ReadCreated, Observe, MissingPull, RaiseUnrecorded, Fail, Move, See
<1> QED
  BY <1>1, <1>5, <1>6, <1>7, <1>8, <1>9, <1>10, <1>11, <1>12 DEF Step

LEMMA RecordStays ==
    ASSUME Protocol, RepoShape, RepoShape', \A b \in Branches : LogFits(b), Onward,
           NEW o \in Operations, RecordFits(o), journal'[o].result = journal[o].result
    PROVE  RecordFits(o)'
<1>1. CASE ~ Known(o)
  BY <1>1 DEF RecordFits
<1>2. CASE Known(o)
  <2>1. PICK r \in Requests : r = Request(o) /\ r.op = o /\ r.branch \in Branches
    BY <1>2, ProposalRequestAssumption DEF Protocol, JournalFits
  <2>2. Known(o)' /\ Request(o)' = r
    BY <1>2, <2>1 DEF Onward, Grows
  <2>3. PICK b \in Branches : b = r.branch
    BY <2>1
  <2>4. /\ Proposes(b, o) => Proposes(b, o)'
        /\ Len(branch[b].log) > 1 /\ Second(b) = Commit(o, r.expects) =>
              Len(branch'[b].log) > 1 /\ Second(b)' = Commit(o, r.expects)
        /\ (\E i \in DOMAIN pulls[b] : pulls[b][i].opened = o)
              => (\E i \in DOMAIN pulls'[b] : pulls'[b][i].opened = o)
    BY <2>1, <2>3, Carries
  <2>5. /\ journal[o].result = "proposal_open" =>
              Proposes(b, o) /\ \E i \in DOMAIN pulls[b] : pulls[b][i].opened = o
        /\ journal[o].result = "acceptance_prepared" =>
              Len(branch[b].log) > 1 /\ Second(b) = Commit(o, r.expects)
    BY <2>1, <2>3 DEF RecordFits
  <2>6. /\ journal'[o].result = "proposal_open" =>
              Proposes(b, o)' /\ \E i \in DOMAIN pulls'[b] : pulls'[b][i].opened = o
        /\ journal'[o].result = "acceptance_prepared" =>
              Len(branch'[b].log) > 1 /\ Second(b)' = Commit(o, r.expects)
    BY <2>4, <2>5
  <2> QED BY <2>2, <2>3, <2>6 DEF RecordFits
<1> QED BY <1>1, <1>2

LEMMA RecordsFit ==
    ASSUME Protocol, RepoShape, RepoShape', \A b \in Branches : LogFits(b), Onward,
           NEW x \in Executors, PlaceFits(x), Step(x) \/ Crash(x),
           NEW o \in Operations, RecordFits(o)
    PROVE  RecordFits(o)'
<1>1. exec[x].pc # "idle"
  BY StepActs DEF Protocol
<1>2. PICK r \in Requests : /\ r = Req(x) /\ r.op = Op(x) /\ r.op \in Operations /\ Known(r.op)
                            /\ Request(r.op) = r /\ Place(x, r) /\ r.branch \in Branches
  BY <1>1, RequestAssumption, ProposalRequestAssumption
  DEF Protocol, ExecFits, CallFits, Op, Req, PlaceFits
<1>3. CASE journal'[o].result = journal[o].result
  BY <1>3, RecordStays
<1>4. CASE journal' = journal \/ \E kind : AppendEvent(r.op, kind)
  <2>1. journal'[o].result = journal[o].result
    BY <1>2, <1>4 DEF AppendEvent, Row, Protocol, JournalFits
  <2> QED BY <1>3, <2>1
<1>5. CASE Finish(x) /\ journal'[o].result # journal[o].result
  <2>1. PICK v : v = exec[x].verdict
    OBVIOUS
  <2>2. exec[x].pc = "finish" /\ FinishOperation(r.op, v)
    BY <1>2, <1>5, <2>1 DEF Finish
  <2>3. PICK events :
          journal' = [journal EXCEPT ![r.op] = IF journal[r.op].state = "terminal" THEN journal[r.op]
                                               ELSE Row("terminal", r, events, v)]
    BY <1>2, <2>2 DEF FinishOperation, Request
  <2>4. o = r.op /\ journal'[o].result = v
    BY <1>2, <1>5, <2>3 DEF Protocol, JournalFits, Row
  <2>5. Known(o)' /\ Request(o)' = r
    BY <1>2, <2>4 DEF Onward, Grows
  <2>6. PICK b \in Branches : b = r.branch /\ LogFits(b)
    BY <1>2
  <2>7. /\ Proposes(b, o) => Proposes(b, o)'
        /\ Len(branch[b].log) > 1 /\ Second(b) = Commit(o, r.expects) =>
              Len(branch'[b].log) > 1 /\ Second(b)' = Commit(o, r.expects)
        /\ (\E i \in DOMAIN pulls[b] : pulls[b][i].opened = o)
              => (\E i \in DOMAIN pulls'[b] : pulls'[b][i].opened = o)
    BY <2>4, <2>6, Carries
  <2>8. /\ v = "proposal_open" =>
              Proposes(b, o) /\ \E i \in DOMAIN pulls[b] : pulls[b][i].opened = o
        /\ v = "acceptance_prepared" =>
              Len(branch[b].log) > 1 /\ Second(b) = Commit(o, r.expects)
    BY <1>2, <2>1, <2>2, <2>4, <2>6 DEF Place, Ending
  <2>9. /\ journal'[o].result = "proposal_open" =>
              Proposes(b, o)' /\ \E i \in DOMAIN pulls'[b] : pulls'[b][i].opened = o
        /\ journal'[o].result = "acceptance_prepared" =>
              Len(branch'[b].log) > 1 /\ Second(b)' = Commit(o, r.expects)
    BY <2>4, <2>7, <2>8
  <2> QED BY <2>5, <2>6, <2>9 DEF RecordFits
<1> QED BY <1>2, <1>3, <1>4, <1>5, ResultsWritten

-----------------------------------------------------------------------------
\* The invariant.
Inv ==
    /\ Protocol /\ RepoShape /\ HubShape /\ FlyingFits
    /\ \A b \in Branches : LogFits(b) /\ TreeFits(b) /\ HubFits(b)
    /\ \A x \in Executors : PlaceFits(x) /\ HoldFits(x)
    /\ \A o \in Operations : RecordFits(o)

LEMMA InvInit == Init => Inv
<1> SUFFICES ASSUME Init
             PROVE  Inv
  OBVIOUS
<1>1. Protocol
  <2>1. ASSUME NEW x \in Executors
        PROVE  CallFits(x)
    <3>1. exec[x] = NoCall /\ calls = 0
      BY DEF Init, JournalInit
    <3>2. exec[x] = [k \in CallKeys |-> exec[x][k]] /\ exec[x].pc = "idle" /\ exec[x].seen = Unread
      BY <3>1, NoCallFields, CallFields DEF NoCall
    <3> QED BY <3>1, <3>2, UnreadShape DEF CallFits, At
  <2>2. \A o \in Operations : journal[o].state = "absent"
    BY DEF Init, JournalInit, NoRow
  <2> QED BY <2>1, <2>2, CommitAssumption DEF Init, JournalInit, Protocol, JournalFits, ExecFits, Known
<1>2. RepoShape
  <2>1. /\ NoBranch = [k \in BranchKeys |-> NoBranch[k]] /\ NoBranch.base \in Nat
        /\ NoBranch.log \in Seq(Commits)
    BY DEF NoBranch, BranchKeys
  <2> QED BY <2>1 DEF Init, RepoShape, EmptyTree
<1>3. HubShape /\ FlyingFits
  BY CommitAssumption DEF Init, HubShape, FlyingFits
<1>4. ASSUME NEW b \in Branches
      PROVE  LogFits(b) /\ TreeFits(b) /\ HubFits(b)
  <2>1. branch[b].log = <<>> /\ remote[b] = NoCommit /\ pulls[b] = <<>>
    BY <1>4 DEF Init, NoBranch
  <2> QED BY <2>1 DEF LogFits, TreeFits, HubFits
<1>5. ASSUME NEW x \in Executors
      PROVE  PlaceFits(x) /\ HoldFits(x)
  BY <1>5, NoCallFields DEF Init, JournalInit, PlaceFits, HoldFits
<1>6. ASSUME NEW o \in Operations
      PROVE  RecordFits(o)
  <2>1. journal[o].result = "none"
    BY <1>6 DEF Init, JournalInit, NoRow
  <2> QED BY <2>1 DEF RecordFits
<1> QED BY <1>1, <1>2, <1>3, <1>4, <1>5, <1>6 DEF Inv

\* What was pushed, or may still be, the branch goes on to propose.
LEMMA FlyingLasts ==
    ASSUME RepoShape, RepoShape', HubShape', FlyingFits, FlyingNext, Grows,
           \A b \in Branches : LogFits(b) /\ Extends(b)
    PROVE  FlyingFits'
<1> SUFFICES ASSUME NEW m \in flying', m[1] = "push"
             PROVE  Proposes(m[2], m[3])'
  BY DEF FlyingFits
<1>1. PICK b, o : b = m[2] /\ o = m[3] /\ b \in Branches
  BY DEF HubShape
<1>2. Proposes(b, o)
  BY <1>1 DEF FlyingNext, FlyingFits
<1>3. Proposes(b, o)'
  BY <1>1, <1>2, Lasting
<1> QED BY <1>1, <1>3

LEMMA StepKeeps ==
    ASSUME Inv, NEW x \in Executors, Step(x) \/ Crash(x), calls' = calls
    PROVE  Inv' /\ Onward
<1>0. /\ Protocol /\ RepoShape /\ HubShape /\ FlyingFits /\ PlaceFits(x) /\ HoldFits(x) /\ ExecFits
      /\ \A b \in Branches : LogFits(b) /\ TreeFits(b) /\ HubFits(b)
      /\ \A y \in Executors : PlaceFits(y) /\ HoldFits(y)
  BY DEF Inv, Protocol
<1>1. Acts(x) /\ exec[x].pc # "idle"
  BY <1>0, StepActs
<1>2. Protocol' /\ Grows /\ Alone(x) /\ Keeps(x)
  BY <1>0, <1>1, ActsFit
<1>3. Locks(x) /\ Writes(x) /\ Branching(x)
  BY <1>0, RepoMoves
<1>4. RepoShape' /\ \A b \in Branches : LogFits(b)' /\ Extends(b)
  BY <1>0, <1>1, <1>2, <1>3, LogsGrow
<1>5. HubStep /\ FlyingNext
  BY <1>0, HubSteps
<1>6. /\ remote' \in [Branches -> Operations \cup {NoCommit}]
      /\ pulls' \in [Branches -> Seq(PullRecords)]
      /\ \A b \in Branches : KeepsOpened(b)
      /\ HubShape' => \A b \in Branches : HubFits(b)'
  BY <1>0, <1>2, <1>4, <1>5, HubMoves DEF Protocol
<1>7. HubShape' /\ \A b \in Branches : HubFits(b)'
  BY <1>5, <1>6 DEF HubShape, FlyingNext
<1>8. Onward
  BY <1>2, <1>4, <1>6 DEF Onward
<1>9. \A b \in Branches : TreeFits(b)'
  BY <1>0, <1>1, <1>2, <1>3, <1>4, TreesFit
<1>10. FlyingFits'
  BY <1>0, <1>2, <1>4, <1>5, <1>7, FlyingLasts
<1>11. ASSUME NEW y \in Executors, y # x
       PROVE  PlaceFits(y)' /\ HoldFits(y)'
  <2>1. exec'[y] = exec[y]
    BY <1>2, <1>11 DEF Alone
  <2> QED BY <1>0, <1>1, <1>3, <1>4, <1>8, <1>11, <2>1, PlaceStays, HoldStays
<1>12. PlaceFits(x)' /\ HoldFits(x)'
  <2> SUFFICES ASSUME NEW r \in Requests, exec'[x].pc # "idle", Req(x)' = r
               PROVE  Placed(x, r)
    BY DEF PlaceFits, HoldFits, Placed, Req
  <2>1. Req(x) = r
    BY <1>2, NoCallFields DEF Keeps
  <2>2. PICK b \in Branches : b = r.branch
    BY ProposalRequestAssumption
  <2> QED BY <1>0, <1>2, <1>4, <1>8, <1>9, <2>1, <2>2, OwnFits
<1>13. \A o \in Operations : RecordFits(o)'
  BY <1>0, <1>4, <1>8, RecordsFit DEF Inv
<1> QED BY <1>2, <1>4, <1>7, <1>8, <1>9, <1>10, <1>11, <1>12, <1>13 DEF Inv

\* A step that leaves the worktrees alone.
LEMMA RepoRests ==
    ASSUME Protocol, RepoShape, Grows, branch' = branch, files' = files, lock' = lock,
           \A b \in Branches : LogFits(b) /\ TreeFits(b)
    PROVE  RepoShape' /\ \A b \in Branches : LogFits(b)' /\ Extends(b) /\ TreeFits(b)'
<1>1. RepoShape'
  BY DEF RepoShape
<1> SUFFICES ASSUME NEW b \in Branches
             PROVE  LogFits(b)' /\ Extends(b) /\ TreeFits(b)'
  BY <1>1
<1>2. Extends(b)
  BY DEF Extends
<1>3. LogFits(b)'
  <2>1. PICK log \in Seq(Commits) : log = branch[b].log
    BY DEF RepoShape
  <2>2. \A i \in DOMAIN log : log[i].op \in Operations
    BY LogEntries
  <2>3. \A i \in DOMAIN log : Known(log[i].op)' /\ Request(log[i].op)' = Request(log[i].op)
    BY <2>1, <2>2 DEF LogFits, Grows
  <2> QED BY <2>1, <2>3 DEF LogFits, Known, Request
<1>4. TreeFits(b)'
  BY <1>1, <1>2, TreeStays
<1> QED BY <1>2, <1>3, <1>4

LEMMA HoldRests ==
    ASSUME branch' = branch, files' = files, lock' = lock, NEW y \in Executors, exec'[y] = exec[y],
           HoldFits(y)
    PROVE  HoldFits(y)'
BY DEF HoldFits, Hold, Req, At

LEMMA OutsideKeeps ==
    ASSUME Inv, Outside, calls' = calls
    PROVE  Inv' /\ Onward
<1>0. /\ Protocol /\ RepoShape /\ HubShape /\ FlyingFits /\ ExecFits /\ JournalFits
      /\ \A b \in Branches : LogFits(b) /\ TreeFits(b) /\ HubFits(b)
      /\ \A y \in Executors : PlaceFits(y) /\ HoldFits(y)
  BY DEF Inv, Protocol
<1>1. /\ HubStep /\ FlyingNext /\ journalVars' = journalVars
      /\ branch' = branch /\ files' = files /\ lock' = lock
  BY <1>0, OutsideSteps
<1>2. Protocol' /\ Grows /\ exec' = exec /\ journal' = journal
  BY <1>0, <1>1, OutsideFits DEF journalVars
<1>3. RepoShape' /\ \A b \in Branches : LogFits(b)' /\ Extends(b) /\ TreeFits(b)'
  BY <1>0, <1>1, <1>2, RepoRests
<1>4. /\ remote' \in [Branches -> Operations \cup {NoCommit}]
      /\ pulls' \in [Branches -> Seq(PullRecords)]
      /\ \A b \in Branches : KeepsOpened(b)
      /\ HubShape' => \A b \in Branches : HubFits(b)'
  BY <1>0, <1>1, <1>2, <1>3, HubMoves
<1>5. HubShape' /\ \A b \in Branches : HubFits(b)'
  BY <1>1, <1>4 DEF HubShape, FlyingNext
<1>6. Onward
  BY <1>2, <1>3, <1>4 DEF Onward
<1>7. FlyingFits'
  BY <1>0, <1>1, <1>2, <1>3, <1>5, FlyingLasts
<1>8. \A y \in Executors : PlaceFits(y)' /\ HoldFits(y)'
  BY <1>0, <1>1, <1>2, <1>3, <1>6, PlaceStays, HoldRests
<1>9. \A o \in Operations : RecordFits(o)'
  <2> SUFFICES ASSUME NEW o \in Operations
               PROVE  RecordFits(o)'
    OBVIOUS
  <2>1. RecordFits(o) /\ journal'[o].result = journal[o].result
    BY <1>2 DEF Inv
  <2> QED BY <1>0, <1>3, <1>6, <2>1, RecordStays
<1> QED BY <1>2, <1>3, <1>5, <1>6, <1>7, <1>8, <1>9 DEF Inv

LEMMA ClaimKeeps ==
    ASSUME Inv, NEW x \in Executors, NEW r \in Requests, Claim(x, r)
    PROVE  Inv' /\ Onward
<1>0. /\ Protocol /\ RepoShape /\ HubShape /\ FlyingFits /\ ExecFits
      /\ \A b \in Branches : LogFits(b) /\ TreeFits(b) /\ HubFits(b)
      /\ \A y \in Executors : PlaceFits(y) /\ HoldFits(y)
  BY DEF Inv, Protocol
<1>1. Protocol' /\ Grows /\ Alone(x) /\ exec'[x].pc = "authorize" /\ Req(x)' = r
  BY <1>0, ClaimFits
<1>2. /\ branch' = branch /\ files' = files /\ lock' = lock /\ calls' = calls + 1
      /\ remote' = remote /\ pulls' = pulls /\ flying' = flying
  BY DEF Claim, repoVars, hubVars
<1>3. RepoShape' /\ \A b \in Branches : LogFits(b)' /\ Extends(b) /\ TreeFits(b)'
  BY <1>0, <1>1, <1>2, RepoRests
<1>4. HubShape' /\ FlyingNext /\ \A b \in Branches : KeepsOpened(b)
  BY <1>0, <1>2 DEF HubShape, FlyingNext, KeepsOpened
<1>5. \A b \in Branches : HubFits(b)'
  BY <1>0, <1>1, <1>2, <1>3, <1>4, HubStays
<1>6. Onward
  BY <1>1, <1>2, <1>3, <1>4 DEF Onward
<1>7. FlyingFits'
  BY <1>0, <1>1, <1>3, <1>4, FlyingLasts
<1>8. ASSUME NEW y \in Executors, y # x
      PROVE  PlaceFits(y)' /\ HoldFits(y)'
  <2>1. exec'[y] = exec[y]
    BY <1>1, <1>8 DEF Alone
  <2> QED BY <1>0, <1>2, <1>3, <1>6, <2>1, PlaceStays, HoldRests
<1>9. PlaceFits(x)' /\ HoldFits(x)'
  <2> SUFFICES ASSUME NEW q \in Requests
               PROVE  Placed(x, q)
    BY DEF PlaceFits, HoldFits, Placed
  <2>1. exec'[x].pc \in {"authorize", "fail", "check", "review", "nothing?", "nothing"}
    BY <1>1
  <2> QED BY <2>1, PlacedAside
<1>10. ASSUME NEW o \in Operations
       PROVE  RecordFits(o)'
  <2>1. RecordFits(o) /\ RecordFits(r.op) /\ r.op \in Operations
    BY RequestAssumption DEF Inv
  <2>2. CASE BeginNew(r)
    <3>1. journal[r.op].result = "none"
      BY <2>1, <2>2 DEF BeginNew, RecordFits, Known
    <3>2. journal' = [journal EXCEPT ![r.op] = Row("running", r, <<"operation_started">>, "none")]
      BY <2>2 DEF BeginNew
    <3>3. journal'[o].result = journal[o].result
      BY <1>0, <2>1, <3>1, <3>2 DEF Protocol, JournalFits, Row
    <3> QED BY <1>0, <1>3, <1>6, <2>1, <3>3, RecordStays
  <2>3. CASE BeginAgain(r)
    <3>1. journal'[o].result = journal[o].result
      BY <2>3 DEF BeginAgain
    <3> QED BY <1>0, <1>3, <1>6, <2>1, <3>1, RecordStays
  <2> QED BY <2>2, <2>3 DEF Claim, Begin
<1> QED BY <1>1, <1>3, <1>4, <1>5, <1>6, <1>7, <1>8, <1>9, <1>10 DEF Inv

LEMMA StutterKeeps ==
    ASSUME Inv, UNCHANGED vars
    PROVE  Inv'
<1>1. /\ journal' = journal /\ exec' = exec /\ branch' = branch /\ files' = files /\ lock' = lock
      /\ remote' = remote /\ pulls' = pulls /\ flying' = flying /\ calls' = calls
  BY DEF vars, journalVars, repoVars, hubVars
<1>2. Protocol' /\ RepoShape' /\ HubShape' /\ FlyingFits'
  BY <1>1 DEF Inv, Protocol, JournalFits, ExecFits, CallFits, Known, Request, Req, Op, At,
              RepoShape, HubShape, FlyingFits, Proposes, First, Proposal
<1>3. \A b \in Branches : LogFits(b)' /\ TreeFits(b)' /\ HubFits(b)'
  <2> SUFFICES ASSUME NEW b \in Branches
               PROVE  LogFits(b)' /\ TreeFits(b)' /\ HubFits(b)'
    OBVIOUS
  <2>1. LogFits(b) /\ TreeFits(b) /\ HubFits(b)
    BY DEF Inv
  <2>2. LogFits(b)'
    BY <1>1, <2>1 DEF LogFits, Known, Request
  <2>3. TreeFits(b)'
    BY <1>1, <2>1 DEF TreeFits, Request, Tip
  <2>4. HubFits(b)'
    BY <1>1, <2>1 DEF HubFits, Request, Proposes, Shows, Follows, PullFits, First, Second, Proposal
  <2> QED BY <2>2, <2>3, <2>4
<1>4. \A x \in Executors : PlaceFits(x)' /\ HoldFits(x)'
  <2>1. Grows /\ \A b \in Branches : Extends(b) /\ KeepsOpened(b)
    BY <1>1 DEF Grows, Known, Request, Extends, KeepsOpened
  <2>2. Onward
    BY <1>1, <2>1 DEF Onward
  <2> QED BY <1>1, <1>2, <2>2, PlaceStays, HoldRests DEF Inv
<1>5. \A o \in Operations : RecordFits(o)'
  BY <1>1 DEF Inv, RecordFits, Known, Request, Proposes, First, Second, Proposal
<1> QED BY <1>2, <1>3, <1>4, <1>5 DEF Inv

LEMMA NextKeeps ==
    ASSUME Inv, Next
    PROVE  Inv' /\ Onward
<1>1. CASE \E x \in Executors : \E r \in Requests : Claim(x, r)
  BY <1>1, ClaimKeeps
<1>2. CASE (\E x \in Executors : Step(x) \/ Crash(x)) /\ calls' = calls
  BY <1>2, StepKeeps
<1>3. CASE Outside /\ calls' = calls
  BY <1>3, OutsideKeeps
<1> QED BY <1>1, <1>2, <1>3 DEF Next, Outside

LEMMA Invariant == Spec => []Inv
<1>1. Inv /\ [Next]_vars => Inv'
  BY NextKeeps, StutterKeeps
<1> QED BY <1>1, InvInit, PTL DEF Spec

-----------------------------------------------------------------------------
\* The files of what GitHub has of a Submission are those its operation generated,
\* of one decision where it is an acceptance, whatever processes run at once and
\* wherever one of them is cut off (prepare_worktree, _write_once, _commit_exact and
\* push_exact).
THEOREM PublishedCorrect == Spec => []PublishedIsGenerated
<1>1. Inv => PublishedIsGenerated
  <2> SUFFICES ASSUME Inv, NEW b \in Branches, remote[b] # NoCommit,
                      Request(remote[b]).command \in Exclusive, Tip(b).op = remote[b]
               PROVE  \E t \in 1 .. MaxCalls : \A f \in FileSet(Request(remote[b])) :
                         branch[b].tree[f] = Generated(Request(remote[b]), f, t)
    BY DEF PublishedIsGenerated, Request
  <2>1. branch[b].log # <<>> /\ LogFits(b) /\ TreeFits(b) /\ Protocol
    BY DEF Inv, HubFits, Proposes
  <2>2. PICK log \in Seq(Commits) : log = branch[b].log /\ log # <<>>
    BY <2>1 DEF Inv, RepoShape
  <2>3. Len(log) \in DOMAIN log /\ log[Len(log)].op = remote[b] /\ log[Len(log)].op \in Operations
    BY <2>2, LogEntries DEF Tip
  <2>4. Known(remote[b]) /\ Request(remote[b]).branch = b
    BY <2>1, <2>2, <2>3 DEF LogFits
  <2>5. Request(remote[b]) \in Requests
    BY <2>1, <2>3, <2>4 DEF JournalFits, Protocol
  <2>6. Reserved(b)
    BY <2>4, <2>5 DEF Reserved
  <2> QED BY <2>1, <2>6 DEF TreeFits
<1> QED BY <1>1, Invariant, PTL

\* An operation that ends well is on record: a pull request was opened with its own
\* commit, or its acceptance is the commit on the head that was reviewed (_finish
\* after open_or_observe and after prepare_acceptance).
THEOREM SuccessCorrect == Spec => []SuccessIsOnRecord
<1>1. Inv => SuccessIsOnRecord
  BY DEF Inv, RecordFits, SuccessIsOnRecord, Proposes, First, Second, Request
<1> QED BY <1>1, Invariant, PTL

-----------------------------------------------------------------------------
\* What a branch says of its lineage.
Proposing(b) == IF Proposes(b, First(b).op) THEN First(b).op ELSE NoCommit
Following(b) ==
    IF Follows(b) /\ Second(b).parent = First(b).op THEN Second(b).op ELSE NoCommit
Showing(b) == Shown(pulls[b])

LEMMA LineageIs ==
    ASSUME NEW b \in Branches
    PROVE  /\ Proposed(branch[b].log) = Proposing(b)
           /\ Accepted(branch[b].log) = Following(b)
           /\ Proposed(branch[b].log)' = Proposing(b)'
           /\ Accepted(branch[b].log)' = Following(b)'
BY DEF Proposed, Accepted, Proposing, Following, Proposes, Follows, First, Second, Request

LEMMA LineageUnchanged ==
    ASSUME NEW b \in Branches, Proposing(b)' = Proposing(b), Following(b)' = Following(b),
           remote'[b] = remote[b], Showing(b)' = Showing(b)
    PROVE  UNCHANGED Lineage(b)!lineage
BY LineageIs DEF Lineage!lineage, Showing

LEMMA LineageProposes ==
    ASSUME NEW b \in Branches, Proposing(b) = NoCommit, Proposing(b)' \in Operations,
           Following(b)' = Following(b), remote'[b] = remote[b], Showing(b)' = Showing(b)
    PROVE  Lineage(b)!Next
BY LineageIs DEF Lineage!Next, Lineage!Propose, Showing

LEMMA LineageAccepts ==
    ASSUME NEW b \in Branches, Proposing(b) # NoCommit, Following(b) = NoCommit,
           Following(b)' \in Operations, Proposing(b)' = Proposing(b),
           remote'[b] = remote[b], Showing(b)' = Showing(b)
    PROVE  Lineage(b)!Next
BY LineageIs DEF Lineage!Next, Lineage!Accept, Showing

LEMMA LineagePublishes ==
    ASSUME NEW b \in Branches, remote[b] = NoCommit, Proposing(b) # NoCommit,
           remote'[b] = Proposing(b), Proposing(b)' = Proposing(b),
           Following(b)' = Following(b), Showing(b)' = Showing(b)
    PROVE  Lineage(b)!Next
BY LineageIs DEF Lineage!Next, Lineage!Publish, Showing

LEMMA LineageFollows ==
    ASSUME NEW b \in Branches, remote[b] = Proposing(b), Following(b) # NoCommit,
           remote'[b] = Following(b), Showing(b)' \in {Showing(b), Showing(b) \cup {Following(b)}},
           Proposing(b)' = Proposing(b), Following(b)' = Following(b)
    PROVE  Lineage(b)!Next
BY LineageIs DEF Lineage!Next, Lineage!PublishAcceptance, Showing

LEMMA LineageOpens ==
    ASSUME NEW b \in Branches, remote[b] \notin Showing(b) \cup {NoCommit},
           Showing(b)' = Showing(b) \cup {remote[b]}, remote'[b] = remote[b],
           Proposing(b)' = Proposing(b), Following(b)' = Following(b)
    PROVE  Lineage(b)!Next
BY LineageIs DEF Lineage!Next, Lineage!Open, Showing

\* The commits that there are keep their place in the lineage.
LEMMA LineageLasts ==
    ASSUME RepoShape, RepoShape', NEW b \in Branches, LogFits(b), Extends(b), Grows
    PROVE  /\ branch[b].log # <<>> => Proposing(b)' = Proposing(b)
           /\ Len(branch[b].log) > 1 => Following(b)' = Following(b)
           /\ branch[b].log = <<>> => Proposing(b) = NoCommit
           /\ ~ Len(branch[b].log) > 1 => Following(b) = NoCommit
<1>1. /\ branch[b].log # <<>> =>
           /\ branch'[b].log # <<>> /\ First(b)' = First(b) /\ First(b).op \in Operations
           /\ journal'[First(b).op].request = journal[First(b).op].request
      /\ Len(branch[b].log) > 1 =>
           /\ Len(branch'[b].log) > 1 /\ Second(b)' = Second(b) /\ Second(b).op \in Operations
           /\ journal'[Second(b).op].request = journal[Second(b).op].request
  BY Lasting
<1>2. Len(branch[b].log) > 1 => branch[b].log # <<>>
  BY LogEntries DEF RepoShape
<1>3. branch[b].log # <<>> => Proposing(b)' = Proposing(b)
  BY <1>1 DEF Proposing, Proposes, Proposal
<1>4. Len(branch[b].log) > 1 => Following(b)' = Following(b)
  BY <1>1, <1>2 DEF Following, Follows, Request
<1>5. /\ branch[b].log = <<>> => Proposing(b) = NoCommit
      /\ ~ Len(branch[b].log) > 1 => Following(b) = NoCommit
  BY DEF Proposing, Proposes, Following, Follows
<1> QED BY <1>3, <1>4, <1>5

LEMMA LineageRests ==
    ASSUME NEW b \in Branches, branch'[b].log = branch[b].log, journal' = journal
    PROVE  Proposing(b)' = Proposing(b) /\ Following(b)' = Following(b)
BY DEF Proposing, Following, Proposes, Follows, Proposal, First, Second, Request

LineageStep(b) == Lineage(b)!Next \/ UNCHANGED Lineage(b)!lineage

\* A commit proposes, when it is the first, and accepts, when it is the second and
\* that of an acceptance, which has its proposal.
LEMMA CommitIsLineage ==
    ASSUME Inv, Inv', Onward, NEW x \in Executors, NEW b \in Branches, b = Req(x).branch,
           exec[x].pc # "idle", Adding(x, b), remote' = remote, pulls' = pulls
    PROVE  LineageStep(b)
<1>0. /\ Protocol /\ RepoShape /\ RepoShape' /\ LogFits(b) /\ LogFits(b)' /\ Extends(b) /\ Grows
  BY DEF Inv, Onward
<1>1. PICK r \in Requests : /\ r = Req(x) /\ r.op = Op(x) /\ r.op \in Operations /\ Known(r.op)
                            /\ Request(r.op) = r /\ Place(x, r) /\ r.branch = b
  BY RequestAssumption, ProposalRequestAssumption
  DEF Inv, Protocol, ExecFits, CallFits, Op, Req, PlaceFits
<1>2. Request(r.op)' = r
  BY <1>0, <1>1 DEF Grows
<1>3. remote'[b] = remote[b] /\ Showing(b)' = Showing(b)
  BY DEF Showing
<1>4. PICK log \in Seq(Commits), l \in Seq(Commits) :
         log = branch[b].log /\ l = branch'[b].log
  BY <1>0 DEF RepoShape
<1>5. PICK c : c = Child(b, r.op) /\ c.op = r.op /\ l = Append(log, c)
  <2>1. Child(b, r.op).op = r.op
    BY <1>0, <1>1, ChildFits
  <2>2. l = Append(log, Child(b, r.op))
    BY <1>1, <1>4 DEF Adding
  <2> QED BY <2>1, <2>2
<1>6. /\ Len(l) = Len(log) + 1 /\ l[Len(log) + 1] = c /\ Len(log) \in Nat
      /\ log = <<>> <=> Len(log) = 0
  BY <1>4, <1>5
<1>7. /\ log # <<>> => Proposing(b)' = Proposing(b)
      /\ Len(log) > 1 => Following(b)' = Following(b)
      /\ log = <<>> => Proposing(b) = NoCommit
      /\ ~ Len(log) > 1 => Following(b) = NoCommit
  BY <1>0, <1>4, LineageLasts
<1>8. CASE log = <<>>
  <2>1. First(b)' = c /\ ~ Len(branch'[b].log) > 1
    BY <1>4, <1>6, <1>8 DEF First
  <2>2. Following(b)' = NoCommit /\ Following(b) = NoCommit
    BY <1>6, <1>7, <1>8, <2>1 DEF Following, Follows
  <2>3. Proposing(b)' \in {r.op, NoCommit}
    BY <1>5, <2>1 DEF Proposing
  <2> QED BY <1>1, <1>3, <1>7, <1>8, <2>2, <2>3, LineageProposes, LineageUnchanged DEF LineageStep
<1>9. CASE Len(log) = 1
  <2>1. Second(b)' = c /\ Proposing(b)' = Proposing(b) /\ Following(b) = NoCommit
    BY <1>4, <1>6, <1>7, <1>9 DEF Second
  <2>2. CASE Following(b)' = NoCommit
    BY <1>3, <2>1, <2>2, LineageUnchanged DEF LineageStep
  <2>3. CASE Following(b)' # NoCommit
    <3>1. Following(b)' = r.op /\ r.command = Accepts
      <4>1. Follows(b)' /\ Following(b)' = Second(b)'.op
        BY <2>3 DEF Following
      <4>2. Second(b)'.op = r.op
        BY <1>5, <2>1
      <4>3. Request(r.op)'.command = Accepts
        BY <4>1, <4>2 DEF Follows, Request
      <4> QED BY <1>2, <4>1, <4>2, <4>3
    <3>2. Proposes(b, r.expects)
      BY <1>1, <3>1 DEF Place, Adding, Accepting, Working
    <3>3. First(b).op \in Operations
      BY <1>4, <1>6, <1>9, LogEntries DEF First
    <3>4. Proposing(b) # NoCommit
      <4>1. First(b).op = r.expects
        BY <3>2, ProposesFirst
      <4> QED BY <3>2, <3>3, <4>1, CommitAssumption DEF Proposing
    <3> QED BY <1>1, <1>3, <2>1, <3>1, <3>4, LineageAccepts DEF LineageStep
  <2> QED BY <2>2, <2>3
<1>10. CASE Len(log) > 1
  BY <1>3, <1>6, <1>7, <1>10, LineageUnchanged DEF LineageStep
<1>11. log = <<>> \/ Len(log) = 1 \/ Len(log) > 1
  <2>1. \A n \in Nat : n = 0 \/ n = 1 \/ n > 1
    OBVIOUS
  <2> QED BY <1>6, <2>1
<1> QED BY <1>8, <1>9, <1>10, <1>11

LEMMA ShownOf ==
    ASSUME NEW list, NEW o
    PROVE  o \in Shown(list) <=> \E i \in DOMAIN list : o = list[i].opened \/ o = list[i].head
BY DEF Shown

LEMMA ShownSame ==
    ASSUME NEW list, NEW l, DOMAIN l = DOMAIN list,
           \A i \in DOMAIN list : l[i].head = list[i].head /\ l[i].opened = list[i].opened
    PROVE  Shown(l) = Shown(list)
<1>1. \A o : o \in Shown(l) <=> o \in Shown(list)
  BY ShownOf
<1> QED BY <1>1

LEMMA ShownAppended ==
    ASSUME NEW list \in Seq(PullRecords), NEW o \in Operations, NEW l, l = Append(list, Pull(o, o))
    PROVE  Shown(l) = Shown(list) \cup {o}
<1>1. PICK p \in PullRecords : p = Pull(o, o) /\ p.head = o /\ p.opened = o
  BY PullFields
<1>2. /\ \A i \in DOMAIN list : i \in DOMAIN l /\ l[i] = list[i]
      /\ l[Len(list) + 1] = p /\ DOMAIN l = 1 .. Len(list) + 1 /\ Len(list) \in Nat
      /\ \A i \in DOMAIN l : i \in DOMAIN list \/ i = Len(list) + 1
  BY <1>1, PullsAppended
<1>3. Len(list) + 1 \in DOMAIN l
  BY <1>2
<1>4. ASSUME NEW q \in Shown(list)
      PROVE  q \in Shown(l)
  <2>1. PICK i \in DOMAIN list : q = list[i].opened \/ q = list[i].head
    BY <1>4, ShownOf
  <2>2. i \in DOMAIN l /\ (q = l[i].opened \/ q = l[i].head)
    BY <1>2, <2>1
  <2> QED BY <2>2, ShownOf
<1>5. o \in Shown(l)
  <2>1. o = l[Len(list) + 1].opened
    BY <1>1, <1>2
  <2> QED BY <1>3, <2>1, ShownOf
<1>6. ASSUME NEW q \in Shown(l)
      PROVE  q \in Shown(list) \cup {o}
  <2>1. PICK i \in DOMAIN l : q = l[i].opened \/ q = l[i].head
    BY <1>6, ShownOf
  <2>2. CASE i \in DOMAIN list
    <3>1. q = list[i].opened \/ q = list[i].head
      BY <1>2, <2>1, <2>2
    <3> QED BY <2>2, <3>1, ShownOf
  <2>3. CASE i = Len(list) + 1
    BY <1>1, <1>2, <2>1, <2>3
  <2> QED BY <1>2, <2>2, <2>3
<1> QED BY <1>4, <1>5, <1>6

\* A push, a pull request, and what a reviewer does with it.
LEMMA HubIsLineage ==
    ASSUME Inv, HubStep, branch' = branch, journal' = journal, NEW b \in Branches
    PROVE  LineageStep(b)
<1>0. /\ RepoShape /\ HubShape /\ LogFits(b) /\ HubFits(b)
      /\ remote[b] \in Operations \cup {NoCommit} /\ pulls[b] \in Seq(PullRecords)
  BY DEF Inv, HubShape
<1>1. Proposing(b)' = Proposing(b) /\ Following(b)' = Following(b)
  BY LineageRests
<1>2. CASE remote'[b] = remote[b] /\ Showing(b)' = Showing(b)
  BY <1>1, <1>2, LineageUnchanged DEF LineageStep
<1>3. CASE Pushes
  <2>1. PICK c \in Branches, o \in Operations :
           Proposes(c, o) /\ remote' = PushLands(c, o) /\ pulls' = pulls
    BY <1>3 DEF Pushes
  <2>2. Showing(b)' = Showing(b)
    BY <2>1 DEF Showing
  <2>3. CASE remote'[b] # remote[b]
    <3>1. b = c /\ remote[b] = NoCommit /\ remote'[b] = o
      BY <1>0, <2>1, <2>3 DEF PushLands, HubShape
    <3>2. Proposing(b) = o /\ o # NoCommit
      BY <2>1, <3>1, ProposesFirst, CommitAssumption DEF Proposing
    <3> QED BY <1>1, <2>2, <3>1, <3>2, LineagePublishes DEF LineageStep
  <2> QED BY <1>2, <2>2, <2>3
<1>4. CASE Opens
  <2>1. PICK c \in Branches : pulls' = CreateLands(c) /\ remote' = remote
    BY <1>4 DEF Opens
  <2>2. CASE pulls'[b] = pulls[b]
    BY <1>2, <2>1, <2>2 DEF Showing
  <2>3. CASE pulls'[b] # pulls[b]
    <3>1. /\ b = c /\ remote[b] # NoCommit
          /\ pulls'[b] = Append(pulls[b], Pull(remote[b], remote[b]))
      BY <1>0, <2>1, <2>3 DEF CreateLands, HubShape
    <3>2. PICK list, l, o : /\ list = pulls[b] /\ l = pulls'[b] /\ o = remote[b]
                            /\ list \in Seq(PullRecords) /\ o \in Operations
      BY <1>0, <3>1
    <3>3. Shown(l) = Shown(list) \cup {o}
      BY <3>1, <3>2, ShownAppended
    <3>4. Showing(b)' = Showing(b) \cup {remote[b]}
      BY <3>2, <3>3 DEF Showing
    <3>5. CASE remote[b] \in Showing(b)
      BY <1>2, <2>1, <3>4, <3>5
    <3>6. CASE remote[b] \notin Showing(b)
      BY <1>1, <2>1, <3>1, <3>4, <3>6, LineageOpens DEF LineageStep
    <3> QED BY <3>5, <3>6
  <2> QED BY <2>2, <2>3
<1>5. CASE Publishes
  <2>1. PICK c \in Branches : PublishAcceptance(c)
    BY <1>5 DEF Publishes
  <2>2. CASE c # b
    <3>1. remote'[b] = remote[b] /\ pulls'[b] = pulls[b]
      BY <1>0, <2>1, <2>2 DEF PublishAcceptance, HubShape
    <3> QED BY <1>2, <3>1 DEF Showing
  <2>3. CASE c = b
    <3>1. PICK log \in Seq(Commits) : log = branch[b].log
      BY <1>0 DEF RepoShape
    <3>2. /\ remote[b] # NoCommit /\ Len(log) = 2 /\ log[2].parent = remote[b] /\ log # <<>>
          /\ Tip(b) = log[2]
      BY <2>1, <2>3, <3>1 DEF PublishAcceptance, Tip
    <3>3. 2 \in DOMAIN log /\ log[2].op \in Operations /\ log[2].parent = log[1].op
      <4>1. 2 \in DOMAIN log /\ log[2].op \in Operations
        BY <3>2, LogEntries
      <4>2. \A i \in DOMAIN log : i > 1 => log[i].parent = log[i - 1].op
        BY <1>0, <3>1 DEF LogFits
      <4>3. 2 > 1 /\ 2 - 1 = 1
        OBVIOUS
      <4>4. log[2].parent = log[2 - 1].op
        BY <4>1, <4>2, <4>3
      <4> QED BY <4>1, <4>3, <4>4
    <3>4. PICK o \in Operations : o = log[2].op
      BY <3>3
    <3>5. /\ Request(o).command = Accepts /\ remote'[b] = o
          /\ pulls'[b] = [i \in DOMAIN pulls[b] |->
                IF pulls[b][i].state = "open" THEN [pulls[b][i] EXCEPT !.head = o] ELSE pulls[b][i]]
      <4>1. Tip(b).op = o
        BY <3>2, <3>4
      <4> QED BY <1>0, <2>1, <2>3, <4>1 DEF PublishAcceptance, HubShape, Request
    <3>6. Following(b) = o /\ o # NoCommit
      BY <3>1, <3>2, <3>3, <3>4, <3>5, CommitAssumption DEF Following, Follows, First, Second
    <3>7. remote[b] = First(b).op /\ Proposes(b, First(b).op)
      BY <1>0, <3>1, <3>2, <3>3 DEF HubFits, First
    <3>8. Proposing(b) = remote[b]
      BY <3>7 DEF Proposing
    <3>9. PICK list, l : list \in Seq(PullRecords) /\ list = pulls[b] /\ l = pulls'[b]
      BY <1>0
    <3>10. \A i \in DOMAIN list : list[i].head = list[i].opened
      BY <1>0, <3>2, <3>7, <3>9 DEF HubFits, PullFits
    <3>11. /\ DOMAIN l = DOMAIN list
           /\ \A i \in DOMAIN list :
                 /\ l[i].opened = list[i].opened
                 /\ l[i].head = IF list[i].state = "open" THEN o ELSE list[i].head
      <4>1. ASSUME NEW p \in PullRecords
            PROVE  [p EXCEPT !.head = o].head = o /\ [p EXCEPT !.head = o].opened = p.opened
        BY <4>1 DEF PullRecords
      <4>2. \A i \in DOMAIN list : list[i] \in PullRecords
        BY <3>9
      <4>3. l = [i \in DOMAIN list |->
                IF list[i].state = "open" THEN [list[i] EXCEPT !.head = o] ELSE list[i]]
        BY <3>5, <3>9
      <4> QED BY <4>1, <4>2, <4>3
    <3>12. Shown(l) = Shown(list) \/ Shown(l) = Shown(list) \cup {o}
      <4>1. CASE \E i \in DOMAIN list : list[i].state = "open"
        <5>1. \A q : q \in Shown(l) <=> q \in Shown(list) \cup {o}
          BY <3>10, <3>11, <4>1, ShownOf
        <5> QED BY <5>1
      <4>2. CASE ~ \E i \in DOMAIN list : list[i].state = "open"
        BY <3>11, <4>2, ShownSame
      <4> QED BY <4>1, <4>2
    <3>13. Showing(b)' \in {Showing(b), Showing(b) \cup {Following(b)}}
      BY <3>6, <3>9, <3>12 DEF Showing
    <3> QED BY <1>1, <3>5, <3>6, <3>8, <3>13, LineageFollows DEF LineageStep
  <2> QED BY <2>2, <2>3
<1>6. CASE Touches
  <2>0. PICK c \in Branches : \E n \in DOMAIN pulls[c] : Touch(c, n)
    BY <1>6 DEF Touches
  <2>1. PICK n \in DOMAIN pulls[c], state \in {"closed", "merged"} :
           pulls' = [pulls EXCEPT ![c][n].state = state] /\ remote' = remote
    BY <2>0 DEF Touch
  <2>2. PICK list, l : list \in Seq(PullRecords) /\ list = pulls[b] /\ l = pulls'[b]
    BY <1>0
  <2>3. l = list \/ \E i \in DOMAIN list : l = [list EXCEPT ![i].state = state]
    BY <1>0, <2>1, <2>2 DEF HubShape
  <2>4. /\ DOMAIN l = DOMAIN list
        /\ \A i \in DOMAIN list : l[i].head = list[i].head /\ l[i].opened = list[i].opened
    <3>1. ASSUME NEW p \in PullRecords
          PROVE  /\ [p EXCEPT !.state = state].head = p.head
                 /\ [p EXCEPT !.state = state].opened = p.opened
      BY <3>1 DEF PullRecords
    <3>2. \A i \in DOMAIN list : list[i] \in PullRecords
      BY <2>2
    <3> QED BY <2>3, <3>1, <3>2
  <2>5. Shown(l) = Shown(list)
    BY <2>4, ShownSame
  <2> QED BY <1>2, <2>1, <2>2, <2>5 DEF Showing
<1>7. CASE remote' = remote /\ pulls' = pulls
  BY <1>2, <1>7 DEF Showing
<1> QED BY <1>3, <1>4, <1>5, <1>6, <1>7 DEF HubStep

LEMMA NextIsLineage ==
    ASSUME Inv, Inv', Onward, Next, NEW b \in Branches
    PROVE  LineageStep(b)
<1>0. /\ Protocol /\ RepoShape /\ RepoShape' /\ HubShape /\ FlyingFits /\ LogFits(b)
      /\ Extends(b) /\ Grows
      /\ \A x \in Executors : PlaceFits(x)
  BY DEF Inv, Onward
<1>1. ASSUME branch'[b].log = branch[b].log, remote' = remote, pulls' = pulls
      PROVE  LineageStep(b)
  <2>1. Proposing(b)' = Proposing(b) /\ Following(b)' = Following(b)
    <3>1. PICK log \in Seq(Commits) : log = branch[b].log
      BY <1>0 DEF RepoShape
    <3>2. branch[b].log = <<>> => ~ Len(branch[b].log) > 1
      OBVIOUS
    <3>3. CASE log = <<>>
      BY <1>0, <1>1, <3>1, <3>2, <3>3, LineageLasts DEF Proposing, Proposes, Following, Follows
    <3>4. CASE log # <<>> /\ ~ Len(log) > 1
      BY <1>0, <1>1, <3>1, <3>4, LineageLasts DEF Following, Follows
    <3>5. CASE log # <<>> /\ Len(log) > 1
      BY <1>0, <3>1, <3>5, LineageLasts
    <3> QED BY <3>3, <3>4, <3>5
  <2> QED BY <1>1, <2>1, LineageUnchanged DEF LineageStep, Showing
<1>2. CASE \E x \in Executors : \E r \in Requests : Claim(x, r)
  <2>1. branch' = branch /\ remote' = remote /\ pulls' = pulls
    BY <1>2 DEF Claim, repoVars, hubVars
  <2> QED BY <1>1, <2>1
<1>3. ASSUME NEW x \in Executors, Step(x) \/ Crash(x)
      PROVE  LineageStep(b)
  <2>1. exec[x].pc # "idle"
    BY <1>0, <1>3, StepActs DEF Protocol
  <2>2. HubStep /\ Branching(x)
    BY <1>0, <1>3, HubSteps, RepoMoves
  <2>3. CASE branch' = branch /\ journal' = journal
    BY <2>2, <2>3, HubIsLineage
  <2>4. CASE remote' = remote /\ pulls' = pulls
    <3>1. PICK c \in Branches : c = Req(x).branch
      BY <1>0, <2>1, ProposalRequestAssumption DEF Protocol, ExecFits, CallFits
    <3>2. /\ \A d \in Branches : d # c => branch'[d] = branch[d]
          /\ Staying(c) \/ Starting(x, c) \/ Adding(x, c)
      BY <1>0, <2>2, <3>1, BranchMoves
    <3>3. CASE b = c /\ Adding(x, c)
      BY <2>1, <2>4, <3>1, <3>3, CommitIsLineage
    <3>4. CASE b # c \/ ~ Adding(x, c)
      <4>1. branch'[b].log = branch[b].log
        BY <3>2, <3>4 DEF Staying, Starting
      <4> QED BY <1>1, <2>4, <4>1
    <3> QED BY <3>3, <3>4
  <2> QED BY <2>2, <2>3, <2>4 DEF HubStep
<1>4. CASE Outside
  <2>1. HubStep /\ journalVars' = journalVars /\ branch' = branch
    BY <1>0, <1>4, OutsideSteps
  <2> QED BY <2>1, HubIsLineage DEF journalVars
<1> QED BY <1>2, <1>3, <1>4 DEF Next, Outside

\* Whatever is repeated, cut off or answered late, a branch proposes once, is
\* published unchanged and never replaced but by the acceptance of the commit that
\* was reviewed, and its pull requests show nothing else (push_exact,
\* open_or_observe, prepare_acceptance).
THEOREM LineageCorrect == Spec => ImplementsLineage
<1>1. ASSUME Init, NEW b \in Branches
      PROVE  Lineage(b)!Init
  <2>1. branch[b].log = <<>> /\ remote[b] = NoCommit /\ pulls[b] = <<>>
    BY <1>1 DEF Init, NoBranch
  <2>2. Proposed(branch[b].log) = NoCommit /\ Accepted(branch[b].log) = NoCommit
    BY <2>1 DEF Proposed, Accepted
  <2>3. Shown(pulls[b]) = {}
    BY <2>1 DEF Shown
  <2> QED BY <2>1, <2>2, <2>3 DEF Lineage!Init
<1>2. Init => \A b \in Branches : Lineage(b)!Init
  BY <1>1
<1>3. Inv /\ [Next]_vars =>
        [\A b \in Branches : [Lineage(b)!Next]_(Lineage(b)!lineage)]_vars
  <2>1. ASSUME Inv, Next, NEW b \in Branches
        PROVE  [Lineage(b)!Next]_(Lineage(b)!lineage)
    BY <2>1, NextKeeps, NextIsLineage DEF LineageStep
  <2> QED BY <2>1
<1> QED BY <1>2, <1>3, Invariant, PTL DEF Spec, ImplementsLineage
=============================================================================
