------------------------------ MODULE RunProofs ------------------------------
(***************************************************************************)
(* Proofs about LocalRun.  The argument is that an attempt has at most one   *)
(* owner, the executor that created its marker, from that creation to the    *)
(* owner's last write of the marker; that what the owner's place in the      *)
(* method says of the marker and of the process is so (Fits); and that a     *)
(* marker which is terminal is never written again.                          *)
(*                                                                         *)
(* And about Reconcile, whose pass takes no lock.  The argument is that what *)
(* the pass relies on does not change any more: a terminal marker and a      *)
(* committed result stay, an attempt whose marker was listed and not read    *)
(* leaves a stray or a failure behind, and a tmux session that the pass has  *)
(* not seen was launched after tmux was asked.                               *)
(***************************************************************************)
EXTENDS Reconcile, TLAPS

Calls == [pc: Phases, req: Requests \cup {NoRequest}, knows: SUBSET Kinds,
          seen: Snapshots, verdict: Results]
Rows == [state: {"absent", "running", "terminal"},
         request: Requests \cup {NoRequest}, events: Seq(Kinds), result: Results]
Markers == [phase: {"none", "created", "claimed", "launch_intent", "running",
                    "terminal"},
            by: Requests \cup {NoRequest}, outcome: Snapshots]
Processes == {"none", "alive", "ok", "bad"}

-----------------------------------------------------------------------------
(* The typing of one row, call or marker.                                   *)
LEMMA CallTyped ==
    ASSUME NEW pc \in Phases, NEW r \in Requests \cup {NoRequest},
           NEW knows \in SUBSET Kinds, NEW s \in Snapshots,
           NEW verdict \in Results
    PROVE  Call(pc, r, knows, s, verdict) \in Calls
BY DEF Call, Calls

LEMMA RowTyped ==
    ASSUME NEW state \in {"absent", "running", "terminal"},
           NEW r \in Requests \cup {NoRequest},
           NEW events \in Seq(Kinds), NEW verdict \in Results
    PROVE  Row(state, r, events, verdict) \in Rows
BY DEF Row, Rows

LEMMA TypeParts ==
    TypeOK <=>
        /\ journal \in [Operations -> Rows]
        /\ exec \in [Executors -> Calls]
        /\ abandoned \in Nat
        /\ runnable \in BOOLEAN
        /\ marker \in [Attempts -> Markers]
        /\ process \in [Attempts -> Processes]
        /\ result \in Attempts \cup {NoAttempt}
        /\ committed \in BOOLEAN
BY DEF TypeOK, JournalTypeOK, Rows, Calls, Markers, Processes

LEMMA CallFields ==
    ASSUME TypeOK, NEW x \in Executors
    PROVE  /\ exec[x] \in Calls
           /\ exec[x].pc \in Phases
           /\ exec[x].req \in Requests \cup {NoRequest}
           /\ exec[x].knows \in SUBSET Kinds
           /\ exec[x].seen \in Snapshots
           /\ exec[x].verdict \in Results
BY TypeParts DEF Calls

LEMMA RowFields ==
    ASSUME TypeOK, NEW o \in Operations
    PROVE  /\ journal[o] \in Rows
           /\ journal[o].state \in {"absent", "running", "terminal"}
           /\ journal[o].request \in Requests \cup {NoRequest}
           /\ journal[o].events \in Seq(Kinds)
           /\ journal[o].result \in Results
BY TypeParts DEF Rows

LEMMA MarkerFields ==
    ASSUME TypeOK, NEW a \in Attempts
    PROVE  /\ marker[a] \in Markers
           /\ marker[a].by \in Requests \cup {NoRequest}
           /\ marker[a].outcome \in {"unread", "ok", "bad"}
           /\ process[a] \in Processes
BY TypeParts, ObservedAssumption DEF Markers

(* A call in progress has a request.                                        *)
CallsHaveRequests ==
    \A x \in Executors : exec[x].pc # "idle" => exec[x].req \in Requests

WellTyped == TypeOK /\ CallsHaveRequests

LEMMA RequestFields ==
    ASSUME WellTyped, NEW x \in Executors, exec[x].pc # "idle"
    PROVE  /\ exec[x].req \in Requests
           /\ Op(x) \in Operations
           /\ Attempt(x) \in Attempts
           /\ Is(x, "run.retry") =>
                 exec[x].req.origin \in Attempts /\ exec[x].req.origin # Attempt(x)
BY RequestAssumption, RunRequestAssumption
   DEF WellTyped, CallsHaveRequests, Op, Attempt, Is
-----------------------------------------------------------------------------
(* What one step does to the journal.                                       *)
Extended(o, kind) ==
    /\ Running(o)
    /\ journal' = [journal EXCEPT
          ![o] = Row("running", journal[o].request,
                     Append(journal[o].events, kind), journal[o].result)]

Begun(r) ==
    /\ journal[r.op].state = "absent"
    /\ journal' = [journal EXCEPT
          ![r.op] = Row("running", r, <<"operation_started">>, "none")]

Ending(x) ==
    /\ exec[x].pc = "finish"
    /\ FinishOperation(Op(x), exec[x].verdict)

LEMMA JournalStep ==
    ASSUME WellTyped, Next
    PROVE  \/ UNCHANGED journal
           \/ \E r \in Requests : Begun(r)
           \/ \E x \in Executors : \E kind \in Kinds :
                 exec[x].pc # "idle" /\ Extended(Op(x), kind)
           \/ \E x \in Executors : Ending(x)
<1>1. CASE Drift
  BY <1>1 DEF Drift, journalVars
<1>2. ASSUME NEW a \in Attempts, NEW state \in {"ok", "bad"}, Exit(a, state)
      PROVE  UNCHANGED journal
  BY <1>2 DEF Exit, journalVars
<1>3. ASSUME NEW x \in Executors, NEW r \in Requests, Claim(x, r)
      PROVE  UNCHANGED journal \/ Begun(r)
  BY <1>3 DEF Claim, Begin, BeginNew, BeginAgain, Begun
<1>4. ASSUME NEW x \in Executors, Step(x)
      PROVE  \/ UNCHANGED journal
             \/ \E kind \in Kinds : exec[x].pc # "idle" /\ Extended(Op(x), kind)
             \/ Ending(x)
  <2>1. CASE AuthorizeActor(x)
    BY VocabularyAssumption, <2>1 DEF AuthorizeActor, Authorize, Record, AppendEvent, Extended
  <2>2. CASE DenyActor(x)
    BY VocabularyAssumption, <2>2 DEF DenyActor, Deny, RecordAlways, AppendEvent, Extended
  <2>3. CASE RecordFailure(x)
    BY VocabularyAssumption, <2>3 DEF RecordFailure, RecordAlways, AppendEvent, Extended
  <2>4. CASE Finish(x)
    BY <2>4 DEF Finish, Ending
  <2>5. CASE Validate(x) \/ Prepare(x) \/ Origin(x) \/ Observe(x) \/ ClaimMarker(x)
    BY <2>5 DEF Validate, Prepare, Origin, Observe, ClaimMarker, Refuse, Leave, Pass
  <2>6. CASE WriteClaim(x) \/ Launch(x) \/ Intend(x) \/ Popen(x) \/ MarkRunning(x)
                \/ EmitRunning(x) \/ Wait(x)
    BY <2>6 DEF WriteClaim, Launch, Intend, Popen, MarkRunning, EmitRunning, Wait,
                Leave, Pass
  <2>7. CASE CollectArtifacts(x) \/ EmitTerminal(x) \/ WriteTerminal(x)
                \/ StoreResult(x) \/ CommitResult(x)
    BY <2>7 DEF CollectArtifacts, EmitTerminal, WriteTerminal, StoreResult,
                CommitResult, Refuse
  <2> QED BY <1>4, <2>1, <2>2, <2>3, <2>4, <2>5, <2>6, <2>7 DEF Step
<1>5. ASSUME NEW x \in Executors, Stop(x)
      PROVE  UNCHANGED journal
  BY <1>5 DEF Stop, Abandon
<1> QED BY <1>1, <1>2, <1>3, <1>4, <1>5 DEF Next

-----------------------------------------------------------------------------
(* The calls of the one executor that a step is of.                         *)
Others(x) == \A y \in Executors \ {x} : exec'[y] = exec[y]

LEMMA GotoFacts ==
    ASSUME TypeOK, NEW x \in Executors, NEW pc, NEW v, Goto(x, pc, v)
    PROVE  /\ exec'[x].pc = pc
           /\ exec'[x].req = exec[x].req
           /\ exec'[x].verdict = v
           /\ Others(x)
BY TypeParts DEF Goto, Others, Call

LEMMA ReadFacts ==
    ASSUME TypeOK, NEW x \in Executors, NEW pc, NEW s, Read(x, pc, s)
    PROVE  /\ exec'[x].pc = pc
           /\ exec'[x].req = exec[x].req
           /\ exec'[x].seen = s
           /\ exec'[x].verdict = "none"
           /\ Others(x)
BY TypeParts DEF Read, Others, Call

LEMMA ReturnFacts ==
    ASSUME TypeOK, NEW x \in Executors, Return(x)
    PROVE  exec'[x].pc = "idle" /\ Others(x)
BY TypeParts DEF Return, Others, Call, NoCall

LEMMA BeginFacts ==
    ASSUME TypeOK, NEW x \in Executors, NEW r \in Requests, NEW first,
           Begin(x, r, first)
    PROVE  /\ exec[x].pc = "idle"
           /\ exec'[x].pc = first
           /\ exec'[x].req = r
           /\ Others(x)
BY TypeParts DEF Begin, Others, Call
-----------------------------------------------------------------------------
(* The owner of an attempt.                                                 *)
Owning == {"write", "launch", "intent", "popen", "mark", "running", "wait",
           "collecting", "ending", "settle"}

(* What an owner knows of its attempt by where it stands.                   *)
Knows(c, m, p) ==
    /\ c.pc \in Owning => m.by = c.req
    /\ c.pc = "write" => m.phase = "created" /\ p = "none"
    /\ c.pc \in {"launch", "intent"} => m.phase = "claimed" /\ p = "none"
    /\ c.pc = "popen" => m.phase = "launch_intent" /\ p = "none"
    /\ c.pc = "mark" => m.phase = "launch_intent" /\ p # "none"
    /\ c.pc \in {"running", "wait"} => m.phase = "running" /\ p # "none"
    /\ c.pc \in {"collecting", "ending", "settle"} =>
          /\ m.phase \in {"launch_intent", "running"}
          /\ p # "alive"
          /\ c.seen \in {"ok", "bad"}
          /\ c.seen = "ok" => p = "ok"

Fits(c) ==
    /\ c.pc # "idle" => c.req \in Requests
    /\ Knows(c, marker[c.req.attempt], process[c.req.attempt])
    /\ c.pc \in Owning \cup {"claim"} /\ c.req.command = "run.retry" =>
          Retryable(marker[c.req.origin])

CallsFit == \A x \in Executors : Fits(exec[x])

SoleOwner ==
    \A x, y \in Executors :
        exec[x].pc \in Owning /\ exec[y].pc \in Owning /\ Attempt(x) = Attempt(y)
        => x = y

(* What a marker says of its process, and of the attempt that its request   *)
(* retries.                                                                 *)
Tells(m, p) ==
    /\ m.phase \in {"none", "created", "claimed"} => p = "none"
    /\ m.phase = "terminal" =>
          /\ p # "alive"
          /\ m.outcome \in {"ok", "bad"}
          /\ m.outcome = "ok" => p = "ok"

MarkerFits(a) ==
    /\ Tells(marker[a], process[a])
    /\ marker[a].phase # "none" =>
          /\ marker[a].by \in Requests
          /\ marker[a].by.command = "run.retry" => Retryable(marker[marker[a].by.origin])

MarkersFit == \A a \in Attempts : MarkerFits(a)

AttemptsFit == CallsFit /\ SoleOwner /\ MarkersFit

(* A step of an executor leaves every attempt alone but the one it owns,    *)
(* which may be the one whose marker it creates.                            *)
Mine(x) ==
    \/ exec[x].pc \in Owning
    \/ exec[x].pc = "claim" /\ marker[Attempt(x)].phase = "none"
Untouched(a) ==
    /\ marker'[a] = marker[a]
    /\ \/ process'[a] = process[a]
       \/ process[a] = "alive" /\ process'[a] \in {"ok", "bad"}
TouchesOnlyIts(x) ==
    \A a \in Attempts : Untouched(a) \/ (Mine(x) /\ a = Attempt(x))

LEMMA TerminalStays ==
    ASSUME AttemptsFit, NEW x \in Executors, TouchesOnlyIts(x),
           NEW a \in Attempts, marker[a].phase = "terminal"
    PROVE  marker'[a] = marker[a] /\ process'[a] = process[a]
<1>1. Fits(exec[x]) /\ MarkerFits(a)
  BY DEF AttemptsFit, CallsFit, MarkersFit
<1>2. ~ (Mine(x) /\ a = Attempt(x))
  BY <1>1 DEF Fits, Knows, Mine, Attempt, Owning
<1> QED BY <1>1, <1>2 DEF TouchesOnlyIts, Untouched, MarkerFits, Tells

LEMMA OthersFit ==
    ASSUME WellTyped, AttemptsFit, NEW x \in Executors, TouchesOnlyIts(x), Others(x),
           NEW y \in Executors, y # x
    PROVE  Fits(exec[y])'
<1>1. exec'[y] = exec[y]
  BY DEF Others
<1>2. Fits(exec[y]) /\ Fits(exec[x])
  BY DEF AttemptsFit, CallsFit
<1>3. CASE exec[y].pc = "idle"
  BY <1>1, <1>3 DEF Fits, Knows, Owning
<1>4. CASE exec[y].pc # "idle"
  <2>1. /\ exec[y].req \in Requests
        /\ Attempt(y) \in Attempts
        /\ Is(y, "run.retry") => exec[y].req.origin \in Attempts
    BY <1>4, RequestFields
  <2>2. exec[y].pc \in Owning \cup {"claim"} /\ Is(y, "run.retry") =>
           Retryable(marker'[exec[y].req.origin])
    BY <1>2, <2>1, TerminalStays DEF Fits, Knows, Is, Retryable
  <2>3. exec[y].pc \in Owning => Untouched(Attempt(y))
    <3>1. ASSUME exec[y].pc \in Owning PROVE ~ (Mine(x) /\ Attempt(y) = Attempt(x))
      <4>1. marker[Attempt(y)].phase # "none"
        BY <1>2, <3>1 DEF Fits, Knows, Attempt, Owning
      <4> QED BY <4>1, <3>1 DEF Mine, AttemptsFit, SoleOwner
    <3> QED BY <2>1, <3>1 DEF TouchesOnlyIts
  <2>4. exec[y].pc \notin Owning => Fits(exec[y])'
    BY <1>1, <1>2, <2>1, <2>2 DEF Fits, Knows, Is, Owning, Retryable
  <2>5. exec[y].pc \in Owning => Fits(exec[y])'
    BY <1>1, <1>2, <2>1, <2>2, <2>3 DEF Fits, Knows, Is, Owning, Attempt, Untouched, Retryable
  <2> QED BY <2>4, <2>5
<1> QED BY <1>3, <1>4

(* What there is to show of one step of an executor.                        *)
Acts(x) ==
    /\ Others(x)
    /\ TouchesOnlyIts(x)
    /\ exec'[x].pc \in Owning => Mine(x) /\ exec'[x].req = exec[x].req
    /\ Fits(exec[x])'
    /\ \A a \in Attempts : a = Attempt(x) /\ Mine(x) => MarkerFits(a)'

LEMMA ActsEnough ==
    ASSUME WellTyped, AttemptsFit, NEW x \in Executors, Acts(x)
    PROVE  AttemptsFit'
<1>1. CallsFit'
  BY OthersFit DEF Acts, CallsFit
<1>2. SoleOwner'
  <2> SUFFICES ASSUME NEW y \in Executors, NEW z \in Executors, y # z,
                      exec'[y].pc \in Owning, exec'[z].pc \in Owning,
                      Attempt(y)' = Attempt(z)'
               PROVE  FALSE
    BY DEF SoleOwner
  <2>1. ASSUME NEW w \in Executors, w # x,
               exec'[x].pc \in Owning, exec'[w].pc \in Owning,
               Attempt(x)' = Attempt(w)'
        PROVE  FALSE
    <3>1. Mine(x) /\ Attempt(x)' = Attempt(x) /\ exec'[w] = exec[w]
      BY <2>1 DEF Acts, Attempt, Others
    <3>2. exec[w].pc \in Owning /\ Attempt(x) = Attempt(w)
      BY <2>1, <3>1 DEF Attempt
    <3>3. marker[Attempt(w)].phase # "none"
      <4>1. Fits(exec[w])
        BY DEF AttemptsFit, CallsFit
      <4> QED BY <3>2, <4>1 DEF Fits, Knows, Attempt, Owning
    <3> QED BY <2>1, <3>1, <3>2, <3>3 DEF Mine, AttemptsFit, SoleOwner
  <2>2. CASE y = x
    BY <2>1, <2>2
  <2>3. CASE z = x
    BY <2>1, <2>3
  <2>4. CASE y # x /\ z # x
    BY <2>4 DEF Acts, Others, Attempt, AttemptsFit, SoleOwner
  <2> QED BY <2>2, <2>3, <2>4
<1>3. MarkersFit'
  <2> SUFFICES ASSUME NEW a \in Attempts PROVE MarkerFits(a)'
    BY DEF MarkersFit
  <2>1. MarkerFits(a)
    BY DEF AttemptsFit, MarkersFit
  <2>2. CASE Untouched(a)
    <3>1. /\ marker[a].by \in Requests /\ marker[a].by.command = "run.retry"
          /\ Retryable(marker[marker[a].by.origin])
          => Retryable(marker'[marker[a].by.origin])
      BY TerminalStays, RunRequestAssumption DEF Acts, Retryable
    <3> QED BY <2>1, <2>2, <3>1 DEF MarkerFits, Tells, Untouched, Retryable
  <2>3. CASE Mine(x) /\ a = Attempt(x)
    BY <2>3 DEF Acts
  <2> QED BY <2>2, <2>3 DEF Acts, TouchesOnlyIts
<1> QED BY <1>1, <1>2, <1>3 DEF AttemptsFit

-----------------------------------------------------------------------------
(* The actions, one by one.                                                 *)

(* A step that leaves the attempts alone, by where it leads.                *)
LEMMA QuietStep ==
    ASSUME WellTyped, AttemptsFit, NEW x \in Executors,
           Others(x), UNCHANGED <<marker, process>>,
           \/ exec'[x].pc = "idle"
           \/ /\ exec'[x].pc \notin Owning
              /\ exec'[x].req \in Requests
              /\ exec'[x].pc = "claim" /\ exec'[x].req.command = "run.retry" =>
                    Retryable(marker[exec'[x].req.origin])
           \/ /\ exec[x].pc \in Owning
              /\ exec'[x].req = exec[x].req
              /\ Fits(exec[x])'
    PROVE  Acts(x)
<1>1. TouchesOnlyIts(x)
  BY DEF TouchesOnlyIts, Untouched
<1>2. exec'[x].pc \in Owning => Mine(x) /\ exec'[x].req = exec[x].req
  BY DEF Mine, Owning
<1>3. Fits(exec[x])'
  BY DEF Fits, Knows, Owning, Retryable
<1>4. ASSUME NEW a \in Attempts PROVE MarkerFits(a)'
  BY DEF AttemptsFit, MarkersFit, MarkerFits, Tells, Retryable
<1> QED BY <1>1, <1>2, <1>3, <1>4 DEF Acts

LEMMA LeavingActs ==
    ASSUME WellTyped, AttemptsFit, NEW x \in Executors,
           Refuse(x) \/ Leave(x), exec[x].pc # "idle"
    PROVE  Acts(x)
<1>1. UNCHANGED <<marker, process>>
  BY DEF Refuse, Leave, runVars
<1>2. CASE Refuse(x)
  <2>1. /\ exec'[x].pc = "fail" /\ exec'[x].req = exec[x].req /\ Others(x)
    BY <1>2, GotoFacts DEF Refuse, WellTyped
  <2> QED BY <1>1, <2>1, QuietStep, RequestFields DEF Owning
<1>3. CASE Leave(x)
  <2>1. exec'[x].pc = "idle" /\ Others(x)
    BY <1>3, ReturnFacts DEF Leave, WellTyped
  <2> QED BY <1>1, <2>1, QuietStep
<1> QED BY <1>2, <1>3

LEMMA ClaimActs ==
    ASSUME WellTyped, AttemptsFit, NEW x \in Executors, NEW r \in Requests, Claim(x, r)
    PROVE  Acts(x)
<1>1. exec'[x].pc = "authorize" /\ exec'[x].req = r /\ Others(x)
  BY BeginFacts DEF Claim, WellTyped
<1>2. UNCHANGED <<marker, process>>
  BY DEF Claim, runVars
<1> QED BY <1>1, <1>2, QuietStep DEF Owning

LEMMA JournalingActs ==
    ASSUME WellTyped, AttemptsFit, NEW x \in Executors,
           AuthorizeActor(x) \/ DenyActor(x) \/ RecordFailure(x) \/ Finish(x),
           UNCHANGED runVars
    PROVE  Acts(x)
<1>1. UNCHANGED <<marker, process>>
  BY DEF runVars
<1>2. exec[x].pc # "idle"
  BY DEF AuthorizeActor, Authorize, DenyActor, Deny, RecordFailure, Finish
<1>3. \/ Return(x)
      \/ Read(x, "validate", exec[x].seen)
      \/ Goto(x, "finish", "denied") \/ Goto(x, "finish", "failed")
  BY DEF AuthorizeActor, Authorize, Record, DenyActor, Deny, RecordFailure, RecordAlways,
         Finish
<1>4. CASE Return(x)
  BY <1>1, <1>4, ReturnFacts, QuietStep DEF WellTyped
<1>5. CASE Read(x, "validate", exec[x].seen)
  <2>1. exec'[x].pc = "validate" /\ exec'[x].req = exec[x].req /\ Others(x)
    BY <1>5, ReadFacts DEF WellTyped
  <2> QED BY <1>1, <1>2, <2>1, QuietStep, RequestFields DEF Owning
<1>6. CASE Goto(x, "finish", "denied") \/ Goto(x, "finish", "failed")
  <2>1. exec'[x].pc = "finish" /\ exec'[x].req = exec[x].req /\ Others(x)
    BY <1>6, GotoFacts DEF WellTyped
  <2> QED BY <1>1, <1>2, <2>1, QuietStep, RequestFields DEF Owning
<1> QED BY <1>3, <1>4, <1>5, <1>6

(* Pass to a step before the claim, or to the record of the result.         *)
LEMMA PassingActs ==
    ASSUME WellTyped, AttemptsFit, NEW x \in Executors, exec[x].pc # "idle",
           NEW pc, pc \notin Owning, Pass(x, pc),
           pc = "claim" /\ Is(x, "run.retry") => Retryable(marker[exec[x].req.origin])
    PROVE  Acts(x)
<1>1. exec'[x].pc = pc /\ exec'[x].req = exec[x].req /\ Others(x)
  BY GotoFacts DEF Pass, WellTyped
<1>2. UNCHANGED <<marker, process>>
  BY DEF Pass, runVars
<1> QED BY <1>1, <1>2, QuietStep, RequestFields DEF Is

LEMMA CheckingActs ==
    ASSUME WellTyped, AttemptsFit, NEW x \in Executors,
           Validate(x) \/ Prepare(x) \/ Origin(x) \/ Observe(x)
    PROVE  Acts(x)
<1>1. CASE Validate(x)
  <2>1. /\ exec[x].pc # "idle"
        /\ Refuse(x) \/ Leave(x) \/ Pass(x, "observe") \/ Pass(x, "prepare")
    BY <1>1 DEF Validate
  <2> QED BY <2>1, LeavingActs, PassingActs DEF Owning
<1>2. CASE Prepare(x)
  <2>1. /\ exec[x].pc # "idle"
        /\ \/ Refuse(x) \/ Pass(x, "origin")
           \/ Pass(x, "claim") /\ ~ Is(x, "run.retry")
    BY <1>2 DEF Prepare
  <2> QED BY <2>1, LeavingActs, PassingActs DEF Owning
<1>3. CASE Origin(x)
  <2>1. /\ exec[x].pc # "idle"
        /\ \/ Refuse(x) \/ Leave(x)
           \/ Pass(x, "claim") /\ Retryable(marker[exec[x].req.origin])
    BY <1>3 DEF Origin
  <2> QED BY <2>1, LeavingActs, PassingActs DEF Owning
<1>4. CASE Observe(x)
  <2>1. exec[x].pc # "idle" /\ (Refuse(x) \/ Leave(x) \/ Pass(x, "store"))
    BY <1>4 DEF Observe
  <2> QED BY <2>1, LeavingActs, PassingActs DEF Owning
<1> QED BY <1>1, <1>2, <1>3, <1>4

(* A step that ends the call, whatever becomes of the process.              *)
LEMMA GoneStep ==
    ASSUME WellTyped, AttemptsFit, NEW x \in Executors,
           Others(x), exec'[x].pc = "idle", \A a \in Attempts : Untouched(a)
    PROVE  Acts(x)
<1>1. TouchesOnlyIts(x)
  BY DEF TouchesOnlyIts
<1>2. exec'[x].pc \notin Owning /\ Fits(exec[x])'
  BY DEF Fits, Knows, Owning
<1>3. ASSUME NEW a \in Attempts PROVE MarkerFits(a)'
  <2>1. MarkerFits(a)
    BY DEF AttemptsFit, MarkersFit
  <2>2. Tells(marker[a], process[a])'
    BY <2>1 DEF MarkerFits, Tells, Untouched
  <2>3. /\ marker[a].by \in Requests /\ marker[a].by.command = "run.retry"
        /\ Retryable(marker[marker[a].by.origin])
        => Retryable(marker'[marker[a].by.origin])
    BY <1>1, TerminalStays, RunRequestAssumption DEF Retryable
  <2> QED BY <2>1, <2>2, <2>3 DEF MarkerFits, Untouched, Retryable
<1> QED BY <1>1, <1>2, <1>3 DEF Acts

(* A step in which the owner of an attempt writes its marker or moves its   *)
(* process.                                                                 *)
LEMMA OwnerStep ==
    ASSUME WellTyped, AttemptsFit, NEW x \in Executors,
           exec[x].pc # "idle", Mine(x), Others(x),
           exec'[x].pc # "claim", exec'[x].req = exec[x].req,
           \A a \in Attempts \ {Attempt(x)} :
               marker'[a] = marker[a] /\ process'[a] = process[a],
           marker'[Attempt(x)].phase # "none", marker'[Attempt(x)].by = exec[x].req,
           Knows(exec'[x], marker'[Attempt(x)], process'[Attempt(x)]),
           Tells(marker'[Attempt(x)], process'[Attempt(x)])
    PROVE  Acts(x)
<1>0. /\ exec[x].req \in Requests /\ Attempt(x) \in Attempts
      /\ Is(x, "run.retry") => exec[x].req.origin \in Attempts
  BY RequestFields
<1>1. TouchesOnlyIts(x)
  BY DEF TouchesOnlyIts, Untouched
<1>2. Is(x, "run.retry") => Retryable(marker'[exec[x].req.origin])
  <2>1. Is(x, "run.retry") => Retryable(marker[exec[x].req.origin])
    BY DEF AttemptsFit, CallsFit, Fits, Mine, Is
  <2> QED BY <1>0, <1>1, <2>1, TerminalStays DEF Retryable
<1>3. Fits(exec[x])'
  BY <1>0, <1>2 DEF Fits, Attempt, Is, Retryable
<1>4. \A a \in Attempts : a = Attempt(x) => MarkerFits(a)'
  BY <1>0, <1>2 DEF MarkerFits, Is, Retryable
<1> QED BY <1>1, <1>3, <1>4 DEF Acts

LEMMA SetMarkerFacts ==
    ASSUME TypeOK, NEW x \in Executors, Attempt(x) \in Attempts,
           NEW phase, NEW outcome, SetMarker(x, phase, outcome)
    PROVE  /\ marker'[Attempt(x)].phase = phase
           /\ marker'[Attempt(x)].by = exec[x].req
           /\ marker'[Attempt(x)].outcome = outcome
           /\ \A a \in Attempts \ {Attempt(x)} : marker'[a] = marker[a]
BY TypeParts DEF SetMarker, Marker

LEMMA SetProcessFacts ==
    ASSUME TypeOK, NEW b \in Attempts, NEW state, SetProcess(b, state)
    PROVE  /\ process'[b] = state
           /\ \A a \in Attempts \ {b} : process'[a] = process[a]
BY TypeParts DEF SetProcess

LEMMA EndedFacts ==
    ASSUME TypeOK, NEW b \in Attempts, Ended(b, "bad")
    PROVE  /\ process'[b] = IF process[b] = "alive" THEN "bad" ELSE process[b]
           /\ \A a \in Attempts \ {b} : process'[a] = process[a]
BY SetProcessFacts DEF Ended

LEMMA OwnerFacts ==
    ASSUME WellTyped, AttemptsFit, NEW x \in Executors, exec[x].pc \in Owning
    PROVE  /\ exec[x].pc # "idle" /\ Mine(x)
           /\ exec[x].req \in Requests /\ Attempt(x) \in Attempts
           /\ Knows(exec[x], marker[Attempt(x)], process[Attempt(x)])
           /\ Tells(marker[Attempt(x)], process[Attempt(x)])
<1>1. exec[x].pc # "idle" /\ Mine(x)
  BY DEF Owning, Mine
<1>2. exec[x].req \in Requests /\ Attempt(x) \in Attempts
  BY <1>1, RequestFields
<1> QED BY <1>1, <1>2 DEF AttemptsFit, CallsFit, MarkersFit, Fits, MarkerFits, Attempt

LEMMA ClaimMarkerActs ==
    ASSUME WellTyped, AttemptsFit, NEW x \in Executors, ClaimMarker(x)
    PROVE  Acts(x)
<1>0. exec[x].pc = "claim" /\ Attempt(x) \in Attempts /\ exec[x].req \in Requests
  BY RequestFields DEF ClaimMarker
<1>1. CASE /\ Claimable(marker[Attempt(x)])
           /\ SetMarker(x, "created", "unread")
           /\ Goto(x, "write", "none")
           /\ UNCHANGED process
  <2>1. /\ Mine(x)
        /\ process[Attempt(x)] = "none"
    BY <1>0, <1>1 DEF Claimable, Mine, AttemptsFit, MarkersFit, MarkerFits, Tells
  <2>2. exec'[x].pc = "write" /\ exec'[x].req = exec[x].req /\ Others(x)
    BY <1>1, GotoFacts DEF WellTyped
  <2>3. /\ marker'[Attempt(x)].phase = "created" /\ marker'[Attempt(x)].by = exec[x].req
        /\ \A a \in Attempts \ {Attempt(x)} : marker'[a] = marker[a]
    BY <1>0, <1>1, SetMarkerFacts DEF WellTyped
  <2>4. /\ Knows(exec'[x], marker'[Attempt(x)], process'[Attempt(x)])
        /\ Tells(marker'[Attempt(x)], process'[Attempt(x)])
    BY <1>1, <2>1, <2>2, <2>3 DEF Knows, Tells, Owning
  <2> QED BY <1>0, <1>1, <2>1, <2>2, <2>3, <2>4, OwnerStep
<1>2. CASE Refuse(x) \/ Leave(x)
  BY <1>0, <1>2, LeavingActs
<1>3. CASE /\ \/ Goto(x, "store", "none") \/ Goto(x, "finish", "attempt_failed")
           /\ UNCHANGED runVars
  <2>1. /\ exec'[x].pc \in {"store", "finish"} /\ exec'[x].req = exec[x].req
        /\ Others(x)
    BY <1>3, GotoFacts DEF WellTyped
  <2>2. UNCHANGED <<marker, process>>
    BY <1>3 DEF runVars
  <2> QED BY <1>0, <2>1, <2>2, QuietStep DEF Owning
<1> QED BY <1>1, <1>2, <1>3 DEF ClaimMarker

LEMMA MarkingActs ==
    ASSUME WellTyped, AttemptsFit, NEW x \in Executors,
           WriteClaim(x) \/ Intend(x) \/ WriteTerminal(x)
    PROVE  Acts(x)
<1>1. exec[x].pc \in Owning /\ UNCHANGED process
  BY DEF WriteClaim, Intend, WriteTerminal, Owning
<1>2. /\ exec[x].pc # "idle" /\ Mine(x)
      /\ exec[x].req \in Requests /\ Attempt(x) \in Attempts
      /\ Knows(exec[x], marker[Attempt(x)], process[Attempt(x)])
  BY <1>1, OwnerFacts
<1>3. ASSUME NEW phase, NEW outcome, NEW pc, NEW verdict,
             SetMarker(x, phase, outcome), Goto(x, pc, verdict)
      PROVE  /\ exec'[x].pc = pc /\ exec'[x].req = exec[x].req /\ Others(x)
             /\ marker'[Attempt(x)].phase = phase /\ marker'[Attempt(x)].by = exec[x].req
             /\ marker'[Attempt(x)].outcome = outcome
             /\ \A a \in Attempts \ {Attempt(x)} : marker'[a] = marker[a]
  BY <1>2, <1>3, GotoFacts, SetMarkerFacts DEF WellTyped
<1>4. CASE WriteClaim(x)
  <2>1. SetMarker(x, "claimed", "unread") /\ Goto(x, "launch", "none")
    BY <1>4 DEF WriteClaim
  <2>2. /\ exec'[x].pc = "launch" /\ exec'[x].req = exec[x].req /\ Others(x)
        /\ marker'[Attempt(x)].phase = "claimed" /\ marker'[Attempt(x)].by = exec[x].req
        /\ \A a \in Attempts \ {Attempt(x)} : marker'[a] = marker[a]
    BY <1>3, <2>1
  <2>3. /\ Knows(exec'[x], marker'[Attempt(x)], process'[Attempt(x)])
        /\ Tells(marker'[Attempt(x)], process'[Attempt(x)])
    BY <1>1, <1>2, <1>4, <2>2 DEF WriteClaim, Knows, Tells, Owning
  <2> QED BY <1>1, <1>2, <2>2, <2>3, OwnerStep
<1>5. CASE Intend(x)
  <2>1. SetMarker(x, "launch_intent", "unread") /\ Goto(x, "popen", "none")
    BY <1>5 DEF Intend
  <2>2. /\ exec'[x].pc = "popen" /\ exec'[x].req = exec[x].req /\ Others(x)
        /\ marker'[Attempt(x)].phase = "launch_intent" /\ marker'[Attempt(x)].by = exec[x].req
        /\ \A a \in Attempts \ {Attempt(x)} : marker'[a] = marker[a]
    BY <1>3, <2>1
  <2>3. /\ Knows(exec'[x], marker'[Attempt(x)], process'[Attempt(x)])
        /\ Tells(marker'[Attempt(x)], process'[Attempt(x)])
    BY <1>1, <1>2, <1>5, <2>2 DEF Intend, Knows, Tells, Owning
  <2> QED BY <1>1, <1>2, <2>2, <2>3, OwnerStep
<1>6. CASE WriteTerminal(x)
  <2>1. /\ exec[x].seen \in {"ok", "bad"} /\ process[Attempt(x)] # "alive"
        /\ exec[x].seen = "ok" => process[Attempt(x)] = "ok"
    BY <1>2, <1>6 DEF WriteTerminal, Knows
  <2>2. PICK pc, verdict :
          /\ pc \in {"store", "finish"}
          /\ SetMarker(x, "terminal", exec[x].seen) /\ Goto(x, pc, verdict)
    BY <1>6 DEF WriteTerminal
  <2>3. /\ pc \in {"store", "finish"} /\ exec'[x].pc = pc
        /\ exec'[x].req = exec[x].req /\ Others(x)
        /\ marker'[Attempt(x)].phase = "terminal" /\ marker'[Attempt(x)].by = exec[x].req
        /\ marker'[Attempt(x)].outcome = exec[x].seen
        /\ \A a \in Attempts \ {Attempt(x)} : marker'[a] = marker[a]
    BY <1>3, <2>2
  <2>4. /\ Knows(exec'[x], marker'[Attempt(x)], process'[Attempt(x)])
        /\ Tells(marker'[Attempt(x)], process'[Attempt(x)])
    BY <1>1, <2>1, <2>3 DEF Knows, Tells, Owning
  <2> QED BY <1>1, <1>2, <2>3, <2>4, OwnerStep
<1> QED BY <1>4, <1>5, <1>6

(* A step in which the owner moves on and leaves marker and process alone.  *)
LEMMA OwnerMoves ==
    ASSUME WellTyped, AttemptsFit, NEW x \in Executors, exec[x].pc \in Owning,
           UNCHANGED <<marker, process>>,
           exec'[x].pc # "claim", exec'[x].req = exec[x].req, Others(x),
           Knows(exec'[x], marker[Attempt(x)], process[Attempt(x)])
    PROVE  Acts(x)
<1>1. /\ exec[x].pc # "idle" /\ Mine(x)
      /\ Attempt(x) \in Attempts
      /\ Knows(exec[x], marker[Attempt(x)], process[Attempt(x)])
      /\ Tells(marker[Attempt(x)], process[Attempt(x)])
  BY OwnerFacts
<1>2. /\ marker[Attempt(x)].by = exec[x].req
      /\ marker[Attempt(x)].phase # "none"
  BY <1>1 DEF Knows, Owning
<1> QED BY <1>1, <1>2, OwnerStep

LEMMA MovingActs ==
    ASSUME WellTyped, AttemptsFit, NEW x \in Executors,
           \/ Launch(x) \/ CollectArtifacts(x) \/ EmitTerminal(x)
           \/ StoreResult(x) \/ CommitResult(x)
    PROVE  Acts(x)
<1>1. CASE Launch(x)
  <2>1. exec[x].pc = "launch" /\ UNCHANGED <<marker, process>>
    BY <1>1 DEF Launch, Pass, Leave, runVars
  <2>2. CASE Leave(x)
    BY <2>1, <2>2, LeavingActs
  <2>3. CASE Goto(x, "intent", "none")
    <3>1. exec'[x].pc = "intent" /\ exec'[x].req = exec[x].req /\ Others(x)
      BY <2>3, GotoFacts DEF WellTyped
    <3>2. Knows(exec[x], marker[Attempt(x)], process[Attempt(x)])
      BY <2>1, OwnerFacts DEF Owning
    <3>3. Knows(exec'[x], marker[Attempt(x)], process[Attempt(x)])
      BY <2>1, <2>3, <3>1, <3>2 DEF Knows, Owning
    <3> QED BY <2>1, <3>1, <3>3, OwnerMoves DEF Owning
  <2> QED BY <1>1, <2>2, <2>3 DEF Launch, Pass
<1>2. CASE CollectArtifacts(x)
  <2>1. exec[x].pc = "collecting" /\ UNCHANGED <<marker, process>>
    BY <1>2 DEF CollectArtifacts, runVars
  <2>2. CASE Return(x)
    BY <2>1, <2>2, ReturnFacts, QuietStep DEF WellTyped
  <2>3. ASSUME NEW outcome \in {exec[x].seen, "bad"}, Read(x, "ending", outcome)
        PROVE  Acts(x)
    <3>1. /\ exec'[x].pc = "ending" /\ exec'[x].req = exec[x].req /\ Others(x)
          /\ exec'[x].seen \in {exec[x].seen, "bad"}
      BY <2>3, ReadFacts DEF WellTyped
    <3>2. Knows(exec[x], marker[Attempt(x)], process[Attempt(x)])
      BY <2>1, OwnerFacts DEF Owning
    <3>3. Knows(exec'[x], marker[Attempt(x)], process[Attempt(x)])
      BY <2>1, <2>3, <3>1, <3>2 DEF Knows, Owning
    <3> QED BY <2>1, <3>1, <3>3, OwnerMoves DEF Owning
  <2> QED BY <1>2, <2>2, <2>3 DEF CollectArtifacts
<1>3. CASE EmitTerminal(x)
  <2>1. exec[x].pc = "ending" /\ UNCHANGED <<marker, process>>
    BY <1>3 DEF EmitTerminal, runVars
  <2>2. CASE Return(x)
    BY <2>1, <2>2, ReturnFacts, QuietStep DEF WellTyped
  <2>3. CASE Read(x, "settle", exec[x].seen)
    <3>1. /\ exec'[x].pc = "settle" /\ exec'[x].req = exec[x].req /\ Others(x)
          /\ exec'[x].seen = exec[x].seen
      BY <2>3, ReadFacts DEF WellTyped
    <3>2. Knows(exec[x], marker[Attempt(x)], process[Attempt(x)])
      BY <2>1, OwnerFacts DEF Owning
    <3>3. Knows(exec'[x], marker[Attempt(x)], process[Attempt(x)])
      BY <2>1, <2>3, <3>1, <3>2 DEF Knows, Owning
    <3> QED BY <2>1, <3>1, <3>3, OwnerMoves DEF Owning
  <2> QED BY <1>3, <2>2, <2>3 DEF EmitTerminal
<1>4. CASE StoreResult(x)
  <2>1. exec[x].pc = "store" /\ UNCHANGED <<marker, process>>
    BY <1>4 DEF StoreResult, Refuse, runVars
  <2>2. CASE Refuse(x)
    BY <2>1, <2>2, LeavingActs
  <2>3. CASE Goto(x, "commit", "none")
    <3>1. exec'[x].pc = "commit" /\ exec'[x].req = exec[x].req /\ Others(x)
      BY <2>3, GotoFacts DEF WellTyped
    <3> QED BY <2>1, <3>1, QuietStep, RequestFields DEF Owning
  <2> QED BY <1>4, <2>2, <2>3 DEF StoreResult
<1>5. CASE CommitResult(x)
  <2>1. exec[x].pc = "commit" /\ UNCHANGED <<marker, process>>
    BY <1>5 DEF CommitResult
  <2>2. PICK v : Goto(x, "finish", v)
    BY <1>5 DEF CommitResult
  <2>3. exec'[x].pc = "finish" /\ exec'[x].req = exec[x].req /\ Others(x)
    BY <2>2, GotoFacts DEF WellTyped
  <2> QED BY <2>1, <2>3, QuietStep, RequestFields DEF Owning
<1> QED BY <1>1, <1>2, <1>3, <1>4, <1>5

(* The steps that start, end or kill the process.                           *)
LEMMA ProcessActs ==
    ASSUME WellTyped, AttemptsFit, NEW x \in Executors,
           Popen(x) \/ MarkRunning(x) \/ EmitRunning(x) \/ Wait(x)
    PROVE  Acts(x)
<1>1. exec[x].pc \in {"popen", "mark", "running", "wait"}
  BY DEF Popen, MarkRunning, EmitRunning, Wait
<1>2. /\ exec[x].pc # "idle" /\ Mine(x) /\ exec[x].pc \in Owning
      /\ exec[x].req \in Requests /\ Attempt(x) \in Attempts
      /\ Knows(exec[x], marker[Attempt(x)], process[Attempt(x)])
  BY <1>1, OwnerFacts DEF Owning
<1>3. marker[Attempt(x)].by = exec[x].req
  BY <1>2 DEF Knows
<1>4. process[Attempt(x)] \in Processes
  BY <1>2, MarkerFields DEF WellTyped
<1>5. CASE Popen(x)
  <2>1. /\ exec[x].pc = "popen" /\ UNCHANGED marker
        /\ marker[Attempt(x)].phase = "launch_intent"
        /\ process[Attempt(x)] = "none"
    BY <1>2, <1>5 DEF Popen, Knows
  <2>2. CASE SetProcess(Attempt(x), "alive") /\ Goto(x, "mark", "none")
    <3>1. exec'[x].pc = "mark" /\ exec'[x].req = exec[x].req /\ Others(x)
      BY <2>2, GotoFacts DEF WellTyped
    <3>2. /\ process'[Attempt(x)] = "alive"
          /\ \A a \in Attempts \ {Attempt(x)} : process'[a] = process[a]
      BY <1>2, <2>2, SetProcessFacts DEF WellTyped
    <3>3. /\ Knows(exec'[x], marker'[Attempt(x)], process'[Attempt(x)])
          /\ Tells(marker'[Attempt(x)], process'[Attempt(x)])
      BY <1>3, <2>1, <3>1, <3>2 DEF Knows, Tells, Owning
    <3> QED BY <1>2, <1>3, <2>1, <3>1, <3>2, <3>3, OwnerStep
  <2>3. CASE UNCHANGED process /\ Read(x, "ending", "bad")
    <3>1. /\ exec'[x].pc = "ending" /\ exec'[x].req = exec[x].req /\ Others(x)
          /\ exec'[x].seen = "bad"
      BY <2>3, ReadFacts DEF WellTyped
    <3>2. Knows(exec'[x], marker[Attempt(x)], process[Attempt(x)])
      BY <1>3, <2>1, <3>1 DEF Knows, Owning
    <3> QED BY <1>2, <2>1, <2>3, <3>1, <3>2, OwnerMoves
  <2> QED BY <1>5, <2>2, <2>3 DEF Popen
<1>6. CASE MarkRunning(x)
  <2>1. /\ exec[x].pc = "mark" /\ marker[Attempt(x)].phase = "launch_intent"
        /\ process[Attempt(x)] # "none"
    BY <1>2, <1>6 DEF MarkRunning, Knows
  <2>2. CASE /\ SetMarker(x, "running", "unread") /\ Goto(x, "running", "none")
             /\ UNCHANGED process
    <3>1. exec'[x].pc = "running" /\ exec'[x].req = exec[x].req /\ Others(x)
      BY <2>2, GotoFacts DEF WellTyped
    <3>2. /\ marker'[Attempt(x)].phase = "running" /\ marker'[Attempt(x)].by = exec[x].req
          /\ \A a \in Attempts \ {Attempt(x)} : marker'[a] = marker[a]
      BY <1>2, <2>2, SetMarkerFacts DEF WellTyped
    <3>3. /\ Knows(exec'[x], marker'[Attempt(x)], process'[Attempt(x)])
          /\ Tells(marker'[Attempt(x)], process'[Attempt(x)])
      BY <2>1, <2>2, <3>1, <3>2 DEF Knows, Tells, Owning
    <3> QED BY <1>2, <2>2, <3>1, <3>2, <3>3, OwnerStep
  <2>3. CASE /\ Ended(Attempt(x), "bad") /\ Read(x, "ending", "bad")
             /\ UNCHANGED marker
    <3>1. /\ exec'[x].pc = "ending" /\ exec'[x].req = exec[x].req
          /\ exec'[x].seen = "bad" /\ Others(x)
      BY <2>3, ReadFacts DEF WellTyped
    <3>2. /\ process'[Attempt(x)] # "alive"
          /\ \A a \in Attempts \ {Attempt(x)} : process'[a] = process[a]
      BY <1>2, <2>3, EndedFacts DEF WellTyped
    <3>3. /\ Knows(exec'[x], marker'[Attempt(x)], process'[Attempt(x)])
          /\ Tells(marker'[Attempt(x)], process'[Attempt(x)])
      BY <1>3, <2>1, <2>3, <3>1, <3>2 DEF Knows, Tells, Owning
    <3> QED BY <1>2, <1>3, <2>1, <2>3, <3>1, <3>2, <3>3, OwnerStep
  <2> QED BY <1>6, <2>2, <2>3 DEF MarkRunning
<1>7. CASE EmitRunning(x)
  <2>1. exec[x].pc = "running" /\ UNCHANGED marker
    BY <1>7 DEF EmitRunning
  <2>2. CASE Goto(x, "wait", "none") /\ UNCHANGED process
    <3>1. exec'[x].pc = "wait" /\ exec'[x].req = exec[x].req /\ Others(x)
      BY <2>2, GotoFacts DEF WellTyped
    <3>2. Knows(exec'[x], marker[Attempt(x)], process[Attempt(x)])
      BY <1>2, <2>1, <3>1 DEF Knows, Owning
    <3> QED BY <1>2, <2>1, <2>2, <3>1, <3>2, OwnerMoves
  <2>3. CASE Return(x) /\ Ended(Attempt(x), "bad")
    <3>1. exec'[x].pc = "idle" /\ Others(x)
      BY <2>3, ReturnFacts DEF WellTyped
    <3>2. \A a \in Attempts : Untouched(a)
      BY <1>2, <2>1, <2>3, EndedFacts DEF Untouched, WellTyped
    <3> QED BY <3>1, <3>2, GoneStep
  <2> QED BY <1>7, <2>2, <2>3 DEF EmitRunning
<1>8. CASE Wait(x)
  <2>1. /\ exec[x].pc = "wait" /\ UNCHANGED marker
        /\ marker[Attempt(x)].phase = "running"
        /\ process[Attempt(x)] \in {"alive", "ok", "bad"}
    BY <1>2, <1>4, <1>8 DEF Wait, Knows, Processes
  <2>2. ASSUME NEW s \in {"ok", "bad"}, Read(x, "collecting", s),
               process'[Attempt(x)] = s,
               \A a \in Attempts \ {Attempt(x)} : process'[a] = process[a]
        PROVE  Acts(x)
    <3>1. /\ exec'[x].pc = "collecting" /\ exec'[x].req = exec[x].req
          /\ exec'[x].seen = s /\ Others(x)
      BY <2>2, ReadFacts DEF WellTyped
    <3>2. /\ Knows(exec'[x], marker'[Attempt(x)], process'[Attempt(x)])
          /\ Tells(marker'[Attempt(x)], process'[Attempt(x)])
      BY <1>3, <2>1, <2>2, <3>1 DEF Knows, Tells, Owning
    <3> QED BY <1>2, <1>3, <2>1, <2>2, <3>1, <3>2, OwnerStep
  <2>3. CASE /\ process[Attempt(x)] # "alive"
             /\ Read(x, "collecting", process[Attempt(x)]) /\ UNCHANGED process
    BY <2>1, <2>2, <2>3
  <2>4. CASE TimedOut(Attempt(x)) /\ Read(x, "collecting", "bad")
    BY <1>2, <2>2, <2>4, SetProcessFacts DEF TimedOut, WellTyped
  <2> QED BY <1>8, <2>3, <2>4 DEF Wait
<1> QED BY <1>5, <1>6, <1>7, <1>8

LEMMA StopActs ==
    ASSUME WellTyped, AttemptsFit, NEW x \in Executors, Stop(x)
    PROVE  Acts(x)
<1>1. exec[x].pc # "idle" /\ Return(x) /\ UNCHANGED marker
  BY DEF Stop, Abandon
<1>2. exec'[x].pc = "idle" /\ Others(x)
  BY <1>1, ReturnFacts DEF WellTyped
<1>3. Attempt(x) \in Attempts
  BY <1>1, RequestFields
<1>4. \A a \in Attempts : Untouched(a)
  <2>1. CASE UNCHANGED process
    BY <1>1, <2>1 DEF Untouched
  <2>2. CASE Ended(Attempt(x), "bad")
    BY <1>1, <1>3, <2>2, EndedFacts DEF Untouched, WellTyped
  <2> QED BY <2>1, <2>2 DEF Stop
<1> QED BY <1>2, <1>4, GoneStep

LEMMA NextActs ==
    ASSUME WellTyped, AttemptsFit, Next
    PROVE  \/ \E x \in Executors : Acts(x)
           \/ Drift
           \/ \E a \in Attempts, state \in {"ok", "bad"} : Exit(a, state)
<1>1. ASSUME NEW x \in Executors, NEW r \in Requests, Claim(x, r)
      PROVE  Acts(x)
  BY <1>1, ClaimActs
<1>2. ASSUME NEW x \in Executors, Step(x)
      PROVE  Acts(x)
  BY <1>2, JournalingActs, CheckingActs, ClaimMarkerActs, MarkingActs, MovingActs,
     ProcessActs
     DEF Step, AuthorizeActor, DenyActor
<1>3. ASSUME NEW x \in Executors, Stop(x)
      PROVE  Acts(x)
  BY <1>3, StopActs
<1> QED BY <1>1, <1>2, <1>3 DEF Next

LEMMA AttemptsStep ==
    ASSUME WellTyped, AttemptsFit, [Next]_vars
    PROVE  AttemptsFit'
<1>1. CASE UNCHANGED <<exec, marker, process>>
  BY <1>1 DEF AttemptsFit, CallsFit, SoleOwner, MarkersFit, MarkerFits, Fits, Attempt,
              Retryable
<1>2. CASE Drift
  BY <1>1, <1>2 DEF Drift, journalVars
<1>3. ASSUME NEW b \in Attempts, NEW state \in {"ok", "bad"}, Exit(b, state)
      PROVE  AttemptsFit'
  <2>1. /\ UNCHANGED <<exec, marker>>
        /\ process[b] = "alive" /\ process'[b] = state
        /\ \A a \in Attempts \ {b} : process'[a] = process[a]
    BY <1>3, SetProcessFacts DEF Exit, journalVars, WellTyped
  <2>2. CallsFit'
    <3> SUFFICES ASSUME NEW x \in Executors PROVE Fits(exec[x])'
      BY DEF CallsFit
    <3>1. Fits(exec[x])
      BY DEF AttemptsFit, CallsFit
    <3>2. CASE exec[x].pc = "idle"
      BY <2>1, <3>2 DEF Fits, Knows, Owning
    <3>3. CASE exec[x].pc # "idle"
      <4>1. Attempt(x) \in Attempts
        BY <3>3, RequestFields
      <4>2. Knows(exec[x], marker[Attempt(x)], process'[Attempt(x)])
        BY <2>1, <3>1, <4>1 DEF Fits, Knows, Attempt
      <4> QED BY <2>1, <3>1, <4>2 DEF Fits, Attempt, Retryable
    <3> QED BY <3>2, <3>3
  <2>3. SoleOwner'
    BY <2>1 DEF AttemptsFit, SoleOwner, Attempt
  <2>4. MarkersFit'
    BY <2>1 DEF AttemptsFit, MarkersFit, MarkerFits, Tells, Retryable
  <2> QED BY <2>2, <2>3, <2>4 DEF AttemptsFit
<1>4. CASE \E x \in Executors : Acts(x)
  BY <1>4, ActsEnough
<1>5. CASE UNCHANGED vars
  BY <1>1, <1>5 DEF vars, journalVars, runVars
<1> QED BY <1>2, <1>3, <1>4, <1>5, NextActs

-----------------------------------------------------------------------------
(* Typing.                                                                  *)
LEMMA GotoTyped ==
    ASSUME TypeOK, NEW x \in Executors, NEW pc \in Phases, NEW v \in Results,
           Goto(x, pc, v)
    PROVE  exec' \in [Executors -> Calls]
BY CallFields, CallTyped, TypeParts, UnreadAssumption DEF Goto

LEMMA ReadTyped ==
    ASSUME TypeOK, NEW x \in Executors, NEW pc \in Phases, NEW s \in Snapshots,
           Read(x, pc, s)
    PROVE  exec' \in [Executors -> Calls]
BY CallFields, CallTyped, TypeParts, VocabularyAssumption DEF Read

LEMMA ReturnTyped ==
    ASSUME TypeOK, NEW x \in Executors, Return(x)
    PROVE  exec' \in [Executors -> Calls]
<1>1. NoCall \in Calls
  BY CallTyped, VocabularyAssumption, UnreadAssumption DEF NoCall
<1> QED BY <1>1, TypeParts DEF Return

LEMMA BeginTyped ==
    ASSUME TypeOK, NEW x \in Executors, NEW r \in Requests, Begin(x, r, "authorize")
    PROVE  exec' \in [Executors -> Calls]
<1>1. r.op \in Operations
  BY RequestAssumption
<1>2. journal'[r.op].events \in Seq(Kinds)
  <2>1. CASE BeginNew(r)
    <3>1. journal'[r.op].events = <<"operation_started">>
      BY <1>1, <2>1, TypeParts DEF BeginNew, Row
    <3> QED BY <3>1, VocabularyAssumption
  <2>2. CASE BeginAgain(r)
    BY <1>1, <2>2, RowFields DEF BeginAgain
  <2> QED BY <2>1, <2>2 DEF Begin
<1>3. PICK knows : /\ knows = {journal'[r.op].events[i] : i \in DOMAIN journal'[r.op].events}
                   /\ exec' = [exec EXCEPT ![x] = Call("authorize", r, knows, Unread, "none")]
  BY DEF Begin
<1>4. knows \in SUBSET Kinds
  BY <1>2, <1>3
<1>5. Call("authorize", r, knows, Unread, "none") \in Calls
  BY <1>4, CallTyped, VocabularyAssumption, UnreadAssumption
<1> QED BY <1>3, <1>5, TypeParts

LEMMA JournalTyped ==
    ASSUME WellTyped, Next
    PROVE  journal' \in [Operations -> Rows]
<1>1. journal \in [Operations -> Rows]
  BY TypeParts DEF WellTyped
<1>2. ASSUME NEW r \in Requests, Begun(r)
      PROVE  journal' \in [Operations -> Rows]
  <2>1. <<"operation_started">> \in Seq(Kinds)
    BY VocabularyAssumption
  <2>2. Row("running", r, <<"operation_started">>, "none") \in Rows
    BY <2>1, RowTyped, VocabularyAssumption
  <2> QED BY <1>1, <1>2, <2>2 DEF Begun
<1>3. ASSUME NEW o \in Operations, NEW kind \in Kinds, Extended(o, kind)
      PROVE  journal' \in [Operations -> Rows]
  <2>0. Append(journal[o].events, kind) \in Seq(Kinds)
    BY RowFields DEF WellTyped
  <2>1. Row("running", journal[o].request, Append(journal[o].events, kind),
            journal[o].result) \in Rows
    BY <2>0, RowFields, RowTyped DEF WellTyped
  <2> QED BY <1>1, <1>3, <2>1 DEF Extended
<1>4. ASSUME NEW x \in Executors, Ending(x)
      PROVE  journal' \in [Operations -> Rows]
  <2>1. exec[x].pc # "idle" /\ FinishOperation(Op(x), exec[x].verdict)
    BY <1>4 DEF Ending
  <2>2. Op(x) \in Operations /\ exec[x].verdict \in Results
    BY <2>1, RequestFields, CallFields DEF WellTyped
  <2>3. Append(journal[Op(x)].events, "operation_finished") \in Seq(Kinds)
    BY <2>2, RowFields, VocabularyAssumption DEF WellTyped
  <2>4. Row("terminal", journal[Op(x)].request,
            Append(journal[Op(x)].events, "operation_finished"), exec[x].verdict) \in Rows
    BY <2>2, <2>3, RowFields, RowTyped DEF WellTyped
  <2> QED BY <1>1, <2>1, <2>2, <2>4 DEF FinishOperation
<1> QED BY <1>1, <1>2, <1>3, <1>4, JournalStep, RequestFields

LEMMA CallsTyped ==
    ASSUME WellTyped, AttemptsFit, Next
    PROVE  exec' \in [Executors -> Calls]
<1> USE VocabularyAssumption, RunVocabulary, ObservedAssumption
<1>0. TypeOK /\ exec \in [Executors -> Calls]
  BY TypeParts DEF WellTyped
<1>1. CASE Drift
  BY <1>0, <1>1 DEF Drift, journalVars
<1>2. ASSUME NEW a \in Attempts, NEW state \in {"ok", "bad"}, Exit(a, state)
      PROVE  exec' \in [Executors -> Calls]
  BY <1>0, <1>2 DEF Exit, journalVars
<1>3. ASSUME NEW x \in Executors, NEW r \in Requests, Claim(x, r)
      PROVE  exec' \in [Executors -> Calls]
  BY <1>0, <1>3, BeginTyped DEF Claim
<1>4. ASSUME NEW x \in Executors, Step(x)
      PROVE  exec' \in [Executors -> Calls]
  <2>0. exec[x].seen \in Snapshots /\ exec[x].verdict \in Results
    BY <1>0, CallFields
  <2>1. CASE AuthorizeActor(x) \/ DenyActor(x) \/ RecordFailure(x) \/ Finish(x)
    <3>1. \/ Return(x)
          \/ Read(x, "validate", exec[x].seen)
          \/ Goto(x, "finish", "denied") \/ Goto(x, "finish", "failed")
      BY <2>1 DEF AuthorizeActor, Authorize, Record, DenyActor, Deny, RecordFailure,
                  RecordAlways, Finish
    <3> QED BY <1>0, <2>0, <3>1, GotoTyped, ReadTyped, ReturnTyped
  <2>2. CASE Validate(x) \/ Prepare(x) \/ Origin(x) \/ Observe(x) \/ ClaimMarker(x)
    <3>1. \/ Return(x)
          \/ \E pc \in Phases : \E v \in Results : Goto(x, pc, v)
      BY <2>2 DEF Validate, Prepare, Origin, Observe, ClaimMarker, Refuse, Leave, Pass
    <3> QED BY <1>0, <3>1, GotoTyped, ReturnTyped
  <2>3. CASE WriteClaim(x) \/ Launch(x) \/ Intend(x) \/ WriteTerminal(x)
                \/ StoreResult(x) \/ CommitResult(x)
    <3>1. \/ Return(x)
          \/ \E pc \in Phases : \E v \in Results : Goto(x, pc, v)
      BY <2>3 DEF WriteClaim, Launch, Intend, WriteTerminal, StoreResult, CommitResult,
                  Refuse, Leave, Pass
    <3> QED BY <1>0, <3>1, GotoTyped, ReturnTyped
  <2>4. CASE Popen(x) \/ MarkRunning(x) \/ EmitRunning(x) \/ CollectArtifacts(x)
                \/ EmitTerminal(x)
    <3>1. \/ Return(x)
          \/ \E pc \in Phases : Goto(x, pc, "none")
          \/ \E pc \in Phases : \E s \in Snapshots : Read(x, pc, s)
      BY <2>0, <2>4 DEF Popen, MarkRunning, EmitRunning, CollectArtifacts, EmitTerminal
    <3> QED BY <1>0, <3>1, GotoTyped, ReadTyped, ReturnTyped
  <2>5. CASE Wait(x)
    <3>1. /\ exec[x].pc = "wait" /\ exec[x].pc \in Owning
          /\ \/ Read(x, "collecting", "bad")
             \/ /\ process[Attempt(x)] # "alive"
                /\ Read(x, "collecting", process[Attempt(x)])
      BY <2>5 DEF Wait, Owning
    <3>2. Attempt(x) \in Attempts /\ process[Attempt(x)] # "none"
      BY <3>1, OwnerFacts DEF Knows
    <3>3. process[Attempt(x)] \in Processes
      BY <1>0, <3>2, MarkerFields
    <3> QED BY <1>0, <3>1, <3>2, <3>3, ReadTyped DEF Processes
  <2> QED BY <1>4, <2>1, <2>2, <2>3, <2>4, <2>5 DEF Step
<1>5. ASSUME NEW x \in Executors, Stop(x)
      PROVE  exec' \in [Executors -> Calls]
  BY <1>0, <1>5, ReturnTyped DEF Stop, Abandon
<1> QED BY <1>1, <1>2, <1>3, <1>4, <1>5 DEF Next

(* What one step does to the markers, the processes, the result and the     *)
(* rest.                                                                    *)
Stored(x) ==
    /\ exec[x].pc = "store"
    /\ Writable(Attempt(x))
    /\ result' = Attempt(x)
    /\ UNCHANGED committed
Committed(x) ==
    /\ exec[x].pc = "commit"
    /\ committed' = TRUE
    /\ UNCHANGED result

Effects ==
    /\ \/ UNCHANGED marker
       \/ \E x \in Executors, outcome \in Snapshots :
             \E phase \in {"created", "claimed", "launch_intent", "running", "terminal"} :
                exec[x].pc # "idle" /\ SetMarker(x, phase, outcome)
    /\ \/ UNCHANGED process
       \/ \E a \in Attempts, state \in {"ok", "bad"} : SetProcess(a, state)
       \/ \E x \in Executors : exec[x].pc = "popen" /\ SetProcess(Attempt(x), "alive")
    /\ \/ UNCHANGED <<result, committed>>
       \/ \E x \in Executors : Stored(x) \/ Committed(x)
    /\ abandoned' \in {abandoned, abandoned + 1}
    /\ runnable' \in {runnable, ~ runnable}

LEMMA EffectsStep ==
    ASSUME WellTyped, Next
    PROVE  Effects
<1> USE ObservedAssumption
<1>1. CASE Drift
  BY <1>1 DEF Drift, Effects, journalVars
<1>2. ASSUME NEW a \in Attempts, NEW state \in {"ok", "bad"}, Exit(a, state)
      PROVE  Effects
  BY <1>2 DEF Exit, Effects, journalVars
<1>3. ASSUME NEW x \in Executors, NEW r \in Requests, Claim(x, r)
      PROVE  Effects
  BY <1>3 DEF Claim, Begin, Effects, runVars
<1>4. ASSUME NEW x \in Executors, Step(x)
      PROVE  Effects
  <2>0. /\ exec[x].seen \in Snapshots
        /\ exec[x].pc # "idle" => Attempt(x) \in Attempts
    BY CallFields, RequestFields DEF WellTyped
  <2>1. CASE \/ AuthorizeActor(x) \/ DenyActor(x)
             \/ (RecordFailure(x) \/ Finish(x)) /\ UNCHANGED runVars
    BY <2>1 DEF AuthorizeActor, Authorize, DenyActor, Deny, RecordFailure, RecordAlways,
                Finish, Effects, runVars
  <2>2. CASE Validate(x) \/ Prepare(x) \/ Origin(x) \/ Observe(x) \/ Launch(x)
                \/ CollectArtifacts(x) \/ EmitTerminal(x)
    BY <2>2 DEF Validate, Prepare, Origin, Observe, Launch, CollectArtifacts, EmitTerminal,
                Refuse, Leave, Pass, Effects, runVars
  <2>3. CASE ClaimMarker(x)
    BY <2>3 DEF ClaimMarker, Refuse, Leave, Effects, runVars
  <2>4. CASE WriteClaim(x) \/ Intend(x) \/ WriteTerminal(x)
    BY <2>0, <2>4 DEF WriteClaim, Intend, WriteTerminal, Effects
  <2>5. CASE Popen(x) \/ MarkRunning(x) \/ EmitRunning(x)
    BY <2>0, <2>5 DEF Popen, MarkRunning, EmitRunning, Ended, Effects
  <2>6. CASE Wait(x)
    BY <2>0, <2>6 DEF Wait, TimedOut, Effects
  <2>7. CASE StoreResult(x)
    BY <2>7 DEF StoreResult, Refuse, Stored, Effects, runVars
  <2>8. CASE CommitResult(x)
    BY <2>8 DEF CommitResult, CommitNow, Committed, Effects
  <2> QED BY <1>4, <2>1, <2>2, <2>3, <2>4, <2>5, <2>6, <2>7, <2>8 DEF Step
<1>5. ASSUME NEW x \in Executors, Stop(x)
      PROVE  Effects
  <2>1. Attempt(x) \in Attempts
    BY <1>5, RequestFields DEF Stop, Abandon
  <2> QED BY <1>5, <2>1 DEF Stop, Abandon, Ended, Effects
<1> QED BY <1>1, <1>2, <1>3, <1>4, <1>5 DEF Next

LEMMA TypeStep ==
    ASSUME WellTyped, AttemptsFit, [Next]_vars
    PROVE  WellTyped'
<1>1. CASE Next
  <2>1. Effects /\ AttemptsFit'
    BY <1>1, EffectsStep, AttemptsStep
  <2>2. /\ marker \in [Attempts -> Markers] /\ process \in [Attempts -> Processes]
        /\ result \in Attempts \cup {NoAttempt} /\ committed \in BOOLEAN
        /\ abandoned \in Nat /\ runnable \in BOOLEAN
    BY TypeParts DEF WellTyped
  <2>3. marker' \in [Attempts -> Markers]
    <3>1. ASSUME NEW x \in Executors, NEW outcome \in Snapshots, exec[x].pc # "idle",
                 NEW phase \in {"created", "claimed", "launch_intent", "running",
                                "terminal"},
                 SetMarker(x, phase, outcome)
          PROVE  marker' \in [Attempts -> Markers]
      <4>1. Marker(phase, exec[x].req, outcome) \in Markers
        BY <3>1, RequestFields DEF Marker, Markers
      <4> QED BY <2>2, <3>1, <4>1 DEF SetMarker
    <3> QED BY <2>1, <2>2, <3>1 DEF Effects
  <2>4. process' \in [Attempts -> Processes]
    BY <2>1, <2>2 DEF Effects, SetProcess, Processes
  <2>5. result' \in Attempts \cup {NoAttempt} /\ committed' \in BOOLEAN
    <3>1. ASSUME NEW x \in Executors, Stored(x) PROVE result' \in Attempts
      BY <3>1, RequestFields DEF Stored
    <3> QED BY <2>1, <2>2, <3>1 DEF Effects, Stored, Committed
  <2>6. abandoned' \in Nat /\ runnable' \in BOOLEAN
    <3>1. abandoned' \in {abandoned, abandoned + 1} /\ runnable' \in {runnable, ~ runnable}
      BY <2>1 DEF Effects
    <3>2. abandoned' \in Nat
      BY <2>2, <3>1
    <3>3. runnable' \in BOOLEAN
      BY <2>2, <3>1, Zenon
    <3> QED BY <3>2, <3>3
  <2>7. journal' \in [Operations -> Rows] /\ exec' \in [Executors -> Calls]
    BY <1>1, JournalTyped, CallsTyped
  <2>8. TypeOK'
    BY <2>3, <2>4, <2>5, <2>6, <2>7, TypeParts
       DEF TypeOK, JournalTypeOK, Rows, Calls, Markers, Processes
  <2>9. CallsHaveRequests'
    BY <2>1 DEF AttemptsFit, CallsFit, Fits, CallsHaveRequests
  <2> QED BY <2>8, <2>9 DEF WellTyped
<1>2. CASE UNCHANGED vars
  BY <1>2 DEF vars, journalVars, runVars, WellTyped, TypeOK, JournalTypeOK,
              CallsHaveRequests
<1> QED BY <1>1, <1>2

LEMMA AttemptsInit ==
    ASSUME Init
    PROVE  WellTyped /\ AttemptsFit
<1> USE VocabularyAssumption, UnreadAssumption, ObservedAssumption DEF Init, JournalInit
<1>1. NoRow \in Rows
  <2>1. <<>> \in Seq(Kinds)
    OBVIOUS
  <2> QED BY <2>1 DEF NoRow, Rows
<1>2. NoCall \in Calls
  BY CallTyped DEF NoCall
<1>3. NoMarker \in Markers
  BY DEF NoMarker, Marker, Markers
<1>4. TypeOK
  BY <1>1, <1>2, <1>3, TypeParts DEF Processes
<1>5. \A x \in Executors : exec[x].pc = "idle"
  BY DEF NoCall, Call
<1>6. CallsHaveRequests /\ CallsFit /\ SoleOwner
  BY <1>5 DEF CallsHaveRequests, CallsFit, SoleOwner, Fits, Knows, Owning
<1>7. MarkersFit
  BY DEF MarkersFit, MarkerFits, Tells, NoMarker, Marker
<1> QED BY <1>4, <1>6, <1>7 DEF WellTyped, AttemptsFit

(* A terminal marker is never written again, and a result never replaced.   *)
LEMMA TerminalIsFinal ==
    ASSUME WellTyped, AttemptsFit, Next, NEW a \in Attempts, marker[a].phase = "terminal"
    PROVE  marker'[a] = marker[a]
BY NextActs, TerminalStays DEF Acts, Drift, Exit

Told(verdict, a) ==
    /\ verdict \in {"collected", "already_collected"} => result = a /\ committed
    /\ verdict = "attempt_failed" => Retryable(marker[a])

LEMMA ToldStays ==
    ASSUME WellTyped, AttemptsFit, Next, NEW a \in Attempts, NEW verdict, Told(verdict, a)
    PROVE  Told(verdict, a)'
<1>1. Retryable(marker[a]) => Retryable(marker'[a])
  BY TerminalIsFinal DEF Retryable
<1>2. result = a /\ committed => result' = a /\ committed'
  BY EffectsStep, NoAttemptAssumption DEF Effects, Stored, Committed, Writable
<1> QED BY <1>1, <1>2 DEF Told, Retryable
-----------------------------------------------------------------------------
(* What one step does to what a call is about to report.                    *)
Concludes(x) ==
    \/ exec'[x] = exec[x]
    \/ exec'[x].pc = "idle"
    \/ /\ exec[x].pc = "idle"
       /\ exec'[x].pc = "authorize"
       /\ exec'[x].req \in Requests
       /\ journal'[exec'[x].req.op].request = exec'[x].req
    \/ /\ exec[x].pc # "idle"
       /\ exec'[x].req = exec[x].req
       /\ exec'[x].pc = "store" => marker'[Attempt(x)].phase = "terminal"
       /\ exec'[x].pc = "commit" => Stored(x)
       /\ exec'[x].pc = "finish" =>
             \/ exec'[x].verdict \in {"denied", "failed"}
             \/ exec'[x].verdict = "attempt_failed" /\ Retryable(marker'[Attempt(x)])
             \/ exec'[x].verdict \in {"collected", "already_collected"} /\ Committed(x)

LEMMA ConcludesStep ==
    ASSUME WellTyped, AttemptsFit, Next, NEW y \in Executors
    PROVE  Concludes(y)
<1>0. TypeOK
  BY DEF WellTyped
<1>1. CASE UNCHANGED exec
  BY <1>1 DEF Concludes
<1>2. ASSUME NEW x \in Executors, Others(x), Concludes(x)
      PROVE  Concludes(y)
  BY <1>2 DEF Others, Concludes
<1>3. ASSUME NEW x \in Executors, NEW r \in Requests, Claim(x, r)
      PROVE  Others(x) /\ Concludes(x)
  <2>1. /\ exec[x].pc = "idle" /\ exec'[x].pc = "authorize" /\ exec'[x].req = r
        /\ Others(x)
    BY <1>0, <1>3, BeginFacts DEF Claim
  <2>2. journal'[r.op].request = r
    BY <1>0, <1>3, TypeParts, RequestAssumption
       DEF Claim, Begin, BeginNew, BeginAgain, Row
  <2> QED BY <2>1, <2>2 DEF Concludes
<1>4. ASSUME NEW x \in Executors, Step(x)
      PROVE  Others(x) /\ Concludes(x)
  <2>1. ASSUME Return(x) PROVE Others(x) /\ Concludes(x)
    BY <1>0, <2>1, ReturnFacts DEF Concludes
  <2>2. ASSUME exec[x].pc # "idle",
               NEW pc \in Phases \ {"store", "commit", "finish"}, NEW v, NEW s,
               Goto(x, pc, v) \/ Read(x, pc, s)
        PROVE  Others(x) /\ Concludes(x)
    <3>1. exec'[x].pc = pc /\ exec'[x].req = exec[x].req /\ Others(x)
      BY <1>0, <2>2, GotoFacts, ReadFacts
    <3> QED BY <2>2, <3>1 DEF Concludes
  <2>3. ASSUME exec[x].pc # "idle",
               NEW v \in {"denied", "failed"}, Goto(x, "finish", v)
        PROVE  Others(x) /\ Concludes(x)
    BY <1>0, <2>3, GotoFacts DEF Concludes
  <2>4. ASSUME exec[x].pc # "idle", Goto(x, "finish", "attempt_failed"),
               Retryable(marker'[Attempt(x)])
        PROVE  Others(x) /\ Concludes(x)
    BY <1>0, <2>4, GotoFacts DEF Concludes
  <2>0. ASSUME exec[x].pc # "idle", Goto(x, "store", "none"),
               marker'[Attempt(x)].phase = "terminal"
        PROVE  Others(x) /\ Concludes(x)
    BY <1>0, <2>0, GotoFacts DEF Concludes
  <2> USE VocabularyAssumption, RunVocabulary
  <2>5. CASE AuthorizeActor(x) \/ DenyActor(x) \/ RecordFailure(x) \/ Finish(x)
    BY <2>1, <2>2, <2>3, <2>5
       DEF AuthorizeActor, Authorize, Record, DenyActor, Deny, RecordFailure, RecordAlways,
           Finish
  <2>6. CASE Validate(x) \/ Prepare(x) \/ Origin(x) \/ Observe(x)
    <3>1. \/ Return(x)
          \/ \E pc \in {"fail", "observe", "prepare", "origin", "claim"} : Goto(x, pc, "none")
          \/ /\ Goto(x, "store", "none") /\ UNCHANGED marker
             /\ marker[Attempt(x)].phase = "terminal"
      BY <2>6 DEF Validate, Prepare, Origin, Observe, Refuse, Leave, Pass, runVars
    <3>2. exec[x].pc # "idle"
      BY <2>6 DEF Validate, Prepare, Origin, Observe
    <3> QED BY <2>0, <2>1, <2>2, <3>1, <3>2
  <2>7. CASE ClaimMarker(x)
    <3>1. exec[x].pc # "idle" /\ Attempt(x) \in Attempts
      BY <2>7, RequestFields DEF ClaimMarker
    <3>2. marker[Attempt(x)].phase = "terminal" /\ marker[Attempt(x)].outcome # "ok"
          => Retryable(marker[Attempt(x)])
      BY <3>1 DEF AttemptsFit, MarkersFit, MarkerFits, Tells, Retryable
    <3>3. \/ Return(x)
          \/ \E pc \in {"write", "fail"} : Goto(x, pc, "none")
          \/ /\ Goto(x, "store", "none") /\ UNCHANGED marker
             /\ marker[Attempt(x)].phase = "terminal"
          \/ /\ Goto(x, "finish", "attempt_failed") /\ UNCHANGED marker
             /\ marker[Attempt(x)].phase = "terminal" /\ marker[Attempt(x)].outcome # "ok"
      BY <2>7 DEF ClaimMarker, Refuse, Leave, runVars
    <3> QED BY <2>0, <2>1, <2>2, <2>4, <3>1, <3>2, <3>3
  <2>8. CASE WriteClaim(x) \/ Launch(x) \/ Intend(x) \/ Popen(x) \/ MarkRunning(x)
    BY <2>1, <2>2, <2>8 DEF WriteClaim, Launch, Intend, Popen, MarkRunning, Leave, Pass
  <2>9. CASE EmitRunning(x) \/ Wait(x) \/ CollectArtifacts(x) \/ EmitTerminal(x)
    BY <2>1, <2>2, <2>9 DEF EmitRunning, Wait, CollectArtifacts, EmitTerminal
  <2>10. CASE WriteTerminal(x)
    <3>1. exec[x].pc = "settle" /\ exec[x].pc \in Owning
      BY <2>10 DEF WriteTerminal, Owning
    <3>2. Attempt(x) \in Attempts /\ exec[x].seen \in {"ok", "bad"}
      BY <3>1, OwnerFacts DEF Knows
    <3>3. /\ marker'[Attempt(x)].phase = "terminal"
          /\ marker'[Attempt(x)].outcome = exec[x].seen
      BY <1>0, <2>10, <3>2, SetMarkerFacts DEF WriteTerminal
    <3>4. \/ Goto(x, "store", "none")
          \/ Goto(x, "finish", "attempt_failed") /\ exec[x].seen = "bad"
      BY <2>10, <3>2 DEF WriteTerminal
    <3> QED BY <2>0, <2>4, <3>1, <3>3, <3>4 DEF Retryable
  <2>11. CASE StoreResult(x)
    <3>1. CASE Refuse(x)
      BY <2>2, <2>11, <3>1 DEF StoreResult, Refuse
    <3>2. CASE ~ Refuse(x)
      <4>1. Goto(x, "commit", "none") /\ Stored(x) /\ exec[x].pc # "idle"
        BY <2>11, <3>2 DEF StoreResult, Stored
      <4> QED BY <1>0, <4>1, GotoFacts DEF Concludes
    <3> QED BY <3>1, <3>2
  <2>12. CASE CommitResult(x)
    <3>1. PICK v \in {"collected", "already_collected"} : Goto(x, "finish", v)
      BY <2>12 DEF CommitResult
    <3>2. Committed(x) /\ exec[x].pc # "idle"
      BY <2>12 DEF CommitResult, CommitNow, Committed
    <3> QED BY <1>0, <3>1, <3>2, GotoFacts DEF Concludes
  <2> QED BY <1>4, <2>5, <2>6, <2>7, <2>8, <2>9, <2>10, <2>11, <2>12 DEF Step
<1>5. ASSUME NEW x \in Executors, Stop(x)
      PROVE  Others(x) /\ Concludes(x)
  BY <1>0, <1>5, ReturnFacts DEF Stop, Abandon, Concludes
<1>6. CASE Drift \/ \E a \in Attempts, state \in {"ok", "bad"} : Exit(a, state)
  BY <1>1, <1>6 DEF Drift, Exit, journalVars
<1> QED BY <1>2, <1>3, <1>4, <1>5, <1>6 DEF Next

(* The rows of the journal, and what the calls are about to write there.    *)
RowFits(o) ==
    /\ journal[o].state = "absent" =>
          journal[o].request = NoRequest /\ journal[o].result = "none"
    /\ journal[o].state # "absent" =>
          /\ journal[o].request \in Requests
          /\ Told(journal[o].result, journal[o].request.attempt)

Reporting(x) ==
    /\ exec[x].pc # "idle" => journal[Op(x)].request = exec[x].req
    /\ exec[x].pc \in {"store", "commit"} => marker[Attempt(x)].phase = "terminal"
    /\ exec[x].pc = "commit" => result = Attempt(x)
    /\ exec[x].pc = "finish" => Told(exec[x].verdict, Attempt(x))

(* Only an attempt that has ended has its result stored.                    *)
ResultSettled == result # NoAttempt => marker[result].phase = "terminal"

ReportsFit ==
    /\ \A o \in Operations : RowFits(o)
    /\ \A x \in Executors : Reporting(x)
    /\ ResultSettled

(* A row that is there keeps its request.                                   *)
LEMMA RequestStays ==
    ASSUME WellTyped, Next, NEW o \in Operations, journal[o].state # "absent"
    PROVE  journal'[o].request = journal[o].request
<1>1. journal \in [Operations -> Rows]
  BY TypeParts DEF WellTyped
<1>2. ASSUME NEW r \in Requests, Begun(r)
      PROVE  journal'[o].request = journal[o].request
  BY <1>1, <1>2 DEF Begun
<1>3. ASSUME NEW b \in Operations, NEW kind, Extended(b, kind)
      PROVE  journal'[o].request = journal[o].request
  BY <1>1, <1>3 DEF Extended, Row
<1>4. ASSUME NEW x \in Executors, Ending(x)
      PROVE  journal'[o].request = journal[o].request
  BY <1>1, <1>4 DEF Ending, FinishOperation, Row
<1> QED BY <1>2, <1>3, <1>4, JournalStep, RequestFields

LEMMA ReportsStep ==
    ASSUME WellTyped, AttemptsFit, ReportsFit, [Next]_vars
    PROVE  ReportsFit'
<1>1. CASE Next
  <2>1. journal \in [Operations -> Rows]
    BY TypeParts DEF WellTyped
  <2>2. ASSUME NEW o \in Operations PROVE RowFits(o)'
    <3>1. RowFits(o)
      BY DEF ReportsFit
    <3>2. CASE journal'[o] = journal[o]
      <4>1. journal[o].state # "absent" => journal[o].request.attempt \in Attempts
        BY <3>1, RunRequestAssumption DEF RowFits
      <4> QED BY <1>1, <3>1, <3>2, <4>1, ToldStays DEF RowFits, Told, Retryable
    <3>3. ASSUME NEW r \in Requests, Begun(r) PROVE RowFits(o)'
      <4>1. journal'[o] = journal[o] \/ journal'[o] = Row("running", r, <<"operation_started">>, "none")
        BY <2>1, <3>3 DEF Begun
      <4> QED BY <3>2, <4>1 DEF RowFits, Row, Told
    <3>4. ASSUME NEW x \in Executors, NEW kind \in Kinds,
                 exec[x].pc # "idle", Extended(Op(x), kind)
          PROVE  RowFits(o)'
      <4>1. \/ journal'[o] = journal[o]
            \/ /\ journal[o].state = "running"
               /\ journal'[o].state = "running"
               /\ journal'[o].request = journal[o].request
               /\ journal'[o].result = journal[o].result
        BY <2>1, <3>4 DEF Extended, Row, Running
      <4>2. journal[o].state = "running" =>
               /\ journal[o].request \in Requests
               /\ Told(journal[o].result, journal[o].request.attempt)'
        BY <1>1, <3>1, ToldStays, RunRequestAssumption, <4>1 DEF RowFits, Told, Retryable
      <4> QED BY <3>2, <4>1, <4>2 DEF RowFits, Told, Retryable
    <3>5. ASSUME NEW x \in Executors, Ending(x) PROVE RowFits(o)'
      <4>1. /\ exec[x].pc = "finish" /\ exec[x].req \in Requests
            /\ Attempt(x) \in Attempts /\ Op(x) \in Operations
        BY <3>5, RequestFields DEF Ending
      <4>2. /\ journal[Op(x)].request = exec[x].req
            /\ Told(exec[x].verdict, Attempt(x))
        BY <4>1 DEF ReportsFit, Reporting
      <4>3. Told(exec[x].verdict, Attempt(x)) => 
               /\ exec[x].verdict \in {"collected", "already_collected"} =>
                     result' = Attempt(x) /\ committed'
               /\ exec[x].verdict = "attempt_failed" => Retryable(marker'[Attempt(x)])
        BY <1>1, <4>1, ToldStays DEF Told, Retryable
      <4>4. \/ journal'[o] = journal[o]
            \/ /\ o = Op(x)
               /\ journal'[o].state = "terminal"
               /\ journal'[o].request = exec[x].req
               /\ journal'[o].result = exec[x].verdict
        BY <2>1, <3>5, <4>1, <4>2 DEF Ending, FinishOperation, Row
      <4> QED BY <3>2, <4>1, <4>2, <4>3, <4>4 DEF RowFits, Told, Attempt, Retryable
    <3>6. \/ UNCHANGED journal
          \/ \E r \in Requests : Begun(r)
          \/ \E x \in Executors : \E kind \in Kinds :
                exec[x].pc # "idle" /\ Extended(Op(x), kind)
          \/ \E x \in Executors : Ending(x)
      BY <1>1, JournalStep
    <3> QED BY <3>2, <3>3, <3>4, <3>5, <3>6
  <2>3. ASSUME NEW x \in Executors PROVE Reporting(x)'
    <3>1. Concludes(x) /\ Reporting(x)
      BY <1>1, ConcludesStep DEF ReportsFit
    <3>2. exec[x].pc # "idle" =>
             /\ exec[x].req \in Requests /\ Attempt(x) \in Attempts
             /\ journal'[Op(x)].request = exec[x].req
      <4>1. ASSUME exec[x].pc # "idle" PROVE journal[Op(x)].state # "absent"
        BY <3>1, <4>1, RequestFields, NoRequestAssumption DEF ReportsFit, Reporting, RowFits
      <4> QED BY <1>1, <3>1, <4>1, RequestFields, RequestStays DEF Reporting
    <3>3. CASE exec'[x] = exec[x]
      <4>1. exec[x].pc = "commit" => result' = result
        BY <1>1, <3>1, <3>2, EffectsStep, NoAttemptAssumption
           DEF Reporting, Effects, Stored, Committed, Writable
      <4>2. exec[x].pc = "finish" =>
               /\ exec[x].verdict \in {"collected", "already_collected"} =>
                     result' = Attempt(x) /\ committed'
               /\ exec[x].verdict = "attempt_failed" => Retryable(marker'[Attempt(x)])
        BY <1>1, <3>1, <3>2, ToldStays DEF Reporting, Told, Retryable
      <4>3. exec[x].pc \in {"store", "commit"} => marker'[Attempt(x)].phase = "terminal"
        BY <1>1, <3>1, <3>2, TerminalIsFinal DEF Reporting
      <4> QED BY <3>1, <3>2, <3>3, <4>1, <4>2, <4>3
              DEF Reporting, Op, Attempt, Told, Retryable
    <3>4. CASE exec'[x].pc = "idle"
      BY <3>4 DEF Reporting
    <3>5. CASE exec[x].pc = "idle" /\ exec'[x] # exec[x] /\ exec'[x].pc # "idle"
      BY <3>1, <3>5 DEF Concludes, Reporting, Op
    <3>6. CASE /\ exec[x].pc # "idle"
               /\ exec'[x].req = exec[x].req
               /\ exec'[x].pc = "store" => marker'[Attempt(x)].phase = "terminal"
               /\ exec'[x].pc = "commit" => Stored(x)
               /\ exec'[x].pc = "finish" =>
                     \/ exec'[x].verdict \in {"denied", "failed"}
                     \/ /\ exec'[x].verdict = "attempt_failed"
                        /\ Retryable(marker'[Attempt(x)])
                     \/ /\ exec'[x].verdict \in {"collected", "already_collected"}
                        /\ Committed(x)
      <4>1. Stored(x) => marker'[Attempt(x)].phase = "terminal"
        BY <1>1, <3>1, <3>2, TerminalIsFinal DEF Stored, Reporting
      <4> QED BY <3>1, <3>2, <3>6, <4>1
         DEF Reporting, Op, Attempt, Told, Stored, Committed, Retryable
    <3> QED BY <3>1, <3>3, <3>4, <3>5, <3>6 DEF Concludes
  <2>4. ResultSettled'
    <3>1. ASSUME NEW x \in Executors, Stored(x) PROVE marker'[result'].phase = "terminal"
      BY <1>1, <3>1, RequestFields, TerminalIsFinal DEF Stored, ReportsFit, Reporting
    <3>2. result \in Attempts \cup {NoAttempt}
      BY TypeParts DEF WellTyped
    <3>3. ResultSettled
      BY DEF ReportsFit
    <3>4. CASE UNCHANGED result
      BY <1>1, <3>2, <3>3, <3>4, TerminalIsFinal DEF ResultSettled
    <3> QED BY <1>1, <3>1, <3>4, EffectsStep DEF Effects, Committed, ResultSettled
  <2> QED BY <2>2, <2>3, <2>4 DEF ReportsFit
<1>2. CASE UNCHANGED vars
  BY <1>2 DEF vars, journalVars, runVars, ReportsFit, RowFits, Reporting, ResultSettled, Told,
              Op, Attempt, Retryable
<1> QED BY <1>1, <1>2

-----------------------------------------------------------------------------
(* The inductive invariant, and what follows from it.                       *)
RunInv == WellTyped /\ AttemptsFit /\ ReportsFit

LEMMA RunInvInit == Init => RunInv
<1> SUFFICES ASSUME Init PROVE RunInv
  OBVIOUS
<1>1. WellTyped /\ AttemptsFit
  BY AttemptsInit
<1>2. ReportsFit
  BY DEF Init, JournalInit, NoRow, NoCall, Call, ReportsFit, RowFits, Reporting,
         ResultSettled
<1> QED BY <1>1, <1>2 DEF RunInv

LEMMA RunInvStep == RunInv /\ [Next]_vars => RunInv'
BY TypeStep, AttemptsStep, ReportsStep DEF RunInv

LEMMA RunInvHolds == Spec => []RunInv
BY RunInvInit, RunInvStep, PTL DEF Spec

(* Every state of a Run is of the declared types.                           *)
THEOREM RunsAreTyped == Spec => []TypeOK
<1>1. RunInv => TypeOK
  BY DEF RunInv, WellTyped
<1> QED BY <1>1, RunInvHolds, PTL

(* A terminal marker is the truth about the process: the executor that      *)
(* writes it has created it, and has itself waited for the process.         *)
THEOREM TerminalMarkersAreTrue == Spec => []TerminalIsTrue
<1>1. RunInv => TerminalIsTrue
  BY DEF RunInv, AttemptsFit, MarkersFit, MarkerFits, Tells, TerminalIsTrue
<1> QED BY <1>1, RunInvHolds, PTL

(* A retry runs only when the attempt it retries has failed and its process *)
(* is gone.                                                                 *)
THEOREM RetriesFollowTheirOrigin == Spec => []RetryFollowsOrigin
<1>1. RunInv => RetryFollowsOrigin
  <2> SUFFICES ASSUME RunInv, NEW a \in Attempts, process[a] # "none",
                      marker[a].by.command = "run.retry"
               PROVE  LET b == marker[a].by.origin
                      IN  /\ marker[b].phase = "terminal" /\ marker[b].outcome = "bad"
                          /\ process[b] # "alive"
    BY DEF RetryFollowsOrigin
  <2>1. MarkerFits(a)
    BY DEF RunInv, AttemptsFit, MarkersFit
  <2>2. marker[a].by \in Requests /\ Retryable(marker[marker[a].by.origin])
    BY <2>1 DEF MarkerFits, Tells
  <2>3. marker[a].by.origin \in Attempts
    BY <2>2, RunRequestAssumption
  <2>4. MarkerFits(marker[a].by.origin)
    BY <2>3 DEF RunInv, AttemptsFit, MarkersFit
  <2> QED BY <2>2, <2>4 DEF MarkerFits, Tells, Retryable
<1> QED BY <1>1, RunInvHolds, PTL

(* What an operation reports of its attempt is stored.                      *)
THEOREM ReportsAreStored == Spec => []ReportIsStored
<1>1. RunInv => ReportIsStored
  BY DEF RunInv, ReportsFit, RowFits, Told, Retryable, ReportIsStored
<1> QED BY <1>1, RunInvHolds, PTL

(* The process of an attempt is started once.                               *)
THEOREM AttemptsStartOnce == Spec => StartsOnce
<1>1. RunInv /\ [Next]_vars =>
        [\A a \in Attempts :
            process'[a] = "alive" => process[a] \in {"none", "alive"}]_process
  <2> SUFFICES ASSUME RunInv, Next, NEW a \in Attempts, process'[a] = "alive"
               PROVE  process[a] \in {"none", "alive"}
    BY DEF vars, runVars
  <2>1. TypeOK /\ WellTyped /\ AttemptsFit /\ Effects
    BY EffectsStep DEF RunInv, WellTyped
  <2>2. ASSUME NEW b \in Attempts, NEW state \in {"ok", "bad"}, SetProcess(b, state)
        PROVE  process[a] = "alive"
    BY <2>1, <2>2, SetProcessFacts
  <2>3. ASSUME NEW x \in Executors, exec[x].pc = "popen", SetProcess(Attempt(x), "alive")
        PROVE  process[a] \in {"none", "alive"}
    <3>1. Attempt(x) \in Attempts /\ process[Attempt(x)] = "none"
      BY <2>1, <2>3, OwnerFacts DEF Knows, Owning
    <3> QED BY <2>1, <2>3, <3>1, SetProcessFacts
  <2> QED BY <2>1, <2>2, <2>3 DEF Effects
<1> QED BY <1>1, RunInvHolds, PTL DEF Spec, StartsOnce

-----------------------------------------------------------------------------
(* The reconcile pass over a Run.  What is observed goes on by the steps of  *)
(* LocalRun, and the pass changes nothing of it.                            *)

LEMMA ReconcileStepsAreRunSteps ==
    ASSUME [ReconcileNext]_allVars
    PROVE  [Next]_vars
<1>1. CASE RunMoves
  BY <1>1 DEF RunMoves
<1>2. CASE \E x \in Executors : FreezeSpec(x)
  BY <1>2 DEF FreezeSpec
<1>3. CASE \/ SessionStart \/ SaveRow \/ LaunchTmux \/ CallEnds
           \/ HostDeclares \/ HostFinishes \/ HostGone \/ PauseStops
           \/ AgentCommits \/ RemoveWorktree \/ LoseDatabase
  <2>1. \E s, c : SessionMoves(s, c)
    BY <1>3 DEF SessionStart, SaveRow, LaunchTmux, CallEnds, HostDeclares, HostFinishes,
                HostGone, PauseStops, AgentCommits, RemoveWorktree, LoseDatabase
  <2> QED BY <2>1 DEF SessionMoves
<1>4. CASE ReadBranches \/ ReadWorktrees \/ ReadTmux \/ ReadRefs \/ ListMarkers
             \/ EndMarkers \/ (\E a \in Attempts : ReadMarker(a)) \/ FailRuntime
  BY <1>4 DEF ReadBranches, ReadWorktrees, ReadTmux, ReadRefs, ListMarkers, EndMarkers,
              ReadMarker, FailRuntime, FailsIn, Sees
<1>5. CASE MakePlan \/ PlanWithoutRows
  BY <1>5 DEF MakePlan, PlanWithoutRows
<1>6. CASE UNCHANGED allVars
  BY <1>6 DEF allVars
<1> QED BY <1>1, <1>2, <1>3, <1>4, <1>5, <1>6 DEF ReconcileNext

(* The system that is observed is a system of LocalRun, so that whatever    *)
(* holds of a Run holds while it is observed.                               *)
THEOREM ObservedRunsAreRuns == ReconcileSpec => Spec
<1>1. ReconcileInit => Init
  BY DEF ReconcileInit
<1>2. [ReconcileNext]_allVars => [Next]_vars
  BY ReconcileStepsAreRunSteps
<1> QED BY <1>1, <1>2, PTL DEF ReconcileSpec, Spec

-----------------------------------------------------------------------------
(* Typing of what the pass has read, and of the Session beside it.          *)
EarlySteps == {"idle", "worktrees", "tmux", "refs", "list"}
LateSteps == {"markers", "runtime", "fail", "done"}
Components == {"git_branches", "git_worktrees", "tmux", "run_refs", "run_records",
               "run_markers", "runtime"}
Readings == [pc: EarlySteps \cup LateSteps, failed: SUBSET Components, branch: BOOLEAN,
             worktree: BOOLEAN, moved: BOOLEAN, tmux: BOOLEAN, late: BOOLEAN,
             frozen: {"none", "branch", "spec", "tagged"},
             result: Attempts \cup {NoAttempt}, stray: {"none", "own", "run"},
             there: SUBSET Attempts, listed: SUBSET Attempts,
             read: [Attempts -> {"unread", "open", "ok", "bad"}]]
SessionRows == [state: RowStates, native: BOOLEAN]
Observed == [row: SessionRows, kept: BOOLEAN, tree: {"none", "branch", "worktree"},
             tmux: {"none", "boot", "agent", "exit"}]

ObservedTyped ==
    /\ seen \in Readings
    /\ session \in Observed
    /\ call \in {"idle", "save", "rotate", "launch"}
    /\ scope \in Scopes
    /\ frozen \in {"none", "branch", "spec", "tagged"}
    /\ plan.outcome \in {"none", "clean", "plan_ready", "partial_observation"}

PastTmux == seen.pc \notin {"idle", "worktrees", "tmux"}

(* What a step does to the Session leaves the pass alone, or marks it.      *)
SessionStep ==
    /\ session' \in Observed
    /\ call' \in {"idle", "save", "rotate", "launch"}
    /\ \/ UNCHANGED seen
       \/ seen' = [seen EXCEPT !.late = PastTmux]
       \/ seen.pc = "worktrees" /\ seen' = [seen EXCEPT !.moved = TRUE]
    /\ session.tmux = "none" /\ session'.tmux # "none" =>
          seen' = [seen EXCEPT !.late = PastTmux]
    /\ UNCHANGED <<vars, scope, frozen, plan>>

LEMMA RowChanged ==
    ASSUME NEW s \in Observed, NEW state \in RowStates, NEW native \in BOOLEAN
    PROVE  WithRow(s, state, native) \in Observed /\ WithRow(s, state, native).tmux = s.tmux
BY DEF WithRow, Observed, SessionRows

LEMMA SessionStepTyped ==
    ASSUME ObservedTyped,
           \/ SessionStart \/ SaveRow \/ LaunchTmux \/ CallEnds
           \/ HostDeclares \/ HostFinishes \/ HostGone \/ PauseStops
           \/ AgentCommits \/ RemoveWorktree \/ LoseDatabase
    PROVE  SessionStep
<1>0. /\ session \in Observed /\ Native \in BOOLEAN
      /\ call \in {"idle", "save", "rotate", "launch"}
  BY DEF ObservedTyped, Native, Observed, SessionRows
<1>1. ASSUME NEW s \in Observed, NEW c \in {"idle", "save", "rotate", "launch"},
             SessionMoves(s, c),
             \/ UNCHANGED seen
             \/ seen' = [seen EXCEPT !.late = PastTmux]
             \/ seen.pc = "worktrees" /\ seen' = [seen EXCEPT !.moved = TRUE],
             session.tmux = "none" /\ s.tmux # "none" =>
                seen' = [seen EXCEPT !.late = PastTmux]
      PROVE  SessionStep
  BY <1>1 DEF SessionMoves, SessionStep
<1>2. CASE SessionStart
  <2>1. CASE SessionMoves([session EXCEPT !.tree = "worktree"], "save") /\ UNCHANGED seen
    <3>1. /\ [session EXCEPT !.tree = "worktree"] \in Observed
          /\ [session EXCEPT !.tree = "worktree"].tmux = session.tmux
      BY <1>0 DEF Observed
    <3> QED BY <1>1, <2>1, <3>1
  <2>2. CASE SessionMoves(WithRow(session, "lost", Native), "idle") /\ UNCHANGED seen
    <3>1. /\ WithRow(session, "lost", Native) \in Observed
          /\ WithRow(session, "lost", Native).tmux = session.tmux
      BY <1>0, RowChanged DEF RowStates
    <3> QED BY <1>1, <2>2, <3>1
  <2>3. CASE SessionMoves(session, "rotate") /\ UNCHANGED seen
    BY <1>0, <1>1, <2>3
  <2> QED BY <1>2, <2>1, <2>2, <2>3 DEF SessionStart
<1>3. CASE SaveRow
  <2>1. /\ WithRow(session, "preparing", Native) \in Observed
        /\ WithRow(session, "preparing", Native).tmux = session.tmux
    BY <1>0, RowChanged DEF RowStates
  <2> QED BY <1>1, <1>3, <2>1 DEF SaveRow
<1>4. CASE LaunchTmux
  <2>1. [session EXCEPT !.tmux = "boot"] \in Observed
    BY <1>0 DEF Observed
  <2> QED BY <1>1, <1>4, <2>1 DEF LaunchTmux, PastTmux
<1>5. CASE CallEnds
  BY <1>0, <1>1, <1>5 DEF CallEnds
<1>6. CASE HostDeclares
  <2>1. WithRow(session, "active", TRUE) \in Observed
    BY <1>0, RowChanged DEF RowStates
  <2>2. [WithRow(session, "active", TRUE) EXCEPT !.tmux = "agent"] \in Observed
    BY <2>1 DEF Observed
  <2> QED BY <1>0, <1>1, <1>6, <2>2 DEF HostDeclares
<1>7. CASE HostFinishes
  <2>1. PICK state \in {"idle", "stopped"} :
           SessionMoves([WithRow(session, state, Native) EXCEPT !.tmux = "exit"], call)
    BY <1>7 DEF HostFinishes
  <2>2. WithRow(session, state, Native) \in Observed
    BY <1>0, RowChanged DEF RowStates
  <2>3. [WithRow(session, state, Native) EXCEPT !.tmux = "exit"] \in Observed
    BY <2>2 DEF Observed
  <2> QED BY <1>0, <1>1, <1>7, <2>1, <2>3 DEF HostFinishes
<1>8. CASE HostGone
  <2>1. /\ [session EXCEPT !.tmux = "none"] \in Observed
        /\ [session EXCEPT !.tmux = "none"].tmux = "none"
    BY <1>0 DEF Observed
  <2> QED BY <1>0, <1>1, <1>8, <2>1 DEF HostGone
<1>9. CASE PauseStops
  <2>1. \E state \in {"stopping", "lost", "idle", "stopped"} :
           SessionMoves(WithRow(session, state, Native), call)
    BY <1>9 DEF PauseStops
  <2>2. \A state \in {"stopping", "lost", "idle", "stopped"} :
           /\ WithRow(session, state, Native) \in Observed
           /\ WithRow(session, state, Native).tmux = session.tmux
    BY <1>0, RowChanged DEF RowStates
  <2> QED BY <1>0, <1>1, <1>9, <2>1, <2>2 DEF PauseStops
<1>10. CASE AgentCommits
  BY <1>0, <1>1, <1>10 DEF AgentCommits
<1>11. CASE RemoveWorktree
  <2>1. /\ [session EXCEPT !.tree = "branch"] \in Observed
        /\ [session EXCEPT !.tree = "branch"].tmux = session.tmux
    BY <1>0 DEF Observed
  <2> QED BY <1>0, <1>1, <1>11, <2>1 DEF RemoveWorktree
<1>12. CASE LoseDatabase
  <2>1. /\ [session EXCEPT !.kept = FALSE, !.row = Absent] \in Observed
        /\ [session EXCEPT !.kept = FALSE, !.row = Absent].tmux = session.tmux
    BY <1>0 DEF Observed, SessionRows, Absent, RowStates
  <2> QED BY <1>0, <1>1, <1>12, <2>1 DEF LoseDatabase
<1> QED BY <1>2, <1>3, <1>4, <1>5, <1>6, <1>7, <1>8, <1>9, <1>10, <1>11, <1>12

-----------------------------------------------------------------------------
(* What the pass has read of the attempts is still so, and what it has not  *)
(* read it knows that it has not.                                           *)
PassFits ==
    /\ seen.listed \subseteq seen.there
    /\ seen.pc \in EarlySteps =>
          seen.listed = {} /\ seen.read = [a \in Attempts |-> "unread"]
    /\ seen.pc \in LateSteps =>
          \A a \in seen.there \ seen.listed :
              seen.stray \in {"own", "run"} \/ "run_markers" \in seen.failed
    /\ \A a \in Attempts : seen.read[a] \in {"ok", "bad"} => marker[a].phase = "terminal"
    /\ seen.pc \in {"runtime", "fail", "done"} =>
          \A a \in seen.listed : seen.read[a] # "unread"
    /\ seen.result # NoAttempt => committed /\ result = seen.result

(* The plan is the one that was made of what the pass has read.             *)
PlanFits ==
    Planned =>
        /\ \/ plan.run = "none"
           \/ plan.run = ClassifyRun /\ plan.attempt = AboutAttempt(plan.run)
        /\ plan.session \in {"clean", "recoverable", "lost"} => "tmux" \notin seen.failed

(* A tmux session that the pass has not seen came later.                    *)
LateFits ==
    PastTmux /\ ~ seen.tmux /\ "tmux" \notin seen.failed /\ session.tmux # "none" => seen.late

PassInv == ObservedTyped /\ PassFits /\ PlanFits /\ LateFits

(* A step of the Run, or of the freezing of its spec.                       *)
LEMMA PassFitsRun ==
    ASSUME RunInv, ObservedTyped, PassFits, [Next]_vars,
           seen'.there = seen.there, seen'.listed = seen.listed, seen'.read = seen.read,
           seen'.stray = seen.stray, seen'.failed = seen.failed,
           seen'.result = seen.result, seen'.pc = seen.pc
    PROVE  PassFits'
<1>1. ASSUME NEW a \in Attempts, marker[a].phase = "terminal"
      PROVE  marker'[a].phase = "terminal"
  BY <1>1, TerminalIsFinal DEF RunInv, vars, runVars
<1>2. seen.result # NoAttempt /\ committed /\ result = seen.result
      => committed' /\ result' = seen.result
  <2>1. seen.result \in Attempts \cup {NoAttempt}
    BY DEF ObservedTyped, Readings
  <2>2. CASE Next
    BY <2>1, <2>2, EffectsStep, NoAttemptAssumption
       DEF RunInv, Effects, Stored, Committed, Writable
  <2>3. CASE UNCHANGED vars
    BY <2>3 DEF vars, runVars
  <2> QED BY <2>2, <2>3
<1> QED BY <1>1, <1>2 DEF PassFits

LEMMA PlanFitsSame ==
    ASSUME PlanFits, UNCHANGED plan,
           seen'.listed = seen.listed, seen'.read = seen.read, seen'.stray = seen.stray,
           seen'.failed = seen.failed, seen'.result = seen.result,
           seen'.frozen = seen.frozen, seen'.pc = seen.pc
    PROVE  PlanFits'
<1>1. TerminalOnes' = TerminalOnes /\ OpenOnes' = OpenOnes
  BY DEF TerminalOnes, OpenOnes
<1>2. ClassifyRun' = ClassifyRun
  BY <1>1 DEF ClassifyRun, RunIncomplete, Incomplete, RunConflict, Ambiguous
<1>3. AboutAttempt(plan.run)' = AboutAttempt(plan.run)
  BY <1>1 DEF AboutAttempt
<1> QED BY <1>2, <1>3 DEF PlanFits, Planned

LEMMA RunningPass ==
    ASSUME RunInv, PassInv, RunMoves \/ (\E x \in Executors : FreezeSpec(x))
    PROVE  PassInv'
<1>1. UNCHANGED <<scope, session, call, seen, plan>> /\ [Next]_vars
  BY DEF RunMoves, FreezeSpec, observedVars
<1>2. ObservedTyped'
  BY <1>1 DEF PassInv, ObservedTyped, RunMoves, FreezeSpec, observedVars, NextFrozen
<1>3. PassFits' /\ PlanFits'
  BY <1>1, PassFitsRun, PlanFitsSame DEF PassInv
<1> QED BY <1>1, <1>2, <1>3 DEF PassInv, LateFits, PastTmux

LEMMA SessionPass ==
    ASSUME RunInv, PassInv, SessionStep
    PROVE  PassInv'
<1>1. /\ seen \in Readings /\ PastTmux \in BOOLEAN
      /\ seen' \in Readings
      /\ seen'.there = seen.there /\ seen'.listed = seen.listed /\ seen'.read = seen.read
      /\ seen'.stray = seen.stray /\ seen'.failed = seen.failed
      /\ seen'.result = seen.result /\ seen'.pc = seen.pc
      /\ seen'.frozen = seen.frozen /\ seen'.tmux = seen.tmux
  <2>1. seen \in Readings /\ PastTmux \in BOOLEAN
    BY DEF PassInv, ObservedTyped, PastTmux
  <2> USE <2>1
  <2>2. CASE UNCHANGED seen
    BY <2>2
  <2>3. CASE seen' = [seen EXCEPT !.late = PastTmux]
    <3>1. PICK b \in BOOLEAN : b = PastTmux
      OBVIOUS
    <3>2. seen' = [seen EXCEPT !.late = b]
      BY <2>3, <3>1
    <3> QED BY <3>2 DEF Readings
  <2>4. CASE seen' = [seen EXCEPT !.moved = TRUE]
    BY <2>4 DEF Readings
  <2> QED BY <2>2, <2>3, <2>4 DEF SessionStep
<1>2. ObservedTyped'
  BY <1>1 DEF SessionStep, PassInv, ObservedTyped
<1>3. PassFits' /\ PlanFits'
  BY <1>1, PassFitsRun, PlanFitsSame DEF PassInv, SessionStep
<1>4. LateFits'
  <2>1. PastTmux /\ seen' = [seen EXCEPT !.late = PastTmux] => seen'.late
    BY <1>1 DEF Readings
  <2>2. PastTmux' = PastTmux
    BY <1>1 DEF PastTmux
  <2>3. PastTmux => UNCHANGED seen \/ seen' = [seen EXCEPT !.late = PastTmux]
    BY DEF SessionStep, PastTmux
  <2> QED BY <1>1, <2>1, <2>2, <2>3 DEF SessionStep, PassInv, LateFits
<1> QED BY <1>2, <1>3, <1>4 DEF PassInv

(* The reads.  Each replaces what the pass has seen and nothing else.       *)
LEMMA SeesOnly ==
    ASSUME NEW s, Sees(s)
    PROVE  seen' = s /\ UNCHANGED <<vars, observedVars, plan>>
BY DEF Sees

LEMMA FailsOnly ==
    ASSUME NEW half, NEW component, NEW s, s.failed \in SUBSET Components,
           FailsIn(half, component, s)
    PROVE  /\ seen' = [s EXCEPT !.failed = s.failed \cup {component}]
           /\ UNCHANGED <<vars, observedVars, plan>>
BY DEF FailsIn, Sees

LEMMA Unplanned ==
    ASSUME ObservedTyped, seen' \in Readings, UNCHANGED <<vars, observedVars, plan>>,
           seen'.pc # "done"
    PROVE  ObservedTyped' /\ PlanFits'
BY DEF ObservedTyped, PlanFits, Planned, observedVars

(* Two records of readings that differ only in what has been asked for.     *)
SameAttempts(s, t) ==
    /\ t.pc = s.pc /\ t.late = s.late /\ t.result = s.result /\ t.stray = s.stray
    /\ t.there = s.there /\ t.listed = s.listed /\ t.read = s.read

LEMMA FailedAdded ==
    ASSUME NEW s \in Readings, NEW c \in Components
    PROVE  LET t == [s EXCEPT !.failed = s.failed \cup {c}]
           IN  /\ t \in Readings /\ SameAttempts(s, t)
               /\ t.failed = s.failed \cup {c} /\ t.tmux = s.tmux
BY DEF Readings, SameAttempts

LEMMA BranchSeen ==
    ASSUME NEW s \in Readings, NEW b \in BOOLEAN
    PROVE  LET t == [s EXCEPT !.branch = b]
           IN  t \in Readings /\ SameAttempts(s, t)
BY DEF Readings, SameAttempts

LEMMA WorktreeSeen ==
    ASSUME NEW s \in Readings, NEW b \in BOOLEAN
    PROVE  LET t == [s EXCEPT !.worktree = b]
           IN  t \in Readings /\ SameAttempts(s, t)
BY DEF Readings, SameAttempts

LEMMA TmuxSeen ==
    ASSUME NEW s \in Readings, NEW b \in BOOLEAN
    PROVE  LET t == [s EXCEPT !.tmux = b]
           IN  t \in Readings /\ SameAttempts(s, t) /\ t.tmux = b
BY DEF Readings, SameAttempts

LEMMA EarlyPass ==
    ASSUME RunInv, PassInv, ReadBranches \/ ReadWorktrees \/ ReadTmux \/ ReadRefs
    PROVE  PassInv'
<1>0. seen \in Readings /\ session \in Observed
  BY DEF PassInv, ObservedTyped
<1>1. CASE ReadBranches
  <2>1. NotSeen \in Readings
    BY DEF NotSeen, Readings, EarlySteps
  <2> DEFINE s == [NotSeen EXCEPT !.pc = "worktrees"]
  <2>2. /\ s \in Readings /\ s.pc = "worktrees" /\ s.failed = {} /\ s.listed = {}
        /\ s.there = {} /\ s.read = [a \in Attempts |-> "unread"]
        /\ s.result = NoAttempt
    BY <2>1 DEF NotSeen, Readings, EarlySteps
  <2>3. /\ UNCHANGED <<vars, observedVars, plan>>
        /\ \/ seen' = [s EXCEPT !.branch = session.tree # "none"]
           \/ seen' = [s EXCEPT !.failed = s.failed \cup {"git_branches"}]
    <3>1. s.failed \in SUBSET Components
      BY <2>2
    <3>2. CASE Sees([s EXCEPT !.branch = session.tree # "none"])
      BY <3>2, SeesOnly
    <3>3. CASE FailsIn("session", "git_branches", s)
      BY <3>1, <3>3, FailsOnly
    <3> HIDE DEF s
    <3> QED BY <1>1, <3>2, <3>3 DEF ReadBranches, s
  <2> HIDE DEF s
  <2>4. /\ seen' \in Readings /\ seen'.pc = "worktrees" /\ seen'.listed = {}
        /\ seen'.there = {} /\ seen'.read = [a \in Attempts |-> "unread"]
        /\ seen'.result = NoAttempt
    <3>1. CASE seen' = [s EXCEPT !.branch = session.tree # "none"]
      <4>1. PICK b \in BOOLEAN : b = (session.tree # "none")
        OBVIOUS
      <4>2. seen' = [s EXCEPT !.branch = b]
        BY <3>1, <4>1
      <4> QED BY <2>2, <4>2, BranchSeen DEF SameAttempts
    <3>2. CASE seen' = [s EXCEPT !.failed = s.failed \cup {"git_branches"}]
      BY <2>2, <3>2, FailedAdded DEF SameAttempts, Components
    <3> QED BY <2>3, <3>1, <3>2
  <2>5. ObservedTyped' /\ PlanFits'
    BY <2>3, <2>4, Unplanned DEF PassInv
  <2>6. PassFits' /\ LateFits'
    BY <2>4 DEF PassFits, LateFits, PastTmux, LateSteps
  <2> QED BY <2>5, <2>6 DEF PassInv
<1>2. CASE ReadWorktrees
  <2> DEFINE s == [seen EXCEPT !.pc = "tmux"]
  <2>1. /\ s \in Readings /\ s.pc = "tmux" /\ s.failed = seen.failed
        /\ s.listed = seen.listed /\ s.there = seen.there /\ s.read = seen.read
        /\ s.result = seen.result
    BY <1>0 DEF Readings, EarlySteps
  <2>2. /\ UNCHANGED <<vars, observedVars, plan>> /\ seen.pc = "worktrees"
        /\ \/ seen' = [s EXCEPT !.worktree = session.tree = "worktree"]
           \/ seen' = [s EXCEPT !.failed = s.failed \cup {"git_worktrees"}]
    <3>1. s.failed \in SUBSET Components
      BY <2>1 DEF Readings
    <3>2. CASE Sees([s EXCEPT !.worktree = session.tree = "worktree"])
      BY <1>2, <3>2, SeesOnly DEF ReadWorktrees
    <3>3. CASE FailsIn("session", "git_worktrees", s)
      BY <1>2, <3>1, <3>3, FailsOnly DEF ReadWorktrees
    <3> HIDE DEF s
    <3> QED BY <1>2, <3>2, <3>3 DEF ReadWorktrees, s
  <2> HIDE DEF s
  <2>3. /\ seen' \in Readings /\ seen'.pc = "tmux" /\ seen'.listed = seen.listed
        /\ seen'.there = seen.there /\ seen'.read = seen.read
        /\ seen'.result = seen.result
    <3>1. CASE seen' = [s EXCEPT !.worktree = session.tree = "worktree"]
      <4>1. PICK b \in BOOLEAN : b = (session.tree = "worktree")
        OBVIOUS
      <4>2. seen' = [s EXCEPT !.worktree = b]
        BY <3>1, <4>1
      <4> QED BY <2>1, <4>2, WorktreeSeen DEF SameAttempts
    <3>2. CASE seen' = [s EXCEPT !.failed = s.failed \cup {"git_worktrees"}]
      BY <2>1, <3>2, FailedAdded DEF SameAttempts, Components
    <3> QED BY <2>2, <3>1, <3>2
  <2>4. ObservedTyped' /\ PlanFits'
    BY <2>2, <2>3, Unplanned DEF PassInv
  <2>5. PassFits' /\ LateFits'
    BY <2>2, <2>3 DEF PassInv, PassFits, LateFits, PastTmux, EarlySteps, LateSteps, vars, runVars
  <2> QED BY <2>4, <2>5 DEF PassInv
<1>3. CASE ReadTmux
  <2> DEFINE s == [seen EXCEPT !.pc = "refs"]
  <2>1. /\ s \in Readings /\ s.pc = "refs" /\ s.failed = seen.failed
        /\ s.listed = seen.listed /\ s.there = seen.there /\ s.read = seen.read
        /\ s.result = seen.result
    BY <1>0 DEF Readings, EarlySteps
  <2>2. /\ UNCHANGED <<vars, observedVars, plan>> /\ seen.pc = "tmux"
        /\ \/ seen' = [s EXCEPT !.tmux = session.tmux # "none"]
           \/ seen' = [s EXCEPT !.failed = s.failed \cup {"tmux"}]
    <3>1. s.failed \in SUBSET Components
      BY <2>1 DEF Readings
    <3> QED BY <1>3, <3>1, FailsOnly, SeesOnly DEF ReadTmux
  <2> HIDE DEF s
  <2>3. /\ seen' \in Readings /\ seen'.pc = "refs" /\ seen'.listed = seen.listed
        /\ seen'.there = seen.there /\ seen'.read = seen.read
        /\ seen'.result = seen.result
        /\ ~ seen'.tmux /\ "tmux" \notin seen'.failed => session.tmux = "none"
    <3>1. CASE seen' = [s EXCEPT !.tmux = session.tmux # "none"]
      <4>1. PICK b \in BOOLEAN : b = (session.tmux # "none")
        OBVIOUS
      <4>2. seen' = [s EXCEPT !.tmux = b]
        BY <3>1, <4>1
      <4>3. seen' \in Readings /\ SameAttempts(s, seen') /\ seen'.tmux = b
        BY <2>1, <4>2, TmuxSeen
      <4> QED BY <2>1, <4>1, <4>3 DEF SameAttempts
    <3>2. CASE seen' = [s EXCEPT !.failed = s.failed \cup {"tmux"}]
      BY <2>1, <3>2, FailedAdded DEF SameAttempts, Components
    <3> QED BY <2>2, <3>1, <3>2
  <2>4. ObservedTyped' /\ PlanFits'
    BY <2>2, <2>3, Unplanned DEF PassInv
  <2>5. PassFits' /\ LateFits'
    BY <2>2, <2>3 DEF PassInv, PassFits, LateFits, PastTmux, EarlySteps, LateSteps, vars, runVars,
                      observedVars
  <2> QED BY <2>4, <2>5 DEF PassInv
<1>4. CASE ReadRefs
  <2> DEFINE s == [seen EXCEPT !.pc = "list"]
             t == [s EXCEPT !.frozen = frozen,
                            !.result = IF committed THEN result ELSE NoAttempt]
  <2>0. frozen \in {"none", "branch", "spec", "tagged"} /\ result \in Attempts \cup {NoAttempt}
    BY TypeParts DEF PassInv, ObservedTyped, RunInv, WellTyped
  <2>1. /\ s \in Readings /\ s.pc = "list" /\ s.failed = seen.failed
        /\ s.listed = seen.listed /\ s.there = seen.there /\ s.read = seen.read
        /\ s.result = seen.result /\ s.tmux = seen.tmux /\ s.late = seen.late
    BY <1>0 DEF Readings, EarlySteps
  <2>2. /\ t \in Readings /\ t.pc = "list" /\ t.failed = seen.failed
        /\ t.listed = seen.listed /\ t.there = seen.there /\ t.read = seen.read
        /\ t.tmux = seen.tmux /\ t.late = seen.late
        /\ t.result = IF committed THEN result ELSE NoAttempt
    <3>1. PICK r \in Attempts \cup {NoAttempt} : r = IF committed THEN result ELSE NoAttempt
      BY <2>0
    <3>2. t = [s EXCEPT !.frozen = frozen, !.result = r]
      BY <3>1
    <3> HIDE DEF s, t
    <3>3. t \in Readings
      BY <2>0, <2>1, <3>2 DEF Readings
    <3>4. /\ t.pc = "list" /\ t.failed = seen.failed
          /\ t.listed = seen.listed /\ t.there = seen.there /\ t.read = seen.read
      BY <2>1, <3>2 DEF Readings
    <3>5. t.tmux = seen.tmux /\ t.late = seen.late /\ t.result = r
      BY <2>1, <3>2 DEF Readings
    <3> QED BY <3>1, <3>3, <3>4, <3>5
  <2>3. /\ UNCHANGED <<vars, observedVars, plan>> /\ seen.pc = "refs"
        /\ \/ seen' = t
           \/ seen' = [s EXCEPT !.failed = s.failed \cup {"run_refs"}]
           \/ seen' = [t EXCEPT !.failed = t.failed \cup {"run_records"}]
    <3>1. s.failed \in SUBSET Components /\ t.failed \in SUBSET Components
      BY <2>1, <2>2 DEF Readings
    <3> QED BY <1>4, <3>1, FailsOnly, SeesOnly DEF ReadRefs
  <2> HIDE DEF s, t
  <2>4. /\ seen' \in Readings /\ seen'.pc = "list" /\ seen'.listed = seen.listed
        /\ seen'.there = seen.there /\ seen'.read = seen.read
        /\ seen'.tmux = seen.tmux /\ seen'.late = seen.late
        /\ seen.failed \subseteq seen'.failed
        /\ \/ seen'.result = seen.result
           \/ seen'.result = IF committed THEN result ELSE NoAttempt
    <3>1. CASE seen' = [s EXCEPT !.failed = s.failed \cup {"run_refs"}]
      BY <2>1, <3>1, FailedAdded DEF SameAttempts, Components
    <3>2. CASE seen' = [t EXCEPT !.failed = t.failed \cup {"run_records"}]
      BY <2>2, <3>2, FailedAdded DEF SameAttempts, Components
    <3> QED BY <2>1, <2>2, <2>3, <3>1, <3>2
  <2>5. ObservedTyped' /\ PlanFits'
    BY <2>3, <2>4, Unplanned DEF PassInv
  <2>6. PassFits'
    BY <2>3, <2>4 DEF PassInv, PassFits, EarlySteps, LateSteps, vars, runVars
  <2>7. LateFits'
    BY <2>3, <2>4 DEF PassInv, LateFits, PastTmux, observedVars
  <2> QED BY <2>5, <2>6, <2>7 DEF PassInv
<1> QED BY <1>1, <1>2, <1>3, <1>4

LEMMA MarkersPass ==
    ASSUME RunInv, PassInv,
           ListMarkers \/ EndMarkers \/ (\E a \in Attempts : ReadMarker(a)) \/ FailRuntime
    PROVE  PassInv'
<1>0. seen \in Readings /\ Marked \subseteq Attempts
  BY DEF PassInv, ObservedTyped, Marked
<1>1. CASE ListMarkers
  <2>0. seen.pc = "list"
    BY <1>1 DEF ListMarkers
  <2> DEFINE s == [seen EXCEPT !.there = Marked]
             f == [s EXCEPT !.pc = "runtime"]
  <2>1. /\ s \in Readings /\ f \in Readings
        /\ f.pc = "runtime" /\ f.failed = seen.failed /\ f.there = Marked
        /\ f.listed = seen.listed /\ f.read = seen.read /\ f.result = seen.result
        /\ f.tmux = seen.tmux /\ f.late = seen.late
        /\ seen.pc = "list" /\ seen.listed = {}
    BY <1>0, <2>0 DEF Readings, EarlySteps, LateSteps, PassInv, PassFits
  <2>2. /\ UNCHANGED <<vars, observedVars, plan>>
        /\ \/ \E stray \in {"none", "own", "run"} :
                 seen' = [s EXCEPT !.pc = "markers", !.listed = Marked, !.stray = stray]
           \/ seen' = [f EXCEPT !.failed = f.failed \cup {"run_markers"}]
    <3>1. f.failed \in SUBSET Components
      BY <2>1 DEF Readings
    <3> QED BY <1>1, <3>1, FailsOnly, SeesOnly DEF ListMarkers
  <2>3. ASSUME NEW stray \in {"none", "own", "run"},
               seen' = [s EXCEPT !.pc = "markers", !.listed = Marked, !.stray = stray]
        PROVE  /\ seen' \in Readings /\ seen'.pc = "markers" /\ seen'.there = Marked
               /\ seen'.listed = Marked /\ seen'.read = seen.read
               /\ seen'.result = seen.result /\ seen'.tmux = seen.tmux
               /\ seen'.late = seen.late /\ seen'.failed = seen.failed
    BY <1>0, <2>1, <2>3 DEF Readings, LateSteps
  <2> HIDE DEF s, f
  <2>4. /\ seen' \in Readings /\ seen'.there = Marked
        /\ seen'.read = seen.read /\ seen'.result = seen.result
        /\ seen'.tmux = seen.tmux /\ seen'.late = seen.late
        /\ seen.failed \subseteq seen'.failed
        /\ \/ seen'.pc = "markers" /\ seen'.listed = Marked
           \/ /\ seen'.pc = "runtime" /\ seen'.listed = {}
              /\ "run_markers" \in seen'.failed
    <3>1. CASE seen' = [f EXCEPT !.failed = f.failed \cup {"run_markers"}]
      <4>1. f \in Readings /\ "run_markers" \in Components
        BY <2>1 DEF Components
      <4>2. /\ seen' \in Readings /\ SameAttempts(f, seen')
            /\ seen'.failed = f.failed \cup {"run_markers"} /\ seen'.tmux = f.tmux
        BY <3>1, <4>1, FailedAdded
      <4> QED BY <2>1, <4>2 DEF SameAttempts
    <3> QED BY <2>2, <2>3, <3>1
  <2>5. ObservedTyped' /\ PlanFits'
    BY <2>2, <2>4, Unplanned DEF PassInv
  <2>6. PassFits'
    BY <2>1, <2>2, <2>4 DEF PassInv, PassFits, EarlySteps, LateSteps, vars, runVars
  <2>7. LateFits'
    BY <2>0, <2>2, <2>4 DEF PassInv, LateFits, PastTmux, observedVars
  <2> QED BY <2>5, <2>6, <2>7 DEF PassInv
<1>2. CASE EndMarkers
  <2>0. seen.pc = "markers"
    BY <1>2 DEF EndMarkers
  <2> DEFINE unread == {a \in seen.listed : seen.read[a] = "unread"}
             s == [seen EXCEPT !.pc = "runtime"]
             f == [s EXCEPT !.listed = s.listed \ unread]
  <2>1. /\ s \in Readings /\ f \in Readings
        /\ s.pc = "runtime" /\ s.failed = seen.failed /\ s.there = seen.there
        /\ s.listed = seen.listed /\ s.read = seen.read /\ s.result = seen.result
        /\ s.tmux = seen.tmux /\ s.late = seen.late /\ s.stray = seen.stray
        /\ f.pc = "runtime" /\ f.failed = seen.failed /\ f.there = seen.there
        /\ f.listed = seen.listed \ unread /\ f.read = seen.read /\ f.result = seen.result
        /\ f.tmux = seen.tmux /\ f.late = seen.late /\ f.stray = seen.stray
    BY <1>0 DEF Readings, LateSteps
  <2>2. /\ UNCHANGED <<vars, observedVars, plan>>
        /\ \/ unread = {} /\ seen' = s
           \/ seen' = [f EXCEPT !.failed = f.failed \cup {"run_markers"}]
    <3>1. f.failed \in SUBSET Components
      BY <2>1 DEF Readings
    <3> QED BY <1>2, <3>1, FailsOnly, SeesOnly DEF EndMarkers
  <2>3. \A a \in seen.listed : seen.read[a] = "unread" <=> a \in unread
    OBVIOUS
  <2> HIDE DEF s, f, unread
  <2>4. /\ seen' \in Readings /\ seen'.pc = "runtime" /\ seen'.there = seen.there
        /\ seen'.listed = seen.listed \ unread
        /\ seen'.read = seen.read /\ seen'.result = seen.result
        /\ seen'.tmux = seen.tmux /\ seen'.late = seen.late /\ seen'.stray = seen.stray
        /\ seen.failed \subseteq seen'.failed
        /\ unread = {} \/ "run_markers" \in seen'.failed
    <3>1. CASE seen' = [f EXCEPT !.failed = f.failed \cup {"run_markers"}]
      <4>1. f \in Readings /\ "run_markers" \in Components
        BY <2>1 DEF Components
      <4>2. /\ seen' \in Readings /\ SameAttempts(f, seen')
            /\ seen'.failed = f.failed \cup {"run_markers"} /\ seen'.tmux = f.tmux
        BY <3>1, <4>1, FailedAdded
      <4> QED BY <2>1, <4>2 DEF SameAttempts
    <3>2. CASE unread = {} /\ seen' = s
      BY <2>1, <3>2
    <3> QED BY <2>2, <3>1, <3>2
  <2>5. ObservedTyped' /\ PlanFits'
    BY <2>2, <2>4, Unplanned DEF PassInv
  <2>6. PassFits'
    BY <2>0, <2>2, <2>3, <2>4 DEF PassInv, PassFits, EarlySteps, LateSteps, vars, runVars
  <2>7. LateFits'
    BY <2>0, <2>2, <2>4 DEF PassInv, LateFits, PastTmux, observedVars
  <2> QED BY <2>5, <2>6, <2>7 DEF PassInv
<1>3. ASSUME NEW a \in Attempts, ReadMarker(a)
      PROVE  PassInv'
  <2> DEFINE m == marker[a]
             u == [seen EXCEPT !.listed = @ \ {a},
                               !.stray = IF @ = "run" THEN @ ELSE "own"]
             w == [seen EXCEPT !.read[a] = IF m.phase = "terminal" THEN m.outcome ELSE "open"]
  <2>0. seen.pc = "markers" /\ a \in seen.listed
    BY <1>3 DEF ReadMarker
  <2>1. m.phase = "terminal" => m.outcome \in {"ok", "bad"}
    BY DEF RunInv, AttemptsFit, MarkersFit, MarkerFits, Tells
  <2>2. /\ u \in Readings
        /\ u.pc = seen.pc /\ u.failed = seen.failed /\ u.there = seen.there
        /\ u.listed = seen.listed \ {a} /\ u.read = seen.read /\ u.result = seen.result
        /\ u.tmux = seen.tmux /\ u.late = seen.late /\ u.stray \in {"run", "own"}
    BY <1>0 DEF Readings
  <2>3. /\ w \in Readings
        /\ w.pc = seen.pc /\ w.failed = seen.failed /\ w.there = seen.there
        /\ w.listed = seen.listed /\ w.stray = seen.stray /\ w.result = seen.result
        /\ w.tmux = seen.tmux /\ w.late = seen.late
        /\ w.read[a] \in {"ok", "bad"} => m.phase = "terminal"
        /\ \A b \in Attempts \ {a} : w.read[b] = seen.read[b]
    BY <1>0, <2>1 DEF Readings
  <2>4. (seen' = u \/ seen' = w) /\ UNCHANGED <<vars, observedVars, plan>>
    BY <1>3 DEF ReadMarker, Sees
  <2> HIDE DEF u, w
  <2>5. ObservedTyped' /\ PlanFits'
    BY <2>0, <2>2, <2>3, <2>4, Unplanned DEF PassInv
  <2>6. PassFits'
    <3>1. UNCHANGED <<marker, result, committed>>
      BY <2>4 DEF vars, runVars
    <3>2. CASE seen' = u
      BY <2>0, <2>2, <3>1, <3>2 DEF PassInv, PassFits, EarlySteps, LateSteps
    <3>3. CASE seen' = w
      BY <2>0, <2>3, <3>1, <3>3 DEF PassInv, PassFits, EarlySteps, LateSteps
    <3> QED BY <2>4, <3>2, <3>3
  <2>7. LateFits'
    BY <2>0, <2>2, <2>3, <2>4 DEF PassInv, LateFits, PastTmux, observedVars
  <2> QED BY <2>5, <2>6, <2>7 DEF PassInv
<1>4. CASE FailRuntime
  <2>0. seen.pc = "runtime"
    BY <1>4 DEF FailRuntime
  <2> DEFINE s == [seen EXCEPT !.pc = "fail"]
  <2>1. /\ s \in Readings
        /\ s.pc = "fail" /\ s.failed = seen.failed /\ s.there = seen.there
        /\ s.listed = seen.listed /\ s.read = seen.read /\ s.result = seen.result
        /\ s.tmux = seen.tmux /\ s.late = seen.late /\ s.stray = seen.stray
    BY <1>0 DEF Readings, LateSteps
  <2>2. /\ UNCHANGED <<vars, observedVars, plan>>
        /\ seen' = [s EXCEPT !.failed = s.failed \cup {"runtime"}]
    <3>1. s.failed \in SUBSET Components
      BY <2>1 DEF Readings
    <3> QED BY <1>4, <3>1, FailsOnly DEF FailRuntime
  <2> HIDE DEF s
  <2>3. /\ seen' \in Readings /\ seen'.pc = "fail" /\ seen'.there = seen.there
        /\ seen'.listed = seen.listed /\ seen'.stray = seen.stray
        /\ seen'.read = seen.read /\ seen'.result = seen.result
        /\ seen'.tmux = seen.tmux /\ seen'.late = seen.late
        /\ seen.failed \subseteq seen'.failed
    BY <2>1, <2>2, FailedAdded DEF SameAttempts, Components
  <2>4. ObservedTyped' /\ PlanFits'
    BY <2>2, <2>3, Unplanned DEF PassInv
  <2>5. PassFits'
    BY <2>0, <2>2, <2>3 DEF PassInv, PassFits, EarlySteps, LateSteps, vars, runVars
  <2>6. LateFits'
    BY <2>0, <2>2, <2>3 DEF PassInv, LateFits, PastTmux, observedVars
  <2> QED BY <2>4, <2>5, <2>6 DEF PassInv
<1> QED BY <1>1, <1>2, <1>3, <1>4

LEMMA PlanningPass ==
    ASSUME RunInv, PassInv, MakePlan \/ PlanWithoutRows
    PROVE  PassInv'
<1>0. /\ seen.pc \in {"runtime", "fail"}
      /\ seen' = [seen EXCEPT !.pc = "done"]
      /\ UNCHANGED <<vars, observedVars>>
  BY DEF MakePlan, PlanWithoutRows
<1>1. /\ seen \in Readings /\ seen' \in Readings
      /\ seen'.pc = "done" /\ seen'.failed = seen.failed /\ seen'.there = seen.there
      /\ seen'.listed = seen.listed /\ seen'.read = seen.read /\ seen'.result = seen.result
      /\ seen'.tmux = seen.tmux /\ seen'.late = seen.late /\ seen'.stray = seen.stray
      /\ seen'.frozen = seen.frozen
  BY <1>0 DEF PassInv, ObservedTyped, Readings, LateSteps
<1>2. PassFits' /\ LateFits'
  BY <1>0, <1>1 DEF PassInv, PassFits, LateFits, PastTmux, EarlySteps, LateSteps, vars, runVars,
                    observedVars
<1>3. \A run, classification, available :
         Outcome(run, classification, available) \in {"clean", "plan_ready", "partial_observation"}
  BY DEF Outcome
<1>4. \A row : ClassifySession(row) \in {"clean", "recoverable", "lost"} =>
         "tmux" \notin seen.failed
  BY DEF ClassifySession, SessionIncomplete, Incomplete
<1>5. ObservedTyped' /\ PlanFits'
  <2>1. CASE MakePlan
    <3>1. /\ plan'.run = ClassifyRun
          /\ plan'.attempt = AboutAttempt(ClassifyRun)
          /\ plan'.session = ClassifySession(session.row)
          /\ \E available : plan'.outcome =
                Outcome(ClassifyRun, ClassifySession(session.row), available)
      BY <2>1 DEF MakePlan
    <3>2. TerminalOnes' = TerminalOnes /\ OpenOnes' = OpenOnes
      BY <1>1 DEF TerminalOnes, OpenOnes
    <3>3. ClassifyRun' = ClassifyRun
      BY <1>1, <3>2 DEF ClassifyRun, RunIncomplete, Incomplete, RunConflict, Ambiguous
    <3>4. AboutAttempt(ClassifyRun)' = AboutAttempt(ClassifyRun)
      BY <1>1, <3>2, <3>3 DEF AboutAttempt
    <3>5. PlanFits'
      BY <1>1, <1>4, <3>1, <3>3, <3>4 DEF PlanFits
    <3>6. ObservedTyped'
      BY <1>0, <1>1, <1>3, <3>1 DEF PassInv, ObservedTyped, observedVars
    <3> QED BY <3>5, <3>6
  <2>2. CASE PlanWithoutRows
    <3>1. /\ plan'.run = "none"
          /\ plan'.session = ClassifySession(Absent)
          /\ \E classification, available :
                plan'.outcome = Outcome("none", classification, available)
      BY <2>2 DEF PlanWithoutRows, NoPlan
    <3>2. PlanFits'
      BY <1>1, <1>4, <3>1 DEF PlanFits
    <3>3. ObservedTyped'
      BY <1>0, <1>1, <1>3, <3>1 DEF PassInv, ObservedTyped, observedVars
    <3> QED BY <3>2, <3>3
  <2> QED BY <2>1, <2>2
<1> QED BY <1>2, <1>5 DEF PassInv

LEMMA PassStep ==
    ASSUME RunInv, PassInv, [ReconcileNext]_allVars
    PROVE  PassInv'
<1>1. CASE UNCHANGED allVars
  <2>1. UNCHANGED <<vars, scope, frozen, session, call, seen, plan>>
    BY <1>1 DEF allVars, observedVars
  <2>2. PassFits' /\ PlanFits'
    BY <2>1, PassFitsRun, PlanFitsSame DEF PassInv
  <2> QED BY <2>1, <2>2 DEF PassInv, ObservedTyped, LateFits, PastTmux
<1>2. CASE \/ SessionStart \/ SaveRow \/ LaunchTmux \/ CallEnds
           \/ HostDeclares \/ HostFinishes \/ HostGone \/ PauseStops
           \/ AgentCommits \/ RemoveWorktree \/ LoseDatabase
  BY <1>2, SessionStepTyped, SessionPass DEF PassInv
<1> QED BY <1>1, <1>2, RunningPass, EarlyPass, MarkersPass, PlanningPass DEF ReconcileNext

LEMMA PassInit == ReconcileInit => PassInv
<1> SUFFICES ASSUME ReconcileInit PROVE PassInv
  OBVIOUS
<1>1. NotSeen \in Readings
  BY DEF NotSeen, Readings, EarlySteps
<1>2. NoSession \in Observed
  BY DEF NoSession, Observed, SessionRows, Absent, RowStates
<1>3. ObservedTyped
  BY <1>1, <1>2 DEF ReconcileInit, ObservedTyped, NoPlan
<1>4. PassFits /\ PlanFits /\ LateFits
  BY DEF ReconcileInit, NotSeen, PassFits, PlanFits, LateFits, Planned, PastTmux, EarlySteps,
         LateSteps
<1> QED BY <1>3, <1>4 DEF PassInv

LEMMA PassInvHolds == ReconcileSpec => [](RunInv /\ PassInv)
<1>1. RunInv /\ PassInv /\ [ReconcileNext]_allVars => PassInv'
  BY PassStep
<1> QED BY <1>1, PassInit, ObservedRunsAreRuns, RunInvHolds, PTL DEF ReconcileSpec

-----------------------------------------------------------------------------
(* What the plan says, from what the pass has read.                          *)
Settled == plan.run \in {"frozen", "collected", "collect_candidate"}

(* A plan that takes the Run for settled was made of a whole reading.        *)
LEMMA SettledMeans ==
    ASSUME PassInv, Planned, Settled
    PROVE  /\ plan.attempt = AboutAttempt(plan.run)
           /\ OpenOnes = {}
           /\ ~ RunConflict
           /\ plan.run = "collected" => seen.result # NoAttempt
           /\ plan.run = "collect_candidate" => seen.result = NoAttempt /\ TerminalOnes # {}
           /\ plan.run = "frozen" => TerminalOnes = {}
           /\ \A a \in seen.there : a \in TerminalOnes \/ seen.stray = "own"
<1>1. plan.run = ClassifyRun /\ plan.attempt = AboutAttempt(plan.run)
  BY DEF PassInv, PlanFits, Settled
<1>2. /\ ~ RunIncomplete /\ ~ RunConflict /\ OpenOnes = {}
      /\ plan.run = "collected" => seen.result # NoAttempt
      /\ plan.run = "collect_candidate" => seen.result = NoAttempt /\ TerminalOnes # {}
      /\ plan.run = "frozen" => TerminalOnes = {}
  BY <1>1 DEF ClassifyRun, Settled
<1>3. ASSUME NEW a \in seen.there
      PROVE  a \in TerminalOnes \/ seen.stray = "own"
  <2>1. a \in Attempts /\ seen.read[a] \in {"unread", "open", "ok", "bad"}
    BY <1>3 DEF PassInv, ObservedTyped, Readings
  <2>2. CASE a \in seen.listed
    <3>1. seen.read[a] \notin {"unread", "open"}
      BY <1>2, <2>2 DEF PassInv, PassFits, Planned, OpenOnes
    <3> QED BY <2>1, <2>2, <3>1 DEF TerminalOnes
  <2>3. CASE a \notin seen.listed
    <3>1. seen.stray \in {"own", "run"} \/ "run_markers" \in seen.failed
      BY <1>3, <2>3 DEF PassInv, PassFits, Planned, LateSteps
    <3> QED BY <1>2, <3>1 DEF RunIncomplete, Incomplete, RunConflict
  <2> QED BY <2>2, <2>3
<1> QED BY <1>1, <1>2, <1>3

(* What the pass has taken for terminal is terminal now.                     *)
LEMMA TerminalOnesAre ==
    ASSUME PassInv, NEW a \in TerminalOnes
    PROVE  a \in seen.there /\ a \in Attempts /\ marker[a].phase = "terminal"
BY DEF PassInv, ObservedTyped, Readings, PassFits, TerminalOnes

(* Every state of the pass is of the declared types.                        *)
THEOREM PassesAreTyped == ReconcileSpec => []ReconcileTypeOK
<1>1. RunInv /\ PassInv => ReconcileTypeOK
  BY DEF RunInv, WellTyped, PassInv, PassFits, ObservedTyped, Readings, Observed, SessionRows,
         ReconcileTypeOK
<1> QED BY <1>1, PassInvHolds, PTL

(* A Run is settled in the plan only if the processes of its attempts have  *)
(* ended: an attempt that the pass has listed is terminal, whoever moved     *)
(* meanwhile, and one that it could not read the plan shows.                *)
THEOREM SettledRunsHaveEnded == ReconcileSpec => []SettledAttemptsEnded
<1>1. RunInv /\ PassInv => SettledAttemptsEnded
  <2> SUFFICES ASSUME RunInv, PassInv, Planned, Settled, NEW a \in seen.there,
                      process[a] = "alive"
               PROVE  seen.stray = "own"
    BY DEF SettledAttemptsEnded, Settled
  <2>1. CASE a \in TerminalOnes
    BY <2>1, TerminalOnesAre DEF RunInv, AttemptsFit, MarkersFit, MarkerFits, Tells
  <2> QED BY <2>1, SettledMeans
<1> QED BY <1>1, PassInvHolds, PTL

(* What the plan says of the result holds when the plan is read: a result   *)
(* that is committed stays, and an attempt that the pass knew of and whose   *)
(* result has been stored since is the one that the plan proposes.          *)
THEOREM AdviceIsStillRight == ReconcileSpec => []AdviceMatchesResult
<1>1. RunInv /\ PassInv => AdviceMatchesResult
  <2> SUFFICES ASSUME RunInv, PassInv PROVE AdviceMatchesResult
    OBVIOUS
  <2>1. ASSUME Planned, plan.run = "collected"
        PROVE  committed /\ result = plan.attempt /\ marker[result].phase = "terminal"
    <3>1. seen.result # NoAttempt /\ plan.attempt = seen.result
      BY <2>1, SettledMeans DEF Settled, AboutAttempt
    <3> QED BY <3>1 DEF PassInv, PassFits, RunInv, ReportsFit, ResultSettled
  <2>2. ASSUME Planned, plan.run = "collect_candidate"
        PROVE  /\ marker[plan.attempt].phase = "terminal"
               /\ {result} \cap seen.there \subseteq {plan.attempt} \/ seen.stray = "own"
    <3>1. plan.attempt = CHOOSE a \in TerminalOnes : TRUE
      BY <2>2, SettledMeans DEF Settled, AboutAttempt
    <3>2. /\ plan.attempt \in TerminalOnes
          /\ \A a, b \in TerminalOnes : a = b
          /\ \A a \in seen.there : a \in TerminalOnes \/ seen.stray = "own"
      BY <2>2, <3>1, SettledMeans DEF Settled, RunConflict, Ambiguous
    <3> QED BY <3>2, TerminalOnesAre
  <2>3. ASSUME Planned, plan.run = "frozen"
        PROVE  {result} \cap seen.there = {} \/ seen.stray = "own"
    BY <2>3, SettledMeans DEF Settled
  <2> QED BY <2>1, <2>2, <2>3 DEF AdviceMatchesResult
<1> QED BY <1>1, PassInvHolds, PTL

(* A Session that the plan takes for gone was gone when tmux was asked: an  *)
(* Agent that is there now was launched later.                              *)
THEOREM GoneSessionsWereGone == ReconcileSpec => []GoneWasGone
<1>1. PassInv => GoneWasGone
  BY DEF PassInv, PlanFits, LateFits, PastTmux, Planned, GoneWasGone
<1> QED BY <1>1, PassInvHolds, PTL

=============================================================================
