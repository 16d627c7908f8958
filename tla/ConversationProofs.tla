-------------------------- MODULE ConversationProofs --------------------------
(***************************************************************************)
(* Proofs about the loop from an accepted result to its conversation: the    *)
(* bridge of PostMerge, the ingress and the threads that join them.          *)
(*                                                                         *)
(* The bridge reads GitHub at many moments; the argument is that each thing  *)
(* it has read is one that does not change any more (the head of a merged    *)
(* pull request, the head of a run, an attempt that has passed, what the     *)
(* clone has), so that what was so when it was read is so when the event is  *)
(* queued.  The ingress relies on its receipts in the same way: a receipt,   *)
(* once written, is never another one.                                      *)
(***************************************************************************)
EXTENDS AcceptedLoop, SequenceTheorems, FiniteSetTheorems, TLAPS

PullRecords == [head: Heads, merge: Merges, runs: Seq(Runs)]
Places == {"idle", "runs", "jobs", "artifacts", "download", "accept", "look", "new", "old"}
Readings == [pc: Places, event: Events]

-----------------------------------------------------------------------------
(* The runs of a pull request.                                               *)
LEMMA RunReplaced ==
    ASSUME NEW runs \in Seq(Runs), NEW i \in DOMAIN runs, NEW r \in Runs
    PROVE  /\ [runs EXCEPT ![i] = r] \in Seq(Runs)
           /\ Len([runs EXCEPT ![i] = r]) = Len(runs)
           /\ DOMAIN [runs EXCEPT ![i] = r] = DOMAIN runs
           /\ [runs EXCEPT ![i] = r][i] = r
           /\ \A j \in DOMAIN runs \ {i} : [runs EXCEPT ![i] = r][j] = runs[j]
<1>1. i \in 1 .. Len(runs)
  OBVIOUS
<1> QED BY <1>1, ExceptSeq

LEMMA RunAppended ==
    ASSUME NEW runs \in Seq(Runs), NEW r \in Runs
    PROVE  /\ Append(runs, r) \in Seq(Runs)
           /\ Len(Append(runs, r)) = Len(runs) + 1
           /\ DOMAIN Append(runs, r) = DOMAIN runs \cup {Len(runs) + 1}
           /\ Append(runs, r)[Len(runs) + 1] = r
           /\ \A j \in DOMAIN runs : Append(runs, r)[j] = runs[j]
OBVIOUS

LEMMA RunTyped ==
    ASSUME NEW head \in Heads
    PROVE  Run(head) \in Runs /\ Run(head).state = "running"
BY BridgeBoundsAssumption DEF Run, Runs, Attempts

LEMMA HubFields ==
    ASSUME BridgeTypeOK, NEW p \in Pulls
    PROVE  /\ hub[p] \in PullRecords
           /\ hub[p].head \in Heads /\ hub[p].merge \in Merges
           /\ hub[p].runs \in Seq(Runs)
           /\ \A i \in DOMAIN hub[p].runs :
                 /\ hub[p].runs[i] \in Runs
                 /\ hub[p].runs[i].head \in Heads
                 /\ hub[p].runs[i].attempt \in Attempts
                 /\ hub[p].runs[i].passed \subseteq Attempts
                 /\ hub[p].runs[i].uploads \subseteq Attempts
<1>1. hub[p] \in PullRecords
  BY DEF BridgeTypeOK, PullRecords
<1>2. /\ hub[p].head \in Heads /\ hub[p].merge \in Merges
      /\ hub[p].runs \in Seq(Runs)
  BY <1>1 DEF PullRecords
<1>3. ASSUME NEW i \in DOMAIN hub[p].runs
      PROVE  hub[p].runs[i] \in Runs
  BY <1>2, <1>3
<1> QED BY <1>1, <1>2, <1>3 DEF Runs

-----------------------------------------------------------------------------
(* What a step at GitHub does to one pull request.                           *)

(* A run is replaced by one of the same head; what has passed stays passed,  *)
(* and the latest attempt of a run that has passed is one that has passed.   *)
RunMoves(old, new) ==
    /\ new \in Runs
    /\ new.head = old.head
    /\ old.passed \subseteq new.passed
    /\ new.state = "passed" => new.attempt \in new.passed

PullMoves(old, new) ==
    \/ new = old
    \/ old.merge = "open" /\ new \in PullRecords /\ new.runs = old.runs
    \/ /\ new.head = old.head /\ new.merge = old.merge
       /\ Len(old.runs) < MaxRuns
       /\ new \in PullRecords
       /\ new.runs = Append(old.runs, Run(old.head))
    \/ /\ new.head = old.head /\ new.merge = old.merge
       /\ new \in PullRecords
       /\ \E i \in DOMAIN old.runs : \E r :
             RunMoves(old.runs[i], r) /\ new.runs = [old.runs EXCEPT ![i] = r]

HubMoves ==
    /\ hub' \in [Pulls -> PullRecords]
    /\ \A p \in Pulls : PullMoves(hub[p], hub'[p])

LEMMA PullPut ==
    ASSUME BridgeTypeOK, NEW p \in Pulls, NEW new \in PullRecords, PullMoves(hub[p], new),
           hub' = [hub EXCEPT ![p] = new]
    PROVE  HubMoves
<1>1. hub \in [Pulls -> PullRecords]
  BY DEF BridgeTypeOK, PullRecords
<1>2. hub' \in [Pulls -> PullRecords] /\ hub'[p] = new
  BY <1>1
<1>3. ASSUME NEW q \in Pulls \ {p} PROVE PullMoves(hub[q], hub'[q])
  <2>1. hub'[q] = hub[q]
    BY <1>1
  <2> QED BY <2>1 DEF PullMoves
<1> QED BY <1>2, <1>3 DEF HubMoves

LEMMA RunPut ==
    ASSUME BridgeTypeOK, NEW p \in Pulls, NEW i \in DOMAIN hub[p].runs, NEW r \in Runs,
           RunMoves(hub[p].runs[i], r),
           hub' = [hub EXCEPT ![p] = [hub[p] EXCEPT !.runs = [hub[p].runs EXCEPT ![i] = r]]]
    PROVE  HubMoves
<1>1. PICK runs : runs = [hub[p].runs EXCEPT ![i] = r]
  OBVIOUS
<1>2. runs \in Seq(Runs)
  BY <1>1, HubFields, RunReplaced
<1>3. PICK new : new = [hub[p] EXCEPT !.runs = runs]
  OBVIOUS
<1>4. /\ new \in PullRecords /\ new.runs = runs
      /\ new.head = hub[p].head /\ new.merge = hub[p].merge
  BY <1>2, <1>3, HubFields DEF PullRecords
<1>5. PullMoves(hub[p], new)
  BY <1>1, <1>4 DEF PullMoves
<1> QED BY <1>1, <1>3, <1>4, <1>5, PullPut

LEMMA HubStepMoves ==
    ASSUME BridgeTypeOK, HubStep
    PROVE  HubMoves
<1>0. hub \in [Pulls -> PullRecords]
  BY DEF BridgeTypeOK, PullRecords
<1>1. ASSUME NEW p \in Pulls, Push(p) PROVE HubMoves
  <2>1. PICK new : new = [hub[p] EXCEPT !.head = hub[p].head + 1]
    OBVIOUS
  <2>2. /\ hub[p].head + 1 \in Heads /\ hub[p].merge = "open"
        /\ hub' = [hub EXCEPT ![p] = new]
    BY <1>1, <2>1 DEF Push, Merged
  <2>3. new \in PullRecords /\ new.runs = hub[p].runs
    BY <2>1, <2>2, HubFields DEF PullRecords
  <2> QED BY <2>2, <2>3, PullPut DEF PullMoves
<1>2. ASSUME NEW p \in Pulls, StartRun(p) PROVE HubMoves
  <2>1. PICK runs : runs = Append(hub[p].runs, Run(hub[p].head))
    OBVIOUS
  <2>2. runs \in Seq(Runs)
    BY <2>1, HubFields, RunTyped, RunAppended
  <2>3. PICK new : new = [hub[p] EXCEPT !.runs = runs]
    OBVIOUS
  <2>4. /\ new \in PullRecords /\ new.runs = runs
        /\ new.head = hub[p].head /\ new.merge = hub[p].merge
    BY <2>2, <2>3, HubFields DEF PullRecords
  <2>5. hub' = [hub EXCEPT ![p] = new] /\ Len(hub[p].runs) < MaxRuns
    BY <1>2, <2>1, <2>3 DEF StartRun
  <2> QED BY <2>1, <2>4, <2>5, PullPut DEF PullMoves
<1>3. ASSUME NEW p \in Pulls, Merge(p) PROVE HubMoves
  <2>1. PICK how \in Merges \ {"open"} : hub' = [hub EXCEPT ![p].merge = how]
    BY <1>3 DEF Merge
  <2>2. PICK new : new = [hub[p] EXCEPT !.merge = how]
    OBVIOUS
  <2>3. new \in PullRecords /\ new.runs = hub[p].runs
    BY <2>2, HubFields DEF PullRecords
  <2>4. hub[p].merge = "open" /\ hub' = [hub EXCEPT ![p] = new]
    BY <1>3, <2>1, <2>2 DEF Merge, Merged
  <2> QED BY <2>3, <2>4, PullPut DEF PullMoves
<1>4. ASSUME NEW p \in Pulls, NEW i \in DOMAIN hub[p].runs,
             Upload(p, i) \/ EndAttempt(p, i) \/ Rerun(p, i)
      PROVE  HubMoves
  <2>1. PICK run : run = hub[p].runs[i]
    OBVIOUS
  <2>2. /\ run \in Runs /\ run.attempt \in Attempts
        /\ run.passed \subseteq Attempts /\ run.uploads \subseteq Attempts
    BY <2>1, HubFields
  <2>3. ASSUME NEW r \in Runs, RunMoves(run, r),
               hub' = [hub EXCEPT ![p].runs[i] = r]
        PROVE  HubMoves
    BY <2>1, <2>3, RunPut
  <2>4. CASE Upload(p, i)
    <3>1. PICK uploads \in SUBSET Attempts :
             /\ run.state = "running"
             /\ hub' = [hub EXCEPT ![p].runs[i].uploads = uploads]
      BY <2>1, <2>2, <2>4 DEF Upload
    <3>2. PICK r : r = [run EXCEPT !.uploads = uploads]
      OBVIOUS
    <3>3. r \in Runs /\ RunMoves(run, r)
      BY <2>2, <3>1, <3>2 DEF Runs, RunMoves
    <3>4. hub' = [hub EXCEPT ![p].runs[i] = r]
      BY <2>1, <3>1, <3>2
    <3> QED BY <2>3, <3>3, <3>4
  <2>5. CASE EndAttempt(p, i)
    <3>1. PICK r : r = IF run.attempt \in run.uploads
                       THEN [run EXCEPT !.state = "passed", !.passed = @ \cup {run.attempt}]
                       ELSE [run EXCEPT !.state = "failed"]
      OBVIOUS
    <3>2. r \in Runs /\ RunMoves(run, r)
      BY <2>2, <3>1 DEF Runs, RunMoves
    <3>3. hub' = [hub EXCEPT ![p].runs[i] = r]
      BY <2>1, <2>5, <3>1 DEF EndAttempt
    <3> QED BY <2>3, <3>2, <3>3
  <2>6. CASE Rerun(p, i)
    <3>1. PICK r : r = [run EXCEPT !.attempt = run.attempt + 1, !.state = "running"]
      OBVIOUS
    <3>2. run.attempt + 1 \in Attempts
      BY <2>1, <2>2, <2>6, BridgeBoundsAssumption DEF Rerun, Attempts
    <3>3. r \in Runs /\ RunMoves(run, r)
      BY <2>2, <3>1, <3>2 DEF Runs, RunMoves
    <3>4. hub' = [hub EXCEPT ![p].runs[i] = r]
      BY <2>1, <2>6, <3>1 DEF Rerun
    <3> QED BY <2>3, <3>3, <3>4
  <2> QED BY <1>4, <2>4, <2>5, <2>6
<1>5. CASE Fetch
  BY <1>0, <1>5 DEF Fetch, HubMoves, PullMoves
<1> QED BY <1>1, <1>2, <1>3, <1>4, <1>5 DEF HubStep

-----------------------------------------------------------------------------
(* What does not change of a pull request.                                   *)
RunsKept(old, new) ==
    /\ DOMAIN old.runs \subseteq DOMAIN new.runs
    /\ \A i \in DOMAIN old.runs : /\ new.runs[i].head = old.runs[i].head
                                 /\ old.runs[i].passed \subseteq new.runs[i].passed
PullKept(old, new) ==
    /\ old.merge # "open" => new.merge = old.merge /\ new.head = old.head
    /\ RunsKept(old, new)

LEMMA MovesKeep ==
    ASSUME NEW old \in PullRecords, NEW new, PullMoves(old, new)
    PROVE  PullKept(old, new)
<1>0. old.runs \in Seq(Runs)
  BY DEF PullRecords
<1>1. CASE new = old
  BY <1>1 DEF PullKept, RunsKept
<1>2. CASE old.merge = "open" /\ new.runs = old.runs
  BY <1>2 DEF PullKept, RunsKept
<1>3. CASE /\ new.head = old.head /\ new.merge = old.merge
           /\ old \in PullRecords /\ new.runs = Append(old.runs, Run(old.head))
  <2>1. Run(old.head) \in Runs
    BY <1>3, RunTyped DEF PullRecords
  <2>2. RunsKept(old, new)
    BY <1>0, <1>3, <2>1, RunAppended DEF RunsKept
  <2> QED BY <1>3, <2>2 DEF PullKept
<1>4. ASSUME new.head = old.head, new.merge = old.merge,
             NEW i \in DOMAIN old.runs, NEW r,
             RunMoves(old.runs[i], r), new.runs = [old.runs EXCEPT ![i] = r]
      PROVE  PullKept(old, new)
  <2>1. /\ DOMAIN new.runs = DOMAIN old.runs /\ new.runs[i] = r
        /\ \A j \in DOMAIN old.runs \ {i} : new.runs[j] = old.runs[j]
    BY <1>0, <1>4, RunReplaced DEF RunMoves
  <2>2. RunsKept(old, new)
    BY <1>4, <2>1 DEF RunsKept, RunMoves
  <2> QED BY <1>4, <2>2 DEF PullKept
<1> QED BY <1>1, <1>2, <1>3, <1>4 DEF PullMoves

(* The runs of a pull request are bounded, and a run that has passed has     *)
(* passed in its latest attempt.                                            *)
RunsFit(pull) ==
    /\ Len(pull.runs) <= MaxRuns
    /\ \A i \in DOMAIN pull.runs :
          pull.runs[i].state = "passed" => pull.runs[i].attempt \in pull.runs[i].passed

LEMMA MovesFit ==
    ASSUME NEW old \in PullRecords, NEW new, PullMoves(old, new), RunsFit(old)
    PROVE  RunsFit(new)
<1>0. old.runs \in Seq(Runs) /\ Len(old.runs) \in Nat
  BY DEF PullRecords
<1>1. CASE new.runs = old.runs
  BY <1>1 DEF RunsFit
<1>2. CASE Len(old.runs) < MaxRuns /\ new.runs = Append(old.runs, Run(old.head))
  <2>1. Run(old.head) \in Runs /\ Run(old.head).state = "running"
    BY RunTyped DEF PullRecords
  <2>2. /\ Len(new.runs) = Len(old.runs) + 1
        /\ DOMAIN new.runs = DOMAIN old.runs \cup {Len(old.runs) + 1}
        /\ new.runs[Len(old.runs) + 1] = Run(old.head)
        /\ \A j \in DOMAIN old.runs : new.runs[j] = old.runs[j]
    BY <1>0, <1>2, <2>1, RunAppended
  <2>3. Len(new.runs) <= MaxRuns
    BY <1>0, <1>2, <2>2, BridgeBoundsAssumption
  <2> QED BY <2>1, <2>2, <2>3 DEF RunsFit
<1>3. ASSUME NEW i \in DOMAIN old.runs, NEW r,
             RunMoves(old.runs[i], r), new.runs = [old.runs EXCEPT ![i] = r]
      PROVE  RunsFit(new)
  <2>1. /\ Len(new.runs) = Len(old.runs) /\ DOMAIN new.runs = DOMAIN old.runs
        /\ new.runs[i] = r
        /\ \A j \in DOMAIN old.runs \ {i} : new.runs[j] = old.runs[j]
    BY <1>0, <1>3, RunReplaced DEF RunMoves
  <2> QED BY <1>3, <2>1 DEF RunsFit, RunMoves
<1> QED BY <1>1, <1>2, <1>3 DEF PullMoves

-----------------------------------------------------------------------------
(* What a bridge has read by where it stands, and is still so.               *)
Attested(pc, e) ==
    LET run == hub[e.pull].runs[e.run]
    IN  /\ pc # "idle" => e.pull \in Pulls /\ Merged(e.pull)
        /\ pc \in {"jobs", "artifacts", "download"} => e.run # 0
        /\ pc # "idle" /\ e.run # 0 =>
              e.run \in DOMAIN hub[e.pull].runs /\ run.head = hub[e.pull].head
        /\ pc \in {"artifacts", "download", "accept", "look", "new", "old"} /\ e.run # 0 =>
              e.check \in run.passed
        /\ pc \in {"accept", "look", "new", "old"} =>
              e.pull \in Accepting /\ (e.run # 0 => e.artifact >= 1)
        /\ pc \in {"look", "new", "old"} => e.pull \in clone /\ Incorporated(e.pull)

HubFits == \A p \in Pulls : RunsFit(hub[p])
CloneFits == \A p \in clone : Merged(p)
BridgesFit == \A x \in Bridges : Attested(bridge[x].pc, bridge[x].event)
OutboxFits == outbox # NoEvent => Attested("new", outbox)
BridgeInv ==
    /\ BridgeTypeOK /\ HubFits /\ CloneFits /\ BridgesFit /\ OutboxFits /\ ReportedIsQueued

(* Attested of the same place and event after a step.                        *)
StillAttested(pc, e) ==
    LET run == hub'[e.pull].runs[e.run]
    IN  /\ pc # "idle" => e.pull \in Pulls /\ hub'[e.pull].merge # "open"
        /\ pc \in {"jobs", "artifacts", "download"} => e.run # 0
        /\ pc # "idle" /\ e.run # 0 =>
              e.run \in DOMAIN hub'[e.pull].runs /\ run.head = hub'[e.pull].head
        /\ pc \in {"artifacts", "download", "accept", "look", "new", "old"} /\ e.run # 0 =>
              e.check \in run.passed
        /\ pc \in {"accept", "look", "new", "old"} =>
              e.pull \in Accepting /\ (e.run # 0 => e.artifact >= 1)
        /\ pc \in {"look", "new", "old"} =>
              e.pull \in clone' /\ hub'[e.pull].merge \in {"merge commit", "fast-forward"}

LEMMA AttestedStays ==
    ASSUME BridgeTypeOK, HubStep, CloneFits, NEW pc, NEW e, Attested(pc, e)
    PROVE  StillAttested(pc, e)
<1>1. CASE pc = "idle"
  BY <1>1 DEF Attested, StillAttested
<1>2. CASE pc # "idle"
  <2>1. e.pull \in Pulls /\ hub[e.pull].merge # "open"
    BY <1>2 DEF Attested, Merged
  <2>2. PullKept(hub[e.pull], hub'[e.pull])
    BY <2>1, HubStepMoves, HubFields, MovesKeep DEF HubMoves
  <2>3. clone \subseteq clone'
    BY DEF HubStep, Push, StartRun, Merge, Upload, EndAttempt, Rerun, Fetch, CloneFits,
           BridgeTypeOK
  <2> QED BY <1>2, <2>1, <2>2, <2>3
          DEF Attested, StillAttested, PullKept, RunsKept, Incorporated
<1> QED BY <1>1, <1>2

LEMMA HubInvStep ==
    ASSUME BridgeInv, HubStep
    PROVE  BridgeInv'
<1>0. /\ BridgeTypeOK /\ HubFits /\ CloneFits /\ BridgesFit /\ OutboxFits /\ ReportedIsQueued
      /\ HubMoves
      /\ UNCHANGED bridgeVars
  BY HubStepMoves DEF BridgeInv, HubStep
<1>1. \A p \in Pulls : PullKept(hub[p], hub'[p]) /\ RunsFit(hub'[p])
  BY <1>0, HubFields, MovesKeep, MovesFit DEF HubMoves, HubFits
<1>2. clone' \subseteq Pulls /\ \A p \in clone' : hub'[p].merge # "open"
  <2>1. CASE UNCHANGED clone
    BY <1>0, <1>1, <2>1 DEF BridgeTypeOK, CloneFits, Merged, PullKept
  <2>2. CASE Fetch
    BY <2>2 DEF Fetch, Merged
  <2>3. UNCHANGED clone \/ Fetch
    BY DEF HubStep, Push, StartRun, Merge, Upload, EndAttempt, Rerun
  <2> QED BY <2>1, <2>2, <2>3
<1>3. BridgeTypeOK'
  <2>1. hub' \in [Pulls -> [head: Heads, merge: Merges, runs: Seq(Runs)]]
    <3>1. hub' \in [Pulls -> PullRecords]
      BY <1>0 DEF HubMoves
    <3> QED BY <3>1 DEF PullRecords
  <2>2. UNCHANGED <<outbox, bridge, told, reads>>
    BY <1>0 DEF bridgeVars
  <2>3. clone' \subseteq Pulls /\ BridgeTypeOK
    BY <1>0, <1>2
  <2> QED BY <2>1, <2>2, <2>3 DEF BridgeTypeOK
<1>4. HubFits' /\ CloneFits'
  BY <1>1, <1>2 DEF HubFits, RunsFit, CloneFits, Merged
<1>5. BridgesFit' /\ OutboxFits'
  <2>1. \A x \in Bridges : StillAttested(bridge[x].pc, bridge[x].event)
    BY <1>0, AttestedStays DEF BridgesFit
  <2>2. outbox # NoEvent => StillAttested("new", outbox)
    BY <1>0, AttestedStays DEF OutboxFits
  <2> QED BY <1>0, <2>1, <2>2
          DEF BridgesFit, OutboxFits, Attested, StillAttested, Merged, Incorporated, bridgeVars
<1>6. ReportedIsQueued'
  BY <1>0 DEF ReportedIsQueued, bridgeVars
<1> QED BY <1>3, <1>4, <1>5, <1>6 DEF BridgeInv

-----------------------------------------------------------------------------
(* The bridge.                                                               *)
LEMMA GoFits ==
    ASSUME BridgeInv, NEW x \in Bridges, NEW pc \in Places, NEW e \in Events,
           Attested(pc, e), Go(x, pc, e), UNCHANGED <<hubVars, outbox, told>>,
           reads' \in 0 .. MaxReads
    PROVE  BridgeInv'
<1>0. /\ BridgeTypeOK /\ HubFits /\ CloneFits /\ BridgesFit /\ OutboxFits /\ ReportedIsQueued
      /\ bridge \in [Bridges -> Readings]
  BY DEF BridgeInv, BridgeTypeOK, Places, Readings
<1>1. UNCHANGED <<hub, clone, outbox, told>>
  BY DEF hubVars
<1>2. Reading(pc, e) \in Readings
  BY DEF Reading, Readings
<1>3. /\ bridge' \in [Bridges -> Readings]
      /\ bridge'[x] = Reading(pc, e)
      /\ \A y \in Bridges \ {x} : bridge'[y] = bridge[y]
  BY <1>0, <1>2 DEF Go
<1>4. BridgeTypeOK'
  BY <1>0, <1>1, <1>3 DEF BridgeTypeOK, Readings, Places
<1>5. BridgesFit'
  <2>1. /\ \A y \in Bridges \ {x} : Attested(bridge'[y].pc, bridge'[y].event)
        /\ Attested(bridge'[x].pc, bridge'[x].event)
    BY <1>0, <1>3 DEF BridgesFit, Reading
  <2> QED BY <1>1, <2>1 DEF BridgesFit, Attested, Merged, Incorporated
<1>6. HubFits' /\ CloneFits' /\ OutboxFits' /\ ReportedIsQueued'
  BY <1>0, <1>1 DEF HubFits, RunsFit, CloneFits, OutboxFits, Attested, Merged, Incorporated,
                    ReportedIsQueued
<1> QED BY <1>4, <1>5, <1>6 DEF BridgeInv

LEMMA RejectFits ==
    ASSUME BridgeInv, NEW x \in Bridges, Reject(x), UNCHANGED <<hubVars, outbox, told>>,
           reads' \in 0 .. MaxReads
    PROVE  BridgeInv'
<1>1. Event(NoPull, 0, 0, 0) \in Events
  BY BridgeBoundsAssumption DEF Event, Events
<1>2. Attested("idle", Event(NoPull, 0, 0, 0)) /\ "idle" \in Places
  BY DEF Attested, Places
<1>3. Go(x, "idle", Event(NoPull, 0, 0, 0))
  BY DEF Reject, Go, Idle
<1> QED BY <1>1, <1>2, <1>3, GoFits

LEMMA ReadingFields ==
    ASSUME BridgeInv, NEW x \in Bridges
    PROVE  LET e == Seen(x)
           IN  /\ e \in Events /\ Attested(bridge[x].pc, e)
               /\ e.pull \in Pulls \cup {NoPull} /\ e.run \in 0 .. MaxRuns
               /\ e.check \in 0 .. MaxAttempts /\ e.artifact \in 0 .. MaxAttempts
               /\ e = Event(e.pull, e.run, e.check, e.artifact)
BY DEF BridgeInv, BridgeTypeOK, BridgesFit, Seen, Events, Event

LEMMA BridgeInvStep ==
    ASSUME BridgeInv, NEW x \in Bridges, BridgeStep(x)
    PROVE  BridgeInv'
<1> DEFINE e == Seen(x)
<1>0. /\ BridgeTypeOK /\ HubFits /\ CloneFits /\ BridgesFit /\ reads \in 0 .. MaxReads
      /\ e \in Events /\ Attested(bridge[x].pc, e)
      /\ MaxRuns \in Nat /\ MaxAttempts \in Nat /\ MaxReads \in Nat
  BY ReadingFields, BridgeBoundsAssumption DEF BridgeInv, BridgeTypeOK
<1>1. ASSUME Reject(x), KeepBooks PROVE BridgeInv'
  BY <1>0, <1>1, RejectFits DEF KeepBooks
<1>2. ASSUME NEW pc \in Places, NEW f \in Events, Attested(pc, f), Go(x, pc, f), KeepBooks
      PROVE  BridgeInv'
  BY <1>0, <1>2, GoFits DEF KeepBooks
<1>3. ASSUME NEW p \in Pulls, ReadPull(x, p) \/ EnqueueAccepted(x, p)
      PROVE  BridgeInv'
  <2>1. PICK pc \in {"runs", "accept"} :
           /\ Merged(p) /\ (pc = "accept" => p \in Accepting)
           /\ Go(x, pc, Event(p, 0, 0, 0))
           /\ UNCHANGED <<hubVars, outbox, told>>
           /\ reads' = reads + 1 /\ reads < MaxReads
    BY <1>3 DEF ReadPull, EnqueueAccepted, BoundArtifact
  <2>2. Event(p, 0, 0, 0) \in Events
    BY <1>0 DEF Event, Events
  <2>3. Attested(pc, Event(p, 0, 0, 0)) /\ pc \in Places
    BY <2>1 DEF Attested, Event, Places
  <2>4. reads' \in 0 .. MaxReads
    BY <1>0, <2>1
  <2> QED BY <2>1, <2>2, <2>3, <2>4, GoFits
<1>4. CASE ReadRuns(x)
  <2>1. PICK p : p = e.pull
    OBVIOUS
  <2>2. p \in Pulls /\ Merged(p) /\ KeepBooks
    BY <1>0, <1>4, <2>1 DEF ReadRuns, Attested
  <2>3. \/ Reject(x)
        \/ \E i \in DOMAIN hub[p].runs :
              hub[p].runs[i].head = hub[p].head /\ Go(x, "jobs", Event(p, i, 0, 0))
    BY <1>4, <2>1 DEF ReadRuns, Binds
  <2>4. ASSUME NEW i \in DOMAIN hub[p].runs, hub[p].runs[i].head = hub[p].head
        PROVE  /\ Event(p, i, 0, 0) \in Events
               /\ Attested("jobs", Event(p, i, 0, 0))
    <3>1. i \in 1 .. Len(hub[p].runs) /\ Len(hub[p].runs) <= MaxRuns
      BY <1>0, <2>2, <2>4, HubFields DEF HubFits, RunsFit
    <3>2. i \in 0 .. MaxRuns /\ i # 0
      BY <1>0, <3>1
    <3> QED BY <1>0, <2>2, <2>4, <3>2 DEF Event, Events, Attested
  <2>5. "jobs" \in Places
    BY DEF Places
  <2> QED BY <1>1, <1>2, <2>2, <2>3, <2>4, <2>5
<1>5. CASE ReadJobs(x)
  <2>1. PICK p, i : p = e.pull /\ i = e.run
    OBVIOUS
  <2>2. /\ p \in Pulls /\ Merged(p) /\ i # 0 /\ i \in 0 .. MaxRuns /\ KeepBooks
        /\ i \in DOMAIN hub[p].runs /\ hub[p].runs[i].head = hub[p].head
    BY <1>0, <1>5, <2>1, ReadingFields DEF ReadJobs, Attested
  <2>3. \/ Reject(x)
        \/ /\ hub[p].runs[i].state = "passed"
           /\ Go(x, "artifacts", Event(p, i, hub[p].runs[i].attempt, 0))
    BY <1>5, <2>1 DEF ReadJobs
  <2>4. PICK attempt : attempt = hub[p].runs[i].attempt
    OBVIOUS
  <2>5. ASSUME hub[p].runs[i].state = "passed"
        PROVE  /\ Event(p, i, attempt, 0) \in Events
               /\ Attested("artifacts", Event(p, i, attempt, 0))
    <3>1. attempt \in hub[p].runs[i].passed /\ attempt \in 1 .. MaxAttempts
      BY <1>0, <2>2, <2>4, <2>5, HubFields DEF HubFits, RunsFit, Attempts
    <3>2. attempt \in 0 .. MaxAttempts
      BY <1>0, <3>1
    <3> QED BY <1>0, <2>2, <3>1, <3>2 DEF Event, Events, Attested
  <2>6. "artifacts" \in Places
    BY DEF Places
  <2> QED BY <1>1, <1>2, <2>2, <2>3, <2>4, <2>5, <2>6
<1>6. CASE ReadArtifacts(x)
  <2>1. /\ bridge[x].pc = "artifacts" /\ KeepBooks
        /\ \/ Reject(x)
           \/ \E a \in hub[e.pull].runs[e.run].uploads :
                 Go(x, "download", [e EXCEPT !.artifact = a])
    BY <1>6 DEF ReadArtifacts
  <2>2. ASSUME NEW a \in hub[e.pull].runs[e.run].uploads
        PROVE  /\ [e EXCEPT !.artifact = a] \in Events
               /\ Attested("download", [e EXCEPT !.artifact = a])
    <3>1. e.pull \in Pulls /\ e.run \in DOMAIN hub[e.pull].runs
      BY <1>0, <2>1 DEF Attested
    <3>2. a \in 1 .. MaxAttempts
      BY <1>0, <2>2, <3>1, HubFields DEF Attempts
    <3>3. a \in 0 .. MaxAttempts
      BY <1>0, <3>2
    <3>4. /\ [e EXCEPT !.artifact = a] \in Events
          /\ [e EXCEPT !.artifact = a].pull = e.pull
          /\ [e EXCEPT !.artifact = a].run = e.run
          /\ [e EXCEPT !.artifact = a].check = e.check
      BY <1>0, <3>3 DEF Events
    <3> QED BY <1>0, <2>1, <3>4 DEF Attested
  <2>3. "download" \in Places
    BY DEF Places
  <2> QED BY <1>1, <1>2, <2>1, <2>2, <2>3
<1>7. CASE Download(x)
  <2>1. /\ bridge[x].pc = "download" /\ KeepBooks
        /\ \/ Reject(x)
           \/ /\ e.artifact \in hub[e.pull].runs[e.run].uploads
              /\ e.pull \in Accepting
              /\ Go(x, "accept", e)
    BY <1>7 DEF Download, BoundArtifact
  <2>2. ASSUME e.artifact \in hub[e.pull].runs[e.run].uploads, e.pull \in Accepting
        PROVE  Attested("accept", e)
    <3>1. e.pull \in Pulls /\ e.run \in DOMAIN hub[e.pull].runs
      BY <1>0, <2>1 DEF Attested
    <3>2. e.artifact \in 1 .. MaxAttempts
      BY <1>0, <2>2, <3>1, HubFields DEF Attempts
    <3>3. e.artifact >= 1
      BY <1>0, <3>2
    <3> QED BY <1>0, <2>1, <2>2, <3>3 DEF Attested
  <2>3. "accept" \in Places
    BY DEF Places
  <2> QED BY <1>0, <1>1, <1>2, <2>1, <2>2, <2>3
<1>8. CASE Accept(x)
  <2>1. /\ bridge[x].pc = "accept" /\ KeepBooks
        /\ \/ Reject(x)
           \/ e.pull \in clone /\ Incorporated(e.pull) /\ Go(x, "look", e)
    BY <1>8 DEF Accept
  <2>2. e.pull \in clone /\ Incorporated(e.pull) => Attested("look", e)
    BY <1>0, <2>1 DEF Attested
  <2>3. "look" \in Places
    BY DEF Places
  <2> QED BY <1>0, <1>1, <1>2, <2>1, <2>2, <2>3
<1>9. CASE Look(x)
  <2>1. PICK pc \in {"new", "old"} : Go(x, pc, e) /\ bridge[x].pc = "look" /\ KeepBooks
    BY <1>9 DEF Look
  <2>2. Attested(pc, e) /\ pc \in Places
    BY <1>0, <2>1 DEF Attested, Places
  <2> QED BY <1>0, <1>2, <2>1, <2>2
<1>10. CASE Enqueue(x)
  <2>1. /\ bridge[x].pc \in {"new", "old"} /\ Reject(x) /\ UNCHANGED <<hubVars, reads>>
        /\ \/ outbox \in {NoEvent, e} /\ outbox' = e /\ told' = told \cup {e}
           \/ UNCHANGED <<outbox, told>>
    BY <1>10 DEF Enqueue, Stored
  <2>2. CASE UNCHANGED <<outbox, told>>
    BY <1>0, <2>1, <2>2, RejectFits
  <2>3. CASE outbox \in {NoEvent, e} /\ outbox' = e /\ told' = told \cup {e}
    <3>0. bridge \in [Bridges -> Readings] /\ UNCHANGED <<hub, clone, reads>>
      BY <1>0, <2>1 DEF BridgeTypeOK, Places, Readings, hubVars
    <3>1. Idle \in Readings /\ Idle.pc = "idle"
      BY <1>0 DEF Idle, Reading, Readings, Event, Events, Places
    <3>2. /\ bridge' \in [Bridges -> Readings]
          /\ bridge'[x].pc = "idle"
          /\ \A y \in Bridges \ {x} : bridge'[y] = bridge[y]
      BY <2>1, <3>0, <3>1 DEF Reject
    <3>3. BridgeTypeOK'
      BY <1>0, <2>3, <3>0, <3>2 DEF BridgeTypeOK, Readings, Places
    <3>4. told \subseteq {e}
      BY <1>0, <2>3, NoEventAssumption DEF BridgeInv, ReportedIsQueued, BridgeTypeOK
    <3>5. ReportedIsQueued'
      BY <2>3, <3>4 DEF ReportedIsQueued
    <3>6. BridgesFit'
      <4> SUFFICES ASSUME NEW y \in Bridges
                   PROVE  Attested(bridge[y].pc, bridge[y].event)'
        BY DEF BridgesFit
      <4>1. CASE y = x
        BY <4>1, <3>2 DEF Attested
      <4>2. CASE y # x
        <5>1. bridge'[y] = bridge[y]
          BY <4>2, <3>2
        <5>2. Attested(bridge[y].pc, bridge[y].event)
          BY <1>0 DEF BridgesFit
        <5> QED BY <5>1, <5>2, <3>0 DEF Attested, Merged, Incorporated
      <4> QED BY <4>1, <4>2
    <3>7. Attested("new", e)
      BY <1>0, <2>1 DEF Attested
    <3>8. HubFits' /\ CloneFits' /\ OutboxFits'
      BY <1>0, <2>3, <3>0, <3>7 DEF HubFits, RunsFit, CloneFits, OutboxFits, Attested, Merged,
                                    Incorporated
    <3> QED BY <3>3, <3>5, <3>6, <3>8 DEF BridgeInv
  <2> QED BY <2>1, <2>2, <2>3
<1> QED BY <1>3, <1>4, <1>5, <1>6, <1>7, <1>8, <1>9, <1>10 DEF BridgeStep

LEMMA BridgeInvInit == BridgeInit => BridgeInv
<1> SUFFICES ASSUME BridgeInit PROVE BridgeInv
  OBVIOUS
<1>0. MaxRuns \in Nat /\ MaxAttempts \in Nat /\ MaxReads \in Nat
  BY BridgeBoundsAssumption
<1>1. Idle \in Readings /\ Idle.pc = "idle"
  BY <1>0 DEF Idle, Reading, Readings, Event, Events, Places
<1>2. [head |-> 1, merge |-> "open", runs |-> <<>>] \in PullRecords
  <2>1. <<>> \in Seq(Runs)
    OBVIOUS
  <2> QED BY <2>1 DEF PullRecords, Heads, Merges
<1>3. BridgeTypeOK
  BY <1>0, <1>1, <1>2 DEF BridgeInit, BridgeTypeOK, Readings, Places, PullRecords
<1>4. HubFits
  BY <1>0 DEF BridgeInit, HubFits, RunsFit
<1>5. CloneFits /\ BridgesFit /\ OutboxFits /\ ReportedIsQueued
  BY <1>1 DEF BridgeInit, CloneFits, BridgesFit, OutboxFits, ReportedIsQueued, Attested
<1> QED BY <1>3, <1>4, <1>5 DEF BridgeInv

-----------------------------------------------------------------------------
(* The ingress and its threads.                                              *)
Stations == {"idle", "receipt?", "record", "send"}
AnyMarker == Markers \cup {NoMarker}
AnyBinding == [event: Comments \cup {NoComment}, marker: AnyMarker]
Ingests == [pc: Stations, binding: AnyBinding, known: BOOLEAN]

ThreadsFit == delivered \in [Threads -> Seq(Markers)]

(* A notification is that of the receipt of its comment, and goes to a       *)
(* Session of the Task.                                                     *)
NotesFit == \A n \in notes : receipts[n.event.id] = n /\ SessionOf(n) \in OfTask

(* An event whose comment was received before has the receipt's marker.      *)
KnowsReceipt(pc, binding) ==
    /\ pc # "idle" => receipts[binding.event.id] # NoReceipt
    /\ pc \in {"record", "send"} => binding.marker = receipts[binding.event.id].marker
IngestFits ==
    \A x \in Ingresses : ingest[x].known => KnowsReceipt(ingest[x].pc, ingest[x].binding)

IngressInv ==
    /\ IngressTypeOK /\ ingest \in [Ingresses -> Ingests]
    /\ ThreadsFit /\ NotesFit /\ IngestFits

LEMMA CommentFacts ==
    ASSUME NEW c \in Comments
    PROVE  c.id \in Ids /\ c.thread \in Threads /\ c.kind \in {"notify", "reply"}
BY CommentAssumption DEF Ids

LEMMA InThreadsTyped ==
    ASSUME ThreadsFit
    PROVE  InThreads \subseteq Markers
<1> SUFFICES ASSUME NEW t \in Threads, NEW i \in DOMAIN delivered[t]
             PROVE  delivered[t][i] \in Markers
  BY DEF InThreads
<1>1. delivered[t] \in Seq(Markers)
  BY DEF ThreadsFit
<1> QED BY <1>1

LEMMA BindingTyped ==
    ASSUME ThreadsFit, NEW b \in Bindings
    PROVE  /\ b.event \in Comments /\ b.marker \in InThreads \cup {NoMarker}
           /\ b = Binding(b.event, b.marker)
           /\ b \in AnyBinding /\ b # NoReceipt
<1>1. /\ b.event \in Comments /\ b.marker \in InThreads \cup {NoMarker}
      /\ b = Binding(b.event, b.marker)
  BY DEF Bindings, Binding
<1>2. b.marker \in AnyMarker
  BY <1>1, InThreadsTyped DEF AnyMarker
<1>3. b \in [event: Comments, marker: AnyMarker]
  BY <1>1, <1>2 DEF Binding
<1>4. b # NoReceipt
  BY <1>3, NoReceiptAssumption DEF AnyMarker
<1> QED BY <1>1, <1>3, <1>4 DEF AnyBinding

LEMMA IngestFields ==
    ASSUME IngressInv, NEW x \in Ingresses
    PROVE  /\ ingest[x].pc \in Stations /\ ingest[x].known \in BOOLEAN
           /\ ingest[x].binding \in AnyBinding
           /\ ingest[x].pc # "idle" =>
                 /\ ingest[x].binding \in Bindings
                 /\ ingest[x].binding.event \in Comments
                 /\ ingest[x].binding.event.id \in Ids
           /\ ingest[x].known => KnowsReceipt(ingest[x].pc, ingest[x].binding)
<1>1. ingest[x] \in Ingests /\ (ingest[x].pc # "idle" => ingest[x].binding \in Bindings)
  BY DEF IngressInv, IngressTypeOK
<1>2. ingest[x].known => KnowsReceipt(ingest[x].pc, ingest[x].binding)
  BY DEF IngressInv, IngestFits
<1>3. ingest[x].pc # "idle" =>
         ingest[x].binding.event \in Comments /\ ingest[x].binding.event.id \in Ids
  BY <1>1, BindingTyped, CommentFacts DEF IngressInv
<1>4. /\ ingest[x].pc \in Stations /\ ingest[x].known \in BOOLEAN
      /\ ingest[x].binding \in AnyBinding
  BY <1>1 DEF Ingests
<1> QED BY <1>1, <1>2, <1>3, <1>4

(* A step of one ingress that leaves its receipts and notifications alone.   *)
LEMMA IngestMoves ==
    ASSUME IngressInv, NEW x \in Ingresses, NEW pc \in Stations, NEW b \in AnyBinding,
           NEW known \in BOOLEAN,
           pc # "idle" => b \in Bindings,
           known => KnowsReceipt(pc, b),
           ingest' = [ingest EXCEPT ![x] = [pc |-> pc, binding |-> b, known |-> known]],
           events' \in 0 .. MaxEvents, UNCHANGED <<receipts, notes, linearVars>>
    PROVE  IngressInv'
<1>0. /\ IngressTypeOK /\ ingest \in [Ingresses -> Ingests]
      /\ ThreadsFit /\ NotesFit /\ IngestFits
      /\ UNCHANGED <<receipts, notes, delivered, answered>>
  BY DEF IngressInv, linearVars
<1>1. PICK call : call = [pc |-> pc, binding |-> b, known |-> known]
  OBVIOUS
<1>2. /\ call \in Ingests /\ call.pc = pc /\ call.binding = b
      /\ call.known => known
  BY <1>1 DEF Ingests
<1>3. /\ ingest' \in [Ingresses -> Ingests] /\ ingest'[x] = call
      /\ \A y \in Ingresses \ {x} : ingest'[y] = ingest[y]
  BY <1>0, <1>1, <1>2
<1>4. InThreads' = InThreads /\ Bindings' = Bindings
  BY <1>0 DEF InThreads, Bindings
<1>5. IngressTypeOK'
  BY <1>0, <1>2, <1>3, <1>4 DEF IngressTypeOK, Stations
<1>6. IngestFits'
  BY <1>0, <1>2, <1>3 DEF IngestFits, KnowsReceipt
<1>7. ThreadsFit' /\ NotesFit'
  BY <1>0 DEF ThreadsFit, NotesFit, SessionOf
<1> QED BY <1>3, <1>5, <1>6, <1>7 DEF IngressInv

LEMMA DropMoves ==
    ASSUME IngressInv, NEW x \in Ingresses, Drop(x), UNCHANGED events,
           UNCHANGED <<receipts, notes, linearVars>>
    PROVE  IngressInv'
<1>1. Binding(NoComment, NoMarker) \in AnyBinding /\ "idle" \in Stations
  BY DEF Binding, AnyBinding, AnyMarker, Stations
<1>2. ingest' = [ingest EXCEPT ![x] = [pc |-> "idle", binding |-> Binding(NoComment, NoMarker),
                                       known |-> FALSE]]
  BY DEF Drop, Nobody
<1>3. events' \in 0 .. MaxEvents
  BY DEF IngressInv, IngressTypeOK
<1> QED BY <1>1, <1>2, <1>3, IngestMoves

(* What a directive is resolved to is in its thread.                         *)
LEMMA ResolvedTyped ==
    ASSUME ThreadsFit, NEW c \in Comments, NEW marker \in Resolved(c)
    PROVE  Binding(c, marker) \in Bindings
<1>1. marker \in InThreads \cup {NoMarker}
  <2>1. CASE c.kind = "notify"
    BY <2>1 DEF Resolved
  <2>2. CASE c.kind # "notify"
    <3>1. /\ Cardinality(Sessions(c.thread)) = 1
          /\ marker = delivered[c.thread][Len(delivered[c.thread])]
      BY <2>2 DEF Resolved
    <3>2. Sessions(c.thread) # {}
      <4>1. Cardinality({}) = 0
        BY FS_EmptySet
      <4>2. Sessions(c.thread) = {} => Cardinality(Sessions(c.thread)) = 0
        BY <4>1, Zenon
      <4> QED BY <3>1, <4>2
    <3>3. delivered[c.thread] \in Seq(Markers) /\ c.thread \in Threads
      BY CommentFacts DEF ThreadsFit
    <3>4. PICK i \in DOMAIN delivered[c.thread] : TRUE
      BY <3>2 DEF Sessions
    <3>5. Len(delivered[c.thread]) \in DOMAIN delivered[c.thread]
      BY <3>3, <3>4
    <3> QED BY <3>1, <3>3, <3>5 DEF InThreads
  <2> QED BY <2>1, <2>2
<1> QED BY <1>1 DEF Binding, Bindings

LEMMA IngressInvStep ==
    ASSUME IngressInv, NEW x \in Ingresses, IngressStep(x)
    PROVE  IngressInv'
<1> DEFINE b == ingest[x].binding
<1>0. /\ IngressTypeOK /\ ingest \in [Ingresses -> Ingests]
      /\ ThreadsFit /\ NotesFit /\ IngestFits /\ events \in 0 .. MaxEvents
      /\ receipts \in [Ids -> Bindings \cup {NoReceipt}] /\ notes \subseteq Bindings
      /\ {"receipt?", "record", "send", "idle"} \subseteq Stations
  BY DEF IngressInv, IngressTypeOK, Stations
<1>1. ASSUME NEW c \in Comments, Resolve(x, c) PROVE IngressInv'
  <2>1. PICK marker \in Resolved(c) :
           ingest' = [ingest EXCEPT ![x] =
              [pc |-> "receipt?", binding |-> Binding(c, marker),
               known |-> receipts[c.id] # NoReceipt]]
    BY <1>1 DEF Resolve
  <2>2. PICK known \in BOOLEAN : known = (receipts[c.id] # NoReceipt)
    OBVIOUS
  <2>3. Binding(c, marker) \in Bindings
    BY <1>0, ResolvedTyped
  <2>4. Binding(c, marker) \in AnyBinding /\ Binding(c, marker).event = c
    BY <1>0, <2>3, BindingTyped DEF Binding
  <2>5. known => KnowsReceipt("receipt?", Binding(c, marker))
    BY <2>2, <2>4 DEF KnowsReceipt
  <2>6. ingest' = [ingest EXCEPT ![x] =
              [pc |-> "receipt?", binding |-> Binding(c, marker), known |-> known]]
    BY <2>1, <2>2
  <2>7. /\ events' \in 0 .. MaxEvents
        /\ UNCHANGED <<receipts, notes, linearVars>>
    BY <1>0, <1>1, EventsAssumption DEF Resolve
  <2> QED BY <1>0, <2>3, <2>4, <2>5, <2>6, <2>7, IngestMoves
<1>2. CASE ReadReceipt(x)
  <2>1. /\ ingest[x].pc = "receipt?" /\ UNCHANGED <<receipts, notes, events, linearVars>>
        /\ Drop(x) \/ Proceed(x, "record", Existing(b.event, b.marker))
    BY <1>2 DEF ReadReceipt
  <2>2. /\ b \in Bindings /\ b.event \in Comments /\ b.event.id \in Ids
        /\ ingest[x].known \in BOOLEAN
        /\ ingest[x].known => KnowsReceipt("receipt?", b)
    BY <2>1, IngestFields
  <2>3. CASE Proceed(x, "record", Existing(b.event, b.marker))
    <3>1. PICK new : new = Existing(b.event, b.marker)
      OBVIOUS
    <3>2. /\ new.event = b.event
          /\ new.marker = IF receipts[b.event.id] = NoReceipt THEN b.marker
                          ELSE receipts[b.event.id].marker
          /\ new = Binding(new.event, new.marker)
      BY <3>1 DEF Existing, Binding
    <3>3. new.marker \in InThreads \cup {NoMarker}
      <4>1. receipts[b.event.id] \in Bindings \cup {NoReceipt}
        BY <1>0, <2>2
      <4> QED BY <1>0, <2>2, <3>2, <4>1, BindingTyped
    <3>4. new \in Bindings
      BY <2>2, <3>2, <3>3 DEF Bindings, Binding
    <3>5. new \in AnyBinding
      BY <1>0, <3>4, BindingTyped
    <3>6. ingest[x].known => KnowsReceipt("record", new)
      BY <2>2, <3>2 DEF KnowsReceipt
    <3>7. ingest' = [ingest EXCEPT ![x] =
                       [pc |-> "record", binding |-> new, known |-> ingest[x].known]]
      BY <2>3, <3>1 DEF Proceed
    <3> QED BY <1>0, <2>1, <2>2, <3>4, <3>5, <3>6, <3>7, IngestMoves
  <2> QED BY <2>1, <2>3, DropMoves
<1>3. CASE RecordReceipt(x)
  <2>1. /\ ingest[x].pc = "record" /\ UNCHANGED <<notes, events, linearVars>>
        /\ \/ Recorded(b) /\ Proceed(x, "send", b)
           \/ Drop(x) /\ UNCHANGED receipts
    BY <1>3 DEF RecordReceipt
  <2>2. /\ b \in Bindings /\ b \in AnyBinding /\ b.event.id \in Ids /\ b # NoReceipt
        /\ ingest[x].known \in BOOLEAN
        /\ ingest[x].known => KnowsReceipt("record", b)
    BY <1>0, <2>1, IngestFields, BindingTyped
  <2>3. CASE Recorded(b) /\ Proceed(x, "send", b)
    <3>1. /\ receipts[b.event.id] \in {NoReceipt, b}
          /\ receipts' = [receipts EXCEPT ![b.event.id] = b]
          /\ UNCHANGED <<notes, events, delivered, answered>>
      BY <2>1, <2>3 DEF Recorded, linearVars
    <3>2. PICK call : call = [pc |-> "send", binding |-> b, known |-> ingest[x].known]
      OBVIOUS
    <3>3. /\ call \in Ingests /\ call.pc = "send" /\ call.binding = b
          /\ ingest' = [ingest EXCEPT ![x] = call]
      BY <1>0, <2>2, <2>3, <3>2 DEF Ingests, Proceed
    <3>4. /\ ingest' \in [Ingresses -> Ingests] /\ ingest'[x] = call
          /\ \A y \in Ingresses \ {x} : ingest'[y] = ingest[y]
      BY <1>0, <3>3
    <3>5. InThreads' = InThreads /\ Bindings' = Bindings
      BY <3>1 DEF InThreads, Bindings
    <3>6. /\ receipts' \in [Ids -> Bindings \cup {NoReceipt}]
          /\ receipts'[b.event.id] = b
          /\ \A id \in Ids : receipts[id] # NoReceipt => receipts'[id] = receipts[id]
      BY <1>0, <2>2, <3>1
    <3>7. IngressTypeOK'
      BY <1>0, <2>2, <3>1, <3>3, <3>4, <3>5, <3>6 DEF IngressTypeOK
    <3>8. IngestFits'
      <4>1. ASSUME NEW y \in Ingresses \ {x}, ingest[y].known
            PROVE  /\ ingest[y].pc # "idle" => receipts'[ingest[y].binding.event.id] # NoReceipt
                   /\ ingest[y].pc \in {"record", "send"} =>
                         ingest[y].binding.marker = receipts'[ingest[y].binding.event.id].marker
        BY <3>6, <4>1, IngestFields DEF KnowsReceipt
      <4> QED BY <2>2, <3>3, <3>4, <3>6, <4>1 DEF IngestFits, KnowsReceipt
    <3>9. ThreadsFit' /\ NotesFit'
      <4>1. ASSUME NEW n \in notes PROVE receipts'[n.event.id] = n /\ SessionOf(n) \in OfTask
        <5>1. /\ n.event.id \in Ids /\ n # NoReceipt
              /\ receipts[n.event.id] = n /\ SessionOf(n) \in OfTask
          BY <1>0, BindingTyped, CommentFacts DEF NotesFit
        <5> QED BY <3>6, <5>1
      <4> QED BY <1>0, <3>1, <4>1 DEF ThreadsFit, NotesFit, SessionOf
    <3> QED BY <3>4, <3>7, <3>8, <3>9 DEF IngressInv
  <2> QED BY <2>1, <2>3, DropMoves
<1>4. CASE Send(x)
  <2>1. /\ ingest[x].pc = "send" /\ Drop(x) /\ UNCHANGED <<receipts, events, linearVars>>
        /\ \/ UNCHANGED notes
           \/ /\ receipts[b.event.id] = b /\ SessionOf(b) \in OfTask
              /\ notes' = notes \cup {b}
    BY <1>4 DEF Send
  <2>2. b \in Bindings
    BY <2>1, IngestFields
  <2>3. CASE receipts[b.event.id] = b /\ SessionOf(b) \in OfTask /\ notes' = notes \cup {b}
    <3>0. UNCHANGED <<receipts, events, delivered, answered>>
      BY <2>1 DEF linearVars
    <3>1. Nobody \in Ingests /\ Nobody.pc = "idle" /\ ~ Nobody.known
      BY DEF Nobody, Binding, Ingests, AnyBinding, AnyMarker, Stations
    <3>2. /\ ingest' \in [Ingresses -> Ingests] /\ ingest'[x] = Nobody
          /\ \A y \in Ingresses \ {x} : ingest'[y] = ingest[y]
      BY <1>0, <2>1, <3>1 DEF Drop
    <3>3. InThreads' = InThreads /\ Bindings' = Bindings
      BY <3>0 DEF InThreads, Bindings
    <3>4. IngressTypeOK'
      BY <1>0, <2>2, <2>3, <3>0, <3>1, <3>2, <3>3 DEF IngressTypeOK
    <3>5. IngestFits'
      BY <1>0, <3>0, <3>1, <3>2 DEF IngestFits, KnowsReceipt
    <3>6. ThreadsFit' /\ NotesFit'
      BY <1>0, <2>3, <3>0 DEF ThreadsFit, NotesFit, SessionOf
    <3> QED BY <3>2, <3>4, <3>5, <3>6 DEF IngressInv
  <2> QED BY <2>1, <2>3, DropMoves
<1>5. CASE Die(x)
  BY <1>5, DropMoves DEF Die
<1> QED BY <1>1, <1>2, <1>3, <1>4, <1>5 DEF IngressStep

-----------------------------------------------------------------------------
(* A marker that is added to a thread leaves all that was there.             *)
LEMMA MarkerAdded ==
    ASSUME IngressInv, NEW t, NEW marker \in Markers,
           delivered' = [delivered EXCEPT ![t] = Append(@, marker)],
           UNCHANGED ingressVars, answered' \subseteq notes
    PROVE  IngressInv'
<1>0. /\ IngressTypeOK /\ ingest \in [Ingresses -> Ingests]
      /\ ThreadsFit /\ NotesFit /\ IngestFits
      /\ UNCHANGED <<receipts, notes, ingest, events>>
  BY DEF IngressInv, ingressVars
<1>1. ASSUME NEW u \in Threads
      PROVE  /\ delivered'[u] \in Seq(Markers)
             /\ \A i \in DOMAIN delivered[u] :
                   i \in DOMAIN delivered'[u] /\ delivered'[u][i] = delivered[u][i]
  <2>1. delivered[u] \in Seq(Markers)
    BY <1>0 DEF ThreadsFit
  <2>2. delivered'[u] = delivered[u] \/ delivered'[u] = Append(delivered[u], marker)
    BY <1>0 DEF ThreadsFit
  <2>3. /\ Append(delivered[u], marker) \in Seq(Markers)
        /\ \A i \in DOMAIN delivered[u] :
              /\ i \in DOMAIN Append(delivered[u], marker)
              /\ Append(delivered[u], marker)[i] = delivered[u][i]
    BY <2>1
  <2> QED BY <2>1, <2>2, <2>3
<1>2. InThreads \subseteq InThreads'
  <2> SUFFICES ASSUME NEW u \in Threads, NEW i \in DOMAIN delivered[u]
               PROVE  delivered[u][i] \in InThreads'
    BY DEF InThreads
  <2>1. i \in DOMAIN delivered'[u] /\ delivered'[u][i] = delivered[u][i]
    BY <1>1
  <2> QED BY <2>1 DEF InThreads
<1>3. Bindings \subseteq Bindings'
  <2> SUFFICES ASSUME NEW b \in Bindings PROVE b \in Bindings'
    OBVIOUS
  <2>1. /\ b.event \in Comments /\ b.marker \in InThreads' \cup {NoMarker}
        /\ b = [event |-> b.event, marker |-> b.marker]
    BY <1>0, <1>2, BindingTyped DEF Binding
  <2> QED BY <2>1 DEF Bindings
<1>4. IngressTypeOK'
  BY <1>0, <1>3 DEF IngressTypeOK
<1>5. ThreadsFit'
  <2>1. delivered \in [Threads -> Seq(Markers)] /\ DOMAIN delivered' = DOMAIN delivered
    BY <1>0 DEF ThreadsFit
  <2>2. delivered' = [u \in Threads |-> delivered'[u]]
    BY <2>1
  <2> QED BY <1>1, <2>2 DEF ThreadsFit
<1>6. NotesFit' /\ IngestFits'
  BY <1>0 DEF NotesFit, IngestFits, KnowsReceipt, SessionOf
<1> QED BY <1>0, <1>4, <1>5, <1>6 DEF IngressInv

LEMMA ReplyFits ==
    ASSUME IngressInv, NEW note \in notes, DeliverReply(note)
    PROVE  IngressInv'
<1>1. note \in Bindings /\ SessionOf(note) \in OfTask /\ ThreadsFit /\ answered \subseteq notes
  BY DEF IngressInv, IngressTypeOK, NotesFit
<1>2. note.event.id \in Ids
  BY <1>1, BindingTyped, CommentFacts
<1>3. Marker(SessionOf(note), note.event.id) \in Markers
  BY <1>1, <1>2 DEF Marker, Markers
<1>4. PICK marker \in Markers : marker = Marker(SessionOf(note), note.event.id)
  BY <1>3
<1>5. delivered' = [delivered EXCEPT ![note.event.thread] = Append(@, marker)]
  BY <1>4 DEF DeliverReply
<1> QED BY <1>1, <1>5, MarkerAdded DEF DeliverReply

LEMMA ResultFits ==
    ASSUME IngressInv, DeliverAccepted
    PROVE  IngressInv'
<1>1. PICK marker : marker = Marker(Submitter, "result")
  OBVIOUS
<1>2. marker \in Markers
  BY <1>1 DEF Marker, Markers
<1>3. delivered' = [delivered EXCEPT ![ResultThread] = Append(@, marker)]
  BY <1>1 DEF DeliverAccepted
<1>4. answered' \subseteq notes
  BY DEF DeliverAccepted, IngressInv, IngressTypeOK
<1> QED BY <1>2, <1>3, <1>4, MarkerAdded DEF DeliverAccepted

LEMMA IngressInvInit == IngressInit => IngressInv
<1> SUFFICES ASSUME IngressInit PROVE IngressInv
  OBVIOUS
<1>1. Nobody \in Ingests /\ Nobody.pc = "idle" /\ ~ Nobody.known
  BY DEF Nobody, Binding, Ingests, AnyBinding, AnyMarker, Stations
<1>2. ThreadsFit
  <2>1. <<>> \in Seq(Markers)
    OBVIOUS
  <2> QED BY <2>1 DEF IngressInit, ThreadsFit
<1>3. IngressTypeOK /\ ingest \in [Ingresses -> Ingests]
  BY <1>1, EventsAssumption DEF IngressInit, IngressTypeOK
<1>4. NotesFit /\ IngestFits
  BY <1>1 DEF IngressInit, NotesFit, IngestFits
<1> QED BY <1>2, <1>3, <1>4 DEF IngressInv

-----------------------------------------------------------------------------
(* The whole loop.                                                           *)
LEMMA BridgeInvSame ==
    ASSUME BridgeInv, UNCHANGED postMergeVars
    PROVE  BridgeInv'
<1>1. UNCHANGED <<hub, clone, outbox, bridge, told, reads>>
  BY DEF postMergeVars, hubVars, bridgeVars
<1>2. BridgeTypeOK' /\ HubFits' /\ CloneFits' /\ ReportedIsQueued'
  BY <1>1 DEF BridgeInv, BridgeTypeOK, HubFits, RunsFit, CloneFits, Merged, ReportedIsQueued
<1>3. BridgesFit' /\ OutboxFits'
  BY <1>1 DEF BridgeInv, BridgesFit, OutboxFits, Attested, Merged, Incorporated
<1> QED BY <1>2, <1>3 DEF BridgeInv

LEMMA IngressInvSame ==
    ASSUME IngressInv, UNCHANGED allIngressVars
    PROVE  IngressInv'
<1>1. UNCHANGED <<delivered, receipts, notes, answered, ingest, events>>
  BY DEF allIngressVars, ingressVars, linearVars
<1>2. InThreads' = InThreads /\ Bindings' = Bindings
  BY <1>1 DEF InThreads, Bindings
<1>3. IngressTypeOK'
  BY <1>1, <1>2 DEF IngressInv, IngressTypeOK
<1> QED BY <1>1, <1>3 DEF IngressInv, ThreadsFit, NotesFit, IngestFits, KnowsReceipt, SessionOf

LEMMA LoopInvHolds == LoopSpec => [](BridgeInv /\ IngressInv)
<1>1. LoopInit => BridgeInv /\ IngressInv
  BY BridgeInvInit, IngressInvInit DEF LoopInit
<1>2. ASSUME BridgeInv, IngressInv, [LoopNext]_loopVars PROVE BridgeInv' /\ IngressInv'
  <2>1. CASE HubStep /\ UNCHANGED allIngressVars
    BY <1>2, <2>1, HubInvStep, IngressInvSame
  <2>2. ASSUME NEW x \in Bridges, BridgeStep(x), UNCHANGED allIngressVars
        PROVE  BridgeInv' /\ IngressInv'
    BY <1>2, <2>2, BridgeInvStep, IngressInvSame
  <2>3. ASSUME NEW x \in Ingresses, IngressStep(x), UNCHANGED postMergeVars
        PROVE  BridgeInv' /\ IngressInv'
    BY <1>2, <2>3, IngressInvStep, BridgeInvSame
  <2>4. ASSUME NEW note \in notes, DeliverReply(note), UNCHANGED postMergeVars
        PROVE  BridgeInv' /\ IngressInv'
    BY <1>2, <2>4, ReplyFits, BridgeInvSame
  <2>5. CASE DeliverAccepted
    BY <1>2, <2>5, ResultFits, BridgeInvSame DEF DeliverAccepted
  <2>6. CASE UNCHANGED loopVars
    BY <1>2, <2>6, IngressInvSame, BridgeInvSame DEF loopVars
  <2> QED BY <1>2, <2>1, <2>2, <2>3, <2>4, <2>5, <2>6 DEF LoopNext
<1> QED BY <1>1, <1>2, PTL DEF LoopSpec

(* Every state of the bridge, the ingress and the threads is of the declared *)
(* types.                                                                   *)
THEOREM LoopIsTyped == LoopSpec => []LoopTypeOK
<1>1. BridgeInv /\ IngressInv => LoopTypeOK
  BY DEF BridgeInv, IngressInv, LoopTypeOK
<1> QED BY <1>1, LoopInvHolds, PTL

(* What the bridge queues for Linear was attested by the check that gated    *)
(* it, at the head that was merged, whatever ran or was merged meanwhile.    *)
THEOREM QueuedResultsAreAttested == LoopSpec => []QueuedIsAttested
<1>1. BridgeInv => QueuedIsAttested
  BY DEF BridgeInv, OutboxFits, Attested, Incorporated, QueuedIsAttested
<1> QED BY <1>1, LoopInvHolds, PTL

(* An event that a call has reported as queued is the one that is queued.    *)
THEOREM ReportedEventsAreQueued == LoopSpec => []ReportedIsQueued
<1>1. BridgeInv => ReportedIsQueued
  BY DEF BridgeInv
<1> QED BY <1>1, LoopInvHolds, PTL

(* A comment makes one notification, in whatever forms, how often and to     *)
(* whichever ingress it is delivered.                                       *)
THEOREM CommentsNotifyOnce == LoopSpec => []OneNoticePerComment
<1>1. IngressInv => OneNoticePerComment
  BY DEF IngressInv, NotesFit, OneNoticePerComment
<1> QED BY <1>1, LoopInvHolds, PTL

(* An event that is delivered again is recognised by its receipt, though     *)
(* its thread has other markers by then.                                    *)
THEOREM RepeatsAreRecognised == LoopSpec => []RepeatIsRecognised
<1>1. IngressInv => RepeatIsRecognised
  <2> SUFFICES ASSUME IngressInv, NEW x \in Ingresses, ingest[x].known,
                      ingest[x].pc \in {"record", "send"},
                      receipts[ingest[x].binding.event.id].event = ingest[x].binding.event
               PROVE  receipts[ingest[x].binding.event.id] = ingest[x].binding
    BY DEF RepeatIsRecognised
  <2>1. PICK b, kept : b = ingest[x].binding /\ kept = receipts[b.event.id]
    OBVIOUS
  <2>2. /\ b \in Bindings /\ b.event.id \in Ids
        /\ kept # NoReceipt /\ b.marker = kept.marker
    BY <2>1, IngestFields DEF KnowsReceipt
  <2>3. kept \in Bindings /\ ThreadsFit
    BY <2>1, <2>2 DEF IngressInv, IngressTypeOK
  <2>4. b = Binding(b.event, b.marker) /\ kept = Binding(kept.event, kept.marker)
    BY <2>2, <2>3, BindingTyped
  <2> QED BY <2>1, <2>2, <2>4
<1> QED BY <1>1, LoopInvHolds, PTL
=============================================================================
