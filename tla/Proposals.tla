------------------------------ MODULE Proposals ------------------------------
(***************************************************************************)
(* submission.create, impact.create, impact.batch, impact.decide and        *)
(* review.accept: a bundle of generated files is committed on a branch of   *)
(* its own in a worktree, pushed, and shown in one pull request; an         *)
(* acceptance is committed on the head the manager reviewed.                *)
(*                                                                         *)
(* Two processes may run one operation, or operations of one branch.  Git   *)
(* commands, file writes and network calls are steps; a call to GitHub that *)
(* times out may be carried out later.  The Task, the evidence and the      *)
(* reports a bundle is generated from do not change while it is proposed.   *)
(***************************************************************************)
EXTENDS OperationJournal

CONSTANTS
    Branches,
    Buildable,    \* requests whose bundle validates
    Unaffected,   \* batches that find no Report to revise
    Permitted,    \* requests whose actor may make them
    Absent, Partial, Leftover,   \* file contents besides generated bytes
    NoCommit, NoOne,
    MaxMain,      \* heads that the default branch has in a run
    MaxCalls      \* calls of the service in a run

Creates == {"submission.create", "impact.create", "impact.batch", "impact.decide"}
Accepts == "review.accept"

ASSUME ProposalRequestAssumption ==
    \A r \in Requests :
        /\ r.command \in Creates \cup {Accepts}
        /\ r.branch \in Branches
        /\ r.command \in Creates => r.base \in Nat \ {0}
        /\ r.command = Accepts => r.expects \in Operations
\* refs/heads/research/submission/ has Submissions and their acceptances only
ASSUME BranchAssumption ==
    \A r, q \in Requests : r.branch = q.branch =>
        (r.command \in {"submission.create", Accepts}
            <=> q.command \in {"submission.create", Accepts})
\* an operation stands for its commit, a number for a head of the default branch;
\* the record that is proposed is an open one
ASSUME CommitAssumption ==
    /\ NoCommit \notin Operations /\ Operations \cap Nat = {}
    /\ NoOne \notin Executors
    /\ MaxCalls \in Nat
    /\ \A r \in Requests : r.command = "submission.create" => r.content # "accepted"
    /\ {Absent, Partial} \cap [text: {"accepted"} \cup {r.content : r \in Requests},
                               op: Operations \cup {NoCommit}, at: 0 .. MaxCalls] = {}
    /\ Leftover \notin {"submission", "impact", "report"}
    /\ Unread = [head |-> [op |-> NoCommit, parent |-> 0], at |-> 0, changed |-> {}]
ASSUME ProposalVocabulary ==
    /\ {"check", "review", "resolve", "worktree", "checkout", "lock", "write",
        "truncate", "fill", "commit", "prepared?", "prepared",
        "head", "push", "pushed head", "pushed?", "pushed", "pull", "create",
        "created pull", "opened?", "opened", "note", "nothing?", "nothing"} \subseteq Phases
    /\ {"proposal_prepared", "branch_pushed", "pr_created", "pr_observed",
        "review_acceptance_prepared", "batch_unaffected"} \subseteq Kinds
    /\ {"pr_created", "pr_observed", "proposal_open", "acceptance_prepared",
        "no_change"} \subseteq Results

VARIABLES
    main,     \* the Report revision at each head of the default branch
    branch,   \* the local branches: where they start, their commits, their tree
    files,    \* the files in the worktrees
    lock,     \* the flock on each worktree
    remote,   \* the branch heads on GitHub
    pulls,    \* its pull requests
    flying,   \* calls that timed out and may still be carried out
    calls     \* of the service; the clock, as far as an acceptance reads it

repoVars == <<main, branch, files, lock>>
hubVars == <<remote, pulls, flying>>
vars == <<journalVars, repoVars, hubVars, calls>>

Exclusive == {"submission.create", Accepts}

(* Mutant: nothing is written under a lock, or atomically.                  *)
LockedNever(r) == FALSE

(* submission.create and review.accept hold the lock of their worktree;     *)
(* the impact workflows write without one, and not atomically.              *)
Locked(r) == r.command \in Exclusive

(* The generated files, in the order they are written; those that differ or *)
(* agree together are one.                                                  *)
FilesOf(r) ==
    CASE r.command = "submission.create" -> <<"submission">>
      [] r.command = Accepts -> <<"report", "submission">>
      [] OTHER -> <<"impact">>
FileNames == {"submission", "impact", "report", Leftover}
FileSet(r) == {FilesOf(r)[i] : i \in DOMAIN FilesOf(r)}

Bytes(text, op, at) == [text |-> text, op |-> op, at |-> at]
Open(content) == Bytes(content, NoCommit, 0)

(* What a request generates: an impact is dated by its operation, an        *)
(* acceptance by the clock of the call, a submission not at all.            *)
Generated(r, f, at) ==
    CASE r.command = "submission.create" -> Open(r.content)
      [] r.command = Accepts /\ f = "submission" -> Bytes("accepted", NoCommit, 0)
      [] r.command = Accepts /\ f # "submission" -> Bytes("accepted", r.op, at)
      [] OTHER -> Bytes(r.content, r.op, 0)

EmptyTree == [f \in FileNames |-> Absent]
NoBranch == [base |-> 0, checked |-> FALSE, log |-> <<>>, tree |-> EmptyTree]
Commit(op, parent) == [op |-> op, parent |-> parent]
Pull(head, opened) == [head |-> head, opened |-> opened, state |-> "open"]

(* A branch stands at its last commit, or where it starts: a head of the     *)
(* default branch.  The parent of a commit is such a head or an operation's. *)
Root(n) == Commit(NoCommit, n)
Tip(b) == LET log == branch[b].log
          IN  IF log = <<>> THEN Root(branch[b].base) ELSE log[Len(log)]
Child(b, op) == Commit(op, IF branch[b].log = <<>> THEN branch[b].base ELSE Tip(b).op)
Proposal(op) == Commit(op, journal[op].request.base)
Changed(b) == {f \in FileNames : files[b][f] # branch[b].tree[f]}
Req(x) == exec[x].req
At(x) == exec[x].seen.at

TypeOK ==
    LET Texts == [text: {"accepted"} \cup {r.content : r \in Requests},
                  op: Operations \cup {NoCommit}, at: 0 .. MaxCalls]
        Tree == [FileNames -> Texts \cup {Absent, Partial}]
        Node == Nat \cup Operations
    IN  /\ JournalTypeOK
        /\ main \in Seq(Nat) /\ Len(main) \in 1 .. MaxMain
        /\ branch \in [Branches -> [base: Nat, checked: BOOLEAN, tree: Tree,
                                    log: Seq([op: Operations, parent: Node])]]
        /\ files \in [Branches -> Tree]
        /\ lock \in [Branches -> Executors \cup {NoOne}]
        /\ remote \in [Branches -> Operations \cup {NoCommit}]
        /\ pulls \in [Branches -> Seq([head: Operations, opened: Operations,
                         state: {"open", "closed", "merged"}])]
        /\ flying \subseteq ({"push", "create"} \X Branches \X Operations)
        /\ calls \in 0 .. MaxCalls

Init ==
    /\ JournalInit
    /\ main = <<0>>
    /\ branch = [b \in Branches |-> NoBranch]
    /\ files = [b \in Branches |-> EmptyTree]
    /\ lock = [b \in Branches |-> NoOne]
    /\ remote = [b \in Branches |-> NoCommit]
    /\ pulls = [b \in Branches |-> <<>>]
    /\ flying = {}
    /\ calls = 0

-----------------------------------------------------------------------------
(* Moves of one executor.                                                   *)

(* What was read is kept as long as it is used.                             *)
See(x, pc, seen) ==
    /\ exec' = [exec EXCEPT ![x] = Call(pc, Req(x), {}, seen, "none")]
    /\ UNCHANGED <<journal, abandoned>>
Dated(x) == [Unread EXCEPT !.at = At(x)]
Move(x, pc) == See(x, pc, Dated(x))
Fail(x) == See(x, "fail", Unread)

(* An error that _record_operation_error leaves out: the operation stays    *)
(* running.                                                                 *)
RaiseUnrecorded(x) == Return(x) /\ UNCHANGED <<journal, abandoned>>

Unlock(x) == lock' = [b \in Branches |-> IF lock[b] = x THEN NoOne ELSE lock[b]]
FailLocked(x) == Fail(x) /\ Unlock(x) /\ UNCHANGED <<main, branch, files>>

(* The manager names the head that GitHub shows.                            *)
Reviewed(r) == r.command = Accepts => Running(r.op) \/ remote[r.branch] = r.expects

Claim(x, r) ==
    /\ Reviewed(r)
    /\ calls < MaxCalls
    /\ calls' = calls + 1
    /\ Begin(x, r, "authorize")
    /\ UNCHANGED <<repoVars, hubVars>>

AuthorizeActor(x) ==
    /\ Authorize(x, Req(x) \in Permitted,
                 IF Req(x).command = Accepts THEN "review" ELSE "check")
    /\ UNCHANGED <<repoVars, hubVars>>

DenyActor(x) == Deny(x, Req(x) \in Permitted) /\ UNCHANGED <<repoVars, hubVars>>

Stale(r) == r.base # Len(main)

(* The default head is that of the request, then the bundle is built, or a   *)
(* batch finds that no Report is affected.                                  *)
Prepare(x, command, next) ==
    /\ exec[x].pc = "check"
    /\ Req(x).command = command
    /\ IF Stale(Req(x)) \/ Req(x) \notin Buildable THEN Fail(x) ELSE Move(x, next)
    /\ UNCHANGED <<repoVars, hubVars>>

PrepareSubmission(x) == Prepare(x, "submission.create", "resolve")
PrepareImpact(x) == Prepare(x, "impact.create", "resolve")
PrepareDecision(x) == Prepare(x, "impact.decide", "resolve")
AnalyzeBatch(x) ==
    Prepare(x, "impact.batch", IF Req(x) \in Unaffected THEN "nothing?" ELSE "resolve")

(* The Report revision at the commit the proposal was made on.              *)
BaseRevision(b) == main[branch[b].base]

Reproducible(b, op) ==
    /\ journal[op].request.command = "submission.create"
    /\ \A f \in FileSet(journal[op].request) :
          branch[b].tree[f] = Generated(journal[op].request, f, 0)

(* prepare_acceptance: head, bundle and revision of the proposal, and the   *)
(* date of the decision.                                                    *)
Review(x) ==
    LET r == Req(x)
        b == r.branch
    IN  /\ exec[x].pc = "review"
        /\ IF \/ branch[b].base = 0
              \/ Tip(b) # Proposal(r.expects)
              \/ ~ Reproducible(b, r.expects)
              \/ BaseRevision(b) # journal[r.expects].request.revision
              \/ r.revision # BaseRevision(b)
              \/ r \notin Buildable
           THEN Fail(x)
           ELSE See(x, "resolve", [Unread EXCEPT !.at = calls])
        /\ UNCHANGED <<repoVars, hubVars>>

(* prepare_worktree: an acceptance compares the branch with the head that   *)
(* was reviewed, a proposal takes the branch as it is, or its base.         *)
Resolve(x) ==
    LET r == Req(x)
        b == r.branch
        there == branch[b].base # 0
    IN  /\ exec[x].pc = "resolve"
        /\ IF r.command = Accepts /\ Tip(b) # Proposal(r.expects)
           THEN Fail(x)
           ELSE See(x, "worktree", [exec[x].seen EXCEPT
                        !.head = IF there THEN Tip(b) ELSE Root(r.base)])
        /\ UNCHANGED <<repoVars, hubVars>>

(* create_or_observe: git worktree add makes the branch, then the worktree. *)
Worktree(x) ==
    LET b == Req(x).branch
        selected == exec[x].seen.head
    IN  /\ exec[x].pc = "worktree"
        /\ \/ /\ branch[b].base = 0
              /\ branch' = [branch EXCEPT ![b].base = selected.parent]
              /\ Move(x, "checkout")
           \/ /\ branch[b].checked
              /\ Tip(b) = selected
              /\ Move(x, "lock")
              /\ UNCHANGED branch
           \/ /\ branch[b].base # 0
              /\ ~ branch[b].checked \/ Tip(b) # selected
              /\ Fail(x)
              /\ UNCHANGED branch
        /\ UNCHANGED <<main, files, lock, hubVars>>

Checkout(x) ==
    /\ exec[x].pc = "checkout"
    /\ branch' = [branch EXCEPT ![Req(x).branch].checked = TRUE]
    /\ Move(x, "lock")
    /\ UNCHANGED <<main, files, lock, hubVars>>

TakeLock(x, b) ==
    IF Locked(Req(x))
    THEN lock[b] = NoOne /\ lock' = [lock EXCEPT ![b] = x]
    ELSE UNCHANGED lock

Lock(x) ==
    /\ exec[x].pc = "lock"
    /\ TakeLock(x, Req(x).branch)
    /\ Move(x, "write")
    /\ UNCHANGED <<main, branch, files, hubVars>>

-----------------------------------------------------------------------------
(* The generated files and their commit.                                    *)

(* The files that are not there as generated, in order.                     *)
Missing(x) ==
    LET r == Req(x)
    IN  {i \in DOMAIN FilesOf(r) : LET f == FilesOf(r)[i]
                                   IN  files[r.branch][f] # Generated(r, f, At(x))}
NextFile(x) == FilesOf(Req(x))[CHOOSE i \in Missing(x) : \A j \in Missing(x) : i <= j]

(* _write_once, and _replace_expected for the Submission of an acceptance.  *)
MayWrite(x, f) ==
    LET r == Req(x)
        there == files[r.branch][f]
    IN  IF r.command = Accepts /\ f = "submission"
        THEN there = Open(journal[r.expects].request.content)
        ELSE there = Absent

Put(b, f, content) == files' = [files EXCEPT ![b][f] = content]

WriteFile(x) ==
    LET r == Req(x)
        b == r.branch
        f == NextFile(x)
    IN  /\ exec[x].pc = "write"
        /\ \/ /\ Missing(x) # {}
              /\ MayWrite(x, f)
              /\ IF Locked(r)
                 THEN Put(b, f, Generated(r, f, At(x))) /\ Move(x, "write")
                 ELSE UNCHANGED files
                      /\ See(x, "truncate", [Dated(x) EXCEPT !.changed = {f}])
              /\ UNCHANGED lock
           \/ /\ Missing(x) # {}
              /\ ~ MayWrite(x, f)
              /\ Fail(x)
              /\ Unlock(x)
              /\ UNCHANGED files
        /\ UNCHANGED <<main, branch, hubVars>>

(* write_bytes opens the file, which empties it, and then writes.           *)
Truncate(x) ==
    /\ exec[x].pc = "truncate"
    /\ \E f \in exec[x].seen.changed : Put(Req(x).branch, f, Partial)
    /\ See(x, "fill", exec[x].seen)
    /\ UNCHANGED <<main, branch, lock, hubVars>>

Fill(x) ==
    /\ exec[x].pc = "fill"
    /\ \E f \in exec[x].seen.changed :
          Put(Req(x).branch, f, Generated(Req(x), f, At(x)))
    /\ Move(x, "write")
    /\ UNCHANGED <<main, branch, lock, hubVars>>

(* git status, when the files are there: nothing has changed, or exactly     *)
(* the generated files have.                                                *)
Status(x) ==
    LET changed == Changed(Req(x).branch)
    IN  /\ exec[x].pc = "write"
        /\ Missing(x) = {}
        /\ IF changed \in {{}, FileSet(Req(x))}
           THEN /\ See(x, "commit", [Dated(x) EXCEPT !.changed = changed])
                /\ UNCHANGED repoVars
           ELSE FailLocked(x)
        /\ UNCHANGED hubVars

Expected(r) == IF r.command = Accepts THEN r.expects ELSE r.base

(* _verify_commit of the head: its parent, its marker and its content.      *)
Verified(r, log, tree, worktree) ==
    /\ log # <<>>
    /\ log[Len(log)] = Commit(r.op, Expected(r))
    /\ \A f \in FileSet(r) : tree[f] = worktree[f]

(* git add and git commit of what git status listed, then the verification. *)
CommitFiles(x) ==
    LET r == Req(x)
        b == r.branch
        log == IF exec[x].seen.changed = {} THEN branch[b].log
               ELSE Append(branch[b].log, Child(b, r.op))
        tree == IF exec[x].seen.changed = {} THEN branch[b].tree ELSE files[b]
        refused == exec[x].seen.changed # {} /\ Changed(b) = {}
        next == IF r.command = Accepts THEN "note" ELSE "prepared?"
    IN  /\ exec[x].pc = "commit"
        /\ IF refused THEN UNCHANGED branch
           ELSE branch' = [branch EXCEPT ![b].log = log, ![b].tree = tree]
        /\ IF refused \/ ~ Verified(r, log, tree, files[b])
           THEN Fail(x) ELSE See(x, next, Unread)
        /\ Unlock(x)
        /\ UNCHANGED <<main, files, hubVars>>

RecordAcceptance(x) ==
    /\ exec[x].pc = "note"
    /\ RecordAlways(x, "review_acceptance_prepared", "acceptance_prepared")
    /\ UNCHANGED <<repoVars, hubVars>>

-----------------------------------------------------------------------------
(* _operation_stage_recorder: the events are read, then one is appended     *)
(* unless one of its group was there.                                       *)

Look(x, pc, next) ==
    LET events == journal[Op(x)].events
    IN  /\ exec[x].pc = pc
        /\ IF Running(Op(x))
           THEN exec' = [exec EXCEPT ![x].knows = {events[i] : i \in DOMAIN events},
                                     ![x].pc = next]
           ELSE Return(x)
        /\ UNCHANGED <<journal, abandoned, repoVars, hubVars>>

Forget(x, pc, verdict) ==
    exec' = [exec EXCEPT ![x] = Call(pc, Req(x), {}, Unread, verdict)]
Stage(x, pc, kind, group, next, verdict) ==
    /\ exec[x].pc = pc
    /\ \/ group \cap exec[x].knows # {} /\ Forget(x, next, verdict) /\ UNCHANGED journal
       \/ /\ group \cap exec[x].knows = {}
          /\ AppendEvent(Op(x), kind)
          /\ Forget(x, next, verdict)
       \/ /\ group \cap exec[x].knows = {}
          /\ ~ Running(Op(x))
          /\ Return(x)
          /\ UNCHANGED journal
    /\ UNCHANGED <<abandoned, repoVars, hubVars>>

StageNothing(x) ==
    \/ Look(x, "nothing?", "nothing")
    \/ Stage(x, "nothing", "batch_unaffected", {"batch_unaffected"}, "finish", "no_change")
StagePrepared(x) ==
    \/ Look(x, "prepared?", "prepared")
    \/ Stage(x, "prepared", "proposal_prepared", {"proposal_prepared"}, "head", "none")
StagePushed(x) ==
    \/ Look(x, "pushed?", "pushed")
    \/ Stage(x, "pushed", "branch_pushed", {"branch_pushed"}, "pull", "none")
StageOpened(x) ==
    \/ Look(x, "opened?", "opened")
    \/ Stage(x, "opened", exec[x].verdict, {"pr_created", "pr_observed"},
             "finish", "proposal_open")

-----------------------------------------------------------------------------
(* GitHub, and the calls to it.                                             *)

(* Mutant: the push is forced.                                              *)
PushForced(b, op) == [remote EXCEPT ![b] = op]

(* A push is refused when it is not a fast-forward.                         *)
PushLands(b, op) ==
    IF remote[b] = NoCommit THEN [remote EXCEPT ![b] = op] ELSE remote

(* GitHub has at most one open pull request of a branch.                    *)
CreateLands(b) ==
    IF remote[b] = NoCommit \/ \E i \in DOMAIN pulls[b] : pulls[b][i].state = "open"
    THEN pulls
    ELSE [pulls EXCEPT ![b] = Append(@, Pull(remote[b], remote[b]))]

(* A call that fails or times out counts as a fault.                        *)
Lose == abandoned < MaxAbandoned /\ abandoned' = abandoned + 1

(* A mutating call to GitHub: it is carried out, or fails, or is unanswered *)
(* and may be carried out later; the next step observes which.              *)
CallGitHub(x, pc, kind) ==
    /\ exec' = [exec EXCEPT ![x] = Call(pc, Req(x), {}, Unread, "none")]
    /\ \/ /\ IF kind = "push"
             THEN remote' = PushLands(Req(x).branch, Op(x)) /\ UNCHANGED pulls
             ELSE pulls' = CreateLands(Req(x).branch) /\ UNCHANGED remote
          /\ UNCHANGED <<flying, abandoned>>
       \/ /\ Lose
          /\ flying' \in {flying, flying \cup {<<kind, Req(x).branch, Op(x)>>}}
          /\ UNCHANGED <<remote, pulls>>
    /\ UNCHANGED <<journal, repoVars>>

(* push_exact.                                                              *)
ReadHead(x) ==
    /\ exec[x].pc = "head"
    /\ LET there == remote[Req(x).branch]
       IN  CASE there = NoCommit -> Move(x, "push")
             [] there = Op(x) -> Move(x, "pushed?")
             [] OTHER -> Fail(x)
    /\ UNCHANGED <<repoVars, hubVars>>

Push(x) == exec[x].pc = "push" /\ CallGitHub(x, "pushed head", "push")

MissingHead(x) == RaiseUnrecorded(x)

ReadPushed(x) ==
    /\ exec[x].pc = "pushed head"
    /\ LET there == remote[Req(x).branch]
       IN  CASE there = Op(x) -> Move(x, "pushed?")
             [] there = NoCommit -> MissingHead(x)
             [] OTHER -> Fail(x)
    /\ UNCHANGED <<repoVars, hubVars>>

(* _observe_pull_request, over the pull requests of every state.            *)
Exact(x, pull) == pull.head = Op(x) /\ pull.state = "open"

Observe(x, found, none) ==
    LET all == pulls[Req(x).branch]
    IN  \/ all = <<>> /\ none
        \/ Len(all) = 1 /\ Exact(x, all[1])
           /\ exec' = [exec EXCEPT ![x].pc = "opened?", ![x].verdict = found]
           /\ UNCHANGED <<journal, abandoned>>
        \/ all # <<>> /\ (Len(all) > 1 \/ ~ Exact(x, all[1])) /\ Fail(x)

(* open_or_observe.                                                         *)
ReadPull(x) ==
    /\ exec[x].pc = "pull"
    /\ Observe(x, "pr_observed", Move(x, "create"))
    /\ UNCHANGED <<repoVars, hubVars>>

CreatePull(x) == exec[x].pc = "create" /\ CallGitHub(x, "created pull", "create")

(* Mutant: what the POST returned is trusted.                               *)
MissingIsOpened(x) ==
    /\ exec' = [exec EXCEPT ![x].pc = "opened?", ![x].verdict = "pr_created"]
    /\ UNCHANGED <<journal, abandoned>>

MissingPull(x) == RaiseUnrecorded(x)

ReadCreated(x) ==
    /\ exec[x].pc = "created pull"
    /\ Observe(x, "pr_created", MissingPull(x))
    /\ UNCHANGED <<repoVars, hubVars>>

(* A call that timed out is carried out after all.                          *)
Land(m) ==
    /\ flying' = flying \ {m}
    /\ IF m[1] = "push"
       THEN remote' = PushLands(m[2], m[3]) /\ UNCHANGED pulls
       ELSE pulls' = CreateLands(m[2]) /\ UNCHANGED remote
    /\ UNCHANGED <<journalVars, repoVars>>

(* The manager pushes the acceptance, which an open pull request shows.     *)
PublishAcceptance(b) ==
    /\ remote[b] # NoCommit
    /\ Len(branch[b].log) = 2
    /\ branch[b].log[2].parent = remote[b]
    /\ journal[Tip(b).op].request.command = Accepts
    /\ remote' = [remote EXCEPT ![b] = Tip(b).op]
    /\ pulls' = [pulls EXCEPT ![b] = [i \in DOMAIN @ |->
                    IF @[i].state = "open" THEN [@[i] EXCEPT !.head = Tip(b).op] ELSE @[i]]]
    /\ UNCHANGED <<journalVars, repoVars, flying>>

(* A reviewer closes a pull request, or merges it: that of a Submission     *)
(* only with its acceptance, which makes the next revision.      *)
Touch(b, i) ==
    /\ pulls[b][i].state = "open"
    /\ \/ pulls' = [pulls EXCEPT ![b][i].state = "closed"] /\ UNCHANGED main
       \/ /\ Len(main) < MaxMain
          /\ LET command == journal[pulls[b][i].head].request.command
             IN  /\ command # "submission.create"
                 /\ main' = Append(main, main[Len(main)] + 1)
          /\ pulls' = [pulls EXCEPT ![b][i].state = "merged"]
    /\ UNCHANGED <<journalVars, branch, files, lock, remote, flying>>

(* Another revision of the Report reaches the default branch.               *)
Advance ==
    /\ Len(main) < MaxMain
    /\ main' = Append(main, main[Len(main)] + 1)
    /\ UNCHANGED <<journalVars, branch, files, lock, hubVars>>

(* A process dies, or an observation fails, which is not recorded: its lock *)
(* is free, and a file it was writing under the lock is left beside the one *)
(* it was to become.                                                        *)
Crash(x) ==
    /\ Abandon(x)
    /\ Unlock(x)
    /\ files' \in {files} \cup
          IF exec[x].pc = "write" /\ Locked(Req(x)) /\ Missing(x) # {}
          THEN {[files EXCEPT ![Req(x).branch][Leftover] = Partial]} ELSE {}
    /\ UNCHANGED <<main, branch, hubVars>>

-----------------------------------------------------------------------------
Step(x) ==
    \/ AuthorizeActor(x) \/ DenyActor(x) \/ Review(x)
    \/ PrepareSubmission(x) \/ PrepareImpact(x) \/ AnalyzeBatch(x) \/ PrepareDecision(x)
    \/ Resolve(x) \/ Worktree(x) \/ Checkout(x) \/ Lock(x)
    \/ WriteFile(x) \/ Truncate(x) \/ Fill(x) \/ Status(x) \/ CommitFiles(x)
    \/ StageNothing(x) \/ StagePrepared(x) \/ StagePushed(x) \/ StageOpened(x) \/ RecordAcceptance(x)
    \/ ReadHead(x) \/ Push(x) \/ ReadPushed(x)
    \/ ReadPull(x) \/ CreatePull(x) \/ ReadCreated(x)
    \/ (RecordFailure(x) \/ Finish(x)) /\ UNCHANGED <<repoVars, hubVars>>

Next ==
    \/ \E x \in Executors : \E r \in Requests : Claim(x, r)
    \/ /\ \/ \E x \in Executors : Step(x) \/ Crash(x)
          \/ \E m \in flying : Land(m)
          \/ \E b \in Branches : PublishAcceptance(b)
          \/ \E b \in Branches : \E i \in DOMAIN pulls[b] : Touch(b, i)
          \/ Advance
       /\ UNCHANGED calls

Spec == Init /\ [][Next]_vars
-----------------------------------------------------------------------------
(* The branch on GitHub, its pull requests and the commits are a lineage:   *)
(* one proposal, made on the base that it names, published unchanged and    *)
(* never replaced but by the one acceptance of that very commit.            *)
Proposed(log) ==
    IF log # <<>> /\ log[1] = Proposal(log[1].op) THEN log[1].op ELSE NoCommit
Accepted(log) ==
    IF /\ Len(log) > 1
       /\ journal[log[2].op].request.command = Accepts
       /\ log[2].parent = log[1].op
    THEN log[2].op ELSE NoCommit
Shown(list) == UNION {{list[i].opened, list[i].head} : i \in DOMAIN list}
Lineage(b) == INSTANCE ProposalLineage WITH
    Commits <- Operations, None <- NoCommit,
    proposed <- Proposed(branch[b].log), accepted <- Accepted(branch[b].log),
    published <- remote[b], opened <- Shown(pulls[b])
ImplementsLineage ==
    /\ \A b \in Branches : Lineage(b)!Init
    /\ [][\A b \in Branches : [Lineage(b)!Next]_(Lineage(b)!lineage)]_vars

(* What GitHub has is what an operation generated: the files of the commit  *)
(* are those of that operation, of one decision where it is an acceptance.  *)
(* The workflows without the lock do not keep this: of two processes with   *)
(* one operation, one can commit a file that the other has just emptied.    *)
PublishedIsGenerated ==
    \A b \in Branches :
        remote[b] # NoCommit =>
            LET r == journal[remote[b]].request
            IN  r.command \in Exclusive /\ Tip(b).op = remote[b] =>
                   \E t \in 1 .. MaxCalls : \A f \in FileSet(r) :
                      branch[b].tree[f] = Generated(r, f, t)

(* Success names a pull request that was opened with the operation's own    *)
(* commit, or an acceptance committed on the head that was reviewed.        *)
SuccessIsOnRecord ==
    \A o \in Operations :
        LET b == journal[o].request.branch
        IN  /\ journal[o].result = "proposal_open" =>
                   /\ \E i \in DOMAIN pulls[b] : pulls[b][i].opened = o
                   /\ branch[b].log[1] = Proposal(o)
            /\ journal[o].result = "acceptance_prepared" =>
                   branch[b].log[2] = Commit(o, journal[o].request.expects)

=============================================================================
