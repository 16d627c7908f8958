--------------------------- MODULE ControlProposals ---------------------------
(***************************************************************************)
(* Control proposals: task.create, task.update and task.cancel, the four    *)
(* policy commands, bootstrap.propose and bootstrap.accept.  Each writes    *)
(* its records in a worktree of its own branch and makes one local commit   *)
(* over the base it was asked for, which the manager merges or not.         *)
(*                                                                         *)
(* A policy or bootstrap command holds the lock of its branch from the      *)
(* first read to the commit; a task command holds the lock of the task      *)
(* directory for its write only.  An executor that dies gives its lock up.  *)
(***************************************************************************)
EXTENDS OperationJournal

CONSTANTS
    Slots,         \* records, and the sections of a record that has several
    FileOf,        \* [Slots -> the file that holds it]
    TaskSlots,
    KeyOf,         \* [TaskSlots -> the human key of the Task]
    Trees,         \* what the default branch may hold at first
    Branches,
    Denied,        \* requests whose actor may not make them
    Sources,       \* versions of the uncommitted output of init
    MaxCommits

TaskCommands == {"task.create", "task.update", "task.cancel"}
PolicyCommands == {"linear.configure", "plan.configure-review",
                   "doc.configure-layout", "github.configure-governance"}
BootstrapCommands == {"bootstrap.propose", "bootstrap.accept"}

ASSUME SlotAssumption ==
    /\ {"config", "record"} \cup TaskSlots \subseteq Slots
    /\ {"config", "record"} \cap TaskSlots = {}
    /\ FileOf["config"] = FileOf["record"]
    /\ Sources \subseteq Nat \ {0} /\ 1 \in Sources
ASSUME ControlRequestAssumption ==
    \A r \in Requests :
        /\ r.command \in TaskCommands \cup PolicyCommands \cup BootstrapCommands
        /\ r.branch \in Branches
        /\ r.command \notin TaskCommands => r.base \in Nat \ {0}
        /\ r.command \in TaskCommands => r.slot \in TaskSlots
        /\ r.command \in PolicyCommands =>
              r.slot \in Slots \ (TaskSlots \cup {"config", "record"})
        /\ r.command = "task.create" => r.value.state = "planned"
        /\ r.command = "task.cancel" => r.value.state = "canceled"
\* the branch is named by the operation, or by the id of a bootstrap
ASSUME BranchAssumption ==
    \A r, q \in Requests :
        r.branch = q.branch =>
            \/ r.op = q.op
            \/ r.command = "bootstrap.propose" /\ q.command = "bootstrap.propose"
ASSUME MarkerAssumption == {"merge", "none"} \cap Operations = {}
ASSUME ControlVocabulary ==
    /\ {"lock", "base", "worktree", "attach", "scope", "write", "replace",
        "recapture", "status", "commit", "verify"} \subseteq Phases
    /\ {"proposal_prepared", "no_change"} \subseteq Results

Transitions ==
    [planned |-> {"planned", "ready", "canceled"},
     ready |-> {"ready", "active", "canceled"},
     active |-> {"active", "blocked", "needs_review", "canceled"},
     blocked |-> {"blocked", "active", "needs_review", "canceled"},
     needs_review |-> {"needs_review", "active", "done", "canceled"},
     done |-> {"done"},
     canceled |-> {"canceled"}]

Value(state, at) == [state |-> state, at |-> at]
Absent == Value("absent", 0)
ASSUME TreeAssumption ==
    \A tree \in Trees :
        /\ tree = [s \in Slots |-> tree[s]]
        /\ \A s \in TaskSlots : tree[s] = Absent \/ tree[s].state \in DOMAIN Transitions
        /\ tree["record"].state = "managed" => tree["config"].at = tree["record"].at

VARIABLES
    commits,   \* the object store, in the order of creation
    main,      \* the head of the default branch
    branch,    \* the heads of the operations' branches, 0 where there is none
    place,     \* their worktrees: whether there is one, what it holds, and
               \* whether a temporary file is left in it
    lock,      \* who holds the lock of a branch or of its task directory
    source     \* the init files in the repository's own worktree

controlVars == <<commits, main, branch, place, lock, source>>
vars == <<journalVars, controlVars>>

Commit(op, base, past, tree) ==
    [op |-> op, base |-> base, past |-> past, tree |-> tree]
NoPlace == [there |-> FALSE, tree |-> [s \in Slots |-> Absent], litter |-> FALSE]
NoOne == "nobody"
ASSUME NoOneAssumption == NoOne \notin Executors
Snapshot(head, default, version, dirty) ==
    [head |-> head, main |-> default, source |-> version, dirty |-> dirty]
Nothing == Snapshot(0, 0, 0, FALSE)

Tree(n) == commits[n].tree
Past(n) == commits[n].past \cup {n}
Branch(x) == exec[x].req.branch
BranchHead(x) == branch[Branch(x)]
Files(x) == place[Branch(x)]
Seen(x) == exec[x].seen
Does(x, command) == exec[x].req.command = command
TaskCall(x) == exec[x].req.command \in TaskCommands
PolicyCall(x) == exec[x].req.command \in PolicyCommands
BootstrapCall(x) == exec[x].req.command \in BootstrapCommands

TypeOK ==
    /\ JournalTypeOK
    /\ LET Numbers == 0 .. MaxCommits
           States == [Slots -> [state: STRING, at: Nat]]
       IN  /\ \A n \in DOMAIN commits :
                 /\ commits[n].op \in Operations \cup {"merge", "none"}
                 /\ commits[n].base \in Numbers
                 /\ commits[n].past \subseteq 1 .. n - 1
                 /\ commits[n].tree \in States
           /\ main \in DOMAIN commits
           /\ branch \in [Branches -> {0} \cup DOMAIN commits]
           /\ place \in [Branches -> [there: BOOLEAN, tree: States, litter: BOOLEAN]]
           /\ lock \in [Branches -> Executors \cup {NoOne}]
           /\ source \in Sources

Init ==
    /\ JournalInit
    /\ \E tree \in Trees : commits = <<Commit("none", 0, {}, tree)>>
    /\ main = 1
    /\ branch = [b \in Branches |-> 0]
    /\ place = [b \in Branches |-> NoPlace]
    /\ lock = [b \in Branches |-> NoOne]
    /\ source = 1

-----------------------------------------------------------------------------
(* What a request asks for.                                                 *)

(* capture_managed_init_manifest, and accepted_file_map.                    *)
Manifest(version) ==
    [s \in {"config", "record"} |->
        Value(IF s = "config" THEN "init" ELSE "bootstrapping", version)]
Accepted(version) == [Manifest(version) EXCEPT !["record"].state = "managed"]

Changes(r, version) ==
    CASE r.command = "bootstrap.propose" -> Manifest(version)
      [] r.command = "bootstrap.accept" -> Accepted(version)
      [] OTHER -> [s \in {r.slot} |-> r.value]

(* tree with the changes.                                                   *)
Over(changes, tree) ==
    [s \in Slots |-> IF s \in DOMAIN changes THEN changes[s] ELSE tree[s]]
Desired(x, tree) == Over(Changes(exec[x].req, Seen(x).source), tree)
Holds(tree, changes) == \A s \in DOMAIN changes : tree[s] = changes[s]

(* task_cancel, before it writes.                                           *)
Cancels(current) == current # Absent /\ current.state # "done"

(* task_update, before it writes.                                           *)
Updates(current, value) ==
    /\ current # Absent
    /\ value.state \in Transitions[current.state]
    /\ value = current \/ value.at > current.at

-----------------------------------------------------------------------------
(* The calls.                                                               *)

Hold == UNCHANGED <<journal, abandoned>>
Keep == UNCHANGED <<commits, main, branch, place, source>>
Release(x) == lock' = [b \in Branches |-> IF lock[b] = x THEN NoOne ELSE lock[b]]
Refuse(x) == Goto(x, "fail", "none") /\ Release(x) /\ Keep /\ Hold

(* The Project that the factory requires: a bootstrap command one that is   *)
(* not managed yet, every other one that is.  What a request names has been *)
(* seen by its client.                                                      *)
Claim(x, r) ==
    /\ (r.command \in BootstrapCommands) = (Tree(main)["record"].state # "managed")
    /\ r.base <= Len(commits)
    /\ Begin(x, r, "authorize")
    /\ UNCHANGED controlVars

AuthorizeActor(x) ==
    /\ Authorize(x, exec[x].req \notin Denied, IF TaskCall(x) THEN "base" ELSE "lock")
    /\ UNCHANGED controlVars

DenyActor(x) ==
    /\ Deny(x, exec[x].req \notin Denied)
    /\ UNCHANGED controlVars

Free(b) == lock[b] = NoOne

(* _exclusive of the control repositories and the bootstrap services.       *)
Lock(x) ==
    /\ exec[x].pc = "lock"
    /\ Free(Branch(x))
    /\ lock' = [lock EXCEPT ![Branch(x)] = x]
    /\ Goto(x, "base", "none")
    /\ Keep /\ Hold

(* validate_policy_operation_head: the branch is at the base, or has the    *)
(* one commit of this operation over it.                                    *)
ValidHead(r, n) ==
    \/ n = r.base
    \/ commits[n].op = r.op /\ commits[n].base = r.base

(* _verify_authoritative_inputs and the checks of bootstrap.propose.        *)
ValidInputs(x) ==
    LET r == exec[x].req
        Same(n) == Holds(Tree(n), Manifest(source))
    IN  IF Does(x, "bootstrap.propose")
        THEN Tree(r.base)["record"] = Absent
        ELSE /\ Tree(main)["record"] = Absent \/ Same(main)
             /\ main \in Past(r.base)
             /\ Same(r.base)

(* Mutant: the branch is opened over whatever the default branch is.        *)
BaseAny(r) == TRUE

(* _require_current_default.                                                *)
BaseIsCurrent(r) == main = r.base

(* The base and the branch are resolved.  A task command takes the default  *)
(* branch as it is, every other one the base that it names.                 *)
ResolveBase(x) ==
    LET r == exec[x].req
        head == IF BranchHead(x) # 0 THEN BranchHead(x) ELSE IF TaskCall(x) THEN main ELSE r.base
    IN  /\ exec[x].pc = "base"
        /\ IF \/ BootstrapCall(x) /\ ~ ValidInputs(x)
              \/ PolicyCall(x) /\ BranchHead(x) # 0 /\ ~ ValidHead(r, BranchHead(x))
              \/ /\ PolicyCall(x) \/ Does(x, "bootstrap.propose")
                 /\ BranchHead(x) = 0 /\ ~ BaseIsCurrent(r)
           THEN Refuse(x)
           ELSE /\ Read(x, "worktree",
                        IF BootstrapCall(x)
                        THEN Snapshot(head, IF Does(x, "bootstrap.accept") THEN main ELSE r.base,
                                      source, FALSE)
                        ELSE Snapshot(head, 0, 0, FALSE))
                /\ Keep /\ Hold /\ UNCHANGED lock

(* create_or_observe: what is there must be this head in this worktree.     *)
(* "git worktree add -b" makes the branch, then the worktree.  A branch     *)
(* without one is attached, except by a task command.                       *)
Worktree(x) ==
    LET b == Branch(x)
    IN  /\ exec[x].pc = "worktree"
        /\ \/ /\ branch[b] = 0 /\ ~ place[b].there
              /\ branch' = [branch EXCEPT ![b] = Seen(x).head]
              /\ Read(x, "attach", Seen(x))
              /\ UNCHANGED <<commits, main, place, source, lock>> /\ Hold
           \/ /\ branch[b] = Seen(x).head /\ place[b].there
              /\ Read(x, "scope", Seen(x))
              /\ Keep /\ Hold /\ UNCHANGED lock
           \/ /\ branch[b] = Seen(x).head /\ ~ place[b].there /\ ~ TaskCall(x)
              /\ Read(x, "attach", Seen(x))
              /\ Keep /\ Hold /\ UNCHANGED lock
           \/ /\ branch[b] # 0
              /\ \/ branch[b] # Seen(x).head
                 \/ TaskCall(x) /\ ~ place[b].there
              /\ Refuse(x)

Attach(x) ==
    LET b == Branch(x)
    IN  /\ exec[x].pc = "attach"
        /\ place' = [place EXCEPT ![b] =
              [there |-> TRUE, tree |-> Tree(branch[b]), litter |-> FALSE]]
        /\ Read(x, "scope", Seen(x))
        /\ UNCHANGED <<commits, main, branch, source, lock>> /\ Hold

(* _verify_commit of the bootstrap adapters: the marker, the parent and the *)
(* digest of the manifest.                                                  *)
VerifiedCommit(x) ==
    LET commit == commits[BranchHead(x)]
    IN  /\ commit.op = exec[x].req.op
        /\ commit.base = exec[x].req.base
        /\ Holds(commit.tree, Changes(exec[x].req, Seen(x).source))

Clean(x) == Files(x).tree = Tree(BranchHead(x)) /\ ~ Files(x).litter
Prepared(x) ==
    Goto(x, "effect", "proposal_prepared") /\ Release(x) /\ Keep /\ Hold

(* observe and observe_prepared: the commit is there already, or the files  *)
(* are to be written.                                                       *)
ObserveBootstrap(x) ==
    /\ exec[x].pc = "scope"
    /\ BootstrapCall(x)
    /\ \/ /\ BranchHead(x) # exec[x].req.base
          /\ IF Clean(x) /\ VerifiedCommit(x) THEN Prepared(x) ELSE Refuse(x)
       \/ /\ BranchHead(x) = exec[x].req.base
          /\ IF Does(x, "bootstrap.propose") /\ ~ BaseIsCurrent(exec[x].req)
             THEN Refuse(x)
             ELSE Read(x, "write", Seen(x)) /\ Keep /\ Hold /\ UNCHANGED lock

(* require_policy_worktree_scope: nothing but the record differs.           *)
ScopePolicy(x) ==
    /\ exec[x].pc = "scope"
    /\ PolicyCall(x)
    /\ IF Files(x).litter THEN Refuse(x)
       ELSE /\ IF Files(x).tree = Desired(x, Tree(exec[x].req.base))
               THEN Goto(x, "status", "none") ELSE Goto(x, "write", "none")
            /\ Keep /\ Hold /\ UNCHANGED lock

(* task_create, task_update and task_cancel, before the lock.  An update    *)
(* that finds its replacement there ends with no_change.                    *)
LoadTask(x) ==
    LET r == exec[x].req
        current == Files(x).tree[r.slot]
        Continue(pc, result) == Goto(x, pc, result) /\ Keep /\ Hold /\ UNCHANGED lock
    IN  /\ exec[x].pc = "scope"
        /\ TaskCall(x)
        /\ CASE r.command = "task.create" -> Continue("write", "none")
             [] r.command = "task.update" ->
                   IF ~ Updates(current, r.value) THEN Refuse(x)
                   ELSE IF current = r.value THEN Continue("effect", "no_change")
                   ELSE Continue("write", "none")
             [] r.command = "task.cancel" ->
                   IF ~ Cancels(current) THEN Refuse(x)
                   ELSE IF current.state = "canceled" THEN Continue("status", "none")
                   ELSE Continue("write", "none")

(* TaskRecordRepository.create and replace under the lock: the key is not   *)
(* taken, and the record is the one that the client saw.                    *)
MayCreate(x) ==
    LET slot == exec[x].req.slot
    IN  /\ Files(x).tree[slot] = Absent /\ ~ Files(x).litter
        /\ \A s \in TaskSlots \ {slot} :
              Files(x).tree[s] # Absent => KeyOf[s] # KeyOf[slot]

(* Mutant: the digest that the client saw is not compared.                  *)
UnchangedAny(x) == TRUE

UnchangedSince(x) == Files(x).tree[exec[x].req.slot] = exec[x].req.expected

WriteTask(x) ==
    LET r == exec[x].req
        b == Branch(x)
    IN  /\ exec[x].pc = "write"
        /\ TaskCall(x)
        /\ Free(b)
        /\ IF r.command = "task.create" /\ Files(x).tree[r.slot] = r.value
           THEN Goto(x, "status", "none") /\ Keep /\ UNCHANGED lock /\ Hold
           ELSE IF \/ r.command = "task.create" /\ ~ MayCreate(x)
                   \/ r.command # "task.create" /\ ~ UnchangedSince(x)
           THEN Refuse(x)
           ELSE /\ lock' = [lock EXCEPT ![b] = x]
                /\ place' = [place EXCEPT ![b].litter = TRUE]
                /\ Goto(x, "replace", "none")
                /\ UNCHANGED <<commits, main, branch, source>> /\ Hold

WritePolicy(x) ==
    /\ exec[x].pc = "write"
    /\ PolicyCall(x)
    /\ place' = [place EXCEPT ![Branch(x)].litter = TRUE]
    /\ Goto(x, "replace", "none")
    /\ UNCHANGED <<commits, main, branch, source, lock>> /\ Hold

(* The temporary file takes the record's place.                             *)
Replace(x) ==
    LET b == Branch(x)
    IN  /\ exec[x].pc = "replace"
        /\ place' = [place EXCEPT ![b].litter = FALSE, ![b].tree = Desired(x, @)]
        /\ IF TaskCall(x) THEN Release(x) ELSE UNCHANGED lock
        /\ Goto(x, "status", "none")
        /\ UNCHANGED <<commits, main, branch, source>> /\ Hold

(* _write_files: one file at a time, its temporary outside the worktree.    *)
WriteBootstrap(x) ==
    LET b == Branch(x)
        changes == Changes(exec[x].req, Seen(x).source)
    IN  /\ exec[x].pc = "write"
        /\ BootstrapCall(x)
        /\ \/ /\ Holds(place[b].tree, changes)
              /\ Read(x, "recapture", Seen(x))
              /\ UNCHANGED place
           \/ \E s \in DOMAIN changes :
                 /\ place[b].tree[s] # changes[s]
                 /\ s = "record" => place[b].tree["config"] = changes["config"]
                 /\ place' = [place EXCEPT ![b].tree[s] = changes[s]]
                 /\ UNCHANGED exec
        /\ UNCHANGED <<commits, main, branch, source, lock>> /\ Hold

SameInputs(x) == source = Seen(x).source /\ main = Seen(x).main

Recapture(x) ==
    /\ exec[x].pc = "recapture"
    /\ IF SameInputs(x)
       THEN Read(x, "commit", [Seen(x) EXCEPT !.dirty = TRUE]) /\ Keep /\ Hold /\ UNCHANGED lock
       ELSE Refuse(x)

(* git status, which must show nothing but the record.                      *)
Status(x) ==
    /\ exec[x].pc = "status"
    /\ IF Files(x).litter THEN Refuse(x)
       ELSE /\ Read(x, "commit", Snapshot(0, 0, 0, ~ Clean(x)))
            /\ Keep /\ Hold /\ UNCHANGED lock

(* Someone else may be at the same commit.                                  *)
Raced(x) ==
    \E y \in Executors \ {x} : exec[y].pc \in {"commit", "verify"} /\ Branch(y) = Branch(x)

(* git add and git commit.                                                  *)
CommitFiles(x) ==
    LET b == Branch(x)
        n == Len(commits) + 1
    IN  /\ exec[x].pc = "commit"
        /\ \/ /\ Seen(x).dirty /\ ~ Clean(x)
              /\ n <= MaxCommits
              /\ commits' = Append(commits,
                    Commit(exec[x].req.op, branch[b], Past(branch[b]), place[b].tree))
              /\ branch' = [branch EXCEPT ![b] = n]
              /\ Goto(x, "verify", "none")
              /\ UNCHANGED <<main, place, source, lock>> /\ Hold
           \/ /\ ~ Seen(x).dirty \/ Clean(x)
              /\ Goto(x, "verify", "none")
              /\ Keep /\ Hold /\ UNCHANGED lock
           \/ Seen(x).dirty /\ Raced(x) /\ Refuse(x)

(* Mutant: whatever the branch has is this operation's.                     *)
EffectAny(x) == TRUE

(* _effect_applied: the commit has the marker of the operation.             *)
Effect(x) == commits[BranchHead(x)].op = exec[x].req.op

Verify(x) ==
    /\ exec[x].pc = "verify"
    /\ IF Effect(x)
       THEN IF Tree(BranchHead(x)) = Files(x).tree THEN Prepared(x) ELSE Refuse(x)
       ELSE Goto(x, "effect", "no_change") /\ Release(x) /\ Keep /\ Hold

RecordProposal(x) ==
    /\ exec[x].pc = "effect"
    /\ RecordAlways(x, "effect_persisted", exec[x].verdict)

CallStep(x) ==
    \/ AuthorizeActor(x) \/ DenyActor(x) \/ Lock(x) \/ ResolveBase(x)
    \/ Worktree(x) \/ Attach(x) \/ ObserveBootstrap(x) \/ ScopePolicy(x)
    \/ LoadTask(x) \/ WriteTask(x) \/ WritePolicy(x) \/ Replace(x)
    \/ WriteBootstrap(x) \/ Recapture(x) \/ Status(x) \/ CommitFiles(x) \/ Verify(x)
    \/ (RecordProposal(x) \/ RecordFailure(x) \/ Finish(x)) /\ UNCHANGED controlVars

-----------------------------------------------------------------------------
(* The processes and the repository around them.                            *)

Die(x) ==
    /\ Abandon(x)
    /\ Release(x)
    /\ Keep

(* The manager merges a proposal, where no file of it has changed on both   *)
(* sides.                                                                   *)
Fork(n) == CHOOSE f \in Past(n) \cap Past(main) :
              \A g \in Past(n) \cap Past(main) : g <= f
ChangedFiles(n, fork) == {FileOf[s] : s \in {s \in Slots : Tree(n)[s] # Tree(fork)[s]}}
Merge(b) ==
    LET n == branch[b]
        fork == Fork(n)
        files == ChangedFiles(n, fork)
    IN  /\ n # 0 /\ n \notin Past(main)
        /\ Len(commits) < MaxCommits
        /\ files \cap ChangedFiles(main, fork) = {}
        /\ commits' = Append(commits,
              Commit("merge", main, Past(n) \cup Past(main),
                     [s \in Slots |-> IF FileOf[s] \in files THEN Tree(n)[s] ELSE Tree(main)[s]]))
        /\ main' = Len(commits) + 1
        /\ UNCHANGED <<journalVars, branch, place, lock, source>>

(* init is run again, by another version or for another key.                *)
InitAgain ==
    /\ Tree(main)["record"] = Absent
    /\ source + 1 \in Sources
    /\ source' = source + 1
    /\ UNCHANGED <<journalVars, commits, main, branch, place, lock>>

Next ==
    \/ \E x \in Executors : \E r \in Requests : Claim(x, r)
    \/ \E x \in Executors : CallStep(x) \/ Die(x)
    \/ \E b \in Branches : Merge(b)
    \/ InitAgain

Spec == Init /\ [][Next]_vars
-----------------------------------------------------------------------------
RequestOf(o) == journal[o].request
Proposal(n) == commits[n].op \in Operations

(* A proposal is one commit of its operation over the base that was asked   *)
(* for, and changes exactly the requested records, in a step that the Task  *)
(* policy permits from what the client saw, however often and by whomever   *)
(* the call was repeated or cut off.                                        *)
ProposalIsExact ==
    \A n \in DOMAIN commits :
        Proposal(n) =>
            LET r == RequestOf(commits[n].op)
                base == Tree(commits[n].base)
            IN  /\ \A m \in DOMAIN commits : commits[m].op = commits[n].op => m = n
                /\ r \notin Denied
                /\ r.command \notin TaskCommands => commits[n].base = r.base
                /\ \E version \in Sources :
                      Tree(n) = Over(Changes(r, version), base)
                /\ r.command = "task.create" => base[r.slot] = Absent
                /\ r.command \in {"task.update", "task.cancel"} =>
                      base[r.slot] = r.expected
                /\ r.command = "bootstrap.accept" =>
                      Holds(base, Manifest(Tree(n)["record"].at))

(* A proposal that is reported is the head of its branch, and a call that   *)
(* reports no change has nothing to propose.  (An update that was cut off    *)
(* after its write and is repeated is the exception.)                       *)
SuccessIsProposed ==
    \A o \in Operations :
        LET r == RequestOf(o)
        IN  /\ journal[o].result = "proposal_prepared" =>
                  commits[branch[r.branch]].op = o
            /\ journal[o].result = "no_change" /\ r.command # "task.update" =>
                  /\ branch[r.branch] # 0
                  /\ IF r.command = "task.cancel"
                     THEN Tree(branch[r.branch])[r.slot].state = "canceled"
                     ELSE Holds(Tree(branch[r.branch]), Changes(r, source))
                  /\ ~ \E n \in DOMAIN commits : commits[n].op = o

(* What is merged moves every Task as its policy permits from what it was   *)
(* on the default branch, changes the records of one file, and leaves a     *)
(* managed Project with the configuration it was accepted with.             *)
MergesAreLegal ==
    [][LET old == Tree(main)
           new == commits'[main'].tree
       IN  /\ \A s \in TaskSlots :
                 /\ old[s] # Absent => new[s].state \in Transitions[old[s].state]
                 /\ old[s] = Absent => new[s].state \in {"absent", "planned"}
           /\ \A s, t \in Slots :
                 new[s] # old[s] /\ new[t] # old[t] => FileOf[s] = FileOf[t]
           /\ new["record"].state = "managed" =>
                 new["config"].at = new["record"].at]_main

=============================================================================
